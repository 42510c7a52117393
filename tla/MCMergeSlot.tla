---------------------------- MODULE MCMergeSlot ----------------------------
(***************************************************************************)
(* MergeSlot on a few agents.  The agents are interchangeable: nothing in  *)
(* the module names or orders them.                                        *)
(***************************************************************************)
EXTENDS MergeSlot, TLC

Symmetry == Permutations(Agents)
=============================================================================
