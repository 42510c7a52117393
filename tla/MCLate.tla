------------------------------- MODULE MCLate -------------------------------
(* Two clones that write an issue, a label of it and a memory once each. *)
EXTENDS MergeSettle

OneOfEach == {<<{"issue", "label", "memory"}, 3>>}
=============================================================================
