------------------------------- MODULE MCSync -------------------------------
(* Two clones that write one memory each. *)
EXTENDS FederationSync

OneMemory == {<<{"memory"}, 2>>}
=============================================================================
