---------------------------- MODULE MCMergedFlags ----------------------------
(* Three ids for the model checker: w waits for the children of p, of which c is one, and may
   block either of them. *)
EXTENDS MergedFlags

CONSTANTS w, p, c

Family == {<<c, p, "child">>, <<w, p, "all">>, <<p, w, "blocks">>}
==============================================================================
