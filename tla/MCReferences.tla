----------------------------- MODULE MCReferences -----------------------------
(***************************************************************************)
(* Small instances of the two components about edges as such, side by      *)
(* side: what keeps rows and edges together, and the searches for cycles.  *)
(* Each behaviour is one of a single component: the first state says       *)
(* which, the other rests.                                                 *)
(***************************************************************************)
EXTENDS References, CycleSearch, TLC

CONSTANTS a, b, c   \* a and b have one prefix, c another

VARIABLE part

edgeVars == <<vars, searchVars, part>>

EdgesInit ==
    /\ part \in {"references", "cycles"}
    /\ Init /\ SearchInit
    /\ part # "cycles" => graph = {} /\ existing = {} /\ phase = "roots"

\* A search that has answered is over.
Over == phase \in {"detected", "answered"} /\ UNCHANGED searchVars

EdgesNext ==
    /\ UNCHANGED part
    /\ IF part = "references" THEN Next ELSE UNCHANGED vars
    /\ IF part = "cycles" THEN SearchNext \/ Over ELSE UNCHANGED searchVars

EdgesSpec == EdgesInit /\ [][EdgesNext]_edgeVars

OtherPrefix == {<<a, c>>, <<c, a>>, <<b, c>>, <<c, b>>}

\* An edge from the other prefix comes only by a renaming.
Related == {a, b} \X {a, b, c}

\* Neither prefixes nor graphs tell a from b.
Alike == Permutations({a, b})
===============================================================================
