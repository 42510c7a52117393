---------------------------- MODULE MCBlockedState ----------------------------
(* Instances of BlockedState and of its queries for the model checker: four ids and, for each
   question, the edges that clients may add between them. *)
EXTENDS WorkQueries, EdgeQueries

CONSTANTS w, p, c, b

\* w waits for the children of p; c and b are children of p; b blocks c.
Fanout ==
    {<<w, p, "all">>, <<w, p, "any">>, <<c, p, "child">>, <<b, p, "child">>,
     <<c, b, "blocks">>}

\* b blocks p, which has the child c, which has the child w; c may block b, and
\* p may block c, so that a blocking cycle is only a refused edge away.
Chain ==
    {<<p, b, "blocks">>, <<c, p, "child">>, <<w, c, "child">>,
     <<b, c, "blocks">>, <<c, p, "blocks">>}
===============================================================================
