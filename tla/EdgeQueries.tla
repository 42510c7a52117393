------------------------------ MODULE EdgeQueries ------------------------------
(***************************************************************************)
(* The queries that show edges, over the tables of BlockedState: who       *)
(* blocks whom, the counts, and the two ends of an edge.  Each reads the   *)
(* tables its own way: an edge is in the table of its source, dependencies *)
(* or wisp_dependencies, and stays there when the source is deleted.       *)
(*                                                                         *)
(* The batches of large queries, metadata and labels of what they return   *)
(* are left out.                                                           *)
(***************************************************************************)
EXTENDS BlockedState, FiniteSets

-------------------------------------------------------------------------------
(* Who blocks whom *)

NotClosed(i) == status[i] # "closed"

\* GetAllDependencyRecordsInTx, and GetDependencyRecordsForIssuesInTx: an id without
\* a row in wisps is looked for in dependencies.
AllRecords == {e \in Issues \X Issues : dep[e] # "none"}
Records(i) == {j \in Issues : (i \in wisps => Present(i)) /\ dep[<<i, j>>] # "none"}

\* Mutant: every id is looked for in the dependencies table.
BlockedByIssuesOnly(i) ==
    {j \in Issues : i \notin wisps /\ dep[<<i, j>>] = "blocks" /\ NotClosed(j)}

\* blockedByMap of GetBlockingInfoForIssuesInTx, which looks where Records does.
BlockedBy(i) ==
    {j \in Issues : (i \in wisps => Present(i)) /\ dep[<<i, j>>] = "blocks" /\ NotClosed(j)}

\* blocksMap, over both tables.
Blocks(j) == {i \in Issues : dep[<<i, j>>] = "blocks" /\ NotClosed(j)}

\* GetDependenciesWithMetadataInTx and GetDependentsWithMetadataInTx: the ends
\* that have a row, over both tables.
Dependencies(i) == {j \in Issues : dep[<<i, j>>] # "none" /\ Present(j)}
PresentDependents(j) == {i \in Issues : dep[<<i, j>>] # "none" /\ Present(i)}

-------------------------------------------------------------------------------
(* Counts *)

\* GetDependencyCountsInTx, which leaves wisp_dependencies out while there are no wisps.
Counted(i) == i \in wisps => WispRows # {}

DependencyCount(i) == Cardinality({j \in Issues : dep[<<i, j>>] = "blocks" /\ Counted(i)})
DependentCount(j) == Cardinality({i \in Issues : dep[<<i, j>>] = "blocks" /\ Counted(i)})

\* dep_count and rdep_count beside each row of a search or of ready work
\* (SearchCountsSQLDialect): the table of the row, and both tables.
DepCount(i) == Cardinality({j \in Issues : dep[<<i, j>>] = "blocks"})
RdepCount(j) == Cardinality({i \in Issues : dep[<<i, j>>] = "blocks"})

-------------------------------------------------------------------------------
(* Properties *)

\* The two directions agree: an issue is shown as blocked by those that are
\* shown as blocking it, the active blockers, to which it owes its flag, among
\* them; the records and the dependents agree with the dependencies; and no count is less than
\* what is listed, as long as there is a wisp.
DirectionsAgree ==
    pc = "idle" =>
        \A i, j \in Issues : Present(i) =>
            /\ j \in BlockedBy(i) <=> i \in Blocks(j)
            /\ dep[<<i, j>>] = "blocks" /\ Active(j) => j \in BlockedBy(i)
            /\ j \in Records(i) <=> <<i, j>> \in AllRecords
            /\ Present(j) => (j \in Dependencies(i) <=> i \in PresentDependents(j))
            /\ DependencyCount(i) = DepCount(i)
            /\ DependencyCount(i) >= Cardinality(BlockedBy(i))
            /\ RdepCount(j) >= Cardinality(Blocks(j))
            /\ WispRows # {} => DependentCount(j) = RdepCount(j)
===============================================================================
