------------------------------ MODULE WorkQueries ------------------------------
(***************************************************************************)
(* The queries that tell people what to work on, over the tables of        *)
(* BlockedState.  They read the stored flag, and beside it statuses and    *)
(* edges; each was written apart from the statements that keep the flag.   *)
(*                                                                         *)
(* Filters by type, label, priority and assignee, orders and limits are    *)
(* left out, and so is the fallback that takes a dotted id for a child.    *)
(* No edge here is of the type conditional-blocks.                         *)
(***************************************************************************)
EXTENDS BlockedState, FiniteSets

-------------------------------------------------------------------------------
(* Ready work *)

\* getChildrenOfDeferredParentsInTx: the children, not the grandchildren, of
\* rows whose defer_until lies ahead.
ChildrenOfDeferred(deferred) == UNION {Children(dep, p) : p \in deferred}

Deferred(deferred) == deferred \cup ChildrenOfDeferred(deferred)

\* BuildReadyWorkWhere on the issues table.
ReadyIssues(deferred) ==
    {i \in Issues \ wisps : Active(i) /\ ~isBlocked[i]} \ Deferred(deferred)

\* Mutant: wisps are taken as their search returns them.
ReadyWispsUnfiltered(deferred) == {i \in wisps : Active(i)} \ Deferred(deferred)

\* readyWorkWispIssueFilter finds the active wisps; filterReadyWispsInTx drops
\* the deferred and, in a query of its own, the blocked ones.
ReadyWisps(deferred) ==
    {i \in wisps : Active(i)}
        \ (Deferred(deferred) \cup {i \in wisps : isBlocked[i]})

\* getReadyWorkInTx; wisps are asked for with IncludeEphemeral.
ReadyWork(deferred, includeEphemeral) ==
    ReadyIssues(deferred)
    \cup IF includeEphemeral THEN ReadyWisps(deferred) ELSE {}

\* getReadyWorkWithCountsInTx asks both tables with the same predicates, but the
\* second only where there are wisps.
ReadyWorkWithCounts(deferred, includeEphemeral) ==
    {i \in Issues : /\ i \in wisps => includeEphemeral /\ WispRows # {}
                    /\ Active(i) /\ ~isBlocked[i]} \ Deferred(deferred)

-------------------------------------------------------------------------------
(* Blocked work *)

\* The blockers IsBlockedInTx and GetBlockedIssuesInTx name: active targets of
\* blocking and waits-for edges, whatever the gate says.
NamedBlockers(i) ==
    {j \in Issues : dep[<<i, j>>] \in {"blocks"} \cup WaitsFor /\ Active(j)}

Parents(i) == {j \in Issues : dep[<<i, j>>] = "child"}

\* Mutant: a row that is blocked through its parent is not listed.
BlockedListOwn ==
    {e \in Issues \X Issues :
        /\ Active(e[1]) /\ isBlocked[e[1]]
        /\ e[2] \in NamedBlockers(e[1])}

\* GetBlockedIssuesInTx, as pairs of a row and a blocker listed with it.  A row
\* without a named blocker is listed under a parent; with several, under any.
BlockedList ==
    {e \in Issues \X Issues :
        /\ Active(e[1]) /\ isBlocked[e[1]]
        /\ \/ e[2] \in NamedBlockers(e[1])
           \/ NamedBlockers(e[1]) = {} /\ e[2] \in Parents(e[1])}

\* GetNewlyUnblockedByCloseInTx.
NewlyUnblockedByClose(k) ==
    {i \in Issues :
        /\ Active(i) /\ dep[<<i, k>>] = "blocks"
        /\ ~\E j \in Issues \ {k} : dep[<<i, j>>] = "blocks" /\ Active(j)}

-------------------------------------------------------------------------------
(* Epics *)

\* GetEpicsEligibleForClosureInTx.  A child whose row is gone still counts, as
\* one that is not closed.
EligibleForClose(e) ==
    /\ Present(e) /\ e \notin wisps /\ status[e] # "closed"
    /\ Children(dep, e) # {}
    /\ \A c \in Children(dep, e) : status[c] = "closed"

\* GetMoleculeProgressInTx: of the children, those in the table of the molecule count.
Steps(m) == {c \in Children(dep, m) : Present(c) /\ (c \in wisps <=> m \in WispRows)}

MoleculeProgress(m) ==
    [total |-> Cardinality(Steps(m)),
     completed |-> Cardinality({c \in Steps(m) : status[c] = "closed"})]

-------------------------------------------------------------------------------
(* Properties *)

\* The rows that are blocked by definition: the least set that holds the active
\* rows with an active blocker, those held at a gate and those whose parent is
\* in it.
ClosedUnderBlocking(T) ==
    \A i \in Issues :
        Active(i) /\ (ActiveBlocker(i) \/ HeldAtGate(i) \/ Parents(i) \cap T # {})
        => i \in T

BlockedByDefinition ==
    LET closed == {T \in SUBSET Issues : ClosedUnderBlocking(T)}
    IN  {i \in Issues : \A T \in closed : i \in T}

NothingLeft(m) == MoleculeProgress(m).completed = MoleculeProgress(m).total

\* Ready work is exactly what can be worked on: the active rows which the graph,
\* read from nothing, does not block, less what is deferred.  The stored flags
\* and the loop that keeps them are nowhere in that definition.  The query with
\* counts, which has a way of its own to the wisps, finds the same.
ReadyIsUnblocked ==
    pc = "idle" =>
        LET blocked == BlockedByDefinition
        IN  \A deferred \in SUBSET Issues :
            /\ ReadyWork(deferred, TRUE) =
                   {i \in Issues : Active(i)} \ (blocked \cup Deferred(deferred))
            /\ \A eph \in BOOLEAN :
                   ReadyWorkWithCounts(deferred, eph) = ReadyWork(deferred, eph)

\* Whoever is blocked can find out by what: each blocked row is listed, with
\* blockers that are active themselves, unless a gate holds it whose spawner is
\* closed or gone; such a row is neither ready nor, perhaps, listed.
BlockedAreListed ==
    pc = "idle" =>
        /\ \A i \in Issues :
               isBlocked[i] /\ ~HeldAtGate(i) => \E j \in Issues : <<i, j>> \in BlockedList
        /\ \A e \in BlockedList : Active(e[2]) \/ HeldAtGate(e[1])

\* What is announced as unblocked by a closing can be started, as long as it has
\* neither a parent nor a gate to wait at.
UnblockedAreReady ==
    pc = "idle" =>
        \A k, i \in Issues :
            /\ i \in NewlyUnblockedByClose(k) /\ ~Active(k)
            /\ \A j \in Issues : dep[<<i, j>>] \in {"none", "blocks"}
            => i \in ReadyWork({}, TRUE)

\* What the queries say of blocked work: listed with a reason, and announced when
\* it is free.
BlockedWorkExplained == BlockedAreListed /\ UnblockedAreReady

\* An epic that is offered for closure holds up nobody who waits for its
\* children, under whichever gate, and nothing of its progress is left; the
\* other way round this is so where no child is in the other table or gone.
EligibleEpicHoldsNobody ==
    pc = "idle" =>
        /\ \A e, i \in Issues :
               /\ EligibleForClose(e) /\ dep[<<i, e>>] \in WaitsFor
               /\ \A j \in Issues \ {e} : dep[<<i, j>>] = "none"
               => ~isBlocked[i]
        /\ \A e \in Issues : EligibleForClose(e) => NothingLeft(e)
        /\ \A e \in Issues \ wisps :
               /\ Active(e) /\ NothingLeft(e)
               /\ Steps(e) = Children(dep, e) /\ Steps(e) # {}
               => EligibleForClose(e)

\* What the queries say of free work: ready, and epics that hold nobody.
FreeWorkIsFree == ReadyIsUnblocked /\ EligibleEpicHoldsNobody
===============================================================================
