----------------------------- MODULE BlockedState -----------------------------
(***************************************************************************)
(* The denormalized is_blocked column and its upkeep.                      *)
(*                                                                         *)
(* Ready work is selected by a stored flag, is_blocked.  Every operation   *)
(* that changes a status or a dependency computes the ids whose flag may   *)
(* change and runs a loop of UPDATE statements over exactly those ids      *)
(* until a round changes nothing.  All of it happens in one write          *)
(* transaction: an operation starts only when no other loop runs, and its  *)
(* result is visible when pc is "idle" again.                              *)
(*                                                                         *)
(* dep[<<i, j>>] is the edge by which i depends on j.  Edges outlive their *)
(* issues: no foreign key is enforced.                                     *)
(***************************************************************************)
EXTENDS Integers

CONSTANTS
    Issues,       \* the ids in use, of both tables
    WispIds,      \* the ids that clients create wisps with
    MayRelate,    \* the edges <<i, j, kind>> that clients add
    Gaps          \* the edits, of AllGaps, that clients make although the
                  \* code does not compute all the ids they affect

\* An update from closed to pinned or back of a child that somebody waits for;
\* adding a waits-for edge again with another gate; writing a row, over an old
\* one or anew, on which other rows depend; a new issue whose record brings the
\* parent-child edge to an issue that somebody waits for.
AllGaps == {"pinClose", "regate", "overwrite", "inlineChild"}

\* A waits-for edge is one kind per gate: "unset" has no gate in its metadata.
WaitsFor == {"all", "any", "unset"}
Kinds == {"blocks", "child"} \cup WaitsFor

ASSUME WispIdsAssumption == WispIds \subseteq Issues
ASSUME MayRelateAssumption == MayRelate \subseteq Issues \X Issues \X Kinds
ASSUME GapsAssumption == Gaps \subseteq AllGaps

VARIABLES
    status,       \* status of each row; "open" stands for every active one
    wisps,        \* the ids whose row is in the wisps table
    dep,          \* the two dependency tables
    isBlocked,    \* the stored flag
    pc,           \* the statement of the loop that runs next
    mode,         \* whether the loop marks and unmarks or only marks
    todo,         \* the ids the loop runs over
    changed       \* some statement of this round changed a row

vars == <<status, wisps, dep, isBlocked, pc, mode, todo, changed>>
loopVars == <<pc, mode, todo, changed>>

Statuses == {"open", "closed", "pinned"}

Init ==
    /\ status = [i \in Issues |-> "absent"]
    /\ wisps = {}
    /\ dep = [e \in Issues \X Issues |-> "none"]
    /\ isBlocked = [i \in Issues |-> FALSE]
    /\ pc = "idle"
    /\ mode = "recompute"
    /\ todo = {}
    /\ changed = FALSE

-------------------------------------------------------------------------------
(* What the UPDATE statements compute *)

Active(i) == status[i] = "open"

Children(d, j) == {c \in Issues : d[<<c, j>>] = "child"}

ActiveBlocker(i) == \E j \in Issues : dep[<<i, j>>] = "blocks" /\ Active(j)

BlockedParent(i) == \E j \in Issues : dep[<<i, j>>] = "child" /\ isBlocked[j]

\* waitsForGateBlockedSQL.  The gate is compared with 'any-children' inside a
\* NOT; without a gate the comparison is NULL, and a closed child releases the
\* waiter just as under any-children.
HeldAtGate(i) ==
    \E j \in Issues :
        /\ dep[<<i, j>>] \in WaitsFor
        /\ \E c \in Children(dep, j) : Active(c)
        /\ \/ dep[<<i, j>>] = "all"
           \/ \A c \in Children(dep, j) : status[c] # "closed"

ShouldBeBlocked(i) ==
    /\ Active(i)
    /\ ActiveBlocker(i) \/ BlockedParent(i) \/ HeldAtGate(i)

\* The rows CountIsBlockedInconsistenciesInTx counts: to be marked or to be unmarked.
StaleFlags == {i \in Issues : isBlocked[i] # ShouldBeBlocked(i)}

-------------------------------------------------------------------------------
(* Which ids an edit affects *)

ChildClosed(d, S) == \A p \in S : Children(d, p) \subseteq S

\* Mutant: only the children, not their children.
ExpandOneLevel(d, S) == S \cup UNION {Children(d, p) : p \in S}

\* expandByParentChildDescendantsInTx: S with all its descendants.
Expand(d, S) ==
    LET closed == {T \in {S \cup R : R \in SUBSET (Issues \ S)} : ChildClosed(d, T)}
    IN  {i \in Issues : \A T \in closed : i \in T}

BlockingDependers(d, j) == {i \in Issues : d[<<i, j>>] = "blocks"}

Waiters(d, j) == {i \in Issues : d[<<i, j>>] \in WaitsFor}

Dependents(j) == {i \in Issues : dep[<<i, j>>] # "none"}

WaitersOnParents(d, c) ==
    UNION {Waiters(d, p) : p \in {q \in Issues : d[<<c, q>>] = "child"}}

AffectedByStatusChange(i) ==
    Expand(dep, {i} \cup BlockingDependers(dep, i) \cup WaitersOnParents(dep, i))

\* An edge of the given kind from i to j was added or removed, leaving d.
AffectedByDepChange(d, i, j, kind) ==
    Expand(d, {i} \cup (IF kind = "child" THEN Waiters(d, j) ELSE {}))

\* Computed before the rows go; the deleted ids themselves are not in the list.
AffectedByDeletion(S) ==
    Expand(dep, S \cup UNION {BlockingDependers(dep, i) \cup Waiters(dep, i)
                                \cup WaitersOnParents(dep, i)
                                \cup Children(dep, i) : i \in S}) \ S

-------------------------------------------------------------------------------
(* The loop: RecomputeIsBlockedSQLiteInTx and MarkIsBlockedSQLiteInTx *)

\* With no ids both return at once.
Run(m, S) ==
    /\ mode' = IF S = {} THEN "recompute" ELSE m
    /\ todo' = S
    /\ pc' = IF S = {} THEN "idle" ELSE "markIssues"
    /\ changed' = FALSE

Recompute(S) == Run("recompute", S)

Mark(table, here, next) ==
    LET hit == {i \in todo \cap table : ~isBlocked[i] /\ ShouldBeBlocked(i)}
    IN  /\ pc = here
        /\ isBlocked' = [i \in Issues |-> isBlocked[i] \/ i \in hit]
        /\ changed' = (changed \/ hit # {})
        /\ pc' = next
        /\ UNCHANGED <<status, wisps, dep, mode, todo>>

Unmark(table, here, next) ==
    LET hit == {i \in todo \cap table : isBlocked[i] /\ ~ShouldBeBlocked(i)}
    IN  /\ pc = here
        /\ isBlocked' = [i \in Issues |-> isBlocked[i] /\ i \notin hit]
        /\ changed' = (changed \/ hit # {})
        /\ pc' = next
        /\ UNCHANGED <<status, wisps, dep, mode, todo>>

MarkIssues ==
    Mark(Issues \ wisps, "markIssues",
         IF mode = "mark" THEN "markWisps" ELSE "unmarkIssues")
UnmarkIssues == Unmark(Issues \ wisps, "unmarkIssues", "markWisps")
MarkWisps ==
    Mark(wisps, "markWisps", IF mode = "mark" THEN "check" ELSE "unmarkWisps")
UnmarkWisps == Unmark(wisps, "unmarkWisps", "check")

\* Mutant: the count of changed rows is not reset between rounds.
EndRoundKeepsCount ==
    /\ pc = "check"
    /\ pc' = IF changed THEN "markIssues" ELSE "idle"
    /\ todo' = IF changed THEN todo ELSE {}
    /\ mode' = IF changed THEN mode ELSE "recompute"
    /\ UNCHANGED <<status, wisps, dep, isBlocked, changed>>

\* The end of a round: another one, or commit.
EndRound ==
    /\ pc = "check"
    /\ pc' = IF changed THEN "markIssues" ELSE "idle"
    /\ todo' = IF changed THEN todo ELSE {}
    /\ mode' = IF changed THEN mode ELSE "recompute"
    /\ changed' = FALSE
    /\ UNCHANGED <<status, wisps, dep, isBlocked>>

Loop == MarkIssues \/ UnmarkIssues \/ MarkWisps \/ UnmarkWisps \/ EndRound

-------------------------------------------------------------------------------
(* Adding an edge *)

\* CheckDependencyCycleInTx: some chain of blocking edges leads from i to j.
BlocksClosed(S) == \A i \in S : {j \in Issues : dep[<<i, j>>] = "blocks"} \subseteq S

Reaches(i, j) ==
    \A T \in SUBSET Issues : i \in T /\ BlocksClosed(T) => j \in T

\* Mutant: the search goes along the new edge, not back from its target.
AcceptableForward(i, j, kind) == i # j /\ (kind = "blocks" => ~Reaches(i, j))

Acceptable(i, j, kind) == i # j /\ (kind = "blocks" => ~Reaches(j, i))

Present(i) == status[i] # "absent"
WispRows == {i \in wisps : Present(i)}

SameType(k, l) == k = l \/ {k, l} \subseteq WaitsFor

\* AddDependencyInTx on a pair without an edge.  Blocking and waits-for edges
\* can only block, so the loop marks only; of a blocking edge the source is
\* marked directly and taken off the list.
InsertDependency(i, j, kind) ==
    LET d == [dep EXCEPT ![<<i, j>>] = kind]
        affected == AffectedByDepChange(d, i, j, kind)
    IN  /\ dep[<<i, j>>] = "none"
        /\ dep' = d
        /\ CASE kind = "blocks" ->
                  /\ isBlocked' = [isBlocked EXCEPT
                                      ![i] = @ \/ (Active(i) /\ Active(j))]
                  /\ Run("mark", affected \ {i})
             [] kind = "child" -> Recompute(affected) /\ UNCHANGED isBlocked
             [] OTHER -> Run("mark", affected) /\ UNCHANGED isBlocked

\* AddDependencyInTx on a pair that has an edge of that type replaces the
\* edge's metadata, here its gate, and recomputes nothing.
ReplaceMetadata(i, j, kind) ==
    /\ dep[<<i, j>>] # kind => "regate" \in Gaps
    /\ SameType(dep[<<i, j>>], kind)
    /\ dep' = [dep EXCEPT ![<<i, j>>] = kind]
    /\ UNCHANGED <<isBlocked, loopVars>>

AddDependency(i, j, kind) ==
    /\ pc = "idle"
    /\ <<i, j, kind>> \in MayRelate
    /\ Present(i) /\ Present(j) /\ Acceptable(i, j, kind)
    /\ InsertDependency(i, j, kind) \/ ReplaceMetadata(i, j, kind)
    /\ UNCHANGED <<status, wisps>>

\* Mutant: the removal only marks, as the insertion of an edge does.
RemoveDependencyMarking(i, j) ==
    /\ pc = "idle"
    /\ Present(i) \/ i \notin wisps
    /\ dep[<<i, j>>] # "none"
    /\ dep' = [dep EXCEPT ![<<i, j>>] = "none"]
    /\ Run("mark", AffectedByDepChange(dep', i, j, dep[<<i, j>>]))
    /\ UNCHANGED <<status, wisps, isBlocked>>

\* removeDependencyInTx.  The two issues need not exist any more, but the edges
\* of a deleted wisp are not looked for.
RemoveDependency(i, j) ==
    /\ pc = "idle"
    /\ Present(i) \/ i \notin wisps
    /\ dep[<<i, j>>] # "none"
    /\ dep' = [dep EXCEPT ![<<i, j>>] = "none"]
    /\ Recompute(AffectedByDepChange(dep', i, j, dep[<<i, j>>]))
    /\ UNCHANGED <<status, wisps, isBlocked>>

-------------------------------------------------------------------------------
(* Rows *)

\* insertIssueSQLite: a new row, or a new one in place of the old.  is_blocked
\* is no column of the insert and takes its default.  An id keeps its table
\* while there are edges that name it.
WriteRow(i, st, isWisp) ==
    /\ AffectedByStatusChange(i) # {i} => "overwrite" \in Gaps
    /\ isWisp => i \in WispIds
    /\ \/ isWisp = (i \in wisps)
       \/ /\ ~Present(i)
          /\ \A j \in Issues : dep[<<i, j>>] = "none" /\ dep[<<j, i>>] = "none"
    /\ status' = [status EXCEPT ![i] = st]
    /\ isBlocked' = [isBlocked EXCEPT ![i] = FALSE]
    /\ wisps' = IF isWisp THEN wisps \cup {i} ELSE wisps \ {i}

\* CreateIssue, CreateIssues and import, with no edge in the record.  The loop
\* runs over the id alone.
Create(i, st, isWisp) ==
    /\ pc = "idle"
    /\ WriteRow(i, st, isWisp)
    /\ Recompute({i})
    /\ UNCHANGED dep

\* The same with an edge in the record.  PersistDependencies does not write the
\* edge's metadata, so that a waits-for edge loses its gate.
CreateWithEdge(i, st, isWisp, j, kind) ==
    /\ pc = "idle"
    /\ <<i, j, kind>> \in MayRelate
    /\ Present(j) /\ Acceptable(i, j, kind)
    /\ (kind = "child" /\ Waiters(dep, j) # {}) => "inlineChild" \in Gaps
    /\ WriteRow(i, st, isWisp)
    /\ dep' = IF dep[<<i, j>>] # "none" THEN dep
              ELSE [dep EXCEPT ![<<i, j>>] = IF kind \in WaitsFor THEN "unset" ELSE kind]
    /\ Recompute({i})

\* updateIssueInTx with a status, and so ReopenIssue: a recompute only when the
\* issue becomes active or ceases to be.
Update(i, st) ==
    /\ pc = "idle"
    /\ Present(i)
    /\ ({status[i], st} = {"closed", "pinned"} /\ WaitersOnParents(dep, i) # {})
       => "pinClose" \in Gaps
    /\ status' = [status EXCEPT ![i] = st]
    /\ IF Active(i) # (st = "open")
       THEN Recompute(AffectedByStatusChange(i))
       ELSE UNCHANGED loopVars
    /\ UNCHANGED <<wisps, dep, isBlocked>>

\* closeIssueInTx; closing a closed issue changes nothing.
Close(i) ==
    /\ pc = "idle"
    /\ status[i] \in Statuses \ {"closed"}
    /\ status' = [status EXCEPT ![i] = "closed"]
    /\ Recompute(AffectedByStatusChange(i))
    /\ UNCHANGED <<wisps, dep, isBlocked>>

\* The rows of S go.  Of the edges only those from the issues table to a
\* deleted wisp go with them.
RemoveRows(S) ==
    /\ status' = [i \in Issues |-> IF i \in S THEN "absent" ELSE status[i]]
    /\ isBlocked' = [i \in Issues |-> isBlocked[i] /\ i \notin S]
    /\ dep' = [e \in Issues \X Issues |->
                  IF e[2] \in S \cap WispRows /\ e[1] \notin wisps
                  THEN "none" ELSE dep[e]]
    /\ UNCHANGED wisps

\* deleteIssueInTx.
Delete(i) ==
    /\ pc = "idle"
    /\ Present(i)
    /\ RemoveRows({i})
    /\ Recompute(AffectedByDeletion({i}))

\* The deletions of several rows end in RecomputeIsBlockedInTx, whose statements
\* SQLite rejects.  With no id to recompute it issues none; otherwise the
\* deletion is rolled back.  Calls that name a wisp deleted earlier, or find one
\* by an edge it left, are not modelled.
RemoveUnlessAffecting(S) ==
    /\ S \cap wisps \subseteq WispRows
    /\ AffectedByDeletion(S) = {}
    /\ RemoveRows(S)
    /\ UNCHANGED loopVars

\* FindAllDependentsInTx: S and whoever depends on it, by edges of any kind.
DependentsClosed(S) == \A j \in S : Dependents(j) \subseteq S

AllDependents(S) ==
    LET closed == {T \in {S \cup R : R \in SUBSET (Issues \ S)} : DependentsClosed(T)}
    IN  {i \in Issues : \A T \in closed : i \in T}

\* DeleteIssuesInTx without dryRun.  Ids without a row count as regular ones.
\* Wisps are neither expanded nor checked for dependents, and one that is both
\* listed and found by the expansion is deleted twice, which is an error.
DeleteIssues(ids, cascade, force) ==
    LET listed   == ids \cap WispRows
        regular  == ids \ listed
        expanded == IF cascade THEN AllDependents(regular) ELSE regular
    IN  /\ pc = "idle"
        /\ ids # {}
        /\ ~cascade /\ ~force => \A i \in regular : Dependents(i) \subseteq ids
        /\ expanded \cap listed = {}
        /\ RemoveUnlessAffecting(listed \cup expanded)

\* DeleteIssuesBySourceRepoInTx; the issues of a repository are any of the table.
DeleteIssuesBySourceRepo(ids) ==
    /\ pc = "idle"
    /\ ids # {} /\ \A i \in ids : Present(i) /\ i \notin wisps
    /\ RemoveUnlessAffecting(ids)

\* PromoteFromEphemeralSQLiteInTx: the row is inserted into the other table,
\* without is_blocked, and the edges follow it.
Promote(i) ==
    /\ pc = "idle"
    /\ Present(i) /\ i \in wisps
    /\ wisps' = wisps \ {i}
    /\ isBlocked' = [isBlocked EXCEPT ![i] = FALSE]
    /\ Recompute(AffectedByStatusChange(i))
    /\ UNCHANGED <<status, dep>>

\* An operation starts when the transaction before it is over.
Edit ==
    /\ pc = "idle"
    /\ \/ \E i \in Issues, st \in Statuses : Update(i, st)
       \/ \E i \in Issues, st \in Statuses, isWisp \in BOOLEAN :
              Create(i, st, isWisp)
       \/ \E e \in MayRelate : AddDependency(e[1], e[2], e[3])
       \/ \E e \in MayRelate, st \in Statuses, isWisp \in BOOLEAN :
              CreateWithEdge(e[1], st, isWisp, e[2], e[3])
       \/ \E i, j \in Issues : RemoveDependency(i, j)
       \/ \E i \in Issues : Close(i) \/ Delete(i) \/ Promote(i)
       \/ \E ids \in SUBSET Issues :
              \/ DeleteIssuesBySourceRepo(ids)
              \/ \E cascade, force \in BOOLEAN : DeleteIssues(ids, cascade, force)

Next == Loop \/ Edit

Spec == Init /\ [][Next]_vars

\* The loop runs inside a transaction that nothing else can interrupt.
FairSpec == Spec /\ WF_vars(Loop)

-------------------------------------------------------------------------------
(* Properties *)

\* Of the rows a full recompute would flip, "a converged database counts 0".  Between transactions that is every database:
\* the ids each operation computes are enough, over chains of children, gates
\* that a child closes or opens, deletions, promotions and dangling edges.
IsBlockedConsistent ==
    pc = "idle" => StaleFlags = {}

\* The flag has a cause: following parents from a blocked issue one reaches an
\* issue with an active blocker or an unsatisfied gate.  No family of issues
\* keeps itself blocked - as long as parents form no cycle.
BlockedForAReason ==
    pc = "idle" =>
        \A i \in Issues : isBlocked[i] =>
            \E a \in Issues :
                i \in Expand(dep, {a}) /\ (ActiveBlocker(a) \/ HeldAtGate(a))

\* The cycle check keeps the blocking edges acyclic, whatever is deleted and
\* created again between two insertions.
NoBlockingCycle ==
    \A i, j \in Issues : dep[<<i, j>>] = "blocks" => ~Reaches(j, i)

\* Every recompute loop ends, so that every transaction ends.
LoopTerminates == pc # "idle" ~> pc = "idle"
===============================================================================
