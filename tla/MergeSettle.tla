----------------------------- MODULE MergeSettle -----------------------------
(***************************************************************************)
(* Pulling from a shared remote and settling the merge                     *)
(* (internal/storage/versioncontrolops/mergesettle.go).  Dolt merges row   *)
(* by row; what clashes and what then hangs in the air is settled by       *)
(* statements of their own on an autocommit session: whatever they did     *)
(* before one of them fails, or before the process dies, stays.            *)
(*                                                                         *)
(* Each synced table is played by the rows a settlement tells apart.  A    *)
(* row holds who wrote it last.  A pull touches nothing but its own clone  *)
(* once it has fetched, so pulls do not overlap.  A remote that holds what *)
(* a clone merged last counts as unchanged.                                *)
(***************************************************************************)
EXTENDS Naturals, FiniteSets

CONSTANTS
    Clones,
    Nobody,          \* who wrote the rows of the first commit
    Absent,          \* in place of a row that is not there
    Plans,           \* bound: which rows are written in one history, and how often
    CaptureMayFail   \* the query for the conflicts of a declined merge may fail

\* A metadata row, a dependency, a row of schema_migrations, a memory and
\* another key of config, an issue, and a label of it.
AllRows == {"metadata", "edge", "migration", "memory", "prefix", "issue", "label"}

Hashes == {"h1", "h2"}
NoHash == "unhashed"

ASSUME SettleAssumption ==
    /\ {Nobody, Absent} \cap Clones = {} /\ Nobody # Absent
    /\ Absent \notin Hashes \cup {NoHash}
    /\ Plans \subseteq (SUBSET AllRows) \X Nat
    /\ CaptureMayFail \in BOOLEAN

VARIABLES
    remote,   \* the head of the remote
    clone,    \* each clone's branch and working set
    pull,     \* the pull that is under way
    plan      \* what is still written in this history

settleVars == <<remote, clone, pull, plan>>

TableOf(r) ==
    CASE r \in {"memory", "prefix"} -> "config"
      [] r = "edge" -> "dependencies"
      [] r = "migration" -> "schema_migrations"
      [] r = "issue" -> "issues"
      [] r = "label" -> "labels"
      [] OTHER -> r

\* The rows that hang on the issue.
Children == {"edge", "label"}

FirstCommit ==
    [r \in AllRows |-> IF r \in {"edge", "migration", "label"} THEN Absent ELSE Nobody]

\* conflicts and violations are those of the working set; merging is whether a
\* merge of the commit ref is active there, begun with the working set saved and
\* the violations had, of which the rows in dirty were not committed.
NewClone ==
    [head |-> FirstCommit, work |-> FirstCommit, base |-> FirstCommit,
     merging |-> FALSE, ref |-> FirstCommit, saved |-> FirstCommit, had |-> {},
     dirty |-> {}, conflicts |-> {}, violations |-> {}]

\* ref is what was fetched; before is how the pull found its clone.
NoPull == [pc |-> "none", by |-> Nobody, ref |-> FirstCommit, clean |-> FALSE,
           mergeErr |-> FALSE, resolved |-> FALSE, repaired |-> FALSE, ok |-> FALSE,
           before |-> NewClone]

\* The rows of a clone that were changed and not committed, of an active merge those
\* from before it: what is written once it is active lies among what it brought.
Own(state) ==
    IF state.merging THEN state.dirty ELSE {r \in AllRows : state.work[r] # state.head[r]}

\* A merge, after every one of its rows is dealt with or given back.
NoMerge(state) ==
    [state EXCEPT !.merging = FALSE, !.ref = FirstCommit, !.saved = FirstCommit, !.had = {},
                  !.dirty = {}, !.conflicts = {}, !.violations = {}]

SettleInit ==
    /\ remote = FirstCommit
    /\ clone = [c \in Clones |-> NewClone]
    /\ pull = NoPull
    /\ plan \in Plans

------------------------------------------------------------------------------
(* What clients do in between *)

\* One statement.  Deleting the issue takes its label and edge along; an edge
\* has a type; a migration is recorded with its hash, or without by old
\* binaries.
Written(c, w) ==
    {[w EXCEPT ![r] = c] : r \in plan[1] \cap {"metadata", "memory", "prefix"}}
    \cup {[w EXCEPT ![r] = Absent] : r \in plan[1] \cap {"memory", "edge", "label"}}
    \cup {[w EXCEPT ![r] = h] :
             r \in {m \in plan[1] \cap {"migration"} : w[m] = Absent}, h \in Hashes \cup {NoHash}}
    \cup {[w EXCEPT ![r] = <<type, c>>] :
             r \in {e \in plan[1] \cap {"edge"} : w["issue"] # Absent}, type \in {"blocks", "related"}}
    \cup {[w EXCEPT ![r] = "present"] : r \in {l \in plan[1] \cap {"label"} : w["issue"] # Absent}}
    \cup {[w EXCEPT ![r] = c] : r \in {i \in plan[1] \cap {"issue"} : w[i] # Absent}}
    \cup {[r \in AllRows |-> IF r \in Children \cup {i} THEN Absent ELSE w[r]] :
             i \in plan[1] \cap {"issue"}}

\* Uncommitted, or committed with everything else; also while a merge is active.
Statement(c) ==
    /\ pull.pc = "none"
    /\ plan[2] > 0
    /\ plan' = [plan EXCEPT ![2] = @ - 1]
    /\ \E w \in Written(c, clone[c].work) :
           clone' = [clone EXCEPT ![c].work = w]
    /\ UNCHANGED <<remote, pull>>

\* A transaction that would commit conflicts or violations is rolled back: the two
\* flags that let it are set on the session of MergeAndSettle alone.
Write(c) == clone[c].conflicts = {} /\ clone[c].violations = {} /\ Statement(c)

\* A commit of everything.  It is refused while something is unsettled, and ends
\* an active merge.
CommitAll(c) ==
    /\ pull.pc = "none"
    /\ clone[c].conflicts = {} /\ clone[c].violations = {}
    /\ clone[c].work # clone[c].head \/ clone[c].merging
    /\ clone' = [clone EXCEPT ![c] =
                     [NoMerge(clone[c]) EXCEPT
                        !.head = clone[c].work,
                        !.base = IF clone[c].merging THEN clone[c].ref ELSE clone[c].base]]
    /\ UNCHANGED <<remote, pull, plan>>

\* A push is refused unless this clone has merged what is there.
Push(c) ==
    /\ pull.pc = "none"
    /\ remote = clone[c].base /\ clone[c].head # remote
    /\ remote' = clone[c].head
    /\ clone' = [clone EXCEPT ![c].base = clone[c].head]
    /\ UNCHANGED <<pull, plan>>

------------------------------------------------------------------------------
(* The pull *)

At(pc) == pull.pc = pc /\ UNCHANGED <<remote, plan>>
Goto(pc) == pull' = [pull EXCEPT !.pc = pc]
On(c, state) == clone' = [clone EXCEPT ![c] = state]

\* DOLT_FETCH and workingSetClean, for which a failed query counts as dirty.
StartPull(c) ==
    /\ At("none")
    /\ \E clean \in {FALSE, clone[c].work = clone[c].head /\ ~clone[c].merging} :
           pull' = [NoPull EXCEPT !.pc = "merge", !.by = c, !.ref = remote,
                                  !.clean = clean, !.before = clone[c]]
    /\ UNCHANGED clone

Return(ok) == pull' = [pull EXCEPT !.pc = "returned", !.ok = ok]

\* A session flag cannot be set.
NoFlags == At("merge") /\ Return(FALSE) /\ UNCHANGED clone

Clash(b, o, t) == o # b /\ t # b /\ o # t
Merged(b, o, t) == IF o = b THEN t ELSE o

Dangling(w) == {r \in Children : w["issue"] = Absent /\ w[r] # Absent}

Changed(c) == {r \in AllRows : pull.ref[r] # clone[c].base[r]}

\* The rows of w with those of what was fetched.
Onto(c, w) == [r \in AllRows |-> Merged(clone[c].base[r], w[r], pull.ref[r])]

\* "up to date" is no error, and a merge on an active one, or over uncommitted
\* changes of the same tables, refuses to start.  It may fail for any reason.
MergeChangesNothing(c) ==
    /\ \/ /\ ~clone[c].merging /\ Changed(c) = {}
          /\ pull' = [pull EXCEPT !.pc = "resolve"]
       \/ pull' = [pull EXCEPT !.pc = "resolve", !.mergeErr = TRUE]
    /\ UNCHANGED clone

\* A violation of a kind of its own may come with what both sides did.  Conflicts
\* are an error of the statement or not; a merge with nothing but violations may
\* have ended its merge state.
MergeLands(c) ==
    LET b == clone[c].base
        conflicts == {r \in AllRows : Clash(b[r], clone[c].head[r], pull.ref[r])}
        work == Onto(c, clone[c].work)
    IN  /\ ~clone[c].merging /\ Changed(c) # {}
        /\ \A r \in Own(clone[c]), s \in Changed(c) : TableOf(r) # TableOf(s)
        /\ \E odd \in SUBSET (IF clone[c].head = b THEN {} ELSE {"odd"}) :
               LET violations == Dangling(work) \cup (clone[c].violations \ Children) \cup odd
                   landed == [clone[c] EXCEPT !.work = work, !.ref = pull.ref,
                                              !.saved = clone[c].work, !.had = clone[c].violations,
                                              !.dirty = Own(clone[c]), !.conflicts = conflicts, !.violations = violations]
               IN  \/ /\ conflicts \cup violations = {}
                      /\ On(c, [clone[c] EXCEPT !.head = Onto(c, clone[c].head), !.work = work,
                                                !.base = pull.ref, !.violations = {}])
                      /\ Goto("resolve")
                   \/ /\ conflicts \cup violations # {}
                      /\ \E active, err \in BOOLEAN :
                             /\ conflicts # {} => active
                             /\ On(c, IF active THEN [landed EXCEPT !.merging = TRUE]
                                      ELSE [NoMerge(landed) EXCEPT !.violations = violations])
                             /\ pull' = [pull EXCEPT !.pc = "resolve", !.mergeErr = err]

Merge ==
    /\ At("merge")
    /\ MergeChangesNothing(pull.by) \/ MergeLands(pull.by)

Fail == Goto("abort")

\* dependencyConflictsAreAuditOnly, configConflictsAreMemoryConvergent,
\* schemaMigrationsConflictsAreVintageOnly.
Safe(r, ours, theirs) ==
    CASE r \in {"metadata", "memory"} -> TRUE
      [] r = "edge" -> Absent \notin {ours, theirs} /\ ours[1] = theirs[1]
      [] r = "migration" -> Absent \notin {ours, theirs} /\ {ours, theirs} # Hashes
      [] OTHER -> FALSE

\* Mutant: one side is taken of every table.
TheirsAlways(r, ours, theirs) == theirs

\* Mutant: the local value stands.
OursAlways(r, ours, theirs) == ours

\* Theirs, but of a migration the side that has recorded a hash.
Theirs(r, ours, theirs) == IF r = "migration" /\ ours # NoHash THEN ours ELSE theirs

\* The conflicts of the tables in S are resolved.
Resolve(c, S) ==
    LET done == {r \in clone[c].conflicts : TableOf(r) \in S}
    IN  On(c, [clone[c] EXCEPT
                 !.work = [r \in AllRows |->
                     IF r \in done THEN Theirs(r, clone[c].work[r], clone[c].ref[r])
                     ELSE clone[c].work[r]],
                 !.conflicts = clone[c].conflicts \ done])

\* TryAutoResolveMergeConflicts: all or nothing, unless a statement fails.
TryAutoResolve ==
    LET c == pull.by
        tables == {TableOf(r) : r \in clone[c].conflicts}
        safe == \A r \in clone[c].conflicts : Safe(r, clone[c].work[r], clone[c].ref[r])
    IN  /\ At("resolve")
        /\ \/ UNCHANGED clone /\ Fail
           \/ (tables = {} \/ ~safe) /\ UNCHANGED clone /\ Goto("capture")
           \/ /\ tables # {} /\ safe
              /\ \/ Resolve(c, tables) /\ pull' = [pull EXCEPT !.pc = "repair", !.resolved = TRUE]
                 \/ \E S \in SUBSET tables : S # tables /\ Resolve(c, S) /\ Fail

\* Mutant: conflicts that were declined are left to the error of the merge.
CaptureNothing == At("capture") /\ Goto("repair") /\ UNCHANGED clone

\* GetConflicts before an abort wipes them.  Its error is not looked at.
Capture ==
    /\ At("capture")
    /\ \/ clone[pull.by].conflicts # {} /\ Fail
       \/ (clone[pull.by].conflicts = {} \/ CaptureMayFail) /\ Goto("repair")
    /\ UNCHANGED clone

\* The dangling rows in S are deleted and their violations cleared.
Repair(c, S) ==
    On(c, [clone[c] EXCEPT !.work = [r \in AllRows |-> IF r \in S THEN Absent ELSE clone[c].work[r]],
                           !.violations = clone[c].violations \ S])

\* TryRepairFKCascadeViolations, which touches nothing unless it knows them all.
TryRepair ==
    LET c == pull.by
        violations == clone[c].violations
    IN  /\ At("repair")
        /\ \/ violations = {} /\ UNCHANGED clone /\ Goto("conclude")
           \/ UNCHANGED clone /\ Fail
           \/ /\ violations # {} /\ violations \subseteq Children
              /\ \/ Repair(c, violations) /\ pull' = [pull EXCEPT !.pc = "conclude", !.repaired = TRUE]
                 \/ \E S \in SUBSET violations : S # violations /\ Repair(c, S) /\ Fail

\* CommitResolvedConflicts commits what is staged: not the uncommitted changes
\* from before.
CommitResolved(c) ==
    On(c, [NoMerge(clone[c]) EXCEPT
             !.head = [r \in AllRows |-> IF r \in Own(clone[c]) THEN clone[c].head[r]
                                         ELSE clone[c].work[r]],
             !.base = clone[c].ref])

\* The end of SettleMerge.  A merge that was only repaired stays in the working set.
Conclude ==
    /\ At("conclude")
    /\ \/ pull.resolved /\ CommitResolved(pull.by) /\ Return(TRUE)
       \/ UNCHANGED clone /\ (pull.resolved \/ (pull.mergeErr /\ ~pull.repaired)) /\ Fail
       \/ UNCHANGED clone /\ ~pull.resolved /\ (pull.mergeErr => pull.repaired) /\ Return(TRUE)

\* Mutant: the hard reset follows whenever --abort fails.
MayAlwaysReset == TRUE

\* The hard reset is for a working set that was clean.
MayReset == pull.clean

\* abortMerge.  Either statement may fail.
Abort ==
    LET c == pull.by
    IN  /\ At("abort")
        /\ \/ clone[c].merging /\ On(c, [NoMerge(clone[c]) EXCEPT !.work = clone[c].saved,
                                                                 !.violations = clone[c].had])
           \/ MayReset /\ On(c, [NoMerge(clone[c]) EXCEPT !.work = clone[c].head])
           \/ UNCHANGED clone
        /\ Return(FALSE)

\* The process dies, or its caller takes the answer.
EndPull == pull.pc # "none" /\ pull' = NoPull /\ UNCHANGED <<remote, clone, plan>>

SettleNext ==
    \/ \E c \in Clones : Write(c) \/ CommitAll(c) \/ Push(c) \/ StartPull(c)
    \/ NoFlags \/ Merge \/ TryAutoResolve \/ Capture \/ TryRepair \/ Conclude
    \/ Abort \/ EndPull

SettleSpec == SettleInit /\ [][SettleNext]_settleVars

------------------------------------------------------------------------------
(* Properties *)

Returned(ok) == pull.pc = "returned" /\ pull.ok = ok

\* "SettleMerge's gates ensure nothing unrepaired survives without an error":
\* after a pull without an error no row is in conflict, and none hangs on an
\* issue that is gone.
NothingUnsettledSucceeds ==
    Returned(TRUE) =>
        LET state == clone[pull.by]
        IN  state.conflicts = {} /\ state.violations = {} /\ Dangling(state.work) = {}

\* What clients had written and not committed is there after a pull, whatever
\* became of it, except that rows go with the issue they hang on.  Of a clone found
\* with a merge active it is what they had before that merge, in the rows' present
\* form or the one they had then (LateWorkKept is about the rest).
UncommittedWorkKept ==
    pull.pc = "returned" =>
        LET work == clone[pull.by].work
        IN  \A r \in Own(pull.before) :
                \/ work[r] = pull.before.work[r]
                \/ pull.before.merging /\ work[r] = pull.before.saved[r]
                \/ r \in Children /\ work["issue"] = Absent

\* "hard-resetting there would destroy uncommitted data the merge never touched"
\* (abortMerge, of a merge that refused to start): rows written since an earlier
\* merge became active, in tables that merge has changed nothing of, are there after
\* a pull too.  Rows that hang on others are left out.
LateWorkKept ==
    LET old == pull.before
        Touched(r) == \E s \in AllRows : TableOf(s) = TableOf(r) /\ old.ref[s] # old.base[s]
    IN  pull.pc = "returned" /\ old.merging =>
            \A r \in AllRows \ Children :
                old.work[r] # old.head[r] /\ ~Touched(r) => clone[pull.by].work[r] = old.work[r]

Unsettled(state) == state.merging \/ state.violations # {}

\* A pull that finds its clone settled and returns without an error has brought in every
\* row the remote changed, so that clones that pull from one remote hold the same; only
\* a recorded hash stands against none.
RemoteWins ==
    Returned(TRUE) /\ ~Unsettled(pull.before) =>
        LET work == clone[pull.by].work
        IN  \A r \in AllRows : pull.ref[r] # pull.before.base[r] =>
                \/ work[r] = pull.ref[r]
                \/ r = "migration" /\ pull.ref[r] = NoHash
                \/ r \in Children /\ work["issue"] = Absent

HashKept(w, x) == w["migration"] \in Hashes => x["migration"] = w["migration"]

\* No commit, of a clone or the remote, drops a recorded content hash or puts
\* another one in its place.
HashesKept ==
    [][/\ HashKept(remote, remote')
       /\ \A c \in Clones : HashKept(clone[c].head, clone[c]'.head)]_settleVars
==============================================================================
