------------------------------- MODULE History -------------------------------
(***************************************************************************)
(* Branches, commits and the working set, as the stores of several         *)
(* processes change them over one data directory: SQL writes, version      *)
(* commits, branch operations, merges, pulls, and the two operations that  *)
(* rewrite the history of main, Flatten and Compact, one statement a step. *)
(* CommitPending is CommitWithConfig, RunInTransaction is Write and Commit.*)
(*                                                                         *)
(* A commit is the set of rows it adds, and a branch is the sequence of    *)
(* its commits; a branch that does not exist has none.  Each branch has a  *)
(* working set of its own, each connection a branch of its own.  Whoever   *)
(* holds the file lock keeps out the others that take it; pulls do not.    *)
(* Rows are only added, so that a row that is gone has been lost.          *)
(***************************************************************************)
EXTENDS Naturals, SequencesExt

CONSTANTS Stores,      \* open stores, each of a process of its own
          DataRows,    \* rows of tables that every version commit takes
          ConfigRows,  \* rows of the config table
          Topics,      \* names of branches besides main
          Requested,   \* branches that stores are opened for
          Prefix,      \* the config row that bd init commits
          Free, Closed,
          MaxTroubles, \* bound on the failures, deaths and lost connections
          MaxRewrites  \* bound on the calls of Flatten and Compact

Main == "main"
FlattenTmp == "flatten-tmp"
CompactTmp == "compact-tmp"
Temps == {FlattenTmp, CompactTmp}
Branches == {Main} \cup Topics \cup Temps
AllRows == DataRows \cup ConfigRows \cup {Prefix}

ASSUME HistoryAssumption ==
    /\ Requested \subseteq {Main} \cup Topics
    /\ Main \notin Topics /\ Temps \cap Topics = {}
    /\ DataRows \cap ConfigRows = {} /\ Prefix \notin DataRows \cup ConfigRows
    /\ Free \notin Stores /\ Closed \notin Branches
    /\ MaxTroubles \in Nat /\ MaxRewrites \in Nat

VARIABLES hist, work,  \* of each branch: its commits, the rows of its working set
          flock,       \* who holds the file lock
          pooled,      \* the store still has its persistent connection
          at,          \* the branch its connection is on
          named,       \* the field branch of the store
          task,        \* the call it is in the middle of
          written,     \* rows used so far
          abandoned,   \* temporary branches whose operation died or failed
          troubles,    \* failures, deaths and lost connections so far
          rewrites     \* calls of Flatten and Compact so far

store == <<pooled, at, named>>
aside == <<abandoned, troubles, rewrites>>
historyVars == <<hist, work, flock, store, task, written, aside>>

Content(h) == UNION {h[i] : i \in DOMAIN h}
Exists(b) == hist[b] # <<>>

Ops == {"idle", "planned", "flatten", "compact"}
Steps == {"none", "create", "checkout", "soften", "squash", "pick", "reset", "delete"}
NoTask == [op |-> "idle", step |-> "none", seen |-> <<>>, cut |-> 0, next |-> 0]
Planned(seen, cut) == [op |-> "planned", step |-> "none", seen |-> seen, cut |-> cut, next |-> 0]
Flattening(seen) ==
    [op |-> "flatten", step |-> "create", seen |-> seen, cut |-> 0, next |-> Len(seen) + 1]
Compacting(seen, cut, next) ==
    [op |-> "compact", step |-> "create", seen |-> seen, cut |-> cut, next |-> next]
Temp(s) == IF task[s].op = "flatten" THEN FlattenTmp ELSE CompactTmp

HistoryInit ==
    /\ hist = [b \in Branches |-> IF b = Main THEN <<{}, {Prefix}>> ELSE <<>>]
    /\ work = [b \in Branches |-> IF b = Main THEN {Prefix} ELSE {}]
    /\ flock = Free
    /\ pooled = [s \in Stores |-> FALSE]
    /\ at = [s \in Stores |-> Closed]
    /\ named = [s \in Stores |-> Main]
    /\ task = [s \in Stores |-> NoTask]
    /\ written = {Prefix}
    /\ abandoned = {}
    /\ troubles = 0 /\ rewrites = 0

-----------------------------------------------------------------------------
(* What the store knows of dolt_status, and its two ways to commit. *)

PendingTables(b) == work[b] \ Content(hist[b])

Committed(b, rows) == IF rows = {} THEN hist ELSE [hist EXCEPT ![b] = Append(@, rows)]
CommitNative(b) == Committed(b, PendingTables(b) \cap DataRows)
CommitAllNative(b) == Committed(b, PendingTables(b))

\* A call that takes the file lock finds it free and its branch still there.
Ready(s) == at[s] # Closed /\ task[s].op = "idle" /\ Exists(at[s])
CanLock(s) == Ready(s) /\ flock = Free

-----------------------------------------------------------------------------
(* Opening and closing; a connection that is dropped. *)

\* The branch asked for becomes the store's; its connection is opened without one.
Open(s, branch) ==
    /\ at[s] = Closed
    /\ at' = [at EXCEPT ![s] = Main]
    /\ pooled' = [pooled EXCEPT ![s] = TRUE]
    /\ named' = [named EXCEPT ![s] = branch]
    /\ UNCHANGED <<hist, work, flock, task, written, aside>>

\* The store is closed, or its process dies wherever it is.
Leave(s) ==
    /\ at[s] # Closed
    /\ at' = [at EXCEPT ![s] = Closed]
    /\ pooled' = [pooled EXCEPT ![s] = FALSE]
    /\ named' = [named EXCEPT ![s] = Main]
    /\ task' = [task EXCEPT ![s] = NoTask]
    /\ flock' = IF flock = s THEN Free ELSE flock
    /\ abandoned' = IF flock = s /\ task[s].step # "create" THEN abandoned \cup {Temp(s)} ELSE abandoned
    /\ troubles < MaxTroubles /\ troubles' = troubles + 1
    /\ UNCHANGED <<hist, work, written, rewrites>>

\* A retryable error: the persistent connection is closed and never opened again;
\* from now on each call has a connection of its own, on the default branch.
LoseConnection(s) ==
    /\ at[s] # Closed /\ pooled[s]
    /\ flock = Free
    /\ pooled' = [pooled EXCEPT ![s] = FALSE]
    /\ at' = [at EXCEPT ![s] = Main]
    /\ troubles < MaxTroubles /\ troubles' = troubles + 1
    /\ UNCHANGED <<hist, work, flock, named, task, written, abandoned, rewrites>>

-----------------------------------------------------------------------------
(* Rows and version commits. *)

Write(s, r) ==
    /\ CanLock(s) /\ r \notin written
    /\ work' = [work EXCEPT ![at[s]] = @ \cup {r}]
    /\ written' = written \cup {r}
    /\ UNCHANGED <<hist, flock, store, task, aside>>

CommitTables(s) ==
    /\ CanLock(s)
    /\ hist' = CommitNative(at[s])
    /\ UNCHANGED <<work, flock, store, task, written, aside>>

CommitWithConfig(s) ==
    /\ CanLock(s)
    /\ hist' = CommitAllNative(at[s])
    /\ UNCHANGED <<work, flock, store, task, written, aside>>

-----------------------------------------------------------------------------
(* Branches. *)

Branch(s, b) ==
    /\ CanLock(s) /\ ~Exists(b)
    /\ hist' = [hist EXCEPT ![b] = hist[at[s]]]
    /\ work' = [work EXCEPT ![b] = Content(hist[at[s]])]
    /\ UNCHANGED <<flock, store, task, written, aside>>

\* Mutant: the store takes the new name before it knows that the checkout succeeded.
CheckoutNamesFirst(s, b) ==
    /\ at[s] # Closed /\ task[s].op = "idle" /\ flock = Free /\ Exists(b)
    /\ \E done \in BOOLEAN : at' = [at EXCEPT ![s] = IF pooled[s] /\ done THEN b ELSE @]
    /\ named' = [named EXCEPT ![s] = b]
    /\ UNCHANGED <<hist, work, flock, pooled, task, written, aside>>

\* On a connection of its own, a checkout is over when the call is.
Checkout(s, b) ==
    /\ at[s] # Closed /\ task[s].op = "idle" /\ flock = Free /\ Exists(b)
    /\ at' = [at EXCEPT ![s] = IF pooled[s] THEN b ELSE @]
    /\ named' = [named EXCEPT ![s] = b]
    /\ UNCHANGED <<hist, work, flock, pooled, task, written, aside>>

CurrentBranch(s) ==
    /\ Ready(s)
    /\ named' = [named EXCEPT ![s] = at[s]]
    /\ UNCHANGED <<hist, work, flock, pooled, at, task, written, aside>>

DeleteBranch(s, b) ==
    /\ CanLock(s) /\ Exists(b) /\ b # at[s]
    /\ named' = [named EXCEPT ![s] = at[s]]
    /\ hist' = [hist EXCEPT ![b] = <<>>]
    /\ work' = [work EXCEPT ![b] = {}]
    /\ abandoned' = abandoned \ {b}
    /\ UNCHANGED <<flock, pooled, at, task, written, troubles, rewrites>>

\* Fast-forward where possible, otherwise a commit with what the other branch has more.
Merge(s, b) ==
    /\ CanLock(s) /\ Exists(b) /\ b # at[s]
    /\ LET ours == hist[at[s]]
           news == Content(hist[b]) \ Content(ours)
       IN  /\ hist' = IF IsPrefix(ours, hist[b])
                      THEN [hist EXCEPT ![at[s]] = hist[b]]
                      ELSE Committed(at[s], news)
           /\ work' = [work EXCEPT ![at[s]] = @ \cup news]
    /\ UNCHANGED <<flock, store, task, written, aside>>

\* Commits of a remote arrive on the connection's branch; no lock is taken.
Pull(s, r) ==
    /\ Ready(s) /\ r \notin written
    /\ hist' = [hist EXCEPT ![at[s]] = Append(@, {r})]
    /\ work' = [work EXCEPT ![at[s]] = @ \cup {r}]
    /\ written' = written \cup {r}
    /\ UNCHANGED <<flock, store, task, aside>>

-----------------------------------------------------------------------------
(* Flatten and Compact: what they share are the statements. *)

BeginFlatten(s) ==
    /\ CanLock(s) /\ Len(hist[at[s]]) > 1
    /\ flock' = s
    /\ task' = [task EXCEPT ![s] = Flattening(hist[at[s]])]
    /\ rewrites < MaxRewrites /\ rewrites' = rewrites + 1
    /\ UNCHANGED <<hist, work, store, written, abandoned, troubles>>

\* The caller reads the log and picks the commit up to which history is squashed;
\* what it passes to Compact are the hashes it has seen.
PlanCompact(s) ==
    /\ Ready(s)
    /\ \E boundary \in 2..Len(hist[at[s]]) :
          task' = [task EXCEPT ![s] = Planned(hist[at[s]], boundary)]
    /\ rewrites < MaxRewrites /\ rewrites' = rewrites + 1
    /\ UNCHANGED <<hist, work, flock, store, written, abandoned, troubles>>

BeginCompact(s) ==
    /\ task[s].op = "planned" /\ flock = Free
    /\ flock' = s
    /\ task' = [task EXCEPT ![s] = Compacting(task[s].seen, task[s].cut, task[s].cut + 1)]
    /\ UNCHANGED <<hist, work, store, written, aside>>

At(s, step) == flock = s /\ task[s].step = step
GoOn(s, step) == task' = [task EXCEPT ![s].step = step]

\* Flatten branches off the head of its connection, Compact off the boundary.
Start(s) == IF task[s].op = "flatten" THEN hist[at[s]] ELSE SubSeq(task[s].seen, 1, task[s].cut)

CreateTemp(s) ==
    /\ At(s, "create") /\ ~Exists(Temp(s)) /\ Exists(at[s])
    /\ hist' = [hist EXCEPT ![Temp(s)] = Start(s)]
    /\ work' = [work EXCEPT ![Temp(s)] = Content(Start(s))]
    /\ GoOn(s, "checkout")
    /\ UNCHANGED <<flock, store, written, aside>>

CheckoutTemp(s) ==
    /\ At(s, "checkout")
    /\ at' = [at EXCEPT ![s] = Temp(s)]
    /\ GoOn(s, "soften")
    /\ UNCHANGED <<hist, work, flock, pooled, named, written, aside>>

SoftResetToInitial(s) ==
    /\ At(s, "soften")
    /\ hist' = [hist EXCEPT ![at[s]] = SubSeq(@, 1, 1)]
    /\ GoOn(s, "squash")
    /\ UNCHANGED <<work, flock, store, written, aside>>

CommitSquashed(s) ==
    /\ At(s, "squash") /\ PendingTables(at[s]) # {}
    /\ hist' = CommitAllNative(at[s])
    /\ GoOn(s, "pick")
    /\ UNCHANGED <<work, flock, store, written, aside>>

\* Mutant: the last recent commit is left out.
PicksDoneEarly(s) == task[s].next >= Len(task[s].seen)

PicksDone(s) == task[s].next > Len(task[s].seen)

CherryPick(s) ==
    /\ At(s, "pick") /\ at[s] = Temp(s) /\ ~PicksDone(s)
    /\ LET picked == task[s].seen[task[s].next]
       IN  /\ hist' = [hist EXCEPT ![at[s]] = Append(@, picked)]
           /\ work' = [work EXCEPT ![at[s]] = @ \cup picked]
    /\ task' = [task EXCEPT ![s].next = @ + 1]
    /\ UNCHANGED <<flock, store, written, aside>>

CheckoutMain(s) ==
    /\ At(s, "pick") /\ PicksDone(s)
    /\ at' = [at EXCEPT ![s] = Main]
    /\ GoOn(s, "reset")
    /\ UNCHANGED <<hist, work, flock, pooled, named, written, aside>>

ResetMain(s) ==
    /\ At(s, "reset")
    /\ hist' = [hist EXCEPT ![Main] = hist[Temp(s)]]
    /\ work' = [work EXCEPT ![Main] = Content(hist[Temp(s)])]
    /\ GoOn(s, "delete")
    /\ UNCHANGED <<flock, store, written, aside>>

DeleteTemp(s) ==
    /\ At(s, "delete")
    /\ hist' = [hist EXCEPT ![Temp(s)] = <<>>]
    /\ work' = [work EXCEPT ![Temp(s)] = {}]
    /\ task' = [task EXCEPT ![s] = NoTask]
    /\ flock' = Free
    /\ UNCHANGED <<store, written, aside>>

\* A branch of that name is there already, or there is nothing to commit.
Refused(s) ==
    \/ At(s, "create") /\ (Exists(Temp(s)) \/ ~Exists(at[s]))
    \/ At(s, "squash") /\ PendingTables(at[s]) = {}

\* Otherwise a failure is one of the troubles.
Fails(s, retryable) ==
    \/ Refused(s) /\ ~retryable /\ troubles' = troubles
    \/ ~Refused(s) /\ troubles < MaxTroubles /\ troubles' = troubles + 1

\* A statement of Flatten fails.  Nothing is cleaned up.  A retryable error drops the
\* connection; the attempt that follows is another BeginFlatten.
FlattenFails(s, retryable) ==
    /\ flock = s /\ task[s].op = "flatten" /\ Fails(s, retryable)
    /\ pooled' = [pooled EXCEPT ![s] = @ /\ ~retryable]
    /\ at' = [at EXCEPT ![s] = IF pooled[s] /\ ~retryable THEN @ ELSE Main]
    /\ task' = [task EXCEPT ![s] = NoTask]
    /\ flock' = Free
    /\ abandoned' = IF task[s].step = "create" THEN abandoned ELSE abandoned \cup {FlattenTmp}
    /\ UNCHANGED <<hist, work, named, written, rewrites>>

\* Compact has created its branch.
CleansUp(s) == task[s].step # "create"

\* A statement of Compact fails.  Once the branch was created the connection goes back
\* to main and the branch is deleted, if these two succeed; a retryable error leads
\* to another attempt with the same hashes.
CompactFails(s, back, deleted, retryable) ==
    /\ flock = s /\ task[s].op = "compact" /\ Fails(s, retryable)
    /\ deleted => back
    /\ pooled' = [pooled EXCEPT ![s] = @ /\ ~retryable]
    /\ at' = [at EXCEPT ![s] = IF (CleansUp(s) /\ back) \/ retryable \/ ~pooled[s] THEN Main ELSE @]
    /\ IF CleansUp(s) /\ deleted
       THEN /\ hist' = [hist EXCEPT ![CompactTmp] = <<>>]
            /\ work' = [work EXCEPT ![CompactTmp] = {}]
       ELSE UNCHANGED <<hist, work>>
    /\ abandoned' = IF CleansUp(s) /\ ~deleted THEN abandoned \cup {CompactTmp} ELSE abandoned
    /\ task' = [task EXCEPT ![s] = IF retryable THEN Planned(task[s].seen, task[s].cut) ELSE NoTask]
    /\ flock' = Free
    /\ UNCHANGED <<named, written, rewrites>>

GivesUp(s) ==
    /\ task[s].op = "planned"
    /\ task' = [task EXCEPT ![s] = NoTask]
    /\ UNCHANGED <<hist, work, flock, store, written, aside>>

-----------------------------------------------------------------------------
HistoryNext ==
    \E s \in Stores :
        \/ \E b \in Requested : Open(s, b)
        \/ \E b \in {Main} \cup Topics : Checkout(s, b)
        \/ Leave(s) \/ LoseConnection(s)
        \/ \E r \in AllRows : Write(s, r)
        \/ \E r \in DataRows : Pull(s, r)
        \/ CommitTables(s) \/ CommitWithConfig(s)
        \/ \E b \in Topics : Branch(s, b)
        \/ \E b \in Topics \cup Temps : DeleteBranch(s, b)
        \/ \E b \in {Main} \cup Topics : Merge(s, b)
        \/ CurrentBranch(s)
        \/ BeginFlatten(s) \/ PlanCompact(s) \/ BeginCompact(s) \/ GivesUp(s)
        \/ CreateTemp(s) \/ CheckoutTemp(s) \/ SoftResetToInitial(s) \/ CommitSquashed(s)
        \/ CherryPick(s) \/ CheckoutMain(s) \/ ResetMain(s) \/ DeleteTemp(s)
        \/ \E retryable \in BOOLEAN : FlattenFails(s, retryable)
        \/ \E back, deleted, retryable \in BOOLEAN : CompactFails(s, back, deleted, retryable)

HistorySpec == HistoryInit /\ [][HistoryNext]_historyVars

-----------------------------------------------------------------------------
Tasks == [op : Ops, step : Steps, seen : Seq(SUBSET AllRows), cut : Nat, next : Nat]

\* Type correctness; what is committed on a branch is in its working set.
HistoryTypeOK ==
    /\ hist \in [Branches -> Seq(SUBSET AllRows)]
    /\ work \in [Branches -> SUBSET AllRows]
    /\ flock \in Stores \cup {Free}
    /\ pooled \in [Stores -> BOOLEAN]
    /\ at \in [Stores -> Branches \cup {Closed}]
    /\ named \in [Stores -> Branches]
    /\ task \in [Stores -> Tasks]
    /\ \A b \in Branches : Content(hist[b]) \subseteq work[b]
    /\ written \in SUBSET AllRows
    /\ abandoned \in SUBSET Temps
    /\ troubles \in 0..MaxTroubles /\ rewrites \in 0..MaxRewrites

\* Rows committed to a user's branch are lost only with the branch, or when Flatten or
\* Compact resets main, and then only rows that were not in the log it started from.
CommittedRowsSurvive ==
    [][\A b \in {Main} \cup Topics :
          LET lost == Content(hist[b]) \ Content(hist[b])'
          IN  lost # {} =>
                  \/ b # Main /\ ~Exists(b)'
                  \/ b = Main /\ \E s \in Stores : At(s, "reset") /\ lost \cap Content(task[s].seen) = {}]_historyVars

\* A temporary branch is there while its operation runs, or because one died or failed
\* and, for Compact, could not clean up.
NoTempLeftOver ==
    \A t \in Temps : Exists(t) =>
        \/ t \in abandoned
        \/ flock # Free /\ Temp(flock) = t /\ task[flock].step # "create"

\* A store between calls that is not on the branch it names is on main or on a
\* temporary branch, never on another branch of the user.
StraysOnlyToMain ==
    \A s \in Stores : at[s] # Closed /\ flock # s /\ at[s] # named[s] => at[s] \in {Main} \cup Temps

\* Temporary branches and checkouts are where the operations put them, or where a
\* failure that the code handles leaves them.
BranchesAccounted == NoTempLeftOver /\ StraysOnlyToMain
=============================================================================
