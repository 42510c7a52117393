------------------------------ MODULE IssueLease ------------------------------
(***************************************************************************)
(* Claims, leases and dead-worker recovery.                                *)
(*                                                                         *)
(* A worker claims an issue with a compare-and-swap on its row; the claim  *)
(* stamps a lease that heartbeats push forward.  A supervisor reverts the  *)
(* issues whose lease expired longer ago than a grace window.  Everybody   *)
(* else edits the same rows: close, update, reopen, import and promotion.  *)
(*                                                                         *)
(* Every operation runs in one write transaction under the store's file    *)
(* lock and is one step here.  The one exception is a reclaim: its cutoff  *)
(* is computed before the lock is taken, so other transactions and time    *)
(* pass between the two halves.                                            *)
(***************************************************************************)
EXTENDS Integers

CONSTANTS
    Workers,          \* actors that claim and heartbeat
    Supervisors,      \* processes that call ReclaimExpiredLeases
    Issues,           \* ids of existing rows of the issues and wisps tables
    NoOne,            \* the empty or NULL assignee
    NoTime,           \* lease_expires_at is NULL, no reclaim in progress
    TTL,              \* the lease length, DefaultLeaseTTL
    Grace,            \* the least margin a supervisor leaves past an expiry
    Windows,          \* the olderThan values that reclaims are called with
    UpdateStatuses,   \* the statuses that updates and imports write
    MaxClock          \* bound on the clock

\* The built-in statuses; a custom status behaves like "hooked" here.
Statuses == {"open", "in_progress", "blocked", "deferred", "closed",
             "pinned", "hooked"}

ASSUME NoOneAssumption == NoOne \notin Workers
ASSUME NoTimeAssumption == NoTime \notin Int
ASSUME TimingAssumption ==
    /\ TTL \in Nat \ {0}
    /\ Grace \in Nat
    /\ \A d \in Windows : d \in Nat /\ d >= Grace
    /\ MaxClock \in Nat
ASSUME StatusAssumption == UpdateStatuses \subseteq Statuses

VARIABLES
    row,       \* the columns of a row that claims and leases use
    clock,     \* the wall clock of the hosts
    cutoff,    \* the cutoff of a reclaim that has not taken the lock yet
    alive,     \* the workers that have not died
    grant      \* history: until when a worker may count on holding an issue

vars == <<row, clock, cutoff, alive, grant>>

OptionalTime == Nat \cup {NoTime}
Assignees == Workers \cup {NoOne}

\* heartbeat_at is not kept: it is set and cleared together with the lease.
Row == [status   : Statuses,
        assignee : Assignees,
        lease    : OptionalTime,
        closedAt : BOOLEAN,
        wisp     : BOOLEAN]

\* Types of the columns, of the clock and of the calls in progress.
TypeOK ==
    /\ row \in [Issues -> Row]
    /\ clock \in Nat
    /\ cutoff \in [Supervisors -> Int \cup {NoTime}]
    /\ alive \subseteq Workers
    /\ grant \in [Workers -> [Issues -> OptionalTime]]

\* A row as CreateIssue leaves it, in either table.
Fresh(isWisp) ==
    [status |-> "open", assignee |-> NoOne, lease |-> NoTime,
     closedAt |-> FALSE, wisp |-> isWisp]

Init ==
    /\ \E isWisp \in [Issues -> BOOLEAN] :
           row = [i \in Issues |-> Fresh(isWisp[i])]
    /\ clock = 0
    /\ cutoff = [s \in Supervisors |-> NoTime]
    /\ alive = Workers
    /\ grant = [w \in Workers |-> [i \in Issues |-> NoTime]]

-------------------------------------------------------------------------------
(* What a successful claim or heartbeat entitles its caller to: nobody takes
   the issue away before the lease and the supervisors' margin have passed. *)

Promised(w, i) == [grant EXCEPT ![w][i] = clock + TTL + Grace]

\* Somebody disposed of issue i over the holder's head: all promises end.
Revoked(i) == [w \in Workers |-> [grant[w] EXCEPT ![i] = NoTime]]

-------------------------------------------------------------------------------
(* The workers *)

Claimable(w, i) ==
    /\ row[i].status = "open"
    /\ row[i].assignee \in {NoOne, w}

\* ClaimIssueInTx.  A claim that is lost or repeated writes nothing; in
\* particular the repeated claim of the holder answers success but does not
\* refresh the lease.
Claim(w, i) ==
    /\ w \in alive
    /\ Claimable(w, i)
    /\ row' = [row EXCEPT ![i] = [@ EXCEPT !.assignee = w,
                                           !.status = "in_progress",
                                           !.lease = clock + TTL]]
    /\ grant' = Promised(w, i)
    /\ UNCHANGED <<clock, cutoff, alive>>

\* HeartbeatIssueInTx; a heartbeat that matches no row is refused.
Heartbeat(w, i) ==
    /\ w \in alive
    /\ row[i].status = "in_progress"
    /\ row[i].assignee = w
    /\ row' = [row EXCEPT ![i].lease = clock + TTL]
    /\ grant' = Promised(w, i)
    /\ UNCHANGED <<clock, cutoff, alive>>

\* A worker process dies; its claims and leases stay behind.
Die(w) ==
    /\ w \in alive
    /\ alive' = alive \ {w}
    /\ UNCHANGED <<row, clock, cutoff, grant>>

-------------------------------------------------------------------------------
(* The supervisors *)

\* ReclaimExpiredLeases computes its cutoff, then waits for the file lock.
BeginReclaim(s) ==
    /\ cutoff[s] = NoTime
    /\ \E olderThan \in Windows :
           cutoff' = [cutoff EXCEPT ![s] = clock - olderThan]
    /\ UNCHANGED <<row, clock, alive, grant>>

\* Mutant: a lease that expires at the cutoff counts as stale.
StaleAtLimit(limit) ==
    {i \in Issues : /\ ~row[i].wisp
                    /\ row[i].status = "in_progress"
                    /\ row[i].lease # NoTime
                    /\ row[i].lease <= limit}

\* Mutant: the wisps table is scanned in place of the issues table.
StaleWisps(limit) ==
    {i \in Issues : /\ row[i].wisp
                    /\ row[i].status = "in_progress"
                    /\ row[i].lease # NoTime
                    /\ row[i].lease < limit}

\* The rows ReclaimExpiredLeasesInTx selects; only the issues table is scanned.
Stale(limit) ==
    {i \in Issues : /\ ~row[i].wisp
                    /\ row[i].status = "in_progress"
                    /\ row[i].lease # NoTime
                    /\ row[i].lease < limit}

\* ReclaimExpiredLeasesInTx under the lock: every stale row back to ready.
Reclaim(s) ==
    /\ cutoff[s] # NoTime
    /\ row' = [i \in Issues |->
                  IF i \in Stale(cutoff[s])
                  THEN [row[i] EXCEPT !.status = "open",
                                      !.assignee = NoOne,
                                      !.lease = NoTime]
                  ELSE row[i]]
    /\ cutoff' = [cutoff EXCEPT ![s] = NoTime]
    /\ UNCHANGED <<clock, alive, grant>>

-------------------------------------------------------------------------------
(* Everybody else *)

\* closeIssueInTx; closing a closed issue changes nothing.
Close(i) ==
    /\ row[i].status # "closed"
    /\ row' = [row EXCEPT ![i] = [@ EXCEPT !.status = "closed",
                                           !.closedAt = TRUE,
                                           !.lease = NoTime]]
    /\ grant' = Revoked(i)
    /\ UNCHANGED <<clock, cutoff, alive>>

\* ManageClosedAt: set on closing, cleared on leaving closed.
ManagedClosedAt(i, status) ==
    IF status = "closed" THEN TRUE
    ELSE IF row[i].status = "closed" THEN FALSE
    ELSE row[i].closedAt

\* updateIssueInTx with a status, and with an assignee that may be the old one.
\* The lease is no updatable field and is left as it is.  An update that names
\* closed_at itself overrides ManageClosedAt and is left out.
Update(i, status, assignee) ==
    /\ row' = [row EXCEPT ![i] = [@ EXCEPT
                      !.status = status,
                      !.assignee = assignee,
                      !.closedAt = ManagedClosedAt(i, status)]]
    /\ grant' = Revoked(i)
    /\ UNCHANGED <<clock, cutoff, alive>>

\* ReopenIssue is an update to open, on whatever status the issue has.
Reopen(i) == Update(i, "open", row[i].assignee)

\* insertIssueSQLite on an id that exists: INSERT OR REPLACE writes a new row,
\* whose lease columns have their defaults.
Import(i, status, assignee) ==
    /\ row' = [row EXCEPT ![i] = [Fresh(row[i].wisp) EXCEPT
                                     !.status = status,
                                     !.assignee = assignee,
                                     !.closedAt = (status = "closed")]]
    /\ grant' = Revoked(i)
    /\ UNCHANGED <<clock, cutoff, alive>>

\* PromoteFromEphemeralInTx re-inserts the wisp into the issues table; the
\* insert has no lease columns.  The holder keeps status and assignee.
Promote(i) ==
    /\ row[i].wisp
    /\ row' = [row EXCEPT ![i] = [@ EXCEPT !.wisp = FALSE,
                                           !.lease = NoTime]]
    /\ UNCHANGED <<clock, cutoff, alive, grant>>

\* Time passes.
Tick ==
    /\ clock < MaxClock
    /\ clock' = clock + 1
    /\ UNCHANGED <<row, cutoff, alive, grant>>

Next ==
    \/ \E w \in Workers, i \in Issues : Claim(w, i) \/ Heartbeat(w, i)
    \/ \E w \in Workers : Die(w)
    \/ \E s \in Supervisors : BeginReclaim(s) \/ Reclaim(s)
    \/ \E i \in Issues : Close(i) \/ Reopen(i) \/ Promote(i)
    \/ \E i \in Issues, status \in UpdateStatuses, assignee \in Assignees :
           Update(i, status, assignee) \/ Import(i, status, assignee)
    \/ Tick

Spec == Init /\ [][Next]_vars

\* Time passes and a supervisor that runs periodically gets the file lock.
Fairness ==
    /\ WF_vars(Tick)
    /\ \A s \in Supervisors : WF_vars(BeginReclaim(s)) /\ WF_vars(Reclaim(s))

FairSpec == Spec /\ Fairness

-------------------------------------------------------------------------------
(* Properties *)

\* Worker w was told that it holds i and the promise has not run out.
Holds(w, i) == grant[w][i] # NoTime /\ clock <= grant[w][i]

\* A worker that heartbeats within TTL + Grace keeps its claim: unless someone
\* closes, edits or imports the issue, no reclaim - not even one that waits for
\* the lock with a cutoff of its own - and no other claim takes it away.
PromiseKept ==
    \A w \in Workers, i \in Issues :
        Holds(w, i) => row[i].status = "in_progress" /\ row[i].assignee = w

\* Each issue is an exclusive slot of its own: the right to it passes from one worker to
\* another only by way of a moment when nobody has it.
Lease(i) == INSTANCE ExclusiveSlot WITH
    Agents <- Workers,
    owners <- {w \in Workers : Holds(w, i)}

\* Over every path that writes the status (close, update, reopen, reclaim,
\* import, promotion), closed_at is set on exactly the closed issues - what
\* types.Issue.Validate demands of a record.
ClosedAtCoherent ==
    \A i \in Issues : row[i].closedAt <=> row[i].status = "closed"

\* Work that a dead worker left with a lease in the issues table.
Stranded(w, i) ==
    /\ w \notin alive
    /\ ~row[i].wisp
    /\ row[i].status = "in_progress"
    /\ row[i].assignee = w

Recoverable(w, i) ==
    /\ Stranded(w, i)
    /\ row[i].lease # NoTime
    /\ \A d \in Windows : row[i].lease + d < MaxClock   \* expires in the model

\* Leased work of a dead worker does not stay with it for ever: supervisors
\* that keep running revert it once the lease and every margin have passed,
\* unless an edit, an import or a promotion took the lease away first.
StrandedWorkRecovered ==
    \A w \in Workers, i \in Issues : Recoverable(w, i) ~> ~Recoverable(w, i)
===============================================================================
