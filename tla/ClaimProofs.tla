------------------------------ MODULE ClaimProofs ------------------------------
(***************************************************************************)
(* Proofs about the two ways in which agents take hold of something: the   *)
(* leases of issues (IssueLease), for any workers, supervisors, issues and *)
(* windows, every TTL and every margin; and the merge slot (MergeSlot),    *)
(* for any agents and any keys.  The types of the slot need nothing; the   *)
(* rest about it is for Solitary clients: without that the properties fail *)
(* (MCMergeSlot_create.cfg).                                               *)
(***************************************************************************)
EXTENDS IssueLease, MergeSlot, TLAPS

(* Leases of issues.                                                       *)

\* A promise that has not run out is backed by the lease of the row, up to the
\* margin - or the row has no lease and no reclaim will select it.
LeaseBacksPromise ==
    \A w \in Workers, i \in Issues :
        Holds(w, i) =>
            \/ row[i].lease = NoTime
            \/ grant[w][i] <= row[i].lease + Grace

\* A cutoff lies a margin in the past, and waiting only makes it older.
CutoffInPast ==
    \A s \in Supervisors : cutoff[s] # NoTime => cutoff[s] + Grace <= clock

LeaseInv ==
    /\ TypeOK
    /\ PromiseKept
    /\ LeaseBacksPromise
    /\ CutoffInPast

-------------------------------------------------------------------------------
(* Types *)

LEMMA FreshType ==
    ASSUME NEW isWisp \in BOOLEAN
    PROVE  Fresh(isWisp) \in Row
BY DEF Fresh, Row, Statuses, Assignees, OptionalTime

LEMMA PromisedType ==
    ASSUME TypeOK, NEW w \in Workers, NEW i \in Issues
    PROVE  Promised(w, i) \in [Workers -> [Issues -> OptionalTime]]
<1>1. clock + TTL + Grace \in OptionalTime
  BY TimingAssumption DEF TypeOK, OptionalTime
<1>2. QED
  BY <1>1 DEF TypeOK, Promised

LEMMA RevokedType ==
    ASSUME TypeOK, NEW i \in Issues
    PROVE  Revoked(i) \in [Workers -> [Issues -> OptionalTime]]
BY DEF TypeOK, Revoked, OptionalTime

LEMMA InitType == Init => TypeOK
<1> SUFFICES ASSUME Init PROVE TypeOK
  OBVIOUS
<1>1. row \in [Issues -> Row]
  BY FreshType DEF Init
<1>2. QED
  BY <1>1 DEF Init, TypeOK, OptionalTime

LEMMA NextType == TypeOK /\ [Next]_vars => TypeOK'
<1> SUFFICES ASSUME TypeOK, [Next]_vars PROVE TypeOK'
  OBVIOUS
<1>1. ASSUME NEW w \in Workers, NEW i \in Issues, Claim(w, i) PROVE TypeOK'
  <2>1. row' \in [Issues -> Row]
    <3>1. clock + TTL \in OptionalTime
      BY TimingAssumption DEF TypeOK, OptionalTime
    <3>2. [row[i] EXCEPT !.assignee = w, !.status = "in_progress", !.lease = clock + TTL] \in Row
      BY <3>1 DEF TypeOK, Row, Statuses, Assignees
    <3>3. QED
      BY <1>1, <3>2 DEF Claim, TypeOK
  <2>2. grant' \in [Workers -> [Issues -> OptionalTime]]
    BY <1>1, PromisedType DEF Claim
  <2>3. QED
    BY <1>1, <2>1, <2>2 DEF Claim, TypeOK
<1>2. ASSUME NEW w \in Workers, NEW i \in Issues, Heartbeat(w, i) PROVE TypeOK'
  <2>1. row' \in [Issues -> Row]
    <3>1. clock + TTL \in OptionalTime
      BY TimingAssumption DEF TypeOK, OptionalTime
    <3>2. QED
      BY <1>2, <3>1 DEF Heartbeat, TypeOK, Row
  <2>2. grant' \in [Workers -> [Issues -> OptionalTime]]
    BY <1>2, PromisedType DEF Heartbeat
  <2>3. QED
    BY <1>2, <2>1, <2>2 DEF Heartbeat, TypeOK
<1>3. ASSUME NEW w \in Workers, Die(w) PROVE TypeOK'
  BY <1>3 DEF Die, TypeOK
<1>4. ASSUME NEW s \in Supervisors, BeginReclaim(s) PROVE TypeOK'
  BY <1>4, TimingAssumption DEF BeginReclaim, TypeOK
<1>5. ASSUME NEW s \in Supervisors, Reclaim(s) PROVE TypeOK'
  <2>1. row' \in [Issues -> Row]
    <3>1. \A i \in Issues :
              [row[i] EXCEPT !.status = "open", !.assignee = NoOne, !.lease = NoTime] \in Row
      BY DEF TypeOK, Row, Statuses, Assignees, OptionalTime
    <3>2. QED
      BY <1>5, <3>1 DEF Reclaim, TypeOK
  <2>2. QED
    BY <1>5, <2>1 DEF Reclaim, TypeOK
<1>6. ASSUME NEW i \in Issues, Close(i) PROVE TypeOK'
  <2>1. row' \in [Issues -> Row]
    <3>1. [row[i] EXCEPT !.status = "closed", !.closedAt = TRUE, !.lease = NoTime] \in Row
      BY DEF TypeOK, Row, Statuses, OptionalTime
    <3>2. QED
      BY <1>6, <3>1 DEF Close, TypeOK
  <2>2. QED
    BY <1>6, <2>1, RevokedType DEF Close, TypeOK
<1>7. ASSUME NEW i \in Issues, NEW status \in Statuses,
             NEW assignee \in Assignees, Update(i, status, assignee)
      PROVE TypeOK'
  <2>1. row' \in [Issues -> Row]
    <3>1. ManagedClosedAt(i, status) \in BOOLEAN
      BY DEF ManagedClosedAt, TypeOK, Row
    <3>2. [row[i] EXCEPT !.status = status, !.assignee = assignee,
                         !.closedAt = ManagedClosedAt(i, status)] \in Row
      BY <3>1 DEF TypeOK, Row
    <3>3. QED
      BY <1>7, <3>2 DEF Update, TypeOK
  <2>2. QED
    BY <1>7, <2>1, RevokedType DEF Update, TypeOK
<1>8. ASSUME NEW i \in Issues, Reopen(i) PROVE TypeOK'
  <2>1. row[i].assignee \in Assignees /\ "open" \in Statuses
    BY DEF TypeOK, Row, Statuses
  <2>2. QED
    BY <1>7, <1>8, <2>1 DEF Reopen
<1>9. ASSUME NEW i \in Issues, NEW status \in Statuses,
             NEW assignee \in Assignees, Import(i, status, assignee)
      PROVE TypeOK'
  <2>1. row' \in [Issues -> Row]
    BY <1>9 DEF Import, Fresh, TypeOK, Row, OptionalTime
  <2>2. QED
    BY <1>9, <2>1, RevokedType DEF Import, TypeOK
<1>10. ASSUME NEW i \in Issues, Promote(i) PROVE TypeOK'
  BY <1>10 DEF Promote, TypeOK, Row, OptionalTime
<1>11. ASSUME Tick PROVE TypeOK'
  BY <1>11 DEF Tick, TypeOK
<1>12. ASSUME UNCHANGED vars PROVE TypeOK'
  BY <1>12 DEF vars, TypeOK
<1>13. QED
  BY <1>1, <1>2, <1>3, <1>4, <1>5, <1>6, <1>7, <1>8, <1>9, <1>10, <1>11,
     <1>12, StatusAssumption DEF Next

\* The columns, the clock and the calls in progress always have their types:
\* no operation on a row writes a status, assignee or lease out of its domain.
THEOREM LeaseTypes == Spec => []TypeOK
<1>1. QED
  BY InitType, NextType, PTL DEF Spec

-------------------------------------------------------------------------------
(* closed_at *)

LEMMA InitClosedAt == Init => ClosedAtCoherent
BY DEF Init, Fresh, ClosedAtCoherent

LEMMA NextClosedAt == TypeOK /\ ClosedAtCoherent /\ [Next]_vars => ClosedAtCoherent'
<1> SUFFICES ASSUME TypeOK, ClosedAtCoherent, [Next]_vars,
                    NEW j \in Issues
             PROVE  row'[j].closedAt <=> row'[j].status = "closed"
  BY DEF ClosedAtCoherent
<1>a. row[j].closedAt <=> row[j].status = "closed"
  BY DEF ClosedAtCoherent
<1>b. row \in [Issues -> Row]
  BY DEF TypeOK
<1> DEFINE Kept == row'[j].closedAt <=> row'[j].status = "closed"
<1>1. ASSUME NEW w \in Workers, NEW i \in Issues, Claim(w, i) PROVE Kept
  BY <1>1, <1>a, <1>b DEF Claim, Claimable, Row
<1>2. ASSUME NEW w \in Workers, NEW i \in Issues, Heartbeat(w, i) PROVE Kept
  BY <1>2, <1>a, <1>b DEF Heartbeat, Row
<1>3. ASSUME NEW s \in Supervisors, Reclaim(s) PROVE Kept
  BY <1>3, <1>a, <1>b DEF Reclaim, Stale, Row
<1>4. ASSUME NEW i \in Issues, Close(i) PROVE Kept
  BY <1>4, <1>a, <1>b DEF Close, Row
<1>5. ASSUME NEW i \in Issues, NEW status, NEW assignee,
             Update(i, status, assignee)
      PROVE Kept
  BY <1>5, <1>a, <1>b DEF Update, ManagedClosedAt, Row
<1>6. ASSUME NEW i \in Issues, NEW status, NEW assignee,
             Import(i, status, assignee)
      PROVE Kept
  BY <1>6, <1>a, <1>b DEF Import, Fresh, Row
<1>7. ASSUME NEW i \in Issues, Promote(i) PROVE Kept
  BY <1>7, <1>a, <1>b DEF Promote, Row
<1>8. CASE UNCHANGED row
  BY <1>8, <1>a
<1>9. QED
  BY <1>1, <1>2, <1>3, <1>4, <1>5, <1>6, <1>7, <1>8
     DEF Next, Reopen, Die, BeginReclaim, Tick, vars

\* closed_at and the status agree for ever, over every path that writes either.
THEOREM ClosedAtAlwaysCoherent == Spec => []ClosedAtCoherent
<1>1. QED
  BY InitType, NextType, InitClosedAt, NextClosedAt, PTL DEF Spec

-------------------------------------------------------------------------------
(* The promise to the holder *)

LEMMA InitLease == Init => LeaseInv
<1> SUFFICES ASSUME Init PROVE LeaseInv
  OBVIOUS
<1>1. \A w \in Workers, i \in Issues : ~Holds(w, i)
  BY DEF Init, Holds
<1>2. QED
  BY <1>1, InitType DEF Init, LeaseInv, PromiseKept, LeaseBacksPromise,
     CutoffInPast

LEMMA NextCutoff == LeaseInv /\ [Next]_vars => CutoffInPast'
<1> SUFFICES ASSUME LeaseInv, [Next]_vars,
                    NEW t \in Supervisors, cutoff'[t] # NoTime
             PROVE  cutoff'[t] + Grace <= clock'
  BY DEF CutoffInPast
<1> USE DEF LeaseInv
<1>a. clock \in Nat /\ Grace \in Nat /\ cutoff \in [Supervisors -> Int \cup {NoTime}]
  BY TimingAssumption DEF TypeOK
<1>b. cutoff[t] # NoTime => cutoff[t] \in Int /\ cutoff[t] + Grace <= clock
  BY <1>a DEF CutoffInPast
<1>1. ASSUME NEW s \in Supervisors, BeginReclaim(s)
      PROVE  cutoff'[t] + Grace <= clock'
  <2>1. CASE s = t
    <3>1. PICK olderThan \in Windows :
              cutoff' = [cutoff EXCEPT ![s] = clock - olderThan]
      BY <1>1 DEF BeginReclaim
    <3>2. olderThan \in Nat /\ olderThan >= Grace
      BY TimingAssumption
    <3>3. cutoff'[t] = clock - olderThan /\ clock' = clock
      BY <1>1, <1>a, <2>1, <3>1 DEF BeginReclaim
    <3>4. QED
      BY <1>a, <3>2, <3>3
  <2>2. CASE s # t
    BY <1>1, <1>a, <1>b, <2>2 DEF BeginReclaim
  <2>3. QED
    BY <2>1, <2>2
<1>2. ASSUME NEW s \in Supervisors, Reclaim(s)
      PROVE  cutoff'[t] + Grace <= clock'
  BY <1>2, <1>a, <1>b DEF Reclaim
<1>3. CASE Tick
  BY <1>3, <1>a, <1>b DEF Tick
<1>4. CASE UNCHANGED <<cutoff, clock>>
  BY <1>4, <1>b
<1>5. QED
  BY <1>1, <1>2, <1>3, <1>4
     DEF Next, Claim, Heartbeat, Die, Close, Update, Reopen, Import, Promote, vars

\* What the holder of a live promise sees of the row, before and after a step.
Backed(w, i) ==
    /\ row[i].status = "in_progress" /\ row[i].assignee = w
    /\ row[i].lease = NoTime \/ grant[w][i] <= row[i].lease + Grace

\* A reclaim never selects a row somebody holds: its cutoff is at least a
\* margin old, and the lease at most a margin behind the promise.
LEMMA HeldIsNotStale ==
    ASSUME LeaseInv, NEW s \in Supervisors, cutoff[s] # NoTime,
           NEW w \in Workers, NEW i \in Issues, Holds(w, i)
    PROVE  i \notin Stale(cutoff[s])
<1>1. /\ clock \in Nat /\ Grace \in Nat /\ cutoff[s] \in Int
      /\ grant[w][i] \in Nat /\ row[i].lease \in OptionalTime
  BY TimingAssumption DEF LeaseInv, TypeOK, Row, OptionalTime, Holds
<1>2. cutoff[s] + Grace <= clock /\ clock <= grant[w][i]
  BY DEF LeaseInv, CutoffInPast, Holds
<1>3. row[i].lease = NoTime \/ grant[w][i] <= row[i].lease + Grace
  BY DEF LeaseInv, LeaseBacksPromise
<1>4. CASE row[i].lease = NoTime
  BY <1>4 DEF Stale
<1>5. CASE row[i].lease # NoTime
  <2>1. row[i].lease \in Nat
    BY <1>1, <1>5 DEF OptionalTime
  <2>2. ~(row[i].lease < cutoff[s])
    BY <1>1, <1>2, <1>3, <1>5, <2>1
  <2>3. QED
    BY <2>2 DEF Stale
<1>6. QED
  BY <1>4, <1>5

LEMMA NextPromise ==
    LeaseInv /\ [Next]_vars => PromiseKept' /\ LeaseBacksPromise'
<1> SUFFICES ASSUME LeaseInv, [Next]_vars,
                    NEW v \in Workers, NEW j \in Issues, Holds(v, j)'
             PROVE  Backed(v, j)'
  BY DEF PromiseKept, LeaseBacksPromise, Backed
<1>a. /\ row \in [Issues -> Row]
      /\ grant \in [Workers -> [Issues -> OptionalTime]]
      /\ clock \in Nat /\ TTL \in Nat /\ Grace \in Nat
      /\ NoTime \notin Nat
  BY TimingAssumption, NoTimeAssumption DEF LeaseInv, TypeOK
<1>b. \A w \in Workers, i \in Issues : Holds(w, i) => Backed(w, i)
  BY DEF LeaseInv, PromiseKept, LeaseBacksPromise, Backed
<1>c. ASSUME NEW w \in Workers, NEW i \in Issues, grant' = Promised(w, i),
             row'[i].status = "in_progress", row'[i].assignee = w,
             row'[i].lease = clock + TTL, clock' = clock,
             \A k \in Issues \ {i} : row'[k] = row[k],
             \A u \in Workers \ {w} : ~Holds(u, i)
      PROVE  Backed(v, j)'
  <2>1. CASE v = w /\ j = i
    <3>1. grant'[v][j] = clock + TTL + Grace
      BY <1>a, <1>c, <2>1 DEF Promised
    <3>2. QED
      BY <1>a, <1>c, <2>1, <3>1 DEF Backed
  <2>2. CASE ~(v = w /\ j = i)
    <3>1. grant'[v][j] = grant[v][j]
      BY <1>a, <1>c, <2>2 DEF Promised
    <3>2. Holds(v, j)
      BY <1>c, <3>1 DEF Holds
    <3>3. row'[j] = row[j]
      BY <1>c, <2>2, <3>2
    <3>4. QED
      BY <1>b, <3>1, <3>2, <3>3 DEF Backed
  <2>3. QED
    BY <2>1, <2>2
<1>d. ASSUME NEW i \in Issues, grant' = Revoked(i), clock' = clock,
             \A k \in Issues \ {i} : row'[k] = row[k]
      PROVE  Backed(v, j)'
  <2>1. j # i
    BY <1>a, <1>d DEF Revoked, Holds
  <2>2. grant'[v][j] = grant[v][j]
    BY <1>a, <1>d, <2>1 DEF Revoked
  <2>3. Holds(v, j)
    BY <1>d, <2>2 DEF Holds
  <2>4. QED
    BY <1>b, <1>d, <2>1, <2>2, <2>3 DEF Backed
<1>1. ASSUME NEW w \in Workers, NEW i \in Issues, Claim(w, i)
      PROVE  Backed(v, j)'
  <2>1. \A u \in Workers : ~Holds(u, i)
    BY <1>1, <1>b DEF Claim, Claimable, Backed
  <2>2. /\ row'[i].status = "in_progress" /\ row'[i].assignee = w
        /\ row'[i].lease = clock + TTL
        /\ \A k \in Issues \ {i} : row'[k] = row[k]
    BY <1>1, <1>a DEF Claim, Row
  <2>3. QED
    BY <1>1, <1>c, <2>1, <2>2 DEF Claim
<1>2. ASSUME NEW w \in Workers, NEW i \in Issues, Heartbeat(w, i)
      PROVE  Backed(v, j)'
  <2>1. \A u \in Workers \ {w} : ~Holds(u, i)
    BY <1>2, <1>b DEF Heartbeat, Backed
  <2>2. /\ row'[i].status = "in_progress" /\ row'[i].assignee = w
        /\ row'[i].lease = clock + TTL
        /\ \A k \in Issues \ {i} : row'[k] = row[k]
    BY <1>2, <1>a DEF Heartbeat, Row
  <2>3. QED
    BY <1>2, <1>c, <2>1, <2>2 DEF Heartbeat
<1>3. ASSUME NEW s \in Supervisors, Reclaim(s)
      PROVE  Backed(v, j)'
  <2>1. Holds(v, j) /\ grant' = grant
    BY <1>3 DEF Reclaim, Holds
  <2>2. j \notin Stale(cutoff[s])
    BY <1>3, <2>1, HeldIsNotStale DEF Reclaim
  <2>3. row'[j] = row[j]
    BY <1>3, <2>2 DEF Reclaim
  <2>4. QED
    BY <1>b, <2>1, <2>3 DEF Backed
<1>4. ASSUME NEW i \in Issues, Close(i)
      PROVE  Backed(v, j)'
  BY <1>4, <1>a, <1>d DEF Close
<1>5. ASSUME NEW i \in Issues, NEW status, NEW assignee,
             Update(i, status, assignee)
      PROVE  Backed(v, j)'
  BY <1>5, <1>a, <1>d DEF Update
<1>6. ASSUME NEW i \in Issues, NEW status, NEW assignee,
             Import(i, status, assignee)
      PROVE  Backed(v, j)'
  BY <1>6, <1>a, <1>d DEF Import
<1>7. ASSUME NEW i \in Issues, Promote(i)
      PROVE  Backed(v, j)'
  <2>1. Holds(v, j) /\ grant' = grant
    BY <1>7 DEF Promote, Holds
  <2>2. /\ row'[j].status = row[j].status /\ row'[j].assignee = row[j].assignee
        /\ row'[j].lease \in {row[j].lease, NoTime}
    BY <1>7, <1>a DEF Promote, Row
  <2>3. QED
    BY <1>b, <2>1, <2>2 DEF Backed
<1>8. CASE Tick
  <2>1. Holds(v, j)
    BY <1>8, <1>a DEF Tick, Holds, OptionalTime
  <2>2. QED
    BY <1>8, <1>b, <2>1 DEF Tick, Backed
<1>9. CASE UNCHANGED <<row, clock, grant>>
  BY <1>9, <1>b DEF Holds, Backed
<1>10. QED
  BY <1>1, <1>2, <1>3, <1>4, <1>5, <1>6, <1>7, <1>8, <1>9
     DEF Next, Reopen, Die, BeginReclaim, vars

LEMMA LeaseInvariant == Spec => []LeaseInv
<1>1. LeaseInv /\ [Next]_vars => LeaseInv'
  BY NextType, NextCutoff, NextPromise DEF LeaseInv
<1>2. QED
  BY <1>1, InitLease, PTL DEF Spec

\* Whoever claims and heartbeats in time keeps the issue: for every TTL, every
\* margin and any number of supervisors whose cutoffs waited for the lock.
THEOREM HolderKeepsIssue == Spec => []PromiseKept
<1>1. LeaseInv => PromiseKept
  BY DEF LeaseInv
<1>2. QED
  BY <1>1, LeaseInvariant, PTL

\* No two workers are ever both entitled to the same issue.
THEOREM LeasesExclude ==
    Spec => [](\A v, w \in Workers, i \in Issues :
                   Holds(v, i) /\ Holds(w, i) => v = w)
<1>1. LeaseInv => \A v, w \in Workers, i \in Issues :
                      Holds(v, i) /\ Holds(w, i) => v = w
  BY DEF LeaseInv, PromiseKept
<1>2. QED
  BY <1>1, LeaseInvariant, PTL

\* For every issue, each step takes the lease from nobody, gives it back to nobody or
\* leaves it where it is (ClaimIssueInTx, HeartbeatIssueInTx, ReclaimExpiredLeasesInTx).
THEOREM LeasesAreExclusive == ASSUME NEW i \in Issues PROVE Spec => Lease(i)!Spec
<1> DEFINE H == {w \in Workers : Holds(w, i)}
<1>1. Init => Lease(i)!Init
  BY DEF Init, Holds, Lease!Init
<1>2. LeaseInv /\ LeaseInv' /\ [Next]_vars => [Lease(i)!Next]_H
  <2> SUFFICES ASSUME LeaseInv, LeaseInv', [Next]_vars PROVE Lease(i)!Next \/ H' = H
    OBVIOUS
  <2>1. /\ \A v, w \in Workers : Holds(v, i) /\ Holds(w, i) => v = w
        /\ \A v, w \in Workers : Holds(v, i)' /\ Holds(w, i)' => v = w
    BY DEF LeaseInv, PromiseKept
  <2>2. H = {} \/ H' = {} \/ H' = H => Lease(i)!Next \/ H' = H
    <3>1. CASE H = {} /\ H' # {}
      <4>1. PICK w \in Workers : H' = {w}
        BY <2>1, <3>1
      <4> QED
        BY <3>1, <4>1 DEF Lease!Next, Lease!Take
    <3>2. CASE H # {} /\ H' = {}
      <4>1. PICK w \in Workers : H = {w}
        BY <2>1, <3>2
      <4> QED
        BY <3>2, <4>1 DEF Lease!Next, Lease!Give
    <3> QED
      BY <3>1, <3>2
  <2>3. /\ grant \in [Workers -> [Issues -> OptionalTime]] /\ clock \in Nat
        /\ NoTime \notin Int
    BY NoTimeAssumption DEF LeaseInv, TypeOK
  <2>4. ASSUME NEW w \in Workers, NEW j \in Issues, Claim(w, j) \/ Heartbeat(w, j)
        PROVE  H = {} \/ H' = H
    <3>1. grant' = Promised(w, j) /\ clock' = clock
      BY <2>4 DEF Claim, Heartbeat
    <3>2. CASE j # i
      BY <2>3, <3>1, <3>2 DEF Promised, Holds
    <3>3. CASE j = i /\ Claim(w, j)
      BY <3>3 DEF Claim, Claimable, LeaseInv, PromiseKept
    <3>4. CASE j = i /\ Heartbeat(w, j)
      <4>1. \A v \in Workers : Holds(v, i) => v = w
        BY <3>4 DEF Heartbeat, LeaseInv, PromiseKept
      <4>2. Holds(w, i)'
        <5>1. grant'[w][i] = clock + TTL + Grace /\ clock + TTL + Grace \in Nat
          BY <2>3, <3>1, <3>4, TimingAssumption DEF Promised
        <5> QED
          BY <2>3, <3>1, <5>1, TimingAssumption DEF Holds
      <4> QED
        BY <2>1, <4>1, <4>2
    <3> QED
      BY <2>4, <3>2, <3>3, <3>4
  <2>5. ASSUME NEW j \in Issues, grant' = Revoked(j), clock' = clock
        PROVE  H' = {} \/ H' = H
    BY <2>3, <2>5 DEF Revoked, Holds
  <2>6. CASE Tick
    <3>1. H' \subseteq H
      BY <2>3, <2>6 DEF Tick, Holds, OptionalTime
    <3> QED
      BY <2>1, <2>2, <3>1
  <2>7. CASE UNCHANGED <<grant, clock>>
    BY <2>7 DEF Holds
  <2> QED
    BY <2>2, <2>4, <2>5, <2>6, <2>7
    DEF Next, Close, Reopen, Update, Import, Promote, Die, BeginReclaim, Reclaim, vars
<1> QED
  BY <1>1, <1>2, LeaseInvariant, PTL DEF Spec, Lease!Spec

-----------------------------------------------------------------------------
(* The merge slot.                                                         *)

\* A call keeps its agent busy; only an acquire acquires; who asked to release
\* no longer acts as the holder.
CallsCoherent ==
    \A a \in Agents :
        /\ proc[a].pc = "idle" <=> proc[a].op = "none"
        /\ proc[a].acquired => proc[a].op = "acquire" /\ proc[a].pc # "lock"
        /\ proc[a].op = "release" => a \notin holds

\* An unprotected call is alone, so what it read is still there.
ReadsStand ==
    \A a \in Agents :
        /\ proc[a].op \in Unprotected => \A b \in Agents \ {a} : proc[b].pc = "idle"
        /\ proc[a].pc \in {"lock", "run", "commit"} =>
             /\ proc[a].op = "create" => slot.status = "absent"
             /\ proc[a].op = "keys" => slot.status # "absent" /\ proc[a].seen.holder = slot.holder

\* What a transaction is about to commit, against the row under its lock.
WantsStand ==
    \A a \in Agents :
        /\ proc[a].pc \in {"run", "commit"} /\ proc[a].acquired => slot.status = "open"
        /\ proc[a].pc = "commit" =>
             /\ proc[a].op = "acquire" =>
                  /\ proc[a].want.status = "in_progress"
                  /\ IF proc[a].acquired THEN proc[a].want.holder = a
                     ELSE slot.status = "in_progress" /\ proc[a].want.holder = slot.holder
             /\ proc[a].op = "release" => slot.holder = a
             /\ proc[a].op = "keys" => /\ proc[a].want.status = slot.status
                                       /\ proc[a].want.holder = slot.holder

\* An acquisition that is committed and not answered yet.
AnswersStand ==
    \A a \in Agents :
        proc[a].pc = "answer" /\ proc[a].acquired /\ a \notin forced
        => slot.status = "in_progress" /\ slot.holder = a

Inv == SlotTypeOK /\ CallsCoherent /\ ReadsStand /\ WantsStand /\ AnswersStand /\ HolderCanRelease

-----------------------------------------------------------------------------

LEMMA RowTypes == Absent \in Rows /\ NewRow \in Rows /\ Idle \in Procs
  <1>1. <<>> \in Seq(Agents)
    OBVIOUS
  <1>2. Absent \in Rows /\ NewRow \in Rows
    BY <1>1 DEF Absent, NewRow, Rows
  <1> QED BY <1>2 DEF Idle, Procs

LEMMA TypeNext == SlotTypeOK /\ [SlotNext]_slotVars => SlotTypeOK'
  <1> SUFFICES ASSUME SlotTypeOK, [SlotNext]_slotVars PROVE SlotTypeOK'
    OBVIOUS
  <1>1. CASE UNCHANGED slotVars
    BY <1>1 DEF SlotTypeOK, slotVars
  <1>2. ASSUME NEW a \in Agents, Step(a) PROVE SlotTypeOK'
    <2> USE SlotAssumption, RowTypes
    <2>1. ASSUME NEW op \in {"acquire", "release", "force", "create", "keys"},
                 NEW wait \in BOOLEAN, NEW seen \in Rows, Ask(a, op, wait, seen),
                 holds' \in SUBSET Agents
          PROVE  SlotTypeOK'
      <3>1. [Idle EXCEPT !.pc = "lock", !.op = op, !.wait = wait, !.seen = seen] \in Procs
        BY DEF Idle, Procs
      <3>2. [Idle EXCEPT !.pc = "lock", !.op = op, !.wait = wait, !.seen = seen].pc = "lock"
        BY DEF Idle
      <3> QED BY <2>1, <3>1, <3>2 DEF SlotTypeOK, Ask, IsIdle
    <2>2. CASE \E wait \in BOOLEAN : AskAcquire(a, wait)
      BY <2>1, <2>2 DEF AskAcquire, SlotTypeOK
    <2>3. CASE AskRelease(a)
      BY <2>1, <2>3 DEF AskRelease, SlotTypeOK
    <2>4. CASE AskForce(a)
      BY <2>1, <2>4 DEF AskForce, SlotTypeOK
    <2>5. CASE AskCreate(a)
      BY <2>1, <2>5 DEF AskCreate, SlotTypeOK
    <2>6. CASE \E k \in Keys : AskKeys(a, k)
      <3>1. PICK k \in Keys : AskKeys(a, k)
        BY <2>6
      <3>2. /\ [slot EXCEPT !.extra = @ \cup {k}] \in Rows
            /\ [slot EXCEPT !.extra = @ \ {k}] \in Rows
        BY DEF SlotTypeOK, Rows
      <3> QED BY <2>1, <3>1, <3>2 DEF AskKeys, SlotTypeOK
    <2>7. CASE TakeLock(a)
      BY <2>7 DEF TakeLock, SlotTypeOK, Procs, told
    <2>8. CASE Run(a)
      <3> DEFINE Attempted == /\ proc' \in [Agents -> Procs]
                              /\ proc'[a].pc = "commit"
                              /\ \A b \in Agents \ {a} : proc'[b] = proc[b]
      <3>1. ASSUME Attempted PROVE SlotTypeOK'
        <4>1. UNCHANGED <<slot, lock, holds, forced, waits>> /\ proc[a].pc = "run"
          BY <2>8 DEF Run, told
        <4> QED BY <3>1, <4>1 DEF SlotTypeOK
      <3>2. proc \in [Agents -> Procs] /\ proc[a] \in Procs /\ slot \in Rows
        BY DEF SlotTypeOK
      <3>3. CASE TakeIfOpen(a)
        <4>1. [slot EXCEPT !.status = "in_progress", !.holder = a, !.extra = {}] \in Rows
          BY <3>2 DEF Rows
        <4> QED BY <3>1, <3>2, <3>3, <4>1 DEF TakeIfOpen, Procs
      <3>4. CASE StandInLine(a)
        <4> DEFINE queue == IF a \in Elems(slot.waiters) THEN slot.waiters
                            ELSE Append(slot.waiters, a)
        <4>1. queue \in Seq(Agents)
          BY <3>2 DEF Rows
        <4>2. [slot EXCEPT !.waiters = queue, !.extra = {}] \in Rows
          BY <3>2, <4>1 DEF Rows
        <4> QED BY <3>1, <3>2, <3>4, <4>2 DEF StandInLine, Procs
      <3>5. ASSUME NEW want \in Rows, Wanting(a, want) PROVE SlotTypeOK'
        BY <3>1, <3>2, <3>5 DEF Wanting, Procs
      <3>6. CASE SeeHeld(a) \/ NothingToRelease(a) \/ InsertSlot(a)
        BY <3>2, <3>5, <3>6 DEF SeeHeld, NothingToRelease, InsertSlot
      <3>7. CASE LetGo(a)
        BY <3>2, <3>5, <3>7 DEF LetGo, Rows
      <3>8. CASE WriteMetadata(a)
        BY <3>2, <3>5, <3>8 DEF WriteMetadata, Rows, Procs
      <3> QED BY <2>8, <3>3, <3>4, <3>6, <3>7, <3>8 DEF Run
    <2>9. CASE Commit(a)
      <3>1. proc[a] \in Procs /\ proc[a].want \in Rows /\ Absent \in Rows
        BY RowTypes DEF SlotTypeOK, Procs
      <3>2. [proc[a] EXCEPT !.pc = "answer", !.wait = FALSE, !.seen = Absent, !.want = Absent] \in Procs
        BY <3>1 DEF Procs
      <3>3. forced' \in SUBSET Agents
        BY <2>9 DEF Commit, SlotTypeOK
      <3> QED BY <2>9, <3>1, <3>2, <3>3, SlotAssumption DEF Commit, SlotTypeOK
    <2>10. CASE Conflict(a)
      <3>1. proc[a] \in Procs /\ Absent \in Rows
        BY RowTypes DEF SlotTypeOK
      <3>2. [proc[a] EXCEPT !.pc = "run", !.want = Absent] \in Procs
        BY <3>1 DEF Procs
      <3>3. proc' = [proc EXCEPT ![a] = [proc[a] EXCEPT !.pc = "run", !.want = Absent]]
        BY <2>10 DEF Conflict, SlotTypeOK
      <3> QED BY <2>10, <3>2, <3>3 DEF Conflict, SlotTypeOK, told
    <2>11. CASE Fail(a)
      BY <2>11 DEF Fail, SlotTypeOK, told, Idle
    <2>12. CASE Answer(a)
      BY <2>12 DEF Answer, SlotTypeOK, Idle
    <2> QED BY <1>2, <2>2, <2>3, <2>4, <2>5, <2>6, <2>7, <2>8, <2>9, <2>10, <2>11, <2>12
            DEF Step
  <1> QED BY <1>1, <1>2 DEF SlotNext

\* The type invariant, the lock's owner included (withExclusiveLock).
THEOREM SlotTypes == SlotSpec => []SlotTypeOK
  <1>1. SlotInit => SlotTypeOK
    BY RowTypes, SlotAssumption DEF SlotInit, SlotTypeOK, Idle
  <1> QED BY <1>1, TypeNext, PTL DEF SlotSpec

-----------------------------------------------------------------------------
(* The inductive step, action by action.                                   *)

LEMMA InvAsk ==
    ASSUME Solitary, Inv, NEW a \in Agents,
           NEW op \in {"acquire", "release", "force", "create", "keys"},
           NEW wait \in BOOLEAN, NEW seen \in Rows, Ask(a, op, wait, seen), SlotTypeOK',
           op = "create" => slot.status = "absent",
           op = "keys" => slot.status # "absent" /\ seen.holder = slot.holder,
           holds' \subseteq holds, op = "release" => a \notin holds'
    PROVE  Inv'
  <1>1. /\ proc[a].pc = "idle" /\ proc[a].op = "none"
        /\ proc'[a].pc = "lock" /\ proc'[a].op = op /\ ~proc'[a].acquired /\ proc'[a].seen = seen
        /\ \A b \in Agents \ {a} : proc'[b] = proc[b]
        /\ UNCHANGED <<slot, lock, forced, waits>>
    BY DEF Ask, IsIdle, Inv, SlotTypeOK, CallsCoherent, Idle
  <1>2. /\ \A b \in Agents : proc[b].op \notin Unprotected
        /\ op \in Unprotected => \A b \in Agents : proc[b].pc = "idle"
    BY DEF Ask, IsIdle
  <1>3. CallsCoherent'
    BY <1>1 DEF CallsCoherent, Inv
  <1>4. ReadsStand'
    BY <1>1, <1>2 DEF ReadsStand, Inv, Unprotected
  <1>5. WantsStand'
    BY <1>1 DEF WantsStand, Inv
  <1>6. AnswersStand'
    BY <1>1 DEF AnswersStand, Inv
  <1>7. HolderCanRelease'
    BY <1>1 DEF HolderCanRelease, Holders, Inv
  <1> QED BY <1>3, <1>4, <1>5, <1>6, <1>7 DEF Inv

\* A step of a call that keeps the row, the lock's owner aside, and what it said.
LEMMA InvRun ==
    ASSUME Inv, NEW a \in Agents, Run(a), SlotTypeOK'
    PROVE  Inv'
  <1>1. /\ proc[a].pc = "run" /\ proc[a] \in Procs /\ slot \in Rows
        /\ UNCHANGED <<slot, lock, holds, forced, waits>>
    BY DEF Run, told, Inv, SlotTypeOK
  <1>2. /\ proc'[a].pc = "commit" /\ proc'[a].op = proc[a].op /\ proc'[a].seen = proc[a].seen
        /\ \A b \in Agents \ {a} : proc'[b] = proc[b]
        /\ proc'[a].acquired => \/ proc[a].acquired
                                \/ proc[a].op = "acquire" /\ slot.status = "open"
        /\ proc[a].op = "acquire" =>
             \/ /\ slot.status = "open" /\ proc'[a].acquired
                /\ proc'[a].want.status = "in_progress" /\ proc'[a].want.holder = a
             \/ /\ slot.status = "in_progress" /\ proc'[a].acquired = proc[a].acquired
                /\ proc'[a].want.status = "in_progress" /\ proc'[a].want.holder = slot.holder
        /\ proc[a].op = "release" => slot.holder = a
        /\ proc[a].op = "keys" => /\ proc'[a].want.status = slot.status
                                  /\ proc'[a].want.holder = proc[a].seen.holder
    <2> USE DEF Procs, Rows
    <2>1. proc \in [Agents -> Procs]
      BY DEF Inv, SlotTypeOK
    <2>2. CASE proc[a].op = "acquire" /\ TakeIfOpen(a)
      BY <1>1, <2>1, <2>2 DEF TakeIfOpen
    <2>3. CASE proc[a].op = "acquire" /\ StandInLine(a)
      BY <1>1, <2>1, <2>3 DEF StandInLine
    <2>4. CASE proc[a].op = "acquire" /\ SeeHeld(a)
      BY <1>1, <2>1, <2>4 DEF SeeHeld, Wanting
    <2>5. CASE proc[a].op \in {"release", "force"} /\ (LetGo(a) \/ NothingToRelease(a))
      BY <1>1, <2>1, <2>5 DEF LetGo, NothingToRelease, Wanting
    <2>6. CASE proc[a].op = "create" /\ InsertSlot(a)
      BY <1>1, <2>1, <2>6 DEF InsertSlot, Wanting
    <2>7. CASE proc[a].op = "keys" /\ WriteMetadata(a)
      BY <1>1, <2>1, <2>7 DEF WriteMetadata, Wanting
    <2> QED BY <1>1, <2>2, <2>3, <2>4, <2>5, <2>6, <2>7 DEF Run
  <1>3. CallsCoherent'
    BY <1>1, <1>2 DEF CallsCoherent, Inv
  <1>4. ReadsStand'
    BY <1>1, <1>2 DEF ReadsStand, Inv
  <1>5. WantsStand'
    BY <1>1, <1>2 DEF WantsStand, ReadsStand, CallsCoherent, Inv
  <1>6. AnswersStand'
    BY <1>1, <1>2 DEF AnswersStand, Inv
  <1>7. HolderCanRelease'
    BY <1>1 DEF HolderCanRelease, Holders, Inv
  <1> QED BY <1>3, <1>4, <1>5, <1>6, <1>7 DEF Inv

\* A commit changes the row; the lock keeps every other transaction away from it.
LEMMA InvCommit ==
    ASSUME Inv, NEW a \in Agents, Commit(a), SlotTypeOK'
    PROVE  Inv'
  <1>1. /\ proc[a].pc = "commit" /\ proc[a] \in Procs /\ slot \in Rows
        /\ slot' = proc[a].want /\ UNCHANGED <<holds, waits>>
        /\ proc'[a].pc = "answer" /\ proc'[a].op = proc[a].op
        /\ proc'[a].acquired = proc[a].acquired
        /\ \A b \in Agents \ {a} : proc'[b] = proc[b] /\ proc[b].pc \notin {"run", "commit"}
    BY SlotAssumption DEF Commit, Inv, SlotTypeOK, Procs
  <1>2. forced' = (IF proc[a].op = "force" THEN forced \cup (Agents \cap {slot.holder})
                   ELSE IF proc[a].acquired THEN forced \ {a} ELSE forced)
    BY DEF Commit
  <1>3. CallsCoherent'
    BY <1>1 DEF CallsCoherent, Inv
  <1>4. ReadsStand'
    BY <1>1 DEF ReadsStand, Inv, Unprotected, CallsCoherent
  <1>5. WantsStand'
    BY <1>1 DEF WantsStand, Inv
  <1>6. AnswersStand' /\ HolderCanRelease'
    <2> USE <1>1, <1>2 DEF AnswersStand, HolderCanRelease, Holders
    <2>1. CASE proc[a].op = "acquire" /\ proc[a].acquired
      BY <2>1 DEF Inv, WantsStand
    <2>2. CASE proc[a].op = "acquire" /\ ~proc[a].acquired
      BY <2>2 DEF Inv, WantsStand
    <2>3. CASE proc[a].op = "release"
      <3>1. slot.holder = a /\ a \notin holds /\ ~proc[a].acquired
        BY <2>3 DEF Inv, WantsStand, CallsCoherent
      <3>2. forced' = forced
        BY <2>3, <3>1
      <3> QED BY <3>1, <3>2 DEF Inv
    <2>7. CASE proc[a].op = "force"
      <3>1. forced' = forced \cup (Agents \cap {slot.holder}) /\ ~proc[a].acquired
        BY <2>7 DEF Inv, CallsCoherent
      <3>2. HolderCanRelease'
        BY <3>1 DEF Inv, SlotTypeOK
      <3>3. AnswersStand'
        BY <3>1 DEF Inv
      <3> QED BY <3>2, <3>3
    <2>4. CASE proc[a].op = "create"
      BY <2>4 DEF Inv, ReadsStand, CallsCoherent
    <2>5. CASE proc[a].op = "keys"
      BY <2>5 DEF Inv, WantsStand, CallsCoherent
    <2>6. proc[a].op # "none"
      BY DEF Inv, CallsCoherent
    <2> QED BY <2>1, <2>2, <2>3, <2>4, <2>5, <2>6, <2>7 DEF Procs
  <1> QED BY <1>3, <1>4, <1>5, <1>6 DEF Inv

LEMMA InvAnswer ==
    ASSUME Inv, NEW a \in Agents, Answer(a), SlotTypeOK'
    PROVE  Inv'
  <1>1. /\ proc[a].pc = "answer" /\ proc'[a] = Idle
        /\ \A b \in Agents \ {a} : proc'[b] = proc[b]
        /\ UNCHANGED <<slot, lock, forced>>
        /\ holds' = holds \/ (proc[a].acquired /\ holds' = holds \cup {a})
    BY DEF Answer, Inv, SlotTypeOK
  <1>2. CallsCoherent'
    BY <1>1 DEF CallsCoherent, Inv, Idle
  <1>3. ReadsStand'
    BY <1>1 DEF ReadsStand, Inv, Idle, Unprotected
  <1>4. WantsStand'
    BY <1>1 DEF WantsStand, Inv, Idle
  <1>5. AnswersStand'
    BY <1>1 DEF AnswersStand, Inv, Idle
  <1>6. HolderCanRelease'
    BY <1>1 DEF HolderCanRelease, Holders, AnswersStand, Inv
  <1> QED BY <1>2, <1>3, <1>4, <1>5, <1>6 DEF Inv

\* Taking the lock, a conflict and an error change neither row nor holders.
LEMMA InvQuiet ==
    ASSUME Inv, NEW a \in Agents, TakeLock(a) \/ Conflict(a) \/ Fail(a), SlotTypeOK'
    PROVE  Inv'
  <1>1. /\ UNCHANGED <<slot, holds, forced, waits>>
        /\ \A b \in Agents \ {a} : proc'[b] = proc[b]
        /\ \/ /\ proc[a].pc \in {"lock", "commit"} /\ proc'[a].pc = "run"
              /\ proc'[a].op = proc[a].op /\ proc'[a].acquired = proc[a].acquired
              /\ proc'[a].seen = proc[a].seen
           \/ proc'[a] = Idle
    BY DEF TakeLock, Conflict, Fail, told, Inv, SlotTypeOK, Procs
  <1>2. CallsCoherent'
    BY <1>1 DEF CallsCoherent, Inv, Idle
  <1>3. ReadsStand'
    BY <1>1 DEF ReadsStand, Inv, Idle, Unprotected
  <1>4. WantsStand'
    BY <1>1 DEF WantsStand, CallsCoherent, Inv, Idle
  <1>5. AnswersStand'
    BY <1>1 DEF AnswersStand, Inv, Idle
  <1>6. HolderCanRelease'
    BY <1>1 DEF HolderCanRelease, Holders, Inv
  <1> QED BY <1>2, <1>3, <1>4, <1>5, <1>6 DEF Inv

LEMMA InvStep ==
    ASSUME Solitary, Inv, NEW a \in Agents, Step(a), SlotTypeOK'
    PROVE  Inv'
  <1> USE RowTypes
  <1>1. CASE \E wait \in BOOLEAN : AskAcquire(a, wait)
    BY <1>1, InvAsk DEF AskAcquire
  <1>2. CASE AskRelease(a)
    BY <1>2, InvAsk DEF AskRelease
  <1>3. CASE AskForce(a)
    BY <1>3, InvAsk DEF AskForce
  <1>4. CASE AskCreate(a)
    BY <1>4, InvAsk DEF AskCreate
  <1>5. CASE \E k \in Keys : AskKeys(a, k)
    <2>1. PICK k \in Keys : AskKeys(a, k)
      BY <1>5
    <2>2. ASSUME NEW extra \in SUBSET Keys, Ask(a, "keys", FALSE, [slot EXCEPT !.extra = extra])
          PROVE  Inv'
      <3>1. /\ [slot EXCEPT !.extra = extra] \in Rows
            /\ [slot EXCEPT !.extra = extra].holder = slot.holder
        BY DEF Inv, SlotTypeOK, Rows
      <3> QED BY <2>1, <2>2, <3>1, InvAsk DEF AskKeys
    <2>3. slot.extra \in SUBSET Keys
      BY DEF Inv, SlotTypeOK, Rows
    <2> QED BY <2>1, <2>2, <2>3 DEF AskKeys
  <1>6. CASE TakeLock(a) \/ Conflict(a) \/ Fail(a)
    BY <1>6, InvQuiet
  <1>7. CASE Run(a)
    BY <1>7, InvRun
  <1>8. CASE Commit(a)
    BY <1>8, InvCommit
  <1>9. CASE Answer(a)
    BY <1>9, InvAnswer
  <1> QED BY <1>1, <1>2, <1>3, <1>4, <1>5, <1>6, <1>7, <1>8, <1>9 DEF Step

LEMMA Invariance == ASSUME Solitary PROVE SlotSpec => []Inv
  <1>1. SlotInit => Inv
    <2> SUFFICES ASSUME SlotInit PROVE Inv
      OBVIOUS
    <2>1. SlotTypeOK
      BY RowTypes, SlotAssumption DEF SlotInit, SlotTypeOK, Idle
    <2> QED BY <2>1 DEF SlotInit, Inv, Idle, CallsCoherent, ReadsStand, WantsStand, AnswersStand,
                        HolderCanRelease, Holders, Unprotected
  <1>2. Inv /\ [SlotNext]_slotVars => Inv'
    <2> SUFFICES ASSUME Inv, [SlotNext]_slotVars PROVE Inv'
      OBVIOUS
    <2>1. SlotTypeOK'
      BY TypeNext DEF Inv
    <2>2. CASE UNCHANGED slotVars
      BY <2>1, <2>2 DEF Inv, slotVars, CallsCoherent, ReadsStand, WantsStand, AnswersStand,
                        HolderCanRelease, Holders
    <2>3. CASE SlotNext
      BY <2>1, <2>3, InvStep DEF SlotNext
    <2> QED BY <2>2, <2>3
  <1> QED BY <1>1, <1>2, PTL DEF SlotSpec

-----------------------------------------------------------------------------

\* An agent that was told it acquired the slot, and has neither asked to release
\* nor been overridden, is the holder in the database: MergeSlotRelease accepts it.
THEOREM HolderKeepsSlot == ASSUME Solitary PROVE SlotSpec => []HolderCanRelease
  <1>1. Inv => HolderCanRelease
    BY DEF Inv
  <1> QED BY <1>1, Invariance, PTL

LEMMA HoldersExcludeFromInv == Inv => HoldersExclude
  BY DEF Inv, HolderCanRelease, HoldersExclude

\* Two agents are never holders at the same time (MergeSlotAcquire).
THEOREM SlotExcludes == ASSUME Solitary PROVE SlotSpec => []HoldersExclude
  BY HoldersExcludeFromInv, Invariance, PTL

\* The slot implements an exclusive lock: each step of it is a step of the lock
\* or leaves the lock's owner alone (MergeSlotAcquire, MergeSlotRelease).
THEOREM SlotIsExclusive == ASSUME Solitary PROVE SlotSpec => IsExclusiveSlot
  <1>1. SlotInit => Slot!Init
    BY DEF SlotInit, Slot!Init, Holders
  <1>2. Inv /\ [SlotNext]_slotVars => [Slot!Next]_Holders
    <2> SUFFICES ASSUME Inv, SlotNext PROVE Slot!Next \/ Holders' = Holders
      BY DEF slotVars, Holders
    <2>1. PICK a \in Agents : Step(a)
      BY DEF SlotNext
    <2>2. Holders \subseteq Agents /\ HoldersExclude
      BY HoldersExcludeFromInv DEF Inv, SlotTypeOK, Holders
    <2>3. ASSUME Holders' = Holders \ {a} PROVE Slot!Next \/ Holders' = Holders
      BY <2>2, <2>3 DEF HoldersExclude, Slot!Next, Slot!Give
    <2>4. ASSUME Holders' \in {{}, {a}}, Holders \in {{}, {a}}
          PROVE  Slot!Next \/ Holders' = Holders
      BY <2>4 DEF Slot!Next, Slot!Take, Slot!Give
    <2>5. CASE UNCHANGED <<holds, forced>>
      BY <2>5 DEF Holders
    <2>6. CASE AskRelease(a)
      BY <2>3, <2>6 DEF AskRelease, Ask, Holders
    <2>7. CASE Commit(a) /\ proc[a].op = "force"
      <3>1. forced' = forced \cup (Agents \cap {slot.holder}) /\ holds' = holds
        BY <2>7 DEF Commit
      <3>2. Holders' = {}
        BY <3>1 DEF Holders, Inv, HolderCanRelease, SlotTypeOK
      <3> QED BY <2>2, <3>2 DEF HoldersExclude, Slot!Next, Slot!Give
    <2>8. CASE Commit(a) /\ proc[a].op # "force" /\ proc[a].acquired
      <3>1. forced' = forced \ {a} /\ holds' = holds /\ slot.status = "open"
        BY <2>8 DEF Commit, Inv, WantsStand
      <3>2. Holders = {}
        BY <3>1 DEF Inv, HolderCanRelease
      <3>3. Holders' \in {{}, {a}}
        BY <3>1, <3>2 DEF Holders
      <3> QED BY <2>4, <3>2, <3>3
    <2>9. CASE Answer(a) /\ proc[a].acquired /\ holds' = holds \cup {a}
      <3>1. forced' = forced /\ proc[a].pc = "answer"
        BY <2>9 DEF Answer
      <3>2. CASE a \in forced
        BY <2>9, <3>1, <3>2 DEF Holders
      <3>3. CASE a \notin forced
        <4>1. slot.holder = a
          BY <2>9, <3>1, <3>3 DEF Inv, AnswersStand
        <4>2. Holders \in {{}, {a}}
          BY <4>1 DEF Inv, HolderCanRelease
        <4>3. Holders' = {a}
          BY <2>9, <3>1, <3>3, <4>2 DEF Holders
        <4> QED BY <2>4, <4>2, <4>3
      <3> QED BY <3>2, <3>3
    <2> QED BY <2>1, <2>5, <2>6, <2>7, <2>8, <2>9
            DEF Step, AskAcquire, AskForce, AskCreate, AskKeys, Ask, TakeLock, Run, Commit,
                Conflict, Fail, Answer, told
  <1> QED BY <1>1, <1>2, Invariance, PTL DEF SlotSpec, IsExclusiveSlot, Slot!Spec
-----------------------------------------------------------------------------
(* The queue.                                                              *)

NoneTwice(q) == \A i, j \in 1..Len(q) : q[i] = q[j] => i = j

\* Whoever was told it waits stands in the queue.
QueueRow(rec, waiting) ==
    /\ NoneTwice(rec.waiters) /\ waiting \subseteq Elems(rec.waiters)
    /\ rec.status = "absent" => rec.waiters = <<>>

\* Of the call p of an agent: whoever is about to be told that it waits will be in the
\* queue with the commit, and what is about to be committed leaves nobody out.
QueueCall(a, p, rec) ==
    /\ p.pc = "lock" => ~p.waiting
    /\ p.pc \in {"lock", "run", "commit"} /\ p.op = "keys" => p.seen.waiters = rec.waiters
    /\ p.pc \in {"run", "commit"} /\ p.waiting =>
           p.op = "acquire" /\ p.wait /\ rec.status = "in_progress"
    /\ p.pc = "commit" =>
           /\ NoneTwice(p.want.waiters)
           /\ Elems(rec.waiters) \subseteq Elems(p.want.waiters)
           /\ p.waiting => a \in Elems(p.want.waiters)
           /\ p.want.status = "absent" => p.want.waiters = <<>>
    /\ p.pc = "answer" /\ p.waiting => a \in Elems(rec.waiters)

QueueInv == QueueRow(slot, waits) /\ \A a \in Agents : QueueCall(a, proc[a], slot)

LEMMA QueueKept ==
    ASSUME QueueRow(slot', waits'), \A a \in Agents : QueueCall(a, proc'[a], slot')
    PROVE  QueueInv'
  BY DEF QueueInv, QueueRow, QueueCall, NoneTwice, Elems

\* Standing in line, at its end or where one stands already.
LEMMA InLine ==
    ASSUME NEW q \in Seq(Agents), NoneTwice(q), NEW a \in Agents,
           NEW r, r = IF a \in Elems(q) THEN q ELSE Append(q, a)
    PROVE  NoneTwice(r) /\ Elems(q) \subseteq Elems(r) /\ a \in Elems(r)
  <1>1. CASE a \in Elems(q)
    BY <1>1
  <1>2. CASE a \notin Elems(q)
    <2>1. /\ r \in Seq(Agents) /\ Len(r) = Len(q) + 1 /\ Len(q) \in Nat /\ r[Len(q) + 1] = a
          /\ \A i \in 1..Len(q) : r[i] = q[i]
      BY <1>2
    <2>2. \A i \in 1..Len(r) : i \in 1..Len(q) \/ i = Len(q) + 1
      BY <2>1
    <2>3. \A i \in 1..Len(q) : i \in 1..Len(r) /\ q[i] # a
      BY <1>2, <2>1 DEF Elems
    <2>4. Len(q) + 1 \in 1..Len(r)
      BY <2>1
    <2> HIDE DEF Elems
    <2>5. NoneTwice(r)
      BY <2>1, <2>2, <2>3 DEF NoneTwice
    <2>6. Elems(q) \subseteq Elems(r) /\ a \in Elems(r)
      BY <2>1, <2>3, <2>4 DEF Elems
    <2> QED BY <2>5, <2>6
  <1> QED BY <1>1, <1>2

LEMMA QueueAsk ==
    ASSUME Inv, QueueInv, NEW a \in Agents,
           NEW op \in {"acquire", "release", "force", "create", "keys"},
           NEW wait \in BOOLEAN, NEW seen \in Rows, Ask(a, op, wait, seen),
           op = "keys" => seen.waiters = slot.waiters
    PROVE  QueueInv'
  <1>1. /\ proc'[a].pc = "lock" /\ proc'[a].op = op /\ ~proc'[a].waiting /\ proc'[a].seen = seen
        /\ \A b \in Agents \ {a} : proc'[b] = proc[b]
        /\ UNCHANGED <<slot, lock, forced, waits>>
    BY DEF Ask, Inv, SlotTypeOK, Idle
  <1> QED BY <1>1, QueueKept DEF QueueInv, QueueCall

LEMMA QueueRun ==
    ASSUME Inv, QueueInv, NEW a \in Agents, Run(a)
    PROVE  QueueInv'
  <1>1. /\ proc[a].pc = "run" /\ proc[a] \in Procs /\ slot \in Rows /\ slot.waiters \in Seq(Agents)
        /\ proc \in [Agents -> Procs] /\ UNCHANGED <<slot, lock, holds, forced, waits>>
    BY DEF Run, told, Inv, SlotTypeOK, Rows
  <1>2. ASSUME NEW want, want.waiters = slot.waiters, want.status # "absent" \/ want.waiters = <<>>,
               ~proc[a].waiting \/ proc[a].op # "acquire",
               Wanting(a, want)
                 \/ proc' = [proc EXCEPT ![a].pc = "commit", ![a].acquired = TRUE, ![a].want = want]
        PROVE  QueueInv'
    <2>1. /\ proc'[a].pc = "commit" /\ proc'[a].op = proc[a].op /\ proc'[a].seen = proc[a].seen
          /\ proc'[a].waiting = proc[a].waiting /\ proc'[a].wait = proc[a].wait /\ proc'[a].want = want
          /\ \A b \in Agents \ {a} : proc'[b] = proc[b]
      BY <1>1, <1>2 DEF Wanting, Procs
    <2>2. ~proc[a].waiting
      BY <1>1, <1>2 DEF QueueInv, QueueRow, QueueCall
    <2>3. QueueCall(a, proc'[a], slot)
      BY <1>1, <1>2, <2>1, <2>2 DEF QueueInv, QueueRow, QueueCall
    <2> QED BY <1>1, <2>1, <2>3, QueueKept DEF QueueInv
  <1>3. CASE proc[a].op = "acquire" /\ TakeIfOpen(a)
    <2>1. /\ [slot EXCEPT !.status = "in_progress", !.holder = a, !.extra = {}].waiters = slot.waiters
          /\ [slot EXCEPT !.status = "in_progress", !.holder = a, !.extra = {}].status = "in_progress"
      BY <1>1 DEF Rows
    <2>2. ~proc[a].waiting
      BY <1>1, <1>3 DEF QueueInv, QueueRow, QueueCall, TakeIfOpen
    <2> QED BY <1>2, <1>3, <2>1, <2>2 DEF TakeIfOpen
  <1>4. CASE proc[a].op = "acquire" /\ StandInLine(a)
    <2> DEFINE queue == IF a \in Elems(slot.waiters) THEN slot.waiters ELSE Append(slot.waiters, a)
               want == [slot EXCEPT !.waiters = queue, !.extra = {}]
    <2>1. NoneTwice(queue) /\ Elems(slot.waiters) \subseteq Elems(queue) /\ a \in Elems(queue)
      <3>1. NoneTwice(slot.waiters)
        BY DEF QueueInv, QueueRow
      <3> QED BY <1>1, <3>1, InLine
    <2>2. /\ proc[a].wait /\ slot.status = "in_progress"
          /\ proc' = [proc EXCEPT ![a].pc = "commit", ![a].waiting = TRUE, ![a].want = want]
      BY <1>4 DEF StandInLine
    <2> HIDE DEF queue
    <2>3. want.waiters = queue /\ want.status = slot.status
      BY <1>1 DEF Rows
    <2> HIDE DEF want
    <2>4. /\ proc'[a].pc = "commit" /\ proc'[a].op = proc[a].op /\ proc'[a].seen = proc[a].seen
          /\ proc'[a].waiting /\ proc'[a].wait = proc[a].wait /\ proc'[a].want = want
          /\ \A b \in Agents \ {a} : proc'[b] = proc[b]
      BY <1>1, <2>2 DEF Procs
    <2>5. QueueCall(a, proc'[a], slot)
      BY <1>1, <1>4, <2>1, <2>2, <2>3, <2>4 DEF QueueCall
    <2> QED BY <1>1, <2>4, <2>5, QueueKept DEF QueueInv
  <1>5. CASE proc[a].op = "acquire" /\ SeeHeld(a)
    <2>1. slot.status # "absent" /\ ~proc[a].waiting
      BY <1>1, <1>5 DEF SeeHeld, QueueInv, QueueRow, QueueCall
    <2> QED BY <1>2, <1>5, <2>1 DEF SeeHeld
  <1>6. CASE proc[a].op \in {"release", "force"} /\ (LetGo(a) \/ NothingToRelease(a))
    <2>1. /\ [slot EXCEPT !.status = "open", !.holder = None, !.extra = {}].waiters = slot.waiters
          /\ [slot EXCEPT !.status = "open", !.holder = None, !.extra = {}].status = "open"
      BY <1>1 DEF Rows
    <2> QED BY <1>2, <1>6, <2>1 DEF LetGo, NothingToRelease
  <1>7. CASE proc[a].op = "create" /\ InsertSlot(a)
    <2>1. slot.status = "absent" /\ slot.waiters = <<>>
      BY <1>1, <1>7 DEF Inv, ReadsStand, QueueInv, QueueRow, QueueCall
    <2>2. NewRow.waiters = <<>>
      BY DEF NewRow, Absent
    <2> QED BY <1>2, <1>7, <2>1, <2>2 DEF InsertSlot
  <1>8. CASE proc[a].op = "keys" /\ WriteMetadata(a)
    <2> DEFINE want == [slot EXCEPT !.holder = proc[a].seen.holder, !.waiters = proc[a].seen.waiters,
                                    !.extra = proc[a].seen.extra]
    <2>1. want.waiters = proc[a].seen.waiters /\ want.status = slot.status
      BY <1>1 DEF Rows
    <2>2. proc[a].seen.waiters = slot.waiters
      BY <1>1, <1>8 DEF QueueInv, QueueRow, QueueCall
    <2>3. Wanting(a, want)
      BY <1>8 DEF WriteMetadata
    <2>4. want.status # "absent" \/ want.waiters = <<>>
      BY <2>1, <2>2 DEF QueueInv, QueueRow, QueueCall
    <2> HIDE DEF want
    <2> QED BY <1>2, <1>8, <2>1, <2>2, <2>3, <2>4
  <1> QED BY <1>1, <1>3, <1>4, <1>5, <1>6, <1>7, <1>8 DEF Run

\* The queue that was wanted replaces the one that was there.
LEMMA QueueCommit ==
    ASSUME Inv, QueueInv, NEW a \in Agents, Commit(a)
    PROVE  QueueInv'
  <1>1. /\ proc[a].pc = "commit" /\ slot' = proc[a].want /\ UNCHANGED <<holds, waits>>
        /\ proc'[a].pc = "answer" /\ proc'[a].op = proc[a].op /\ proc'[a].waiting = proc[a].waiting
        /\ \A b \in Agents \ {a} : proc'[b] = proc[b] /\ proc[b].pc \notin {"run", "commit"}
    BY SlotAssumption DEF Commit, Inv, SlotTypeOK, Procs
  <1>2. \A b \in Agents \ {a} : proc[b].pc = "lock" => proc[b].op # "keys"
    BY <1>1 DEF Inv, ReadsStand, Unprotected
  <1>3. QueueRow(slot', waits')
    BY <1>1 DEF QueueInv, QueueRow, QueueCall
  <1>4. QueueCall(a, proc'[a], slot')
    BY <1>1 DEF QueueInv, QueueCall
  <1>5. ASSUME NEW b \in Agents \ {a}
        PROVE  QueueCall(b, proc'[b], slot')
    BY <1>1, <1>2 DEF QueueInv, QueueCall
  <1> QED BY <1>3, <1>4, <1>5, QueueKept

LEMMA QueueRest ==
    ASSUME Inv, QueueInv, NEW a \in Agents,
           TakeLock(a) \/ Conflict(a) \/ Fail(a) \/ Answer(a)
    PROVE  QueueInv'
  <1>1. /\ UNCHANGED slot
        /\ \A b \in Agents \ {a} : proc'[b] = proc[b]
        /\ \/ /\ proc[a].pc \in {"lock", "commit"} /\ proc'[a].pc = "run"
              /\ proc'[a].op = proc[a].op /\ proc'[a].waiting = proc[a].waiting
              /\ proc'[a].wait = proc[a].wait /\ proc'[a].seen = proc[a].seen
           \/ proc'[a] = Idle
        /\ \/ waits' = waits
           \/ proc[a].pc = "answer" /\ proc[a].waiting /\ waits' = waits \cup {a}
    BY DEF TakeLock, Conflict, Fail, Answer, told, Inv, SlotTypeOK, Procs
  <1>2. QueueCall(a, proc'[a], slot)
    BY <1>1 DEF QueueInv, QueueCall, Idle
  <1>3. QueueRow(slot, waits')
    BY <1>1 DEF QueueInv, QueueRow, QueueCall
  <1> QED BY <1>1, <1>2, <1>3, QueueKept DEF QueueInv

LEMMA QueueStep ==
    ASSUME Inv, QueueInv, NEW a \in Agents, Step(a)
    PROVE  QueueInv'
  <1> USE RowTypes
  <1>1. CASE (\E wait \in BOOLEAN : AskAcquire(a, wait)) \/ AskRelease(a) \/ AskForce(a) \/ AskCreate(a)
    BY <1>1, QueueAsk DEF AskAcquire, AskRelease, AskForce, AskCreate
  <1>2. CASE \E k \in Keys : AskKeys(a, k)
    <2>1. PICK k \in Keys : AskKeys(a, k)
      BY <1>2
    <2>2. ASSUME NEW extra \in SUBSET Keys, Ask(a, "keys", FALSE, [slot EXCEPT !.extra = extra])
          PROVE  QueueInv'
      <3>1. /\ [slot EXCEPT !.extra = extra] \in Rows
            /\ [slot EXCEPT !.extra = extra].waiters = slot.waiters
        BY DEF Inv, SlotTypeOK, Rows
      <3> QED BY <2>2, <3>1, QueueAsk
    <2>3. slot.extra \in SUBSET Keys
      BY DEF Inv, SlotTypeOK, Rows
    <2> QED BY <2>1, <2>2, <2>3 DEF AskKeys
  <1>3. CASE Run(a)
    BY <1>3, QueueRun
  <1>4. CASE Commit(a)
    BY <1>4, QueueCommit
  <1>5. CASE TakeLock(a) \/ Conflict(a) \/ Fail(a) \/ Answer(a)
    BY <1>5, QueueRest
  <1> QED BY <1>1, <1>2, <1>3, <1>4, <1>5 DEF Step

\* An agent that was told it waits stays in the queue, and nobody stands in it twice
\* (MergeSlotAcquire), whatever is written anew and retried, because every metadata that
\* is about to be written has everybody who stands in the queue under the lock.
THEOREM WaitersStay == ASSUME Solitary PROVE SlotSpec => []WaitersKept
  <1>1. SlotInit => QueueInv
    BY DEF SlotInit, QueueInv, QueueRow, QueueCall, Absent, Idle, NoneTwice
  <1>2. Inv /\ QueueInv /\ [SlotNext]_slotVars => QueueInv'
    <2> SUFFICES ASSUME Inv, QueueInv, [SlotNext]_slotVars PROVE QueueInv'
      OBVIOUS
    <2>1. CASE UNCHANGED slotVars
      BY <2>1, QueueKept DEF slotVars, QueueInv
    <2>2. CASE SlotNext
      BY <2>2, QueueStep DEF SlotNext
    <2> QED BY <2>1, <2>2
  <1>3. QueueInv => WaitersKept
    BY DEF QueueInv, QueueRow, WaitersKept, NoneTwice
  <1> QED BY <1>1, <1>2, <1>3, Invariance, PTL DEF SlotSpec
=============================================================================
