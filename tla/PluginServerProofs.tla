-------------------------- MODULE PluginServerProofs --------------------------
(***************************************************************************)
(* Proofs about the backend process, for any number of sessions, stores,   *)
(* keys, transactions and attempts, any requests, and clients that are     *)
(* patient or not.  The invariant follows three things through every step: *)
(* who is inside a job that takes the file lock, how far a transaction's   *)
(* goroutine has come and what is then in the database, and which sessions *)
(* a store has.                                                            *)
(***************************************************************************)
EXTENDS PluginServer, Integers, FiniteSetTheorems, TLAPS

Modes == {"idle", "open", "init", "request", "begin", "finish", "closing", "ended", "crashed"}
Results == {"none", "ok", "failed", "rolledBack", "unversioned"}

LoopTypes ==
    loop \in [do : Modes, sess : Sessions \cup {None}, tx : Txs \cup {None},
              st : Stores \cup {None}, key : Keys \cup {None}, jobs : {loop.jobs},
              txs : SUBSET Txs, sts : SUBSET (Stores \cup {None})]

SessionTypes ==
    sessions \in [Sessions -> [state : {"fresh", "live", "closed"},
                               st : Stores \cup {None}, cached : BOOLEAN]]

StoreType ==
    [state : {"fresh", "open", "closed"}, handle : BOOLEAN, key : Keys \cup {None}, refs : Int]

StoreTypes ==
    /\ entries \in [Keys -> Stores \cup {None}]
    /\ stores \in [Stores -> StoreType]

ActType(jobs) ==
    [pc : {"out", "lock", "connect", "begun", "body", "done"}, job : jobs,
     st : Stores \cup {None}, attempt : Nat, result : {"none", "ok", "failed", "rolledBack"}]

\* The jobs are those that are being run: what requests consist of is left open here.
ActTypes ==
    /\ flock \in Actors \cup {Other, None}
    /\ act \in [Actors -> ActType({act[a].job : a \in Actors})]

TxType ==
    [st : Stores \cup {None}, msg : BOOLEAN, listed : BOOLEAN, ready : BOOLEAN,
     decision : {"none", "commit", "rollback"}, wrote : SUBSET UNION TxEffects,
     finished : Results, answer : Results]

TxTypes == txs \in [Txs -> TxType]

Types == LoopTypes /\ SessionTypes /\ StoreTypes /\ ActTypes /\ TxTypes

\* The file lock is held by whoever is inside a job that takes it.
Holds(a) == Locking(act[a].job) /\ act[a].pc \in {"connect", "begun", "body"}
LockInv ==
    \A a \in Actors :
        /\ flock = a <=> Holds(a)
        /\ act[a].pc \in {"lock", "body"} => Locking(act[a].job)

\* The loop runs jobs only in a request that has some.
ServeInv ==
    /\ loop.jobs # <<>> => loop.do \in {"open", "init", "request", "crashed"}
    /\ act[Serve].pc # "out" => loop.do \in {"open", "init", "request"}

Its(t) == {w \in table : w[1] = t}
All(t) == {<<t, k>> : k \in txs[t].wrote}
Versioned(t) == {w \in Its(t) : w[2] = "tracked"} \subseteq history

\* The transaction's SQL transaction has been committed.
Committed(t) == \/ act[t].job = "version"
                \/ act[t].pc = "done" /\ act[t].result = "ok"

\* What a report says of the database.
Told(t, r) ==
    /\ r \in {"ok", "unversioned"} => Its(t) = All(t)
    /\ r = "ok" /\ txs[t].msg => Versioned(t)
    /\ r \in {"rolledBack", "failed"} => Its(t) = {}

\* A transaction while its goroutine runs.
RunningTx(t) ==
    TxOpen(t) =>
        /\ act[t].job \in {"sql", "version"}
        /\ act[t].pc = "body" => act[t].job = "sql"
        /\ Its(t) = IF Committed(t) THEN All(t) ELSE {}
        /\ act[t].pc = "done" =>
               /\ act[t].result # "none"
               /\ act[t].job = "version" =>
                      act[t].result # "rolledBack" /\ (act[t].result = "ok" => Versioned(t))

\* A transaction before it runs and after.
ReportedTx(t) ==
    /\ ~TxOpen(t) /\ txs[t].finished = "none" => Its(t) = {} \/ loop.do = "crashed"
    /\ txs[t].finished # "none" => ~TxOpen(t) /\ ~txs[t].listed /\ Told(t, txs[t].finished)
    /\ txs[t].answer # "none" => txs[t].answer = txs[t].finished

\* A listed transaction that has not been told how to end sits in its callback once
\* it is ready; one that has is waited for.
ListedTx(t) ==
    txs[t].listed /\ loop.do # "crashed" =>
        IF txs[t].decision = "none"
        THEN txs[t].ready => act[t].pc = "body"
        ELSE loop.do = "finish" /\ loop.tx = t

TxInv == \A t \in Txs : RunningTx(t) /\ ReportedTx(t) /\ ListedTx(t)

\* No goroutine is lost sight of, and those that CloseAll found are ended.
EndInv ==
    /\ \A t \in Txs : TxOpen(t) =>
           txs[t].listed \/ (loop.do = "closing" /\ (t \in loop.txs \/ t = loop.tx))
    /\ loop.do \in {"closing", "ended"} =>
           /\ \A t \in Txs : ~txs[t].listed
           /\ \A s \in Sessions : ~Live(s)
           /\ \A k \in Keys : entries[k] = None

Using(st) == {s \in Sessions : Live(s) /\ sessions[s].st = st}

\* Sessions share a store only through its entry; an entry is found under its key.
StoresInv ==
    /\ SessionsHoldOpenStores
    /\ \A s \in Sessions : Live(s) =>
           sessions[s].st \in Stores /\ stores[sessions[s].st].key \in Keys
    /\ \A s, x \in Sessions :
           Live(s) /\ Live(x) /\ sessions[s].st = sessions[x].st => s = x \/ sessions[s].cached
    /\ \A k \in Keys : entries[k] # None =>
           stores[entries[k]].key = k /\ IsFiniteSet(Sharing(entries[k]))

\* The store that is being opened is nobody's yet.
OpeningInv ==
    loop.do \in {"open", "init"} =>
        /\ loop.sess \in Sessions /\ sessions[loop.sess].state = "fresh"
        /\ loop.st \in Stores /\ stores[loop.st].state = "open"
        /\ Using(loop.st) = {}
        /\ \A s \in Sessions : sessions[s].state = "closed" => sessions[s].st # loop.st
        /\ loop.key \in Keys /\ stores[loop.st].key = loop.key
        /\ loop.do = "open" => entries[loop.key] = None

\* The store of a session that is closed is closed, or in use, or about to be closed.
ClosedInv ==
    loop.do # "crashed" => \A s \in Sessions : sessions[s].state = "closed" =>
        /\ sessions[s].st \in Stores
        /\ \/ stores[sessions[s].st].state = "closed"
           \/ Using(sessions[s].st) # {}
           \/ loop.do = "closing" /\ sessions[s].st \in loop.sts

HoldingInv == StoresInv /\ OpeningInv /\ ClosedInv

ServerInv == Types /\ LockInv /\ ServeInv /\ TxInv /\ EndInv /\ HoldingInv

USE DEF Actors

\* What a step leaves alone keeps its type.
LEMMA TypeFrames ==
    ASSUME Types
    PROVE  /\ UNCHANGED loop => LoopTypes'
           /\ UNCHANGED sessions => SessionTypes'
           /\ UNCHANGED <<entries, stores>> => StoreTypes'
           /\ UNCHANGED <<act, flock>> => ActTypes'
           /\ UNCHANGED txs => TxTypes'
<1>1. UNCHANGED loop => LoopTypes'
  BY DEF Types, LoopTypes
<1>2. UNCHANGED sessions => SessionTypes'
  BY DEF Types, SessionTypes
<1>3. UNCHANGED <<entries, stores>> => StoreTypes'
  BY DEF Types, StoreTypes
<1>4. UNCHANGED <<act, flock>> => ActTypes'
  BY DEF Types, ActTypes
<1>5. UNCHANGED txs => TxTypes'
  BY DEF Types, TxTypes
<1> QED
  BY <1>1, <1>2, <1>3, <1>4, <1>5

\* An actor whose record is replaced by one of the right shape.
LEMMA ActReplaced ==
    ASSUME ActTypes, NEW a \in Actors, NEW J, NEW r \in ActType(J),
           act' = [act EXCEPT ![a] = r],
           flock' \in Actors \cup {Other, None}
    PROVE  ActTypes'
<1>1. act' \in [Actors -> ActType({act[b].job : b \in Actors} \cup J)]
  BY DEF ActTypes, ActType
<1>2. \A b \in Actors : act'[b] \in ActType({act'[c].job : c \in Actors})
  BY <1>1 DEF ActType
<1> QED
  BY <1>1, <1>2 DEF ActTypes

\* The records of an actor that leaves a job or tries it again, and of a closed store.
LEMMA ActRecords ==
    ASSUME NEW J, NEW f \in ActType(J)
    PROVE  /\ \A r \in {"ok", "failed", "rolledBack"} :
                  [f EXCEPT !.pc = "done", !.result = r] \in ActType(J)
           /\ [f EXCEPT !.pc = "connect", !.attempt = @ + 1] \in ActType(J)
<1>1. f.attempt + 1 \in Nat
  BY DEF ActType
<1>2. [f EXCEPT !.pc = "connect", !.attempt = f.attempt + 1] \in ActType(J)
  BY <1>1 DEF ActType
<1> QED
  BY <1>2 DEF ActType

LEMMA ClosedRecord ==
    ASSUME StoreTypes, NEW st \in Stores
    PROVE  CloseStore(st) \in StoreType
<1>1. ASSUME NEW f \in StoreType, NEW state \in {"closed"}, NEW h \in BOOLEAN, NEW n \in Int
      PROVE  [f EXCEPT !.state = state, !.handle = h, !.refs = n] \in StoreType
  BY DEF StoreType
<1>2. stores[st] \in StoreType /\ 0 \in Int /\ FALSE \in BOOLEAN /\ "closed" \in {"closed"}
  BY DEF StoreTypes
<1>3. [stores[st] EXCEPT !.state = "closed", !.handle = FALSE, !.refs = 0] \in StoreType
  BY ONLY <1>1, <1>2, Zenon
<1> QED
  BY <1>3 DEF CloseStore

\* Leaving a job, with or without another attempt.
LEMMA LeaveTypes ==
    ASSUME Types, NEW a \in Actors
    PROVE  /\ \A r \in {"ok", "failed", "rolledBack"} : Leave(a, r) => ActTypes'
           /\ Retry(a) => ActTypes' /\ stores' = Reset(act[a].st)
<1>1. act[a] \in ActType({act[b].job : b \in Actors})
  BY DEF Types, ActTypes
<1>2. Unlocked(a) \in Actors \cup {Other, None}
  BY DEF Types, ActTypes, Unlocked
<1>3. ASSUME NEW r \in {"ok", "failed", "rolledBack"}, Leave(a, r)
      PROVE  ActTypes'
  <2>1. [act[a] EXCEPT !.pc = "done", !.result = r] \in ActType({act[b].job : b \in Actors})
    BY <1>1, ActRecords
  <2>2. act' = [act EXCEPT ![a] = [act[a] EXCEPT !.pc = "done", !.result = r]]
    BY <1>3 DEF Leave, Types, ActTypes
  <2> QED
    BY <1>2, <1>3, <2>1, <2>2, ActReplaced DEF Leave, Types
<1>4. ASSUME Retry(a), ~Leave(a, "failed")
      PROVE  ActTypes'
  <2>1. [act[a] EXCEPT !.pc = "connect", !.attempt = @ + 1] \in ActType({act[b].job : b \in Actors})
    BY <1>1, ActRecords
  <2>2. act' = [act EXCEPT ![a] = [act[a] EXCEPT !.pc = "connect", !.attempt = @ + 1]]
    BY <1>4 DEF Retry, Types, ActTypes
  <2> QED
    BY <1>4, <2>1, <2>2, ActReplaced DEF Retry, Types, ActTypes
<1> QED
  BY <1>3, <1>4 DEF Retry

LEMMA ResetTypes ==
    ASSUME StoreTypes, NEW st, stores' = Reset(st), UNCHANGED entries
    PROVE  StoreTypes'
  BY DEF StoreTypes, StoreType, Reset

\* An actor that sets out on a job, and one that is done with it.
LEMMA StartTypes ==
    ASSUME Types, NEW a \in Actors, NEW j, NEW st \in Stores \cup {None}, UNCHANGED flock,
           act' = [act EXCEPT ![a] = Start(j, st)] \/ act' = [act EXCEPT ![a] = Out]
    PROVE  ActTypes'
<1>1. Start(j, st) \in ActType({Kind(j)}) /\ Out \in ActType({"read"})
  BY DEF ActType, Start, Out
<1> QED
  BY <1>1, ActReplaced DEF Types, ActTypes

\* Steps inside a job.
LEMMA JobTypes ==
    ASSUME Types, NEW a \in Actors, Lock(a) \/ JobStep(a)
    PROVE  Types'
<1>1. act[a] \in ActType({act[b].job : b \in Actors})
  BY DEF Types, ActTypes
<1>2. \A pc \in {"connect", "begun"} :
          /\ [act[a] EXCEPT !.pc = pc] \in ActType({act[b].job : b \in Actors})
          /\ [act EXCEPT ![a].pc = pc] = [act EXCEPT ![a] = [act[a] EXCEPT !.pc = pc]]
  BY <1>1 DEF ActType, Types, ActTypes
<1>3. ActTypes'
  <2>1. CASE Lock(a)
    BY <2>1, <1>2, ActReplaced DEF Lock, Types
  <2>2. CASE Connect(a)
    <3>1. CASE Leave(a, "failed")
      BY <3>1, LeaveTypes
    <3>2. CASE ~Leave(a, "failed")
      <4>1. act' = [act EXCEPT ![a].pc = "begun"] /\ flock' = flock
        BY <2>2, <3>2 DEF Connect
      <4>2. ActTypes /\ flock' \in Actors \cup {Other, None}
        BY <4>1 DEF Types, ActTypes
      <4> QED
        BY <4>1, <4>2, <1>2, ActReplaced
    <3> QED
      BY <3>1, <3>2
  <2>3. CASE Trouble(a)
    BY <2>3, LeaveTypes DEF Trouble
  <2>4. CASE Execute(a)
    BY <2>4, LeaveTypes DEF Execute
  <2> QED
    BY <2>1, <2>2, <2>3, <2>4 DEF JobStep
<1>4. StoreTypes'
  <2>1. UNCHANGED entries /\ (UNCHANGED stores \/ Retry(a))
    BY DEF Lock, JobStep, Connect, Trouble, Execute
  <2> QED
    BY <2>1, LeaveTypes, ResetTypes, TypeFrames DEF Types
<1>5. UNCHANGED <<loop, sessions, txs>>
  BY DEF Lock, JobStep, Connect, Trouble, Execute
<1> QED
  BY <1>3, <1>4, <1>5, TypeFrames DEF Types

LEMMA TxStepTypes ==
    ASSUME Types, NEW t \in Txs, TxStep(t)
    PROVE  Types'
<1>1. CASE EnterBody(t)
  <2>1. LoopTypes'
    BY <1>1 DEF EnterBody, Types, LoopTypes, Modes
  <2>2. TxTypes'
    <3>1. txs' = txs \/ txs' = [txs EXCEPT ![t].ready = TRUE]
      BY <1>1 DEF EnterBody
    <3>2. TxTypes
      BY DEF Types
    <3>3. [txs[t] EXCEPT !.ready = TRUE] \in TxType
      BY <3>2 DEF TxTypes, TxType
    <3>4. txs' = txs \/ txs' = [txs EXCEPT ![t] = [txs[t] EXCEPT !.ready = TRUE]]
      BY <3>1, <3>2 DEF TxTypes
    <3> QED
      BY <3>2, <3>3, <3>4 DEF TxTypes
  <2>3. ActTypes'
    <3>1. CASE act' = [a \in Actors |-> Out]
      <4>1. Out \in ActType({"read"})
        BY DEF Out, ActType
      <4> QED
        BY <1>1, <3>1, <4>1 DEF EnterBody, Types, ActTypes, ActType
    <3>2. CASE act' = [act EXCEPT ![t].pc = "body"] /\ UNCHANGED flock
      <4>1. [act[t] EXCEPT !.pc = "body"] \in ActType({act[b].job : b \in Actors})
        BY DEF Types, ActTypes, ActType
      <4>2. act' = [act EXCEPT ![t] = [act[t] EXCEPT !.pc = "body"]]
        BY <3>2 DEF Types, ActTypes
      <4> QED
        BY <3>2, <4>1, <4>2, ActReplaced DEF Types, ActTypes
    <3> QED
      BY <1>1, <3>1, <3>2 DEF EnterBody
  <2> QED
    BY <1>1, <2>1, <2>2, <2>3, TypeFrames DEF EnterBody, Types
<1>2. CASE LeaveBody(t)
  <2>1. ActTypes'
    BY <1>2, LeaveTypes DEF LeaveBody
  <2>2. StoreTypes'
    BY <1>2, LeaveTypes, ResetTypes, TypeFrames DEF LeaveBody, Types
  <2> QED
    BY <1>2, <2>1, <2>2, TypeFrames DEF LeaveBody, Types
<1>3. CASE StartVersion(t)
  <2>1. txs[t].st \in Stores \cup {None}
    BY DEF Types, TxTypes, TxType
  <2> QED
    BY <1>3, <2>1, StartTypes, TypeFrames DEF StartVersion, Types
<1>4. CASE Report(t)
  <2>1. ActTypes'
    BY <1>4, StartTypes DEF Report
  <2>2. act[t].result \in {"none", "ok", "failed", "rolledBack"}
    BY DEF Types, ActTypes, ActType
  <2>3. PICK r \in Results : txs' = [txs EXCEPT ![t].listed = FALSE, ![t].finished = r]
    BY <1>4, <2>2 DEF Report, Results
  <2>4. TxTypes'
    <3>1. TxTypes
      BY DEF Types
    <3>2. txs' = [txs EXCEPT ![t] = [txs[t] EXCEPT !.listed = FALSE, !.finished = r]]
      BY <2>3, <3>1 DEF TxTypes
    <3>3. [txs[t] EXCEPT !.listed = FALSE, !.finished = r] \in TxType
      BY <3>1 DEF TxTypes, TxType
    <3> QED
      BY <3>1, <3>2, <3>3 DEF TxTypes
  <2> QED
    BY <1>4, <2>1, <2>4, TypeFrames DEF Report, Types
<1> QED
  BY <1>1, <1>2, <1>3, <1>4 DEF TxStep

\* Requests, answers and the end.
LEMMA RequestTypes ==
    ASSUME Types, ClientStep
    PROVE  Types'
<1>1. ASSUME NEW s \in Sessions, NEW k \in Keys, Open(s, k)
      PROVE  Types'
  <2>1. CASE Share(s, k)
    <3>1. entries[k] \in Stores
      BY <2>1 DEF Share, Types, StoreTypes
    <3>2. SessionTypes'
      BY <2>1, <3>1 DEF Share, Types, SessionTypes
    <3>3. StoreTypes'
      BY <2>1, <3>1 DEF Share, Types, StoreTypes, StoreType
    <3> QED
      BY <1>1, <2>1, <3>2, <3>3, TypeFrames DEF Open, Share, Types
  <2>2. ASSUME NEW st \in Stores, OpenNew(s, k, st)
        PROVE  Types'
    <3>1. StoreTypes'
      BY <2>2 DEF OpenNew, Types, StoreTypes, StoreType
    <3>2. LoopTypes'
      BY <2>2 DEF OpenNew, LoopTypes, Idle, Modes
    <3> QED
      BY <1>1, <2>2, <3>1, <3>2, TypeFrames DEF Open, OpenNew, Types
  <2> QED
    BY <1>1, <2>1, <2>2 DEF Open
<1>2. ASSUME NEW s \in Sessions, NEW k \in Keys, NEW st \in Stores, InitDatabase(s, k, st)
      PROVE  Types'
  <2>1. StoreTypes'
    BY <1>2 DEF InitDatabase, Types, StoreTypes, StoreType
  <2>2. LoopTypes'
    BY <1>2 DEF InitDatabase, LoopTypes, Idle, Modes
  <2> QED
    BY <1>2, <2>1, <2>2, TypeFrames DEF InitDatabase, Types
<1>3. ASSUME NEW s \in Sessions, NEW jobs \in RequestJobs, Request(s, jobs)
      PROVE  Types'
  <2>1. LoopTypes'
    BY <1>3 DEF Request, Types, LoopTypes, SessionTypes, Idle, Modes
  <2> QED
    BY <1>3, <2>1, TypeFrames DEF Request, Types
<1>4. ASSUME NEW s \in Sessions, Close(s)
      PROVE  Types'
  <2>1. SessionTypes'
    BY <1>4 DEF Close, Types, SessionTypes
  <2>2. StoreTypes'
    <3>1. entries' \in [Keys -> Stores \cup {None}]
      BY <1>4 DEF Close, Types, StoreTypes
    <3>2. CASE stores' = [stores EXCEPT ![sessions[s].st] = CloseStore(sessions[s].st)]
      <4>1. [stores EXCEPT ![sessions[s].st] = CloseStore(sessions[s].st)] \in [Stores -> StoreType]
        BY ClosedRecord DEF Types, StoreTypes
      <4> QED
        BY <3>1, <3>2, <4>1 DEF StoreTypes
    <3>3. CASE stores' = [stores EXCEPT ![sessions[s].st].refs = @ - 1]
      <4>1. StoreTypes
        BY DEF Types
      <4>2. \A f \in StoreType : f.refs - 1 \in Int /\ [f EXCEPT !.refs = @ - 1] \in StoreType
        BY DEF StoreType
      <4> QED
        BY <3>1, <3>3, <4>1, <4>2 DEF StoreTypes
    <3> QED
      BY <1>4, <3>2, <3>3 DEF Close
  <2> QED
    BY <1>4, <2>1, <2>2, TypeFrames DEF Close, Types
<1>5. ASSUME NEW s \in Sessions, NEW t \in Txs, NEW msg \in BOOLEAN, Begin(s, t, msg)
      PROVE  Types'
  <2>1. sessions[s].st \in Stores \cup {None}
    BY DEF Types, SessionTypes
  <2>2. ActTypes'
    BY <1>5, <2>1, StartTypes DEF Begin
  <2>3. [NoTx EXCEPT !.st = sessions[s].st, !.msg = msg, !.listed = TRUE] \in TxType
    BY <2>1 DEF NoTx, TxType, Results
  <2>4. TxTypes'
    BY <1>5, <2>3 DEF Begin, Types, TxTypes
  <2>5. LoopTypes'
    BY <1>5 DEF Begin, LoopTypes, Idle, Modes
  <2> QED
    BY <1>5, <2>2, <2>4, <2>5, TypeFrames DEF Begin, Types
<1>6. ASSUME NEW t \in Txs, NEW written \in TxEffects, TxWrite(t, written)
      PROVE  Types'
  <2>1. TxTypes
    BY DEF Types
  <2>2. TxTypes'
    BY <1>6, <2>1 DEF TxWrite, TxTypes, TxType
  <2> QED
    BY <1>6, <2>2, TypeFrames DEF TxWrite, Types
<1>7. ASSUME NEW t \in Txs, NEW d \in {"commit", "rollback"}, Finish(t, d)
      PROVE  Types'
  <2>1. TxTypes
    BY DEF Types
  <2>2. TxTypes'
    BY <1>7, <2>1 DEF Finish, TxTypes, TxType
  <2>3. LoopTypes'
    BY <1>7 DEF Finish, LoopTypes, Idle, Modes
  <2> QED
    BY <1>7, <2>2, <2>3, TypeFrames DEF Finish, Types
<1>8. CASE CloseAll
  <2>1. TxTypes /\ SessionTypes
    BY DEF Types
  <2>2. TxTypes'
    <3>1. \A t \in Txs : [txs[t] EXCEPT !.listed = FALSE] \in TxType
      BY <2>1 DEF TxTypes, TxType
    <3> QED
      BY <1>8, <3>1 DEF CloseAll, TxTypes
  <2>3. SessionTypes'
    <3>1. \A s \in Sessions : [sessions[s] EXCEPT !.state = "closed"]
              \in [state : {"fresh", "live", "closed"}, st : Stores \cup {None}, cached : BOOLEAN]
      BY <2>1 DEF SessionTypes
    <3> QED
      BY <1>8, <2>1, <3>1 DEF CloseAll, SessionTypes
  <2>4. LoopTypes'
    <3>1. {t \in Txs : txs[t].listed} \subseteq Txs
      OBVIOUS
    <3>2. {sessions[s].st : s \in {x \in Sessions : Live(x)}} \subseteq Stores \cup {None}
      BY <2>1 DEF SessionTypes
    <3> QED
      BY <1>8, <3>1, <3>2 DEF CloseAll, LoopTypes, Idle, Modes
  <2>5. StoreTypes'
    BY <1>8 DEF CloseAll, Types, StoreTypes
  <2> QED
    BY <1>8, <2>2, <2>3, <2>4, <2>5, TypeFrames DEF CloseAll, Types
<1> QED
  BY <1>1, <1>2, <1>3, <1>4, <1>5, <1>6, <1>7, <1>8 DEF ClientStep

LEMMA ServeTypes ==
    ASSUME Types, ServeStep
    PROVE  Types'
<1>1. CASE StartJob
  <2>1. loop.st \in Stores \cup {None}
    BY DEF Types, LoopTypes
  <2> QED
    BY <1>1, <2>1, StartTypes, TypeFrames DEF StartJob, Types
<1>2. CASE JobDone
  <2>1. LoopTypes'
    BY <1>2 DEF JobDone, Types, LoopTypes
  <2>2. ActTypes'
    BY <1>2, StartTypes DEF JobDone, Types, LoopTypes
  <2> QED
    BY <1>2, <2>1, <2>2, TypeFrames DEF JobDone, Types
<1>3. CASE Answer
  <2>1. LoopTypes'
    BY <1>3 DEF Answer, LoopTypes, Idle, Modes
  <2>2. ActTypes'
    BY <1>3, StartTypes DEF Answer, Types, LoopTypes
  <2>3. loop.st \in Stores \cup {None}
    BY DEF Types, LoopTypes
  <2>4. SessionTypes'
    BY <1>3, <2>3 DEF Answer, Types, SessionTypes
  <2>5. StoreTypes'
    BY <1>3, <2>3 DEF Answer, Types, StoreTypes, StoreType
  <2> QED
    BY <1>3, <2>1, <2>2, <2>4, <2>5, TypeFrames DEF Answer, Types
<1>4. CASE AnswerError
  <2>1. LoopTypes'
    BY <1>4 DEF AnswerError, LoopTypes, Idle, Modes
  <2>2. ActTypes'
    BY <1>4, StartTypes DEF AnswerError, Types, LoopTypes
  <2>3. StoreTypes'
    BY <1>4, ClosedRecord DEF AnswerError, Types, StoreTypes
  <2> QED
    BY <1>4, <2>1, <2>2, <2>3, TypeFrames DEF AnswerError, Types
<1>5. CASE AnswerBegin \/ AnswerFinish
  <2>1. LoopTypes'
    BY <1>5 DEF AnswerBegin, AnswerFinish, LoopTypes, Idle, Modes
  <2>2. TxTypes
    BY DEF Types
  <2>3. TxTypes'
    BY <1>5, <2>2 DEF AnswerBegin, AnswerFinish, TxTypes, TxType
  <2> QED
    BY <1>5, <2>1, <2>3, TypeFrames DEF AnswerBegin, AnswerFinish, Types
<1>6. ASSUME NEW t \in Txs, RollBackNext(t)
      PROVE  Types'
  <2>1. TxTypes /\ LoopTypes
    BY DEF Types
  <2>2. TxTypes'
    BY <1>6, <2>1 DEF RollBackNext, TxTypes, TxType
  <2>3. LoopTypes'
    BY <1>6, <2>1 DEF RollBackNext, LoopTypes
  <2> QED
    BY <1>6, <2>2, <2>3, TypeFrames DEF RollBackNext, Types
<1>7. CASE RolledBack
  <2>1. LoopTypes'
    BY <1>7 DEF RolledBack, Types, LoopTypes
  <2> QED
    BY <1>7, <2>1, TypeFrames DEF RolledBack, Types
<1>8. CASE EndProcess
  <2>1. LoopTypes'
    BY <1>8 DEF EndProcess, LoopTypes, Idle, Modes
  <2>2. StoreTypes'
    BY <1>8, ClosedRecord DEF EndProcess, Types, StoreTypes
  <2> QED
    BY <1>8, <2>1, <2>2, TypeFrames DEF EndProcess, Types
<1> QED
  BY <1>1, <1>2, <1>3, <1>4, <1>5, <1>6, <1>7, <1>8 DEF ServeStep

LEMMA TypesNext ==
    ASSUME Types, [Next]_vars
    PROVE  Types'
<1>1. CASE OtherLocks \/ OtherUnlocks
  <2>1. ActTypes'
    BY <1>1 DEF OtherLocks, OtherUnlocks, Types, ActTypes
  <2> QED
    BY <1>1, <2>1, TypeFrames DEF OtherLocks, OtherUnlocks, Types
<1>2. CASE UNCHANGED vars
  BY <1>2, TypeFrames DEF vars, Types
<1> QED
  BY <1>1, <1>2, JobTypes, TxStepTypes, RequestTypes, ServeTypes DEF Next

------------------------------------------------------------------------------
(* The file lock *)

\* A job that is only tried takes the lock that the job itself takes.
LEMMA KindLocks == \A j : Locking(Kind(j)) <=> Locking(j)
  BY DEF Locking, Kind

\* An actor that comes to hold the lock, lets go of it, or keeps it as it was.
LEMMA LockKept ==
    ASSUME Types, LockInv, NEW a \in Actors, NEW r,
           act' = [act EXCEPT ![a] = r],
           r.pc \in {"lock", "body"} => Locking(r.job),
           \/ /\ flock' = flock
              /\ Holds(a) <=> Locking(r.job) /\ r.pc \in {"connect", "begun", "body"}
           \/ /\ flock = None /\ flock' = a
              /\ Locking(r.job) /\ r.pc = "connect"
           \/ /\ flock' = Unlocked(a)
              /\ r.pc \notin {"connect", "begun", "body"}
    PROVE  LockInv'
<1>1. act \in [Actors -> ActType({act[b].job : b \in Actors})] /\ flock \in Actors \cup {Other, None}
  BY DEF Types, ActTypes
<1>2. act'[a] = r /\ \A b \in Actors \ {a} : act'[b] = act[b]
  BY <1>1
<1>3. None \notin Actors
  BY ServerAssumption
<1> SUFFICES ASSUME NEW b \in Actors
             PROVE  /\ flock' = b <=> Holds(b)'
                    /\ act'[b].pc \in {"lock", "body"} => Locking(act'[b].job)
  BY DEF LockInv, Locking, Kind
<1>4. Holds(b)' <=> Locking(act'[b].job) /\ act'[b].pc \in {"connect", "begun", "body"}
  BY DEF Holds, Locking, Kind
<1>5. /\ flock = b <=> Holds(b)
      /\ act[b].pc \in {"lock", "body"} => Locking(act[b].job)
  BY DEF LockInv
<1>6. CASE b = a
  BY <1>2, <1>3, <1>4, <1>5, <1>6 DEF Unlocked
<1>7. CASE b # a
  <2>1. Holds(b)' <=> Holds(b)
    BY <1>2, <1>4, <1>7 DEF Holds
  <2> QED
    BY <1>2, <1>3, <1>5, <1>7, <2>1 DEF Unlocked
<1> QED
  BY <1>6, <1>7

LEMMA LeaveLocks ==
    ASSUME Types, LockInv, NEW a \in Actors
    PROVE  /\ \A r : Leave(a, r) => LockInv'
           /\ Retry(a) /\ Holds(a) => LockInv'
<1>1. act \in [Actors -> ActType({act[b].job : b \in Actors})]
  BY DEF Types, ActTypes
<1>2. act[a] \in ActType({act[b].job : b \in Actors})
  BY <1>1
<1>3. ASSUME NEW r, Leave(a, r)
      PROVE  LockInv'
  <2>1. act' = [act EXCEPT ![a] = [act[a] EXCEPT !.pc = "done", !.result = r]]
    BY <1>1, <1>3 DEF Leave
  <2>2. [act[a] EXCEPT !.pc = "done", !.result = r].pc = "done"
    BY <1>2 DEF ActType
  <2> QED
    BY <1>3, <2>1, <2>2, LockKept DEF Leave
<1>4. ASSUME Retry(a), Holds(a), ~Leave(a, "failed")
      PROVE  LockInv'
  <2> DEFINE r == [act[a] EXCEPT !.pc = "connect", !.attempt = @ + 1]
  <2>1. act' = [act EXCEPT ![a] = r]
    BY <1>1, <1>4 DEF Retry
  <2>2. r.pc = "connect" /\ r.job = act[a].job
    BY <1>2 DEF ActType
  <2>3. flock' = flock
    BY <1>4 DEF Retry
  <2> HIDE DEF r
  <2> QED
    BY <1>4, <2>1, <2>2, <2>3, LockKept DEF Holds
<1> QED
  BY <1>3, <1>4 DEF Retry

\* An actor that sets out on a job or is done with one holds nothing.
LEMMA StartLocks ==
    ASSUME Types, LockInv, NEW a \in Actors, NEW j, NEW st, UNCHANGED flock, ~Holds(a),
           act' = [act EXCEPT ![a] = Start(j, st)] \/ act' = [act EXCEPT ![a] = Out]
    PROVE  LockInv'
<1>1. Out.pc = "out"
  BY DEF Out
<1>2. /\ ~(Locking(Start(j, st).job) /\ Start(j, st).pc \in {"connect", "begun", "body"})
      /\ Start(j, st).pc \in {"lock", "body"} => Locking(Start(j, st).job)
  BY KindLocks DEF Start, Out
<1> QED
  BY <1>1, <1>2, LockKept

LEMMA LockNext ==
    ASSUME Types, LockInv, EndInv, [Next]_vars
    PROVE  LockInv'
<1>1. act \in [Actors -> ActType({act[b].job : b \in Actors})]
  BY DEF Types, ActTypes
<1>2. \A a \in Actors : \A pc :
          /\ [act EXCEPT ![a].pc = pc] = [act EXCEPT ![a] = [act[a] EXCEPT !.pc = pc]]
          /\ [act[a] EXCEPT !.pc = pc].pc = pc
          /\ [act[a] EXCEPT !.pc = pc].job = act[a].job
  BY <1>1 DEF ActType
<1>3. ASSUME NEW a \in Actors, Lock(a)
      PROVE  LockInv'
  <2>1. Locking(act[a].job)
    BY <1>3 DEF Lock, LockInv
  <2> QED
    BY <1>2, <1>3, <2>1, LockKept DEF Lock
<1>4. ASSUME NEW a \in Actors, Connect(a)
      PROVE  LockInv'
  <2>1. CASE Leave(a, "failed")
    BY <2>1, LeaveLocks
  <2>2. CASE ~Leave(a, "failed")
    <3>1. act' = [act EXCEPT ![a].pc = "begun"] /\ flock' = flock /\ act[a].pc = "connect"
      BY <1>4, <2>2 DEF Connect
    <3> QED
      BY <1>2, <3>1, LockKept DEF Holds
  <2> QED
    BY <2>1, <2>2
<1>5. ASSUME NEW a \in Actors, Trouble(a) \/ Execute(a)
      PROVE  LockInv'
  BY <1>5, LeaveLocks DEF Trouble, Execute, Holds
<1>6. ASSUME NEW t \in Txs, EnterBody(t)
      PROVE  LockInv'
  <2>1. CASE act' = [a \in Actors |-> Out] /\ flock' = None
    <3>1. Out.pc = "out"
      BY DEF Out
    <3> QED
      BY <2>1, <3>1, ServerAssumption DEF LockInv, Holds
  <2>2. CASE act' = [act EXCEPT ![t].pc = "body"] /\ UNCHANGED flock
    <3>1. act[t].pc = "begun" /\ Locking(act[t].job)
      BY <1>6 DEF EnterBody, Locking, Kind
    <3> QED
      BY <1>2, <2>2, <3>1, LockKept DEF Holds
  <2> QED
    BY <1>6, <2>1, <2>2 DEF EnterBody
<1>7. ASSUME NEW t \in Txs, LeaveBody(t)
      PROVE  LockInv'
  BY <1>7, LeaveLocks DEF LeaveBody, Holds, LockInv
<1>8. ASSUME NEW t \in Txs, StartVersion(t) \/ Report(t)
      PROVE  LockInv'
  BY <1>8, StartLocks DEF StartVersion, Report, Holds
<1>9. CASE StartJob \/ JobDone \/ Answer \/ AnswerError
  BY <1>9, StartLocks DEF StartJob, JobDone, Answer, AnswerError, Over, Holds
<1>10. ASSUME NEW s \in Sessions, NEW t \in Txs, NEW msg \in BOOLEAN, Begin(s, t, msg)
       PROVE  LockInv'
  <2>1. act[t].pc = "out"
    BY <1>10, ServerAssumption DEF Begin, EndInv, TxOpen, NoTx
  <2> QED
    BY <1>10, <2>1, StartLocks DEF Begin, Holds
<1>11. CASE OtherLocks \/ OtherUnlocks
  BY <1>11, ServerAssumption DEF OtherLocks, OtherUnlocks, LockInv, Holds
<1>12. CASE UNCHANGED <<act, flock>>
  BY <1>12 DEF LockInv, Holds
<1> QED
  BY <1>3, <1>4, <1>5, <1>6, <1>7, <1>8, <1>9, <1>10, <1>11, <1>12
  DEF Next, ClientStep, ServeStep, JobStep, TxStep, vars, Open, InitDatabase, Request, Close,
      TxWrite, Finish, CloseAll, AnswerBegin, AnswerFinish, RolledBack, EndProcess, RollBackNext

\* The loop has a job only while it answers a request that has jobs.
LEMMA ServeNext ==
    ASSUME Types, ServeInv, [Next]_vars
    PROVE  ServeInv'
<1>1. act \in [Actors -> ActType({act[b].job : b \in Actors})] /\ Serve \in Actors /\ Serve \notin Txs
  BY ServerAssumption DEF Types, ActTypes
<1>2. Out.pc = "out"
  BY DEF Out
<1>3. ASSUME NEW a \in Actors, Lock(a) \/ JobStep(a)
      PROVE  ServeInv'
  <2>1. loop' = loop /\ \A b \in Actors : act'[b].pc # "out" => act[b].pc # "out"
    BY <1>1, <1>3 DEF Lock, JobStep, Connect, Trouble, Execute, Leave, Retry, ActType
  <2> QED
    BY <1>1, <2>1 DEF ServeInv
<1>4. ASSUME NEW t \in Txs, TxStep(t)
      PROVE  ServeInv'
  <2>1. CASE act'[Serve] = act[Serve] /\ loop' = loop
    BY <2>1 DEF ServeInv
  <2>2. CASE act' = [a \in Actors |-> Out] /\ loop' = [loop EXCEPT !.do = "crashed"]
    BY <1>1, <1>2, <2>2 DEF ServeInv, Types, LoopTypes
  <2>3. \/ EnterBody(t) /\ txs[t].ready
        \/ loop' = loop /\ \E r : act' = [act EXCEPT ![t] = r]
    BY <1>4 DEF TxStep, EnterBody, LeaveBody, StartVersion, Report, Leave, Retry
  <2> QED
    BY <1>1, <2>1, <2>2, <2>3 DEF EnterBody
<1>5. CASE ClientStep
  <2>1. act'[Serve] = act[Serve] /\ loop.do = "idle"
    BY <1>1, <1>5 DEF ClientStep, Open, InitDatabase, Request, Close, Begin, TxWrite, Finish, CloseAll
  <2>2. \/ loop' = loop
        \/ loop'.do \in {"open", "init", "request"}
        \/ loop'.jobs = <<>>
    <3>1. CASE \E s \in Sessions, k \in Keys : Open(s, k)
      BY <3>1 DEF Open, Share, OpenNew, Idle
    <3>2. CASE \E s \in Sessions, k \in Keys, st \in Stores : InitDatabase(s, k, st)
      BY <3>2 DEF InitDatabase, Idle
    <3>3. CASE \E s \in Sessions, jobs \in RequestJobs : Request(s, jobs)
      BY <3>3 DEF Request, Idle
    <3>4. CASE \E s \in Sessions : Close(s)
      BY <3>4 DEF Close
    <3>5. CASE \E s \in Sessions, t \in Txs, msg \in BOOLEAN : Begin(s, t, msg)
      BY <3>5 DEF Begin, Idle
    <3>6. CASE CloseAll \/ \E t \in Txs : (\E written \in TxEffects : TxWrite(t, written))
                                          \/ (\E d \in {"commit", "rollback"} : Finish(t, d))
      BY <3>6 DEF TxWrite, Finish, CloseAll, Idle
    <3> QED
      BY <1>5, <3>1, <3>2, <3>3, <3>4, <3>5, <3>6 DEF ClientStep
  <2> QED
    BY <2>1, <2>2 DEF ServeInv
<1>6. CASE StartJob /\ Running
  <2>1. loop' = loop /\ loop.do \in {"open", "init", "request"}
    BY <1>6 DEF StartJob, ServeInv, Running
  <2> QED
    BY <2>1 DEF ServeInv
<1>7. CASE JobDone \/ Answer \/ AnswerError
  <2>1. act'[Serve] = Out
    BY <1>1, <1>7 DEF JobDone, Answer, AnswerError
  <2>2. loop' = Idle \/ (loop' = [loop EXCEPT !.jobs = Tail(@)] /\ loop.jobs # <<>>)
    BY <1>7 DEF JobDone, Answer, AnswerError, Over
  <2> QED
    BY <1>2, <2>1, <2>2 DEF ServeInv, Idle, Types, LoopTypes
<1>8. CASE AnswerBegin \/ AnswerFinish \/ RolledBack \/ EndProcess \/ \E t \in Txs : RollBackNext(t)
  <2>1. act' = act /\ loop.do \in {"begin", "finish", "closing"}
    BY <1>8 DEF AnswerBegin, AnswerFinish, RolledBack, EndProcess, RollBackNext
  <2>2. LoopTypes
    BY DEF Types
  <2>3. CASE RolledBack \/ \E t \in Txs : RollBackNext(t)
    BY <2>1, <2>2, <2>3 DEF RolledBack, RollBackNext, LoopTypes, ServeInv
  <2>4. CASE AnswerBegin \/ AnswerFinish \/ EndProcess
    BY <2>1, <2>4 DEF AnswerBegin, AnswerFinish, EndProcess, Idle, ServeInv
  <2> QED
    BY <1>8, <2>3, <2>4
<1>9. CASE UNCHANGED <<act, loop>>
  BY <1>9 DEF ServeInv
<1> QED
  BY <1>3, <1>4, <1>5, <1>6, <1>7, <1>8, <1>9 DEF Next, ServeStep, OtherLocks, OtherUnlocks, vars

------------------------------------------------------------------------------
(* Transactions and what their clients are told *)

\* An actor that leaves a job, or tries it again.
LEMMA LeftActor ==
    ASSUME Types, NEW a \in Actors
    PROVE  /\ \A r : Leave(a, r) =>
                  /\ act'[a].pc = "done" /\ act'[a].job = act[a].job /\ act'[a].result = r
                  /\ \A b \in Actors \ {a} : act'[b] = act[b]
           /\ Retry(a) /\ ~Leave(a, "failed") =>
                  /\ act'[a].pc = "connect" /\ act'[a].job = act[a].job
                  /\ \A b \in Actors \ {a} : act'[b] = act[b]
<1>1. act \in [Actors -> ActType({act[b].job : b \in Actors})]
  BY DEF Types, ActTypes
<1> QED
  BY <1>1 DEF Leave, Retry, ActType

\* A step that does not concern a transaction.
LEMMA TxKept ==
    ASSUME TxInv, NEW t \in Txs, act'[t] = act[t], txs'[t] = txs[t],
           {w \in table' : w[1] = t} = Its(t), history \subseteq history',
           loop.do = "crashed" => loop'.do = "crashed"
    PROVE  RunningTx(t)' /\ ReportedTx(t)'
<1>1. RunningTx(t) /\ ReportedTx(t)
  BY DEF TxInv
<1>2. Its(t)' = Its(t) /\ All(t)' = All(t) /\ (Versioned(t) => Versioned(t)')
  BY DEF Its, All, Versioned
<1>3. Committed(t)' = Committed(t) /\ TxOpen(t)' = TxOpen(t)
  BY DEF Committed, TxOpen
<1>4. RunningTx(t)'
  BY <1>1, <1>2, <1>3 DEF RunningTx
<1>5. ReportedTx(t)'
  BY <1>1, <1>2, <1>3 DEF ReportedTx, Told
<1> QED
  BY <1>4, <1>5

LEMMA ListedKept ==
    ASSUME TxInv, NEW t \in Txs, act'[t] = act[t], txs'[t] = txs[t],
           \/ loop'.do = "crashed"
           \/ loop.do # "crashed" /\ (loop.do = "finish" => loop.tx # t \/ ~txs[t].listed)
           \/ loop'.do = loop.do /\ loop'.tx = loop.tx
    PROVE  ListedTx(t)'
  BY DEF TxInv, ListedTx

\* A step that changes no transaction, and may add to the versions.
LEMMA TxsKept ==
    ASSUME TxInv, \A t \in Txs : act'[t] = act[t], txs' = txs, table' = table, history \subseteq history',
           \/ loop'.do = loop.do /\ loop'.tx = loop.tx
           \/ loop.do \notin {"crashed", "finish"}
    PROVE  TxInv'
<1> SUFFICES ASSUME NEW t \in Txs
             PROVE  RunningTx(t)' /\ ReportedTx(t)' /\ ListedTx(t)'
  BY DEF TxInv
<1>1. {w \in table' : w[1] = t} = Its(t)
  BY DEF Its
<1> QED
  BY <1>1, TxKept, ListedKept

\* A step of a transaction's goroutine inside a job.
LEMMA JobMoves ==
    ASSUME Types, NEW a \in Txs, Lock(a) \/ JobStep(a)
    PROVE  /\ act[a].pc \in {"lock", "connect", "begun"}
           /\ act'[a].job = act[a].job
           /\ \/ act'[a].pc \in {"connect", "begun"}
              \/ act'[a].pc = "done" /\ act'[a].result = "failed"
              \/ /\ act'[a].pc = "done" /\ act'[a].result = "ok"
                 /\ act[a].job = "version" /\ Staged("version") \subseteq history'
<1>0. act[a].pc \in {"lock", "connect", "begun"}
  BY DEF Lock, JobStep, Connect, Trouble, Execute
<1>1. act \in [Actors -> ActType({act[b].job : b \in Actors})]
  BY DEF Types, ActTypes
<1>2. CASE Lock(a)
  BY <1>0, <1>1, <1>2 DEF Lock, ActType
<1>3. CASE Connect(a)
  BY <1>0, <1>1, <1>3, LeftActor DEF Connect, ActType
<1>4. CASE Trouble(a)
  BY <1>0, <1>4, LeftActor DEF Trouble
<1>5. CASE Execute(a)
  <2>1. act[a].job = "version" /\ Leave(a, "ok")
    BY <1>5, ServerAssumption DEF Execute
  <2>2. Staged("version") \subseteq history'
    BY <1>5, <2>1 DEF Execute
  <2> QED
    BY <1>0, <2>1, <2>2, LeftActor
<1> QED
  BY <1>2, <1>3, <1>4, <1>5 DEF JobStep

\* Steps inside a job.
LEMMA JobTx ==
    ASSUME Types, TxInv, NEW a \in Actors, Lock(a) \/ JobStep(a)
    PROVE  TxInv'
<1>1. /\ loop' = loop /\ txs' = txs /\ table' = table /\ history \subseteq history'
      /\ \A b \in Actors \ {a} : act'[b] = act[b]
  <2>1. act \in [Actors -> ActType({act[b].job : b \in Actors})]
    BY DEF Types, ActTypes
  <2>2. \A b \in Actors \ {a} : act'[b] = act[b]
    BY <2>1, LeftActor DEF Lock, JobStep, Connect, Trouble, Execute
  <2> QED
    BY <2>2 DEF Lock, JobStep, Connect, Trouble, Execute
<1>2. \A t \in Txs : {w \in table' : w[1] = t} = Its(t)
  BY <1>1 DEF Its
<1>3. \A t \in Txs : t # a => RunningTx(t)' /\ ReportedTx(t)' /\ ListedTx(t)'
  BY <1>1, <1>2, TxKept, ListedKept
<1>4. ASSUME a \in Txs
      PROVE  RunningTx(a)' /\ ReportedTx(a)' /\ ListedTx(a)'
  <2>1. /\ RunningTx(a) /\ ReportedTx(a) /\ ListedTx(a)
        /\ TxOpen(a) /\ act[a].pc \in {"lock", "connect", "begun"}
    BY <1>4 DEF TxInv, TxOpen, Lock, JobStep, Connect, Trouble, Execute
  <2>2. /\ act'[a].job = act[a].job
        /\ \/ act'[a].pc \in {"connect", "begun"}
           \/ act'[a].pc = "done" /\ act'[a].result = "failed"
           \/ /\ act'[a].pc = "done" /\ act'[a].result = "ok"
              /\ act[a].job = "version" /\ Staged("version") \subseteq history'
    BY <1>4, JobMoves
  <2>3. Its(a)' = Its(a) /\ All(a)' = All(a) /\ (Versioned(a) => Versioned(a)')
    BY <1>1, <1>2 DEF Its, All, Versioned
  <2>4. Staged("version") \subseteq history' => Versioned(a)'
    BY <1>1 DEF Versioned, Its, Staged
  <2>5. TxOpen(a)' /\ (Committed(a)' <=> Committed(a))
    BY <2>1, <2>2 DEF TxOpen, Committed
  <2>6. RunningTx(a)'
    BY <2>1, <2>2, <2>3, <2>4, <2>5 DEF RunningTx
  <2>7. ReportedTx(a)'
    BY <1>1, <2>1, <2>5 DEF ReportedTx
  <2>8. ListedTx(a)'
    BY <1>1, <2>1 DEF ListedTx
  <2> QED
    BY <2>6, <2>7, <2>8
<1> QED
  BY <1>3, <1>4 DEF TxInv

\* The callback is entered, or the process dies.
LEMMA EnterTx ==
    ASSUME Types, TxInv, NEW t \in Txs, EnterBody(t), Running
    PROVE  TxInv'
<1>1. TxTypes /\ LoopTypes /\ act \in [Actors -> ActType({act[b].job : b \in Actors})]
  BY DEF Types, ActTypes
<1>2. \A x \in Txs : {w \in table' : w[1] = x} = Its(x) /\ history' = history
  BY DEF EnterBody, Its
<1>3. CASE txs[t].ready
  <2>1. /\ loop'.do = "crashed" /\ txs' = txs
        /\ \A x \in Txs : act'[x] = Out
    BY <1>1, <1>3 DEF EnterBody, LoopTypes
  <2> SUFFICES ASSUME NEW x \in Txs
               PROVE  RunningTx(x)' /\ ReportedTx(x)' /\ ListedTx(x)'
    BY DEF TxInv
  <2>2. ~TxOpen(x)'
    BY <2>1 DEF TxOpen, Out
  <2>3. Its(x)' = Its(x) /\ All(x)' = All(x) /\ Versioned(x)' = Versioned(x)
    BY <1>2, <2>1 DEF Its, All, Versioned
  <2> QED
    BY <2>1, <2>2, <2>3 DEF TxInv, RunningTx, ReportedTx, ListedTx, Told
<1>4. CASE ~txs[t].ready
  <2>1. /\ loop' = loop /\ act'[t].pc = "body" /\ act'[t].job = "sql" /\ act[t].job = "sql"
        /\ act[t].pc = "begun"
        /\ \A x \in Txs \ {t} : act'[x] = act[x] /\ txs'[x] = txs[x]
    BY <1>1, <1>4 DEF EnterBody, ActType, TxTypes
  <2>2. txs'[t] = [txs[t] EXCEPT !.ready = TRUE]
    BY <1>1, <1>4 DEF EnterBody, TxTypes
  <2>3. /\ txs'[t].wrote = txs[t].wrote /\ txs'[t].finished = txs[t].finished
        /\ txs'[t].answer = txs[t].answer /\ txs'[t].msg = txs[t].msg
        /\ txs'[t].listed = txs[t].listed /\ txs'[t].decision = txs[t].decision
    BY <1>1, <2>2 DEF TxTypes, TxType
  <2>4. \A x \in Txs \ {t} : RunningTx(x)' /\ ReportedTx(x)' /\ ListedTx(x)'
    BY <1>2, <2>1, TxKept, ListedKept
  <2>5. RunningTx(t) /\ ReportedTx(t) /\ ListedTx(t) /\ TxOpen(t) /\ ~Committed(t)
    BY <2>1 DEF TxInv, TxOpen, Committed
  <2>6. Its(t)' = Its(t) /\ TxOpen(t)' /\ ~Committed(t)'
    BY <1>2, <2>1 DEF Its, TxOpen, Committed
  <2>7. RunningTx(t)' /\ ReportedTx(t)' /\ ListedTx(t)'
    BY <2>1, <2>3, <2>5, <2>6 DEF RunningTx, ReportedTx, ListedTx
  <2> QED
    BY <2>4, <2>7 DEF TxInv
<1> QED
  BY <1>3, <1>4

\* The callback has returned: all of its writes are committed, or none.
LEMMA LeaveTx ==
    ASSUME Types, TxInv, NEW t \in Txs, LeaveBody(t)
    PROVE  TxInv'
<1>1. /\ loop' = loop /\ txs' = txs /\ history' = history
      /\ act[t].pc = "body" /\ txs[t].decision # "none"
      /\ RunningTx(t) /\ ReportedTx(t) /\ ListedTx(t)
  BY DEF LeaveBody, TxInv
<1>2. /\ act'[t].job = "sql" /\ TxOpen(t)'
      /\ \/ act'[t].pc = "connect" /\ table' = table
         \/ act'[t].pc = "done" /\ act'[t].result \in {"rolledBack", "failed"} /\ table' = table
         \/ /\ act'[t].pc = "done" /\ act'[t].result = "ok"
            /\ table' = table \cup {<<t, k>> : k \in txs[t].wrote}
  BY <1>1, LeftActor DEF LeaveBody, RunningTx, TxOpen
<1>3. \A x \in Txs \ {t} : act'[x] = act[x]
  BY LeftActor DEF LeaveBody
<1>4. \A x \in Txs \ {t} : {w \in table' : w[1] = x} = Its(x)
  BY <1>2 DEF Its
<1>5. \A x \in Txs \ {t} : RunningTx(x)' /\ ReportedTx(x)' /\ ListedTx(x)'
  BY <1>1, <1>3, <1>4, TxKept, ListedKept
<1>6. Its(t) = {}
  BY <1>1 DEF RunningTx, TxOpen, Committed
<1>7. Its(t)' = IF Committed(t)' THEN All(t)' ELSE {}
  <2>1. CASE Committed(t)'
    BY <1>1, <1>2, <1>6, <2>1 DEF Its, All, Committed
  <2>2. CASE ~Committed(t)'
    BY <1>2, <1>6, <2>2 DEF Its, Committed
  <2> QED
    BY <2>1, <2>2
<1>8. RunningTx(t)'
  BY <1>2, <1>7 DEF RunningTx
<1>9. ReportedTx(t)' /\ ListedTx(t)'
  BY <1>1, <1>2 DEF ReportedTx, ListedTx, TxOpen
<1> QED
  BY <1>5, <1>8, <1>9 DEF TxInv

\* The version of a committed transaction, and the report to its client.
LEMMA ReportTx ==
    ASSUME Types, TxInv, NEW t \in Txs, StartVersion(t) \/ Report(t)
    PROVE  TxInv'
<1>1. TxTypes /\ act \in [Actors -> ActType({act[b].job : b \in Actors})]
  BY DEF Types, ActTypes
<1>2. /\ loop' = loop /\ history' = history /\ table' = table
      /\ \A x \in Txs \ {t} : act'[x] = act[x] /\ txs'[x] = txs[x]
  BY <1>1 DEF StartVersion, Report, TxTypes
<1>3. \A x \in Txs : {w \in table' : w[1] = x} = Its(x)
  BY <1>2 DEF Its
<1>4. \A x \in Txs \ {t} : RunningTx(x)' /\ ReportedTx(x)' /\ ListedTx(x)'
  BY <1>2, <1>3, TxKept, ListedKept
<1>5. RunningTx(t) /\ ReportedTx(t) /\ ListedTx(t) /\ act[t].pc = "done" /\ TxOpen(t)
  BY DEF TxInv, StartVersion, Report, TxOpen
<1>6. Its(t)' = Its(t)
  BY <1>3 DEF Its
<1>7. CASE StartVersion(t)
  <2>1. /\ act'[t].pc = "lock" /\ act'[t].job = "version" /\ txs' = txs
        /\ act[t].result = "ok" /\ act[t].job = "sql"
    BY <1>1, <1>7 DEF StartVersion, Start, Out, Locking, Kind
  <2>2. RunningTx(t)'
    BY <1>5, <1>6, <2>1 DEF RunningTx, TxOpen, Committed, All
  <2>3. ReportedTx(t)' /\ ListedTx(t)'
    BY <1>2, <1>5, <2>1 DEF ReportedTx, ListedTx, TxOpen
  <2> QED
    BY <1>4, <2>2, <2>3 DEF TxInv
<1>8. CASE Report(t)
  <2> DEFINE r == IF act[t].job = "version" /\ act[t].result = "failed"
                  THEN "unversioned" ELSE act[t].result
  <2>1. /\ act'[t].pc = "out" /\ txs'[t].finished = r /\ ~txs'[t].listed
        /\ txs'[t].wrote = txs[t].wrote /\ txs'[t].answer = txs[t].answer /\ txs'[t].msg = txs[t].msg
    BY <1>1, <1>8 DEF Report, Out, TxTypes, TxType
  <2>2. r # "none"
    BY <1>5 DEF RunningTx
  <2>3. txs[t].answer = "none"
    BY <1>5 DEF ReportedTx
  <2>4. All(t)' = All(t) /\ Versioned(t)' = Versioned(t)
    BY <1>2, <1>6, <2>1 DEF All, Versioned
  <2>5. /\ r \in {"ok", "unversioned"} => Its(t) = All(t)
        /\ r \in {"rolledBack", "failed"} => Its(t) = {}
        /\ r = "ok" /\ txs[t].msg => Versioned(t)
    <3>1. r \in {"ok", "unversioned"} => Its(t) = All(t)
      BY <1>1, <1>5 DEF RunningTx, Committed, ActType
    <3>2. r \in {"rolledBack", "failed"} => Its(t) = {}
      BY <1>5 DEF RunningTx, Committed
    <3>3. r = "ok" /\ txs[t].msg => Versioned(t)
      <4>1. CASE act[t].job = "version"
        BY <1>5, <4>1 DEF RunningTx
      <4>2. CASE act[t].job # "version"
        <5>1. r = "ok" /\ txs[t].msg => txs[t].wrote = {}
          BY <1>5, <1>8, <4>2 DEF Report, RunningTx, WantsVersion
        <5> QED
          BY <3>1, <5>1 DEF All, Versioned
      <4> QED
        BY <4>1, <4>2
    <3> HIDE DEF r
    <3> QED
      BY <3>1, <3>2, <3>3
  <2> HIDE DEF r
  <2>6. RunningTx(t)' /\ ReportedTx(t)' /\ ListedTx(t)'
    BY <1>6, <2>1, <2>2, <2>3, <2>4, <2>5 DEF RunningTx, ReportedTx, ListedTx, TxOpen, Told
  <2> QED
    BY <1>4, <2>6 DEF TxInv
<1> QED
  BY <1>7, <1>8

\* A step on the record of one transaction, whose goroutine does not move.
LEMMA TxTold ==
    ASSUME Types, TxInv, NEW t \in Txs, NEW r, txs' = [txs EXCEPT ![t] = r],
           act' = act, table' = table, history' = history, loop.do # "crashed",
           loop.do = "finish" => loop.tx = t \/ (loop'.do = "finish" /\ loop'.tx = loop.tx),
           r.wrote = txs[t].wrote \/ act[t].pc = "body",
           r.finished = txs[t].finished, r.msg = txs[t].msg,
           r.answer \in {txs[t].answer, r.finished},
           r.listed /\ loop'.do # "crashed" =>
               IF r.decision = "none"
               THEN r.ready => act[t].pc = "body"
               ELSE loop'.do = "finish" /\ loop'.tx = t,
           r.listed => txs[t].listed
    PROVE  TxInv'
<1>1. txs'[t] = r /\ \A x \in Txs \ {t} : txs'[x] = txs[x]
  BY DEF Types, TxTypes
<1>2. \A x \in Txs : {w \in table' : w[1] = x} = Its(x)
  BY DEF Its
<1>3. ASSUME NEW x \in Txs \ {t}
      PROVE  RunningTx(x)' /\ ReportedTx(x)' /\ ListedTx(x)'
  BY <1>1, <1>2, TxKept, ListedKept
<1>4. RunningTx(t) /\ ReportedTx(t)
  BY DEF TxInv
<1>5. Its(t)' = Its(t) /\ TxOpen(t)' = TxOpen(t) /\ Committed(t)' = Committed(t)
  BY DEF Its, TxOpen, Committed
<1>6. RunningTx(t)' /\ ReportedTx(t)' /\ ListedTx(t)'
  <2>1. CASE act[t].pc = "body"
    BY <1>1, <1>4, <1>5, <2>1 DEF RunningTx, ReportedTx, ListedTx, TxOpen, Committed
  <2>2. CASE r.wrote = txs[t].wrote
    <3>1. All(t)' = All(t) /\ Versioned(t)' = Versioned(t)
      BY <1>1, <1>5, <2>2 DEF All, Versioned
    <3> QED
      BY <1>1, <1>4, <1>5, <3>1 DEF RunningTx, ReportedTx, ListedTx, Told
  <2> QED
    BY <2>1, <2>2
<1> QED
  BY <1>3, <1>6 DEF TxInv

LEMMA TxNext ==
    ASSUME Types, ServeInv, TxInv, EndInv, [Next]_vars
    PROVE  TxInv'
<1>1. TxTypes /\ LoopTypes /\ Serve \notin Txs
      /\ act \in [Actors -> ActType({act[b].job : b \in Actors})]
  BY ServerAssumption DEF Types, ActTypes
<1>2. ASSUME NEW s \in Sessions, NEW t \in Txs, NEW msg \in BOOLEAN, Begin(s, t, msg)
      PROVE  TxInv'
  <2>1. /\ txs'[t].listed /\ txs'[t].decision = "none" /\ ~txs'[t].ready
        /\ txs'[t].finished = "none" /\ txs'[t].answer = "none"
        /\ act'[t].pc = "lock" /\ act'[t].job = "sql" /\ loop'.do = "begin" /\ loop.do = "idle"
    BY <1>1, <1>2 DEF Begin, NoTx, TxTypes, Start, Out, Locking, Kind, Idle
  <2>2. /\ table' = table /\ history' = history
        /\ \A x \in Txs \ {t} : act'[x] = act[x] /\ txs'[x] = txs[x]
    BY <1>1, <1>2 DEF Begin, TxTypes
  <2>3. \A x \in Txs : {w \in table' : w[1] = x} = Its(x)
    BY <2>2 DEF Its
  <2>4. \A x \in Txs \ {t} : RunningTx(x)' /\ ReportedTx(x)' /\ ListedTx(x)'
    BY <2>1, <2>2, <2>3, TxKept, ListedKept
  <2>5. Its(t) = {}
    BY <1>2, <2>1 DEF Begin, NoTx, EndInv, TxInv, ReportedTx
  <2>6. Its(t)' = {}
    BY <2>3, <2>5 DEF Its
  <2>7. RunningTx(t)' /\ ReportedTx(t)' /\ ListedTx(t)'
    BY <2>1, <2>6 DEF RunningTx, ReportedTx, ListedTx, TxOpen, Committed
  <2> QED
    BY <2>4, <2>7 DEF TxInv
<1>3. ASSUME NEW t \in Txs, NEW written \in TxEffects, TxWrite(t, written)
      PROVE  TxInv'
  <2> DEFINE r == [txs[t] EXCEPT !.wrote = @ \cup written]
  <2>1. txs' = [txs EXCEPT ![t] = r]
    BY <1>1, <1>3 DEF TxWrite, TxTypes
  <2>2. /\ r.finished = txs[t].finished /\ r.msg = txs[t].msg /\ r.answer = txs[t].answer
        /\ r.listed = txs[t].listed /\ r.ready = txs[t].ready /\ r.decision = txs[t].decision
    BY <1>1 DEF TxTypes, TxType
  <2>3. act[t].pc = "body" /\ txs[t].decision = "none"
    BY <1>3 DEF TxWrite, TxInv, ListedTx
  <2>4. /\ loop' = loop /\ loop.do = "idle"
        /\ act' = act /\ table' = table /\ history' = history
    BY <1>3 DEF TxWrite
  <2> HIDE DEF r
  <2> QED
    BY <2>1, <2>2, <2>3, <2>4, TxTold
<1>4. ASSUME NEW t \in Txs, NEW d \in {"commit", "rollback"}, Finish(t, d)
      PROVE  TxInv'
  <2> DEFINE r == [txs[t] EXCEPT !.decision = d]
  <2>1. txs' = [txs EXCEPT ![t] = r]
    BY <1>1, <1>4 DEF Finish, TxTypes
  <2>2. /\ r.finished = txs[t].finished /\ r.msg = txs[t].msg /\ r.answer = txs[t].answer
        /\ r.listed = txs[t].listed /\ r.wrote = txs[t].wrote /\ r.decision # "none"
    BY <1>1 DEF TxTypes, TxType
  <2>3. loop'.do = "finish" /\ loop'.tx = t
    BY <1>4 DEF Finish, Idle
  <2> HIDE DEF r
  <2> QED
    BY <1>4, <2>1, <2>2, <2>3, TxTold DEF Finish
<1>5. CASE CloseAll
  <2>1. \A t \in Txs : /\ txs'[t].finished = txs[t].finished /\ txs'[t].answer = txs[t].answer
                       /\ txs'[t].wrote = txs[t].wrote /\ txs'[t].msg = txs[t].msg
                       /\ ~txs'[t].listed
    BY <1>1, <1>5 DEF CloseAll, TxTypes, TxType
  <2>2. act' = act /\ table' = table /\ history' = history /\ loop.do # "crashed"
    BY <1>5 DEF CloseAll
  <2> SUFFICES ASSUME NEW t \in Txs
               PROVE  RunningTx(t)' /\ ReportedTx(t)' /\ ListedTx(t)'
    BY DEF TxInv
  <2>3. /\ Its(t)' = Its(t) /\ All(t)' = All(t) /\ Versioned(t)' = Versioned(t)
        /\ TxOpen(t)' = TxOpen(t) /\ Committed(t)' = Committed(t)
    BY <2>1, <2>2 DEF Its, All, Versioned, TxOpen, Committed
  <2> QED
    BY <2>1, <2>2, <2>3 DEF TxInv, RunningTx, ReportedTx, ListedTx, Told
<1>6. CASE AnswerBegin \/ AnswerFinish
  <2> DEFINE t == loop.tx
  <2>1. CASE txs' = txs
    <3> SUFFICES ASSUME NEW x \in Txs
                 PROVE  RunningTx(x)' /\ ReportedTx(x)' /\ ListedTx(x)'
      BY DEF TxInv
    <3>1. /\ act' = act /\ table' = table /\ history' = history /\ loop.do # "crashed"
          /\ loop.do = "finish" => txs[loop.tx].finished # "none"
      BY <1>6 DEF AnswerBegin, AnswerFinish
    <3>2. {w \in table' : w[1] = x} = Its(x)
      BY <3>1 DEF Its
    <3>3. loop.do = "finish" => loop.tx # x \/ ~txs[x].listed
      BY <3>1 DEF TxInv, ReportedTx
    <3> QED
      BY <2>1, <3>1, <3>2, <3>3, TxKept, ListedKept
  <2>2. CASE txs' # txs
    <3>1. t \in Txs
      BY <1>1, <1>6, <2>2 DEF AnswerBegin, AnswerFinish, TxTypes
    <3> DEFINE r == [txs[t] EXCEPT !.answer = txs[t].finished]
    <3>2. txs' = [txs EXCEPT ![t] = r] /\ txs[t].finished # "none"
      BY <1>1, <1>6, <2>2, <3>1 DEF AnswerBegin, AnswerFinish, TxTypes
    <3>3. /\ r.finished = txs[t].finished /\ r.msg = txs[t].msg /\ r.answer = r.finished
          /\ r.listed = txs[t].listed /\ r.wrote = txs[t].wrote
      BY <1>1, <3>1 DEF TxTypes, TxType
    <3>4. ~txs[t].listed
      BY <3>1, <3>2 DEF TxInv, ReportedTx
    <3> HIDE DEF r
    <3> QED
      BY <1>6, <3>1, <3>2, <3>3, <3>4, TxTold DEF AnswerBegin, AnswerFinish
  <2> QED
    BY <2>1, <2>2
<1>7. ASSUME NEW t \in Txs, RollBackNext(t)
      PROVE  TxInv'
  <2> DEFINE r == [txs[t] EXCEPT !.decision = "rollback"]
  <2>1. txs' = [txs EXCEPT ![t] = r]
    BY <1>1, <1>7 DEF RollBackNext, TxTypes
  <2>2. /\ r.finished = txs[t].finished /\ r.msg = txs[t].msg /\ r.answer = txs[t].answer
        /\ r.listed = txs[t].listed /\ r.wrote = txs[t].wrote
    BY <1>1 DEF TxTypes, TxType
  <2>3. ~txs[t].listed
    BY <1>7 DEF RollBackNext, EndInv
  <2> HIDE DEF r
  <2> QED
    BY <1>7, <2>1, <2>2, <2>3, TxTold DEF RollBackNext
<1>8. CASE StartJob \/ JobDone
  BY <1>1, <1>8, TxsKept DEF StartJob, JobDone, LoopTypes
<1>9. CASE Answer \/ AnswerError
  BY <1>1, <1>9, TxsKept DEF Answer, AnswerError, Over, ServeInv
<1>10. CASE RolledBack \/ EndProcess
  BY <1>1, <1>10, TxsKept DEF RolledBack, EndProcess
<1>11. ASSUME NEW s \in Sessions, Close(s) \/ (\E k \in Keys : Open(s, k))
              \/ (\E k \in Keys, st \in Stores : InitDatabase(s, k, st))
              \/ (\E jobs \in RequestJobs : Request(s, jobs))
       PROVE  TxInv'
  <2>1. act' = act /\ txs' = txs /\ table' = table /\ history' = history /\ loop.do = "idle"
    BY <1>11 DEF Close, Open, InitDatabase, Request
  <2> QED
    BY <2>1, TxsKept
<1>12. CASE OtherLocks \/ OtherUnlocks
  BY <1>12, TxsKept DEF OtherLocks, OtherUnlocks
<1>13. CASE UNCHANGED vars
  BY <1>13, TxsKept DEF vars
<1> QED
  BY <1>2, <1>3, <1>4, <1>5, <1>6, <1>7, <1>8, <1>9, <1>10, <1>11, <1>12, <1>13,
     JobTx, EnterTx, LeaveTx, ReportTx
  DEF Next, ClientStep, ServeStep, TxStep

------------------------------------------------------------------------------
(* The end of the process *)

\* A step that opens no transaction, lists none, and leaves the loop's account of
\* those that it ends.
LEMMA EndKept ==
    ASSUME EndInv, \A t \in Txs : TxOpen(t)' => TxOpen(t),
           \A t \in Txs : TxOpen(t)' => (txs'[t].listed <=> txs[t].listed),
           loop.do = "closing" => loop'.do = "closing" /\ loop'.txs = loop.txs /\ loop'.tx = loop.tx,
           loop'.do \in {"closing", "ended"} =>
               /\ loop.do \in {"closing", "ended"}
               /\ \A t \in Txs : txs'[t].listed => txs[t].listed
               /\ sessions' = sessions /\ entries' = entries
    PROVE  EndInv'
<1>1. \A t \in Txs : TxOpen(t)' =>
          txs'[t].listed \/ (loop'.do = "closing" /\ (t \in loop'.txs \/ t = loop'.tx))
  BY DEF EndInv
<1>2. loop'.do \in {"closing", "ended"} =>
          /\ \A t \in Txs : ~txs'[t].listed
          /\ \A s \in Sessions : ~Live(s)'
          /\ \A k \in Keys : entries'[k] = None
  BY DEF EndInv, Live
<1> QED
  BY <1>1, <1>2 DEF EndInv

LEMMA EndNext ==
    ASSUME Types, ServeInv, TxInv, EndInv, [Next]_vars
    PROVE  EndInv'
<1>1. TxTypes /\ LoopTypes /\ Serve \notin Txs /\ None \notin Txs
      /\ act \in [Actors -> ActType({act[b].job : b \in Actors})]
  BY ServerAssumption DEF Types, ActTypes
<1>2. ASSUME NEW a \in Actors, Lock(a) \/ JobStep(a)
      PROVE  EndInv'
  <2>1. /\ \A t \in Txs : act'[t].pc # "out" => act[t].pc # "out"
        /\ loop' = loop /\ txs' = txs /\ sessions' = sessions /\ entries' = entries
    BY <1>1, <1>2 DEF Lock, JobStep, Connect, Trouble, Execute, Leave, Retry, ActType
  <2> QED
    BY <2>1, EndKept DEF TxOpen
<1>3. ASSUME NEW t \in Txs, TxStep(t), Running
      PROVE  EndInv'
  <2>1. CASE act' = [a \in Actors |-> Out] /\ loop' = [loop EXCEPT !.do = "crashed"]
    BY <1>1, <2>1 DEF EndInv, TxOpen, Out, LoopTypes
  <2>2. CASE EnterBody(t) /\ ~txs[t].ready
    <3>1. txs' = [txs EXCEPT ![t].ready = TRUE] /\ act' = [act EXCEPT ![t].pc = "body"]
          /\ act[t].pc = "begun"
      BY <2>2 DEF EnterBody
    <3>2. \A x \in Txs : txs'[x].listed = txs[x].listed
      BY <1>1, <3>1 DEF TxTypes, TxType
    <3>3. \A x \in Txs : act'[x].pc # "out" => act[x].pc # "out"
      BY <1>1, <3>1
    <3> QED
      BY <2>2, <3>2, <3>3, EndKept DEF TxOpen, EnterBody
  <2>3. CASE LeaveBody(t)
    <3>1. \A x \in Txs : txs'[x].listed = txs[x].listed /\ (act'[x].pc # "out" => act[x].pc # "out")
      BY <1>1, <2>3 DEF LeaveBody, Leave, Retry, ActType
    <3> QED
      BY <2>3, <3>1, EndKept DEF TxOpen, LeaveBody
  <2>4. CASE StartVersion(t)
    <3>1. \A x \in Txs : txs'[x].listed = txs[x].listed /\ (act'[x].pc # "out" => act[x].pc # "out")
      BY <1>1, <2>4 DEF StartVersion
    <3> QED
      BY <2>4, <3>1, EndKept DEF TxOpen, StartVersion
  <2>5. CASE Report(t)
    <3>1. /\ \A x \in Txs \ {t} : txs'[x] = txs[x] /\ act'[x] = act[x]
          /\ act'[t].pc = "out" /\ ~txs'[t].listed
      BY <1>1, <2>5 DEF Report, TxTypes, TxType, Out
    <3> QED
      BY <2>5, <3>1, EndKept DEF TxOpen, Report
  <2> QED
    BY <1>3, <2>1, <2>2, <2>3, <2>4, <2>5 DEF TxStep, EnterBody
<1>4. ASSUME NEW s \in Sessions, NEW t \in Txs, NEW msg \in BOOLEAN, Begin(s, t, msg)
      PROVE  EndInv'
  <2>1. /\ txs'[t].listed /\ loop'.do = "begin" /\ loop.do = "idle"
        /\ \A x \in Txs \ {t} : act'[x] = act[x] /\ txs'[x] = txs[x]
    BY <1>1, <1>4 DEF Begin, NoTx, TxTypes, Idle
  <2> QED
    BY <2>1 DEF EndInv, TxOpen
<1>5. CASE CloseAll
  <2>1. \A t \in Txs : ~txs'[t].listed
    BY <1>1, <1>5 DEF CloseAll, TxTypes, TxType
  <2>2. \A s \in Sessions : ~Live(s)'
    BY <1>5 DEF CloseAll, Live, Types, SessionTypes
  <2>3. \A k \in Keys : entries'[k] = None
    BY <1>5 DEF CloseAll
  <2>4. loop'.do = "closing" /\ loop'.txs = {t \in Txs : txs[t].listed} /\ act' = act
        /\ loop.do = "idle"
    BY <1>5 DEF CloseAll, Idle
  <2> QED
    BY <2>1, <2>2, <2>3, <2>4 DEF EndInv, TxOpen
<1>6. ASSUME NEW t \in Txs, RollBackNext(t)
      PROVE  EndInv'
  <2>1. /\ loop'.do = "closing" /\ loop'.tx = t /\ loop'.txs = loop.txs \ {t}
        /\ loop.do = "closing" /\ loop.tx = None
        /\ act' = act /\ sessions' = sessions /\ entries' = entries
        /\ \A x \in Txs : txs'[x].listed = txs[x].listed
    BY <1>1, <1>6 DEF RollBackNext, LoopTypes, TxTypes, TxType
  <2> QED
    BY <1>1, <2>1 DEF EndInv, TxOpen, Live
<1>7. CASE RolledBack
  <2>1. /\ loop'.do = "closing" /\ loop'.tx = None /\ loop'.txs = loop.txs
        /\ loop.do = "closing" /\ txs' = txs
        /\ act' = act /\ sessions' = sessions /\ entries' = entries
    BY <1>1, <1>7 DEF RolledBack, LoopTypes
  <2>2. loop.tx \in Txs => ~TxOpen(loop.tx)
    BY <1>7 DEF RolledBack, TxInv, ReportedTx
  <2> QED
    BY <1>1, <2>1, <2>2 DEF EndInv, TxOpen, Live
<1>8. CASE EndProcess
  <2>1. \A t \in Txs : ~TxOpen(t)
    BY <1>1, <1>8 DEF EndProcess, EndInv
  <2>2. /\ loop.do = "closing" /\ loop'.do = "ended" /\ act' = act /\ txs' = txs
        /\ sessions' = sessions /\ entries' = entries
    BY <1>8 DEF EndProcess, Idle
  <2> QED
    BY <2>1, <2>2 DEF EndInv, TxOpen, Live
<1>9. CASE AnswerBegin \/ AnswerFinish
  <2>1. \A x \in Txs : txs'[x].listed = txs[x].listed
    BY <1>1, <1>9 DEF AnswerBegin, AnswerFinish, TxTypes, TxType
  <2> QED
    BY <1>9, <2>1, EndKept DEF AnswerBegin, AnswerFinish, Idle, TxOpen
<1>10. CASE StartJob /\ Running
  <2>1. \A t \in Txs : act'[t] = act[t]
    BY <1>1, <1>10 DEF StartJob
  <2> QED
    BY <1>10, <2>1, EndKept DEF StartJob, TxOpen
<1>11. CASE JobDone \/ Answer \/ AnswerError
  <2>1. \A t \in Txs : act'[t] = act[t]
    BY <1>1, <1>11 DEF JobDone, Answer, AnswerError
  <2>2. /\ loop.do \in {"open", "init", "request"} /\ txs' = txs
        /\ loop'.do = "idle" \/ loop'.do = loop.do
    BY <1>1, <1>11 DEF JobDone, Answer, AnswerError, Over, ServeInv, Idle, LoopTypes
  <2> QED
    BY <2>1, <2>2, EndKept DEF TxOpen
<1>12. ASSUME NEW s \in Sessions, Close(s) \/ (\E k \in Keys : Open(s, k))
              \/ (\E k \in Keys, st \in Stores : InitDatabase(s, k, st))
              \/ (\E jobs \in RequestJobs : Request(s, jobs))
       PROVE  EndInv'
  <2>1. act' = act /\ txs' = txs /\ loop.do = "idle"
    BY <1>12 DEF Close, Open, InitDatabase, Request
  <2>2. loop'.do \in {"idle", "open", "init", "request"}
    BY <1>12 DEF Close, Open, Share, OpenNew, InitDatabase, Request, Idle
  <2> QED
    BY <2>1, <2>2, EndKept DEF TxOpen
<1>13. ASSUME NEW t \in Txs,
              (\E written \in TxEffects : TxWrite(t, written))
              \/ (\E d \in {"commit", "rollback"} : Finish(t, d))
       PROVE  EndInv'
  <2>1. act' = act /\ loop.do = "idle" /\ loop'.do \in {"idle", "finish"}
    BY <1>13 DEF TxWrite, Finish, Idle
  <2>2. \A x \in Txs : txs'[x].listed = txs[x].listed
    BY <1>1, <1>13 DEF TxWrite, Finish, TxTypes, TxType
  <2> QED
    BY <2>1, <2>2, EndKept DEF TxOpen
<1>14. CASE OtherLocks \/ OtherUnlocks \/ UNCHANGED vars
  BY <1>14, EndKept DEF OtherLocks, OtherUnlocks, vars, TxOpen
<1> QED
  BY <1>2, <1>3, <1>4, <1>5, <1>6, <1>7, <1>8, <1>9, <1>10, <1>11, <1>12, <1>13, <1>14
  DEF Next, ClientStep, ServeStep

------------------------------------------------------------------------------
(* Sessions and their stores *)

\* A step that leaves the manager's maps alone, and of the stores all but handles.
LEMMA StoresKept ==
    ASSUME Types, HoldingInv, UNCHANGED <<sessions, entries>>,
           \A st \in Stores : /\ stores'[st].state = stores[st].state
                              /\ stores'[st].key = stores[st].key
                              /\ stores'[st].refs = stores[st].refs,
           loop'.do \in {"open", "init"} =>
               /\ loop'.do = loop.do /\ loop'.sess = loop.sess
               /\ loop'.st = loop.st /\ loop'.key = loop.key,
           loop.do = "crashed" => loop'.do = "crashed",
           loop.do = "closing" =>
               loop'.do = "crashed" \/ (loop'.do = "closing" /\ loop'.sts = loop.sts)
    PROVE  HoldingInv'
<1>1. \A s \in Sessions : sessions[s].state = "live" => sessions[s].st \in Stores
  BY DEF HoldingInv, StoresInv, Live
<1>2. \A k \in Keys : entries[k] # None => entries[k] \in Stores
  BY DEF Types, StoreTypes
<1>3. StoresInv'
  <2>1. SessionsHoldOpenStores'
    BY <1>1, <1>2 DEF HoldingInv, StoresInv, SessionsHoldOpenStores, Sharing, Live
  <2> QED
    BY <2>1, <1>2 DEF HoldingInv, StoresInv, Sharing, Live
<1>4. OpeningInv'
  BY DEF HoldingInv, OpeningInv, Using, Live
<1>5. ClosedInv'
  BY DEF HoldingInv, ClosedInv, Using, Live
<1> QED
  BY <1>3, <1>4, <1>5 DEF HoldingInv

\* A store without an entry and without a session may change as it likes.
LEMMA FreeStore ==
    ASSUME Types, StoresInv, NEW st \in Stores, Using(st) = {},
           UNCHANGED <<sessions, entries>>,
           \A x \in Stores \ {st} : stores'[x] = stores[x]
    PROVE  StoresInv'
<1>1. \A s \in Sessions : Live(s) => sessions[s].st \in Stores \ {st}
  BY DEF StoresInv, Using
<1>2. \A k \in Keys : entries[k] # None => entries[k] \in Stores \ {st}
  <2> TAKE k \in Keys
  <2> HAVE entries[k] # None
  <2>1. PICK s \in Sessions : Live(s) /\ sessions[s].st = entries[k]
    BY DEF StoresInv, SessionsHoldOpenStores, Sharing
  <2> QED
    BY <1>1, <2>1
<1>3. SessionsHoldOpenStores'
  BY <1>1, <1>2 DEF StoresInv, SessionsHoldOpenStores, Sharing, Live
<1> QED
  BY <1>1, <1>2, <1>3 DEF StoresInv, Sharing, Live

\* A store that has never been opened is nobody's.
LEMMA FreshIsFree ==
    ASSUME Types, HoldingInv, NEW st \in Stores, FreshStore(st), loop.do = "idle"
    PROVE  /\ Using(st) = {}
           /\ \A s \in Sessions : sessions[s].state = "closed" => sessions[s].st # st
           /\ \A k \in Keys : entries[k] # st
<1>1. Using(st) = {}
  BY DEF FreshStore, Using, HoldingInv, StoresInv, SessionsHoldOpenStores
<1>2. \A s \in Sessions : sessions[s].state = "closed" => sessions[s].st # st
  BY <1>1 DEF FreshStore, HoldingInv, ClosedInv
<1>3. \A k \in Keys : entries[k] # st
  <2> SUFFICES ASSUME NEW k \in Keys, entries[k] = st
               PROVE  FALSE
    OBVIOUS
  <2>1. entries[k] # None
    BY ServerAssumption
  <2>2. Sharing(st) # {}
    BY <2>1 DEF HoldingInv, StoresInv, SessionsHoldOpenStores
  <2> QED
    BY <1>1, <2>2 DEF Sharing, Using
<1> QED
  BY <1>1, <1>2, <1>3

LEMMA NewStore ==
    ASSUME Types, HoldingInv, NEW s \in Sessions, NEW k \in Keys, NEW st \in Stores,
           FreshSession(s), FreshStore(st), loop.do = "idle",
           stores' = [stores EXCEPT ![st] =
                        [state |-> "open", handle |-> TRUE, key |-> k, refs |-> 0]],
           UNCHANGED <<sessions, entries>>,
           loop'.do \in {"open", "init"}, loop'.sess = s, loop'.st = st, loop'.key = k,
           loop'.do = "open" => entries[k] = None
    PROVE  HoldingInv'
<1>1. stores'[st] = [state |-> "open", handle |-> TRUE, key |-> k, refs |-> 0]
      /\ \A x \in Stores \ {st} : stores'[x] = stores[x]
  BY DEF Types, StoreTypes
<1>2. StoresInv'
  BY <1>1, FreeStore, FreshIsFree DEF HoldingInv
<1>3. OpeningInv'
  BY <1>1, FreshIsFree DEF OpeningInv, FreshSession, Using, Live
<1>4. ClosedInv'
  BY <1>1, FreshIsFree DEF HoldingInv, ClosedInv, Using, Live
<1> QED
  BY <1>2, <1>3, <1>4 DEF HoldingInv

\* Sharing an open store.
LEMMA ShareHolds ==
    ASSUME Types, HoldingInv, NEW s \in Sessions, NEW k \in Keys, FreshSession(s), Share(s, k),
           loop.do = "idle"
    PROVE  HoldingInv'
<1> DEFINE st == entries[k]
<1>1. /\ st \in Stores /\ st # None
      /\ sessions' = [sessions EXCEPT ![s] = [state |-> "live", st |-> st, cached |-> TRUE]]
      /\ stores' = [stores EXCEPT ![st].refs = @ + 1]
      /\ entries' = entries /\ loop' = loop
  BY DEF Share, Types, StoreTypes
<1>2. /\ sessions'[s] = [state |-> "live", st |-> st, cached |-> TRUE]
      /\ \A x \in Sessions \ {s} : sessions'[x] = sessions[x]
      /\ sessions[s].state = "fresh"
  BY <1>1 DEF Types, SessionTypes, FreshSession
<1>3. /\ stores'[st].state = stores[st].state /\ stores'[st].key = stores[st].key
      /\ stores'[st].refs = stores[st].refs + 1
      /\ \A x \in Stores \ {st} : stores'[x] = stores[x]
  BY <1>1 DEF Types, StoreTypes, StoreType
<1>4. /\ stores[st].key = k /\ IsFiniteSet(Sharing(st)) /\ Sharing(st) # {}
      /\ stores[st].refs = Cardinality(Sharing(st))
  BY <1>1 DEF HoldingInv, StoresInv, SessionsHoldOpenStores
<1>5. PICK y \in Sessions : Live(y) /\ sessions[y].cached /\ sessions[y].st = st
  BY <1>4 DEF Sharing
<1>6. stores[st].state = "open" /\ y # s
  BY <1>2, <1>5 DEF HoldingInv, StoresInv, SessionsHoldOpenStores, Live
<1>7. {x \in Sessions : sessions'[x].state = "live" /\ sessions'[x].cached /\ sessions'[x].st = st}
          = Sharing(st) \cup {s}
  BY <1>2 DEF Sharing, Live
<1>8. /\ IsFiniteSet(Sharing(st) \cup {s})
      /\ Cardinality(Sharing(st) \cup {s}) = Cardinality(Sharing(st)) + 1
  BY <1>2, <1>4, FS_AddElement DEF Sharing, Live
<1> HIDE DEF st
<1>9. \A x, z \in Sessions : Live(x)' /\ Live(z)' /\ sessions'[x].st = sessions'[z].st =>
          x = z \/ sessions'[x].cached
  <2>1. \A x \in Sessions : Live(x) /\ sessions[x].st = st => sessions[x].cached
    BY <1>5 DEF HoldingInv, StoresInv
  <2> QED
    BY <1>2, <2>1 DEF Live, HoldingInv, StoresInv
<1>10. \A x \in Sessions : Live(x)' =>
          /\ sessions'[x].st \in Stores /\ stores'[sessions'[x].st].key \in Keys
          /\ stores'[sessions'[x].st].state = "open"
          /\ sessions'[x].cached => entries'[stores'[sessions'[x].st].key] = sessions'[x].st
  BY <1>1, <1>2, <1>3, <1>4, <1>6 DEF HoldingInv, StoresInv, SessionsHoldOpenStores, Live, st
<1>11. ASSUME NEW j \in Keys, entries'[j] # None
       PROVE  /\ Sharing(entries[j])' # {}
              /\ stores'[entries'[j]].refs = Cardinality(Sharing(entries[j]))'
              /\ stores'[entries'[j]].key = j /\ IsFiniteSet(Sharing(entries[j]))'
  <2>1. CASE entries[j] = st
    <3>1. entries'[j] = st
      BY <1>1, <2>1
    <3>2. Sharing(entries[j])' = Sharing(st) \cup {s}
      BY <1>7, <3>1 DEF Sharing, Live
    <3>3. j = k
      BY <1>1, <1>4, <2>1 DEF HoldingInv, StoresInv
    <3> QED
      BY <1>3, <1>4, <1>8, <3>1, <3>2, <3>3
  <2>2. CASE entries[j] # st
    <3>1. entries[j] \in Stores \ {st}
      BY <1>1, <1>11, <2>2 DEF Types, StoreTypes
    <3>2. Sharing(entries[j])' = Sharing(entries[j])
      BY <1>1, <1>2, <2>2 DEF Sharing, Live
    <3> QED
      BY <1>1, <1>3, <1>11, <3>1, <3>2 DEF HoldingInv, StoresInv, SessionsHoldOpenStores
  <2> QED
    BY <2>1, <2>2
<1>12. StoresInv'
  BY <1>9, <1>10, <1>11 DEF StoresInv, SessionsHoldOpenStores
<1>13. ClosedInv'
  BY <1>1, <1>2, <1>3 DEF HoldingInv, ClosedInv, Using, Live
<1>14. OpeningInv'
  BY <1>1 DEF OpeningInv
<1> QED
  BY <1>12, <1>13, <1>14 DEF HoldingInv

\* The last job of a request that opened a store has succeeded.
LEMMA AnswerHolds ==
    ASSUME Types, HoldingInv, ServeInv, Answer, Running
    PROVE  HoldingInv'
<1>1. loop.do \in {"open", "init", "request"} /\ loop' = Idle
  BY DEF Answer, Over, ServeInv, Running
<1>2. CASE loop.do = "request"
  BY <1>1, <1>2, StoresKept DEF Answer, Idle
<1>3. CASE loop.do \in {"open", "init"}
  <2> DEFINE s == loop.sess
             st == loop.st
             k == loop.key
  <2>1. /\ s \in Sessions /\ sessions[s].state = "fresh"
        /\ st \in Stores /\ stores[st].state = "open" /\ st # None
        /\ Using(st) = {}
        /\ k \in Keys /\ stores[st].key = k
        /\ loop.do = "open" => entries[k] = None
    BY <1>3, ServerAssumption DEF HoldingInv, OpeningInv
  <2>2. /\ sessions'[s].state = "live" /\ sessions'[s].st = st
        /\ sessions'[s].cached <=> loop.do = "open"
        /\ \A x \in Sessions \ {s} : sessions'[x] = sessions[x]
    BY <1>3, <2>1 DEF Answer, Types, SessionTypes
  <2>3. /\ \A x \in Stores \ {st} : stores'[x] = stores[x]
        /\ stores'[st].state = "open" /\ stores'[st].key = stores[st].key
        /\ loop.do = "open" => stores'[st].refs = 1
    BY <2>1 DEF Answer, Types, StoreTypes, StoreType
  <2>4. /\ loop.do = "open" => entries'[k] = st
        /\ \A j \in Keys : entries'[j] = entries[j] \/ (loop.do = "open" /\ j = k)
    BY <2>1 DEF Answer, Types, StoreTypes
  <2>5. \A j \in Keys : entries[j] # st
    <3> SUFFICES ASSUME NEW j \in Keys, entries[j] = st
                 PROVE  FALSE
      OBVIOUS
    <3>1. Sharing(st) # {}
      BY <2>1 DEF HoldingInv, StoresInv, SessionsHoldOpenStores
    <3> QED
      BY <2>1, <3>1 DEF Sharing, Using
  <2>6. \A x \in Sessions : Live(x) => sessions[x].st \in Stores \ {st}
    BY <2>1 DEF HoldingInv, StoresInv, Using
  <2> HIDE DEF s, st, k
  <2>7. \A x, z \in Sessions : Live(x)' /\ Live(z)' /\ sessions'[x].st = sessions'[z].st =>
            x = z \/ sessions'[x].cached
    BY <2>2, <2>6 DEF Live, HoldingInv, StoresInv
  <2>8. \A x \in Sessions : Live(x)' =>
            /\ sessions'[x].st \in Stores /\ stores'[sessions'[x].st].key \in Keys
            /\ stores'[sessions'[x].st].state = "open"
            /\ sessions'[x].cached => entries'[stores'[sessions'[x].st].key] = sessions'[x].st
    <3>1. \A x \in Sessions \ {s} : Live(x)' =>
             /\ Live(x) /\ sessions'[x] = sessions[x] /\ stores'[sessions[x].st] = stores[sessions[x].st]
             /\ sessions[x].st \in Stores \ {st}
      BY <2>2, <2>3, <2>6 DEF Live
    <3>2. \A x \in Sessions \ {s} : Live(x)' /\ sessions[x].cached =>
             entries[stores[sessions[x].st].key] = sessions[x].st /\ stores[sessions[x].st].key \in Keys
      BY <3>1 DEF HoldingInv, StoresInv, SessionsHoldOpenStores
    <3>3. \A x \in Sessions \ {s} : Live(x)' =>
             /\ stores'[sessions'[x].st].state = "open"
             /\ sessions'[x].cached => entries'[stores'[sessions'[x].st].key] = sessions'[x].st
      <4> TAKE x \in Sessions \ {s}
      <4> HAVE Live(x)'
      <4>1. stores[sessions[x].st].state = "open" /\ sessions[x].st # None
        BY <3>1, ServerAssumption DEF HoldingInv, StoresInv, SessionsHoldOpenStores
      <4> QED
        BY <2>1, <2>4, <3>1, <3>2, <4>1
    <3>4. /\ sessions'[s].st \in Stores /\ stores'[sessions'[s].st].key \in Keys
          /\ stores'[sessions'[s].st].state = "open"
          /\ sessions'[s].cached => entries'[stores'[sessions'[s].st].key] = sessions'[s].st
      BY <2>1, <2>2, <2>3, <2>4
    <3>5. \A x \in Sessions \ {s} : Live(x)' =>
             sessions'[x].st \in Stores /\ stores'[sessions'[x].st].key \in Keys
      BY <3>1 DEF HoldingInv, StoresInv
    <3> QED
      BY <3>3, <3>4, <3>5
  <2>9. ASSUME NEW j \in Keys, entries'[j] # None
        PROVE  /\ Sharing(entries[j])' # {}
               /\ stores'[entries'[j]].refs = Cardinality(Sharing(entries[j]))'
               /\ stores'[entries'[j]].key = j /\ IsFiniteSet(Sharing(entries[j])')
    <3>1. CASE loop.do = "open" /\ j = k
      <4>1. entries'[j] = st
        BY <2>4, <3>1
      <4>2. Sharing(entries[j])' = {s}
        <5>1. sessions'[s].state = "live" /\ sessions'[s].cached /\ sessions'[s].st = st
          BY <2>2, <3>1
        <5>2. \A x \in Sessions \ {s} : sessions'[x].state = "live" => sessions'[x].st # st
          BY <2>2, <2>6 DEF Live
        <5> QED
          BY <2>1, <4>1, <5>1, <5>2 DEF Sharing, Live
      <4> QED
        BY <2>1, <2>3, <3>1, <4>1, <4>2, FS_Singleton
    <3>2. CASE ~(loop.do = "open" /\ j = k)
      <4>1. entries'[j] = entries[j] /\ entries[j] # None /\ entries[j] \in Stores \ {st}
        BY <2>4, <2>5, <2>9, <3>2 DEF Types, StoreTypes
      <4>2. Sharing(entries[j])' = Sharing(entries[j])
        BY <2>1, <2>2, <4>1 DEF Sharing, Live
      <4> QED
        BY <2>3, <4>1, <4>2 DEF HoldingInv, StoresInv, SessionsHoldOpenStores
    <3> QED
      BY <3>1, <3>2
  <2>10. StoresInv'
    BY <2>7, <2>8, <2>9 DEF StoresInv, SessionsHoldOpenStores
  <2>11. ClosedInv'
    <3>1. \A x \in Stores : stores'[x].state = stores[x].state
      BY <2>1, <2>3
    <3>2. \A x \in Sessions : sessions'[x].state = "closed" =>
              sessions[x].state = "closed" /\ sessions'[x].st = sessions[x].st
      BY <2>2
    <3>3. \A x \in Sessions : sessions[x].state = "live" => sessions'[x] = sessions[x]
      BY <2>1, <2>2
    <3> QED
      BY <1>3, <3>1, <3>2, <3>3 DEF HoldingInv, ClosedInv, Using, Live
  <2> QED
    BY <1>1, <2>10, <2>11 DEF HoldingInv, OpeningInv, Idle
<1> QED
  BY <1>1, <1>2, <1>3

\* A request has failed: the store that it was opening is closed.
LEMMA AnswerErrorHolds ==
    ASSUME Types, HoldingInv, AnswerError,
           loop.do \in {"open", "init", "request"}
    PROVE  HoldingInv'
<1>1. loop' = Idle /\ UNCHANGED <<sessions, entries>>
  BY DEF AnswerError
<1>2. CASE UNCHANGED stores
  BY <1>1, <1>2, StoresKept DEF Idle
<1>3. CASE ~UNCHANGED stores
  <2>1. /\ loop.st \in Stores /\ Using(loop.st) = {}
        /\ stores' = [stores EXCEPT ![loop.st] = CloseStore(loop.st)]
    BY <1>3 DEF AnswerError, HoldingInv, OpeningInv
  <2>2. /\ \A x \in Stores \ {loop.st} : stores'[x] = stores[x]
        /\ stores'[loop.st].state = "closed"
    BY <2>1 DEF CloseStore, Types, StoreTypes, StoreType
  <2>3. StoresInv'
    BY <1>1, <2>1, <2>2, FreeStore DEF HoldingInv
  <2>4. ClosedInv'
    BY <1>1, <2>1, <2>2 DEF HoldingInv, ClosedInv, Using, Live
  <2> QED
    BY <1>1, <2>3, <2>4 DEF HoldingInv, OpeningInv, Idle
<1> QED
  BY <1>2, <1>3

\* A session goes.  Whoever has a store of its own, or the last reference of a
\* shared one, is the only session on it.
LEMMA LastIsAlone ==
    ASSUME Types, HoldingInv, NEW s \in Sessions, Live(s),
           ~sessions[s].cached \/ stores[sessions[s].st].refs = 1
    PROVE  /\ Using(sessions[s].st) = {s}
           /\ \A k \in Keys : entries[k] = sessions[s].st =>
                  sessions[s].cached /\ k = stores[sessions[s].st].key
<1> DEFINE st == sessions[s].st
<1>1. st \in Stores /\ st # None
  BY ServerAssumption DEF HoldingInv, StoresInv
<1>2. ASSUME NEW x \in Using(st)
      PROVE  x = s
  <2>1. x \in Sessions /\ Live(x) /\ sessions[x].st = st
    BY <1>2 DEF Using
  <2>2. CASE ~sessions[s].cached
    BY <2>1, <2>2 DEF HoldingInv, StoresInv
  <2>3. CASE sessions[s].cached
    <3>1. /\ entries[stores[st].key] = st /\ stores[st].key \in Keys
      BY <2>3 DEF HoldingInv, StoresInv, SessionsHoldOpenStores
    <3>2. Cardinality(Sharing(st)) = 1 /\ IsFiniteSet(Sharing(st))
      BY <1>1, <2>3, <3>1 DEF HoldingInv, StoresInv, SessionsHoldOpenStores
    <3>3. PICK y : Sharing(st) = {y}
      BY <3>2, FS_Singleton
    <3>4. x # s => x \in Sharing(st) /\ s \in Sharing(st)
      BY <2>1, <2>3 DEF HoldingInv, StoresInv, Sharing
    <3> QED
      BY <3>3, <3>4
  <2> QED
    BY <2>2, <2>3
<1>3. ASSUME NEW k \in Keys, entries[k] = st
      PROVE  sessions[s].cached /\ k = stores[st].key
  <2>1. PICK x \in Sessions : Live(x) /\ sessions[x].cached /\ sessions[x].st = st
    <3>1. Sharing(entries[k]) # {}
      BY <1>1, <1>3 DEF HoldingInv, StoresInv, SessionsHoldOpenStores
    <3> QED
      BY <1>3, <3>1 DEF Sharing
  <2>2. x = s
    BY <1>2, <2>1 DEF Using
  <2> QED
    BY <1>1, <1>3, <2>1, <2>2 DEF HoldingInv, StoresInv
<1> QED
  BY <1>2, <1>3 DEF Using

\* A step that closes sessions and opens none keeps what holds of the others.
LEMMA FewerSessions ==
    ASSUME Types, HoldingInv, loop.do = "idle", loop'.do = "idle",
           NEW s \in Sessions, Live(s), NEW st \in Stores, st = sessions[s].st,
           sessions' = [sessions EXCEPT ![s].state = "closed"],
           \A x \in Stores \ {st} : stores'[x] = stores[x],
           \/ stores'[st].state = "closed" /\ Using(st) = {s}
           \/ stores'[st].state = stores[st].state /\ Using(st) # {s}
    PROVE  ClosedInv'
<1>1. /\ sessions'[s].state = "closed" /\ sessions'[s].st = st
      /\ \A x \in Sessions \ {s} : sessions'[x] = sessions[x]
  BY DEF Types, SessionTypes
<1>2. \A x \in Sessions \ {s} : x \in Using(sessions[x].st) => x \in Using(sessions[x].st)'
  BY <1>1 DEF Using, Live
<1>3. s \in Using(st)
  BY DEF Using
<1>4. ASSUME NEW x \in Sessions, sessions'[x].state = "closed", sessions'[x].st # st
      PROVE  /\ sessions'[x].st \in Stores
             /\ stores'[sessions'[x].st].state = "closed" \/ Using(sessions[x].st)' # {}
  <2>1. sessions'[x] = sessions[x] /\ sessions[x].state = "closed" /\ sessions[x].st # st
    BY <1>1, <1>4
  <2>2. sessions[x].st \in Stores /\ (stores[sessions[x].st].state = "closed" \/ Using(sessions[x].st) # {})
    BY <2>1 DEF HoldingInv, ClosedInv
  <2>3. ASSUME NEW y \in Using(sessions[x].st)
        PROVE  y \in Using(sessions[x].st)'
    BY <1>1, <2>1, <2>3 DEF Using, Live
  <2> QED
    BY <2>1, <2>2, <2>3
<1>5. stores'[st].state = "closed" \/ \E y \in Sessions \ {s} : sessions'[y].state = "live" /\ sessions'[y].st = st
  BY <1>1, <1>3 DEF Using, Live
<1> QED
  BY <1>1, <1>4, <1>5 DEF ClosedInv, Using, Live

LEMMA CloseHolds ==
    ASSUME Types, HoldingInv, NEW s \in Sessions, Close(s)
    PROVE  HoldingInv'
<1> DEFINE st == sessions[s].st
           last == ~sessions[s].cached \/ stores[st].refs = 1
<1>1. /\ Live(s) /\ st \in Stores /\ st # None /\ loop.do = "idle" /\ loop' = loop
      /\ stores[st].key \in Keys
      /\ sessions' = [sessions EXCEPT ![s].state = "closed"]
  BY ServerAssumption DEF Close, HoldingInv, StoresInv
<1>2. /\ sessions'[s].state = "closed" /\ sessions'[s].st = st
      /\ \A x \in Sessions \ {s} : sessions'[x] = sessions[x]
  BY <1>1 DEF Types, SessionTypes
<1>3. OpeningInv'
  BY <1>1 DEF OpeningInv
<1>4. CASE last
  <2>1. /\ Using(st) = {s}
        /\ \A k \in Keys : entries[k] = st => sessions[s].cached /\ k = stores[st].key
    BY <1>1, <1>4, LastIsAlone
  <2>2. /\ stores'[st].state = "closed"
        /\ \A x \in Stores \ {st} : stores'[x] = stores[x]
    BY <1>1, <1>4 DEF Close, CloseStore, Types, StoreTypes, StoreType
  <2>3. \A k \in Keys : /\ entries'[k] # st
                        /\ entries'[k] = entries[k] \/ entries'[k] = None
    BY <1>1, <1>4, <2>1 DEF Close, Types, StoreTypes
  <2>4. \A k \in Keys : entries[k] # None /\ entries[k] # st => entries'[k] = entries[k]
    <3> SUFFICES ASSUME NEW k \in Keys, entries[k] # st, entries'[k] # entries[k]
                 PROVE  entries[k] = None
      OBVIOUS
    <3>1. sessions[s].cached /\ k = stores[st].key
      BY <1>1 DEF Close, Types, StoreTypes
    <3>2. entries[k] = st
      BY <1>1, <3>1 DEF HoldingInv, StoresInv, SessionsHoldOpenStores
    <3> QED
      BY <3>2
  <2>5. ClosedInv'
    BY <1>1, <2>1, <2>2, FewerSessions
  <2> HIDE DEF st, last
  <2>6. \A x \in Sessions : Live(x)' =>
            Live(x) /\ sessions'[x] = sessions[x] /\ sessions[x].st \in Stores \ {st}
    BY <1>2, <2>1 DEF Live, Using, HoldingInv, StoresInv
  <2>7. \A x, z \in Sessions : Live(x)' /\ Live(z)' /\ sessions'[x].st = sessions'[z].st =>
            x = z \/ sessions'[x].cached
    BY <2>6 DEF HoldingInv, StoresInv
  <2>8. ASSUME NEW x \in Sessions, Live(x)'
        PROVE  /\ sessions'[x].st \in Stores /\ stores'[sessions'[x].st].key \in Keys
               /\ stores'[sessions'[x].st].state = "open"
               /\ sessions'[x].cached => entries'[stores'[sessions'[x].st].key] = sessions'[x].st
    <3>1. /\ sessions'[x] = sessions[x] /\ stores'[sessions[x].st] = stores[sessions[x].st]
          /\ sessions[x].st \in Stores \ {st} /\ Live(x)
      BY <2>2, <2>6, <2>8
    <3>2. sessions[x].st # None
      BY <3>1, ServerAssumption
    <3>3. /\ stores[sessions[x].st].key \in Keys /\ stores[sessions[x].st].state = "open"
          /\ sessions[x].cached => entries[stores[sessions[x].st].key] = sessions[x].st
      BY <3>1 DEF HoldingInv, StoresInv, SessionsHoldOpenStores
    <3> QED
      BY <2>4, <3>1, <3>2, <3>3
  <2>9. ASSUME NEW k \in Keys, entries'[k] # None
        PROVE  /\ Sharing(entries[k])' # {}
               /\ stores'[entries'[k]].refs = Cardinality(Sharing(entries[k]))'
               /\ stores'[entries'[k]].key = k /\ IsFiniteSet(Sharing(entries[k])')
    <3>1. entries'[k] = entries[k] /\ entries[k] \in Stores \ {st}
      BY <2>3, <2>9 DEF Types, StoreTypes
    <3>2. Sharing(entries[k])' = Sharing(entries[k])
      <4>1. \A x \in Sessions : x # s \/ sessions[x].st = st
        BY DEF st
      <4> QED
        BY <1>2, <3>1, <4>1 DEF Sharing, Live
    <3> QED
      BY <2>2, <2>9, <3>1, <3>2 DEF HoldingInv, StoresInv, SessionsHoldOpenStores
  <2>10. StoresInv'
    BY <2>7, <2>8, <2>9 DEF StoresInv, SessionsHoldOpenStores
  <2> QED
    BY <1>3, <2>5, <2>10 DEF HoldingInv
<1>5. CASE ~last
  <2>1. /\ stores'[st].state = stores[st].state /\ stores'[st].key = stores[st].key
        /\ stores'[st].refs = stores[st].refs - 1
        /\ \A x \in Stores \ {st} : stores'[x] = stores[x]
        /\ entries' = entries
    BY <1>1, <1>5 DEF Close, Types, StoreTypes, StoreType
  <2>2. /\ entries[stores[st].key] = st
        /\ stores[st].refs = Cardinality(Sharing(st)) /\ IsFiniteSet(Sharing(st))
        /\ s \in Sharing(st)
    <3>1. s \in Sharing(st)
      BY <1>1, <1>5 DEF Sharing
    <3>2. entries[stores[st].key] = st
      BY <1>1, <1>5 DEF HoldingInv, StoresInv, SessionsHoldOpenStores
    <3>3. stores[st].refs = Cardinality(Sharing(st)) /\ IsFiniteSet(Sharing(st))
      BY <1>1, <3>2 DEF HoldingInv, StoresInv, SessionsHoldOpenStores
    <3> QED
      BY <3>1, <3>2, <3>3
  <2>3. /\ IsFiniteSet(Sharing(st) \ {s})
        /\ Cardinality(Sharing(st) \ {s}) = Cardinality(Sharing(st)) - 1
    BY <2>2, FS_RemoveElement
  <2>4. Sharing(st) \ {s} # {}
    <3> SUFFICES ASSUME Sharing(st) \ {s} = {}
                 PROVE  FALSE
      OBVIOUS
    <3>1. Sharing(st) = {s}
      BY <2>2
    <3> QED
      BY <1>5, <2>2, <3>1, FS_Singleton
  <2>5. ClosedInv'
    <3>1. Using(st) # {s}
      BY <2>4 DEF Using, Sharing
    <3> QED
      BY <1>1, <2>1, <3>1, FewerSessions
  <2>6. \A x \in Sessions : Live(x)' => x # s /\ Live(x) /\ sessions'[x] = sessions[x]
    BY <1>2 DEF Live
  <2>7. ASSUME NEW k \in Keys, entries'[k] # None
        PROVE  /\ Sharing(entries[k])' # {}
               /\ stores'[entries'[k]].refs = Cardinality(Sharing(entries[k]))'
               /\ stores'[entries'[k]].key = k /\ IsFiniteSet(Sharing(entries[k])')
    <3>1. entries'[k] = entries[k] /\ entries[k] \in Stores /\ entries[k] # None
      BY <2>1, <2>7 DEF Types, StoreTypes
    <3>2. CASE entries[k] = st
      <4>1. Sharing(entries[k])' = Sharing(st) \ {s}
        BY <1>2, <3>1, <3>2 DEF Sharing, Live
      <4> QED
        BY <2>1, <2>2, <2>3, <2>4, <3>1, <3>2, <4>1 DEF HoldingInv, StoresInv
    <3>3. CASE entries[k] # st
      <4>1. Sharing(entries[k])' = Sharing(entries[k])
        BY <1>2, <3>1, <3>3 DEF Sharing, Live
      <4> QED
        BY <2>1, <3>1, <3>3, <4>1 DEF HoldingInv, StoresInv, SessionsHoldOpenStores
    <3> QED
      BY <3>2, <3>3
  <2> HIDE DEF st, last
  <2>8. StoresInv'
    <3>1. \A x \in Sessions : Live(x)' =>
              /\ stores'[sessions'[x].st].state = "open"
              /\ sessions'[x].cached => entries'[stores'[sessions'[x].st].key] = sessions'[x].st
              /\ sessions'[x].st \in Stores /\ stores'[sessions'[x].st].key \in Keys
      BY <1>1, <2>1, <2>6 DEF HoldingInv, StoresInv, SessionsHoldOpenStores
    <3>2. \A x, y \in Sessions : Live(x)' /\ Live(y)' /\ sessions'[x].st = sessions'[y].st =>
              x = y \/ sessions'[x].cached
      BY <2>6 DEF HoldingInv, StoresInv
    <3> QED
      BY <2>7, <3>1, <3>2 DEF StoresInv, SessionsHoldOpenStores
  <2> QED
    BY <1>3, <2>5, <2>8 DEF HoldingInv
<1> QED
  BY <1>4, <1>5

\* The maps are emptied; the stores of the sessions are to be closed.
LEMMA CloseAllHolds ==
    ASSUME Types, HoldingInv, CloseAll
    PROVE  HoldingInv'
<1>1. /\ loop.do = "idle" /\ loop'.do = "closing"
      /\ loop'.sts = {sessions[x].st : x \in {y \in Sessions : Live(y)}}
      /\ \A k \in Keys : entries'[k] = None
      /\ stores' = stores
  BY DEF CloseAll, Idle
<1>2. \A s \in Sessions : /\ ~Live(s)'
                          /\ sessions'[s].st = sessions[s].st
                          /\ sessions'[s].state = "closed" => sessions[s].state = "closed" \/ Live(s)
  BY DEF CloseAll, Live, Types, SessionTypes
<1>3. StoresInv'
  BY <1>1, <1>2 DEF StoresInv, SessionsHoldOpenStores
<1>4. ClosedInv'
  <2> SUFFICES ASSUME NEW s \in Sessions, sessions'[s].state = "closed"
               PROVE  /\ sessions'[s].st \in Stores
                      /\ stores'[sessions'[s].st].state = "closed" \/ sessions'[s].st \in loop'.sts
    BY <1>1 DEF ClosedInv
  <2>1. CASE Live(s)
    BY <1>1, <1>2, <2>1 DEF HoldingInv, StoresInv
  <2>2. CASE ~Live(s)
    <3>1. /\ sessions[s].st \in Stores
          /\ stores[sessions[s].st].state = "closed" \/ Using(sessions[s].st) # {}
      BY <1>1, <1>2, <2>2 DEF HoldingInv, ClosedInv
    <3> QED
      BY <1>1, <1>2, <3>1 DEF Using
  <2> QED
    BY <2>1, <2>2
<1> QED
  BY <1>1, <1>3, <1>4 DEF HoldingInv, OpeningInv

LEMMA EndProcessHolds ==
    ASSUME Types, HoldingInv, EndInv, EndProcess
    PROVE  HoldingInv'
<1>1. /\ loop.do = "closing" /\ loop'.do = "ended"
      /\ sessions' = sessions /\ entries' = entries
      /\ \A s \in Sessions : ~Live(s)
      /\ \A k \in Keys : entries[k] = None
  BY DEF EndProcess, Idle, EndInv
<1>2. \A st \in Stores :
          stores'[st].state = IF st \in loop.sts THEN "closed" ELSE stores[st].state
  BY DEF EndProcess, CloseStore, Types, StoreTypes, StoreType
<1>3. StoresInv'
  BY <1>1 DEF StoresInv, SessionsHoldOpenStores, Live
<1>4. ClosedInv'
  BY <1>1, <1>2 DEF HoldingInv, ClosedInv, Using, Live
<1> QED
  BY <1>1, <1>3, <1>4 DEF HoldingInv, OpeningInv

LEMMA HoldingNext ==
    ASSUME Types, ServeInv, EndInv, HoldingInv, [Next]_vars
    PROVE  HoldingInv'
<1>1. ASSUME NEW st, stores' = Reset(st)
      PROVE  \A x \in Stores : /\ stores'[x].state = stores[x].state
                               /\ stores'[x].key = stores[x].key
                               /\ stores'[x].refs = stores[x].refs
  BY <1>1 DEF Reset, Types, StoreTypes, StoreType
<1>2. ASSUME NEW a \in Actors, Lock(a) \/ JobStep(a)
      PROVE  HoldingInv'
  <2>1. /\ UNCHANGED <<loop, sessions, entries>>
        /\ UNCHANGED stores \/ stores' = Reset(act[a].st)
    BY <1>2 DEF Lock, JobStep, Connect, Trouble, Execute, Retry
  <2> QED
    BY <1>1, <2>1, StoresKept
<1>3. ASSUME NEW t \in Txs, TxStep(t)
      PROVE  HoldingInv'
  <2>1. /\ UNCHANGED <<sessions, entries>>
        /\ UNCHANGED stores \/ stores' = Reset(act[t].st)
        /\ UNCHANGED loop \/ loop' = [loop EXCEPT !.do = "crashed"]
    BY <1>3 DEF TxStep, EnterBody, LeaveBody, StartVersion, Report, Retry
  <2>2. loop' = loop \/ loop'.do = "crashed"
    BY <2>1 DEF Types, LoopTypes
  <2> QED
    BY <1>1, <2>1, <2>2, StoresKept
<1>4. ASSUME NEW s \in Sessions, NEW k \in Keys, Open(s, k)
      PROVE  HoldingInv'
  <2>1. CASE Share(s, k)
    BY <1>4, <2>1, ShareHolds DEF Open
  <2>2. ASSUME NEW st \in Stores, OpenNew(s, k, st)
        PROVE  HoldingInv'
    BY <1>4, <2>2, NewStore DEF Open, OpenNew, Idle
  <2> QED
    BY <1>4, <2>1, <2>2 DEF Open
<1>5. ASSUME NEW s \in Sessions, NEW k \in Keys, NEW st \in Stores, InitDatabase(s, k, st)
      PROVE  HoldingInv'
  BY <1>5, NewStore DEF InitDatabase, Idle
<1>6. ASSUME NEW s \in Sessions, NEW jobs \in RequestJobs, Request(s, jobs)
      PROVE  HoldingInv'
  BY <1>6, StoresKept DEF Request, Idle
<1>7. ASSUME NEW s \in Sessions, NEW t \in Txs, NEW msg \in BOOLEAN, Begin(s, t, msg)
      PROVE  HoldingInv'
  BY <1>7, StoresKept DEF Begin, Idle
<1>8. ASSUME NEW t \in Txs,
             (\E written \in TxEffects : TxWrite(t, written))
             \/ (\E d \in {"commit", "rollback"} : Finish(t, d))
      PROVE  HoldingInv'
  BY <1>8, StoresKept DEF TxWrite, Finish, Idle
<1>9. CASE ClientStep
  BY <1>4, <1>5, <1>6, <1>7, <1>8, <1>9, CloseHolds, CloseAllHolds DEF ClientStep
<1>10. CASE StartJob \/ JobDone
  <2>1. /\ UNCHANGED <<sessions, entries, stores>>
        /\ loop' = loop \/ loop' = [loop EXCEPT !.jobs = Tail(@)]
    BY <1>10 DEF StartJob, JobDone
  <2>2. /\ loop'.do = loop.do /\ loop'.sess = loop.sess /\ loop'.st = loop.st
        /\ loop'.key = loop.key /\ loop'.sts = loop.sts
    BY <2>1 DEF Types, LoopTypes
  <2> QED
    BY <2>1, <2>2, StoresKept
<1>11. CASE AnswerError
  <2>1. loop.do # "crashed" => loop.do \in {"open", "init", "request"}
    BY <1>11 DEF AnswerError, ServeInv
  <2> QED
    BY <1>11, <2>1, AnswerErrorHolds DEF AnswerError, ServeInv
<1>12. CASE AnswerBegin \/ AnswerFinish
  BY <1>12, StoresKept DEF AnswerBegin, AnswerFinish, Idle
<1>13. CASE RolledBack \/ \E t \in Txs : RollBackNext(t)
  <2>1. /\ UNCHANGED <<sessions, entries, stores>>
        /\ loop.do = "closing" /\ loop'.do = "closing" /\ loop'.sts = loop.sts
    BY <1>13 DEF RolledBack, RollBackNext, Types, LoopTypes
  <2> QED
    BY <2>1, StoresKept
<1>14. CASE Running /\ ServeStep
  BY <1>10, <1>11, <1>12, <1>13, <1>14, AnswerHolds, EndProcessHolds DEF ServeStep
<1>15. CASE OtherLocks \/ OtherUnlocks \/ UNCHANGED vars
  BY <1>15, StoresKept DEF OtherLocks, OtherUnlocks, vars
<1> QED
  BY <1>2, <1>3, <1>9, <1>14, <1>15 DEF Next

------------------------------------------------------------------------------
(* The theorems *)

LEMMA ServerInit == Init => ServerInv
<1> SUFFICES ASSUME Init
             PROVE  ServerInv
  OBVIOUS
<1>1. Types
  <2>1. LoopTypes
    BY DEF Init, LoopTypes, Idle, Modes
  <2>2. SessionTypes
    BY DEF Init, SessionTypes
  <2>3. StoreTypes
    BY DEF Init, StoreTypes, StoreType
  <2>4. ActTypes
    <3>1. Out \in ActType({"read"})
      BY DEF Out, ActType
    <3>2. \A a \in Actors : Out \in ActType({act[b].job : b \in Actors})
      BY <3>1 DEF Init, ActType, Out
    <3> QED
      BY <3>2 DEF Init, ActTypes
  <2>5. TxTypes
    <3>1. NoTx \in TxType
      BY DEF NoTx, TxType, Results
    <3> QED
      BY <3>1 DEF Init, TxTypes
  <2> QED
    BY <2>1, <2>2, <2>3, <2>4, <2>5 DEF Types
<1>2. \A a \in Actors : act[a] = Out /\ Out.pc = "out"
  BY DEF Init, Out
<1>3. LockInv
  BY <1>2, ServerAssumption DEF LockInv, Holds, Init
<1>4. ServeInv
  BY <1>2 DEF ServeInv, Init, Idle
<1>5. TxInv
  BY <1>2 DEF TxInv, RunningTx, ReportedTx, ListedTx, TxOpen, Its, Init, NoTx
<1>6. EndInv
  BY <1>2 DEF EndInv, TxOpen, Init, Idle
<1>7. HoldingInv
  BY DEF HoldingInv, StoresInv, SessionsHoldOpenStores, OpeningInv, ClosedInv, Live, Init, Idle
<1> QED
  BY <1>1, <1>3, <1>4, <1>5, <1>6, <1>7 DEF ServerInv

LEMMA ServerNext == ServerInv /\ [Next]_vars => ServerInv'
<1> SUFFICES ASSUME ServerInv, [Next]_vars
             PROVE  ServerInv'
  OBVIOUS
<1> USE DEF ServerInv
<1>1. Types'
  BY TypesNext
<1>2. LockInv' /\ ServeInv'
  BY LockNext, ServeNext
<1>3. TxInv'
  BY TxNext
<1>4. EndInv'
  BY EndNext
<1>5. HoldingInv'
  BY HoldingNext
<1> QED
  BY <1>1, <1>2, <1>3, <1>4, <1>5

\* The process keeps track of its locks, transactions and stores through every
\* order of requests, failures, retries and steps of other processes.
THEOREM ServerInvariant == Spec => []ServerInv
<1> QED
  BY ServerInit, ServerNext, PTL DEF Spec

\* What a client is told of its transaction is what is in the database
\* (RunInTransaction, finish, PostTransactionCommitError).
THEOREM AnswersTheorem == Spec => []AnswersAreTrue
<1>1. ServerInv => AnswersAreTrue
  <2> SUFFICES ASSUME ServerInv, NEW t \in Txs, txs[t].answer # "none"
               PROVE  Told(t, txs[t].answer)
    BY DEF AnswersAreTrue, Told, Its, All, Versioned
  <2> QED
    BY DEF ServerInv, TxInv, ReportedTx
<1> QED
  BY <1>1, ServerInvariant, PTL

\* One writer at a time on the data directory, in this process or another
\* (withExclusiveLock around withConn and withDBWrite).
THEOREM OneWriterTheorem == Spec => []OneWriter
<1>1. ServerInv => OneWriter
  <2> SUFFICES ASSUME ServerInv
               PROVE  \A a \in Actors \cup {Other} : Writing(a) => flock = a
    BY DEF OneWriter
  <2> QED
    BY DEF ServerInv, LockInv, Holds, Writing
<1> QED
  BY <1>1, ServerInvariant, PTL

\* A session works on an open store and a shared store counts its sessions
\* (Manager.open, Close, releaseCachedStore).
THEOREM SessionsTheorem == Spec => []SessionsHoldOpenStores
<1>1. ServerInv => SessionsHoldOpenStores
  BY DEF ServerInv, HoldingInv, StoresInv
<1> QED
  BY <1>1, ServerInvariant, PTL

\* A process that ended in order left no transaction open, no lock held and no
\* session's store open (CloseAll).
THEOREM EndsTheorem == Spec => []EndsClean
<1>1. ServerInv => EndsClean
  <2> SUFFICES ASSUME ServerInv, loop.do = "ended"
               PROVE  /\ \A t \in Txs : ~TxOpen(t)
                      /\ flock \notin Actors
                      /\ \A s \in Sessions : ~Live(s)
                      /\ \A s \in Sessions : sessions[s].state = "closed" =>
                             stores[sessions[s].st].state = "closed"
    BY DEF EndsClean
  <2>1. \A t \in Txs : ~TxOpen(t)
    BY DEF ServerInv, EndInv
  <2>2. \A s \in Sessions : ~Live(s)
    BY DEF ServerInv, EndInv
  <2>3. \A a \in Actors : act[a].pc = "out"
    BY <2>1 DEF ServerInv, ServeInv, TxOpen
  <2>4. flock \notin Actors
    BY <2>3 DEF ServerInv, LockInv, Holds
  <2>5. \A s \in Sessions : sessions[s].state = "closed" => stores[sessions[s].st].state = "closed"
    BY <2>2 DEF ServerInv, HoldingInv, ClosedInv, Using
  <2> QED
    BY <2>1, <2>2, <2>4, <2>5
<1> QED
  BY <1>1, ServerInvariant, PTL

------------------------------------------------------------------------------
(* Refinement: the process implements TransactionStore. *)

\* What happened to a transaction is what its client or the end of the process asked for.
DecidedTx(t) ==
    /\ TxOpen(t) /\ Committed(t) => txs[t].decision = "commit"
    /\ TxOpen(t) /\ act[t].job = "version" => txs[t].msg
    /\ act[t].pc = "done" /\ act[t].result = "rolledBack" => txs[t].decision = "rollback"
    /\ txs[t].finished \in {"ok", "unversioned"} => txs[t].decision = "commit"
    /\ txs[t].finished = "unversioned" => txs[t].msg
    /\ txs[t].finished = "rolledBack" => txs[t].decision = "rollback"
    /\ loop.do = "closing" /\ t \in loop.txs => txs[t].decision = "none"

DecidedInv == (\A t \in Txs : DecidedTx(t)) /\ history \subseteq table

\* A step that moves no goroutine and ends no transaction.
LEMMA DecidedKept ==
    ASSUME NEW t \in Txs, DecidedTx(t), act'[t] = act[t] \/ act'[t].pc = "out",
           txs'[t].msg = txs[t].msg, txs'[t].finished = txs[t].finished,
           txs'[t].decision \in {txs[t].decision} \/ txs[t].decision = "none",
           loop'.do = "closing" /\ t \in loop'.txs =>
               /\ txs'[t].decision = txs[t].decision
               /\ \/ loop.do = "closing" /\ t \in loop.txs
                  \/ txs[t].decision = "none"
    PROVE  DecidedTx(t)'
<1>1. TxOpen(t)' => TxOpen(t) /\ act'[t] = act[t]
  BY DEF TxOpen
<1>2. txs'[t].decision = txs[t].decision \/ txs[t].decision = "none"
  OBVIOUS
<1>3. act'[t].pc = "done" => act'[t] = act[t] /\ act[t].pc = "done"
  OBVIOUS
<1> QED
  BY <1>1, <1>2, <1>3 DEF DecidedTx, Committed


LEMMA HistoryKept ==
    history \subseteq table /\ [Next]_vars => history' \subseteq table' /\ table \subseteq table'
                                              /\ history \subseteq history'
<1> SUFFICES ASSUME history \subseteq table, [Next]_vars
             PROVE  history' \subseteq table' /\ table \subseteq table' /\ history \subseteq history'
  OBVIOUS
<1>1. CASE UNCHANGED <<table, history>>
  BY <1>1
<1>2. CASE table' = table /\ \E j : history' = history \cup Staged(j)
  BY <1>2 DEF Staged
<1>3. CASE history' = history /\ table \subseteq table'
  BY <1>3
<1>4. ASSUME NEW a \in Actors, Lock(a) \/ JobStep(a)
      PROVE  \/ UNCHANGED <<table, history>>
             \/ table' = table /\ \E j : history' = history \cup Staged(j)
  BY <1>4 DEF Lock, JobStep, Connect, Trouble, Execute
<1>5. ASSUME NEW t \in Txs, TxStep(t)
      PROVE  history' = history /\ table \subseteq table'
  BY <1>5 DEF TxStep, EnterBody, LeaveBody, StartVersion, Report
<1>6. CASE ClientStep
  BY <1>1, <1>6 DEF ClientStep, Open, InitDatabase, Request, Close, Begin, TxWrite, Finish, CloseAll
<1>7. CASE ServeStep
  BY <1>1, <1>7 DEF ServeStep, StartJob, JobDone, Answer, AnswerError, AnswerBegin, AnswerFinish,
                    RolledBack, EndProcess, RollBackNext
<1>8. CASE OtherLocks \/ OtherUnlocks
  BY <1>1, <1>2, <1>8 DEF OtherLocks, OtherUnlocks
<1>9. CASE UNCHANGED vars
  BY <1>1, <1>9 DEF vars
<1> QED
  BY <1>1, <1>2, <1>3, <1>4, <1>5, <1>6, <1>7, <1>8, <1>9 DEF Next

\* A step that leaves the records of the transactions alone.
LEMMA RestDecided ==
    ASSUME \A t \in Txs : DecidedTx(t), txs' = txs,
           \A t \in Txs : act'[t] = act[t] \/ act'[t].pc = "out",
           loop'.do = "closing" => loop.do = "closing" /\ loop'.txs \subseteq loop.txs
    PROVE  \A t \in Txs : DecidedTx(t)'
BY DecidedKept

LEMMA JobDecided ==
    ASSUME Types, \A t \in Txs : DecidedTx(t), NEW a \in Actors, Lock(a) \/ JobStep(a)
    PROVE  \A t \in Txs : DecidedTx(t)'
<1>1. /\ loop' = loop /\ txs' = txs
      /\ \A b \in Actors \ {a} : act'[b] = act[b]
  <2>1. act \in [Actors -> ActType({act[b].job : b \in Actors})]
    BY DEF Types, ActTypes
  <2> QED
    BY <2>1, LeftActor DEF Lock, JobStep, Connect, Trouble, Execute
<1>2. \A t \in Txs : t # a => DecidedTx(t)'
  BY <1>1, DecidedKept
<1>3. ASSUME a \in Txs
      PROVE  DecidedTx(a)'
  <2>1. DecidedTx(a) /\ TxOpen(a)
    BY <1>3, JobMoves DEF TxOpen
  <2>2. TxOpen(a)' /\ (Committed(a)' => Committed(a))
    BY <1>3, JobMoves DEF TxOpen, Committed
  <2>3. act'[a].pc = "done" => act'[a].result # "rolledBack"
    BY <1>3, JobMoves
  <2>4. act'[a].job = act[a].job
    BY <1>3, JobMoves
  <2> QED
    BY <1>1, <2>1, <2>2, <2>3, <2>4 DEF DecidedTx
<1> QED
  BY <1>2, <1>3

LEMMA TxDecided ==
    ASSUME Types, TxInv, \A x \in Txs : DecidedTx(x), NEW t \in Txs, TxStep(t), Running
    PROVE  \A x \in Txs : DecidedTx(x)'
<1>1. TxTypes /\ LoopTypes /\ act \in [Actors -> ActType({act[b].job : b \in Actors})]
  BY DEF Types, ActTypes
<1>2. CASE EnterBody(t)
  <2>1. CASE txs[t].ready
    <3>1. loop'.do = "crashed" /\ txs' = txs /\ \A x \in Txs : act'[x].pc = "out"
      BY <1>1, <1>2, <2>1 DEF EnterBody, LoopTypes, Out
    <3> QED
      BY <3>1, RestDecided
  <2>2. CASE ~txs[t].ready
    <3>1. /\ loop' = loop /\ act'[t].pc = "body" /\ act'[t].job = "sql"
          /\ \A x \in Txs \ {t} : act'[x] = act[x] /\ txs'[x] = txs[x]
      BY <1>1, <1>2, <2>2 DEF EnterBody, ActType, TxTypes
    <3>2. txs'[t] = [txs[t] EXCEPT !.ready = TRUE]
      BY <1>1, <1>2, <2>2 DEF EnterBody, TxTypes
    <3>3. /\ txs'[t].finished = txs[t].finished /\ txs'[t].msg = txs[t].msg
          /\ txs'[t].decision = txs[t].decision
      BY <1>1, <3>2 DEF TxTypes, TxType
    <3>4. \A x \in Txs \ {t} : DecidedTx(x)'
      BY <3>1, DecidedKept
    <3>5. DecidedTx(t)'
      BY <3>1, <3>3 DEF DecidedTx, Committed
    <3> QED
      BY <3>4, <3>5
  <2> QED
    BY <2>1, <2>2
<1>3. CASE LeaveBody(t)
  <2>1. loop' = loop /\ txs' = txs /\ \A x \in Txs \ {t} : act'[x] = act[x]
    BY <1>3, LeftActor DEF LeaveBody
  <2>2. /\ act'[t].job = act[t].job /\ act[t].job = "sql"
        /\ \/ act'[t].pc = "connect"
           \/ act'[t].pc = "done" /\ act'[t].result = "rolledBack" /\ txs[t].decision = "rollback"
           \/ act'[t].pc = "done" /\ act'[t].result = "failed"
           \/ act'[t].pc = "done" /\ act'[t].result = "ok" /\ txs[t].decision = "commit"
    BY <1>3, LeftActor DEF LeaveBody, TxInv, RunningTx, TxOpen
  <2>3. DecidedTx(t)'
    BY <2>1, <2>2 DEF DecidedTx, Committed
  <2> QED
    BY <2>1, <2>3, DecidedKept
<1>4. CASE StartVersion(t)
  <2>1. /\ loop' = loop /\ txs' = txs /\ \A x \in Txs \ {t} : act'[x] = act[x]
        /\ act'[t].pc = "lock" /\ TxOpen(t) /\ Committed(t) /\ txs[t].msg
    BY <1>1, <1>4 DEF StartVersion, Start, Out, Locking, Kind, TxOpen, Committed, WantsVersion
  <2>2. DecidedTx(t)'
    BY <2>1 DEF DecidedTx
  <2> QED
    BY <2>1, <2>2, DecidedKept
<1>5. CASE Report(t)
  <2> DEFINE r == IF act[t].job = "version" /\ act[t].result = "failed"
                  THEN "unversioned" ELSE act[t].result
  <2>1. /\ loop' = loop /\ act'[t].pc = "out" /\ txs'[t].finished = r
        /\ txs'[t].msg = txs[t].msg /\ txs'[t].decision = txs[t].decision
        /\ \A x \in Txs \ {t} : act'[x] = act[x] /\ txs'[x] = txs[x]
    BY <1>1, <1>5 DEF Report, Out, TxTypes, TxType
  <2>2. TxOpen(t) /\ act[t].pc = "done" /\ DecidedTx(t)
    BY <1>5 DEF Report, TxOpen
  <2>3. /\ r \in {"ok", "unversioned"} => Committed(t)
        /\ r = "unversioned" => act[t].job = "version"
        /\ r = "rolledBack" => act[t].result = "rolledBack"
    BY <1>1, <2>2 DEF Committed, ActType
  <2> HIDE DEF r
  <2>4. DecidedTx(t)'
    BY <2>1, <2>2, <2>3 DEF DecidedTx, TxOpen
  <2> QED
    BY <2>1, <2>4, DecidedKept
<1> QED
  BY <1>2, <1>3, <1>4, <1>5 DEF TxStep


\* A step on the record of one transaction, whose goroutine does not move.
LEMMA ToldDecided ==
    ASSUME Types, \A x \in Txs : DecidedTx(x), NEW t \in Txs, NEW r, txs' = [txs EXCEPT ![t] = r],
           act' = act, r.msg = txs[t].msg, r.finished = txs[t].finished,
           r.decision = txs[t].decision \/ txs[t].decision = "none",
           loop'.do = "closing" => loop.do = "closing" /\ loop'.txs \subseteq loop.txs \ {t}
    PROVE  \A x \in Txs : DecidedTx(x)'
<1>1. txs'[t] = r /\ \A x \in Txs \ {t} : txs'[x] = txs[x]
  BY DEF Types, TxTypes
<1> QED
  BY <1>1, DecidedKept

LEMMA DecidedNext ==
    ServerInv /\ DecidedInv /\ [Next]_vars => DecidedInv'
<1> SUFFICES ASSUME ServerInv, DecidedInv, [Next]_vars
             PROVE  \A t \in Txs : DecidedTx(t)'
  BY HistoryKept DEF DecidedInv
<1>1. TxTypes /\ LoopTypes /\ Types /\ TxInv /\ EndInv /\ ServeInv /\ Serve \notin Txs
      /\ \A t \in Txs : DecidedTx(t)
      /\ act \in [Actors -> ActType({act[b].job : b \in Actors})]
  BY ServerAssumption DEF ServerInv, Types, ActTypes, DecidedInv
<1>2. ASSUME NEW s \in Sessions, NEW t \in Txs, NEW msg \in BOOLEAN, Begin(s, t, msg)
      PROVE  \A x \in Txs : DecidedTx(x)'
  <2>1. /\ txs'[t].finished = "none" /\ act'[t].pc = "lock" /\ act'[t].job = "sql" /\ loop'.do = "begin"
        /\ \A x \in Txs \ {t} : act'[x] = act[x] /\ txs'[x] = txs[x]
    BY <1>1, <1>2 DEF Begin, NoTx, TxTypes, Start, Out, Locking, Kind, Idle
  <2>2. DecidedTx(t)'
    BY <2>1 DEF DecidedTx, Committed
  <2> QED
    BY <1>1, <2>1, <2>2, DecidedKept
<1>3. ASSUME NEW t \in Txs, NEW written \in TxEffects, TxWrite(t, written)
      PROVE  \A x \in Txs : DecidedTx(x)'
  <2> DEFINE r == [txs[t] EXCEPT !.wrote = @ \cup written]
  <2>1. /\ txs' = [txs EXCEPT ![t] = r] /\ r.finished = txs[t].finished /\ r.msg = txs[t].msg
        /\ r.decision = txs[t].decision
    BY <1>1, <1>3 DEF TxWrite, TxTypes, TxType
  <2> HIDE DEF r
  <2> QED
    BY <1>1, <1>3, <2>1, ToldDecided DEF TxWrite
<1>4. ASSUME NEW t \in Txs, NEW d \in {"commit", "rollback"}, Finish(t, d)
      PROVE  /\ txs[t].decision = "none"
             /\ \A x \in Txs : DecidedTx(x)'
  <2> DEFINE r == [txs[t] EXCEPT !.decision = d]
  <2>1. /\ txs' = [txs EXCEPT ![t] = r] /\ r.finished = txs[t].finished /\ r.msg = txs[t].msg
    BY <1>1, <1>4 DEF Finish, TxTypes, TxType
  <2>2. txs[t].decision = "none"
    BY <1>1, <1>4 DEF Finish, TxInv, ListedTx
  <2>3. loop'.do = "finish"
    BY <1>4 DEF Finish, Idle
  <2> HIDE DEF r
  <2> QED
    BY <1>1, <1>4, <2>1, <2>2, <2>3, ToldDecided DEF Finish
<1>5. CASE CloseAll
  <2>1. \A t \in Txs : /\ txs'[t].finished = txs[t].finished /\ txs'[t].msg = txs[t].msg
                       /\ txs'[t].decision = txs[t].decision
    BY <1>1, <1>5 DEF CloseAll, TxTypes, TxType
  <2>2. act' = act /\ loop.do = "idle" /\ loop'.txs = {t \in Txs : txs[t].listed}
    BY <1>5 DEF CloseAll, Idle
  <2>3. \A t \in Txs : txs[t].listed => txs[t].decision = "none"
    BY <1>1, <2>2 DEF TxInv, ListedTx
  <2> QED
    BY <1>1, <2>1, <2>2, <2>3, DecidedKept
<1>6. CASE AnswerBegin \/ AnswerFinish
  <2> DEFINE t == loop.tx
  <2>1. act' = act /\ loop'.do = "idle"
    BY <1>6 DEF AnswerBegin, AnswerFinish, Idle
  <2>2. CASE txs' = txs
    BY <1>1, <2>1, <2>2, RestDecided
  <2>3. CASE txs' # txs
    <3>1. t \in Txs
      BY <1>1, <1>6, <2>3 DEF AnswerBegin, AnswerFinish, TxTypes
    <3> DEFINE r == [txs[t] EXCEPT !.answer = txs[t].finished]
    <3>2. /\ txs' = [txs EXCEPT ![t] = r] /\ r.finished = txs[t].finished /\ r.msg = txs[t].msg
          /\ r.decision = txs[t].decision
      BY <1>1, <1>6, <2>3, <3>1 DEF AnswerBegin, AnswerFinish, TxTypes, TxType
    <3> HIDE DEF r
    <3> QED
      BY <1>1, <2>1, <3>1, <3>2, ToldDecided
  <2> QED
    BY <2>2, <2>3
<1>7. ASSUME NEW t \in Txs, RollBackNext(t)
      PROVE  \A x \in Txs : DecidedTx(x)'
  <2> DEFINE r == [txs[t] EXCEPT !.decision = "rollback"]
  <2>1. /\ txs' = [txs EXCEPT ![t] = r] /\ r.finished = txs[t].finished /\ r.msg = txs[t].msg
    BY <1>1, <1>7 DEF RollBackNext, TxTypes, TxType
  <2>2. txs[t].decision = "none" /\ loop'.txs = loop.txs \ {t} /\ loop.do = "closing" /\ act' = act
    BY <1>1, <1>7 DEF RollBackNext, DecidedTx, LoopTypes
  <2> HIDE DEF r
  <2> QED
    BY <1>1, <2>1, <2>2, ToldDecided
<1>8. CASE StartJob \/ JobDone
  BY <1>1, <1>8, RestDecided DEF StartJob, JobDone, LoopTypes, ServeInv
<1>9. CASE Answer \/ AnswerError
  BY <1>1, <1>9, RestDecided DEF Answer, AnswerError, Over, ServeInv, Idle
<1>10. CASE RolledBack \/ EndProcess
  BY <1>1, <1>10, RestDecided DEF RolledBack, EndProcess, LoopTypes, Idle
<1>11. ASSUME NEW s \in Sessions, Close(s) \/ (\E k \in Keys : Open(s, k))
              \/ (\E k \in Keys, st \in Stores : InitDatabase(s, k, st))
              \/ (\E jobs \in RequestJobs : Request(s, jobs))
       PROVE  \A x \in Txs : DecidedTx(x)'
  <2>1. act' = act /\ txs' = txs /\ loop'.do # "closing"
    BY <1>11 DEF Close, Open, Share, OpenNew, InitDatabase, Request, Idle
  <2> QED
    BY <1>1, <2>1, RestDecided
<1>12. CASE OtherLocks \/ OtherUnlocks \/ UNCHANGED vars
  BY <1>1, <1>12, RestDecided DEF OtherLocks, OtherUnlocks, vars
<1>13. ASSUME NEW a \in Actors, Lock(a) \/ JobStep(a)
       PROVE  \A x \in Txs : DecidedTx(x)'
  BY <1>1, <1>13, JobDecided
<1>14. ASSUME NEW t \in Txs, TxStep(t), Running
       PROVE  \A x \in Txs : DecidedTx(x)'
  BY <1>1, <1>14, TxDecided
<1> QED
  BY <1>2, <1>3, <1>4, <1>5, <1>6, <1>7, <1>8, <1>9, <1>10, <1>11, <1>12, <1>13, <1>14
  DEF Next, ClientStep, ServeStep


\* What TransactionStore sees.
View == <<[t \in Txs |-> txs[t].wrote], {t \in Txs : txs[t].msg}, [t \in Txs |-> txs[t].decision],
          table, history, [t \in Txs |-> txs[t].answer]>>

\* A step on the record of a transaction that shows nothing.
LEMMA Unseen ==
    ASSUME TxTypes, NEW t \in Txs, NEW r, txs' = [txs EXCEPT ![t] = r],
           r.wrote = txs[t].wrote, r.msg = txs[t].msg, r.decision = txs[t].decision,
           r.answer = txs[t].answer, table' = table, history' = history
    PROVE  UNCHANGED View
<1>1. \A x \in Txs : /\ txs'[x].wrote = txs[x].wrote /\ txs'[x].msg = txs[x].msg
                     /\ txs'[x].decision = txs[x].decision /\ txs'[x].answer = txs[x].answer
  BY DEF TxTypes
<1> QED
  BY <1>1 DEF View

\* A version is made.
LEMMA VersionSeen ==
    ASSUME txs' = txs, table' = table, history \subseteq history', history' \subseteq table'
    PROVE  Transactions!MakeVersion
BY DEF Transactions!MakeVersion

LEMMA WriteSeen ==
    ASSUME Types, TxInv, NEW t \in Txs, NEW written \in TxEffects, TxWrite(t, written)
    PROVE  Transactions!Write(t, written)
<1>1. TxTypes
  BY DEF Types
<1> DEFINE r == [txs[t] EXCEPT !.wrote = @ \cup written]
<1>2. /\ txs' = [txs EXCEPT ![t] = r] /\ table' = table /\ history' = history
  BY <1>1 DEF TxWrite, TxTypes
<1>3. /\ r.wrote = txs[t].wrote \cup written /\ r.msg = txs[t].msg
      /\ r.decision = txs[t].decision /\ r.answer = txs[t].answer
  BY <1>1 DEF TxTypes, TxType
<1>4. txs[t].decision = "none" /\ txs[t].answer = "none"
  BY DEF TxWrite, TxInv, ListedTx, ReportedTx
<1> HIDE DEF r
<1>5. \A x \in Txs : /\ txs'[x].wrote = IF x = t THEN txs[x].wrote \cup written ELSE txs[x].wrote
                     /\ txs'[x].msg = txs[x].msg
                     /\ txs'[x].decision = txs[x].decision /\ txs'[x].answer = txs[x].answer
  BY <1>1, <1>2, <1>3 DEF TxTypes
<1>6. [x \in Txs |-> txs'[x].wrote] = [[x \in Txs |-> txs[x].wrote] EXCEPT ![t] = @ \cup written]
  BY <1>5
<1>7. /\ {x \in Txs : txs'[x].msg} = {x \in Txs : txs[x].msg}
      /\ [x \in Txs |-> txs'[x].decision] = [x \in Txs |-> txs[x].decision]
      /\ [x \in Txs |-> txs'[x].answer] = [x \in Txs |-> txs[x].answer]
  BY <1>5
<1> QED
  BY <1>2, <1>4, <1>6, <1>7 DEF Transactions!Write

\* How a transaction is to end is decided once.
LEMMA DecisionSeen ==
    ASSUME Types, NEW t \in Txs, NEW d, txs' = [txs EXCEPT ![t].decision = d],
           txs[t].decision = "none", table' = table, history' = history
    PROVE  Transactions!Decide(t, d)
<1>1. \A x \in Txs : /\ txs'[x].decision = IF x = t THEN d ELSE txs[x].decision
                     /\ txs'[x].wrote = txs[x].wrote /\ txs'[x].msg = txs[x].msg
                     /\ txs'[x].answer = txs[x].answer
  BY DEF Types, TxTypes, TxType
<1>2. [x \in Txs |-> txs'[x].decision] = [[x \in Txs |-> txs[x].decision] EXCEPT ![t] = d]
  BY <1>1
<1>3. /\ {x \in Txs : txs'[x].msg} = {x \in Txs : txs[x].msg}
      /\ [x \in Txs |-> txs'[x].wrote] = [x \in Txs |-> txs[x].wrote]
      /\ [x \in Txs |-> txs'[x].answer] = [x \in Txs |-> txs[x].answer]
  BY <1>1
<1> QED
  BY <1>2, <1>3 DEF Transactions!Decide

\* The writes reach the database together, after the client asked for it.
LEMMA CommitSeen ==
    ASSUME Types, TxInv, NEW t \in Txs, LeaveBody(t)
    PROVE  Transactions!Apply(t) \/ UNCHANGED View
<1>1. txs' = txs /\ history' = history /\ TxOpen(t) /\ act[t].pc = "body" /\ RunningTx(t) /\ ReportedTx(t)
  BY DEF LeaveBody, TxInv, TxOpen
<1>2. CASE table' = table
  BY <1>1, <1>2 DEF View
<1>3. CASE table' # table
  <2>1. txs[t].decision = "commit" /\ table' = table \cup {<<t, k>> : k \in txs[t].wrote}
    BY <1>3 DEF LeaveBody
  <2>2. Its(t) = {} /\ txs[t].answer = "none"
    BY <1>1 DEF RunningTx, ReportedTx, Committed
  <2> QED
    BY <1>1, <2>1, <2>2 DEF Transactions!Apply, Transactions!Applied, Transactions!Writes, Its
<1> QED
  BY <1>2, <1>3

\* What the client is told is true.
LEMMA AnswerSeen ==
    ASSUME Types, TxInv, DecidedInv, AnswerBegin \/ AnswerFinish
    PROVE  UNCHANGED View
           \/ \E t \in Txs, r \in {"ok", "unversioned", "rolledBack", "failed"} : Transactions!Tell(t, r)
<1>1. TxTypes /\ LoopTypes /\ table' = table /\ history' = history
  BY DEF Types, AnswerBegin, AnswerFinish
<1>2. CASE txs' = txs
  BY <1>1, <1>2 DEF View
<1>3. CASE txs' # txs
  <2>1. PICK t \in Txs, r \in Results :
            r = txs[t].finished /\ r # "none" /\ txs' = [txs EXCEPT ![t].answer = r]
    <3>1. loop.tx \in Txs
      BY <1>1, <1>3 DEF AnswerBegin, AnswerFinish, TxTypes
    <3>2. txs[loop.tx].finished \in Results
      BY <1>1, <3>1 DEF TxTypes, TxType
    <3> QED
      BY <1>1, <1>3, <3>1, <3>2 DEF AnswerBegin, AnswerFinish, TxTypes
  <2>2. \A x \in Txs : /\ txs'[x].answer = IF x = t THEN r ELSE txs[x].answer
                       /\ txs'[x].wrote = txs[x].wrote /\ txs'[x].msg = txs[x].msg
                       /\ txs'[x].decision = txs[x].decision
    BY <1>1, <2>1 DEF TxTypes, TxType
  <2>3. ReportedTx(t) /\ DecidedTx(t) /\ r \in {"ok", "unversioned", "rolledBack", "failed"}
    BY <1>1, <2>1 DEF TxInv, DecidedInv, TxTypes, TxType, Results
  <2>4. CASE txs[t].answer # "none"
    <3>1. txs[t].answer = r
      BY <2>1, <2>3, <2>4 DEF ReportedTx
    <3> QED
      BY <1>1, <2>2, <3>1 DEF View
  <2>5. CASE txs[t].answer = "none"
    <3>1. Transactions!True(t, r)
      BY <2>1, <2>3 DEF ReportedTx, DecidedTx, Told, Its, All, Versioned,
                        Transactions!True, Transactions!Applied, Transactions!Writes
    <3>2. [x \in Txs |-> txs'[x].answer] = [[x \in Txs |-> txs[x].answer] EXCEPT ![t] = r]
      BY <2>2
    <3>3. /\ {x \in Txs : txs'[x].msg} = {x \in Txs : txs[x].msg}
          /\ [x \in Txs |-> txs'[x].wrote] = [x \in Txs |-> txs[x].wrote]
          /\ [x \in Txs |-> txs'[x].decision] = [x \in Txs |-> txs[x].decision]
      BY <2>2
    <3>4. Transactions!Tell(t, r)
      BY <1>1, <2>5, <3>1, <3>2, <3>3 DEF Transactions!Tell
    <3> QED
      BY <2>1, <2>3, <3>4
  <2> QED
    BY <2>4, <2>5
<1> QED
  BY <1>2, <1>3

LEMMA TransactionStep ==
    ASSUME ServerInv, DecidedInv, [Next]_vars
    PROVE  Transactions!TSNext \/ UNCHANGED View
<1>1. /\ TxTypes /\ Types /\ TxInv /\ history \subseteq history' /\ history' \subseteq table'
      /\ \A t \in Txs : DecidedTx(t)
  BY HistoryKept DEF ServerInv, Types, DecidedInv
<1>2. CASE txs' = txs /\ table' = table
  BY <1>1, <1>2, VersionSeen DEF Transactions!TSNext
<1>3. ASSUME NEW s \in Sessions, NEW t \in Txs, NEW msg \in BOOLEAN, Begin(s, t, msg)
      PROVE  Transactions!TSNext \/ UNCHANGED View
  <2>1. /\ txs[t].wrote = {} /\ ~txs[t].msg /\ txs[t].decision = "none" /\ txs[t].answer = "none"
        /\ txs'[t].wrote = {} /\ txs'[t].msg = msg
        /\ txs'[t].decision = "none" /\ txs'[t].answer = "none"
        /\ \A x \in Txs \ {t} : txs'[x] = txs[x]
        /\ table' = table /\ history' = history
    BY <1>1, <1>3 DEF Begin, NoTx, TxTypes
  <2>2. \A x \in Txs : /\ txs'[x].wrote = txs[x].wrote /\ txs'[x].decision = txs[x].decision
                       /\ txs'[x].answer = txs[x].answer
                       /\ txs'[x].msg = IF x = t THEN msg ELSE txs[x].msg
    BY <2>1
  <2>3. CASE msg
    <3>1. {x \in Txs : txs'[x].msg} = {x \in Txs : txs[x].msg} \cup {t}
      BY <2>2, <2>3
    <3>2. Transactions!AskVersion(t)
      BY <2>1, <2>2, <3>1 DEF Transactions!AskVersion
    <3> QED
      BY <3>2 DEF Transactions!TSNext
  <2>4. CASE ~msg
    <3>1. {x \in Txs : txs'[x].msg} = {x \in Txs : txs[x].msg}
      BY <2>1, <2>2, <2>4
    <3> QED
      BY <2>1, <2>2, <3>1 DEF View
  <2> QED
    BY <2>3, <2>4
<1>4. ASSUME NEW t \in Txs, NEW written \in TxEffects, TxWrite(t, written)
      PROVE  Transactions!TSNext
  <2>1. written \in SUBSET UNION TxEffects
    OBVIOUS
  <2> QED
    BY <1>1, <1>4, <2>1, WriteSeen DEF Transactions!TSNext
<1>5. ASSUME NEW t \in Txs, NEW d \in {"commit", "rollback"}, Finish(t, d)
      PROVE  Transactions!TSNext
  <2>1. txs[t].decision = "none"
    BY <1>1, <1>5 DEF Finish, TxInv, ListedTx
  <2> QED
    BY <1>1, <1>5, <2>1, DecisionSeen DEF Finish, Transactions!TSNext
<1>6. CASE CloseAll
  <2>1. \A t \in Txs : /\ txs'[t].wrote = txs[t].wrote /\ txs'[t].msg = txs[t].msg
                       /\ txs'[t].decision = txs[t].decision /\ txs'[t].answer = txs[t].answer
    BY <1>1, <1>6 DEF CloseAll, TxTypes, TxType
  <2> QED
    BY <1>6, <2>1 DEF CloseAll, View
<1>7. CASE AnswerBegin \/ AnswerFinish
  BY <1>1, <1>7, AnswerSeen DEF Transactions!TSNext
<1>8. ASSUME NEW t \in Txs, RollBackNext(t)
      PROVE  Transactions!TSNext
  BY <1>1, <1>8, DecisionSeen DEF RollBackNext, DecidedTx, Transactions!TSNext
<1>9. ASSUME NEW t \in Txs, EnterBody(t)
      PROVE  UNCHANGED View
  <2>1. CASE txs' = txs
    BY <1>9, <2>1 DEF EnterBody, View
  <2>2. CASE txs' # txs
    <3> DEFINE r == [txs[t] EXCEPT !.ready = TRUE]
    <3>1. /\ txs' = [txs EXCEPT ![t] = r] /\ r.wrote = txs[t].wrote /\ r.msg = txs[t].msg
          /\ r.decision = txs[t].decision /\ r.answer = txs[t].answer
          /\ table' = table /\ history' = history
      BY <1>1, <1>9, <2>2 DEF EnterBody, TxTypes, TxType
    <3> HIDE DEF r
    <3> QED
      BY <1>1, <3>1, Unseen
  <2> QED
    BY <2>1, <2>2
<1>10. ASSUME NEW t \in Txs, Report(t)
       PROVE  UNCHANGED View
  <2>1. PICK f : txs' = [txs EXCEPT ![t] = [txs[t] EXCEPT !.listed = FALSE, !.finished = f]]
    BY <1>1, <1>10 DEF Report, TxTypes
  <2> DEFINE r == [txs[t] EXCEPT !.listed = FALSE, !.finished = f]
  <2>2. /\ r.wrote = txs[t].wrote /\ r.msg = txs[t].msg
        /\ r.decision = txs[t].decision /\ r.answer = txs[t].answer
        /\ table' = table /\ history' = history
    BY <1>1, <1>10 DEF Report, TxTypes, TxType
  <2> HIDE DEF r
  <2> QED
    BY <1>1, <2>1, <2>2, Unseen DEF r
<1>11. ASSUME NEW t \in Txs, LeaveBody(t)
       PROVE  Transactions!TSNext \/ UNCHANGED View
  BY <1>1, <1>11, CommitSeen DEF Transactions!TSNext
<1>12. CASE UNCHANGED vars
  BY <1>12 DEF vars, View
<1> QED
  BY <1>2, <1>3, <1>4, <1>5, <1>6, <1>7, <1>8, <1>9, <1>10, <1>11, <1>12
  DEF Next, ClientStep, ServeStep, TxStep, JobStep, Lock, Connect, Trouble, Execute, StartVersion,
      StartJob, JobDone, Answer, AnswerError, RolledBack, EndProcess, Open, InitDatabase, Request, Close,
      OtherLocks, OtherUnlocks

\* Seen from its clients the process is a store of transactions (RunInTransaction): each of its
\* steps is one of TransactionStore, or shows nothing.
THEOREM StoreTheorem == Spec => IsTransactionStore
<1>1. Init => Transactions!TSInit /\ DecidedInv
  <2> SUFFICES ASSUME Init PROVE Transactions!TSInit /\ DecidedInv
    OBVIOUS
  <2>1. \A a \in Actors : act[a].pc = "out"
    BY DEF Init, Out
  <2>2. \A t \in Txs : txs[t] = NoTx
    BY DEF Init
  <2>3. DecidedInv
    BY <2>1, <2>2 DEF Init, DecidedInv, DecidedTx, TxOpen, NoTx, Idle
  <2>4. Transactions!TSInit
    BY <2>2 DEF Init, NoTx, Transactions!TSInit
  <2> QED
    BY <2>3, <2>4
<1>2. ServerInv /\ DecidedInv /\ [Next]_vars => [Transactions!TSNext]_View
  BY TransactionStep
<1> QED
  BY <1>1, <1>2, ServerInvariant, DecidedNext, PTL DEF Spec, IsTransactionStore, Transactions!TSSpec, Transactions!tsVars, View

=============================================================================
