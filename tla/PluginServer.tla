---------------------------- MODULE PluginServer ----------------------------
(***************************************************************************)
(* The backend process: one loop that answers one request at a time        *)
(* (cmd/bd-backend-doltlite/main.go), the session manager behind it        *)
(* (internal/provider/provider.go) and the locks and connections of the    *)
(* stores (internal/storage/doltlite/store.go).                            *)
(*                                                                         *)
(* A client's transaction is a goroutine that sits inside a callback of    *)
(* RunInTransaction and waits to hear how to end; all that time it holds   *)
(* the file lock of the data directory and the only connection of its      *)
(* store.  Other processes take the same file lock.                        *)
(*                                                                         *)
(* All sessions are on one data directory; a key is a database and branch  *)
(* in it.  Session, store and transaction ids are used once.  What is      *)
(* remembered of the data is which transaction wrote which kind of table:  *)
(* tracked, or config, which a plain version commit leaves out.  Tables    *)
(* that are never versioned (wisps) count as no write.                     *)
(***************************************************************************)
EXTENDS Naturals, FiniteSets, Requests

CONSTANTS
    Sessions, Stores, Keys, Txs,
    Serve,        \* the request loop
    Other,        \* another process on the same data directory
    None,
    Methods,      \* bound: the requests on a session that clients send
    MaxAttempts,  \* bound: attempts of withRetryAfter (five in the code)
    Patient       \* TRUE: while a transaction is open its client sends nothing
                  \* that needs what the transaction holds

ASSUME ServerAssumption ==
    /\ Serve # Other /\ Serve # None /\ Other # None
    /\ {Serve, Other, None} \cap (Sessions \cup Stores \cup Keys \cup Txs) = {}
    /\ Methods \subseteq DOMAIN Requests
    /\ MaxAttempts \in Nat \ {0}
    /\ Patient \in BOOLEAN

VARIABLES
    loop,      \* what the request loop is doing
    sessions,  \* Manager.sessions, and the ids already used
    entries,   \* Manager.stores
    stores,    \* the DoltliteStore objects, with the references of their entry
    conn,      \* who uses the single connection of each store's handle
    flock,     \* who holds the file lock
    act,       \* where each actor is inside withConn or withDBWrite
    txs,       \* Manager.transactions and what their channels carry
    table,     \* committed writes of transactions
    history    \* those of them in a version commit

vars == <<loop, sessions, entries, stores, conn, flock, act, txs, table, history>>

Actors == Txs \cup {Serve}
Tables == {"tracked", "config"}
Writes == Txs \X Tables

\* What a client may ask for; a request without a job changes nothing.
RequestJobs == (UNION {Requests[method] : method \in Methods}) \ Silent
OpenJobs == {<<"read">>, <<"read", "config", "versionAll">>}
InitJobs == <<"schema", "unlocked", "sql", "config", "versionAll">>
TxEffects == (UNION {TxRequests[method] : method \in DOMAIN TxRequests}) \ {{}}

Idle == [do |-> "idle", sess |-> None, tx |-> None, st |-> None, key |-> None,
         jobs |-> <<>>, txs |-> {}, sts |-> {}]
Out  == [pc |-> "out", job |-> "read", st |-> None, attempt |-> 1, result |-> "none"]
NoTx == [st |-> None, msg |-> FALSE, listed |-> FALSE, ready |-> FALSE,
         decision |-> "none", wrote |-> {}, finished |-> "none", answer |-> "none"]

Init ==
    /\ loop = Idle
    /\ sessions = [s \in Sessions |-> [state |-> "fresh", st |-> None, cached |-> FALSE]]
    /\ entries = [k \in Keys |-> None]
    /\ stores = [st \in Stores |->
                   [state |-> "fresh", handle |-> FALSE, key |-> None, refs |-> 0]]
    /\ conn = [st \in Stores |-> None]
    /\ flock = None
    /\ act = [a \in Actors |-> Out]
    /\ txs = [t \in Txs |-> NoTx]
    /\ table = {}
    /\ history = {}

-----------------------------------------------------------------------------
(* Running a job: withConn(commit), withDBWrite, or a read.                *)

\* Mutant: withConn without its file lock.
StartUnlocked(j, st) ==
    [Out EXCEPT !.pc = IF Locking(j) /\ Kind(j) # "sql" THEN "lock" ELSE "connect",
                !.job = Kind(j), !.st = st]

\* The actor's record when it sets out on job j.
Start(j, st) == [Out EXCEPT !.pc = IF Locking(j) THEN "lock" ELSE "connect",
                            !.job = Kind(j), !.st = st]

\* What a version commit may hold; a plain one leaves config out.
Staged(j) == {w \in table : w[2] = "tracked" \/ j # "version"}

Unlocked(a) == IF flock = a THEN None ELSE flock
Disconnected(a) == [st \in Stores |-> IF conn[st] = a THEN None ELSE conn[st]]

\* The handle is closed and forgotten; later jobs open a connection of their own.
Reset(st) == [stores EXCEPT ![st].handle = FALSE]

\* Mutant: the SQL transaction is not ended when the job fails.
LeaveOpen(a, r) ==
    /\ act' = [act EXCEPT ![a].pc = "done", ![a].result = r]
    /\ flock' = Unlocked(a)
    /\ conn' = IF r = "failed" THEN conn ELSE Disconnected(a)

Leave(a, r) ==
    /\ act' = [act EXCEPT ![a].pc = "done", ![a].result = r]
    /\ flock' = Unlocked(a)
    /\ conn' = Disconnected(a)

\* A retryable error: the file lock is kept over the attempts.
Retry(a) ==
    /\ stores' = Reset(act[a].st)
    /\ IF act[a].attempt = MaxAttempts
       THEN Leave(a, "failed")
       ELSE /\ act' = [act EXCEPT ![a].pc = "connect", ![a].attempt = @ + 1]
            /\ conn' = Disconnected(a)
            /\ UNCHANGED flock

Lock(a) ==
    /\ act[a].pc = "lock"
    /\ flock = None
    /\ flock' = a
    /\ act' = [act EXCEPT ![a].pc = "connect"]
    /\ UNCHANGED <<loop, sessions, entries, stores, conn, txs, table, history>>

\* The handle allows one connection; a job without the handle opens its own,
\* but raw SQL is refused then.
Connect(a) ==
    LET st == act[a].st
        shared == stores[st].handle /\ act[a].job # "schema"
        refused == stores[st].state = "closed" \/ (act[a].job = "raw" /\ ~stores[st].handle)
    IN  /\ act[a].pc = "connect"
        /\ \/ /\ refused
              /\ Leave(a, "failed")
           \/ /\ ~refused
              /\ shared => conn[st] = None
              /\ conn' = IF shared THEN [conn EXCEPT ![st] = a] ELSE conn
              /\ act' = [act EXCEPT ![a].pc = "begun"]
              /\ UNCHANGED flock
        /\ UNCHANGED <<loop, sessions, entries, stores, txs, table, history>>

\* The job meets an error of its own, or one that is worth another attempt.
Trouble(a) ==
    /\ act[a].pc = "begun"
    /\ \/ Leave(a, "failed") /\ UNCHANGED stores
       \/ Locking(act[a].job) /\ act[a].job # "schema" /\ Retry(a)
    /\ UNCHANGED <<loop, sessions, entries, txs, table, history>>

\* The request loop's own reads and writes, and anybody's version commit.
Execute(a) ==
    /\ act[a].pc = "begun"
    /\ a = Serve \/ act[a].job = "version"
    /\ Leave(a, "ok")
    /\ \/ act[a].job \in {"schema", "version", "versionAll"}
          /\ history' = history \cup Staged(act[a].job)
       \/ act[a].job \notin {"version", "versionAll"}  \* schema: nothing to migrate
          /\ history' = history
    /\ UNCHANGED <<loop, sessions, entries, stores, txs, table>>

-----------------------------------------------------------------------------
(* The goroutine of a transaction.                                         *)

\* The callback is entered.  It closes the channel that says the transaction
\* is ready; a second attempt closes it again, which ends the process.
EnterBody(t) ==
    /\ act[t].pc = "begun"
    /\ act[t].job = "sql"
    /\ IF txs[t].ready
       THEN /\ loop' = [loop EXCEPT !.do = "crashed"]
            /\ flock' = None  \* t held it
            /\ conn' = [st \in Stores |-> None]
            /\ act' = [a \in Actors |-> Out]
            /\ UNCHANGED txs
       ELSE /\ txs' = [txs EXCEPT ![t].ready = TRUE]
            /\ act' = [act EXCEPT ![t].pc = "body"]
            /\ UNCHANGED <<loop, flock, conn>>
    /\ UNCHANGED <<sessions, entries, stores, table, history>>

\* The callback returns and withConnOnce ends the SQL transaction.
LeaveBody(t) ==
    /\ act[t].pc = "body"
    /\ \/ /\ txs[t].decision = "rollback"
          /\ Leave(t, "rolledBack")
          /\ UNCHANGED <<stores, table>>
       \/ /\ txs[t].decision = "commit"
          /\ Leave(t, "ok")
          /\ table' = table \cup {<<t, k>> : k \in txs[t].wrote}
          /\ UNCHANGED stores
       \/ /\ txs[t].decision = "commit"
          /\ Leave(t, "failed")
          /\ UNCHANGED <<stores, table>>
       \/ /\ txs[t].decision = "commit"
          /\ Retry(t)
          /\ UNCHANGED table
    /\ UNCHANGED <<loop, sessions, entries, txs, history>>

\* Only a transaction with a message that marked a table dirty is versioned.
WantsVersion(t) == txs[t].msg /\ txs[t].wrote # {}

\* The version commit is a second job, after the file lock was released.
StartVersion(t) ==
    /\ act[t].pc = "done" /\ act[t].job = "sql" /\ act[t].result = "ok"
    /\ WantsVersion(t)
    /\ act' = [act EXCEPT ![t] = Start("version", txs[t].st)]
    /\ UNCHANGED <<loop, sessions, entries, stores, conn, flock, txs, table, history>>

\* Mutant: the error of the version commit is taken for the transaction's.
ReportFailed(t) ==
    /\ act[t].pc = "done"
    /\ ~(act[t].job = "sql" /\ act[t].result = "ok" /\ WantsVersion(t))
    /\ txs' = [txs EXCEPT ![t].listed = FALSE, ![t].finished = act[t].result]
    /\ act' = [act EXCEPT ![t] = Out]
    /\ UNCHANGED <<loop, sessions, entries, stores, conn, flock, table, history>>

Report(t) ==
    /\ act[t].pc = "done"
    /\ ~(act[t].job = "sql" /\ act[t].result = "ok" /\ WantsVersion(t))
    /\ txs' = [txs EXCEPT ![t].listed = FALSE,
                          ![t].finished = IF act[t].job = "version" /\ act[t].result = "failed"
                                          THEN "unversioned" ELSE act[t].result]
    /\ act' = [act EXCEPT ![t] = Out]
    /\ UNCHANGED <<loop, sessions, entries, stores, conn, flock, table, history>>

-----------------------------------------------------------------------------
(* The request loop.                                                       *)

TxOpen(t) == act[t].pc # "out"

\* A patient client lets its transactions end before it asks for more.
MayWrite == Patient => \A t \in Txs : ~TxOpen(t)
MayRead(st) == Patient => conn[st] = None

\* New ids: which one is taken makes no difference.
FreshSession(s) ==
    sessions[s].state = "fresh" /\ s = CHOOSE x \in Sessions : sessions[x].state = "fresh"
FreshStore(st) ==
    stores[st].state = "fresh" /\ st = CHOOSE x \in Stores : stores[x].state = "fresh"
Live(s) == sessions[s].state = "live"

Share(s, k) == \* acquireCachedSession
    /\ entries[k] # None
    /\ stores' = [stores EXCEPT ![entries[k]].refs = @ + 1]
    /\ sessions' = [sessions EXCEPT ![s] =
                      [state |-> "live", st |-> entries[k], cached |-> TRUE]]
    /\ UNCHANGED <<loop, entries>>

\* A new store; its configuration may need repair from config.yaml.
OpenNew(s, k, st) ==
    /\ entries[k] = None
    /\ FreshStore(st)
    /\ MayWrite
    /\ stores' = [stores EXCEPT ![st] =
                    [state |-> "open", handle |-> TRUE, key |-> k, refs |-> 0]]
    /\ \E jobs \in OpenJobs :
          loop' = [Idle EXCEPT !.do = "open", !.sess = s, !.st = st, !.key = k, !.jobs = jobs]
    /\ UNCHANGED <<sessions, entries>>

Open(s, k) ==
    /\ loop.do = "idle"
    /\ FreshSession(s)
    /\ Share(s, k) \/ \E st \in Stores : OpenNew(s, k, st)
    /\ UNCHANGED <<conn, flock, act, txs, table, history>>

\* bd init: migrations under the file lock, then a store of the session's own,
\* its custom tables (without the lock), the ignored tables, the prefix, a version.
InitDatabase(s, k, st) ==
    /\ loop.do = "idle"
    /\ FreshSession(s)
    /\ FreshStore(st)
    /\ MayWrite
    /\ stores' = [stores EXCEPT ![st] =
                    [state |-> "open", handle |-> TRUE, key |-> k, refs |-> 0]]
    /\ loop' = [Idle EXCEPT !.do = "init", !.sess = s, !.st = st, !.key = k,
                            !.jobs = InitJobs]
    /\ UNCHANGED <<sessions, entries, conn, flock, act, txs, table, history>>

\* A request that runs these jobs on a session's store.
Request(s, jobs) ==
    /\ loop.do = "idle"
    /\ Live(s)
    /\ MayRead(sessions[s].st)
    /\ (\E n \in DOMAIN jobs : Locking(jobs[n])) => MayWrite
    /\ loop' = [Idle EXCEPT !.do = "request", !.st = sessions[s].st, !.jobs = jobs]
    /\ UNCHANGED <<sessions, entries, stores, conn, flock, act, txs, table, history>>

StartJob ==
    /\ loop.jobs # <<>>
    /\ act[Serve].pc = "out"
    /\ act' = [act EXCEPT ![Serve] = Start(Head(loop.jobs), loop.st)]
    /\ UNCHANGED <<loop, sessions, entries, stores, conn, flock, txs, table, history>>

\* The job is done, or failed and was only tried.
Over == /\ act[Serve].pc = "done"
        /\ loop.jobs # <<>>
        /\ act[Serve].result = "ok" \/ Tried(Head(loop.jobs))

JobDone ==
    /\ Over
    /\ Len(loop.jobs) > 1
    /\ loop' = [loop EXCEPT !.jobs = Tail(@)]
    /\ act' = [act EXCEPT ![Serve] = Out]
    /\ UNCHANGED <<sessions, entries, stores, conn, flock, txs, table, history>>

CloseStore(st) == [stores[st] EXCEPT !.state = "closed", !.handle = FALSE, !.refs = 0]

Answer ==
    /\ Over
    /\ Len(loop.jobs) = 1
    /\ sessions' = IF loop.do = "request" THEN sessions
                   ELSE [sessions EXCEPT ![loop.sess] =
                           [state |-> "live", st |-> loop.st, cached |-> loop.do = "open"]]
    /\ IF loop.do = "open"
       THEN /\ entries' = [entries EXCEPT ![loop.key] = loop.st]
            /\ stores' = [stores EXCEPT ![loop.st].refs = 1]
       ELSE UNCHANGED <<entries, stores>>
    /\ act' = [act EXCEPT ![Serve] = Out]
    /\ loop' = Idle
    /\ UNCHANGED <<conn, flock, txs, table, history>>

\* A store whose opening failed is closed, except in bootstrap when its custom or
\* ignored tables failed: nobody refers to it any more and its handle stays open.
AnswerError ==
    /\ act[Serve].pc = "done" /\ ~Over
    /\ IF loop.do = "request" \/ (loop.do = "init" /\ Head(loop.jobs) \in {"unlocked", "sql"})
       THEN UNCHANGED stores
       ELSE stores' = [stores EXCEPT ![loop.st] = CloseStore(loop.st)]
    /\ act' = [act EXCEPT ![Serve] = Out]
    /\ loop' = Idle
    /\ UNCHANGED <<sessions, entries, conn, flock, txs, table, history>>

\* Mutant: a shared store is closed by the first session that goes.
CloseEagerly(s) ==
    LET st == sessions[s].st
    IN  /\ loop.do = "idle"
        /\ Live(s)
        /\ sessions' = [sessions EXCEPT ![s].state = "closed"]
        /\ stores' = [stores EXCEPT ![st] = CloseStore(st)]
        /\ entries' = IF sessions[s].cached
                      THEN [entries EXCEPT ![stores[st].key] = None] ELSE entries
        /\ UNCHANGED <<loop, conn, flock, act, txs, table, history>>

\* The last session of a shared store closes it, whatever transaction is in it.
Close(s) ==
    LET st == sessions[s].st
        last == ~sessions[s].cached \/ stores[st].refs = 1
    IN  /\ loop.do = "idle"
        /\ Live(s)
        /\ sessions' = [sessions EXCEPT ![s].state = "closed"]
        /\ stores' = IF last THEN [stores EXCEPT ![st] = CloseStore(st)]
                     ELSE [stores EXCEPT ![st].refs = @ - 1]
        /\ entries' = IF last /\ sessions[s].cached
                      THEN [entries EXCEPT ![stores[st].key] = None] ELSE entries
        /\ UNCHANGED <<loop, conn, flock, act, txs, table, history>>

Begin(s, t, msg) ==
    /\ loop.do = "idle"
    /\ Live(s)
    /\ txs[t] = NoTx
    /\ MayWrite
    /\ txs' = [txs EXCEPT ![t] = [NoTx EXCEPT !.st = sessions[s].st, !.msg = msg, !.listed = TRUE]]
    /\ act' = [act EXCEPT ![t] = Start("sql", sessions[s].st)]
    /\ loop' = [Idle EXCEPT !.do = "begin", !.tx = t]
    /\ UNCHANGED <<sessions, entries, stores, conn, flock, table, history>>

\* The loop waits until the transaction is ready or has failed to begin.
AnswerBegin ==
    LET t == loop.tx
    IN  /\ loop.do = "begin"
        /\ txs[t].ready \/ txs[t].finished # "none"
        /\ txs' = IF txs[t].finished = "none" THEN txs
                  ELSE [txs EXCEPT ![t].answer = txs[t].finished]
        /\ loop' = Idle
        /\ UNCHANGED <<sessions, entries, stores, conn, flock, act, table, history>>

\* A tx_* request runs inside the goroutine's SQL transaction.
TxWrite(t, written) ==
    /\ loop.do = "idle"
    /\ txs[t].listed /\ txs[t].ready
    /\ txs' = [txs EXCEPT ![t].wrote = @ \cup written]
    /\ UNCHANGED <<loop, sessions, entries, stores, conn, flock, act, table, history>>

\* commit_transaction, rollback_transaction: the decision goes to the goroutine
\* and the loop waits for its report.
Finish(t, d) ==
    /\ loop.do = "idle"
    /\ txs[t].listed
    /\ d \in {"commit", "rollback"}
    /\ txs' = [txs EXCEPT ![t].decision = d]
    /\ loop' = [Idle EXCEPT !.do = "finish", !.tx = t]
    /\ UNCHANGED <<sessions, entries, stores, conn, flock, act, table, history>>

AnswerFinish ==
    LET t == loop.tx
    IN  /\ loop.do = "finish"
        /\ txs[t].finished # "none"
        /\ txs' = [txs EXCEPT ![t].answer = txs[t].finished]
        /\ loop' = Idle
        /\ UNCHANGED <<sessions, entries, stores, conn, flock, act, table, history>>

\* Mutant: open transactions are forgotten, not rolled back.
CloseAllForgets ==
    /\ loop.do = "idle"
    /\ loop' = [Idle EXCEPT !.do = "closing",
                  !.sts = {sessions[s].st : s \in {x \in Sessions : Live(x)}}]
    /\ sessions' = [s \in Sessions |-> IF Live(s) THEN [sessions[s] EXCEPT !.state = "closed"]
                                       ELSE sessions[s]]
    /\ txs' = [t \in Txs |-> [txs[t] EXCEPT !.listed = FALSE]]
    /\ entries' = [k \in Keys |-> None]
    /\ UNCHANGED <<stores, conn, flock, act, table, history>>

\* The client is gone.  Every map is emptied first, then each transaction is
\* rolled back, then the stores are closed.
CloseAll ==
    /\ loop.do = "idle"
    /\ loop' = [Idle EXCEPT !.do = "closing",
                  !.txs = {t \in Txs : txs[t].listed},
                  !.sts = {sessions[s].st : s \in {x \in Sessions : Live(x)}}]
    /\ sessions' = [s \in Sessions |-> IF Live(s) THEN [sessions[s] EXCEPT !.state = "closed"]
                                       ELSE sessions[s]]
    /\ txs' = [t \in Txs |-> [txs[t] EXCEPT !.listed = FALSE]]
    /\ entries' = [k \in Keys |-> None]
    /\ UNCHANGED <<stores, conn, flock, act, table, history>>

RollBackNext(t) ==
    /\ loop.do = "closing"
    /\ loop.tx = None
    /\ t \in loop.txs
    /\ loop' = [loop EXCEPT !.tx = t, !.txs = @ \ {t}]
    /\ txs' = [txs EXCEPT ![t].decision = "rollback"]
    /\ UNCHANGED <<sessions, entries, stores, conn, flock, act, table, history>>

RolledBack ==
    /\ loop.do = "closing"
    /\ loop.tx # None
    /\ txs[loop.tx].finished # "none"
    /\ loop' = [loop EXCEPT !.tx = None]
    /\ UNCHANGED <<sessions, entries, stores, conn, flock, act, txs, table, history>>

EndProcess ==
    /\ loop.do = "closing"
    /\ loop.tx = None /\ loop.txs = {}
    /\ stores' = [st \in Stores |-> IF st \in loop.sts THEN CloseStore(st) ELSE stores[st]]
    /\ loop' = [Idle EXCEPT !.do = "ended"]
    /\ UNCHANGED <<sessions, entries, conn, flock, act, txs, table, history>>

-----------------------------------------------------------------------------
(* The other process: a short-lived writer, which may make a version too.  *)

OtherLocks ==
    /\ flock = None
    /\ flock' = Other
    /\ UNCHANGED <<loop, sessions, entries, stores, conn, act, txs, table, history>>

OtherUnlocks ==
    /\ flock = Other
    /\ flock' = None
    /\ history' = history \/ history' = history \cup Staged("version")
    /\ UNCHANGED <<loop, sessions, entries, stores, conn, act, txs, table>>

Running == loop.do \notin {"ended", "crashed"}

ServeStep == StartJob \/ JobDone \/ Answer \/ AnswerError \/ AnswerBegin \/ AnswerFinish
             \/ RolledBack \/ EndProcess \/ \E t \in Txs : RollBackNext(t)
JobStep(a) == Connect(a) \/ Trouble(a) \/ Execute(a)
TxStep(t) == EnterBody(t) \/ LeaveBody(t) \/ StartVersion(t) \/ Report(t)

ClientStep ==
    \/ \E s \in Sessions : \/ \E k \in Keys : Open(s, k) \/ \E st \in Stores : InitDatabase(s, k, st)
                           \/ \E jobs \in RequestJobs : Request(s, jobs)
                           \/ Close(s)
                           \/ \E t \in Txs, msg \in BOOLEAN : Begin(s, t, msg)
    \/ \E t \in Txs : \/ \E written \in TxEffects : TxWrite(t, written)
                      \/ \E d \in {"commit", "rollback"} : Finish(t, d)
    \/ CloseAll

Next ==
    \/ Running /\ (ClientStep \/ ServeStep)
    \/ Running /\ \E a \in Actors : Lock(a) \/ JobStep(a)
    \/ Running /\ \E t \in Txs : TxStep(t)
    \/ OtherLocks \/ OtherUnlocks

Spec == Init /\ [][Next]_vars

\* The process runs what it has begun; the other process lets go of the lock;
\* a waiter, which polls, is not passed over for ever.  No client must act.
Fairness ==
    /\ WF_vars(Running /\ ServeStep)
    /\ \A a \in Actors : WF_vars(Running /\ JobStep(a)) /\ SF_vars(Running /\ Lock(a))
    /\ \A t \in Txs : WF_vars(Running /\ TxStep(t))
    /\ WF_vars(OtherUnlocks)

FairSpec == Spec /\ Fairness

-----------------------------------------------------------------------------
(* Properties.                                                             *)

Sharing(st) == {s \in Sessions : Live(s) /\ sessions[s].cached /\ sessions[s].st = st}

\* A session the manager knows works on an open store, and a shared store counts
\* exactly the sessions that share it and is found under its key (Manager.open,
\* Close, releaseCachedStore): none is closed under a session, none forgotten.
SessionsHoldOpenStores ==
    /\ \A s \in Sessions : Live(s) =>
         /\ stores[sessions[s].st].state = "open"
         /\ sessions[s].cached => entries[stores[sessions[s].st].key] = sessions[s].st
    /\ \A k \in Keys : entries[k] # None =>
         /\ Sharing(entries[k]) # {}
         /\ stores[entries[k]].refs = Cardinality(Sharing(entries[k]))

\* What a client is told of its transaction is what is in the database: all of
\* its writes and, if it asked for one, their version; or nothing of it
\* (RunInTransaction, finish, PostTransactionCommitError).
AnswersAreTrue ==
    \A t \in Txs :
        LET its == {w \in table : w[1] = t}
        IN  CASE txs[t].answer = "ok" ->
                   /\ its = {<<t, k>> : k \in txs[t].wrote}
                   /\ txs[t].msg => {w \in its : w[2] = "tracked"} \subseteq history
              [] txs[t].answer = "unversioned" -> its = {<<t, k>> : k \in txs[t].wrote}
              [] txs[t].answer \in {"rolledBack", "failed"} -> its = {}
              [] OTHER -> TRUE

\* Seen from its clients the process is a store of transactions: no goroutine, lock, retry
\* or second job of a commit shows, also not in what another process reads.
Transactions == INSTANCE TransactionStore WITH
    Tables   <- UNION TxEffects,
    wrote    <- [t \in Txs |-> txs[t].wrote],
    messages <- {t \in Txs : txs[t].msg},
    decided  <- [t \in Txs |-> txs[t].decision],
    database <- table,
    versions <- history,
    told     <- [t \in Txs |-> txs[t].answer]

IsTransactionStore == Transactions!TSSpec

\* When the process has ended in order, no transaction is left open or half
\* applied, no lock is held and no session's store is open (CloseAll).
EndsClean ==
    loop.do = "ended" =>
        /\ \A t \in Txs : ~TxOpen(t)
        /\ flock \notin Actors
        /\ \A s \in Sessions : ~Live(s)
        /\ \A s \in Sessions : sessions[s].state = "closed" => stores[sessions[s].st].state = "closed"

\* One writer at a time on the data directory, in this process or another: the
\* file lock covers every attempt from begin to commit, and a transaction's
\* client in between (withExclusiveLock around withConn and withDBWrite).
Writing(a) == IF a = Other THEN flock = Other
              ELSE Locking(act[a].job) /\ act[a].pc \in {"begun", "body"}
OneWriter == \A a, b \in Actors \cup {Other} : Writing(a) /\ Writing(b) => a = b

Busy == loop.do \notin {"idle", "ended", "crashed"}

\* "Each response echoes the ID" (docs/plugin-contract.md:39): the loop is never left
\* waiting for a lock, a connection or a goroutine, unless the process dies.
EveryRequestAnswered == Busy ~> ~Busy

\* A callback that returned in order has its transaction committed or reported
\* (storage.go:314), also when the commit meets a conflict worth a retry.
SurvivesConflict == loop.do # "crashed"
=============================================================================
