----------------------------- MODULE HookFiring -----------------------------
(***************************************************************************)
(* Hooks after writes (internal/storage/hook_decorator.go): a store in     *)
(* front of the real one that tells scripts of every change.  A single     *)
(* write is told when it has returned, with the issue as it is then; the   *)
(* writes of a transaction are noted with the issue as it is then, and     *)
(* told when the transaction has returned without an error.  The store     *)
(* behind runs the function of a transaction again after a conflict.       *)
(*                                                                         *)
(* An issue is the number of its latest change, 0 when there is none.      *)
(* Other processes write the same store, without hooks.                    *)
(***************************************************************************)
EXTENDS Naturals, SequencesExt

CONSTANTS
    HookedIssues,
    MaxChanges     \* bound: changes that are made, rolled back or not

ASSUME MaxChangesAssumption == MaxChanges \in Nat

VARIABLES
    stored,   \* the store
    past,     \* the changes that were committed, in order
    started,     \* the hooks that were started, in order
    changes,  \* how many changes were made
    caller    \* the call under way

hookVars == <<stored, past, started, changes, caller>>

\* inside is the store as its transaction sees it, done what it has changed and
\* pending what it has noted; todo are hooks still to run after the call.
NoCall == [pc |-> "idle", inside |-> [i \in HookedIssues |-> 0], done |-> <<>>,
         pending |-> <<>>, todo |-> <<>>]

HookInit ==
    /\ stored = [i \in HookedIssues |-> 0]
    /\ past = <<>> /\ started = <<>>
    /\ changes = 0
    /\ caller = NoCall

Change(i) == [issue |-> i, number |-> changes + 1]
MayChange == changes < MaxChanges /\ changes' = changes + 1

------------------------------------------------------------------------------
(* A single write *)

\* Another process, or this one: then the issue is read again afterwards.
WriteOnce(i, here) ==
    /\ here => caller.pc = "idle"
    /\ MayChange
    /\ stored' = [stored EXCEPT ![i] = changes + 1]
    /\ past' = Append(past, Change(i))
    /\ caller' = IF here THEN [caller EXCEPT !.pc = "read again", !.done = <<Change(i)>>]
                 ELSE caller
    /\ UNCHANGED started

\* fireHookByID.  A failed read loses the hook.
ReadAgain ==
    /\ caller.pc = "read again"
    /\ LET i == caller.done[1].issue
       IN  \/ started' = Append(started, [issue |-> i, number |-> stored[i]])
           \/ UNCHANGED started
    /\ caller' = NoCall
    /\ UNCHANGED <<stored, past, changes>>

------------------------------------------------------------------------------
(* A transaction *)

\* Mutant: what an earlier attempt noted is kept.
KeepsNotes == caller.pending

\* A new hookTrackingTransaction for every attempt.
Fresh == <<>>

\* withConn begins an attempt.  The file lock keeps other writers out until it ends.
BeginAttempt ==
    /\ caller.pc \in {"idle", "again"}
    /\ caller' = [caller EXCEPT !.pc = "inside", !.inside = stored, !.done = <<>>,
                                !.pending = Fresh]
    /\ UNCHANGED <<stored, past, started, changes>>

\* A write and the note of it, which a failed read leaves out.
WriteInside(i) ==
    /\ caller.pc = "inside" /\ MayChange
    /\ \E noted \in {<<>>, <<Change(i)>>} :
           caller' = [caller EXCEPT !.inside[i] = changes + 1, !.done = Append(@, Change(i)),
                                    !.pending = @ \o noted]
    /\ UNCHANGED <<stored, past, started>>

\* The function or the commit fails: for good, or with a conflict that is retried.
RollBack ==
    /\ caller.pc = "inside"
    /\ \/ caller' = NoCall
       \/ caller' = [caller EXCEPT !.pc = "again", !.done = <<>>]
    /\ UNCHANGED <<stored, past, started, changes>>

\* After the SQL commit the version commit may still fail: then no hook is run.
CommitInside ==
    /\ caller.pc = "inside"
    /\ stored' = caller.inside
    /\ past' = past \o caller.done
    /\ \/ caller' = [NoCall EXCEPT !.pc = "fire", !.todo = caller.pending]
       \/ caller' = NoCall
    /\ UNCHANGED <<started, changes>>

FireNext ==
    /\ caller.pc = "fire"
    /\ IF caller.todo = <<>> THEN caller' = NoCall /\ UNCHANGED started
       ELSE /\ started' = Append(started, Head(caller.todo))
            /\ caller' = [caller EXCEPT !.todo = Tail(@)]
    /\ UNCHANGED <<stored, past, changes>>

\* The process dies, and with it what it had not told.
DieUntold ==
    /\ caller.pc # "idle"
    /\ caller' = NoCall
    /\ UNCHANGED <<stored, past, started, changes>>

HookNext ==
    \/ \E i \in HookedIssues :
           \/ caller.pc # "inside" /\ WriteOnce(i, FALSE)
           \/ WriteOnce(i, TRUE)
           \/ WriteInside(i)
    \/ ReadAgain \/ BeginAttempt \/ RollBack \/ CommitInside \/ FireNext \/ DieUntold

HookSpec == HookInit /\ [][HookNext]_hookVars

------------------------------------------------------------------------------
(* Properties *)

Subsequence(s, t) ==
    \E f \in [1..Len(s) -> 1..Len(t)] :
        /\ \A n \in 1..Len(s) : s[n] = t[f[n]]
        /\ \A n, k \in 1..Len(s) : n < k => f[n] < f[k]

\* "hooks only fire after the transaction commits successfully. On rollback or error,
\* no hooks fire": what scripts are told are changes that were committed, in the order
\* they were, and none of them twice, through conflicts, retries, failed version
\* commits and writes of other processes.
HooksFollowCommits == Subsequence(started, past)
=============================================================================
