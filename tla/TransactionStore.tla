-------------------------- MODULE TransactionStore --------------------------
(***************************************************************************)
(* What the backend promises of transactions (Storage.RunInTransaction of  *)
(* internal/storage/storage.go, and PostTransactionCommitError): the       *)
(* writes of a transaction become visible together and only after its      *)
(* client asked to commit, or not at all; a version holds only what is in  *)
(* the database; and the one answer the client gets is true when it is     *)
(* given and stays so, as nothing of the transaction changes afterwards.   *)
(***************************************************************************)
CONSTANTS Txs, Tables

VARIABLES
    wrote,     \* what each transaction has written, as its client sees it
    messages,  \* the transactions that ask for a version
    decided,   \* how each one is to end
    database,  \* the committed writes
    versions,  \* those of them in a version
    told       \* the answer to each transaction

tsVars == <<wrote, messages, decided, database, versions, told>>

Writes(t) == {<<t, k>> : k \in wrote[t]}
Applied(t) == {w \in database : w[1] = t}

TSInit ==
    /\ wrote = [t \in Txs |-> {}] /\ messages = {}
    /\ decided = [t \in Txs |-> "none"] /\ told = [t \in Txs |-> "none"]
    /\ database = {} /\ versions = {}

AskVersion(t) ==
    /\ wrote[t] = {} /\ decided[t] = "none" /\ told[t] = "none"
    /\ messages' = messages \cup {t}
    /\ UNCHANGED <<wrote, decided, database, versions, told>>

Write(t, tables) ==
    /\ decided[t] = "none" /\ told[t] = "none"
    /\ wrote' = [wrote EXCEPT ![t] = @ \cup tables]
    /\ UNCHANGED <<messages, decided, database, versions, told>>

Decide(t, d) ==
    /\ decided[t] = "none"
    /\ decided' = [decided EXCEPT ![t] = d]
    /\ UNCHANGED <<wrote, messages, database, versions, told>>

Apply(t) ==
    /\ decided[t] = "commit" /\ told[t] = "none"
    /\ Applied(t) = {}
    /\ database' = database \cup Writes(t)
    /\ UNCHANGED <<wrote, messages, decided, versions, told>>

MakeVersion ==
    /\ versions' \in SUBSET database
    /\ versions \subseteq versions'
    /\ UNCHANGED <<wrote, messages, decided, database, told>>

True(t, r) ==
    \/ /\ r = "ok" /\ decided[t] = "commit" /\ Applied(t) = Writes(t)
       /\ t \in messages => {w \in Applied(t) : w[2] = "tracked"} \subseteq versions
    \/ r = "unversioned" /\ decided[t] = "commit" /\ Applied(t) = Writes(t) /\ t \in messages
    \/ r = "rolledBack" /\ decided[t] = "rollback" /\ Applied(t) = {}
    \/ r = "failed" /\ Applied(t) = {}

Tell(t, r) ==
    /\ told[t] = "none" /\ True(t, r)
    /\ told' = [told EXCEPT ![t] = r]
    /\ UNCHANGED <<wrote, messages, decided, database, versions>>

TSNext ==
    \/ \E t \in Txs : \/ AskVersion(t) \/ Apply(t)
                      \/ \E tables \in SUBSET Tables : Write(t, tables)
                      \/ \E d \in {"commit", "rollback"} : Decide(t, d)
                      \/ \E r \in {"ok", "unversioned", "rolledBack", "failed"} : Tell(t, r)
    \/ MakeVersion

TSSpec == TSInit /\ [][TSNext]_tsVars
=============================================================================
