------------------------------ MODULE MCSettle ------------------------------
(***************************************************************************)
(* Small instances of what keeps clones of one remote together: the        *)
(* settlement of merges when rows are pulled, the sync with a strategy,    *)
(* and the gate before migrations.  The first state says whose behaviour   *)
(* it is; what the others have of their own rests.                         *)
(***************************************************************************)
EXTENDS FederationSync, MigrationGate, TLC

VARIABLE part

\* The rows that are written, and how often, in a history of pulls and in one of syncs.
PullPlans == {<<{"memory", "issue"}, 4>>, <<{"issue", "label"}, 4>>, <<{"memory", "issue", "label"}, 3>>,
              <<{"edge", "issue"}, 3>>, <<{"metadata", "migration"}, 3>>, <<{"memory", "prefix", "edge"}, 3>>}
SyncPlans == {<<{"memory", "prefix"}, 3>>, <<{"issue"}, 3>>, <<{"memory", "issue"}, 2>>}
Few == PullPlans \cup SyncPlans

settleGateVars == <<syncVars, gateVars, part>>

SettleGateInit ==
    /\ part \in {"settle", "sync", "gate"}
    /\ SyncInit /\ GateInit
    /\ plan \in CASE part = "settle" -> PullPlans
                  [] part = "sync" -> SyncPlans
                  [] part = "gate" -> {CHOOSE p \in Plans : TRUE}
    /\ part # "gate" => /\ Len(published) = 1 /\ published[1].hashed
                        /\ \A m \in Machines : cached[m] = published

SettleGateNext ==
    /\ UNCHANGED part
    /\ CASE part = "settle" -> SettleNext /\ Continue /\ UNCHANGED gateVars
         [] part = "sync" -> SyncNext /\ UNCHANGED gateVars
         [] part = "gate" -> GateNext /\ UNCHANGED syncVars

SettleGateSpec == SettleGateInit /\ [][SettleGateNext]_settleGateVars

Symmetry == Permutations(Clones)
=============================================================================
