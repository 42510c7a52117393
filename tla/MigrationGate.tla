---------------------------- MODULE MigrationGate ----------------------------
(***************************************************************************)
(* What keeps clones of one remote from migrating apart                    *)
(* (internal/storage/schema/remote_migrate_gate.go and                     *)
(* smart_remote_migrate_gate.go).  Before MigrateUp a clone with pending   *)
(* migrations compares its schema_migrations with those of the remote, as  *)
(* they were when it last fetched, and is refused, told to adopt, or let   *)
(* through.  Pulls, pushes and re-clones go on meanwhile.                  *)
(*                                                                         *)
(* A schema is the sequence of the migrations it has run: of each, the     *)
(* file the binary shipped, who ran it if the outcome differs from run to  *)
(* run, and whether the row records the hash of the file.                  *)
(***************************************************************************)
EXTENDS Naturals, SequencesExt

CONSTANTS
    Machines,                       \* each has a clone of the remote
    Designated,                     \* those that export BD_ALLOW_REMOTE_MIGRATE
    Branched, Rewritten,            \* binaries that ship other files for these versions
    Latest,                         \* the highest version every binary ships
    LastNonDeterministicMigration   \* the last with random keys

ASSUME GateAssumption ==
    /\ Designated \subseteq Machines /\ \A d, e \in Designated : d = e
    /\ Branched \subseteq Machines \ Designated
    /\ Latest \in Nat /\ LastNonDeterministicMigration \in 1..Latest
    /\ Rewritten \subseteq (LastNonDeterministicMigration + 1)..Latest

VARIABLES
    schema,     \* of each clone
    published,  \* the schema at the remote
    cached,     \* the schema at each clone's remote-tracking ref
    passed      \* what was cached when the gate let a clone through, until it is done

gateVars == <<schema, published, cached, passed>>

Closed == [open |-> FALSE, known |-> <<>>]

Ran(m, v) ==
    [file |-> IF m \in Branched /\ v \in Rewritten THEN "rewritten" ELSE "released",
     by |-> IF v <= LastNonDeterministicMigration THEN m ELSE "any",
     hashed |-> TRUE]

\* What was published before: by the releases, the oldest of which recorded no hash.
Released ==
    UNION {[1..n -> {[file |-> "released", by |-> "any", hashed |-> h] : h \in BOOLEAN}] : n \in 1..Latest}

\* Every clone has what its remote has, and has fetched or not.
GateInit ==
    /\ published \in Released
    /\ schema = [m \in Machines |-> published]
    /\ cached \in [Machines -> {<<>>, published}]
    /\ passed = [m \in Machines |-> Closed]

------------------------------------------------------------------------------
(* The gate *)

\* ReadMigrationContentHashes.
Hashed(s) == {v \in DOMAIN s : s[v].hashed}

ContentHashSkew(local, remote) ==
    {v \in Hashed(local) \cap Hashed(remote) : local[v].file # remote[v].file}

\* Mutant: two clones at the version of the remote are as good as one.
SameVersion(local, remote) ==
    /\ Hashed(local) # {} /\ Hashed(remote) # {}
    /\ ContentHashSkew(local, remote) = {}
    /\ Max(Hashed(remote)) = Len(local)

\* routeSmartGate: the one verdict that lets a clone migrate.
SmartAutoMigrate(local, remote) ==
    /\ Hashed(local) # {} /\ Hashed(remote) # {}
    /\ ContentHashSkew(local, remote) = {}
    /\ Max(Hashed(remote)) = Len(local)
    /\ Len(local) >= LastNonDeterministicMigration

\* dolt_remotes of a server that has just started may be empty; extraHasRemote
\* looks at what is configured on disk.
HasRemote(listed, probed) == listed \/ probed

\* CheckRemoteMigrateGateForRemoteWithRemoteCheck.  What cannot be read counts
\* against the clone, and the smart gate may be switched off.
Gate(m) ==
    /\ ~passed[m].open /\ Len(schema[m]) < Latest
    /\ \E listed, smart \in BOOLEAN :
           \/ ~HasRemote(listed, TRUE)
           \/ m \in Designated
           \/ smart /\ SmartAutoMigrate(schema[m], cached[m])
    /\ passed' = [passed EXCEPT ![m] = [open |-> TRUE, known |-> cached[m]]]
    /\ UNCHANGED <<schema, published, cached>>

\* One pending migration, and its row.
RunPending(m) ==
    /\ passed[m].open /\ Len(schema[m]) < Latest
    /\ schema' = [schema EXCEPT ![m] = Append(@, Ran(m, Len(@) + 1))]
    /\ UNCHANGED <<published, cached, passed>>

\* MigrateUp ends, or dies with versions still pending.
Ends(m) ==
    /\ passed[m].open
    /\ passed' = [passed EXCEPT ![m] = Closed]
    /\ UNCHANGED <<schema, published, cached>>

------------------------------------------------------------------------------
(* What operators do in between *)

FetchRef(m) ==
    /\ cached' = [cached EXCEPT ![m] = published]
    /\ UNCHANGED <<schema, published, passed>>

\* A pull merges what it fetched, unless rows of schema_migrations clash.
PullSchema(m) ==
    /\ ~passed[m].open
    /\ IsPrefix(schema[m], published)
    /\ schema' = [schema EXCEPT ![m] = published]
    /\ cached' = [cached EXCEPT ![m] = published]
    /\ UNCHANGED <<published, passed>>

PushSchema(m) ==
    /\ ~passed[m].open
    /\ IsPrefix(published, schema[m])
    /\ published' = schema[m]
    /\ cached' = [cached EXCEPT ![m] = schema[m]]
    /\ UNCHANGED <<schema, passed>>

\* bd bootstrap, which the messages of the gate advise.
Bootstrap(m) ==
    /\ ~passed[m].open
    /\ schema' = [schema EXCEPT ![m] = published]
    /\ cached' = [cached EXCEPT ![m] = published]
    /\ UNCHANGED <<published, passed>>

GateNext ==
    \E m \in Machines :
        \/ Gate(m) \/ RunPending(m) \/ Ends(m)
        \/ FetchRef(m) \/ PullSchema(m) \/ PushSchema(m) \/ Bootstrap(m)

GateSpec == GateInit /\ [][GateNext]_gateVars

------------------------------------------------------------------------------
(* Properties *)

Shared(s, t) == DOMAIN s \cap DOMAIN t

\* "migrating clones independently forks the schema": two clones that ran the same
\* file for a version have the same schema from it, whichever of them migrated on
\* its own and however old what they had fetched was; and where binaries ship
\* different files, no clone but the designated one runs a file when it knows that
\* the remote has run another.
SchemasConverge ==
    \A m \in Machines :
        /\ \A n \in Machines : \A v \in Shared(schema[m], schema[n]) :
               schema[m][v].file = schema[n][v].file => schema[m][v].by = schema[n][v].by
        /\ m \notin Designated =>
               \A v \in Shared(schema[m], passed[m].known) : schema[m][v].file = passed[m].known[v].file
=============================================================================
