--------------------------- MODULE SchemaMigrations ---------------------------
(***************************************************************************)
(* MigrateUp: one database is brought to the schema of the binary, with    *)
(* interruptions.  Every statement takes effect in the working set by      *)
(* itself, so a pass that dies leaves what it has done, and the next pass  *)
(* has to tell that from changes users made and did not commit.            *)
(*                                                                         *)
(* A table is what it was in the last commit (head), in the index (staged) *)
(* and in the working set (working).  Its content is reduced to the        *)
(* migrations applied to it, the rows whose id has been derived from their *)
(* content, the number of changes by users, and, for the cursor table, the *)
(* highest version recorded.  `filled' is the content_hash column of the   *)
(* cursor table, and whether custom_types has rows.  The events table      *)
(* stands for the four tables of auxRekeyTables.  Tables of the clone      *)
(* itself (dolt_ignore) are never committed: `local'.                      *)
(***************************************************************************)
EXTENDS Naturals, FiniteSets

CONSTANTS Latest,         \* highest version of the main migrations
          Shipped,        \* auxRowRekeyShippedMainVersion
          LatestIgnored,  \* highest version of the clone-local migrations
          Marker,         \* auxRowRekeyMarkerVersion
          Touches,        \* the tables the text of a main migration alters
          AuxRows,        \* rows of events with ids made up by migration 0037
          DepRows,        \* rows of dependencies with ids made up by 0043
          MaxEdits,       \* bound on the changes users make
          MaxInterrupts   \* bound on the passes that die

Cursor == "schema_migrations"
Tables == {Cursor, "issues", "dependencies", "events", "custom_types"}

ASSUME VersionsAssumption ==
    /\ Latest \in Nat /\ Shipped \in 1..Latest
    /\ LatestIgnored \in Nat /\ Marker \in 1..LatestIgnored
    /\ Touches \in [1..Latest -> SUBSET (Tables \ {Cursor})]
    /\ MaxEdits \in Nat /\ MaxInterrupts \in Nat

VARIABLES working, staged, head,  \* the content of each table
          local,               \* ignored: clone-local version; sentinel of the re-key
          legacy,              \* the made-up ids have not been derived in this lineage
          configured,          \* config names custom types
          pc, pass,            \* where MigrateUp is, and its variables
          interrupts,
          stranded             \* a pass has died in the window before the sentinel

migrationVars == <<working, staged, head, local, legacy, configured, pc, pass, interrupts, stranded>>

Contents ==
    [applied : SUBSET (1..Latest), recorded : 0..Latest, derived : SUBSET (AuxRows \cup DepRows),
     edits : Nat, filled : BOOLEAN]

Passes ==
    [dirty : SUBSET Tables, before : 0..Latest, resumed : BOOLEAN, done : SUBSET Tables,
     wrote : BOOLEAN, snapshot : [Tables -> Contents]]

Blank == [applied |-> {}, recorded |-> 0, derived |-> {}, edits |-> 0, filled |-> FALSE]

NoPass == [dirty |-> {}, before |-> 0, resumed |-> FALSE, done |-> {}, wrote |-> FALSE,
           snapshot |-> [t \in Tables |-> Blank]]

\* A database at version v as the tools leave it, all of it committed.
DatabaseAt(v, hashed) ==
    [t \in Tables |->
        [applied |-> {w \in 1..v : t \in Touches[w]},
         recorded |-> IF t = Cursor THEN v ELSE 0,
         derived |-> IF v > 0 THEN {} ELSE IF t = "events" THEN AuxRows
                     ELSE IF t = "dependencies" THEN DepRows ELSE {},
         edits |-> 0,
         filled |-> t = Cursor /\ v > 0 /\ hashed]]

\* Nothing there yet; of an older version, its made-up ids still in place; or at
\* a version that knows the re-key, in which case this clone may or may not have
\* recorded the marker.
MigrationInit ==
    \E v \in 0..Latest, k \in 0..LatestIgnored, hashed \in BOOLEAN :
        /\ v = 0 => k = 0
        /\ v < Shipped => k < Marker
        /\ legacy = (v < Shipped)
        /\ configured \in BOOLEAN /\ (v = 0 => ~configured)
        /\ head = DatabaseAt(v, hashed)
        /\ working = head
        /\ staged = head
        /\ local = [ignored |-> k, sentinel |-> FALSE]
        /\ pc = "idle"
        /\ pass = NoPass
        /\ interrupts = 0
        /\ stranded = FALSE

----------------------------------------------------------------------------
(* What the statements do.                                                 *)

Version == working[Cursor].recorded

\* dirtyTables, after everything staged has been unstaged, without the cursor.
DirtyTables == {t \in Tables \ {Cursor} : working[t] # head[t]}

\* pendingMigrationDirtyTables: a table that a pending migration would alter.
PendingTouches == UNION {Touches[v] : v \in (Version + 1)..Latest}

MarkerRecorded == local.ignored >= Marker

NeedsBackfill == configured /\ ~working["custom_types"].filled

WorkNeeded ==
    \/ Version < Latest
    \/ local.ignored < LatestIgnored
    \/ ~working[Cursor].filled
    \/ NeedsBackfill

\* Tables left dirty by users; those of an unfinished re-key are its own.
DirtyBefore == IF local.sentinel THEN DirtyTables \ {"events"} ELSE DirtyTables

\* Only one pass runs: the named lock of the server, or the file lock of an
\* embedded database.
LockFree == pc = "idle"

----------------------------------------------------------------------------
(* MigrateUp.                                                              *)

\* It gives up when a pending migration would alter a table with changes that
\* are not committed; what was staged has been unstaged by then.
RefusePass ==
    /\ LockFree /\ WorkNeeded
    /\ DirtyBefore \cap PendingTouches # {}
    /\ staged' = head
    /\ UNCHANGED <<working, head, local, legacy, configured, pc, pass, interrupts, stranded>>

BeginPass ==
    /\ LockFree /\ WorkNeeded
    /\ DirtyBefore \cap PendingTouches = {}
    /\ staged' = head
    /\ pass' = [dirty |-> DirtyBefore, before |-> Version, resumed |-> local.sentinel,
                snapshot |-> working, done |-> {}, wrote |-> FALSE]
    /\ pc' = "bootstrap"
    /\ UNCHANGED <<working, head, local, legacy, configured, interrupts, stranded>>

\* CREATE TABLE IF NOT EXISTS of the cursor, and the column that older ones lack.
EnsureContentHashColumn ==
    /\ pc = "bootstrap"
    /\ working' = [working EXCEPT ![Cursor].filled = TRUE]
    /\ pass' = [pass EXCEPT !.wrote = Version > 0 /\ ~working[Cursor].filled]
    /\ pc' = "main"
    /\ UNCHANGED <<staged, head, local, legacy, configured, interrupts, stranded>>

\* The body of the next migration, a table at a time.
ExecMigration(t) ==
    /\ pc = "main" /\ Version < Latest
    /\ t \in Touches[Version + 1] \ pass.done
    /\ working' = [working EXCEPT ![t].applied = @ \cup {Version + 1}]
    /\ pass' = [pass EXCEPT !.done = @ \cup {t}]
    /\ UNCHANGED <<staged, head, local, legacy, configured, pc, interrupts, stranded>>

RecordMigration ==
    /\ pc = "main" /\ Version < Latest
    /\ pass.done = Touches[Version + 1]
    /\ working' = [working EXCEPT ![Cursor].recorded = @ + 1]
    /\ pass' = [pass EXCEPT !.wrote = TRUE, !.done = {}]
    /\ UNCHANGED <<staged, head, local, legacy, configured, pc, interrupts, stranded>>

MainAtLatest ==
    /\ pc = "main" /\ Version = Latest
    /\ pc' = "backfill"
    /\ UNCHANGED <<working, staged, head, local, legacy, configured, pass, interrupts, stranded>>

BackfillCustomTypes ==
    /\ pc = "backfill"
    /\ IF NeedsBackfill
       THEN /\ working' = [working EXCEPT !["custom_types"].filled = TRUE]
            /\ pass' = [pass EXCEPT !.wrote = TRUE]
       ELSE UNCHANGED <<working, pass>>
    /\ pc' = "dependencies"
    /\ UNCHANGED <<staged, head, local, legacy, configured, interrupts, stranded>>

\* rekeyDependencyIDs: an UPDATE for each row whose id is not derived.
RekeyDependency(r) ==
    /\ pc = "dependencies"
    /\ r \in DepRows \ working["dependencies"].derived
    /\ working' = [working EXCEPT !["dependencies"].derived = @ \cup {r}]
    /\ pass' = [pass EXCEPT !.wrote = TRUE]
    /\ UNCHANGED <<staged, head, local, legacy, configured, pc, interrupts, stranded>>

DependenciesRekeyed ==
    /\ pc = "dependencies"
    /\ DepRows \subseteq working["dependencies"].derived
    /\ pc' = "gate"
    /\ UNCHANGED <<working, staged, head, local, legacy, configured, pass, interrupts, stranded>>

\* Mutant: an unfinished re-key is not looked for.
NoResume == ~MarkerRecorded /\ pass.before < Shipped

\* rekeyAuxRowIDs runs once in a clone, and not at all in one whose lineage has
\* been through it, unless it was interrupted here.
MustRekey == ~MarkerRecorded /\ (pass.before < Shipped \/ local.sentinel)

SkipRekey ==
    /\ pc = "gate" /\ ~MustRekey
    /\ pc' = "ignored"
    /\ UNCHANGED <<working, staged, head, local, legacy, configured, pass, interrupts, stranded>>

SetSentinel ==
    /\ pc = "gate" /\ MustRekey
    /\ local' = [local EXCEPT !.sentinel = TRUE]
    /\ pc' = "events"
    /\ UNCHANGED <<working, staged, head, legacy, configured, pass, interrupts, stranded>>

RekeyRow(r) ==
    /\ pc = "events"
    /\ r \in AuxRows \ working["events"].derived
    /\ working' = [working EXCEPT !["events"].derived = @ \cup {r}]
    /\ pass' = [pass EXCEPT !.wrote = TRUE]
    /\ UNCHANGED <<staged, head, local, legacy, configured, pc, interrupts, stranded>>

ClearSentinel ==
    /\ pc = "events"
    /\ AuxRows \subseteq working["events"].derived
    /\ local' = [local EXCEPT !.sentinel = FALSE]
    /\ pc' = "ignored"
    /\ UNCHANGED <<working, staged, head, legacy, configured, pass, interrupts, stranded>>

\* The clone-local migrations; one of them is the marker of the re-key.
RecordIgnored ==
    /\ pc = "ignored" /\ local.ignored < LatestIgnored
    /\ local' = [local EXCEPT !.ignored = @ + 1]
    /\ pass' = [pass EXCEPT !.wrote = TRUE]
    /\ UNCHANGED <<working, staged, head, legacy, configured, pc, interrupts, stranded>>

IgnoredAtLatest ==
    /\ pc = "ignored" /\ local.ignored = LatestIgnored
    /\ pc' = "settle"
    /\ UNCHANGED <<working, staged, head, local, legacy, configured, pass, interrupts, stranded>>

\* changedDirtyTableSignatures: a table the user had left dirty is not as it was.
ChangedDirtyTables == {t \in pass.dirty : working[t] # pass.snapshot[t]}

EndPass == pc' = "idle" /\ pass' = NoPass

\* The pass returns with nothing to commit, or with an error that leaves what it
\* did in the working set.
LeaveUncommitted ==
    /\ pc = "settle"
    /\ ~pass.wrote \/ ChangedDirtyTables # {}
    /\ EndPass
    /\ UNCHANGED <<working, staged, head, local, legacy, configured, interrupts, stranded>>

\* Mutant: every dirty table is staged.
StagedAll == working

\* Mutant: which tables are dirty is read after the migrations have run.
StagedLate ==
    [t \in Tables |-> IF t # Cursor /\ working[t] # head[t] THEN staged[t] ELSE working[t]]

\* stageSchemaTables: what was dirty before the pass is not staged.
StagedTables == [t \in Tables |-> IF t \in pass.dirty THEN staged[t] ELSE working[t]]

StageSchemaTables ==
    /\ pc = "settle"
    /\ pass.wrote /\ ChangedDirtyTables = {}
    /\ staged' = StagedTables
    /\ pc' = "commit"
    /\ UNCHANGED <<working, head, local, legacy, configured, pass, interrupts, stranded>>

CommitPass ==
    /\ pc = "commit"
    /\ head' = staged
    /\ EndPass
    /\ UNCHANGED <<working, staged, local, legacy, configured, interrupts, stranded>>

MigrateUp ==
    \/ RefusePass \/ BeginPass \/ EnsureContentHashColumn
    \/ \E t \in Tables : ExecMigration(t)
    \/ RecordMigration \/ MainAtLatest \/ BackfillCustomTypes
    \/ \E r \in DepRows : RekeyDependency(r)
    \/ DependenciesRekeyed \/ SkipRekey \/ SetSentinel
    \/ \E r \in AuxRows : RekeyRow(r)
    \/ ClearSentinel \/ RecordIgnored \/ IgnoredAtLatest
    \/ LeaveUncommitted \/ StageSchemaTables \/ CommitPass

----------------------------------------------------------------------------
(* What happens around it.                                                 *)

\* The version that knows the re-key is recorded, the sentinel is not set yet.
InWindow ==
    /\ pc \in {"main", "backfill", "dependencies", "gate"}
    /\ pass.before < Shipped /\ Version >= Shipped
    /\ ~local.sentinel /\ ~MarkerRecorded

\* The process dies, or MigrateUp returns an error: a statement fails, or a
\* pending clone-local migration would alter a table that was dirty.
Interrupt ==
    /\ pc # "idle" /\ interrupts < MaxInterrupts
    /\ interrupts' = interrupts + 1
    /\ stranded' = (stranded \/ InWindow)
    /\ EndPass
    /\ UNCHANGED <<working, staged, head, local, legacy, configured>>

\* Users of this or of an older binary change rows, also while a pass runs, which
\* the lock does not keep out; between passes they stage tables and commit.
Edits == UNION {{t} \X (1..working[t].edits) : t \in Tables}

Edit(t) ==
    /\ t # Cursor /\ Version > 0
    /\ Cardinality(Edits) < MaxEdits
    /\ working' = [working EXCEPT ![t].edits = @ + 1]
    /\ UNCHANGED <<staged, head, local, legacy, configured, pc, pass, interrupts, stranded>>

StageByHand(t) ==
    /\ pc = "idle" /\ staged[t] # working[t]
    /\ staged' = [staged EXCEPT ![t] = working[t]]
    /\ UNCHANGED <<working, head, local, legacy, configured, pc, pass, interrupts, stranded>>

CommitAll ==
    /\ pc = "idle"
    /\ head' = working /\ staged' = working
    /\ UNCHANGED <<working, local, legacy, configured, pc, pass, interrupts, stranded>>

MigrationNext ==
    \/ MigrateUp \/ Interrupt \/ CommitAll
    \/ \E t \in Tables : Edit(t) \/ StageByHand(t)

MigrationSpec == MigrationInit /\ [][MigrationNext]_migrationVars

----------------------------------------------------------------------------
(* Properties.                                                             *)

MigrationTypeOK ==
    /\ working \in [Tables -> Contents] /\ staged \in [Tables -> Contents]
    /\ head \in [Tables -> Contents]
    /\ local \in [ignored : 0..LatestIgnored, sentinel : BOOLEAN]
    /\ legacy \in BOOLEAN /\ configured \in BOOLEAN
    /\ pc \in {"idle", "bootstrap", "main", "backfill", "dependencies", "gate",
               "events", "ignored", "settle", "commit"}
    /\ pass \in Passes
    /\ interrupts \in 0..MaxInterrupts
    /\ stranded \in BOOLEAN

\* Once a clone has recorded the marker, which it never takes back, no row of its
\* lineage keeps a made-up id, although passes died on the way (the sentinel of
\* rekeyAuxRowIDs), unless one of them died in the window: when it had recorded the
\* shipped version and not yet set the sentinel.  The next pass takes such a clone for a
\* fresh one, skips the re-key, and records the marker over the rows.
MarkerMeansRekeyed ==
    legacy /\ MarkerRecorded /\ ~stranded => AuxRows \subseteq working["events"].derived

\* A clone of a lineage that has been through the re-key keeps the ids it got,
\* so that new clones do not commit a rewrite of the table each.
ConvergedIdsKept == ~legacy => working["events"].derived \cap AuxRows = {}

\* The re-key rewrites what it must, unless a pass died in that window, and nothing that
\* it need not.
RekeyedWhereDue == MarkerMeansRekeyed /\ ConvergedIdsKept

\* The commit of a migration takes no change along in a table that a user had left
\* uncommitted when the pass began, nor one made to it meanwhile, except in the
\* tables of a re-key it resumes (stageSchemaTables).
OwnChangesOnly ==
    [][ CommitPass =>
        \A t \in Tables :
            \/ head'[t].edits = head[t].edits
            \/ pass.snapshot[t].edits = head[t].edits
            \/ t = "events" /\ pass.resumed ]_migrationVars

\* As long as no pass has died, a commit that has a version recorded has what
\* the version did, so a clone of it may trust the cursor (MigrateUp stages the
\* cursor together with the tables).
CommittedCursorHonest ==
    interrupts = 0 =>
        \A v \in 1..head[Cursor].recorded : \A t \in Touches[v] : v \in head[t].applied
=============================================================================
