------------------------ MODULE SchemaMigrationsProofs ------------------------
(***************************************************************************)
(* Proofs about MigrateUp, for every list of migrations, every set of rows *)
(* and any number of passes that die: types, which ids are derived and     *)
(* which are kept, what a commit takes along, and what its cursor says.    *)
(***************************************************************************)
EXTENDS SchemaMigrations, TLAPS

Rekeyed == AuxRows \subseteq working["events"].derived

\* Between passes, a database at a version that knows the re-key has been
\* through it, or has the sentinel of the pass that began it.
Promised == local.sentinel \/ Rekeyed

Early == {"main", "backfill", "dependencies", "gate"}
Late == {"ignored", "settle", "commit"}

\* What each part of a pass can count on, in a lineage with made-up ids.
RekeyInv ==
    legacy /\ ~stranded =>
        /\ MarkerRecorded => Rekeyed
        /\ pc = "idle" /\ Version >= Shipped => Promised
        /\ pc = "bootstrap" => pass.before = Version
        /\ pc \in Early \cup {"bootstrap"} /\ pass.before >= Shipped => Promised
        /\ pc = "events" => local.sentinel
        /\ pc \in Late => Rekeyed

-----------------------------------------------------------------------------

LEMMA NoPassType == NoPass \in Passes
  BY VersionsAssumption DEF NoPass, Passes, Blank, Contents

\* A database as the tools leave it has the types declared.
LEMMA DatabaseType ==
    ASSUME NEW v \in 0..Latest, NEW hashed \in BOOLEAN
    PROVE  DatabaseAt(v, hashed) \in [Tables -> Contents]
<1> SUFFICES ASSUME NEW t \in Tables PROVE DatabaseAt(v, hashed)[t] \in Contents
  BY DEF DatabaseAt
<1> DEFINE old == {w \in 1..v : t \in Touches[w]}
           first == IF v > 0 THEN {} ELSE IF t = "events" THEN AuxRows
                    ELSE IF t = "dependencies" THEN DepRows ELSE {}
           column == t = Cursor /\ v > 0 /\ hashed
           cursor == IF t = Cursor THEN v ELSE 0
<1>1. old \in SUBSET (1..Latest) /\ cursor \in 0..Latest
  BY VersionsAssumption
<1>2. first \in SUBSET (AuxRows \cup DepRows)
  OBVIOUS
<1>3. column \in BOOLEAN
  OBVIOUS
<1>4. DatabaseAt(v, hashed)[t] =
        [applied |-> old, recorded |-> cursor, derived |-> first, edits |-> 0, filled |-> column]
  BY DEF DatabaseAt
<1> HIDE DEF old, first, column, cursor
<1> QED
  BY <1>1, <1>2, <1>3, <1>4 DEF Contents

LEMMA InitTyped == MigrationInit => MigrationTypeOK
<1> SUFFICES ASSUME MigrationInit PROVE MigrationTypeOK
  OBVIOUS
<1>1. PICK v \in 0..Latest, k \in 0..LatestIgnored, hashed \in BOOLEAN :
        head = DatabaseAt(v, hashed) /\ local = [ignored |-> k, sentinel |-> FALSE]
          /\ legacy = (v < Shipped)
  BY DEF MigrationInit
<1>4. /\ configured \in BOOLEAN /\ pc = "idle" /\ pass = NoPass
      /\ interrupts = 0 /\ stranded = FALSE
  BY DEF MigrationInit
<1>2. head \in [Tables -> Contents] /\ working = head /\ staged = head
  BY <1>1, DatabaseType DEF MigrationInit
<1>3. local \in [ignored : 0..LatestIgnored, sentinel : BOOLEAN] /\ legacy \in BOOLEAN
  BY <1>1
<1>5. stranded \in BOOLEAN
  BY <1>4, Zenon
<1>6. interrupts \in 0..MaxInterrupts /\ pass \in Passes
  BY <1>4, NoPassType, VersionsAssumption
<1> QED
  BY <1>2, <1>3, <1>4, <1>5, <1>6, Zenon DEF MigrationTypeOK

\* The content of a table after one of its fields has been set.
LEMMA SetField ==
    ASSUME NEW c \in Contents
    PROVE  /\ \A x \in SUBSET (1..Latest) : [c EXCEPT !.applied = x] \in Contents
           /\ \A x \in 0..Latest : [c EXCEPT !.recorded = x] \in Contents
           /\ \A x \in SUBSET (AuxRows \cup DepRows) : [c EXCEPT !.derived = x] \in Contents
           /\ \A x \in Nat : [c EXCEPT !.edits = x] \in Contents
           /\ \A x \in BOOLEAN : [c EXCEPT !.filled = x] \in Contents
  BY DEF Contents

LEMMA SetTable ==
    ASSUME MigrationTypeOK, NEW t \in Tables, NEW c \in Contents
    PROVE  [working EXCEPT ![t] = c] \in [Tables -> Contents]
  BY DEF MigrationTypeOK

LEMMA Fields ==
    ASSUME MigrationTypeOK, NEW t \in Tables
    PROVE  /\ working[t] \in Contents
           /\ working[t].applied \in SUBSET (1..Latest)
           /\ working[t].recorded \in 0..Latest
           /\ working[t].derived \in SUBSET (AuxRows \cup DepRows)
           /\ working[t].edits \in Nat
  BY DEF MigrationTypeOK, Contents

LEMMA PassFields ==
    ASSUME MigrationTypeOK
    PROVE  /\ \A x \in BOOLEAN : [pass EXCEPT !.wrote = x] \in Passes
           /\ \A x \in SUBSET Tables : [pass EXCEPT !.done = x] \in Passes
           /\ \A x \in BOOLEAN, d \in SUBSET Tables :
                 [pass EXCEPT !.wrote = x, !.done = d] \in Passes
           /\ pass.done \in SUBSET Tables
  BY DEF MigrationTypeOK, Passes

LEMMA TableNames == {"issues", "dependencies", "events", "custom_types", Cursor} \subseteq Tables
  BY DEF Tables

\* Every statement, and every change around a pass, keeps the types.
LEMMA NextTyped == MigrationTypeOK /\ [MigrationNext]_migrationVars => MigrationTypeOK'
<1> SUFFICES ASSUME MigrationTypeOK, [MigrationNext]_migrationVars PROVE MigrationTypeOK'
  OBVIOUS
<1>a. Version \in 0..Latest
  BY Fields, TableNames DEF Version
<1>1. CASE UNCHANGED migrationVars
  BY <1>1 DEF migrationVars, MigrationTypeOK
<1>2. CASE RefusePass \/ MainAtLatest \/ DependenciesRekeyed \/ SkipRekey \/ SetSentinel
           \/ ClearSentinel \/ IgnoredAtLatest
  BY <1>2 DEF MigrationTypeOK, RefusePass, MainAtLatest, DependenciesRekeyed, SkipRekey, SetSentinel,
              ClearSentinel, IgnoredAtLatest
<1>3. CASE BeginPass
  <2>1. DirtyBefore \in SUBSET Tables
    BY DEF DirtyBefore, DirtyTables
  <2>2. pass' \in Passes
    BY <1>3, <1>a, <2>1 DEF BeginPass, Passes, MigrationTypeOK
  <2> QED
    BY <1>3, <2>2 DEF MigrationTypeOK, BeginPass
<1>4. CASE EnsureContentHashColumn
  <2>1. working' = [working EXCEPT ![Cursor] = [working[Cursor] EXCEPT !.filled = TRUE]]
    BY <1>4 DEF EnsureContentHashColumn
  <2>2. working' \in [Tables -> Contents]
    BY <2>1, Fields, SetField, SetTable, TableNames
  <2>3. pass' \in Passes
    BY <1>4, PassFields DEF EnsureContentHashColumn
  <2> QED
    BY <1>4, <2>2, <2>3 DEF MigrationTypeOK, EnsureContentHashColumn
<1>5. ASSUME NEW t \in Tables, ExecMigration(t) PROVE MigrationTypeOK'
  <2>1. working' = [working EXCEPT ![t] = [working[t] EXCEPT
                     !.applied = working[t].applied \cup {Version + 1}]]
    BY <1>5 DEF ExecMigration
  <2>2. working[t].applied \cup {Version + 1} \in SUBSET (1..Latest)
    BY <1>5, <1>a, Fields, VersionsAssumption DEF ExecMigration
  <2>3. working' \in [Tables -> Contents]
    BY <2>1, <2>2, Fields, SetField, SetTable
  <2>4. pass' \in Passes
    BY <1>5, PassFields DEF ExecMigration
  <2> QED
    BY <1>5, <2>3, <2>4 DEF MigrationTypeOK, ExecMigration
<1>6. CASE RecordMigration
  <2>1. working' = [working EXCEPT ![Cursor] = [working[Cursor] EXCEPT !.recorded = Version + 1]]
    BY <1>6 DEF RecordMigration, Version
  <2>2. Version + 1 \in 0..Latest
    BY <1>6, <1>a, VersionsAssumption DEF RecordMigration
  <2>3. working' \in [Tables -> Contents]
    BY <2>1, <2>2, Fields, SetField, SetTable, TableNames
  <2>4. pass' \in Passes
    BY <1>6, PassFields DEF RecordMigration
  <2> QED
    BY <1>6, <2>3, <2>4 DEF MigrationTypeOK, RecordMigration
<1>7. CASE BackfillCustomTypes
  <2>1. [working EXCEPT !["custom_types"] = [working["custom_types"] EXCEPT !.filled = TRUE]]
            \in [Tables -> Contents]
    BY Fields, SetField, SetTable, TableNames
  <2>2. working' \in [Tables -> Contents] /\ pass' \in Passes
    BY <1>7, <2>1, PassFields DEF BackfillCustomTypes, MigrationTypeOK
  <2> QED
    BY <1>7, <2>2 DEF MigrationTypeOK, BackfillCustomTypes
<1>8. ASSUME NEW r \in DepRows, RekeyDependency(r) PROVE MigrationTypeOK'
  <2>1. working' = [working EXCEPT !["dependencies"] = [working["dependencies"] EXCEPT
                     !.derived = working["dependencies"].derived \cup {r}]]
    BY <1>8 DEF RekeyDependency
  <2>2. working["dependencies"].derived \cup {r} \in SUBSET (AuxRows \cup DepRows)
    BY <1>8, Fields, TableNames
  <2>3. working' \in [Tables -> Contents]
    BY <2>1, <2>2, Fields, SetField, SetTable, TableNames
  <2>4. pass' \in Passes
    BY <1>8, PassFields DEF RekeyDependency
  <2> QED
    BY <1>8, <2>3, <2>4 DEF MigrationTypeOK, RekeyDependency
<1>9. ASSUME NEW r \in AuxRows, RekeyRow(r) PROVE MigrationTypeOK'
  <2>1. working' = [working EXCEPT !["events"] = [working["events"] EXCEPT
                     !.derived = working["events"].derived \cup {r}]]
    BY <1>9 DEF RekeyRow
  <2>2. working["events"].derived \cup {r} \in SUBSET (AuxRows \cup DepRows)
    BY <1>9, Fields, TableNames
  <2>3. working' \in [Tables -> Contents]
    BY <2>1, <2>2, Fields, SetField, SetTable, TableNames
  <2>4. pass' \in Passes
    BY <1>9, PassFields DEF RekeyRow
  <2> QED
    BY <1>9, <2>3, <2>4 DEF MigrationTypeOK, RekeyRow
<1>10. CASE RecordIgnored
  <2>1. local' \in [ignored : 0..LatestIgnored, sentinel : BOOLEAN]
    BY <1>10, VersionsAssumption DEF RecordIgnored, MigrationTypeOK
  <2>2. pass' \in Passes
    BY <1>10, PassFields DEF RecordIgnored
  <2> QED
    BY <1>10, <2>1, <2>2 DEF MigrationTypeOK, RecordIgnored
<1>11. CASE LeaveUncommitted \/ CommitPass
  BY <1>11, NoPassType DEF MigrationTypeOK, LeaveUncommitted, CommitPass, EndPass
<1>12. CASE Interrupt
  <2>1. interrupts' \in 0..MaxInterrupts
    BY <1>12, VersionsAssumption DEF Interrupt, MigrationTypeOK
  <2> QED
    BY <1>12, <2>1, NoPassType DEF MigrationTypeOK, Interrupt, EndPass
<1>13. CASE StageSchemaTables
  <2>1. StagedTables \in [Tables -> Contents]
    BY DEF StagedTables, MigrationTypeOK
  <2> QED
    BY <1>13, <2>1 DEF MigrationTypeOK, StageSchemaTables
<1>14. ASSUME NEW t \in Tables, Edit(t) PROVE MigrationTypeOK'
  <2>1. working' = [working EXCEPT ![t] = [working[t] EXCEPT !.edits = working[t].edits + 1]]
    BY <1>14 DEF Edit
  <2>2. working[t].edits + 1 \in Nat
    BY Fields
  <2>3. working' \in [Tables -> Contents]
    BY <2>1, <2>2, Fields, SetField, SetTable
  <2> QED
    BY <1>14, <2>3 DEF MigrationTypeOK, Edit
<1>15. ASSUME NEW t \in Tables, StageByHand(t) PROVE MigrationTypeOK'
  BY <1>15, Fields DEF MigrationTypeOK, StageByHand
<1>16. CASE CommitAll
  BY <1>16 DEF MigrationTypeOK, CommitAll
<1> QED
  BY <1>1, <1>2, <1>3, <1>4, <1>5, <1>6, <1>7, <1>8, <1>9, <1>10, <1>11, <1>12, <1>13, <1>14,
     <1>15, <1>16
  DEF MigrationNext, MigrateUp

\* The declared types hold in every state (the model's TypeOK).
THEOREM MigrationTypes == MigrationSpec => []MigrationTypeOK
  BY InitTyped, NextTyped, PTL DEF MigrationSpec

-----------------------------------------------------------------------------

LEMMA InitRekey == MigrationInit => RekeyInv
<1> SUFFICES ASSUME MigrationInit, legacy PROVE RekeyInv
  BY DEF RekeyInv
<1>1. PICK v \in 0..Latest, k \in 0..LatestIgnored, hashed \in BOOLEAN :
        /\ head = DatabaseAt(v, hashed) /\ local = [ignored |-> k, sentinel |-> FALSE]
        /\ v < Shipped /\ k < Marker
  BY DEF MigrationInit
<1>a. Version = v
  BY <1>1, TableNames DEF MigrationInit, Version, DatabaseAt
<1>2. ~MarkerRecorded /\ ~(Version >= Shipped)
  BY <1>1, <1>a, VersionsAssumption DEF MarkerRecorded
<1> QED
  BY <1>2 DEF MigrationInit, RekeyInv, Early, Late

\* Ids once derived stay, whatever is done to the tables.
LEMMA DerivedStays ==
    ASSUME MigrationTypeOK, MigrationNext
    PROVE  working["events"].derived \subseteq working'["events"].derived
<1> USE TableNames
<1>1. ASSUME NEW t \in Tables, ExecMigration(t)
      PROVE  working'["events"].derived = working["events"].derived
  BY <1>1 DEF ExecMigration, MigrationTypeOK, Contents
<1>2. ASSUME NEW t \in Tables, Edit(t)
      PROVE  working'["events"].derived = working["events"].derived
  BY <1>2 DEF Edit, MigrationTypeOK, Contents
<1>3. ASSUME NEW r \in DepRows, RekeyDependency(r)
      PROVE  working'["events"] = working["events"]
  BY <1>3 DEF RekeyDependency, MigrationTypeOK
<1>4. ASSUME NEW r \in AuxRows, RekeyRow(r)
      PROVE  working'["events"].derived = working["events"].derived \cup {r}
  BY <1>4 DEF RekeyRow, MigrationTypeOK, Contents
<1>5. CASE EnsureContentHashColumn \/ RecordMigration \/ BackfillCustomTypes
  BY <1>5 DEF EnsureContentHashColumn, RecordMigration, BackfillCustomTypes, MigrationTypeOK, Cursor
<1>6. CASE UNCHANGED working
  BY <1>6
<1> QED
  BY <1>1, <1>2, <1>3, <1>4, <1>5, <1>6
  DEF MigrationNext, MigrateUp, RefusePass, BeginPass, MainAtLatest, DependenciesRekeyed, SkipRekey,
      SetSentinel, ClearSentinel, RecordIgnored, IgnoredAtLatest, LeaveUncommitted,
      StageSchemaTables, CommitPass, Interrupt, StageByHand, CommitAll

\* The version moves only when a migration is recorded.
LEMMA VersionStays ==
    ASSUME MigrationTypeOK, MigrationNext
    PROVE  Version' = Version \/ RecordMigration
<1> USE TableNames DEF Version
<1>1. ASSUME NEW t \in Tables, ExecMigration(t) PROVE Version' = Version
  BY <1>1 DEF ExecMigration, MigrationTypeOK, Contents
<1>2. ASSUME NEW t \in Tables, Edit(t) PROVE Version' = Version
  BY <1>2 DEF Edit, MigrationTypeOK, Contents
<1>3. ASSUME NEW r \in DepRows, RekeyDependency(r) PROVE Version' = Version
  BY <1>3 DEF RekeyDependency, MigrationTypeOK, Cursor
<1>4. ASSUME NEW r \in AuxRows, RekeyRow(r) PROVE Version' = Version
  BY <1>4 DEF RekeyRow, MigrationTypeOK, Cursor
<1>5. CASE BackfillCustomTypes
  BY <1>5 DEF BackfillCustomTypes, MigrationTypeOK, Cursor
<1>6. CASE EnsureContentHashColumn
  BY <1>6 DEF EnsureContentHashColumn, MigrationTypeOK, Contents
<1>7. CASE UNCHANGED working
  BY <1>7
<1> QED
  BY <1>1, <1>2, <1>3, <1>4, <1>5, <1>6, <1>7
  DEF MigrationNext, MigrateUp, RefusePass, BeginPass, MainAtLatest, DependenciesRekeyed, SkipRekey,
      SetSentinel, ClearSentinel, RecordIgnored, IgnoredAtLatest, LeaveUncommitted,
      StageSchemaTables, CommitPass, Interrupt, StageByHand, CommitAll

\* A step of a pass keeps what the pass counts on, and so do its death outside of the
\* window and the changes around it.
LEMMA NextRekey ==
    ASSUME MigrationTypeOK, RekeyInv, [MigrationNext]_migrationVars
    PROVE  RekeyInv'
<1> SUFFICES ASSUME legacy', ~stranded' PROVE RekeyInv'
  BY DEF RekeyInv
<1>1. CASE UNCHANGED migrationVars
  BY <1>1 DEF migrationVars, RekeyInv, Promised, Rekeyed, MarkerRecorded, Version
<1> SUFFICES ASSUME MigrationNext PROVE RekeyInv'
  BY <1>1
<1>a. legacy /\ ~stranded
  <2>1. CASE Interrupt
    BY <2>1, Zenon DEF Interrupt
  <2>2. CASE ~Interrupt
    <3>1. legacy' = legacy /\ stranded' = stranded
      BY <2>2
      DEF MigrationNext, MigrateUp, RefusePass, BeginPass, EnsureContentHashColumn, ExecMigration,
          RecordMigration, MainAtLatest, BackfillCustomTypes, RekeyDependency, DependenciesRekeyed,
          SkipRekey, SetSentinel, RekeyRow, ClearSentinel, RecordIgnored, IgnoredAtLatest,
          LeaveUncommitted, StageSchemaTables, CommitPass, Edit, StageByHand, CommitAll
    <3> QED
      BY <3>1
  <2> QED
    BY <2>1, <2>2
<1>b. Rekeyed => Rekeyed'
  BY DerivedStays DEF Rekeyed
<1>c. Version \in Nat /\ Version' \in Nat /\ pass.before \in Nat /\ local.ignored \in Nat
  <2>1. MigrationTypeOK'
    BY NextTyped
  <2>2. working' \in [Tables -> Contents]
    BY <2>1 DEF MigrationTypeOK
  <2>3. working[Cursor] \in Contents /\ working'[Cursor] \in Contents
    BY <2>2, TableNames DEF MigrationTypeOK
  <2>4. Version \in Nat /\ Version' \in Nat
    BY <2>3, VersionsAssumption DEF Version, Contents
  <2>5. pass.before \in Nat /\ local.ignored \in Nat
    BY VersionsAssumption DEF MigrationTypeOK, Passes
  <2> QED
    BY <2>4, <2>5
<1>2. CASE pc = "idle" /\ pc' = "idle" /\ Version' = Version /\ local' = local
  BY <1>2, <1>a, <1>b DEF RekeyInv, Promised, MarkerRecorded, Early, Late
<1>3. CASE BeginPass
  BY <1>3, <1>a, <1>b DEF BeginPass, RekeyInv, Promised, MarkerRecorded, Early, Late, Version, LockFree
<1>4. CASE EnsureContentHashColumn
  <2>1. pass'.before = pass.before
    BY <1>4 DEF EnsureContentHashColumn, MigrationTypeOK, Passes
  <2> QED
    BY <1>4, <2>1, <1>a, <1>b
    DEF EnsureContentHashColumn, RekeyInv, Promised, MarkerRecorded, Early, Late
<1>5. CASE /\ pc \in Early /\ pc' \in Early
           /\ local' = local /\ pass'.before = pass.before
  BY <1>5, <1>a, <1>b DEF RekeyInv, Promised, MarkerRecorded, Early, Late
<1>6. CASE SkipRekey
  <2>1. Rekeyed
    BY <1>6, <1>a, <1>c, VersionsAssumption
    DEF SkipRekey, MustRekey, RekeyInv, Promised, MarkerRecorded, Early
  <2> QED
    BY <1>6, <2>1, <1>b DEF SkipRekey, RekeyInv, Promised, Early, Late
<1>7. CASE SetSentinel
  <2>1. local'.sentinel /\ local'.ignored = local.ignored
    BY <1>7 DEF SetSentinel, MigrationTypeOK
  <2> QED
    BY <1>7, <2>1, <1>a, <1>b DEF SetSentinel, RekeyInv, MarkerRecorded, Early, Late
<1>8. ASSUME NEW r \in AuxRows, RekeyRow(r) PROVE RekeyInv'
  BY <1>8, <1>a, <1>b DEF RekeyRow, RekeyInv, MarkerRecorded, Early, Late
<1>9. CASE ClearSentinel
  <2>1. Rekeyed
    BY <1>9 DEF ClearSentinel, Rekeyed
  <2> QED
    BY <1>9, <2>1, <1>b DEF ClearSentinel, RekeyInv, Promised, Early, Late
<1>10. CASE pc \in Late /\ pc' \in Late \cup {"idle"}
  BY <1>10, <1>a, <1>b DEF RekeyInv, Promised, Early, Late
<1>11. CASE Interrupt
  <2>1. pc' = "idle" /\ Version' = Version /\ local' = local /\ (Rekeyed' = Rekeyed)
    BY <1>11 DEF Interrupt, EndPass, Version, Rekeyed
  <2>2. pc \in Early \cup Late \cup {"bootstrap", "events"}
    BY <1>11 DEF Interrupt, MigrationTypeOK, Early, Late
  <2>3. Version >= Shipped => Promised
    <3> SUFFICES ASSUME Version >= Shipped PROVE Promised
      OBVIOUS
    <3>1. CASE pc = "bootstrap"
      BY <3>1, <1>a DEF RekeyInv
    <3>2. CASE pc \in Early /\ pass.before >= Shipped
      BY <3>2, <1>a DEF RekeyInv
    <3>3. CASE pc \in Early /\ pass.before < Shipped
      <4>1. ~InWindow /\ (MarkerRecorded => Rekeyed)
        BY <1>11, <1>a, Zenon DEF Interrupt, RekeyInv
      <4> QED
        BY <3>3, <4>1 DEF InWindow, Promised, Early
    <3>4. CASE pc = "events" \/ pc \in Late
      BY <3>4, <1>a DEF RekeyInv, Promised
    <3> QED
      BY <2>2, <3>1, <3>2, <3>3, <3>4, <1>c, VersionsAssumption
  <2> QED
    BY <2>1, <2>3, <1>a DEF RekeyInv, Promised, MarkerRecorded, Early, Late
<1>12. ASSUME NEW t \in Tables, ExecMigration(t) PROVE pass'.before = pass.before
  BY <1>12 DEF ExecMigration, MigrationTypeOK, Passes
<1>13. RecordMigration \/ BackfillCustomTypes => pass'.before = pass.before
  BY DEF RecordMigration, BackfillCustomTypes, MigrationTypeOK, Passes
<1>14. ASSUME NEW r \in DepRows, RekeyDependency(r) PROVE pass'.before = pass.before
  BY <1>14 DEF RekeyDependency, MigrationTypeOK, Passes
<1>15. ~RecordMigration => Version' = Version
  BY VersionStays
<1>16. ASSUME NEW t \in Tables, ExecMigration(t) PROVE RekeyInv'
  BY <1>16, <1>5, <1>12 DEF ExecMigration, Early
<1>17. CASE RecordMigration \/ BackfillCustomTypes \/ MainAtLatest \/ DependenciesRekeyed
  BY <1>17, <1>5, <1>13
  DEF RecordMigration, BackfillCustomTypes, MainAtLatest, DependenciesRekeyed, Early
<1>18. ASSUME NEW r \in DepRows, RekeyDependency(r) PROVE RekeyInv'
  BY <1>18, <1>5, <1>14 DEF RekeyDependency, Early
<1>19. CASE RecordIgnored \/ IgnoredAtLatest \/ LeaveUncommitted \/ StageSchemaTables \/ CommitPass
  BY <1>19, <1>10
  DEF RecordIgnored, IgnoredAtLatest, LeaveUncommitted, StageSchemaTables, CommitPass, EndPass, Late
<1>20. CASE RefusePass \/ CommitAll
  BY <1>20, <1>2, <1>15 DEF RefusePass, CommitAll, LockFree, RecordMigration
<1>21. ASSUME NEW t \in Tables, StageByHand(t) PROVE RekeyInv'
  BY <1>21, <1>2, <1>15 DEF StageByHand, RecordMigration
<1>22. ASSUME NEW t \in Tables, Edit(t) PROVE RekeyInv'
  <2>1. Version' = Version
    BY <1>22 DEF Edit, Version, MigrationTypeOK, Contents
  <2> QED
    BY <1>22, <2>1, <1>a, <1>b DEF Edit, RekeyInv, Promised, MarkerRecorded
<1> QED
  BY <1>3, <1>4, <1>6, <1>7, <1>8, <1>9, <1>11, <1>16, <1>17, <1>18, <1>19, <1>20, <1>21,
     <1>22
  DEF MigrationNext, MigrateUp

\* As long as no pass has died between recording the version that knows the re-key and
\* setting the sentinel (~stranded), a clone that has recorded the marker has no row left
\* with a made-up id, wherever else passes die: rekeyAuxRowIDs and its sentinel lose nothing.
THEOREM NoRowLeftBehind == MigrationSpec => []MarkerMeansRekeyed
<1>1. MigrationTypeOK /\ RekeyInv /\ [MigrationNext]_migrationVars => RekeyInv'
  BY NextRekey
<1>2. RekeyInv => MarkerMeansRekeyed
  BY DEF RekeyInv, MarkerMeansRekeyed, Rekeyed
<1> QED
  BY <1>1, <1>2, InitTyped, NextTyped, InitRekey, PTL DEF MigrationSpec

-----------------------------------------------------------------------------
(* A lineage that has been through the re-key.                             *)

\* Its version, and the one a pass began at, know the re-key; no pass comes to
\* the rows.
ConvergedInv ==
    ~legacy =>
        /\ Version >= Shipped
        /\ pc # "idle" => pass.before >= Shipped
        /\ ~local.sentinel /\ pc # "events"
        /\ working["events"].derived \cap AuxRows = {}

LEMMA InitConverged == MigrationInit => ConvergedInv
<1> SUFFICES ASSUME MigrationInit, ~legacy PROVE ConvergedInv
  BY DEF ConvergedInv
<1>1. PICK v \in 0..Latest, k \in 0..LatestIgnored, hashed \in BOOLEAN :
        /\ head = DatabaseAt(v, hashed) /\ local = [ignored |-> k, sentinel |-> FALSE]
        /\ legacy = (v < Shipped)
  BY DEF MigrationInit
<1>a. Version = v
  BY <1>1, TableNames DEF MigrationInit, Version, DatabaseAt
<1>b. ~(v < Shipped)
  BY <1>1, Zenon
<1>2. Version >= Shipped /\ v > 0
  BY <1>a, <1>b, VersionsAssumption
<1>3. working["events"].derived = {}
  BY <1>1, <1>2, TableNames DEF MigrationInit, DatabaseAt
<1> QED
  BY <1>1, <1>2, <1>3 DEF MigrationInit, ConvergedInv

\* Only the re-key of the events derives ids of events.
LEMMA OnlyRekeyDerives ==
    ASSUME MigrationTypeOK, MigrationNext
    PROVE  \/ working'["events"].derived = working["events"].derived
           \/ pc = "events"
<1> USE TableNames
<1>1. ASSUME NEW t \in Tables, ExecMigration(t)
      PROVE  working'["events"].derived = working["events"].derived
  BY <1>1 DEF ExecMigration, MigrationTypeOK, Contents
<1>2. ASSUME NEW t \in Tables, Edit(t)
      PROVE  working'["events"].derived = working["events"].derived
  BY <1>2 DEF Edit, MigrationTypeOK, Contents
<1>3. ASSUME NEW r \in DepRows, RekeyDependency(r)
      PROVE  working'["events"] = working["events"]
  BY <1>3 DEF RekeyDependency, MigrationTypeOK
<1>4. CASE EnsureContentHashColumn \/ RecordMigration \/ BackfillCustomTypes
  BY <1>4 DEF EnsureContentHashColumn, RecordMigration, BackfillCustomTypes, MigrationTypeOK, Cursor
<1>5. CASE UNCHANGED working
  BY <1>5
<1> QED
  BY <1>1, <1>2, <1>3, <1>4, <1>5
  DEF MigrationNext, MigrateUp, RefusePass, BeginPass, MainAtLatest, DependenciesRekeyed, SkipRekey,
      SetSentinel, RekeyRow, ClearSentinel, RecordIgnored, IgnoredAtLatest, LeaveUncommitted,
      StageSchemaTables, CommitPass, Interrupt, StageByHand, CommitAll

\* The version never falls.
LEMMA VersionRises ==
    ASSUME MigrationTypeOK, MigrationNext
    PROVE  Version \in Nat /\ Version' \in Nat /\ Version' >= Version
<1>1. Version \in 0..Latest
  BY Fields, TableNames DEF Version
<1>2. CASE RecordMigration
  <2>1. working'[Cursor].recorded = working[Cursor].recorded + 1
    BY <1>2, TableNames DEF RecordMigration, MigrationTypeOK, Contents
  <2> QED
    BY <1>1, <2>1, VersionsAssumption DEF Version
<1> QED
  BY <1>1, <1>2, VersionStays, VersionsAssumption

\* What a pass has noted when it began stays until it ends.
LEMMA NotesStay ==
    ASSUME MigrationTypeOK, MigrationNext, ~BeginPass
    PROVE  \/ pc' = "idle"
           \/ /\ pass'.before = pass.before
              /\ pass'.dirty = pass.dirty
<1>1. ASSUME NEW t \in Tables, ExecMigration(t)
      PROVE  pass'.before = pass.before /\ pass'.dirty = pass.dirty
  BY <1>1 DEF ExecMigration, MigrationTypeOK, Passes
<1>2. CASE EnsureContentHashColumn \/ RecordMigration \/ RecordIgnored
  BY <1>2 DEF EnsureContentHashColumn, RecordMigration, RecordIgnored, MigrationTypeOK, Passes
<1>3. CASE BackfillCustomTypes
  BY <1>3 DEF BackfillCustomTypes, MigrationTypeOK, Passes
<1>4. ASSUME NEW r \in DepRows, RekeyDependency(r)
      PROVE  pass'.before = pass.before /\ pass'.dirty = pass.dirty
  BY <1>4 DEF RekeyDependency, MigrationTypeOK, Passes
<1>5. ASSUME NEW r \in AuxRows, RekeyRow(r)
      PROVE  pass'.before = pass.before /\ pass'.dirty = pass.dirty
  BY <1>5 DEF RekeyRow, MigrationTypeOK, Passes
<1>6. CASE pc' = "idle" \/ pass' = pass
  BY <1>6
<1> QED
  BY <1>1, <1>2, <1>3, <1>4, <1>5, <1>6
  DEF MigrationNext, MigrateUp, RefusePass, MainAtLatest, DependenciesRekeyed, SkipRekey,
      SetSentinel, ClearSentinel, IgnoredAtLatest, LeaveUncommitted,
      StageSchemaTables, CommitPass, EndPass, Interrupt, Edit, StageByHand, CommitAll

LEMMA NextConverged ==
    ASSUME MigrationTypeOK, ConvergedInv, [MigrationNext]_migrationVars
    PROVE  ConvergedInv'
<1>1. CASE UNCHANGED migrationVars
  BY <1>1 DEF migrationVars, ConvergedInv, Version
<1> SUFFICES ASSUME MigrationNext, ~legacy' PROVE ConvergedInv'
  BY <1>1 DEF ConvergedInv
<1>a. ~legacy
  BY DEF MigrationNext, MigrateUp, RefusePass, BeginPass, EnsureContentHashColumn, ExecMigration,
         RecordMigration, MainAtLatest, BackfillCustomTypes, RekeyDependency, DependenciesRekeyed,
         SkipRekey, SetSentinel, RekeyRow, ClearSentinel, RecordIgnored, IgnoredAtLatest,
         LeaveUncommitted, StageSchemaTables, CommitPass, Interrupt, Edit, StageByHand, CommitAll
<1>b. Version >= Shipped /\ ~local.sentinel /\ pc # "events"
        /\ working["events"].derived \cap AuxRows = {}
  BY <1>a DEF ConvergedInv
<1>c. Shipped \in Nat /\ pass.before \in Nat
  BY VersionsAssumption DEF MigrationTypeOK, Passes
<1>2. working'["events"].derived \cap AuxRows = {}
  BY <1>b, OnlyRekeyDerives
<1>3. Version' >= Shipped
  BY <1>b, <1>c, VersionRises
<1>4. ~SetSentinel
  BY <1>a, <1>b, <1>c DEF SetSentinel, MustRekey, ConvergedInv
<1>5. pc' # "events"
  BY <1>b, <1>4
  DEF MigrationNext, MigrateUp, RefusePass, BeginPass, EnsureContentHashColumn, ExecMigration,
      RecordMigration, MainAtLatest, BackfillCustomTypes, RekeyDependency, DependenciesRekeyed,
      SkipRekey, RekeyRow, ClearSentinel, RecordIgnored, IgnoredAtLatest, LeaveUncommitted,
      StageSchemaTables, CommitPass, EndPass, Interrupt, Edit, StageByHand, CommitAll
<1>6. ~local'.sentinel
  <2>1. CASE RecordIgnored \/ ClearSentinel
    BY <2>1, <1>b DEF RecordIgnored, ClearSentinel, MigrationTypeOK
  <2>2. CASE local' = local
    BY <2>2, <1>b
  <2> QED
    BY <2>1, <2>2, <1>4
    DEF MigrationNext, MigrateUp, RefusePass, BeginPass, EnsureContentHashColumn, ExecMigration,
        RecordMigration, MainAtLatest, BackfillCustomTypes, RekeyDependency, DependenciesRekeyed,
        SkipRekey, RekeyRow, IgnoredAtLatest, LeaveUncommitted, StageSchemaTables, CommitPass,
        Interrupt, Edit, StageByHand, CommitAll
<1>7. pc' # "idle" => pass'.before >= Shipped
  <2>1. CASE BeginPass
    BY <2>1, <1>b DEF BeginPass
  <2>2. CASE pc = "idle" /\ ~BeginPass
    BY <2>2 DEF MigrationNext, MigrateUp, RefusePass, EnsureContentHashColumn, ExecMigration,
      RecordMigration, MainAtLatest, BackfillCustomTypes, RekeyDependency, DependenciesRekeyed,
      SkipRekey, SetSentinel, RekeyRow, ClearSentinel, RecordIgnored, IgnoredAtLatest,
      LeaveUncommitted, StageSchemaTables, CommitPass, EndPass, Interrupt, Edit, StageByHand,
      CommitAll
  <2>3. CASE pc # "idle" /\ ~BeginPass
    BY <2>3, <1>a, NotesStay DEF ConvergedInv
  <2> QED
    BY <2>1, <2>2, <2>3
<1> QED
  BY <1>2, <1>3, <1>5, <1>6, <1>7 DEF ConvergedInv

\* A clone of a lineage that has been through the re-key never rewrites its ids,
\* however many passes die and wherever (rekeyAuxRowIDs asks for the version
\* before the pass and for the sentinel).
THEOREM ConvergedTheorem == MigrationSpec => []ConvergedIdsKept
<1>1. ConvergedInv => ConvergedIdsKept
  BY DEF ConvergedInv, ConvergedIdsKept
<1>2. MigrationTypeOK /\ ConvergedInv /\ [MigrationNext]_migrationVars => ConvergedInv'
  BY NextConverged
<1> QED
  BY <1>1, <1>2, InitTyped, NextTyped, InitConverged, PTL DEF MigrationSpec

\* The re-key is done on the rows of an old lineage, by the time it is recorded as done,
\* unless a pass died in the window before its sentinel, and on no others.
THEOREM RekeyedTheorem == MigrationSpec => []RekeyedWhereDue
<1>1. MarkerMeansRekeyed /\ ConvergedIdsKept => RekeyedWhereDue
  BY DEF RekeyedWhereDue
<1> QED
  BY <1>1, NoRowLeftBehind, ConvergedTheorem, PTL

-----------------------------------------------------------------------------
(* What the committed cursor says.                                         *)

\* The migrations up to version n have been applied to every table they alter.
Whole(tables, n) == \A v \in 1..n : \A t \in Touches[v] : v \in tables[t].applied

\* A version is recorded after its statements, whatever passes died.
StatementsInv ==
    /\ Whole(working, Version)
    /\ \A t \in pass.done : Version + 1 \in working[t].applied

AfterMain == {"backfill", "dependencies", "gate", "events", "ignored", "settle", "commit"}
Settling == {"settle", "commit"}

\* What the stages of a pass behind it have done.
StagesInv ==
    /\ pc \in AfterMain => Version = Latest
    /\ pc \in AfterMain \cup {"main"} => working[Cursor].filled
    /\ pc \in AfterMain \ {"backfill"} => ~NeedsBackfill
    /\ pc \in Settling => local.ignored = LatestIgnored

\* Up to the first pass that dies: while there is work, nothing is applied that
\* is not committed; the tables a pass leaves out of its commit need none of the
\* migrations it runs.
CursorInv ==
    interrupts = 0 =>
        /\ Whole(head, head[Cursor].recorded)
        /\ pc = "idle" /\ WorkNeeded => \A t \in Tables : working[t].applied = head[t].applied
        /\ pc # "idle" => \A t \in pass.dirty : staged[t] = head[t]
        /\ pc # "idle" =>
              \A t \in pass.dirty : \A v \in 1..Latest : t \in Touches[v] => v \in head[t].applied
        /\ pc = "commit" => Whole(staged, Latest)

LEMMA InitCursor == MigrationInit => StatementsInv /\ StagesInv /\ CursorInv
<1> SUFFICES ASSUME MigrationInit PROVE StatementsInv /\ StagesInv /\ CursorInv
  OBVIOUS
<1>1. PICK v \in 0..Latest, k \in 0..LatestIgnored, hashed \in BOOLEAN :
        head = DatabaseAt(v, hashed)
  BY DEF MigrationInit
<1>2. working = head /\ pc = "idle" /\ pass = NoPass
  BY DEF MigrationInit
<1>3. head[Cursor].recorded = v
  BY <1>1, TableNames DEF DatabaseAt
<1>4. Whole(head, v)
  <2> SUFFICES ASSUME NEW w \in 1..v, NEW t \in Touches[w] PROVE w \in head[t].applied
    BY DEF Whole
  <2>1. t \in Tables
    BY VersionsAssumption
  <2> QED
    BY <1>1, <2>1 DEF DatabaseAt
<1> QED
  BY <1>2, <1>3, <1>4
  DEF StatementsInv, StagesInv, CursorInv, Version, NoPass, AfterMain, Settling

\* Only a migration applies anything; columns and rows once filled in stay.
LEMMA ContentStays ==
    ASSUME MigrationTypeOK, MigrationNext, NEW u \in Tables
    PROVE  /\ working'[u].filled \/ ~working[u].filled
           /\ \/ working'[u].applied = working[u].applied
              \/ ExecMigration(u) /\ working'[u].applied = working[u].applied \cup {Version + 1}
<1> USE TableNames
<1>1. ASSUME NEW t \in Tables, ExecMigration(t)
      PROVE  /\ working'[u].filled = working[u].filled
             /\ t # u => working'[u].applied = working[u].applied
             /\ t = u => working'[u].applied = working[u].applied \cup {Version + 1}
  BY <1>1 DEF ExecMigration, MigrationTypeOK, Contents
<1>2. ASSUME NEW t \in Tables, Edit(t)
      PROVE  working'[u].applied = working[u].applied /\ working'[u].filled = working[u].filled
  BY <1>2 DEF Edit, MigrationTypeOK, Contents
<1>3. ASSUME NEW r \in DepRows, RekeyDependency(r)
      PROVE  working'[u].applied = working[u].applied /\ working'[u].filled = working[u].filled
  BY <1>3 DEF RekeyDependency, MigrationTypeOK, Contents
<1>4. ASSUME NEW r \in AuxRows, RekeyRow(r)
      PROVE  working'[u].applied = working[u].applied /\ working'[u].filled = working[u].filled
  BY <1>4 DEF RekeyRow, MigrationTypeOK, Contents
<1>5. CASE EnsureContentHashColumn
  BY <1>5 DEF EnsureContentHashColumn, MigrationTypeOK, Contents
<1>6. CASE RecordMigration
  BY <1>6 DEF RecordMigration, MigrationTypeOK, Contents
<1>7. CASE BackfillCustomTypes
  <2>1. CASE NeedsBackfill
    <3>1. /\ working' = [working EXCEPT !["custom_types"].filled = TRUE]
          /\ working \in [Tables -> Contents]
      BY <1>7, <2>1 DEF BackfillCustomTypes, MigrationTypeOK
    <3>2. u # "custom_types" => working'[u] = working[u]
      BY <3>1
    <3>3. u = "custom_types" => working'[u].filled /\ working'[u].applied = working[u].applied
      BY <3>1 DEF Contents
    <3> QED
      BY <3>2, <3>3
  <2> QED
    BY <1>7, <2>1 DEF BackfillCustomTypes
<1>8. CASE UNCHANGED working
  BY <1>8
<1> QED
  BY <1>1, <1>2, <1>3, <1>4, <1>5, <1>6, <1>7, <1>8
  DEF MigrationNext, MigrateUp, RefusePass, BeginPass, MainAtLatest, DependenciesRekeyed, SkipRekey,
      SetSentinel, ClearSentinel, RecordIgnored, IgnoredAtLatest, LeaveUncommitted,
      StageSchemaTables, CommitPass, Interrupt, StageByHand, CommitAll

\* Outside the body of a migration no table is marked done.
LEMMA DoneStays ==
    ASSUME MigrationTypeOK, MigrationNext
    PROVE  \/ pass'.done \subseteq pass.done
           \/ \E t \in Tables : ExecMigration(t) /\ pass'.done = pass.done \cup {t}
<1>1. ASSUME NEW t \in Tables, ExecMigration(t) PROVE pass'.done = pass.done \cup {t}
  BY <1>1 DEF ExecMigration, MigrationTypeOK, Passes
<1>2. CASE EnsureContentHashColumn \/ RecordMigration \/ RecordIgnored
  BY <1>2 DEF EnsureContentHashColumn, RecordMigration, RecordIgnored, MigrationTypeOK, Passes
<1>3. CASE BackfillCustomTypes
  BY <1>3 DEF BackfillCustomTypes, MigrationTypeOK, Passes
<1>4. ASSUME NEW r \in DepRows, RekeyDependency(r) PROVE pass'.done = pass.done
  BY <1>4 DEF RekeyDependency, MigrationTypeOK, Passes
<1>5. ASSUME NEW r \in AuxRows, RekeyRow(r) PROVE pass'.done = pass.done
  BY <1>5 DEF RekeyRow, MigrationTypeOK, Passes
<1>6. CASE pass' = pass
  BY <1>6
<1>7. CASE pass' = NoPass \/ BeginPass
  BY <1>7 DEF NoPass, BeginPass
<1> QED
  BY <1>1, <1>2, <1>3, <1>4, <1>5, <1>6, <1>7
  DEF MigrationNext, MigrateUp, RefusePass, MainAtLatest, DependenciesRekeyed, SkipRekey,
      SetSentinel, ClearSentinel, IgnoredAtLatest, LeaveUncommitted,
      StageSchemaTables, CommitPass, EndPass, Interrupt, Edit, StageByHand, CommitAll

\* A step keeps that what is recorded has been applied.
LEMMA NextStatements ==
    ASSUME MigrationTypeOK, StatementsInv, MigrationNext
    PROVE  StatementsInv'
<1>a. Version \in 0..Latest /\ pass.done \in SUBSET Tables
  BY Fields, TableNames, PassFields DEF Version
<1>b. ASSUME NEW u \in Tables PROVE working[u].applied \subseteq working'[u].applied
  BY ContentStays
<1>c. ASSUME NEW v \in 1..Version, NEW t \in Touches[v] PROVE v \in working'[t].applied
  <2>1. v \in 1..Latest /\ t \in Tables
    BY <1>a, VersionsAssumption
  <2>2. v \in working[t].applied
    BY DEF StatementsInv, Whole
  <2> QED
    BY <2>1, <2>2, <1>b
<1>1. CASE RecordMigration
  <2>1. Version' = Version + 1 /\ pass'.done = {}
    BY <1>1, TableNames DEF RecordMigration, Version, MigrationTypeOK, Contents, Passes
  <2>2. ASSUME NEW t \in Touches[Version + 1] PROVE Version + 1 \in working'[t].applied
    <3>1. t \in pass.done
      BY <1>1, <2>2 DEF RecordMigration
    <3> QED
      BY <3>1, <1>a, <1>b DEF StatementsInv
  <2>3. ASSUME NEW v \in 1..(Version + 1), NEW t \in Touches[v] PROVE v \in working'[t].applied
    BY <2>2, <1>c, <1>a
  <2> QED
    BY <2>1, <2>3 DEF StatementsInv, Whole
<1>2. CASE ~RecordMigration
  <2>1. Version' = Version
    BY <1>2, VersionStays
  <2>2. Whole(working, Version)'
    BY <2>1, <1>c DEF Whole
  <2>3. ASSUME NEW u \in pass'.done PROVE Version + 1 \in working'[u].applied
    <3>1. CASE u \in pass.done
      BY <3>1, <1>a, <1>b DEF StatementsInv
    <3>2. CASE u \notin pass.done
      <4>1. PICK t \in Tables : ExecMigration(t) /\ pass'.done = pass.done \cup {t}
        BY <3>2, <2>3, DoneStays
      <4>2. t = u
        BY <4>1, <3>2
      <4> QED
        BY <4>1, <4>2, TableNames DEF ExecMigration, MigrationTypeOK, Contents
    <3> QED
      BY <3>1, <3>2
  <2> QED
    BY <2>1, <2>2, <2>3 DEF StatementsInv
<1> QED
  BY <1>1, <1>2

\* A step keeps what the stages of a pass stand for.
LEMMA NextStages ==
    ASSUME MigrationTypeOK, StagesInv, MigrationNext
    PROVE  StagesInv'
<1> USE TableNames
<1>a. working'[Cursor].filled \/ ~working[Cursor].filled
  BY ContentStays
<1>b. NeedsBackfill' => NeedsBackfill
  <2>1. configured' = configured
    BY DEF MigrationNext, MigrateUp, RefusePass, BeginPass, EnsureContentHashColumn, ExecMigration,
           RecordMigration, MainAtLatest, BackfillCustomTypes, RekeyDependency, DependenciesRekeyed,
           SkipRekey, SetSentinel, RekeyRow, ClearSentinel, RecordIgnored, IgnoredAtLatest,
           LeaveUncommitted, StageSchemaTables, CommitPass, Interrupt, Edit, StageByHand, CommitAll
  <2> QED
    BY <2>1, ContentStays DEF NeedsBackfill
<1>c. ~RecordMigration => Version' = Version
  BY VersionStays
<1>1. CASE RecordMigration
  BY <1>1, <1>a DEF RecordMigration, StagesInv, AfterMain, Settling
<1>2. CASE EnsureContentHashColumn
  <2>1. working'[Cursor].filled
    BY <1>2 DEF EnsureContentHashColumn, MigrationTypeOK, Contents
  <2> QED
    BY <1>2, <2>1 DEF EnsureContentHashColumn, StagesInv, AfterMain, Settling
<1>3. CASE MainAtLatest
  BY <1>3 DEF MainAtLatest, StagesInv, AfterMain, Settling, Version
<1>4. CASE BackfillCustomTypes
  <2>1. ~NeedsBackfill'
    BY <1>4, <1>b DEF BackfillCustomTypes, NeedsBackfill, MigrationTypeOK, Contents
  <2>2. Version' = Version
    BY <1>4, <1>c DEF BackfillCustomTypes, RecordMigration
  <2> QED
    BY <1>4, <2>1, <2>2, <1>a DEF BackfillCustomTypes, StagesInv, AfterMain, Settling
<1>5. CASE IgnoredAtLatest
  BY <1>5, <1>a, <1>b, <1>c DEF IgnoredAtLatest, StagesInv, AfterMain, Settling, Version, NeedsBackfill
<1>6. CASE pc' \in {"idle", "bootstrap"}
  BY <1>6 DEF StagesInv, AfterMain, Settling
<1>7. CASE pc' = pc /\ ~RecordMigration /\ (local' = local \/ pc' \notin Settling)
  BY <1>7, <1>a, <1>b, <1>c DEF StagesInv, AfterMain, Settling
<1>8. CASE DependenciesRekeyed \/ SkipRekey \/ SetSentinel \/ ClearSentinel
  <2>1. /\ pc \in AfterMain \ {"backfill"} /\ pc' \in AfterMain \ (Settling \cup {"backfill"})
        /\ Version' = Version
    BY <1>8 DEF DependenciesRekeyed, SkipRekey, SetSentinel, ClearSentinel, AfterMain, Settling,
                Version
  <2> QED
    BY <2>1, <1>a, <1>b DEF StagesInv, AfterMain, Settling
<1>9. CASE StageSchemaTables
  BY <1>9, <1>a, <1>b, <1>c DEF StageSchemaTables, StagesInv, AfterMain, Settling, RecordMigration
<1>10. CASE \/ RefusePass \/ BeginPass \/ LeaveUncommitted \/ CommitPass \/ Interrupt \/ CommitAll
            \/ \E t \in Tables : StageByHand(t)
  <2>1. pc' \in {"idle", "bootstrap"}
    BY <1>10 DEF RefusePass, BeginPass, LeaveUncommitted, CommitPass, EndPass, Interrupt, CommitAll,
                 StageByHand, LockFree
  <2> QED
    BY <2>1, <1>6
<1>11. CASE \/ \E t \in Tables : ExecMigration(t) \/ Edit(t)
            \/ \E r \in DepRows : RekeyDependency(r)
            \/ \E r \in AuxRows : RekeyRow(r)
            \/ RecordIgnored
  <2>1. pc' = pc /\ (local' = local \/ pc' \notin Settling)
    BY <1>11 DEF ExecMigration, Edit, RekeyDependency, RekeyRow, RecordIgnored, Settling
  <2> QED
    BY <2>1, <1>1, <1>7
<1> QED
  BY <1>1, <1>2, <1>3, <1>4, <1>5, <1>8, <1>9, <1>10, <1>11 DEF MigrationNext, MigrateUp

\* A pass that has come to its end has left nothing to do.
LEMMA NothingLeft ==
    ASSUME MigrationTypeOK, StagesInv, pc \in Settling
    PROVE  Version = Latest /\ ~WorkNeeded
  BY VersionsAssumption DEF StagesInv, AfterMain, Settling, WorkNeeded, MigrationTypeOK

\* Up to the first pass that dies, a step keeps what the committed cursor says.
LEMMA NextCursor ==
    ASSUME MigrationTypeOK, StatementsInv, StagesInv, CursorInv, MigrationNext
    PROVE  CursorInv'
<1> SUFFICES ASSUME interrupts' = 0 PROVE CursorInv'
  BY DEF CursorInv
<1> USE TableNames
<1>a. ~Interrupt
  BY VersionsAssumption DEF Interrupt, MigrationTypeOK
<1>b. interrupts = 0
  BY <1>a DEF MigrationNext, MigrateUp, RefusePass, BeginPass, EnsureContentHashColumn,
       ExecMigration, RecordMigration, MainAtLatest, BackfillCustomTypes, RekeyDependency,
       DependenciesRekeyed, SkipRekey, SetSentinel, RekeyRow, ClearSentinel, RecordIgnored,
       IgnoredAtLatest, LeaveUncommitted, StageSchemaTables, CommitPass, Edit, StageByHand,
       CommitAll
<1>c. Version \in 0..Latest
  BY Fields DEF Version
<1>d. \A u \in Tables : staged[u].recorded \in 0..Latest
  BY DEF MigrationTypeOK, Contents
<1>1. CASE BeginPass
  <2>1. \A t \in Tables : working[t].applied = head[t].applied
    BY <1>1, <1>b DEF BeginPass, CursorInv, LockFree
  <2>2. ASSUME NEW t \in pass'.dirty, NEW v \in 1..Latest, t \in Touches[v]
        PROVE  v \in head[t].applied
    <3>1. t \in DirtyBefore /\ t \in Tables
      BY <1>1 DEF BeginPass, DirtyBefore, DirtyTables
    <3>2. v \notin (Version + 1)..Latest
      BY <1>1, <3>1, <2>2 DEF BeginPass, PendingTouches
    <3>3. v \in 1..Version
      BY <3>2, <1>c, VersionsAssumption
    <3> QED
      BY <2>1, <2>2, <3>1, <3>3 DEF StatementsInv, Whole
  <2> QED
    BY <1>1, <1>b, <2>2 DEF BeginPass, CursorInv, Whole
<1>2. CASE StageSchemaTables
  <2>1. Version = Latest
    BY <1>2, NothingLeft DEF StageSchemaTables, Settling
  <2>2. ASSUME NEW v \in 1..Latest, NEW t \in Touches[v] PROVE v \in StagedTables[t].applied
    <3>1. t \in Tables
      BY VersionsAssumption
    <3>2. CASE t \in pass.dirty
      BY <3>1, <3>2, <2>2, <1>2, <1>b DEF StagedTables, CursorInv, StageSchemaTables
    <3>3. CASE t \notin pass.dirty
      BY <3>1, <3>3, <2>1 DEF StagedTables, StatementsInv, Whole
    <3> QED
      BY <3>2, <3>3
  <2>3. \A t \in pass.dirty \cap Tables : StagedTables[t] = staged[t]
    BY DEF StagedTables
  <2>4. pass.dirty \subseteq Tables
    BY DEF MigrationTypeOK, Passes
  <2>5. Whole(staged', Latest)
    BY <1>2, <2>2 DEF StageSchemaTables, Whole
  <2> QED
    BY <1>2, <1>b, <2>3, <2>4, <2>5 DEF StageSchemaTables, CursorInv
<1>3. CASE LeaveUncommitted
  <2>1. ~WorkNeeded'
    <3>1. ~WorkNeeded
      BY <1>3, NothingLeft DEF LeaveUncommitted, Settling
    <3> QED
      BY <1>3, <3>1 DEF LeaveUncommitted, WorkNeeded, NeedsBackfill, Version
  <2> QED
    BY <1>3, <1>b, <2>1 DEF LeaveUncommitted, EndPass, CursorInv, Whole
<1>4. CASE CommitPass
  <2>1. ~WorkNeeded'
    <3>1. ~WorkNeeded
      BY <1>4, NothingLeft DEF CommitPass, Settling
    <3> QED
      BY <1>4, <3>1 DEF CommitPass, WorkNeeded, NeedsBackfill, Version
  <2>2. Whole(staged, staged[Cursor].recorded)
    BY <1>4, <1>b, <1>d, VersionsAssumption DEF CommitPass, CursorInv, Whole
  <2> QED
    BY <1>4, <1>b, <2>1, <2>2 DEF CommitPass, EndPass, CursorInv
<1>5. CASE CommitAll
  <2>1. Whole(head', head'[Cursor].recorded)
    BY <1>5 DEF CommitAll, StatementsInv, Version
  <2> QED
    BY <1>5, <2>1 DEF CommitAll, CursorInv
<1>6. ASSUME NEW t \in Tables, Edit(t) PROVE CursorInv'
  <2>1. ASSUME NEW u \in Tables
        PROVE  /\ working'[u].applied = working[u].applied
               /\ working'[u].filled = working[u].filled
               /\ working'[u].recorded = working[u].recorded
    BY <1>6 DEF Edit, MigrationTypeOK, Contents
  <2>2. WorkNeeded' => WorkNeeded
    BY <1>6, <2>1 DEF Edit, WorkNeeded, NeedsBackfill, Version
  <2> QED
    BY <1>6, <1>b, <2>1, <2>2 DEF Edit, CursorInv, Whole
<1>7. CASE RefusePass \/ \E t \in Tables : StageByHand(t)
  <2>1. /\ pc = "idle" /\ pc' = "idle" /\ working' = working /\ head' = head
        /\ WorkNeeded' = WorkNeeded
    BY <1>7 DEF RefusePass, StageByHand, LockFree, WorkNeeded, NeedsBackfill, Version
  <2> QED
    BY <2>1, <1>b DEF CursorInv, Whole
<1>8. CASE \/ EnsureContentHashColumn \/ RecordMigration \/ MainAtLatest \/ BackfillCustomTypes
           \/ DependenciesRekeyed \/ SkipRekey \/ SetSentinel \/ ClearSentinel
           \/ RecordIgnored \/ IgnoredAtLatest
           \/ \E t \in Tables : ExecMigration(t)
           \/ \E r \in DepRows : RekeyDependency(r)
           \/ \E r \in AuxRows : RekeyRow(r)
  <2>1. /\ pc # "idle" /\ pc' # "idle" /\ pc' # "commit" /\ ~BeginPass
        /\ head' = head /\ staged' = staged
    BY <1>8 DEF EnsureContentHashColumn, RecordMigration, MainAtLatest, BackfillCustomTypes,
       DependenciesRekeyed, SkipRekey, SetSentinel, ClearSentinel, RecordIgnored, IgnoredAtLatest,
       ExecMigration, RekeyDependency, RekeyRow, BeginPass, LockFree
  <2>2. pass'.dirty = pass.dirty
    BY <2>1, NotesStay
  <2> QED
    BY <2>1, <2>2, <1>b DEF CursorInv, Whole
<1> QED
  BY <1>a, <1>1, <1>2, <1>3, <1>4, <1>5, <1>6, <1>7, <1>8 DEF MigrationNext, MigrateUp

\* Until a pass has died, whatever users edit, stage and commit meanwhile, every
\* version that a commit records has been applied to every table it alters
\* (MigrateUp stages the cursor together with the tables, and refuses to run over
\* tables left dirty).
THEOREM CommittedCursorTheorem == MigrationSpec => []CommittedCursorHonest
<1>1. CursorInv => CommittedCursorHonest
  BY DEF CursorInv, CommittedCursorHonest, Whole
<1> DEFINE Inv == StatementsInv /\ StagesInv /\ CursorInv
<1>2. MigrationTypeOK /\ Inv /\ UNCHANGED migrationVars => Inv'
  BY DEF migrationVars, StatementsInv, StagesInv, CursorInv, Whole, Version, WorkNeeded,
         NeedsBackfill
<1>3. MigrationTypeOK /\ Inv /\ [MigrationNext]_migrationVars => Inv'
  BY <1>2, NextStatements, NextStages, NextCursor
<1>4. MigrationInit => Inv
  BY InitCursor
<1>5. Inv => CommittedCursorHonest
  BY <1>1
<1> HIDE DEF Inv
<1> QED
  BY <1>3, <1>4, <1>5, InitTyped, NextTyped, PTL DEF MigrationSpec

-----------------------------------------------------------------------------
(* What a commit takes along.                                              *)

\* A pass leaves the tables users had changed as they were committed, and the
\* others were as committed when it began.  Users do not change the cursor.
OwnInv ==
    /\ working[Cursor].edits = 0 /\ staged[Cursor].edits = 0 /\ head[Cursor].edits = 0
    /\ pc # "idle" =>
          /\ \A t \in pass.dirty : staged[t] = head[t]
          /\ \A t \in (Tables \ {Cursor}) \ pass.dirty :
                pass.snapshot[t] = head[t] \/ (t = "events" /\ pass.resumed)

LEMMA InitOwn == MigrationInit => OwnInv
<1> SUFFICES ASSUME MigrationInit PROVE OwnInv
  OBVIOUS
<1>1. PICK v \in 0..Latest, k \in 0..LatestIgnored, hashed \in BOOLEAN :
        head = DatabaseAt(v, hashed)
  BY DEF MigrationInit
<1>2. head[Cursor].edits = 0
  BY <1>1, TableNames DEF DatabaseAt
<1> QED
  BY <1>2 DEF MigrationInit, OwnInv

\* No step of the program and no user changes rows of the cursor by hand.
LEMMA CursorUnedited ==
    ASSUME MigrationTypeOK, MigrationNext
    PROVE  working'[Cursor].edits = working[Cursor].edits
<1> USE TableNames
<1>1. ASSUME NEW t \in Tables, ExecMigration(t)
      PROVE  working'[Cursor].edits = working[Cursor].edits
  BY <1>1 DEF ExecMigration, MigrationTypeOK, Contents
<1>2. ASSUME NEW t \in Tables, Edit(t)
      PROVE  working'[Cursor].edits = working[Cursor].edits
  BY <1>2 DEF Edit, MigrationTypeOK, Contents
<1>3. ASSUME NEW r \in DepRows, RekeyDependency(r)
      PROVE  working'[Cursor].edits = working[Cursor].edits
  BY <1>3 DEF RekeyDependency, MigrationTypeOK, Contents
<1>4. ASSUME NEW r \in AuxRows, RekeyRow(r)
      PROVE  working'[Cursor].edits = working[Cursor].edits
  BY <1>4 DEF RekeyRow, MigrationTypeOK, Contents
<1>5. CASE EnsureContentHashColumn
  BY <1>5 DEF EnsureContentHashColumn, MigrationTypeOK, Contents
<1>6. CASE RecordMigration
  BY <1>6 DEF RecordMigration, MigrationTypeOK, Contents
<1>7. CASE BackfillCustomTypes
  <2>1. CASE NeedsBackfill
    <3>1. /\ working' = [working EXCEPT !["custom_types"].filled = TRUE]
          /\ working \in [Tables -> Contents]
      BY <1>7, <2>1 DEF BackfillCustomTypes, MigrationTypeOK
    <3>2. working'[Cursor] = working[Cursor]
      BY <3>1 DEF Cursor
    <3> QED
      BY <3>2
  <2> QED
    BY <1>7, <2>1 DEF BackfillCustomTypes
<1>8. CASE UNCHANGED working
  BY <1>8
<1> QED
  BY <1>1, <1>2, <1>3, <1>4, <1>5, <1>6, <1>7, <1>8
  DEF MigrationNext, MigrateUp, RefusePass, BeginPass, MainAtLatest, DependenciesRekeyed, SkipRekey,
      SetSentinel, ClearSentinel, RecordIgnored, IgnoredAtLatest, LeaveUncommitted,
      StageSchemaTables, CommitPass, Interrupt, StageByHand, CommitAll

\* The snapshot of a pass, and whether it resumes a re-key, stay with its notes.
LEMMA SnapshotStays ==
    ASSUME MigrationTypeOK, MigrationNext, ~BeginPass, pc' # "idle"
    PROVE  pass'.snapshot = pass.snapshot /\ pass'.resumed = pass.resumed
<1>1. ASSUME NEW t \in Tables, ExecMigration(t)
      PROVE  pass'.snapshot = pass.snapshot /\ pass'.resumed = pass.resumed
  BY <1>1 DEF ExecMigration, MigrationTypeOK, Passes
<1>2. CASE EnsureContentHashColumn \/ RecordMigration \/ RecordIgnored
  BY <1>2 DEF EnsureContentHashColumn, RecordMigration, RecordIgnored, MigrationTypeOK, Passes
<1>3. CASE BackfillCustomTypes
  BY <1>3 DEF BackfillCustomTypes, MigrationTypeOK, Passes
<1>4. ASSUME NEW r \in DepRows, RekeyDependency(r)
      PROVE  pass'.snapshot = pass.snapshot /\ pass'.resumed = pass.resumed
  BY <1>4 DEF RekeyDependency, MigrationTypeOK, Passes
<1>5. ASSUME NEW r \in AuxRows, RekeyRow(r)
      PROVE  pass'.snapshot = pass.snapshot /\ pass'.resumed = pass.resumed
  BY <1>5 DEF RekeyRow, MigrationTypeOK, Passes
<1>6. CASE pass' = pass
  BY <1>6
<1> QED
  BY <1>1, <1>2, <1>3, <1>4, <1>5, <1>6
  DEF MigrationNext, MigrateUp, RefusePass, MainAtLatest, DependenciesRekeyed, SkipRekey,
      SetSentinel, ClearSentinel, IgnoredAtLatest, LeaveUncommitted,
      StageSchemaTables, CommitPass, EndPass, Interrupt, Edit, StageByHand, CommitAll

\* Every step keeps it: what is staged or committed by hand is so between passes.
LEMMA NextOwn ==
    ASSUME MigrationTypeOK, OwnInv, MigrationNext
    PROVE  OwnInv'
<1> USE TableNames
<1>a. working[Cursor].edits = 0 /\ staged[Cursor].edits = 0 /\ head[Cursor].edits = 0
        /\ working'[Cursor].edits = 0
  BY CursorUnedited DEF OwnInv
<1>1. CASE BeginPass
  <2>1. ASSUME NEW t \in (Tables \ {Cursor}) \ pass'.dirty
        PROVE  pass'.snapshot[t] = head[t] \/ (t = "events" /\ pass'.resumed)
    BY <1>1, <2>1 DEF BeginPass, DirtyBefore, DirtyTables
  <2> QED
    BY <1>1, <1>a, <2>1 DEF BeginPass, OwnInv
<1>2. CASE pc' = "idle"
  <2>1. staged'[Cursor].edits = 0 /\ head'[Cursor].edits = 0
    <3>1. CASE UNCHANGED <<staged, head>>
      BY <3>1, <1>a
    <3>2. CASE RefusePass \/ CommitPass \/ CommitAll
      BY <3>2, <1>a DEF RefusePass, CommitPass, CommitAll
    <3>3. ASSUME NEW t \in Tables, StageByHand(t)
          PROVE  staged'[Cursor].edits = 0 /\ head'[Cursor].edits = 0
      BY <3>3, <1>a DEF StageByHand, MigrationTypeOK
    <3> QED
      BY <1>2, <3>1, <3>2, <3>3
      DEF MigrationNext, MigrateUp, BeginPass, EnsureContentHashColumn, ExecMigration,
          RecordMigration, MainAtLatest, BackfillCustomTypes, RekeyDependency,
          DependenciesRekeyed, SkipRekey, SetSentinel, RekeyRow, ClearSentinel, RecordIgnored,
          IgnoredAtLatest, LeaveUncommitted, StageSchemaTables, Interrupt, Edit
  <2> QED
    BY <1>2, <2>1, <1>a DEF OwnInv
<1>3. CASE pc' # "idle" /\ ~BeginPass
  <2>1. pass'.snapshot = pass.snapshot /\ pass'.resumed = pass.resumed /\ pass'.dirty = pass.dirty
    BY <1>3, SnapshotStays, NotesStay
  <2>2. pc # "idle" /\ head' = head
    BY <1>3 DEF MigrationNext, MigrateUp, RefusePass, BeginPass, EnsureContentHashColumn,
       ExecMigration, RecordMigration, MainAtLatest, BackfillCustomTypes, RekeyDependency,
       DependenciesRekeyed, SkipRekey, SetSentinel, RekeyRow, ClearSentinel, RecordIgnored,
       IgnoredAtLatest, LeaveUncommitted, StageSchemaTables, CommitPass, EndPass, Interrupt, Edit,
       StageByHand, CommitAll, LockFree
  <2>3. staged' = staged \/ StageSchemaTables
    BY <1>3 DEF MigrationNext, MigrateUp, RefusePass, BeginPass, EnsureContentHashColumn,
       ExecMigration, RecordMigration, MainAtLatest, BackfillCustomTypes, RekeyDependency,
       DependenciesRekeyed, SkipRekey, SetSentinel, RekeyRow, ClearSentinel, RecordIgnored,
       IgnoredAtLatest, LeaveUncommitted, CommitPass, EndPass, Interrupt, Edit, StageByHand,
       CommitAll, LockFree
  <2>4. pass.dirty \subseteq Tables
    BY DEF MigrationTypeOK, Passes
  <2>5. staged'[Cursor].edits = 0 /\ \A t \in pass.dirty : staged'[t] = head[t]
    <3>1. CASE StageSchemaTables
      BY <3>1, <1>a, <2>2, <2>4 DEF StageSchemaTables, StagedTables, OwnInv
    <3> QED
      BY <3>1, <2>2, <2>3, <1>a DEF OwnInv
  <2> QED
    BY <2>1, <2>2, <2>5, <1>a DEF OwnInv
<1> QED
  BY <1>1, <1>2, <1>3

\* What is staged when a pass commits: tables it leaves out as they were
\* committed, the others as they are.
OwnChange ==
    CommitPass =>
        \A t \in Tables :
            \/ head'[t].edits = head[t].edits
            \/ pass.snapshot[t].edits = head[t].edits
            \/ t = "events" /\ pass.resumed

LEMMA CommitTakesOwn == MigrationTypeOK /\ OwnInv => OwnChange
<1> SUFFICES ASSUME OwnInv, CommitPass, NEW t \in Tables
    PROVE  \/ head'[t].edits = head[t].edits
           \/ pass.snapshot[t].edits = head[t].edits
           \/ t = "events" /\ pass.resumed
  BY DEF OwnChange
<1> QED
  BY DEF OwnInv, CommitPass

\* The commit of a migration takes no change along that a user had left
\* uncommitted in a table when the pass began, whatever passes died before
\* (stageSchemaTables).
THEOREM OwnChangesTheorem == MigrationSpec => OwnChangesOnly
<1>1. MigrationTypeOK /\ OwnInv /\ [MigrationNext]_migrationVars => OwnInv'
  <2>1. OwnInv /\ UNCHANGED migrationVars => OwnInv'
    BY DEF migrationVars, OwnInv
  <2> QED
    BY <2>1, NextOwn
<1>2. MigrationTypeOK /\ OwnInv /\ [MigrationNext]_migrationVars => [OwnChange]_migrationVars
  BY CommitTakesOwn
<1>3. MigrationSpec => [][OwnChange]_migrationVars
  BY <1>1, <1>2, InitTyped, NextTyped, InitOwn, PTL DEF MigrationSpec
<1> QED
  BY <1>3 DEF OwnChangesOnly, OwnChange
=============================================================================
