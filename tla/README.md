# TLA+ models of beads-backend-doltlite

`src/` is the storage backend of an issue tracker. A client starts the program
`bd-backend-doltlite`, sends it requests as JSON lines on standard input and reads answers from
standard output. The data is an SQLite dialect with version control (doltlite): rows live in
tables, tables have branches, commits, merges and remotes. Several processes may work on one
data directory; a file lock keeps writers apart.

This directory holds TLA+ modules of the parts whose correctness depends on interleavings, on
histories of calls, or on two pieces of state that must agree; TLC configurations that check
them on small instances; and proofs, checked by TLAPS, of theorems that hold for every value of
the constants. `PROJECT.json` lists components, runs, mutations, the source lines behind each
definition, hazards, findings and theorems.

## 1. The system

`I/` stands for `src/internal/storage/issueops/`, `D/` for `src/internal/storage/doltlite/`,
`S/` for `src/internal/storage/`.

| component | state | operations | what is hard | what must be true |
|---|---|---|---|---|
| plugin process (`cmd/bd-backend-doltlite/main.go`, `internal/provider`) | sessions, shared stores with reference counts, open transactions | init, open, request, begin, commit, rollback, close, end of input | one loop serves requests, a goroutine runs each transaction, closing while in use | every request is answered, truthfully; no session uses a closed store; at the end nothing stays open |
| store engine (`D/store.go`, `D/flock.go`, `D/transaction.go`) | connection pool of size one, persistent handle, file lock, tables changed but not committed | reads, writes, RunInTransaction, version commits, retry | SQL commit and version commit are two steps; conflicts run a callback again | one writer; an answer says what happened |
| claims and leases (`I/lease.go`, `I/claim.go`, `I/close.go`, `I/update.go`) | status, assignee, closed_at, lease and heartbeat of a row | claim, heartbeat, reclaim, close, reopen, update, import, promote | clocks, a cutoff computed before waiting for the lock, dead workers | a live worker keeps its issue; a dead one's is recovered |
| blocked state (`I/blocked_state.go`, `I/dependencies.go`) | `is_blocked` of each row, derived from edges, statuses, gates | every write of a row or an edge, then a mark/unmark loop | which rows to recompute is worked out by hand in each operation | the flag equals its definition after every operation; the loop ends |
| merge slot, metadata keys (`S/merge_slot.go`, `S/metadata_keys.go`) | holder and queue, in the JSON metadata of one issue | create, acquire, wait, release, check, set and clear keys | read-modify-write in one or in two transactions; lost answers | one holder; nobody falls out of the queue |
| child ids (`I/child_id.go`, `D/child_id.go`, `I/create.go`, `D/create_issue.go`) | a counter per parent, rows in two tables | next id, four creation paths, delete, promote | counters follow rows only on some paths | an id is not given twice, and stays free for its caller |
| id generation (`internal/idgen`, `I/helpers.go`) | the rows, a counter per prefix | hash with growing length and nonce; counter mode | the insert that follows replaces; ids come in by other ways | a generated id takes no other issue's row |
| deletion, renames (`I/delete.go`, `I/bulk_ops.go`) | rows and edges | delete one, many, with cascade or force, by source; rename an id or a prefix | rows that depend on deleted ones | no live row waits for nothing; flags right |
| ready work (`I/ready_work.go`, `I/blocked.go`, `S/sqlbuild`) | none | queries | the flag against its definition | ready = claimable |
| trees, cycles, epics (`I/dependency_queries.go`, `I/cycles.go`) | none | queries | recursion on cyclic data | equal to a reference definition |
| version control (`D/version_control.go`, `D/time_travel.go`, `D/store.go`) | branches, commits, working set | commit, branch, checkout, merge, flatten, compact, gc | several statements without a transaction; crash in between | no commit lost, no branch left over |
| merge settling (`S/versioncontrolops/mergesettle.go`, `remotes.go`) | working set, active merge, conflicts and dangling rows of a clone | pull, push, resolve, repair, commit, abort | statements that stay although a later one fails; two clones must decide alike | success means settled; nobody's uncommitted work is lost; clones converge |
| federation, remotes, backup (`D/federation.go`) | peers, encrypted passwords, key file | fetch, merge, resolve, push, sync | each step under its own connection | a sync that says it merged has concluded the merge |
| migrations (`S/schema`) | cursor tables, schema | run, record, compare with the remote | crash between a body and its record; clones that migrate apart | runs once, or can run again; clones of one remote keep one schema |
| hooks (`S/hook_decorator.go`) | what a transaction has noted | single writes, transactions, runs of scripts | a callback runs again after a conflict; errors after the SQL commit | only what was committed is told, in order, once |
| compaction of issues, configuration, labels, comments, events, domain use cases, gc-doltlite, doltlite-client, telemetry | | | | see `PROJECT.json` |

How they meet: the plugin process owns stores and calls their methods from its loop or from the
goroutine of a transaction. A write takes the file lock, begins an SQL transaction, runs a
function of `issueops` in it, commits, releases the lock, and then makes a version commit. The
functions of `issueops` share rows: creation touches counters, flags and leases; deletion
touches edges and flags; promotion moves a row between the tables `issues` and `wisps`
(short-lived issues that are never committed). Because a call of `issueops` is one SQL
transaction under an exclusive lock, the modules of the data (`IssueLease`, `BlockedState`,
`ChildIds`, `IdGeneration`, `References`) take a call, or a part of it between two locks, as one step; `PluginServer` is where
that is justified (`OneWriter`), and `MergeSlot` follows calls that use two transactions.

## 2. The modules

### IssueLease

A row has status, assignee, closed_at, lease and heartbeat, table. `clock` is the common wall
clock; a worker is alive or dead; `cutoff` is what a supervisor has computed in
`ReclaimExpiredLeases` before it got the lock, so `BeginReclaim` and `Reclaim` are two steps with
anything in between. `grant` is a history variable: until when a worker may count on an issue it claimed or kept
alive by a heartbeat. Every path that writes one of these columns is an action: `Claim`,
`Heartbeat`, `Reclaim`, `Close`, `Reopen`, `Update` (status and assignee in any combination that
is legal), `Import`, `Promote`. `Lease(i)` maps the holding of the issue `i` to `ExclusiveSlot`, the abstract slot of the merge slot. `claim_ready_issue` is `Claim` of whichever issue readiness
selects. An update that names closed_at itself is left out.

### BlockedState

Rows with a status, the table they are in, an edge of at most one kind for each pair, the flag.
Kinds: `blocks` (which also stands for `conditional-blocks`), `child`, and waits-for with the
gates all-children, any-children and one without metadata. An operation edits rows or edges and sets the work
list its code computes (`todo`), and the loop of `recomputeIsBlockedInTx` runs in steps, one
for each UPDATE statement; `pc` tells which is next. A statement decides on the rows as they
were before it. Deletions of several ids (`DeleteIssues` with cascade and force,
`DeleteIssuesBySourceRepo`) succeed in this backend only when no surviving row is affected, since their
recompute uses statements SQLite rejects; the model removes rows exactly then. The cycle check of `AddDependency` is `Acceptable`. Nothing else runs while the loop does, as all of it is one transaction.

`Gaps` names paths that are known not to keep the flag: `overwrite` (INSERT OR REPLACE over an
existing row), `pinClose` (an update of a child from closed to pinned or back), `regate` (an existing edge gets other metadata),
`inlineChild` (an issue created together with an edge to its parent). A run with `Gaps = {}`
shows that the other paths do keep it; a run with one gap shows what it breaks.

### WorkQueries

The queries that read the flag, as operators over the state of `BlockedState`: ready work of both tables,
the blocked issues with the names listed for each, what a close announces as newly unblocked, epics eligible for
closure, beside the progress of a molecule; and `BlockedByDefinition`, worked out from edges and statuses alone, to compare them with. Deferral
is a set of ids, and reaches children, not their children. Filters by type, label, assignee and text, the orders, limits,
the fallback on dotted ids and `conditional-blocks` are left out.

### EdgeQueries

The queries that show edges: blocking information, records, dependencies and dependents, and the two ways edges are counted.
They differ in which of the two edge tables they read for which ids.

### CycleSearch

The two searches for cycles, step by step over any graph: the depth-first search of `DetectCycles` (`visited`, `path` and `cycles` are its own;
`ahead` holds, per id, the neighbours that its call of the recursion has still to look at) and the breadth-first search of
`CycleThroughEdges` (`parent` and `queue` are those of `reachPath`, `answer` the path it puts together), by which a client that skips the check of each
insertion ends its transaction. `recStack` holds what `path` does and is left out; neighbours and roots come in any order, as map iteration and rows do. `DetectCycles` reports a cycle by the issues on it that have a row, so one of ids without rows is found and not shown.

### MergedFlags

What a merge does to the flags, and the pass of `blocked_merge.go` that is to set them right. Two clones fork from
one commit and are edited with the operations of `BlockedState`; as they share nothing they are played one after
the other, and `base`, `theirs` and `before` keep the rows at the commits. The merge takes each cell from the side that
changed it (external), unless both did. The pass works out which rows to recompute from the difference to the rows before the merge
(`MergeAffected`), or takes all of them when these are too many or there is no diff; it may fail, its
marker (`pending`) stays, the rows are edited, and another pull, which brings nothing, or the full recompute makes up for it.
Nothing in this repository calls the pass: `Merge` and `Pull` of the store end with the merge. The model has the caller
that the comments describe (`Hook = TRUE`). Wisps are in no commit and are left out here; so are the check that the working set is clean
and the count of wrong flags.

### Requests

The methods of the store are listed file by file (`ConfigMethods`, `IssueMethods`, ...), and the cases of `handle` call
them (`Calls`). Together they are a table: each request method of `handle` with the jobs it runs on the store, in order (a job is one
pass through `withConn`, `withDBConn` or `withDBWrite`), and each method of a transaction with
the kinds of tables it marks as written. Most methods are one job; `create_issue`, the merge
slot, pulls, backups and federation peers are several, between which anybody may come in.
A batch of wisps longer than two is not followed.

### PluginServer

One data directory. `loop` is what the request loop is doing, `act` what an actor (the loop or the
goroutine of a transaction) has reached in its job, `txs` the transactions of clients, `flock`
and `conn` the file lock and the only connection of each store, `table` and `history` which
writes are uncommitted, committed in SQL and committed as versions. What a request does is
read off `Requests`. `TransactionStore` is what it promises of transactions, seen from the client: what was written is
applied once and as a whole, if the client decided so, versions hold what is in the database, and the one answer is true and
stays so. `IsTransactionStore` maps the process to it. Jobs differ in what they take: reads, and raw SQL, gc, push, pull and fetch, take no file lock
(so `OneWriter` is about the others); `version` and `versionAll` differ in whether the config
table is committed with the rest; migrations have a connection of their own. Conflicts, errors of each step and retries up
to `MaxAttempts` are choices. Another process takes and releases the lock at any time. Decoding
and the content of requests are left out. A *patient* client does not send, while a transaction
of its own is open, a request that needs the lock or connection that transaction holds.

### MergeSlot, ExclusiveSlot

The slot's issue with holder, queue, status and other metadata keys; agents that acquire (with or without
waiting), release, release by force, create, and set or clear other keys. Each call follows the
code: lock, read, write, commit, or conflict and another attempt; the result the callback filled in is kept over
attempts. An answer can be lost (the SQL commit succeeded, the version commit failed). `Solitary`
says that the calls which read outside the transaction that writes (create, keys) run alone.
`ExclusiveSlot` is what the slot promises: taken when free, released by its owner or by force.

### ChildIds

For each parent: the tables with a row of it (`home`), the child rows by table, `last_child`, and
as history the numbers handed out and the ones still reserved. One call is one transaction and one step. The four creation paths
differ in the code and in the model: `CreateIssue` reconciles the counter, `CreateIssues`
reconciles even for rows it skips, `CreateWisps` (the path for batches of wisps only) and
`CreateInTransaction` do not. The orphan check looks in the child's own table only. `ChildGaps`:
`bypass` lets the paths that do not reconcile create a number above the counter, `intrude` lets
somebody create an id that was handed to another caller. Reading the counter of a wisp fails, as
this backend never creates the table.

### IdGeneration

One prefix: the ids in each table, `issue_counter.last_id`, and the mode. An id is a number, when its suffix reads as
one, or a name. `CreateHashed` takes some id without a row in its table (the code tries up to sixty and gives up),
`CreateCounted` the next number, which it does not look for; both then insert with INSERT OR REPLACE. What else brings
ids into `issues` (explicit ids, promotion, renames) does not look at the counter: `outran` keeps the numbers that came
in above one. A rename of a prefix does nothing to counters in this store (`D/store.go:1139`), so that renaming it back is
one more way to outrun them.

### HookFiring

The decorator in front of a store. An issue is the number of its latest change; `past` is the sequence of
committed changes, by this process and others, `started` the hooks that were started. A single write is told
after the issue has been read again, by which time it may show another's change; a read that fails loses the hook.
A transaction starts with an empty list of notes in every attempt, notes the issue after each write, and its notes
are told when it has returned without an error: not after a rollback, and not when the version commit fails, although the SQL
commit stands. The calls of one process come one after the other. The order of the events of one
creation (labels, dependencies) and the scripts are left out.

### SchemaMigrations

`MigrateUp` on one database, as the server and embedded Dolt stores use it (the SQLite stores of this
repository run the shorter `MigrateFreshSQLite` and `MigrateSQLiteUpTo`). A table is its content in the last
commit, in the index and in the working set; content is reduced to the migrations applied, the rows whose
ids have been derived, the count of users' changes, and the recorded version. A pass goes through the code
in order, `pc` tells where it is and `pass` holds the variables of `MigrateUp` (tables dirty before, version
before, signatures, whether anything was written). Each statement takes effect by itself: a migration alters
one table per step and is recorded in a step of its own, the re-keys update a row per step. `Interrupt` ends
a pass anywhere; `stranded` notes that one ended after the version that ships the re-key was recorded
and before the sentinel was set (`InWindow`), which `RekeyedWhereDue` excepts. Users change rows at any time, also during a pass, since the lock keeps out only other
passes; they stage and commit between passes. `events` stands for the four tables of `auxRekeyTables`.
Left out: the bodies of the migrations (one that runs a second time is taken to do no harm), repairs before one, the
content-hash column of the clone-local cursor.

### MigrationGate

Machines with a clone each of one remote. A schema is the sequence of its migrations: which file was run, by whom if the
outcome is random (up to `LastNonDeterministicMigration`), and whether the row has the hash of the file. `Gate` is
`checkRemoteMigrateGate` with the routing of the smart gate, as one step on `cached`, the schema of the remote when it
was last fetched; then the migrations run one by one (`RunPending`) and may stop anywhere (`Ends`). Meanwhile others
fetch, pull, push and bootstrap. `Branched` machines ship another file for the versions in `Rewritten`. At most one
machine is `Designated`: the code cannot tell, and with two the schemas fork. A clone that stops half way is ahead of
the remote it knows, and is blocked until it pushes. The doltlite store has no caller of the gate.

### MergeSettle

Clones of one remote and a pull at a time (it touches its own clone only once it has fetched, so pulls do not overlap). Each
table that the settlement treats in a way of its own is played by one row, which holds who wrote it last: a metadata row, a
memory and another key of config, a dependency, a row of `schema_migrations`, an issue and its label. The merge itself, with conflicts
and dangling rows, is external. The pull is told statement by statement: the merge, the capture of its conflicts,
the decision which tables may be resolved (`Safe`) and their resolution, the repair of dangling rows, the commit, and after
an error the abort or hard reset; each may fail, and the process may die, with everything before it in place. The next pull
then finds an active merge. `CaptureMayFail` lets the query for conflicts fail, whose error the code ignores: with TRUE a
pull may succeed on unsettled conflicts. A pull of a clone that is unsettled from before may report the success of
concluding the old merge only; a repair of dangling rows without conflicts is left to the next commit, with the merge
active. Clients write at any time, also while a merge is active (`Write`): only a transaction that would commit conflicts or dangling rows
is rolled back, as the flags that allow it are set on the session of the merge alone. What they write then lies among what the merge brought, in
one working set: `Own` is what was uncommitted before the merge, and `LateWorkKept` asks for the rest. A remote
that went back to a content a clone has merged counts as unchanged. The doltlite store does not call this.

### FederationSync

`Sync` over the clones and merges of `MergeSettle`: fetch, merge, resolution with a strategy, commit and push, each
by itself. The commit is that of `MergeSettle`'s clone with the config table left out, as `Commit` does.
A resolution with "ours" leaves nothing to commit either, and is not concluded; a merge refused because one is active takes the old conflicts
for its own; a commit of other tables leaves config uncommitted and the push publishes the result without it. A sync ends
in a place of its own (`synced`), so that what is said of pulls is not said of it. A merge with conflicts may report an error or none, as
`S/versioncontrolops/mergesettle.go:105` says of Dolt: after an error `Merge` asks for the conflicts (`D/version_control.go:340`), without
one nobody does, and the sync goes on to push and reports success over them. A failed push, and a failure to note the time, are no failure of the sync.

### History

The branches of one data directory as several processes see them. `hist` is the sequence of commits
of each branch, a commit being the rows it adds; `work` is the working set of each branch. A store
has a branch its connection is on (`at`), a branch it names (`named`, the field of the code) and
either its persistent connection or one per call (`pooled`): after a retryable error the first
is gone, and each new connection is on `main`. Writes, version commits, branch operations and merges are
one step each, since they hold the file lock throughout; `Flatten` and `Compact` are
one step per statement, with failure (`FlattenFails`, `CompactFails`, the clean-up of the latter
included) or death (`Leave`) after any. `Pull` takes no lock and may come between these
statements. What a caller passes to `Compact` was read earlier (`PlanCompact`) and may be out of date when the
lock is had (`BeginCompact`). A row is written once and never changed: the question is which rows get lost,
not what they say, so merges have no conflicts.
The semantics of branches, soft and hard resets and cherry-picks are those of the engine (external), as
the code uses them: a soft reset keeps the working set, a hard one replaces it; each branch keeps its own.
A store is used by one call at a time.

### References

`rows` says which ids have a row in `issues` and in `wisps`, `deps` which edges are in `dependencies` and
`wisp_dependencies`. An edge has its primary key (the pair of ids that `depid.New` hashes), source, target, and the
column that names the target. Each operation that writes one of these is an action: `AddDependency`, `RemoveDependency`,
creation alone and with an edge, `Delete`, `DeleteIssues` with cascade and force, `DeleteIssuesBySourceRepo`, `Promote`,
`RenameIssue`, `RenameWisp`, `RenameDependencyPrefix`. The last moves the ends of edges, in both tables, and neither their keys nor
the rows; a prefix is taken to be a whole id with none below it, and the
client's (`Suits`) to be new or of a row in the table that the edges are in and name. `prefixed` keeps the keys of the edges it has changed, which
three properties except. The unique keys (`Clash`) decide what an insert does: an error, so that the transaction is
rolled back and the action is not enabled, or, in a promotion, nothing. No foreign key is enforced in this store: deletions leave
edges behind, and renames move them by hand. `Reuse` says whether clients give an id again, of a row or of an edge
that is left over. Edges are of the types that block nobody; the others are `BlockedState`.

## 3. The runs

| run | instance | shows |
|---|---|---|
| `lease` | 2 workers, 2 supervisors, 1 issue, clock to 6; 166 000 states | who heartbeats in time keeps the issue (`PromiseKept`), work of the dead is recovered (`StrandedWorkRecovered`) |
| `blocked_fanout` | 4 ids: parent, two children (one a wisp), a waiter, both gates; 437 000 states | ready work, by flags and by either query, is what the graph leaves unblocked in both tables, and an epic offered for closure has no open child and holds nobody (`FreeWorkIsFree`); edges look the same from both ends and in the counts (`DirectionsAgree`) |
| `blocked_chain` | 4 ids: blocker, dependent, child, grandchild; 143 000 states | flags equal their definition along depth (`IsBlockedConsistent`); a flag has a cause, an active blocker or a closed gate of the row or of an ancestor (`BlockedForAReason`); blocking edges are acyclic, whatever is deleted and created between two insertions (`NoBlockingCycle`); the loop ends; what is blocked, but not by a gate, is listed, and what a close unblocks and announces is ready if nothing else holds it (`BlockedWorkExplained`) |
| `merged_flags` | 3 ids, 3 edits before the fork and 1 on each side, 1 more after a failed pass; 4.8 million states | after a merge and its pass, failed ones made up for, every flag is what the merged graph says (`FlagsFollowMerge`) |
| `plugin` | 2 sessions, 2 stores, 1 key, 1 transaction, another process, 2 methods; 291 000 states | reference counts (`SessionsHoldOpenStores`), clean end (`EndsClean`), one writer (`OneWriter`), refinement of `TransactionStore` (`IsTransactionStore`), every request answered (`EveryRequestAnswered`) |
| `plugin_conflict` | the same | finding: a conflict ends the process |
| `components` | one component in each behaviour, the others at rest, stores up to symmetry; 1.35 million states in all | *child ids* (1 parent, 3 numbers): no id handed out twice (`HandedOnce`), one handed out stays free (`ReservedFree`). *Generated ids* (3 numbers, 1 name): `OnlyOutrunReplaced`. *Slot* (2 agents): holder and queue as told (`HolderCanRelease`, `WaitersKept`), refinement of `ExclusiveSlot` (`IsExclusiveSlot`). *Hooks* (2 issues, 4 changes): `HooksFollowCommits`. *Migrations* (3 main and 2 clone-local, 5 tables, 2 rows to re-key, 2 changes, 2 dead passes): the marker means re-keyed, unless a pass died in the window, and converged clones keep their ids (`RekeyedWhereDue`), commits record what was applied while no pass died (`CommittedCursorHonest`), users' uncommitted changes stay uncommitted (`OwnChangesOnly`). *History* (2 stores of 2 processes, main and a topic branch, one data row and the one of `bd init`, 2 failures or deaths, 2 rewrites): a rewrite loses no row that was in the log it started from, and nothing else loses one but with its branch (`CommittedRowsSurvive`); a temporary branch is left over only by a dead or failed operation, and a store that is not on the branch it names is on main or on a temporary branch (`BranchesAccounted`) |
| `slot_create` | 2 agents, `Solitary = FALSE` | finding: two holders |
| `references` | 3 ids, two of one prefix and one of another, 3 edges, one of which gets another prefix, `Reuse = FALSE`; or every graph of 3 ids, with any of them without a row, searched from up to 2 named edges; the two ids of one prefix up to symmetry; 311 000 states | keys follow the ends of edges but of those that got another prefix (`EdgeIdsDerived`), rows and edges are in matching tables and columns (`TablesAgree`), promotions (`PromotionKeepsGraph`) and renames of issues (`RenameKeepsGraph`) keep the graph where no such key is in the way, a deletion without force orphans no dependent of an issue (`NoNewOrphans`; wisps listed with it are not looked at, as in the code); `DetectCycles` reports cycles only, and misses none that shares no edge with a reported one (`CyclesDetected`); `CycleThroughEdges` tells whether one goes through the named edges, with a walk that shows it (`EdgesAnswered`) |
| `settle` | 2 clones, six plans of 3 or 4 writes to up to 3 rows; or two plans with syncs of every strategy; or 3 machines, 4 migrations of which 2 are random, one machine designated and one with another file; 2.6 million states | a pull without an error leaves no conflict and no dangling row (`NothingUnsettledSucceeds`; a merge that it only repaired stays active), no pull takes work that was uncommitted before the merge it ends or aborts (`UncommittedWorkKept`), in what it settles the remote's rows stand, whoever pulls (`RemoteWins`), a recorded hash is never lost (`HashesKept`); a sync changes what its strategy asks for and nothing else, and settles the conflicts its merge reports (`StrategyFollowed`); the gate keeps schemas from forking (`SchemasConverge`) |
| `sync` | 2 clones, one memory, strategies none and "theirs" | finding: a sync reports a merge that it has not concluded |
| `late` | 2 clones, an issue, its label and a memory, three writes | finding: a pull takes what was written while an earlier merge was active (`LateWorkKept`) |

Components that share no state, and the two ways to merge, are put side by side in one run (`components`, `references`, `settle`): the first state says which one moves.

Each property of a passing run has a mutation of the code's model (`\* Mutant:` in the modules) under which the
run refutes it. Types are proved where there are proofs; no run spends itself on them.

### Bounds

- Lease: TTL 2 and margin 1 make the lease valid, expired within the margin and expired beyond
  it different instants; six ticks hold a claim, its loss and a second claim. Issues do not
  interact, so one is enough; two workers and two supervisors allow each race. The proofs need none of these bounds.
- Blocked state: four ids are the least in which a flag travels more than one round of the loop
  and both tables take part. `MayRelate` keeps the edges to
  shapes that matter (a fan and a chain), else the graph space explodes. The run of the chain has `Gaps = {}` and no wisp: neither replaced rows
  nor edges whose gate is missing are in it, and only `FlagsRight` speaks of the latter.
- Merged flags: one edit on each side is the least that makes flags stale, as neither side sees the other's; the three before the fork
  make a graph of three rows. With `SeedCap = 4` both ways to choose the rows are taken.
- Plugin: two sessions share a key, so reference counts reach two; two stores, so a key can be
  opened anew after a failure; one transaction besides the loop and another process are three
  contenders for one lock. `Methods` are one request of a single job without the lock and one of several jobs; the table of `Requests` has
  few more ways to combine them, and other values of `Methods` were run while the module was written. `MaxAttempts` is 2 where the code has 5: one retry already runs every step again.
- Slot: two agents are a holder and one who waits or overrides; a third to overtake the waiter was run beside the project (3.4 million states). One extra key is
  enough to carry metadata that has to survive. The proofs hold for any number.
- Child ids: parents are independent, three numbers allow a gap between the counter and rows in either table.
- Generated ids: three numbers are one that was seeded, one counted, and one that outruns the counter. The proofs have no bound.
- Hooks: two issues in one transaction and one outside, four changes: a transaction of two, its repetition, or others' writes in between.
- Migrations: three versions have one before, one at and one after the re-key, with tables in
  common and apart; two rows let a pass die between them. Two dead passes are needed for a resumed re-key that dies again;
  two changes of users give a dirty table and a change during a pass, or one in a pass and one after it.
- History: two stores are one that rewrites and one that writes, pulls or moves between its statements; the
  two rewrites are one that fails and one that meets what it left, or two with plans that are stale. One row a
  version commit takes and one committed from the start tell the
  ways to commit apart; the second failure hits the left-over of the first. The row that only commits with config take was run beside the project. The proof has none of these bounds.
- References: a source, a target and an id of another prefix to be foreign or to be renamed to; three edges are two into one row
  and one out of it, or the same pair in two tables. Clients relate the two ids of one prefix to each other and to the third; edges from
  that come by renaming. `MaxPrefixed` is one: an edge with an old key needs no second to clash with one that has the key of its ends.
  With `Reuse = TRUE` (no run here) TLC refutes `TablesAgree`. The proofs have no bound but that.
- Settlement: each plan names the rows one history writes and how often. A write on either side makes a conflict, a third
  one falls between a failed pull and its repetition, a fourth follows its success. The plans bring together the rows
  whose settlements can disturb each other: an issue and what hangs on it, memories beside issues or other keys, hashes beside metadata.
- Syncs: the plans are two rows of config, of which one may clash and the other not, and a row of config with one of
  another table, since config is committed apart. They write no migrations: `HashesKept` is about pulls. The proof has no bound.
- Cycle searches: three ids have rings of one, two and three, and a ring beside a path into it. The proofs hold for any graph.
- Gate: three machines are the designated one, one with a different file and one that is neither; of four migrations one is
  rewritten after the random ones, so a clone can be below, at and above the floor.

### Fairness

- `IssueLease`: time passes; a supervisor runs again and again and gets the lock (reclaims are started
  by a timer of the caller). Workers owe nothing, not even heartbeats.
- `BlockedState`: the loop goes on, since it is code without waiting inside one transaction. No edit is owed.
- `PluginServer`: weak fairness of the loop, of goroutines and of their jobs, which wait only
  for locks and connections; strong fairness of `Lock`, which polls every few milliseconds; the
  other process releases the lock. No client step is fair.
- All other modules state safety only.

Deadlock is checked in every run but `merged_flags`, where a behaviour ends once the merge and its pass are over, or
where the two sides conflict.

## 4. The proofs

| module | about | obligations |
|---|---|---|
| `ClaimProofs` | `IssueLease` and `MergeSlot`, both with `ExclusiveSlot` | 1077 |
| `WriteProofs` | `ChildIds`, `IdGeneration`, `HookFiring` | 1239 |
| `BlockedStateProofs` | `BlockedState`, `WorkQueries`, `EdgeQueries`, `MergedFlags` | 2147 |
| `PluginServerProofs` | `PluginServer` with `Requests` and `TransactionStore` | 2488 |
| `SchemaMigrationsProofs` | `SchemaMigrations` | 1084 |
| `SettleProofs` | `MergeSettle`, `FederationSync`, `MigrationGate` | 2398 |
| `HistoryProofs` | `History` | 1708 |
| `ReferencesProofs` | `References`, `CycleSearch` | 2359 |

All are checked to the last leaf. Assumptions are the named `ASSUME`s of the modules (markers such as `NoOne`
are not workers, TTL is positive, margins are naturals no larger than the windows) and, where a theorem says so,
a hypothesis in its own `ASSUME`; each of these is named below. TLC looked for
counterexamples to the inductive invariants, on the instances of the runs, before they were proved.

- `HolderKeepsIssue` (`PromiseKept`): by itself not inductive, since a reclaim acts on a
  cutoff of the past. The strengthening says that a promise not yet expired is backed by the
  lease in the row, with the worker as assignee and status in_progress, and that each pending cutoff lies
  at least a margin before the clock. A reclaim then cannot meet the row. `LeasesExclude` follows: one row has one assignee. `LeasesAreExclusive` says it of steps: seen per issue, every step takes a free slot, gives one back, or leaves it; none
  passes the issue from one worker to another, as a row is only ever claimed from no worker who still may hold it.
- `ClosedAtAlwaysCoherent` needs only types: each path writes both columns.
- `HolderKeepsSlot`, `SlotExcludes`, `SlotIsExclusive`: the invariant says that calls and lock
  agree (`CallsCoherent`), what a call has read under the lock still stands (`ReadsStand`), what
  it is about to write or to answer follows from what it read (`WantsStand`, `AnswersStand`), and
  a holder that nobody forced out is the one in the row (`HolderCanRelease`). There is one lemma per kind
  of step. `WaitersStay` adds the queue (`QueueInv`): nobody stands in it twice, and what a call has read or will write of it
  has everybody in it who was told to wait. The theorems about two agents assume `Solitary`; `slot_create` shows that they need it.
- `NumbersNeverRepeat` holds whatever the gaps: each number handed out is at or below a counter
  that never falls. `ReservedStayFree` assumes `ChildGaps = {}`: wisps stay at or below the counter,
  so that a number above it has no row in the table the counter query does not read.
  `StepKinds` sorts steps by how they change counter and rows.
- `GeneratedIdsAreFree` (`OnlyOutrunReplaced`): replacing is decided by where the counter stands. `Overtaken` says that once
  it is seeded every number among the issues is at or below it or has outrun it; what comes next is thus free or an outrunner.
- `HooksTheorem` (`HooksFollowCommits`): numbers rise along what was committed, what was told and what is still to be told;
  what an attempt has noted lies above everything there was when it began, so that an attempt that is repeated tells nothing twice.
- `FlagsRight` (`IsBlockedConsistent`) assumes `Gaps = {}`. `LoopInv` says that only rows of `todo` are stale, that no row outside
  inherits from one inside unless its own flag does not depend on parents (`Sealed`), that a loop which only marks meets no row to unmark, and that an
  idle one has nothing to do. `RoundInv` says what a round that has changed nothing yet has passed: so that a round without a
  change leaves no stale row. It holds for rings of parents too. There is one lemma for each kind of edit, that the ids it
  computes contain every row it makes stale; each rests on `ExpandCloses`, that the expansion is closed under children.
- `FlagsWithReason` (`BlockedForAReason`) and `FreeWork` (`FreeWorkIsFree`) assume besides that the parents which clients add form no ring
  (`NoRingOfParents`): a ring whose flags are all set is consistent, and nothing is its cause. `FreeWork` also needs finitely many
  ids, since the progress of a molecule is a comparison of counts. `BlockedExplained` (`BlockedWorkExplained`) assumes `Gaps = {}` and
  `OneParent`: with two parents the one that is listed may be closed while the other blocks. `NeverACycle` (`NoBlockingCycle`) and
  `DirectionsAlwaysAgree` (finitely many ids) hold whatever the gaps.
- `FlagsRightAfterMerge` (`FlagsFollowMerge`) assumes `Gaps = {}` and the caller of the pass (`Hook = TRUE`). `MergeInv` says which
  rows were right: those of the commit the pass compares with (`RightRows(From)`), which after a failure is the one its marker names (`pending`). A row that neither
  differs from them nor depends on one that does is then right after the merge, and the others are in `todo`, where the
  invariant of `FlagsRight` takes over.
- `OneWriterTheorem`, `AnswersTheorem`, `SessionsTheorem`, `EndsTheorem` rest on one invariant of the process, `ServerInvariant`.
  Its parts: who holds the lock is in a stage of a job that has taken it (`LockInv`); the loop runs jobs only in requests that have some
  (`ServeInv`); what a transaction's goroutine has come to, and what it has reported, agree with what the database holds of it (`TxInv`); no
  goroutine is lost sight of before the end (`EndInv`); sessions share a store only through its entry, whose count is their number
  (`StoresInv`, `OpeningInv`, `ClosedInv`). That the count is right needs cardinalities of finite sets of sessions.
- `StoreTheorem` (`IsTransactionStore`): every step of the process is one step of `TransactionStore` or none. `DecidedInv` says what the mapping needs beyond
  `ServerInvariant`: a transaction that has left its body was decided, an undecided one has nothing in the database, and versions hold committed writes only. The steps that retry, fail,
  wait or serve sessions map to none; the SQL commit of a transaction is `Apply`, which its writes can reach once only, and a report is `Tell`, true by `AnswersTheorem`.
- `NoRowLeftBehind` assumes nothing, and says nothing once a pass has died in the window (`stranded`). `MarkerMeansRekeyed` is not
  inductive, as the marker is recorded long after the decision to re-key. `RekeyInv` says, for a lineage
  with made-up ids, what each part of a pass can count on: between passes, and in a pass that began there, a database at a
  version that knows the re-key has either been through it or has the sentinel, if no pass died in the window; the sentinel stands while
  rows are rewritten; from `ignored` on all rows are done. Two frame lemmas say that derived ids stay derived and that only
  `RecordMigration` moves the version. `RekeyedTheorem` (`RekeyedWhereDue`) joins it with `ConvergedTheorem`.
- `ConvergedTheorem` (`ConvergedIdsKept`): a database that began at or above the version which ships the re-key never falls below it, has no sentinel,
  and no pass comes to the re-key of the rows. `CommittedCursorTheorem` (`CommittedCursorHonest`): a table has what the recorded version
  says it has (`StatementsInv`), the stages behind a pass are done (`StagesInv`), and until the first pass dies nothing is applied that is not committed while
  there is work, and tables a pass leaves out of its commit need none of its migrations (`CursorInv`). `OwnChangesTheorem` (`OwnChangesOnly`):
  what was dirty before a pass is staged by nobody, and what was not is as it was in the last commit (`OwnInv`).
- `UncommittedWorkTheorem`, `HashesTheorem`, `NothingUnsettledTheorem` and `RemoteWinsTheorem` share `SettleInvariant`. It says what a merge under way
  can give back (an abort restores the rows and dangling references there were before it), that tables with changes from before the merge
  are not those in conflict, whatever clients write while it is active, in which order conflicts and dangling rows are dealt with (`Ordered`), that no hash which a
  clone has in its last common commit is missing or different in its head, its working set or the remote (`HashInv`), and that what the remote changed has come in or is in conflict (`Brought`) or the
  pull cannot succeed any more (`Barred`). The last two assume `~CaptureMayFail`. `UncommittedWorkTheorem` is about `Own`: what was uncommitted before the
  merge; of what is written while one is active `late` shows that it may be lost.
- `StrategyTheorem` (`StrategyFollowed`) assumes nothing. `SyncInvariant` says, for each place of a sync, what of the rows it may have changed so far (`OnlyAsAsked`), what it has
  brought in but for conflicts still open (`BroughtIn`), and that every row in conflict is in a table still to be resolved, so that none is left when it
  commits. Conflicts that a merge leaves without an error are excepted: nothing is said of them but that the own rows stay in place. It holds over a merge that an earlier sync left, too, whose conflicts are then the ones it settles.
- `ClonesConverge` (`SchemasConverge`) assumes one designated machine at most. `GateInv` says, for the release the clones began with, that every
  schema anywhere, fetched ones included, is that release with migrations on top which the designated machine ran or which come out
  the same everywhere (`Grown`), all of them hashed; and that a clone let through is past the random keys and has no fewer versions than
  the remote it knew, with the same files (`LetThrough`). The last is where the cursor of the remote counts: what it has above the first
  release is hashed, so that its highest hash is its version.
- `RowsSeenSurvive` (`CommittedRowsSurvive`) follows the rows of the log through a rewrite (`SafeAt`): they are in the branch
  that Flatten starts from, then in the working set of the temporary branch while its history is cut and
  squashed, then, as far as the picks have come (`Covered`), in its history, and all of them there when main is reset.
  `TaskOK` ties the lock to the call in progress. Steps of other stores (`OthersKeep`) cannot disturb this: those that
  remove anything need the lock, and a pull only adds. `HistoryTypes` needs the same invariant, since what is
  picked must be a commit of the log. `BranchesTheorem` (`BranchesAccounted`) adds which temporary branch the holder of the lock has made (`Owned`), and
  where a store's connection is (`Attached`).
- `KeysFollowEnds` (`EdgeIdsDerived`) is inductive, and holds whatever ids clients use again: retargeting changes no end,
  the two rewritings of a rename derive keys anew, a rename of a prefix notes the keys it leaves, everything else adds one edge or removes some. `PromotionLosesNothing`
  rests on it: an edge that the promotion does not insert clashes with one that has its key, and so its ends, if its key is not among those noted (`Untouched`).
  `RenamingKeepsGraph` needs the same of the edges of the issue, since one that has the new key already is passed over.
- `TablesStayApart`, `RenamingKeepsGraph` and `DeletionOrphansNobody` assume `Reuse = FALSE`. `Agree` is `TablesAgree` edge
  by edge, with one lemma for each kind of step; that a fresh id is named by no edge is what a creation and the new id of a rename need.
  The other two follow from it in one step: what a rename has to move is in the tables it looks in, and the dependents of an issue
  that goes are in the set the search returns, which is closed (`DependentsClosed`).

- `DetectionRight` (`CyclesDetected`) and `AnswersRight` (`EdgesAnswered`) hold for any set of ids and edges, rows missing or not, and any order of neighbours, of the two
  searches as loops. For the first (`DeepInv`), each edge looked at leads to an id left before, to the next one of
  the path, or was recorded with a cycle; so of any set of ids that were left, as of those on a ring, the one left
  first has all its edges within the set recorded. For the second (`BroadInv`), what has been
  seen is closed but for what is queued, each id seen was reached from the start, and `parent` goes back along edges.
  Both say what the search has computed when it ends; that it ends is not stated.

Only model-checked: `StrandedWorkRecovered`, `LoopTerminates` and `EveryRequestAnswered`, which are liveness. The findings
(`SurvivesConflict`, `HoldersExclude` without `Solitary`, `SyncConcludes`, `LateWorkKept`) are counterexamples.

## 5. Findings

With a run: `plugin_conflict`, `slot_create`, `sync` and `late` (`PROJECT.json` quotes the text each contradicts). Seen with the
same modules under another configuration, or without a proviso of a property, with no run of their own here:

- A pass of `MigrateUp` that dies after recording the version that ships the re-key, and before it has set the
  sentinel, looks like a fresh clone to the next one: rows keep their made-up ids for ever and the marker says otherwise
  (`S/schema/aux_row_id_backfill.go:165`; its lines 32-36 say that the next pass resumes the re-key). `RekeyedWhereDue` without `~stranded` fails.
- When a merge leaves its conflicts without an error of the statement, which `S/versioncontrolops/mergesettle.go:105-106` says some versions of Dolt do,
  `Merge` does not look for them (`D/version_control.go:340-348`): `Sync` pushes and returns without an error, with conflicts open and whatever strategy was asked for.
- With `Hook = FALSE`, which is this store as it is, a merge leaves stale flags (`D/version_control.go:337`):
  `I/blocked_merge.go:69-74` says why a merge needs the pass, and nothing calls it.
- On a ring of parent-child edges, which no check prevents, and on which an overwritten row has left only some rows
  flagged, each round of the recompute loop marks one row and unmarks another, and the loop never returns
  (`I/blocked_state.go:73`), while it holds the file lock.
- A store opened for a branch is not on it: `New` keeps the name and opens its connections without one (`D/store.go:192`, `:234`), so that
  writes and commits go to main, while pushes and pulls name the branch; `D/version_control.go:19` says
  "configured for the store's native doltlite branch". After a retried conflict the same holds of a store that
  has checked out a branch. `BranchesAccounted` says what is left of the promise.
- `Compact` resets away what was committed between the reading of the log and the lock, although
  `S/storage.go` calls it "preserving recent ones": `CommittedRowsSurvive` has to except these rows. A pull that ends
  between the last cherry-pick and the reset of main is lost in the same way, in `Flatten` as well.
- `Flatten` after a failure of its own is refused until somebody deletes `flatten-tmp`; and on a topic branch it
  replaces main by the rows of that branch (`D/store.go:897`, `:902`).
- A counted id is not looked for (`I/helpers.go:213`), although the comment of its caller says "checking for collisions", and the insert replaces: an
  explicit id above the counter is overwritten by the issue that gets its number (`OnlyOutrunReplaced` has to except it).
- With `CaptureMayFail = TRUE` a pull succeeds with conflicts in the working set (`S/versioncontrolops/mergesettle.go:122`).
- A `Sync` that resolves conflicts of config together with others commits the others, concludes the merge without config, and pushes: a key of
  config that only the remote had changed is put back to its old value there (`D/federation.go:240`, `D/version_control.go:97`), while the
  working set has the new one (`StrategyFollowed` is about that).
- With two machines that export `BD_ALLOW_REMOTE_MIGRATE` the schemas of clones fork (`MigrationGate`).
- `GetNewlyUnblockedByClose` looks for other blockers of a candidate only: one whose parent is blocked, or
  which waits at a gate, is announced although it stays blocked (`I/dependency_queries.go:479`); `D/issues.go:124` speaks of
  issues "that become unblocked".
- `GetNextChildID` of a wisp, and the reconciled creation of its children, fail with "no such table"
  (`D/child_id.go:18`): the ignored migrations and 0053, which create `wisp_child_counters`, are not run by this backend.
- After a dead pass the tables it left dirty count as those of users: the next pass commits the
  cursor without them, so until somebody commits them a clone has the version and not the schema (`CommittedCursorHonest` without
  its proviso); or it refuses to run, because a pending migration alters one of them (`RefusePass`).
- When a user changes a table that was dirty during a pass, or the pass itself does, `MigrateUp` returns an error after everything has
  run and been recorded (`S/schema/schema.go:379`); the next call finds nothing to do, and nobody commits the migration.
- A claimed wisp that is promoted loses its lease (`I/promote.go:45`), so nobody ever recovers it when its
  worker dies; `I/lease.go:17-19` says a dead worker's claim goes back.
- An update that gives an issue in progress to another worker keeps the previous lease (`I/update.go:171`), and a reclaim takes the
  issue from its new owner, who is alive; `I/lease.go:129` says that issues are taken from workers that "are almost certainly dead".
- An update to closed or open keeps the lease, although `I/close.go:56` clears it.
- `RenameDependencyPrefix` (`D/store.go:1176`) changes ids in the edges and leaves their keys; `depid/depid.go:19` calls the
  derivation the single source of truth for every path. An edge whose key is taken that way is dropped by a promotion (INSERT OR IGNORE) or passed over
  by the rename of its issue: `PromotionKeepsGraph` and `RenameKeepsGraph` fail without `Untouched`.
- `DeleteIssuesBySourceRepo` and every other deletion leave the edges of the deleted issues, and edges to them;
  `I/bulk_ops.go:172` says that "their related data" is removed. An id that is used again finds them (`Reuse = TRUE`).
- A wisp created with the id of an issue is in both tables; `I/count.go:63` says that issues and wisps are always in separate ones.
- Renaming a wisp leaves its own edges at the old id (`I/bulk_ops.go:272`).
- A gate without metadata is released by the first closed child; `types.go:878` says that empty metadata waits for all.
- The gap `overwrite`: INSERT OR REPLACE over an existing row (`D/create_issue.go:99`) changes a status and leaves the flags
  of the rows that depend on it.
- A deleted wisp leaves its edges in `wisp_dependencies`: `Blocks` lists it, and `rdep_count` counts it, although it has no row,
  while `GetDependencyCounts` stops counting it as soon as there is no wisp left (`I/dependency_queries.go:145`).
- Blocking information and the counts take a pinned or deleted target for a blocker (`I/dependency_queries.go:345`), which the flag does not.
- The progress of a molecule leaves out children in the other table (`I/molecule.go:35-38`), so that it is complete while `EligibleForClose` is false.
- A row held at the gate of a closed spawner is neither ready nor listed as blocked (`I/blocked.go:273`).
- A deleted child keeps its epic from being offered for closure (`I/epic_closure.go:142`).
- The gaps `pinClose`, `regate` and `inlineChild` leave stale flags (`I/update.go:258`,
  `I/dependencies.go:201`, `I/create.go:384`).
- With `Patient = FALSE` the request loop waits for ever for a lock that a transaction of the
  same client holds (`cmd/bd-backend-doltlite/main.go:114`); `docs/plugin-contract.md:39` promises an answer to each request.
- `DeleteIssues` with force, and `DeleteIssuesBySourceRepo`, fail whenever a surviving row would have to be
  recomputed: `I/delete.go:284` and `I/bulk_ops.go:210` call `RecomputeIsBlockedInTx`, not its SQLite variant.
- After the first retried conflict the store's own handle is gone for good, and `raw_sql` is
  refused from then on (`D/store.go:253`, `:296`).
- With `ChildGaps = {"bypass"}` an id handed out may already have a row in the other table.

## 6. The plan

Done, because every other part stands on them: leases, flags, the process and its locks,
the slot, numbering, the migration of a database and the gate before it, history and its rewriting, edges and what they name,
the searches for cycles, the settlement of merges and `Sync`, hooks; the proofs of every safety and action property the passing runs check;
and the refinements of `ExclusiveSlot` (slot and leases) and `TransactionStore`. Left, in this order:

1. That the full recompute makes any flags right, from whatever a gap or a merge without the pass has left.
2. An abstract specification for the ids of children (a set of numbers given out, each once) with `ChildIds` shown to implement
   it; the same for hooks (a queue of committed changes).
3. `Deletion`: the counts of a dry run against what the deletion then removes, and the labels,
   comments and events that deletions, renames and promotions move or leave.
4. `DependencyGraph`: descendants with a depth limit, orders, and pages of ready work as operators against
   reference definitions.

Hazards met while reading that no module covers, besides those of `PROJECT.json`: AddRemote
removes before it adds (`D/version_control.go:161`); CommitPending words a commit in one
transaction and makes it in another (`D/store.go:1000`); migrations 0041 and 0043 are both the
statement that drops and creates the dependencies table; hooks of a committed transaction are lost
when the process dies before it fires them; the counts of a dry run; `Sync` is five steps under connections of their own, and a failure
leaves the ones before it (`D/federation.go:203`); a generated id is checked against its own table only (`I/helpers.go:189`); of
two processes that write the credential key file the last wins (`D/federation.go:40`).

## 7. Not modelled, and why

Parsing, formatting, field validation, SQL text, JSON, YAML, telemetry and the platform variants of
the lock are data or output. The SQL engine and its version control are external: their
statements are taken as atomic, a conflict or an error may come at any of them.
Inside the modelled parts: renames of parents, wildcards in ids and counters merged from another
clone (`ChildIds`); insertions with `SkipCycleCheck`, of which `CycleSearch` has the search that makes up for them, and edges of other kinds (`BlockedState`); the position told to a waiter and holders
that arrive by a pull (`MergeSlot`); what requests carry, and what `restore_database` and raw SQL do to the data (`PluginServer`); conflicts, what remotes hold, gc, and the answer of CommitPending (`History`); labels, comments and events (`References`). The components with
status `not_modelled` in `PROJECT.json` say for themselves why. The compaction of issues is three statements of this repository
(snapshot, overwrite, restore) whose order is up to a caller that is not in it; a restoration always takes the newest snapshot, so that
after two compactions a second restoration stays at level 1, although its comment says the level steps down by one.
