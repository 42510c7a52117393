--------------------------- MODULE FederationSync ---------------------------
(***************************************************************************)
(* Sync with a peer (internal/storage/doltlite/federation.go), over the    *)
(* clones and the remote of MergeSettle: fetch, merge, resolve by table    *)
(* with the strategy of the caller, commit, push, each a call of its own   *)
(* that may fail.  Nothing is aborted: what a sync leaves in the working   *)
(* set, the next one finds.  No foreign key is enforced, so that a merge   *)
(* leaves conflicts and nothing else.  No session flag is set, so clients  *)
(* write while conflicts are open; they rest while a sync runs.            *)
(***************************************************************************)
EXTENDS MergeSettle

CONSTANT Strategies   \* what callers ask for

\* ResolveConflicts knows no other, and without one a conflict is an error.
ASSUME SyncAssumption == Strategies \subseteq {"", "ours", "theirs"}

VARIABLES
    strategy,  \* of the sync that is under way
    todo       \* the tables it has still to resolve

syncVars == <<settleVars, strategy, todo>>

SyncInit == SettleInit /\ strategy = "" /\ todo = {}

Continue == UNCHANGED <<strategy, todo>>

Fetch(c) ==
    /\ At("none")
    /\ pull' = [NoPull EXCEPT !.pc = "sync merge", !.by = c, !.ref = remote, !.before = clone[c]]
    /\ strategy' \in Strategies
    /\ UNCHANGED <<clone, todo>>

EndSync(ok) == pull' = [pull EXCEPT !.pc = "synced", !.ok = ok]

\* A call fails before it has changed anything: the fetch and merge, a resolution
\* or the commit.
SyncFails ==
    /\ At(pull.pc) /\ pull.pc \in {"sync merge", "settle"}
    /\ EndSync(FALSE) /\ UNCHANGED clone /\ Continue

MergeClean(c) ==
    /\ ~clone[c].merging
    /\ {r \in AllRows : Clash(clone[c].base[r], clone[c].head[r], pull.ref[r])} = {}
    /\ \A r \in Own(clone[c]), s \in Changed(c) : TableOf(r) # TableOf(s)
    /\ IF Changed(c) = {} THEN UNCHANGED clone
       ELSE On(c, [clone[c] EXCEPT !.head = Onto(c, @), !.work = Onto(c, @), !.base = pull.ref])
    /\ Goto("push") /\ Continue

\* The statement was in error, so Merge asks for the conflicts and returns them.
\* Without a strategy they are an error of the sync.
OnConflicts(conflicts) ==
    /\ todo' = {TableOf(r) : r \in conflicts}
    /\ pull' = [pull EXCEPT !.pc = IF strategy = "" THEN "synced" ELSE "settle",
                            !.ok = FALSE, !.mergeErr = TRUE]
    /\ UNCHANGED strategy

\* dolt_merge may leave conflicts without an error; then nobody asks for them, and
\* the sync goes on as after a clean merge.
MergeConflicts(c) ==
    LET conflicts == {r \in AllRows : Clash(clone[c].base[r], clone[c].head[r], pull.ref[r])}
    IN  /\ ~clone[c].merging /\ conflicts # {}
        /\ \A r \in Own(clone[c]), s \in Changed(c) : TableOf(r) # TableOf(s)
        /\ On(c, [clone[c] EXCEPT !.work = Onto(c, @), !.merging = TRUE, !.ref = pull.ref,
                                  !.saved = clone[c].work, !.dirty = Own(clone[c]),
                                  !.conflicts = conflicts])
        /\ \/ OnConflicts(conflicts)
           \/ Goto("push") /\ Continue

\* The merge refuses to start over an active one, whose conflicts are taken for
\* those of this merge.
MergeRefused(c) ==
    /\ clone[c].merging /\ clone[c].conflicts # {}
    /\ UNCHANGED clone
    /\ OnConflicts(clone[c].conflicts)

SyncMerge ==
    /\ At("sync merge")
    /\ MergeClean(pull.by) \/ MergeConflicts(pull.by) \/ MergeRefused(pull.by)

\* Mutant: the first table is resolved, and the others are taken to be.
ResolveFirst(table) ==
    LET c == pull.by
        done == {r \in clone[c].conflicts : TableOf(r) = table}
    IN  /\ At("settle") /\ table \in todo
        /\ todo' = {}
        /\ On(c, [clone[c] EXCEPT !.work =
                      [r \in AllRows |-> IF strategy = "theirs" /\ r \in done THEN clone[c].ref[r]
                                         ELSE @[r]],
                                  !.conflicts = @ \ done])
        /\ UNCHANGED <<pull, strategy>>

\* ResolveConflicts of one table.
SyncResolve(table) ==
    LET c == pull.by
        done == {r \in clone[c].conflicts : TableOf(r) = table}
    IN  /\ At("settle") /\ table \in todo
        /\ todo' = todo \ {table}
        /\ On(c, [clone[c] EXCEPT !.work =
                      [r \in AllRows |-> IF strategy = "theirs" /\ r \in done THEN clone[c].ref[r]
                                         ELSE @[r]],
                                  !.conflicts = @ \ done])
        /\ UNCHANGED <<pull, strategy>>

\* commitNative: every changed table but config is staged and committed, and
\* without one there is nothing to do.  Of config the merge is committed as the merge
\* has staged it, or stays behind in the working set where it could not be staged.
SyncCommit ==
    LET c == pull.by
        InConfig(r) == TableOf(r) = "config"
        pending == {r \in AllRows : clone[c].work[r] # clone[c].head[r] /\ ~InConfig(r)}
        left == \E r \in AllRows : InConfig(r) /\ Clash(clone[c].base[r], clone[c].head[r], clone[c].ref[r])
    IN  /\ At("settle") /\ todo = {}
        /\ IF pending = {} THEN UNCHANGED clone
           ELSE On(c, [NoMerge(clone[c]) EXCEPT
                         !.head = [r \in AllRows |->
                             IF ~InConfig(r) THEN clone[c].work[r]
                             ELSE IF left THEN @[r]
                             ELSE Merged(clone[c].base[r], @[r], clone[c].ref[r])],
                         !.base = clone[c].ref])
        /\ Goto("push") /\ Continue

\* PushTo and setLastSyncTime, neither of whose failures is one of the sync.
SyncPush ==
    LET c == pull.by
    IN  /\ pull.pc = "push"
        /\ \E pushed \in {FALSE, remote = clone[c].base}, noted \in BOOLEAN :
               /\ remote' = IF pushed THEN clone[c].head ELSE remote
               /\ On(c, [clone[c] EXCEPT !.base = IF pushed THEN clone[c].head ELSE @,
                                         !.work["metadata"] = IF noted THEN c ELSE @])
        /\ EndSync(TRUE)
        /\ UNCHANGED plan /\ Continue

SyncNext ==
    \/ \E c \in Clones : Statement(c) /\ Continue
    \/ \E c \in Clones : CommitAll(c) /\ Continue
    \/ \E c \in Clones : Push(c) /\ Continue
    \/ \E c \in Clones : Fetch(c)
    \/ SyncFails \/ SyncMerge \/ SyncCommit \/ SyncPush
    \/ \E table \in {TableOf(r) : r \in AllRows} : SyncResolve(table)
    \/ EndPull /\ Continue

SyncSpec == SyncInit /\ [][SyncNext]_syncVars

------------------------------------------------------------------------------
(* Properties *)

Synced == pull.pc = "synced"

\* The rows in conflict that a sync finds, in a merge it did not begin or in its own.
InConflict ==
    LET old == pull.before
    IN  IF old.merging THEN old.conflicts
        ELSE {r \in AllRows : Clash(old.base[r], old.head[r], pull.ref[r])}

\* What the caller asked for is done, and nothing else, whichever call of the sync fails
\* and whatever an earlier one left behind: where both sides changed a row, this clone's
\* gives way to "theirs" alone; its other changes, committed or not, all stand; and a sync
\* that reports no error has brought in what only the other side changed, and has no
\* conflict left unless its own merge left conflicts without an error of the statement
\* (~pull.mergeErr): those Sync does not see, and they stay open with the own rows in
\* place.  Of metadata, where it notes its own time, nothing is said.
StrategyFollowed ==
    Synced =>
        LET old == pull.before
            new == clone[pull.by]
            theirs == IF old.merging THEN old.ref ELSE pull.ref
        IN  /\ \A r \in AllRows \ {"metadata"} : new.work[r] # old.work[r] =>
                   /\ new.work[r] = theirs[r]
                   /\ \/ r \in InConflict /\ strategy = "theirs"
                      \/ ~old.merging /\ old.head[r] = old.base[r] /\ old.work[r] = old.base[r]
            /\ pull.ok => new.conflicts = IF pull.mergeErr THEN {} ELSE InConflict
            /\ pull.ok /\ ~old.merging =>
                   \A r \in AllRows \ {"metadata"} : pull.ref[r] # old.base[r] =>
                       \/ new.work[r] = pull.ref[r]
                       \/ r \in InConflict /\ (strategy = "ours" \/ ~pull.mergeErr)

\* "CommitMergeResolution concludes a merge whose conflicts the operator resolved
\* with an explicit --strategy (bd vc merge / bd federation sync)": a sync that
\* has resolved conflicts and says it has merged leaves no merge behind.
SyncConcludes == Synced /\ pull.ok /\ pull.mergeErr => ~clone[pull.by].merging
==============================================================================
