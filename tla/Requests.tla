------------------------------ MODULE Requests ------------------------------
(***************************************************************************)
(* The requests on a session that handle (cmd/bd-backend-doltlite/main.go) *)
(* answers, as the jobs each of them runs on the session's store, one      *)
(* after the other.  A job is one pass through withConn, withDBConn or     *)
(* withDBWrite; between two jobs nothing is held and anybody may come in.  *)
(*                                                                         *)
(* A method has a set of sequences of jobs: which of them is run depends   *)
(* on its parameters and on what it reads.  A request that fails stops     *)
(* where it is, except in a job that is only tried.  A method of the store *)
(* goes by the name of the request that calls it.                          *)
(***************************************************************************)
EXTENDS Sequences, TLC

\* read       withConn(false), or withDBConn for a query: no file lock
\* unlocked   gc, push, pull, fetch: change something, without the file lock
\* raw        raw_sql on the handle of the store, without the file lock
\* sql        withConn(true), or withDBWrite for something that makes no version
\* config     sql on the config table
\* version    Commit: a version of all but config
\* versionAll CommitWithConfig, flatten, compact: a version of everything
\* schema     migrations, on a connection of their own
\* tryRead, trySql: read and sql whose error is ignored
Jobs == {"read", "unlocked", "raw", "sql", "config", "version", "versionAll", "schema",
         "tryRead", "trySql"}

Tried(j) == j \in {"tryRead", "trySql"}
Kind(j) == CASE j = "tryRead" -> "read" [] j = "trySql" -> "sql" [] OTHER -> j
Locking(j) == Kind(j) \notin {"read", "unlocked", "raw"}

Each(methods, sequences) == [method \in methods |-> sequences]

Silent   == {<<>>}
Read     == {<<"read">>}
TryRead  == {<<"tryRead">>}
Write    == {<<"sql">>}
NoLock   == {<<"unlocked">>}

Then(first, second) == {f \o s : f \in first, s \in second}

-----------------------------------------------------------------------------
(* Methods of the store, file by file.                                     *)

\* The types of infrastructure have defaults when the table cannot be read.
ConfigMethods ==
    Each({"get_config", "get_all_config", "get_metadata", "get_local_metadata"}, Read)
    @@ Each({"get_infra_types", "is_infra_type"}, TryRead)
    @@ Each({"set_config"}, {<<"config">>})
    @@ Each({"set_metadata", "set_local_metadata"}, Write)

CountMethods ==
    Each({"count_issues", "count_issues_by_group", "count_dependents", "count_dependencies",
          "count_issue_comments", "count_events", "count_dependents_by_status"}, Read)

ListMethods ==
    Each({"search_issues", "search_issue_ids", "search_issues_with_counts", "list_wisps",
          "get_labels_for_issues", "get_comment_counts", "get_all_dependency_records",
          "get_dependency_records_for_issues", "get_dependency_counts",
          "get_blocking_info_for_issues"}, Read)

\* The kinds of issues that become wisps are read first.
CreateIssue == Then(TryRead, Write)

\* Wisps are created one by one; more than two are not followed.
CreateBatch == {<<>>, <<"sql">>, <<"sql", "sql">>}

\* A reason is added as a comment, in a write of its own.
Reopen == {<<"sql">>, <<"sql", "sql">>}

IssueMethods ==
    Each({"claim_issue", "claim_ready_issue", "update_issue", "heartbeat_issue",
          "reclaim_expired_leases", "update_issue_type", "close_issue"}, Write)
    @@ Each({"reopen_issue"}, Reopen)
    @@ Each({"is_blocked", "get_newly_unblocked_by_close"}, Read)

DependencyMethods ==
    Each({"add_dependency", "remove_dependency"}, Write)
    @@ Each({"get_issues_by_ids", "get_dependencies_with_metadata",
             "get_dependents_with_metadata", "detect_cycles"}, Read)

LabelMethods == Each({"get_labels"}, Read) @@ Each({"add_label", "remove_label"}, Write)

WorkMethods ==
    Each({"ready_work", "ready_work_with_counts", "get_molecule_progress"}, Read)

\* The ids of issues are looked up first, and the issues read after that.
GraphMethods ==
    Each({"delete_issue", "add_issue_comment"}, Write)
    @@ Each({"get_issue_by_external_ref", "get_issues_by_label"}, Then(Read, Read))
    @@ Each({"get_dependencies", "get_dependents", "get_dependency_tree", "blocked_issues",
             "epics_eligible_for_closure", "get_issue_comments", "get_events",
             "get_all_events_since"}, Read)

\* A dry run of delete_issues only reads.
BulkMethods ==
    Each({"delete_issues"}, Read \cup Write)
    @@ Each({"rename_counter_prefix"}, Silent)
    @@ Each({"get_dependency_records", "find_wisp_dependents_recursive"}, Read)
    @@ Each({"delete_issues_by_source_repo", "update_issue_id", "promote_from_ephemeral",
             "rename_dependency_prefix", "add_comment", "import_issue_comment"}, Write)

CustomMethods ==
    Each({"delete_config"}, {<<"config">>})
    @@ Each({"get_comments_for_issues", "get_custom_statuses",
             "get_custom_statuses_detailed", "get_custom_types"}, Read)

CompactionMethods ==
    Each({"check_eligibility", "get_compaction_snapshot", "get_tier1_candidates",
          "get_tier2_candidates", "get_repo_mtime", "get_molecule_last_activity",
          "get_stale_issues"}, Read)
    @@ Each({"apply_compaction", "snapshot_issue", "restore_from_snapshot", "set_repo_mtime",
             "clear_repo_mtime"}, Write)

HistoryMethods == Each({"get_current_commit", "history", "as_of", "diff"}, Read)

\* gc takes no file lock; flatten and compact end in one version of everything.
Rewriting == Each({"dolt_gc"}, NoLock) @@ Each({"flatten", "compact"}, {<<"versionAll">>})

CommitPending == {<<"read">>, <<"read", "versionAll">>}

\* A key of the metadata is read and written back.
SlotSet == {<<"read", "sql">>}
SlotClear == {<<"read">>, <<"read", "sql">>}

\* The prefix is read to name the slot; "bd" is used when that fails.
MergeSlotCreate == Then({<<"tryRead", "tryRead">>},
                        {<<>>} \cup Then(CreateIssue, {<<"trySql", "read">>}))
MergeSlotChange == {<<"tryRead", "sql">>, <<"tryRead", "sql", "version">>}

VersionMethods ==
    Each({"commit"}, {<<"version">>})
    @@ Each({"commit_merge_resolution"}, {<<"versionAll">>})
    @@ Each({"add_remote"}, Write)
    @@ Each({"has_remote"}, Read)

DeleteBranch == {<<"read">>, <<"read", "sql">>}

BranchMethods ==
    Each({"branch", "checkout"}, Write)
    @@ Each({"current_branch", "list_branches"}, Read)
    @@ Each({"delete_branch"}, DeleteBranch)

LogMethods == Each({"commit_exists", "status", "log"}, Read)

MergeMethods ==
    Each({"merge", "resolve_conflicts", "remove_remote"}, Write)
    @@ Each({"get_conflicts", "list_remotes"}, Read)

\* What talks to a remote does so without the file lock.
RemoteMethods ==
    Each({"push", "pull", "force_push", "push_remote", "pull_remote", "fetch", "push_to"}, NoLock)

PullFrom == Then(CommitPending, NoLock)

BackupMethods == Each({"backup_add", "backup_remove"}, Write)
                 @@ Each({"backup_sync"}, NoLock)

\* A remote of a fixed name is replaced; removing the old one may fail.
BackupDatabase == {<<"trySql", "sql", "unlocked">>}
RestoreDatabase == Then(BackupDatabase, {<<"sql">>, <<"unlocked">>})

AddFederationPeer == {<<"sql">>, <<"sql", "sql">>}
RemoveFederationPeer == {<<"sql", "trySql">>}
PeerMethods == Each({"get_federation_peer", "list_federation_peers"}, Read)
SyncStatus == {<<"read", "tryRead", "tryRead">>, <<"tryRead", "tryRead">>}

Store ==
    ConfigMethods @@ CountMethods @@ ListMethods @@ IssueMethods @@ DependencyMethods
    @@ LabelMethods @@ WorkMethods @@ GraphMethods @@ BulkMethods @@ CustomMethods
    @@ CompactionMethods @@ HistoryMethods @@ Rewriting @@ VersionMethods @@ BranchMethods
    @@ LogMethods @@ MergeMethods @@ RemoteMethods @@ BackupMethods @@ PeerMethods

-----------------------------------------------------------------------------
(* The cases of handle.                                                    *)

\* The session hands the request on to its store.
Calls(methods) == [method \in methods |-> Store[method]]

\* create_issue, update_issue, add_label: write, commit if asked to, read back.
WriteAndReadBack(write) == Then(Then(write, {<<>>, <<"version">>}), Read)

ConfigRequests ==
    Each({"path", "cli_dir"}, Silent)
    @@ Each({"raw_sql"}, {<<"raw">>})
    @@ Calls({"set_config", "delete_config", "get_config", "get_all_config",
              "get_custom_statuses", "get_custom_statuses_detailed", "get_custom_types",
              "get_infra_types", "is_infra_type"})

CreateRequests ==
    Each({"create_issue"}, WriteAndReadBack(CreateIssue))
    @@ Each({"create_issues", "create_issues_with_full_options"}, CreateBatch)
    @@ Each({"get_issue"}, Read)
    @@ Calls({"set_metadata", "set_local_metadata", "get_metadata", "get_local_metadata",
              "get_issues_by_ids", "search_issues", "get_issue_by_external_ref"})

IssueRequests ==
    Each({"update_issue"}, WriteAndReadBack(Store["update_issue"]))
    @@ Calls({"search_issue_ids", "search_issues_with_counts", "reopen_issue",
              "update_issue_type", "close_issue", "delete_issue", "delete_issues",
              "delete_issues_by_source_repo", "update_issue_id", "claim_issue"})

GraphRequests ==
    Calls({"claim_ready_issue", "heartbeat_issue", "reclaim_expired_leases",
           "promote_from_ephemeral", "rename_dependency_prefix", "rename_counter_prefix",
           "add_dependency", "remove_dependency", "get_dependencies", "get_dependents"})
    @@ Each({"get_next_child_id"}, Write)

LabelRequests ==
    Each({"add_label"}, WriteAndReadBack(Store["add_label"]))
    @@ Calls({"remove_label", "get_issues_by_label", "get_dependency_tree", "get_labels",
              "get_dependencies_with_metadata", "get_dependents_with_metadata",
              "get_dependency_records", "get_dependency_records_for_issues",
              "get_all_dependency_records"})

BlockingRequests ==
    Calls({"add_issue_comment", "add_comment", "get_dependency_counts",
           "get_blocking_info_for_issues", "is_blocked", "get_newly_unblocked_by_close",
           "detect_cycles", "find_wisp_dependents_recursive", "count_dependents_by_status",
           "get_issue_comments"})

WorkRequests ==
    Calls({"import_issue_comment", "get_events", "get_all_events_since", "get_comment_counts",
           "get_comments_for_issues", "get_labels_for_issues", "ready_work",
           "ready_work_with_counts", "blocked_issues", "epics_eligible_for_closure"})

CountRequests ==
    Calls({"set_repo_mtime", "list_wisps", "count_issues", "count_issues_by_group",
           "count_dependents", "count_dependencies", "count_issue_comments", "count_events",
           "get_repo_mtime"})
    @@ Each({"statistics"}, Read)

CompactionRequests ==
    Calls({"clear_repo_mtime", "apply_compaction", "snapshot_issue", "get_molecule_progress",
           "get_molecule_last_activity", "get_stale_issues", "check_eligibility",
           "get_compaction_snapshot", "dolt_gc", "flatten", "compact"})

SlotRequests ==
    Calls({"restore_from_snapshot", "get_tier1_candidates", "get_tier2_candidates",
           "commit_merge_resolution"})
    @@ Each({"slot_get"}, Read)
    @@ Each({"merge_slot_create"}, MergeSlotCreate)
    @@ Each({"merge_slot_check"}, {<<"tryRead", "read">>})
    @@ Each({"merge_slot_acquire", "merge_slot_release"}, MergeSlotChange)
    @@ Each({"slot_set"}, SlotSet)
    @@ Each({"slot_clear"}, SlotClear)

BranchRequests ==
    Calls({"branch", "checkout", "merge", "delete_branch", "current_branch", "list_branches",
           "commit_exists", "get_current_commit", "status", "log"})

HistoryRequests ==
    Calls({"resolve_conflicts", "add_remote", "remove_remote", "get_conflicts", "history",
           "as_of", "diff", "has_remote", "list_remotes", "push"})

RemoteRequests ==
    Calls({"pull", "force_push", "push_remote", "pull_remote", "fetch", "push_to",
           "backup_add", "backup_sync", "backup_remove"})
    @@ Each({"pull_from"}, PullFrom)
    @@ Each({"backup_database"}, BackupDatabase)

PeerRequests ==
    Each({"restore_database"}, RestoreDatabase)
    @@ Each({"add_federation_peer"}, AddFederationPeer)
    @@ Each({"remove_federation_peer"}, RemoveFederationPeer)
    @@ Each({"sync_status"}, SyncStatus)
    @@ Calls({"get_federation_peer", "list_federation_peers", "commit"})

Requests ==
    ConfigRequests @@ CreateRequests @@ IssueRequests @@ GraphRequests @@ LabelRequests
    @@ BlockingRequests @@ WorkRequests @@ CountRequests @@ CompactionRequests
    @@ SlotRequests @@ BranchRequests @@ HistoryRequests @@ RemoteRequests @@ PeerRequests

-----------------------------------------------------------------------------
(* Requests on a transaction, by the kinds of tables they mark as written: *)
(* "tracked", or "config", which a plain version commit leaves out.        *)

TxReads(methods) == Each(methods, {{}})
TxWrites(methods) == Each(methods, {{"tracked"}})

\* An edge or a label of a wisp marks nothing.
TxIssueRequests ==
    TxWrites({"tx_create_issue", "tx_create_issues", "tx_update_issue", "tx_close_issue",
              "tx_delete_issue", "tx_remove_dependency"})
    @@ Each({"tx_add_dependency"}, {{}, {"tracked"}})
    @@ TxReads({"tx_get_issue", "tx_search_issues", "tx_search_issue_ids",
                "tx_get_dependency_records"})

\* Custom statuses and types are copied to tables of their own; local metadata is
\* never versioned; comments are refused inside a transaction.
TxOtherRequests ==
    TxWrites({"tx_remove_label", "tx_set_metadata"})
    @@ Each({"tx_add_label"}, {{}, {"tracked"}})
    @@ Each({"tx_set_config"}, {{"config"}, {"config", "tracked"}})
    @@ TxReads({"tx_cycle_through_edges", "tx_get_labels", "tx_get_config", "tx_get_metadata",
                "tx_set_local_metadata", "tx_get_local_metadata", "tx_add_comment",
                "tx_import_issue_comment", "tx_get_issue_comments"})

TxRequests == TxIssueRequests @@ TxOtherRequests
=============================================================================
