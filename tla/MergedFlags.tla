------------------------------ MODULE MergedFlags ------------------------------
(***************************************************************************)
(* What a merge does to the flags of BlockedState, and the pass over the   *)
(* merged rows that is to set them right (issueops/blocked_merge.go).      *)
(*                                                                         *)
(* Two clones start from the same commit and are edited apart.  They share *)
(* nothing, so one is played after the other, and a snapshot is kept of    *)
(* each.  The merge takes every cell from the side that changed it, the    *)
(* stored flags among them.  Wisps are in no commit; there are none here.  *)
(*                                                                         *)
(* No caller of the pass is in this repository: Merge and Pull of the      *)
(* doltlite store end with the merge.  With Hook the caller is the one the *)
(* comments describe: it remembers HEAD, merges, runs the pass and, if     *)
(* that fails, leaves the marker for the next call.                        *)
(***************************************************************************)
EXTENDS BlockedState, FiniteSets

CONSTANTS
    MaxBase,   \* bound: edits before the fork
    MaxEdits,  \* bound: edits of a clone after the fork, and after a failed pass
    SeedCap,   \* mergeRecomputeSeedCap: more changed rows, and all are recomputed
    Hook       \* whether a merge is followed by the pass

ASSUME MergeAssumption == {MaxBase, MaxEdits, SeedCap} \subseteq Nat /\ Hook \in BOOLEAN

VARIABLES
    phase,   \* what happens next on the clone that is being played
    edits,   \* edits in this phase
    base,    \* the commit both clones start from
    theirs,  \* the head of the other clone
    before,  \* HEAD before the merge, from which the pass takes its diff
    pending  \* is_blocked_recompute_pending: the older HEAD of a failed pass

mergeVars == <<phase, edits, base, theirs, before, pending>>
allVars == <<vars, mergeVars>>

Phases == {"base", "theirs", "ours", "merged", "stale", "recompute", "repair", "settled"}

Rows == [status |-> status, dep |-> dep, isBlocked |-> isBlocked]
NoRows == [status |-> <<>>, dep |-> <<>>, isBlocked |-> <<>>]

MergeInit ==
    /\ Init
    /\ phase = "base" /\ edits = 0
    /\ base = NoRows /\ theirs = NoRows /\ before = NoRows /\ pending = NoRows

-------------------------------------------------------------------------------
(* Two clones *)

\* Local writes, with the loop each of them runs.
Write ==
    /\ phase \in {"base", "theirs", "ours", "stale"}
    /\ \/ Loop /\ UNCHANGED edits
       \/ /\ edits < IF phase = "base" THEN MaxBase ELSE MaxEdits
          /\ Edit
          /\ edits' = edits + 1
    /\ UNCHANGED <<phase, base, theirs, before, pending>>

Fork ==
    /\ phase = "base" /\ pc = "idle"
    /\ phase' = "theirs" /\ edits' = 0
    /\ base' = Rows
    /\ UNCHANGED <<vars, theirs, before, pending>>

\* The other clone is done; this one starts from the same commit.
Turn ==
    /\ phase = "theirs" /\ pc = "idle"
    /\ phase' = "ours" /\ edits' = 0
    /\ theirs' = Rows
    /\ status' = base.status /\ dep' = base.dep /\ isBlocked' = base.isBlocked
    /\ UNCHANGED <<wisps, loopVars, base, before, pending>>

-------------------------------------------------------------------------------
(* The merge *)

Clashes(b, o, t) == o # b /\ t # b /\ o # t

Merged(b, o, t) == IF o = b THEN t ELSE o

\* Both sides changed a cell, or one removed a row that the other changed.
IssueClashes(i) ==
    \/ Clashes(base.status[i], status[i], theirs.status[i])
    \/ /\ "absent" \in {status[i], theirs.status[i]}
       /\ Clashes(<<base.status[i], base.isBlocked[i]>>, <<status[i], isBlocked[i]>>,
                  <<theirs.status[i], theirs.isBlocked[i]>>)

Conflicting ==
    \/ \E i \in Issues : IssueClashes(i)
    \/ \E e \in Issues \X Issues : Clashes(base.dep[e], dep[e], theirs.dep[e])

\* dolt_merge of a branch or of what was fetched, without conflicts.
Merge ==
    /\ phase = "ours" /\ pc = "idle"
    /\ ~Conflicting
    /\ status' = [i \in Issues |-> Merged(base.status[i], status[i], theirs.status[i])]
    /\ isBlocked' =
         [i \in Issues |-> Merged(base.isBlocked[i], isBlocked[i], theirs.isBlocked[i])]
    /\ dep' = [e \in Issues \X Issues |-> Merged(base.dep[e], dep[e], theirs.dep[e])]
    /\ before' = Rows
    /\ base' = NoRows /\ theirs' = NoRows /\ edits' = 0
    /\ phase' = IF Hook THEN "merged" ELSE "settled"
    /\ UNCHANGED <<wisps, loopVars, pending>>

-------------------------------------------------------------------------------
(* The pass *)

ChangedIssues(from) ==
    {i \in Issues : <<status[i], isBlocked[i]>> # <<from.status[i], from.isBlocked[i]>>}

\* An edge that was changed counts as it was and as it is.
ChangedEdges(from) ==
    UNION {{<<e[1], e[2], from.dep[e]>>, <<e[1], e[2], dep[e]>>} :
             e \in {x \in Issues \X Issues : dep[x] # from.dep[x]}}

MergeAffected(from) ==
    (UNION {AffectedByStatusChange(i) : i \in ChangedIssues(from)})
    \cup UNION {AffectedByDepChange(dep, e[1], e[2], e[3]) :
                  e \in {x \in ChangedEdges(from) : x[3] # "none"}}

TooMany(from) == Cardinality(ChangedIssues(from)) + Cardinality(ChangedEdges(from)) > SeedCap

\* Mutant: a failed pass before this one is not made up for.
FromThisMerge == before

\* The marker of a failed pass is older and covers its merge too.
From == IF pending # NoRows THEN pending ELSE before

\* recomputeIsBlockedAfterMergeScoped.  The diff may be unavailable.
RecomputeAfterMerge ==
    /\ phase = "merged" /\ pc = "idle"
    /\ \/ Recompute(Issues)
       \/ ~TooMany(From) /\ Recompute(MergeAffected(From))
    /\ phase' = "recompute"
    /\ UNCHANGED <<status, wisps, dep, isBlocked, edits, base, theirs, before, pending>>

\* The pass ends in the transaction that removes the marker.
FinishPass ==
    /\ phase \in {"recompute", "repair"}
    /\ \/ Loop /\ UNCHANGED <<phase, pending>>
       \/ /\ pc = "idle"
          /\ phase' = "settled"
          /\ pending' = IF phase = "recompute" THEN NoRows ELSE pending
          /\ UNCHANGED vars
    /\ UNCHANGED <<edits, base, theirs, before>>

\* The transaction of the pass is rolled back, and the marker set in another one;
\* one that is there already stays.
PassFails ==
    /\ phase = "merged"
    /\ phase' = "stale"
    /\ pending' = From
    /\ UNCHANGED <<vars, edits, base, theirs, before>>

\* A later pull, which brings nothing: HEAD is what it was before.
PullAgain ==
    /\ phase = "stale" /\ pc = "idle"
    /\ phase' = "merged"
    /\ before' = Rows
    /\ UNCHANGED <<vars, edits, base, theirs, pending>>

\* RecomputeAllIsBlockedInTx, which needs no merge; the marker stays.
RecomputeAll ==
    /\ phase = "stale" /\ pc = "idle"
    /\ Recompute(Issues)
    /\ phase' = "repair"
    /\ UNCHANGED <<status, wisps, dep, isBlocked, edits, base, theirs, before, pending>>

MergeNext == \/ Write \/ Fork \/ Turn \/ Merge
             \/ RecomputeAfterMerge \/ FinishPass \/ PassFails \/ PullAgain \/ RecomputeAll

MergeSpec == MergeInit /\ [][MergeNext]_allVars

-------------------------------------------------------------------------------
(* Properties *)

\* "A converged database counts 0": when a merge, and the pass after it, are over,
\* each flag is what the merged graph says, whichever side changed what, and also
\* when a pass has failed and the merged rows were edited before the next one.
FlagsFollowMerge ==
    phase = "settled" => StaleFlags = {}
===============================================================================
