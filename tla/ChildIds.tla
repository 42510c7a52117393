------------------------------ MODULE ChildIds ------------------------------
(***************************************************************************)
(* Numbers of child issues (parent.1, parent.2, ...): GetNextChildID and   *)
(* its counter, the four ways an issue with such an id is created, the     *)
(* orphan check, deletion and promotion.  Every call is one write          *)
(* transaction under the file lock, so every call is one step.             *)
(*                                                                         *)
(* An id lives in the issues table, in the wisps table, in both or in      *)
(* none.  The counters of regular parents are in child_counters; those of  *)
(* wisps would be in wisp_child_counters, which only the clone-local       *)
(* migrations create, and those are not run for this backend: whatever     *)
(* reads a counter of a wisp fails and is rolled back.                     *)
(***************************************************************************)
EXTENDS Integers, FiniteSets

CONSTANTS
    Parents,   \* ids of issues that may have children
    MaxChild,  \* bound: children are numbered 1 .. MaxChild
    ChildGaps  \* calls that go around the counter: see Sneaks and Intrudes

ASSUME MaxChildAssumption == MaxChild \in Nat \ {0}
ASSUME GapsAssumption == ChildGaps \subseteq {"bypass", "intrude"}

VARIABLES
    home,       \* the tables that hold a row of each parent
    rows,       \* the numbers of the children of each parent, by table
    lastChild,  \* child_counters.last_child, 0 when there is no row
    handed,     \* how often GetNextChildID has answered each child's id
    reserved,   \* ids handed out that their caller has not created yet
    answer      \* what the latest call answered

childVars == <<home, rows, lastChild, handed, reserved, answer>>

ChildTables == {"issues", "wisps"}
Numbers == 1 .. MaxChild
Children == Parents \X Numbers
Handlings == {"strict", "skip", "allow"}

ChildTypeOK ==
    /\ home \in [Parents -> SUBSET ChildTables]
    /\ rows \in [ChildTables -> [Parents -> SUBSET Numbers]]
    /\ lastChild \in [Parents -> 0 .. MaxChild]
    /\ handed \in [Children -> Nat]
    /\ reserved \subseteq Children
    /\ answer \in {"ok", "orphan", "no such table"}

ChildInit ==
    /\ home = [p \in Parents |-> {}]
    /\ rows = [t \in ChildTables |-> [p \in Parents |-> {}]]
    /\ lastChild = [p \in Parents |-> 0]
    /\ handed = [c \in Children |-> 0]
    /\ reserved = {}
    /\ answer = "ok"

\* IsActiveWispInTx: an id that is in both tables counts as a wisp.
IsActiveWisp(p) == "wisps" \in home[p]

\* A parent whose counter cannot be read: the call is rolled back.
NoCounterTable(p) ==
    /\ IsActiveWisp(p)
    /\ answer' = "no such table"
    /\ UNCHANGED <<home, rows, lastChild, handed, reserved>>

-----------------------------------------------------------------------------
(* GetNextChildID *)

\* One more than the counter and than every child in the parent's own table.
IsNext(p, n) ==
    /\ n > lastChild[p]
    /\ \A k \in rows["issues"][p] : n > k
    /\ \/ n = lastChild[p] + 1
       \/ \E k \in rows["issues"][p] : n = k + 1

\* The answer reaches the caller, or is lost: then nobody uses the number.
NextChildID(p) ==
    \/ NoCounterTable(p)
    \/ /\ ~IsActiveWisp(p)
       /\ \E n \in Numbers :
             /\ IsNext(p, n)
             /\ lastChild' = [lastChild EXCEPT ![p] = n]
             /\ handed' = [handed EXCEPT ![<<p, n>>] = @ + 1]
             /\ \/ reserved' = reserved \cup {<<p, n>>}
                \/ reserved' = reserved
       /\ answer' = "ok"
       /\ UNCHANGED <<home, rows>>

-----------------------------------------------------------------------------
(* Creating children *)

\* Without the gap nobody creates an id that another caller holds; its
\* holder does.  Nothing in the code tells the two apart.
Intrudes(p, n) == <<p, n>> \in reserved /\ "intrude" \in ChildGaps

Claims(p, n) ==
    \/ reserved' = reserved \ {<<p, n>>}
    \/ Intrudes(p, n) /\ reserved' = reserved

\* INSERT OR REPLACE into the table that the issue's flags select.
Insert(p, n, t) == rows' = [rows EXCEPT ![t][p] = @ \cup {n}]

\* Mutant: the counter is left to the next call of GetNextChildID.
ReconcileLater(p, n) == lastChild' = lastChild

\* ReconcileChildCounters, for a parent with a counter.
Reconcile(p, n) ==
    lastChild' = [lastChild EXCEPT ![p] = IF n > @ THEN n ELSE @]

\* CreateIssue: no orphan check, counters reconciled.
CreateIssue(p, n, t) ==
    \/ NoCounterTable(p)
    \/ /\ ~IsActiveWisp(p)
       /\ Insert(p, n, t)
       /\ Reconcile(p, n)
       /\ Claims(p, n)
       /\ answer' = "ok"
       /\ UNCHANGED <<home, handed>>

\* CheckOrphan looks for the parent in the child's own table only.
IsOrphan(p, t) == t \notin home[p]

RejectOrphan(p, t, handling) ==
    /\ IsOrphan(p, t) /\ handling = "strict"
    /\ answer' = "orphan"
    /\ UNCHANGED <<home, rows, lastChild, handed, reserved>>

\* CreateIssuesWithFullOptions of issues that are not all wisps.  A skipped
\* orphan is not inserted, but it is reconciled with the rest.
CreateIssues(p, n, t, handling) ==
    \/ RejectOrphan(p, t, handling)
    \/ ~(IsOrphan(p, t) /\ handling = "strict") /\ NoCounterTable(p)
    \/ /\ ~(IsOrphan(p, t) /\ handling = "strict")
       /\ ~IsActiveWisp(p)
       /\ IF IsOrphan(p, t) /\ handling = "skip"
            THEN UNCHANGED <<rows, reserved>>
            ELSE Insert(p, n, t) /\ Claims(p, n)
       /\ Reconcile(p, n)
       /\ answer' = "ok"
       /\ UNCHANGED <<home, handed>>

\* The two paths that leave the counters alone.  Without the gap their
\* callers create only numbers that the counter has reached.
Sneaks(p, n) == n <= lastChild[p] \/ "bypass" \in ChildGaps

\* CreateIssuesWithFullOptions of wisps only: the fast path.
CreateWisps(p, n, handling) ==
    /\ Sneaks(p, n)
    /\ \/ RejectOrphan(p, "wisps", handling)
       \/ /\ ~(IsOrphan(p, "wisps") /\ handling = "strict")
          /\ IF IsOrphan(p, "wisps") /\ handling = "skip"
               THEN UNCHANGED <<rows, reserved>>
               ELSE Insert(p, n, "wisps") /\ Claims(p, n)
          /\ answer' = "ok"
          /\ UNCHANGED <<home, lastChild, handed>>

\* CreateIssue and CreateIssues within a caller's transaction.
CreateInTransaction(p, n, t) ==
    /\ Sneaks(p, n)
    /\ Insert(p, n, t)
    /\ Claims(p, n)
    /\ answer' = "ok"
    /\ UNCHANGED <<home, lastChild, handed>>

-----------------------------------------------------------------------------
(* Parents, deletion and promotion *)

CreateParent(p, t) ==
    /\ home' = [home EXCEPT ![p] = @ \cup {t}]
    /\ answer' = "ok"
    /\ UNCHANGED <<rows, lastChild, handed, reserved>>

\* Mutant: the counter goes with its parent, as a cascading key would have it.
DeleteParentAndCounter(p) ==
    /\ home[p] # {}
    /\ home' = [home EXCEPT ![p] = IF IsActiveWisp(p) THEN @ \ {"wisps"} ELSE {}]
    /\ lastChild' = [lastChild EXCEPT ![p] = 0]
    /\ answer' = "ok"
    /\ UNCHANGED <<rows, handed, reserved>>

\* The row in wisps goes if there is one, the row in issues otherwise.  No
\* foreign key is enforced: children and counter stay.
DeleteParent(p) ==
    /\ home[p] # {}
    /\ home' = [home EXCEPT ![p] = IF IsActiveWisp(p) THEN @ \ {"wisps"} ELSE {}]
    /\ answer' = "ok"
    /\ UNCHANGED <<rows, lastChild, handed, reserved>>

DeleteChild(p, n) ==
    /\ \E t \in ChildTables :
          /\ n \in rows[t][p]
          /\ t = "issues" => n \notin rows["wisps"][p]
          /\ rows' = [rows EXCEPT ![t][p] = @ \ {n}]
    /\ answer' = "ok"
    /\ UNCHANGED <<home, lastChild, handed, reserved>>

PromoteParent(p) ==
    /\ IsActiveWisp(p)
    /\ home' = [home EXCEPT ![p] = {"issues"}]
    /\ answer' = "ok"
    /\ UNCHANGED <<rows, lastChild, handed, reserved>>

PromoteChild(p, n) ==
    /\ n \in rows["wisps"][p]
    /\ rows' = [rows EXCEPT !["issues"][p] = @ \cup {n}, !["wisps"][p] = @ \ {n}]
    /\ answer' = "ok"
    /\ UNCHANGED <<home, lastChild, handed, reserved>>

ChildNext ==
    \E p \in Parents :
        \/ NextChildID(p)
        \/ DeleteParent(p)
        \/ PromoteParent(p)
        \/ \E t \in ChildTables : CreateParent(p, t)
        \/ \E n \in Numbers :
              \/ DeleteChild(p, n)
              \/ PromoteChild(p, n)
              \/ \E t \in ChildTables : CreateIssue(p, n, t) \/ CreateInTransaction(p, n, t)
              \/ \E h \in Handlings :
                    \/ CreateWisps(p, n, h)
                    \/ \E t \in ChildTables : CreateIssues(p, n, t, h)

ChildSpec == ChildInit /\ [][ChildNext]_childVars

-----------------------------------------------------------------------------
(* Properties *)

\* GetNextChildID answers no id twice, whatever was deleted, promoted or
\* created again in between: an id names one child for good.
HandedOnce == \A c \in Children : handed[c] <= 1

\* Nobody has created an id that GetNextChildID has answered and that its
\* caller has not used yet: the INSERT OR REPLACE of that caller finds no row.
ReservedFree ==
    \A p \in Parents, n \in Numbers, t \in ChildTables :
        <<p, n>> \in reserved => n \notin rows[t][p]
=============================================================================
