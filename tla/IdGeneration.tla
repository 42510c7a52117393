---------------------------- MODULE IdGeneration ----------------------------
(***************************************************************************)
(* The id of an issue whose client has given none (GenerateIssueIDInTable, *)
(* internal/storage/issueops/helpers.go): a hash that grows until it is    *)
(* free, or the next number of its prefix when config says so.  The insert *)
(* that follows replaces.  One write transaction under the file lock is    *)
(* one step.                                                               *)
(*                                                                         *)
(* One prefix.  An id is a number, when its suffix reads as one, or a name.*)
(***************************************************************************)
EXTENDS Naturals, FiniteSets

CONSTANTS
    MaxId,   \* bound: the numbers that occur
    Names    \* ids that are no numbers

ASSUME IdAssumption == MaxId \in Nat /\ Names \cap Nat = {}

VARIABLES
    ids,       \* the ids in each table
    lastId,    \* issue_counter.last_id of the prefix, 0 when there is no row
    counting,  \* issue_id_mode is "counter"
    replaced,  \* rows that the creation of another issue has replaced
    outran     \* numbers that came into issues past a counter

idVars == <<ids, lastId, counting, replaced, outran>>

IdTables == {"issues", "wisps"}
Ids == 1..MaxId \cup Names

IdTypeOK ==
    /\ ids \in [IdTables -> SUBSET Ids]
    /\ lastId \in 0..MaxId
    /\ counting \in BOOLEAN
    /\ replaced \subseteq Ids
    /\ outran \subseteq 1..MaxId

IdInit ==
    /\ ids = [t \in IdTables |-> {}]
    /\ lastId = 0
    /\ counting \in BOOLEAN
    /\ replaced = {} /\ outran = {}

\* An id comes into a table by another way than the counter, which none of them
\* looks at.
Enters(t, id) ==
    outran' = IF t = "issues" /\ id \in Nat /\ 0 < lastId /\ lastId < id
              THEN outran \cup {id} ELSE outran

InsertId(t, id) == ids' = [ids EXCEPT ![t] = @ \cup {id}]

Generated(t, id) ==
    /\ InsertId(t, id)
    /\ replaced' = replaced \cup ({id} \cap ids[t])
    /\ UNCHANGED counting

------------------------------------------------------------------------------
(* Creation *)

\* Mutant: the counter of a prefix starts at one.
SeedOfNone == {0}

\* SeedCounterFromExistingIssuesTx: the highest number among the issues.
Seed ==
    LET numbers == ids["issues"] \cap Nat
    IN  IF numbers = {} THEN {0} ELSE {n \in numbers : \A k \in numbers : k <= n}

\* NextCounterIDTx, which does not look whether the id is free.
CreateCounted ==
    /\ counting
    /\ \E last \in IF lastId > 0 THEN {lastId} ELSE Seed :
           /\ last < MaxId
           /\ lastId' = last + 1
           /\ Generated("issues", last + 1)
    /\ UNCHANGED outran

\* The first of up to sixty candidates that has no row in this table.  When all
\* of them have one nothing is created.
CreateHashed(t) ==
    /\ counting => t = "wisps"
    /\ \E id \in Ids \ ids[t] : Enters(t, id) /\ Generated(t, id)
    /\ UNCHANGED lastId

\* The client names the issue, and means a row that it replaces.
CreateNamed(t, id) ==
    /\ Enters(t, id)
    /\ InsertId(t, id)
    /\ UNCHANGED <<lastId, counting, replaced>>

------------------------------------------------------------------------------
(* What else changes ids *)

DeleteId(t, id) ==
    /\ id \in ids[t]
    /\ ids' = [ids EXCEPT ![t] = @ \ {id}]
    /\ UNCHANGED <<lastId, counting, replaced, outran>>

\* The row moves with its id.
PromoteId(id) ==
    /\ id \in ids["wisps"] /\ Enters("issues", id)
    /\ ids' = [issues |-> ids["issues"] \cup {id}, wisps |-> ids["wisps"] \ {id}]
    /\ UNCHANGED <<lastId, counting, replaced>>

\* A rename is refused when the new id is taken.
RenameId(t, old, new) ==
    /\ old \in ids[t] /\ new \notin ids[t] /\ Enters(t, new)
    /\ ids' = [ids EXCEPT ![t] = (@ \ {old}) \cup {new}]
    /\ UNCHANGED <<lastId, counting, replaced>>

\* bd config set issue_id_mode.
SetMode ==
    /\ counting' = ~counting
    /\ UNCHANGED <<ids, lastId, replaced, outran>>

IdNext ==
    \/ CreateCounted \/ SetMode
    \/ \E t \in IdTables :
           \/ CreateHashed(t)
           \/ \E id \in Ids :
                  \/ CreateNamed(t, id) \/ DeleteId(t, id)
                  \/ \E new \in Ids : RenameId(t, id, new)
    \/ \E id \in Ids : PromoteId(id)

IdSpec == IdInit /\ [][IdNext]_idVars

------------------------------------------------------------------------------
(* Properties *)

\* "GenerateIssueIDInTable generates a unique ID, checking for collisions": the insert
\* of an issue with a generated id replaces the row of no other, through changes of
\* the mode, deletions, renames and promotions, but for one: a number that has outrun
\* its counter, by an explicit id, a hash of digits, a promotion or a rename, goes to
\* another issue when the counter gets there.
OnlyOutrunReplaced == replaced \subseteq outran
=============================================================================
