------------------------------ MODULE WriteProofs ------------------------------
(***************************************************************************)
(* Proofs about what surrounds the write of an issue: the id it is given   *)
(* (ChildIds, IdGeneration), for any parents, ids and numbers, and the     *)
(* hooks that tell of it (HookFiring), for any issues and any history.     *)
(***************************************************************************)
EXTENDS ChildIds, IdGeneration, HookFiring, SequenceTheorems, TLAPS

------------------------------------------------------------------------------
(* ChildIds: the numbering of children.  What GetNextChildID answers stays *)
(* at or below the counter, and the counter never falls: so no answer      *)
(* repeats.  When every creation is reconciled the wisps stay below the    *)
(* counter too, which is why a new number is free in the table that        *)
(* GetNextChildID does not look at.                                        *)

\* No id handed out is beyond the counter of its parent.
HandedBelow ==
    \A p \in Parents, n \in Numbers : handed[<<p, n>>] > 0 => n <= lastChild[p]

\* No child in wisps is beyond the counter of its parent.
WispsBelow ==
    \A p \in Parents, n \in Numbers : n \in rows["wisps"][p] => n <= lastChild[p]

OnceInv == ChildTypeOK /\ HandedBelow /\ HandedOnce

FreeInv == WispsBelow /\ ReservedFree

\* A creation, on any of its paths: one row more, a counter that does not
\* fall, and a reservation less unless another caller's is in the way.
Creates(p, n, t) ==
    /\ Insert(p, n, t) /\ Claims(p, n)
    /\ Reconcile(p, n) \/ (Sneaks(p, n) /\ UNCHANGED lastChild)
    /\ answer' = "ok"
    /\ UNCHANGED <<home, handed>>

\* A batch that skips an orphan: the counter may move, nothing else does.
Skips(p, n) ==
    /\ Reconcile(p, n) \/ UNCHANGED lastChild
    /\ answer' = "ok"
    /\ UNCHANGED <<home, rows, handed, reserved>>

\* A call that fails, or one that touches rows of parents only.
Apart(p) ==
    /\ home' \in [Parents -> SUBSET ChildTables]
    /\ answer' \in {"ok", "orphan", "no such table"}
    /\ UNCHANGED <<rows, lastChild, handed, reserved>>

\* Counters and numbers are naturals that the prover can compare.
LEMMA CountersAreNat ==
    ASSUME ChildTypeOK
    PROVE  /\ Numbers \subseteq Nat /\ Numbers \subseteq 0 .. MaxChild
           /\ \A p \in Parents : lastChild[p] \in Nat
  <1>1. lastChild \in [Parents -> 0 .. MaxChild]
    BY DEF ChildTypeOK
  <1> QED
    BY <1>1, MaxChildAssumption DEF Numbers

\* Every step of Next is one of six kinds: it numbers a child, creates or
\* skips one, deletes or promotes one, or leaves the children alone.
LEMMA StepKinds ==
    ASSUME ChildTypeOK, ChildNext
    PROVE  \E p \in Parents :
               \/ NextChildID(p)
               \/ Apart(p)
               \/ \E n \in Numbers :
                     \/ DeleteChild(p, n)
                     \/ PromoteChild(p, n)
                     \/ Skips(p, n)
                     \/ \E t \in ChildTables : Creates(p, n, t)
  <1>1. PICK p \in Parents :
           \/ NextChildID(p)
           \/ DeleteParent(p)
           \/ PromoteParent(p)
           \/ \E t \in ChildTables : CreateParent(p, t)
           \/ \E n \in Numbers :
                 \/ DeleteChild(p, n)
                 \/ PromoteChild(p, n)
                 \/ \E t \in ChildTables : CreateIssue(p, n, t) \/ CreateInTransaction(p, n, t)
                 \/ \E h \in Handlings :
                       \/ CreateWisps(p, n, h)
                       \/ \E t \in ChildTables : CreateIssues(p, n, t, h)
    BY DEF ChildNext
  <1>2. "wisps" \in ChildTables
    BY DEF ChildTables
  <1>3. home \in [Parents -> SUBSET ChildTables]
    BY DEF ChildTypeOK
  <1>4. NoCounterTable(p) => Apart(p)
    BY <1>3 DEF NoCounterTable, Apart
  <1>5. ASSUME NEW t \in ChildTables, NEW h \in Handlings, RejectOrphan(p, t, h)
        PROVE  Apart(p)
    BY <1>3, <1>5 DEF RejectOrphan, Apart
  <1>6. CASE DeleteParent(p)
    BY <1>3, <1>6 DEF DeleteParent, Apart
  <1>7. CASE PromoteParent(p)
    BY <1>3, <1>7 DEF PromoteParent, Apart, ChildTables
  <1>8. ASSUME NEW t \in ChildTables, CreateParent(p, t)
        PROVE  Apart(p)
    BY <1>3, <1>8 DEF CreateParent, Apart
  <1>9. ASSUME NEW n \in Numbers, NEW t \in ChildTables, CreateIssue(p, n, t)
        PROVE  Apart(p) \/ Creates(p, n, t)
    BY <1>4, <1>9 DEF CreateIssue, Creates
  <1>10. ASSUME NEW n \in Numbers, NEW t \in ChildTables, CreateInTransaction(p, n, t)
         PROVE  Creates(p, n, t)
    BY <1>10 DEF CreateInTransaction, Creates
  <1>11. ASSUME NEW n \in Numbers, NEW h \in Handlings, CreateWisps(p, n, h)
         PROVE  Apart(p) \/ Skips(p, n) \/ Creates(p, n, "wisps")
    BY <1>2, <1>5, <1>11 DEF CreateWisps, Skips, Creates
  <1>12. ASSUME NEW n \in Numbers, NEW t \in ChildTables, NEW h \in Handlings,
                CreateIssues(p, n, t, h)
         PROVE  Apart(p) \/ Skips(p, n) \/ Creates(p, n, t)
    BY <1>4, <1>5, <1>12 DEF CreateIssues, Skips, Creates
  <1> QED
    BY <1>1, <1>2, <1>6, <1>7, <1>8, <1>9, <1>10, <1>11, <1>12

\* A step keeps the types, the numbers handed out below the counter, and
\* each of them handed out once.
LEMMA OnceStep ==
    ASSUME OnceInv, [ChildNext]_childVars
    PROVE  OnceInv'
  <1> DEFINE Counts == lastChild \in [Parents -> 0 .. MaxChild]
             Answers == handed \in [Children -> Nat]
             Rows == rows \in [ChildTables -> [Parents -> SUBSET Numbers]]
             Rest == /\ home \in [Parents -> SUBSET ChildTables]
                     /\ reserved \subseteq Children
                     /\ answer \in {"ok", "orphan", "no such table"}
  <1>3. ChildTypeOK /\ Counts /\ Answers /\ Rows /\ Rest /\ HandedBelow /\ HandedOnce
    BY DEF OnceInv, ChildTypeOK
  <1>4. /\ Numbers \subseteq Nat /\ Numbers \subseteq 0 .. MaxChild
        /\ \A p \in Parents : lastChild[p] \in Nat
    BY <1>3, CountersAreNat
  <1>5. \A p \in Parents, n \in Numbers : <<p, n>> \in Children
    BY DEF Children
  <1>6. Counts' /\ Answers' /\ Rows' /\ Rest' => ChildTypeOK'
    BY DEF ChildTypeOK
  <1> HIDE DEF Counts, Answers, Rows, Rest
  <1>1. CASE UNCHANGED childVars
    BY <1>1 DEF childVars, OnceInv, ChildTypeOK, HandedBelow, HandedOnce
  <1>2. CASE ChildNext
    <2>1. PICK p \in Parents :
             \/ NextChildID(p)
             \/ Apart(p)
             \/ \E n \in Numbers :
                   \/ DeleteChild(p, n)
                   \/ PromoteChild(p, n)
                   \/ Skips(p, n)
                   \/ \E t \in ChildTables : Creates(p, n, t)
      BY <1>2, StepKinds DEF OnceInv
    <2>2. CASE Apart(p)
      BY <2>2 DEF Apart, OnceInv, ChildTypeOK, HandedBelow, HandedOnce
    <2>3. CASE NextChildID(p)
      <3>1. CASE NoCounterTable(p)
        BY <3>1 DEF NoCounterTable, OnceInv, ChildTypeOK, HandedBelow, HandedOnce
      <3>2. CASE ~NoCounterTable(p)
        <4>1. PICK n \in Numbers :
                 /\ n > lastChild[p]
                 /\ lastChild' = [lastChild EXCEPT ![p] = n]
                 /\ handed' = [handed EXCEPT ![<<p, n>>] = @ + 1]
                 /\ reserved' \subseteq reserved \cup {<<p, n>>}
          BY <2>3, <3>2 DEF NextChildID, IsNext
        <4>2. handed[<<p, n>>] \in Nat
          BY <1>3, <1>5 DEF Answers
        <4>3. handed[<<p, n>>] = 0
          BY <1>3, <1>4, <4>1, <4>2 DEF HandedBelow
        <4>4. UNCHANGED <<home, rows>> /\ answer' = "ok"
          BY <2>3, <3>2 DEF NextChildID
        <4>5. Counts'
          BY <1>3, <1>4, <4>1 DEF Counts
        <4>6. Answers'
          BY <1>3, <1>5, <4>1 DEF Answers
        <4>7. Rows' /\ Rest'
          BY <1>3, <1>5, <4>1, <4>4 DEF Rows, Rest
        <4>8. HandedBelow'
          <5>1. ASSUME NEW q \in Parents, NEW k \in Numbers, handed'[<<q, k>>] > 0
                PROVE  k <= lastChild'[q]
            <6>1. CASE q = p /\ k = n
              BY <1>3, <1>4, <4>1, <6>1 DEF Counts
            <6>2. CASE ~(q = p /\ k = n)
              <7>1. handed'[<<q, k>>] = handed[<<q, k>>]
                BY <1>3, <1>5, <4>1, <6>2 DEF Answers
              <7>2. k <= lastChild[q]
                BY <1>3, <5>1, <7>1 DEF HandedBelow
              <7>3. lastChild'[q] = lastChild[q] \/ (q = p /\ lastChild'[q] = n)
                BY <1>3, <4>1 DEF Counts
              <7> QED
                BY <1>4, <4>1, <7>2, <7>3
            <6> QED
              BY <6>1, <6>2
          <5> QED
            BY <5>1 DEF HandedBelow
        <4>9. HandedOnce'
          <5>1. ASSUME NEW c \in Children
                PROVE  handed'[c] = handed[c] \/ handed'[c] = 1
            BY <1>3, <1>5, <4>1, <4>3 DEF Answers
          <5>2. \A c \in Children : handed[c] <= 1
            BY <1>3 DEF HandedOnce
          <5> QED
            BY <5>1, <5>2 DEF HandedOnce
        <4> QED
          BY <1>6, <4>5, <4>6, <4>7, <4>8, <4>9 DEF OnceInv
      <3> QED
        BY <3>1, <3>2
    <2>4. ASSUME NEW n \in Numbers, DeleteChild(p, n) \/ PromoteChild(p, n)
          PROVE  OnceInv'
      <3>1. Rows'
        BY <1>3, <2>4 DEF DeleteChild, PromoteChild, Rows, ChildTables
      <3>2. UNCHANGED <<home, lastChild, handed, reserved>> /\ answer' = "ok"
        BY <2>4 DEF DeleteChild, PromoteChild
      <3> QED
        BY <1>3, <1>6, <3>1, <3>2
        DEF OnceInv, Counts, Answers, Rest, HandedBelow, HandedOnce
    <2>5. ASSUME NEW n \in Numbers, NEW t \in ChildTables,
                 Creates(p, n, t) \/ Skips(p, n)
          PROVE  OnceInv'
      <3>1. Rows'
        BY <1>3, <2>5 DEF Creates, Skips, Insert, Rows
      <3>2. Counts' /\ \A q \in Parents : lastChild[q] <= lastChild'[q]
        <4>1. CASE UNCHANGED lastChild
          BY <1>3, <1>4, <4>1 DEF Counts
        <4>2. CASE Reconcile(p, n)
          BY <1>3, <1>4, <4>2 DEF Reconcile, Counts
        <4> QED
          BY <2>5, <4>1, <4>2 DEF Creates, Skips
      <3>3. reserved' \subseteq reserved
        BY <2>5 DEF Creates, Skips, Claims
      <3>4. UNCHANGED <<home, handed>> /\ answer' = "ok"
        BY <2>5 DEF Creates, Skips
      <3>5. ChildTypeOK'
        BY <1>3, <1>6, <3>1, <3>2, <3>3, <3>4 DEF Answers, Rest
      <3>6. HandedBelow'
        <4>1. ASSUME NEW q \in Parents, NEW k \in Numbers, handed'[<<q, k>>] > 0
              PROVE  k <= lastChild'[q]
          <5>1. k <= lastChild[q] /\ lastChild[q] <= lastChild'[q]
            BY <1>3, <3>2, <3>4, <4>1 DEF HandedBelow
          <5>2. lastChild'[q] \in Nat /\ lastChild[q] \in Nat /\ k \in Nat
            BY <1>4, <3>2, MaxChildAssumption DEF Counts
          <5> QED
            BY <5>1, <5>2
        <4> QED
          BY <4>1 DEF HandedBelow
      <3> QED
        BY <1>3, <3>4, <3>5, <3>6 DEF OnceInv, HandedOnce
    <2>6. ChildTables # {}
      BY DEF ChildTables
    <2> QED
      BY <2>1, <2>2, <2>3, <2>4, <2>5, <2>6
  <1> QED
    BY <1>1, <1>2 DEF childVars

LEMMA OnceInvariant == ChildSpec => []OnceInv
  <1>1. ChildInit => OnceInv
    BY MaxChildAssumption
    DEF ChildInit, OnceInv, ChildTypeOK, HandedBelow, HandedOnce, Children, Numbers, ChildTables
  <1> QED
    BY <1>1, OnceStep, PTL DEF ChildSpec

\* Every variable keeps its type, whichever calls go around the counter.
THEOREM TypeCorrect == ChildSpec => []ChildTypeOK
  BY OnceInvariant, PTL DEF OnceInv

\* GetNextChildID never repeats an id, whichever calls go around the counter
\* and whatever is deleted, promoted or created again in between.
THEOREM NumbersNeverRepeat == ChildSpec => []HandedOnce
  BY OnceInvariant, PTL DEF OnceInv

-----------------------------------------------------------------------------

\* When no call goes around the counter, a step keeps wisps below it and
\* reserved ids free.
LEMMA FreeStep ==
    ASSUME ChildGaps = {}, ChildTypeOK, ChildTypeOK', FreeInv, [ChildNext]_childVars
    PROVE  FreeInv'
  <1>3. /\ Numbers \subseteq Nat /\ Numbers \subseteq 0 .. MaxChild
        /\ \A p \in Parents : lastChild[p] \in Nat
        /\ \A p \in Parents : lastChild'[p] \in Nat
    <2>1. ChildTypeOK => \A p \in Parents : lastChild[p] \in Nat
      BY CountersAreNat
    <2>2. lastChild' \in [Parents -> 0 .. MaxChild]
      BY DEF ChildTypeOK
    <2> QED
      BY <2>1, <2>2, CountersAreNat, MaxChildAssumption
  <1>4. /\ lastChild \in [Parents -> 0 .. MaxChild]
        /\ rows \in [ChildTables -> [Parents -> SUBSET Numbers]]
    BY DEF ChildTypeOK
  <1>5. WispsBelow /\ ReservedFree
    BY DEF FreeInv
  <1>1. CASE UNCHANGED childVars
    BY <1>1 DEF childVars, FreeInv, WispsBelow, ReservedFree
  <1>2. CASE ChildNext
    <2>1. PICK p \in Parents :
             \/ NextChildID(p)
             \/ Apart(p)
             \/ \E n \in Numbers :
                   \/ DeleteChild(p, n)
                   \/ PromoteChild(p, n)
                   \/ Skips(p, n)
                   \/ \E t \in ChildTables : Creates(p, n, t)
      BY <1>2, StepKinds
    <2>2. CASE Apart(p)
      BY <2>2 DEF Apart, FreeInv, WispsBelow, ReservedFree
    <2>3. CASE NextChildID(p)
      <3>1. CASE NoCounterTable(p)
        BY <3>1 DEF NoCounterTable, FreeInv, WispsBelow, ReservedFree
      <3>2. CASE ~NoCounterTable(p)
        <4>1. PICK n \in Numbers :
                 /\ IsNext(p, n)
                 /\ lastChild' = [lastChild EXCEPT ![p] = n]
                 /\ reserved' \subseteq reserved \cup {<<p, n>>}
          BY <2>3, <3>2 DEF NextChildID
        <4>2. rows' = rows
          BY <2>3, <3>2 DEF NextChildID
        <4>3. n \notin rows["issues"][p] /\ n \notin rows["wisps"][p]
          BY <1>3, <1>4, <1>5, <4>1 DEF IsNext, WispsBelow, ChildTables
        <4>4. ReservedFree'
          BY <1>5, <4>1, <4>2, <4>3 DEF ReservedFree, ChildTables
        <4>5. WispsBelow'
          <5>1. \A q \in Parents : lastChild[q] <= lastChild'[q]
            BY <1>3, <1>4, <4>1 DEF IsNext
          <5> QED
            BY <1>3, <1>5, <4>2, <5>1 DEF WispsBelow
        <4> QED
          BY <4>4, <4>5 DEF FreeInv
      <3> QED
        BY <3>1, <3>2
    <2>4. ASSUME NEW n \in Numbers, DeleteChild(p, n)
          PROVE  FreeInv'
      <3>1. \A t \in ChildTables, q \in Parents : rows'[t][q] \subseteq rows[t][q]
        BY <1>4, <2>4 DEF DeleteChild, ChildTables
      <3> QED
        BY <2>4, <3>1 DEF DeleteChild, FreeInv, WispsBelow, ReservedFree, ChildTables
    <2>5. ASSUME NEW n \in Numbers, PromoteChild(p, n)
          PROVE  FreeInv'
      <3>1. \A q \in Parents : rows'["wisps"][q] \subseteq rows["wisps"][q]
        BY <1>4, <2>5 DEF PromoteChild, ChildTables
      <3>2. \A q \in Parents :
               rows'["issues"][q] \subseteq rows["issues"][q] \cup rows["wisps"][q]
        BY <1>4, <2>5 DEF PromoteChild, ChildTables
      <3> QED
        BY <2>5, <3>1, <3>2 DEF PromoteChild, FreeInv, WispsBelow, ReservedFree, ChildTables
    <2>6. ASSUME NEW n \in Numbers, Skips(p, n)
          PROVE  FreeInv'
      <3>1. \A q \in Parents : lastChild[q] <= lastChild'[q]
        BY <1>3, <1>4, <2>6 DEF Skips, Reconcile
      <3>2. UNCHANGED <<rows, reserved>>
        BY <2>6 DEF Skips
      <3>3. WispsBelow'
        BY <1>3, <1>5, <3>1, <3>2 DEF WispsBelow
      <3> QED
        BY <1>5, <3>2, <3>3 DEF FreeInv, ReservedFree
    <2>7. ASSUME NEW n \in Numbers, NEW t \in ChildTables, Creates(p, n, t)
          PROVE  FreeInv'
      <3>1. /\ \A q \in Parents : lastChild[q] <= lastChild'[q]
            /\ n <= lastChild'[p]
        BY <1>3, <1>4, <2>7 DEF Creates, Reconcile, Sneaks
      <3>2. reserved' = reserved \ {<<p, n>>}
        BY <2>7 DEF Creates, Claims, Intrudes
      <3>3. \A u \in ChildTables, q \in Parents, k \in Numbers :
               k \in rows'[u][q] => k \in rows[u][q] \/ (q = p /\ k = n)
        BY <1>4, <2>7 DEF Creates, Insert
      <3>4. WispsBelow'
        <4>1. ASSUME NEW q \in Parents, NEW k \in Numbers,
                     k \in rows'["wisps"][q]
              PROVE  k <= lastChild'[q]
          <5>1. k <= lastChild[q] \/ (q = p /\ k = n)
            BY <1>5, <3>3, <4>1 DEF WispsBelow, ChildTables
          <5>2. lastChild'[q] \in Nat /\ lastChild[q] \in Nat /\ k \in Nat
            BY <1>3
          <5> QED
            BY <3>1, <5>1, <5>2
        <4> QED
          BY <4>1 DEF WispsBelow
      <3>5. ReservedFree'
        BY <1>5, <3>2, <3>3 DEF ReservedFree
      <3> QED
        BY <3>4, <3>5 DEF FreeInv
    <2> QED
      BY <2>1, <2>2, <2>3, <2>4, <2>5, <2>6, <2>7
  <1> QED
    BY <1>1, <1>2 DEF childVars

\* If no call goes around the counter, an id that GetNextChildID has answered
\* has no row in either table until its caller creates it.
THEOREM ReservedStayFree ==
    ASSUME ChildGaps = {}
    PROVE  ChildSpec => []ReservedFree
  <1>1. ChildInit => FreeInv
    BY DEF ChildInit, FreeInv, WispsBelow, ReservedFree, ChildTables
  <1>2. ChildTypeOK /\ ChildTypeOK' /\ FreeInv /\ [ChildNext]_childVars => FreeInv'
    BY FreeStep
  <1>3. FreeInv => ReservedFree
    BY DEF FreeInv
  <1> QED
    BY <1>1, <1>2, <1>3, TypeCorrect, PTL DEF ChildSpec

------------------------------------------------------------------------------
(* IdGeneration: what the counter hands out next is free, or has outrun it. *)

\* The numbers among the issues are at or below a counter that was seeded, unless
\* they have outrun it.
Overtaken ==
    lastId > 0 => \A n \in ids["issues"] \cap Nat : n <= lastId \/ n \in outran

\* The strengthening: what the counter hands out next is free or has outrun it.
IdInv == IdTypeOK /\ Overtaken /\ OnlyOutrunReplaced

\* A table that gains an id, and what entering it means for the counter: used by
\* every way for an id into a table but the counter.
LEMMA EntryKeeps ==
    ASSUME IdInv, NEW t \in IdTables, NEW id \in Ids, Enters(t, id),
           ids' \in [IdTables -> SUBSET Ids], lastId' = lastId,
           ids'["issues"] \subseteq ids["issues"] \cup (IF t = "issues" THEN {id} ELSE {})
    PROVE  /\ outran' \subseteq 1..MaxId /\ outran \subseteq outran'
           /\ Overtaken'
<1>1. outran' = outran \/ (outran' = outran \cup {id} /\ id \in Nat)
  BY DEF Enters
<1>2. id \in Nat => id \in 1..MaxId
  BY IdAssumption DEF Ids
<1>3. outran' \subseteq 1..MaxId /\ outran \subseteq outran'
  BY <1>1, <1>2 DEF IdInv, IdTypeOK
<1>4. ASSUME lastId > 0, NEW n \in ids'["issues"] \cap Nat
      PROVE  n <= lastId \/ n \in outran'
  <2>1. CASE n \in ids["issues"]
    BY <2>1, <1>3, <1>4 DEF IdInv, Overtaken
  <2>2. CASE n \notin ids["issues"]
    <3>1. t = "issues" /\ n = id
      BY <2>2
    <3>2. n <= lastId \/ lastId < n
      BY DEF IdInv, IdTypeOK
    <3> QED
      BY <3>1, <3>2, <1>4 DEF Enters
  <2> QED
    BY <2>1, <2>2
<1> QED
  BY <1>3, <1>4 DEF Overtaken

\* The counter: a seed lies above every number, and what follows the last one is
\* free or has outrun it.
LEMMA CountedKeeps ==
    ASSUME IdInv, CreateCounted
    PROVE  IdInv'
<1>1. PICK last \in IF lastId > 0 THEN {lastId} ELSE Seed :
          /\ last < MaxId
          /\ lastId' = last + 1
          /\ Generated("issues", last + 1)
  BY DEF CreateCounted
<1>2. /\ last \in 0..MaxId
      /\ \A n \in ids["issues"] \cap Nat : n <= last \/ n \in outran
  <2>1. CASE lastId > 0
    BY <2>1, <1>1 DEF IdInv, IdTypeOK, Overtaken
  <2>2. CASE ~(lastId > 0)
    <3>1. last \in Seed
      BY <2>2, <1>1
    <3>2. ids["issues"] \cap Nat \subseteq 1..MaxId
      BY IdAssumption DEF IdInv, IdTypeOK, IdTables, Ids
    <3> QED
      BY <3>1, <3>2, IdAssumption DEF Seed
  <2> QED
    BY <2>1, <2>2
<1>3. last + 1 \in 1..MaxId /\ last + 1 \in Ids
  BY <1>1, <1>2, IdAssumption DEF Ids
<1>4. /\ ids' = [ids EXCEPT !["issues"] = @ \cup {last + 1}]
      /\ replaced' = replaced \cup ({last + 1} \cap ids["issues"])
      /\ counting' = counting /\ outran' = outran
  BY <1>1 DEF CreateCounted, Generated, InsertId
<1>5. IdTypeOK'
  BY <1>1, <1>2, <1>3, <1>4 DEF IdInv, IdTypeOK, IdTables
<1>6. Overtaken'
  <2>1. ids'["issues"] = ids["issues"] \cup {last + 1}
    BY <1>4 DEF IdInv, IdTypeOK, IdTables
  <2>2. ASSUME NEW n \in ids'["issues"] \cap Nat
        PROVE  n <= lastId' \/ n \in outran'
    BY <2>1, <2>2, <1>1, <1>2, <1>4
  <2> QED
    BY <2>2 DEF Overtaken
<1>7. OnlyOutrunReplaced'
  <2>1. last + 1 \in ids["issues"] => last + 1 \in outran
    BY <1>2, <1>3
  <2> QED
    BY <2>1, <1>4 DEF IdInv, OnlyOutrunReplaced
<1> QED
  BY <1>5, <1>6, <1>7 DEF IdInv

\* Every operation keeps the invariant.
LEMMA StepKeeps ==
    ASSUME IdInv, [IdNext]_idVars
    PROVE  IdInv'
<1> USE DEF IdInv
<1>1. CASE CreateCounted
  BY <1>1, CountedKeeps
<1>2. CASE SetMode
  BY <1>2 DEF SetMode, IdTypeOK, Overtaken, OnlyOutrunReplaced
<1>3. ASSUME NEW t \in IdTables, CreateHashed(t)
      PROVE  IdInv'
  <2>1. PICK id \in Ids \ ids[t] : Enters(t, id) /\ Generated(t, id)
    BY <1>3 DEF CreateHashed
  <2>2. /\ ids' = [ids EXCEPT ![t] = @ \cup {id}] /\ replaced' = replaced
        /\ UNCHANGED <<lastId, counting>>
    BY <1>3, <2>1 DEF CreateHashed, Generated, InsertId
  <2>3. /\ ids' \in [IdTables -> SUBSET Ids]
        /\ ids'["issues"] \subseteq ids["issues"] \cup (IF t = "issues" THEN {id} ELSE {})
    BY <2>2 DEF IdTypeOK, IdTables
  <2> QED
    BY <2>1, <2>2, <2>3, EntryKeeps DEF IdTypeOK, OnlyOutrunReplaced
<1>4. ASSUME NEW t \in IdTables, NEW id \in Ids, CreateNamed(t, id)
      PROVE  IdInv'
  <2>1. /\ Enters(t, id) /\ ids' = [ids EXCEPT ![t] = @ \cup {id}]
        /\ UNCHANGED <<lastId, counting, replaced>>
    BY <1>4 DEF CreateNamed, InsertId
  <2>2. /\ ids' \in [IdTables -> SUBSET Ids]
        /\ ids'["issues"] \subseteq ids["issues"] \cup (IF t = "issues" THEN {id} ELSE {})
    BY <2>1 DEF IdTypeOK, IdTables
  <2> QED
    BY <2>1, <2>2, EntryKeeps DEF IdTypeOK, OnlyOutrunReplaced
<1>5. ASSUME NEW t \in IdTables, NEW id \in Ids, DeleteId(t, id)
      PROVE  IdInv'
  <2>1. ids' = [ids EXCEPT ![t] = @ \ {id}] /\ UNCHANGED <<lastId, counting, replaced, outran>>
    BY <1>5 DEF DeleteId
  <2>2. ids' \in [IdTables -> SUBSET Ids] /\ ids'["issues"] \subseteq ids["issues"]
    BY <2>1 DEF IdTypeOK, IdTables
  <2> QED
    BY <2>1, <2>2 DEF IdTypeOK, Overtaken, OnlyOutrunReplaced
<1>6. ASSUME NEW t \in IdTables, NEW old \in Ids, NEW new \in Ids, RenameId(t, old, new)
      PROVE  IdInv'
  <2>1. /\ Enters(t, new) /\ ids' = [ids EXCEPT ![t] = (@ \ {old}) \cup {new}]
        /\ UNCHANGED <<lastId, counting, replaced>>
    BY <1>6 DEF RenameId
  <2>2. /\ ids' \in [IdTables -> SUBSET Ids]
        /\ ids'["issues"] \subseteq ids["issues"] \cup (IF t = "issues" THEN {new} ELSE {})
    BY <2>1 DEF IdTypeOK, IdTables
  <2> QED
    BY <2>1, <2>2, EntryKeeps DEF IdTypeOK, OnlyOutrunReplaced
<1>7. ASSUME NEW id \in Ids, PromoteId(id)
      PROVE  IdInv'
  <2>1. /\ Enters("issues", id)
        /\ ids' = [issues |-> ids["issues"] \cup {id}, wisps |-> ids["wisps"] \ {id}]
        /\ UNCHANGED <<lastId, counting, replaced>>
    BY <1>7 DEF PromoteId
  <2>2. ids["issues"] \subseteq Ids /\ ids["wisps"] \subseteq Ids
    BY DEF IdTypeOK, IdTables
  <2>3. /\ ids' \in [IdTables -> SUBSET Ids]
        /\ ids'["issues"] \subseteq ids["issues"] \cup {id}
    BY <2>1, <2>2 DEF IdTables
  <2> QED
    BY <2>1, <2>3, EntryKeeps DEF IdTables, IdTypeOK, OnlyOutrunReplaced
<1>8. CASE UNCHANGED idVars
  BY <1>8 DEF idVars, IdTypeOK, Overtaken, OnlyOutrunReplaced
<1> QED
  BY <1>1, <1>2, <1>3, <1>4, <1>5, <1>6, <1>7, <1>8 DEF IdNext

\* The invariant holds in the first state.
LEMMA InitHolds == IdInit => IdInv
BY IdAssumption DEF IdInit, IdInv, IdTypeOK, Overtaken, OnlyOutrunReplaced, IdTables

\* Every variable keeps its type.
THEOREM IdTypeCorrect == IdSpec => []IdTypeOK
<1>1. IdInv => IdTypeOK
  BY DEF IdInv
<1> QED
  BY InitHolds, StepKeeps, <1>1, PTL DEF IdSpec

\* For any ids: an issue whose id was generated takes the row of no other, unless
\* its number had outrun the counter.
THEOREM GeneratedIdsAreFree == IdSpec => []OnlyOutrunReplaced
<1>1. IdInv => OnlyOutrunReplaced
  BY DEF IdInv
<1> QED
  BY InitHolds, StepKeeps, <1>1, PTL DEF IdSpec

------------------------------------------------------------------------------
(* HookFiring *)

Changes == [issue : HookedIssues, number : Nat]

CallPlaces == {"idle", "read again", "inside", "again", "fire"}

HookTypes ==
    /\ stored \in [HookedIssues -> Nat]
    /\ past \in Seq(Changes) /\ started \in Seq(Changes)
    /\ changes \in Nat
    /\ caller \in [pc : CallPlaces, inside : [HookedIssues -> Nat], done : Seq(Changes),
                   pending : Seq(Changes), todo : Seq(Changes)]

Rising(s) == \A j, k \in 1..Len(s) : j < k => s[j].number < s[k].number
Below(s, n) == \A j \in 1..Len(s) : 0 < s[j].number /\ s[j].number < n
Before(s, t) == \A k \in 1..Len(t) : Below(s, t[k].number)
Within(s, t) == \A j \in 1..Len(s) : \E k \in 1..Len(t) : s[j] = t[k]

\* The change that a store holds of an issue is one of s.
Holds(store, i, s) ==
    store[i] # 0 => \E k \in 1..Len(s) : s[k] = [issue |-> i, number |-> store[i]]

\* Numbers rise with the commits, and with the hooks, which are of commits.
ToldInv ==
    /\ Rising(past) /\ Below(past, changes + 1)
    /\ Rising(started) /\ Within(started, past)
    /\ \A i \in HookedIssues : Holds(stored, i, past)

\* What the call under way has still to tell comes after what was told.
CallInv ==
    /\ caller.pc = "read again" =>
           /\ Len(caller.done) = 1
           /\ stored[caller.done[1].issue] # 0 /\ Below(started, stored[caller.done[1].issue])
    /\ caller.pc = "inside" =>
           /\ Rising(caller.done) /\ Below(caller.done, changes + 1) /\ Before(past, caller.done)
           /\ \A i \in HookedIssues :
                  Holds(caller.inside, i, past) \/ Holds(caller.inside, i, caller.done)
           /\ Rising(caller.pending) /\ Within(caller.pending, caller.done)
    /\ caller.pc = "fire" =>
           Rising(caller.todo) /\ Within(caller.todo, past) /\ Before(started, caller.todo)

HookInv == HookTypes /\ ToldInv /\ CallInv

LEMMA Elements ==
    ASSUME NEW s \in Seq(Changes), NEW j \in 1..Len(s)
    PROVE  s[j] \in Changes /\ s[j].number \in Nat /\ s[j].issue \in HookedIssues
<1>1. s[j] \in Changes
  BY ElementOfSeq
<1> QED
  BY <1>1 DEF Changes

LEMMA Appended ==
    ASSUME NEW s \in Seq(Changes), NEW e \in Changes
    PROVE  /\ Append(s, e) \in Seq(Changes)
           /\ Rising(s) /\ (\A j \in 1..Len(s) : s[j].number < e.number) => Rising(Append(s, e))
           /\ \A n \in Nat : Below(s, n) /\ 0 < e.number /\ e.number < n => Below(Append(s, e), n)
           /\ Within(s, Append(s, e))
           /\ \E k \in 1..Len(Append(s, e)) : Append(s, e)[k] = e
           /\ \A t \in Seq(Changes) :
                  Within(s, t) /\ (\E k \in 1..Len(t) : t[k] = e) => Within(Append(s, e), t)
           /\ \A t \in Seq(Changes) : Before(t, s) /\ Below(t, e.number) => Before(t, Append(s, e))
<1>1. /\ Append(s, e) \in Seq(Changes) /\ Len(Append(s, e)) = Len(s) + 1 /\ Len(s) \in Nat
      /\ \A j \in 1..Len(s) : Append(s, e)[j] = s[j]
      /\ Append(s, e)[Len(s) + 1] = e
  BY AppendProperties
<1>2. \A j \in 1..Len(Append(s, e)) : j \in 1..Len(s) \/ j = Len(s) + 1
  BY <1>1
<1>3. \A j \in 1..Len(s) : j \in 1..Len(Append(s, e))
  BY <1>1
<1>4. Len(s) + 1 \in 1..Len(Append(s, e))
  BY <1>1
<1> DEFINE a == Append(s, e)
<1> HIDE DEF a
<1>5. ASSUME Rising(s), \A j \in 1..Len(s) : s[j].number < e.number
      PROVE  Rising(Append(s, e))
  <2> SUFFICES ASSUME NEW j \in 1..Len(Append(s, e)), NEW k \in 1..Len(Append(s, e)), j < k
               PROVE  Append(s, e)[j].number < Append(s, e)[k].number
    BY DEF Rising
  <2>1. j \in 1..Len(s)
    BY <1>1
  <2>2. CASE k \in 1..Len(s)
    BY <1>1, <1>5, <2>1, <2>2 DEF Rising
  <2>3. CASE k = Len(s) + 1
    BY <1>1, <1>5, <2>1, <2>3
  <2> QED
    BY <1>2, <2>2, <2>3
<1>6. \A n \in Nat : Below(s, n) /\ 0 < e.number /\ e.number < n => Below(Append(s, e), n)
  BY <1>1, <1>2 DEF Below
<1>7. Within(s, Append(s, e))
  BY <1>1, <1>3 DEF Within
<1>8. \A t \in Seq(Changes) :
          Within(s, t) /\ (\E k \in 1..Len(t) : t[k] = e) => Within(Append(s, e), t)
  BY <1>1, <1>2 DEF Within
<1>9. \A t \in Seq(Changes) : Before(t, s) /\ Below(t, e.number) => Before(t, Append(s, e))
  BY <1>1, <1>2 DEF Before
<1> QED
  BY <1>1, <1>4, <1>5, <1>6, <1>7, <1>8, <1>9

LEMMA Concatenated ==
    ASSUME NEW s \in Seq(Changes), NEW t \in Seq(Changes)
    PROVE  /\ s \o t \in Seq(Changes)
           /\ Rising(s) /\ Rising(t) /\ Before(s, t) => Rising(s \o t)
           /\ \A n \in Nat : Below(s, n) /\ Below(t, n) => Below(s \o t, n)
           /\ Within(s, s \o t) /\ Within(t, s \o t)
<1>1. /\ s \o t \in Seq(Changes) /\ Len(s \o t) = Len(s) + Len(t) /\ Len(s) \in Nat /\ Len(t) \in Nat
      /\ \A j \in 1..Len(s) + Len(t) : (s \o t)[j] = IF j <= Len(s) THEN s[j] ELSE t[j - Len(s)]
  BY ConcatProperties
<1>2. /\ \A j \in 1..Len(s) : j \in 1..Len(s \o t) /\ (s \o t)[j] = s[j]
      /\ \A j \in 1..Len(t) : Len(s) + j \in 1..Len(s \o t) /\ (s \o t)[Len(s) + j] = t[j]
      /\ \A j \in 1..Len(s \o t) : j \in 1..Len(s) \/ (j > Len(s) /\ j - Len(s) \in 1..Len(t))
      /\ \A j \in 1..Len(s \o t) : j > Len(s) => (s \o t)[j] = t[j - Len(s)]
  BY <1>1
<1>3. ASSUME Rising(s), Rising(t), Before(s, t)
      PROVE  Rising(s \o t)
  <2> SUFFICES ASSUME NEW j \in 1..Len(s \o t), NEW k \in 1..Len(s \o t), j < k
               PROVE  (s \o t)[j].number < (s \o t)[k].number
    BY DEF Rising
  <2>1. CASE k \in 1..Len(s)
    <3>1. j \in 1..Len(s)
      BY <2>1
    <3> QED
      BY <1>2, <1>3, <2>1, <3>1 DEF Rising
  <2>2. CASE k > Len(s) /\ j \in 1..Len(s)
    <3>1. k - Len(s) \in 1..Len(t) /\ (s \o t)[k] = t[k - Len(s)] /\ (s \o t)[j] = s[j]
      BY <1>1, <1>2, <2>2
    <3>2. Below(s, t[k - Len(s)].number)
      BY <1>3, <3>1 DEF Before
    <3>3. s[j].number < t[k - Len(s)].number
      BY <2>2, <3>2 DEF Below
    <3> QED
      BY <3>1, <3>3
  <2>3. CASE k > Len(s) /\ j > Len(s)
    <3>1. j - Len(s) \in 1..Len(t) /\ k - Len(s) \in 1..Len(t) /\ j - Len(s) < k - Len(s)
      BY <1>1, <1>2, <2>3
    <3>2. t[j - Len(s)].number < t[k - Len(s)].number
      BY <1>3, <3>1 DEF Rising
    <3> QED
      BY <1>2, <2>3, <3>2
  <2> QED
    BY <1>2, <2>1, <2>2, <2>3
<1>4. \A n \in Nat : Below(s, n) /\ Below(t, n) => Below(s \o t, n)
  BY <1>2 DEF Below
<1>5. Within(s, s \o t) /\ Within(t, s \o t)
  BY <1>2 DEF Within
<1> QED
  BY <1>1, <1>3, <1>4, <1>5

\* Of rows within rows.
LEMMA Nested ==
    ASSUME NEW s \in Seq(Changes), NEW t \in Seq(Changes), Within(s, t)
    PROVE  /\ \A u \in Seq(Changes) : Within(t, u) => Within(s, u)
           /\ \A n \in Nat : Below(t, n) => Below(s, n)
           /\ \A u \in Seq(Changes) : Before(u, t) => Before(u, s)
           /\ \A u \in Seq(Changes) : Before(t, u) => Before(s, u)
           /\ \A store \in [HookedIssues -> Nat], i \in HookedIssues : Holds(store, i, s) => Holds(store, i, t)
<1>1. \A j \in 1..Len(s) : \E k \in 1..Len(t) : s[j] = t[k]
  BY DEF Within
<1>2. \A n \in Nat : Below(t, n) => Below(s, n)
  BY <1>1 DEF Below
<1>3. \A u \in Seq(Changes) : \A j \in 1..Len(u) : u[j].number \in Nat
  BY Elements
<1> QED
  BY <1>1, <1>2, <1>3 DEF Within, Before, Holds, Below

\* What a call has still to do is nothing.
LEMMA NoCallTyped ==
    /\ NoCall \in [pc : CallPlaces, inside : [HookedIssues -> Nat], done : Seq(Changes),
                   pending : Seq(Changes), todo : Seq(Changes)]
    /\ NoCall.pc = "idle"
<1>1. <<>> \in Seq(Changes)
  BY EmptySeq
<1>2. [i \in HookedIssues |-> 0] \in [HookedIssues -> Nat]
  OBVIOUS
<1> QED
  BY <1>1, <1>2 DEF NoCall, CallPlaces

LEMMA HookInitInv == HookInit => HookInv
<1> SUFFICES ASSUME HookInit
             PROVE  HookInv
  OBVIOUS
<1>1. <<>> \in Seq(Changes) /\ Len(<<>>) = 0
  BY EmptySeq
<1>2. HookTypes
  BY <1>1, NoCallTyped DEF HookInit, HookTypes
<1>3. ToldInv
  BY <1>1 DEF HookInit, ToldInv, Rising, Below, Within, Holds
<1> QED
  BY <1>2, <1>3, NoCallTyped DEF HookInv, CallInv, HookInit

\* A change with the next number, of an issue.
LEMMA NextChange ==
    ASSUME HookInv, NEW i \in HookedIssues
    PROVE  /\ Change(i) \in Changes /\ Change(i).number = changes + 1 /\ Change(i).issue = i
           /\ changes \in Nat /\ changes + 1 \in Nat /\ changes + 1 < changes + 1 + 1
           /\ Below(past, changes + 1) /\ Below(past, changes + 1 + 1)
           /\ Below(started, changes + 1)
<1>1. /\ Change(i) \in Changes /\ Change(i).number = changes + 1 /\ Change(i).issue = i
      /\ changes \in Nat /\ changes + 1 \in Nat /\ changes + 1 < changes + 1 + 1
  BY DEF HookInv, HookTypes, Change, Changes
<1>2. \A j \in 1..Len(past) : past[j].number \in Nat
  BY Elements DEF HookInv, HookTypes
<1>3. Below(past, changes + 1) /\ Below(past, changes + 1 + 1)
  BY <1>1, <1>2 DEF HookInv, ToldInv, Below
<1>4. Below(started, changes + 1)
  BY <1>1, <1>3, Nested DEF HookInv, HookTypes, ToldInv
<1> QED
  BY <1>1, <1>3, <1>4

LEMMA WriteOnceKeeps ==
    ASSUME HookInv, NEW i \in HookedIssues, NEW here \in BOOLEAN, WriteOnce(i, here),
           caller.pc # "inside"
    PROVE  HookInv'
<1> DEFINE e == Change(i)
<1>1. /\ e \in Changes /\ e.number = changes + 1 /\ e.issue = i /\ changes \in Nat /\ changes + 1 \in Nat
      /\ changes + 1 < changes + 1 + 1 /\ Below(past, changes + 1) /\ Below(past, changes + 1 + 1)
      /\ Below(started, changes + 1)
  BY NextChange
<1>2. /\ changes' = changes + 1 /\ UNCHANGED started
      /\ stored' = [stored EXCEPT ![i] = changes + 1] /\ past' = Append(past, e)
      /\ caller' = IF here THEN [caller EXCEPT !.pc = "read again", !.done = <<e>>] ELSE caller
  BY DEF WriteOnce, MayChange
<1> HIDE DEF e
<1>3. HookTypes /\ ToldInv /\ CallInv
  BY DEF HookInv
<1>4. past \in Seq(Changes) /\ past' \in Seq(Changes) /\ started \in Seq(Changes)
  BY <1>1, <1>2, <1>3, Appended DEF HookTypes
<1>5. <<e>> \in Seq(Changes) /\ Len(<<e>>) = 1 /\ <<e>>[1] = e
  BY <1>1
<1>6. /\ here => /\ caller'.pc = "read again" /\ caller'.done = <<e>>
                 /\ caller' \in [pc : CallPlaces, inside : [HookedIssues -> Nat], done : Seq(Changes),
                                 pending : Seq(Changes), todo : Seq(Changes)]
      /\ ~here => caller' = caller
  BY <1>2, <1>3, <1>5 DEF HookTypes, CallPlaces
<1>7. /\ stored' \in [HookedIssues -> Nat] /\ stored'[i] = changes + 1
      /\ \A y \in HookedIssues \ {i} : stored'[y] = stored[y]
  BY <1>1, <1>2, <1>3 DEF HookTypes
<1>8. HookTypes'
  BY <1>1, <1>2, <1>3, <1>4, <1>6, <1>7 DEF HookTypes
<1>9. Within(past, past') /\ \E k \in 1..Len(past') : past'[k] = e
  BY <1>1, <1>2, <1>4, Appended
<1>10. Rising(past') /\ Below(past', changes' + 1)
  <2>1. \A j \in 1..Len(past) : past[j].number < e.number
    BY <1>1 DEF Below
  <2>2. Rising(past) /\ 0 < e.number
    BY <1>1, <1>3 DEF ToldInv
  <2>3. Rising(Append(past, e))
    BY <1>1, <1>4, <2>1, <2>2, Appended
  <2>4. Below(Append(past, e), changes + 1 + 1)
    <3>1. changes + 1 + 1 \in Nat /\ 0 < e.number /\ e.number < changes + 1 + 1
      BY <1>1
    <3>2. Below(past, changes + 1 + 1)
      BY <1>1
    <3> DEFINE n == changes + 1 + 1
    <3> HIDE DEF n
    <3>3. n \in Nat /\ 0 < e.number /\ e.number < n /\ Below(past, n)
      BY <3>1, <3>2 DEF n
    <3>4. Below(Append(past, e), n)
      BY <1>1, <1>4, <3>3, Appended
    <3> QED
      BY <3>4 DEF n
  <2> QED
    BY <1>2, <2>3, <2>4
<1>11. Rising(started) /\ Within(started, past')
  BY <1>3, <1>4, <1>9, Nested DEF ToldInv
<1>12. ASSUME NEW y \in HookedIssues
       PROVE  Holds(stored', y, past')
  <2>1. CASE y = i
    BY <1>1, <1>7, <1>9, <2>1 DEF Holds, Changes
  <2>2. CASE y # i
    <3>1. stored'[y] = stored[y]
      BY <1>7, <2>2
    <3>2. Holds(stored, y, past)
      BY <1>3 DEF ToldInv
    <3>3. Within(past, past')
      BY <1>9
    <3>4. ASSUME stored[y] # 0
          PROVE  \E k \in 1..Len(past') : past'[k] = [issue |-> y, number |-> stored[y]]
      <4>1. PICK j \in 1..Len(past) : past[j] = [issue |-> y, number |-> stored[y]]
        BY <3>2, <3>4 DEF Holds
      <4> QED
        BY <3>3, <4>1 DEF Within
    <3> QED
      BY <3>1, <3>4 DEF Holds
  <2> QED
    BY <2>1, <2>2
<1>13. ToldInv'
  BY <1>2, <1>10, <1>11, <1>12 DEF ToldInv, Rising, Within, Below, Holds
<1>14. CallInv'
  <2>1. ASSUME caller'.pc = "read again"
        PROVE  /\ Len(caller'.done) = 1 /\ stored'[caller'.done[1].issue] # 0
               /\ Below(started, stored'[caller'.done[1].issue])
    <3>1. CASE here
      <4>1. caller'.done[1].issue = i /\ Len(caller'.done) = 1
        BY <1>1, <1>5, <1>6, <3>1
      <4>2. stored'[caller'.done[1].issue] = changes + 1
        BY <1>7, <4>1
      <4> QED
        BY <1>1, <4>1, <4>2
    <3>2. CASE ~here
      <4>1. /\ Len(caller.done) = 1 /\ caller' = caller
            /\ stored[caller.done[1].issue] # 0 /\ Below(started, stored[caller.done[1].issue])
        BY <1>3, <1>6, <2>1, <3>2 DEF CallInv
      <4>2. caller.done[1].issue \in HookedIssues
        <5>1. caller.done \in Seq(Changes) /\ 1 \in 1..Len(caller.done)
          BY <1>3, <4>1 DEF HookTypes
        <5> QED
          BY <5>1, Elements
      <4>3. CASE caller.done[1].issue = i
        BY <1>1, <1>7, <4>1, <4>3
      <4>4. CASE caller.done[1].issue # i
        BY <1>7, <4>1, <4>2, <4>4
      <4> QED
        BY <4>3, <4>4
    <3> QED
      BY <3>1, <3>2
  <2>2. ASSUME caller'.pc = "fire"
        PROVE  Rising(caller'.todo) /\ Within(caller'.todo, past') /\ Before(started, caller'.todo)
    <3>1. caller' = caller
      BY <1>6, <2>2
    <3>2. Rising(caller.todo) /\ Within(caller.todo, past) /\ Before(started, caller.todo)
          /\ caller.todo \in Seq(Changes)
      BY <1>3, <2>2, <3>1 DEF CallInv, HookTypes
    <3> QED
      BY <1>4, <1>9, <3>1, <3>2, Nested
  <2>3. caller'.pc # "inside"
    BY <1>6
  <2> QED
    BY <1>2, <2>1, <2>2, <2>3 DEF CallInv, Rising, Within, Before, Below
<1> QED
  BY <1>8, <1>13, <1>14 DEF HookInv

LEMMA ReadAgainKeeps ==
    ASSUME HookInv, ReadAgain
    PROVE  HookInv'
<1> DEFINE i == caller.done[1].issue
           e == [issue |-> i, number |-> stored[i]]
<1>1. HookTypes /\ ToldInv /\ CallInv /\ UNCHANGED <<stored, past, changes>> /\ caller' = NoCall
  BY DEF HookInv, ReadAgain
<1>2. /\ Len(caller.done) = 1 /\ stored[i] # 0 /\ Below(started, stored[i])
  BY <1>1 DEF CallInv, ReadAgain
<1>3. i \in HookedIssues
  <2>1. caller.done \in Seq(Changes) /\ 1 \in 1..Len(caller.done)
    BY <1>1, <1>2 DEF HookTypes
  <2> QED
    BY <2>1, Elements
<1>4. e \in Changes /\ stored[i] \in Nat /\ e.number = stored[i]
  BY <1>1, <1>3 DEF HookTypes, Changes
<1>5. \E k \in 1..Len(past) : past[k] = e
  BY <1>1, <1>2, <1>3 DEF ToldInv, Holds
<1>6. started \in Seq(Changes) /\ past \in Seq(Changes) /\ Rising(started) /\ Within(started, past)
  BY <1>1 DEF HookTypes, ToldInv
<1>7. started' = started \/ started' = Append(started, e)
  BY DEF ReadAgain
<1> HIDE DEF e
<1>8. /\ Append(started, e) \in Seq(Changes) /\ Rising(Append(started, e))
      /\ Within(Append(started, e), past)
  <2>1. \A j \in 1..Len(started) : started[j].number < e.number
    BY <1>2, <1>4 DEF Below
  <2> QED
    BY <1>4, <1>5, <1>6, <2>1, Appended
<1>9. started' \in Seq(Changes) /\ Rising(started') /\ Within(started', past)
  BY <1>6, <1>7, <1>8
<1>10. HookTypes'
  BY <1>1, <1>9, NoCallTyped DEF HookTypes
<1>11. ToldInv'
  BY <1>1, <1>9 DEF ToldInv, Rising, Within, Below, Holds
<1> QED
  BY <1>1, <1>10, <1>11, NoCallTyped DEF HookInv, CallInv

LEMMA BeginAttemptKeeps ==
    ASSUME HookInv, BeginAttempt
    PROVE  HookInv'
<1>1. HookTypes /\ ToldInv /\ UNCHANGED <<stored, past, started, changes>>
  BY DEF HookInv, BeginAttempt
<1>2. <<>> \in Seq(Changes) /\ Len(<<>>) = 0
  BY EmptySeq
<1>3. caller' = [caller EXCEPT !.pc = "inside", !.inside = stored, !.done = <<>>, !.pending = <<>>]
  BY DEF BeginAttempt, Fresh
<1>4. /\ caller' \in [pc : CallPlaces, inside : [HookedIssues -> Nat], done : Seq(Changes),
                      pending : Seq(Changes), todo : Seq(Changes)]
      /\ caller'.pc = "inside" /\ caller'.inside = stored
      /\ caller'.done = <<>> /\ caller'.pending = <<>>
  BY <1>1, <1>2, <1>3 DEF HookTypes, CallPlaces
<1>5. HookTypes'
  BY <1>1, <1>4 DEF HookTypes
<1>6. ToldInv'
  BY <1>1 DEF ToldInv, Rising, Within, Below, Holds
<1>7. \A i \in HookedIssues : Holds(stored, i, past)
  BY <1>1 DEF ToldInv
<1>8. CallInv'
  BY <1>1, <1>2, <1>4, <1>7 DEF CallInv, Rising, Within, Below, Before, Holds
<1> QED
  BY <1>5, <1>6, <1>8 DEF HookInv

LEMMA WriteInsideKeeps ==
    ASSUME HookInv, NEW i \in HookedIssues, WriteInside(i)
    PROVE  HookInv'
<1> DEFINE e == Change(i)
           done == caller.done
           pending == caller.pending
<1>1. /\ e \in Changes /\ e.number = changes + 1 /\ e.issue = i /\ changes \in Nat /\ changes + 1 \in Nat
      /\ changes + 1 < changes + 1 + 1 /\ Below(past, changes + 1) /\ Below(past, changes + 1 + 1)
      /\ Below(started, changes + 1)
  BY NextChange
<1>2. /\ caller.pc = "inside" /\ changes' = changes + 1 /\ UNCHANGED <<stored, past, started>>
      /\ HookTypes /\ ToldInv /\ CallInv
  BY DEF WriteInside, MayChange, HookInv
<1>3. PICK noted \in {<<>>, <<e>>} :
          caller' = [caller EXCEPT !.inside[i] = changes + 1, !.done = Append(@, e),
                                   !.pending = @ \o noted]
  BY DEF WriteInside
<1> HIDE DEF e
<1>4. /\ past \in Seq(Changes) /\ done \in Seq(Changes) /\ pending \in Seq(Changes)
      /\ <<>> \in Seq(Changes) /\ <<e>> \in Seq(Changes)
      /\ Append(done, e) \in Seq(Changes) /\ Append(pending, e) \in Seq(Changes)
      /\ pending \o <<>> = pending /\ pending \o <<e>> = Append(pending, e)
  <2>1. past \in Seq(Changes) /\ done \in Seq(Changes) /\ pending \in Seq(Changes)
    BY <1>2 DEF HookTypes
  <2> HIDE DEF done, pending
  <2>2. Append(done, e) \in Seq(Changes) /\ Append(pending, e) \in Seq(Changes)
    BY <1>1, <2>1, Appended
  <2> QED
    BY <1>1, <2>1, <2>2, EmptySeq, ConcatEmptySeq, AppendIsConcat
<1>5. /\ caller' \in [pc : CallPlaces, inside : [HookedIssues -> Nat], done : Seq(Changes),
                      pending : Seq(Changes), todo : Seq(Changes)]
      /\ caller'.pc = "inside" /\ caller'.done = Append(done, e)
      /\ caller'.pending = pending \/ caller'.pending = Append(pending, e)
      /\ caller'.inside[i] = changes + 1
      /\ \A y \in HookedIssues \ {i} : caller'.inside[y] = caller.inside[y]
  <2>1. pending \o noted \in Seq(Changes)
        /\ (pending \o noted = pending \/ pending \o noted = Append(pending, e))
    BY <1>4
  <2>2. /\ caller'.pc = caller.pc /\ caller'.todo = caller.todo
        /\ caller'.inside = [caller.inside EXCEPT ![i] = changes + 1]
        /\ caller'.done = Append(done, e) /\ caller'.pending = pending \o noted
        /\ caller' = [pc |-> caller'.pc, inside |-> caller'.inside, done |-> caller'.done,
                      pending |-> caller'.pending, todo |-> caller'.todo]
    BY <1>2, <1>3 DEF HookTypes
  <2>3. caller'.inside \in [HookedIssues -> Nat]
    BY <1>1, <1>2, <2>2 DEF HookTypes
  <2> QED
    BY <1>1, <1>2, <1>4, <2>1, <2>2, <2>3 DEF HookTypes
<1>6. HookTypes'
  BY <1>1, <1>2, <1>5 DEF HookTypes
<1>7. ToldInv'
  BY <1>1, <1>2 DEF ToldInv, Rising, Within, Below, Holds
<1>8. /\ Rising(done) /\ Below(done, changes + 1) /\ Before(past, done)
      /\ Rising(pending) /\ Within(pending, done)
      /\ \A y \in HookedIssues : Holds(caller.inside, y, past) \/ Holds(caller.inside, y, done)
  BY <1>2 DEF CallInv
<1>9. /\ Rising(Append(done, e)) /\ Before(past, Append(done, e)) /\ Within(done, Append(done, e))
      /\ \E k \in 1..Len(Append(done, e)) : Append(done, e)[k] = e
  <2>1. \A j \in 1..Len(done) : done[j].number < e.number
    BY <1>1, <1>8 DEF Below
  <2>2. Below(past, e.number)
    BY <1>1
  <2> HIDE DEF done
  <2> QED
    BY <1>1, <1>4, <1>8, <2>1, <2>2, Appended
<1>10. Below(Append(done, e), changes + 1 + 1)
  <2>1. \A j \in 1..Len(done) : done[j].number \in Nat
    BY <1>4, Elements
  <2> DEFINE n == changes + 1 + 1
  <2>2. n \in Nat /\ 0 < e.number /\ e.number < n /\ Below(done, n)
    BY <1>1, <1>8, <2>1 DEF Below
  <2> HIDE DEF n, done
  <2>3. Below(Append(done, e), n)
    BY <1>1, <1>4, <2>2, Appended
  <2> QED
    BY <2>3 DEF n
<1>11. Rising(Append(pending, e)) /\ Within(Append(pending, e), Append(done, e))
       /\ Within(pending, Append(done, e))
  <2>1. Below(pending, changes + 1)
    BY <1>1, <1>4, <1>8, Nested
  <2>2. \A j \in 1..Len(pending) : pending[j].number < e.number
    BY <1>1, <2>1 DEF Below
  <2> HIDE DEF done, pending
  <2>3. Within(pending, Append(done, e))
    BY <1>4, <1>8, <1>9, Nested
  <2>4. Rising(Append(pending, e))
    BY <1>1, <1>4, <1>8, <2>2, Appended
  <2>5. Within(Append(pending, e), Append(done, e))
    BY <1>1, <1>4, <1>9, <2>3, Appended
  <2> QED
    BY <2>3, <2>4, <2>5
<1>12. ASSUME NEW y \in HookedIssues
       PROVE  Holds(caller'.inside, y, past) \/ Holds(caller'.inside, y, Append(done, e))
  <2>1. CASE y = i
    BY <1>1, <1>5, <1>9, <2>1 DEF Holds, Changes
  <2>2. CASE y # i
    <3>1. caller'.inside[y] = caller.inside[y]
      BY <1>5, <2>2
    <3>2. Holds(caller.inside, y, done) => Holds(caller.inside, y, Append(done, e))
      BY <1>9 DEF Holds, Within
    <3> QED
      BY <1>8, <3>1, <3>2 DEF Holds
  <2> QED
    BY <2>1, <2>2
<1> HIDE DEF done, pending
<1>13. /\ Rising(caller'.done) /\ Below(caller'.done, changes' + 1) /\ Before(past', caller'.done)
       /\ Rising(caller'.pending) /\ Within(caller'.pending, caller'.done)
       /\ \A y \in HookedIssues : Holds(caller'.inside, y, past') \/ Holds(caller'.inside, y, caller'.done)
  BY <1>2, <1>5, <1>8, <1>9, <1>10, <1>11, <1>12
<1>14. CallInv'
  BY <1>5, <1>13 DEF CallInv, Rising, Within, Below, Before, Holds
<1> QED
  BY <1>6, <1>7, <1>14 DEF HookInv

LEMMA RollBackKeeps ==
    ASSUME HookInv, RollBack
    PROVE  HookInv'
<1>1. HookTypes /\ ToldInv /\ UNCHANGED <<stored, past, started, changes>>
  BY DEF HookInv, RollBack
<1>2. <<>> \in Seq(Changes)
  BY EmptySeq
<1>3. /\ caller' \in [pc : CallPlaces, inside : [HookedIssues -> Nat], done : Seq(Changes),
                      pending : Seq(Changes), todo : Seq(Changes)]
      /\ caller'.pc \in {"idle", "again"}
  BY <1>1, <1>2, NoCallTyped DEF RollBack, HookTypes, CallPlaces
<1>4. HookTypes'
  BY <1>1, <1>3 DEF HookTypes
<1>5. ToldInv'
  BY <1>1 DEF ToldInv, Rising, Within, Below, Holds
<1> QED
  BY <1>3, <1>4, <1>5 DEF HookInv, CallInv

LEMMA CommitInsideKeeps ==
    ASSUME HookInv, CommitInside
    PROVE  HookInv'
<1> DEFINE done == caller.done
           pending == caller.pending
           p == past \o done
<1>1. /\ HookTypes /\ ToldInv /\ CallInv /\ UNCHANGED <<started, changes>>
      /\ caller.pc = "inside" /\ stored' = caller.inside /\ past' = p
      /\ caller' = NoCall \/ caller' = [NoCall EXCEPT !.pc = "fire", !.todo = pending]
  BY DEF HookInv, CommitInside
<1>2. /\ past \in Seq(Changes) /\ done \in Seq(Changes) /\ pending \in Seq(Changes)
      /\ started \in Seq(Changes) /\ caller.inside \in [HookedIssues -> Nat] /\ changes + 1 \in Nat
  BY <1>1 DEF HookTypes
<1>3. /\ Rising(done) /\ Below(done, changes + 1) /\ Before(past, done)
      /\ Rising(pending) /\ Within(pending, done)
      /\ \A y \in HookedIssues : Holds(caller.inside, y, past) \/ Holds(caller.inside, y, done)
      /\ Rising(past) /\ Below(past, changes + 1) /\ Rising(started) /\ Within(started, past)
  BY <1>1 DEF CallInv, ToldInv
<1> HIDE DEF done, pending
<1>4. /\ p \in Seq(Changes) /\ Rising(p) /\ Below(p, changes + 1)
      /\ Within(past, p) /\ Within(done, p)
  BY <1>2, <1>3, Concatenated
<1> HIDE DEF p
<1>5. Within(started, p) /\ Within(pending, p)
  BY <1>2, <1>3, <1>4, Nested
<1>6. Before(started, pending)
  <2>1. Before(past, pending)
    BY <1>2, <1>3, Nested
  <2> QED
    BY <1>2, <1>3, <2>1, Nested
<1>7. \A y \in HookedIssues : Holds(caller.inside, y, p)
  BY <1>2, <1>3, <1>4, Nested
<1>8. /\ caller' \in [pc : CallPlaces, inside : [HookedIssues -> Nat], done : Seq(Changes),
                      pending : Seq(Changes), todo : Seq(Changes)]
      /\ caller'.pc = "idle" \/ (caller'.pc = "fire" /\ caller'.todo = pending)
  BY <1>1, <1>2, NoCallTyped DEF CallPlaces
<1>9. HookTypes'
  BY <1>1, <1>2, <1>4, <1>8 DEF HookTypes
<1>10. ToldInv'
  BY <1>1, <1>3, <1>4, <1>5, <1>7 DEF ToldInv, Rising, Within, Below, Holds
<1>11. caller'.pc = "fire" =>
           Rising(caller'.todo) /\ Within(caller'.todo, past') /\ Before(started', caller'.todo)
  BY <1>1, <1>3, <1>5, <1>6, <1>8
<1>12. CallInv'
  BY <1>8, <1>11 DEF CallInv, Rising, Within, Before, Below
<1> QED
  BY <1>9, <1>10, <1>12 DEF HookInv

LEMMA FireNextKeeps ==
    ASSUME HookInv, FireNext
    PROVE  HookInv'
<1> DEFINE todo == caller.todo
<1>1. /\ HookTypes /\ ToldInv /\ CallInv /\ UNCHANGED <<stored, past, changes>> /\ caller.pc = "fire"
  BY DEF HookInv, FireNext
<1>2. /\ past \in Seq(Changes) /\ started \in Seq(Changes) /\ todo \in Seq(Changes)
      /\ Rising(todo) /\ Within(todo, past) /\ Before(started, todo)
      /\ Rising(started) /\ Within(started, past)
  BY <1>1 DEF HookTypes, CallInv, ToldInv
<1>3. CASE todo = <<>>
  <2>1. caller' = NoCall /\ UNCHANGED started
    BY <1>3 DEF FireNext
  <2>2. HookTypes'
    BY <1>1, <2>1, NoCallTyped DEF HookTypes
  <2>3. ToldInv'
    BY <1>1, <2>1 DEF ToldInv, Rising, Within, Below, Holds
  <2> QED
    BY <2>1, <2>2, <2>3, NoCallTyped DEF HookInv, CallInv
<1>4. CASE todo # <<>>
  <2>1. started' = Append(started, Head(todo)) /\ caller' = [caller EXCEPT !.todo = Tail(@)]
    BY <1>4 DEF FireNext
  <2> DEFINE e == Head(todo)
             rest == Tail(todo)
  <2>2. /\ e \in Changes /\ e = todo[1] /\ rest \in Seq(Changes) /\ Len(rest) = Len(todo) - 1
        /\ Len(todo) \in Nat \ {0}
        /\ \A j \in 1..Len(rest) : rest[j] = todo[j + 1] /\ j + 1 \in 1..Len(todo) /\ 1 < j + 1
    <3> HIDE DEF todo
    <3> QED
      BY <1>2, <1>4, HeadTailProperties, EmptySeq
  <2>3. 1 \in 1..Len(todo)
    BY <2>2
  <2>4. caller'.todo = rest /\ caller'.pc = "fire"
        /\ caller' \in [pc : CallPlaces, inside : [HookedIssues -> Nat], done : Seq(Changes),
                        pending : Seq(Changes), todo : Seq(Changes)]
    BY <1>1, <2>1, <2>2 DEF HookTypes
  <2> HIDE DEF todo, e, rest
  <2>5. Below(started, e.number) /\ \E k \in 1..Len(past) : past[k] = e
    BY <1>2, <2>2, <2>3 DEF Before, Within
  <2>6. Append(started, e) \in Seq(Changes) /\ Rising(Append(started, e)) /\ Within(Append(started, e), past)
    <3>1. \A j \in 1..Len(started) : started[j].number < e.number
      BY <2>5 DEF Below
    <3> QED
      BY <1>2, <2>2, <2>5, <3>1, Appended
  <2>7. Rising(rest)
    <3>1. ASSUME NEW j \in 1..Len(rest), NEW k \in 1..Len(rest), j < k
          PROVE  rest[j].number < rest[k].number
      <4>1. j + 1 < k + 1 /\ j + 1 \in 1..Len(todo) /\ k + 1 \in 1..Len(todo)
        BY <2>2, <3>1
      <4> QED
        BY <1>2, <2>2, <4>1 DEF Rising
    <3> QED
      BY <3>1 DEF Rising
  <2>8. Within(rest, todo)
    BY <2>2 DEF Within
  <2>9. Within(rest, past) /\ Before(started, rest)
    BY <1>2, <2>2, <2>8, Nested
  <2>10. ASSUME NEW k \in 1..Len(rest)
         PROVE  Below(Append(started, e), rest[k].number)
    <3>1. rest[k].number \in Nat /\ Below(started, rest[k].number)
      BY <2>2, <2>9, Elements DEF Before
    <3>2. e.number < rest[k].number
      BY <1>2, <2>2, <2>3 DEF Rising
    <3>3. 0 < e.number
      <4>1. \A j \in 1..Len(past) : 0 < past[j].number
        BY <1>1 DEF ToldInv, Below
      <4> QED
        BY <2>5, <4>1
    <3> QED
      BY <1>2, <2>2, <3>1, <3>2, <3>3, Appended
  <2>11. Before(Append(started, e), rest)
    BY <2>10 DEF Before
  <2>12. started' = Append(started, e)
    BY <2>1 DEF e, todo
  <2>13. HookTypes'
    BY <1>1, <2>4, <2>6, <2>12 DEF HookTypes
  <2>14. ToldInv'
    BY <1>1, <2>6, <2>12 DEF ToldInv, Rising, Within, Below, Holds
  <2>15. CallInv'
    <3>1. Rising(caller'.todo) /\ Within(caller'.todo, past') /\ Before(started', caller'.todo)
      BY <1>1, <2>4, <2>7, <2>9, <2>11, <2>12
    <3> QED
      BY <2>4, <3>1 DEF CallInv, Rising, Within, Before, Below
  <2> QED
    BY <2>13, <2>14, <2>15 DEF HookInv
<1> QED
  BY <1>3, <1>4

LEMMA DieUntoldKeeps ==
    ASSUME HookInv, DieUntold
    PROVE  HookInv'
<1>1. /\ HookTypes /\ ToldInv /\ UNCHANGED <<stored, past, started, changes>> /\ caller' = NoCall
  BY DEF HookInv, DieUntold
<1>2. HookTypes'
  BY <1>1, NoCallTyped DEF HookTypes
<1>3. ToldInv'
  BY <1>1 DEF ToldInv, Rising, Within, Below, Holds
<1> QED
  BY <1>1, <1>2, <1>3, NoCallTyped DEF HookInv, CallInv

\* What was told is part of what was committed, in its order.
LEMMA ToldInOrder == HookInv => HooksFollowCommits
<1> SUFFICES ASSUME HookInv
             PROVE  Subsequence(started, past)
  BY DEF HooksFollowCommits
<1>1. /\ past \in Seq(Changes) /\ started \in Seq(Changes) /\ Rising(past) /\ Rising(started)
      /\ \A n \in 1..Len(started) : \E k \in 1..Len(past) : started[n] = past[k]
  BY DEF HookInv, HookTypes, ToldInv, Within
<1> DEFINE f == [n \in 1..Len(started) |-> CHOOSE k \in 1..Len(past) : started[n] = past[k]]
<1>2. \A n \in 1..Len(started) : f[n] \in 1..Len(past) /\ started[n] = past[f[n]]
  BY <1>1
<1>3. f \in [1..Len(started) -> 1..Len(past)]
  BY <1>2
<1> HIDE DEF f
<1>4. ASSUME NEW n \in 1..Len(started), NEW k \in 1..Len(started), n < k
      PROVE  f[n] < f[k]
  <2>1. past[f[n]].number < past[f[k]].number
    BY <1>1, <1>2, <1>4 DEF Rising
  <2>2. f[n] \in Nat /\ f[k] \in Nat /\ f[n] \in 1..Len(past) /\ f[k] \in 1..Len(past)
    BY <1>2
  <2>3. past[f[n]].number \in Nat /\ past[f[k]].number \in Nat
    BY <1>1, <2>2, Elements
  <2>4. f[k] < f[n] => past[f[k]].number < past[f[n]].number
    BY <1>1, <2>2 DEF Rising
  <2>5. f[n] # f[k] /\ ~(f[k] < f[n])
    BY <2>1, <2>3, <2>4
  <2> QED
    BY <2>2, <2>5
<1> QED
  BY <1>2, <1>3, <1>4 DEF Subsequence

\* However many changes, retries, failures and deaths: scripts are told of changes that
\* were committed, in their order and none twice (HooksFollowCommits), because numbers
\* rise along what was committed, what was told and what is still to be told, and what an
\* attempt has noted lies above everything that was there when it began.
THEOREM HooksTheorem == HookSpec => []HooksFollowCommits
<1>1. HookInv /\ [HookNext]_hookVars => HookInv'
  <2> SUFFICES ASSUME HookInv, [HookNext]_hookVars
               PROVE  HookInv'
    OBVIOUS
  <2>1. ASSUME NEW i \in HookedIssues, caller.pc # "inside", WriteOnce(i, FALSE)
        PROVE  HookInv'
    BY <2>1, WriteOnceKeeps
  <2>2. ASSUME NEW i \in HookedIssues, WriteOnce(i, TRUE)
        PROVE  HookInv'
    <3>1. caller.pc # "inside"
      BY <2>2 DEF WriteOnce
    <3> QED
      BY <2>2, <3>1, WriteOnceKeeps
  <2>3. CASE UNCHANGED hookVars
    <3>1. /\ past' = past /\ started' = started /\ stored' = stored
          /\ changes' = changes /\ caller' = caller
      BY <2>3 DEF hookVars
    <3>2. HookTypes'
      BY <2>3 DEF hookVars, HookInv, HookTypes
    <3>3. ToldInv'
      BY <3>1 DEF HookInv, ToldInv, Rising, Within, Below, Holds
    <3>4. CallInv'
      BY <3>1 DEF HookInv, CallInv, Rising, Within, Below, Before, Holds
    <3> QED
      BY <3>2, <3>3, <3>4 DEF HookInv
  <2> QED
    BY <2>1, <2>2, <2>3, ReadAgainKeeps, BeginAttemptKeeps, WriteInsideKeeps, RollBackKeeps,
       CommitInsideKeeps, FireNextKeeps, DieUntoldKeeps DEF HookNext
<1> QED
  BY <1>1, HookInitInv, ToldInOrder, PTL DEF HookSpec
=============================================================================
