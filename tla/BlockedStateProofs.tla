--------------------------- MODULE BlockedStateProofs ---------------------------
(***************************************************************************)
(* Proofs about BlockedState, for any ids and any edges that clients add:  *)
(* what the edits compute is enough for the loop to leave every flag as a  *)
(* recompute of the whole database would; what the queries of WorkQueries  *)
(* and EdgeQueries say of such a database; and that the pass of            *)
(* MergedFlags makes one of a merge.                                       *)
(***************************************************************************)
EXTENDS WorkQueries, EdgeQueries, MergedFlags, FiniteSetTheorems, TLAPS

Labels == {"idle", "markIssues", "unmarkIssues", "markWisps", "unmarkWisps", "check"}

\* The rows.
RowsOK ==
    /\ status \in [Issues -> Statuses \cup {"absent"}]
    /\ wisps \in SUBSET Issues
    /\ dep \in [Issues \X Issues -> Kinds \cup {"none"}]
    /\ isBlocked \in [Issues -> BOOLEAN]

BlockedTypeOK ==
    /\ RowsOK
    /\ pc \in Labels /\ mode \in {"recompute", "mark"}
    /\ todo \in SUBSET Issues
    /\ changed \in BOOLEAN

\* Rows whose flag is to be set.
Unmarked == {x \in Issues : ~isBlocked[x] /\ ShouldBeBlocked(x)}

\* What the loop may change of a row, no row outside of S inherits - unless its
\* own flag does not depend on its parents.
Sealed(S) ==
    \A x \in Issues \ S :
        (\A p \in S : dep[<<x, p>>] # "child") \/ ~Active(x) \/ ActiveBlocker(x)

\* Only rows the loop runs over are stale, and none when it is over.  A loop that
\* only marks meets no row to unmark.
LoopInv ==
    /\ StaleFlags \subseteq todo
    /\ StaleFlags = {} \/ Sealed(todo)
    /\ pc = "idle" => todo = {} /\ mode = "recompute"
    /\ pc \in {"unmarkIssues", "unmarkWisps"} => mode = "recompute"
    /\ mode = "mark" => \A x \in Issues : isBlocked[x] => ShouldBeBlocked(x)

\* As long as no statement of a round has changed a row, what it has passed is right.
RoundInv ==
    ~changed =>
        /\ pc = "unmarkIssues" => Unmarked \subseteq wisps
        /\ pc = "markWisps" => StaleFlags \subseteq wisps
        /\ pc = "unmarkWisps" => StaleFlags \subseteq wisps /\ Unmarked = {}
        /\ pc = "check" => StaleFlags = {}

-------------------------------------------------------------------------------
(* Operators *)

LEMMA KindFacts ==
    /\ WaitsFor \subseteq Kinds /\ "blocks" \in Kinds /\ "child" \in Kinds
    /\ "blocks" \notin WaitsFor /\ "child" \notin WaitsFor
    /\ "none" \notin Kinds /\ \A k \in Kinds : k = "blocks" \/ k = "child" \/ k \in WaitsFor
  BY DEF WaitsFor, Kinds

\* expandByParentChildDescendantsInTx returns what it is given and every child of
\* what it returns.
LEMMA ExpandCloses ==
    ASSUME NEW d, NEW S \in SUBSET Issues
    PROVE  /\ S \subseteq Expand(d, S) /\ Expand(d, S) \in SUBSET Issues
           /\ \A p \in Expand(d, S), c \in Issues : d[<<c, p>>] = "child" => c \in Expand(d, S)
<1>1. S \subseteq Expand(d, S) /\ Expand(d, S) \in SUBSET Issues
  BY DEF Expand
<1>2. ASSUME NEW p \in Expand(d, S), NEW c \in Issues, d[<<c, p>>] = "child"
      PROVE  c \in Expand(d, S)
  BY <1>2 DEF Expand, ChildClosed, Children
<1> QED
  BY <1>1, <1>2

\* If no other edge or child leads from S, then S has all descendants already.
LEMMA StatusAffects ==
    ASSUME NEW i \in Issues
    PROVE  LET E == AffectedByStatusChange(i)
           IN  /\ i \in E /\ E \in SUBSET Issues
               /\ \A p \in E, c \in Issues : dep[<<c, p>>] = "child" => c \in E
               /\ \A x \in Issues \ E :
                     /\ dep[<<x, i>>] # "blocks"
                     /\ \A j \in Issues : dep[<<x, j>>] \in WaitsFor => dep[<<i, j>>] # "child"
<1> DEFINE C == {i} \cup BlockingDependers(dep, i) \cup WaitersOnParents(dep, i)
<1>1. C \in SUBSET Issues
  BY DEF BlockingDependers, WaitersOnParents, Waiters
<1>2. /\ C \subseteq Expand(dep, C) /\ Expand(dep, C) \in SUBSET Issues
      /\ \A p \in Expand(dep, C), c \in Issues : dep[<<c, p>>] = "child" => c \in Expand(dep, C)
  BY <1>1, ExpandCloses
<1>3. \A x \in Issues \ C :
          /\ dep[<<x, i>>] # "blocks"
          /\ \A j \in Issues : dep[<<x, j>>] \in WaitsFor => dep[<<i, j>>] # "child"
  BY DEF BlockingDependers, WaitersOnParents, Waiters
<1>4. AffectedByStatusChange(i) = Expand(dep, C) /\ i \in C
  BY DEF AffectedByStatusChange
<1> HIDE DEF C
<1> QED
  BY <1>2, <1>3, <1>4

LEMMA DepAffects ==
    ASSUME NEW d, NEW i \in Issues, NEW j \in Issues, NEW kind
    PROVE  LET E == AffectedByDepChange(d, i, j, kind)
           IN  /\ i \in E /\ E \in SUBSET Issues
               /\ \A p \in E, c \in Issues : d[<<c, p>>] = "child" => c \in E
               /\ kind = "child" => \A x \in Issues \ E : d[<<x, j>>] \notin WaitsFor
<1> DEFINE C == {i} \cup (IF kind = "child" THEN Waiters(d, j) ELSE {})
<1>1. C \in SUBSET Issues /\ i \in C
  BY DEF Waiters
<1>2. /\ C \subseteq Expand(d, C) /\ Expand(d, C) \in SUBSET Issues
      /\ \A p \in Expand(d, C), c \in Issues : d[<<c, p>>] = "child" => c \in Expand(d, C)
  BY <1>1, ExpandCloses
<1>3. kind = "child" => \A x \in Issues \ C : d[<<x, j>>] \notin WaitsFor
  BY DEF Waiters
<1>4. AffectedByDepChange(d, i, j, kind) = Expand(d, C)
  BY DEF AffectedByDepChange
<1> HIDE DEF C
<1> QED
  BY <1>1, <1>2, <1>3, <1>4

\* What a deletion computes before the rows go, and the rows.
Doomed(S) == AffectedByDeletion(S) \cup S

LEMMA DeletionAffects ==
    ASSUME NEW S \in SUBSET Issues
    PROVE  LET E == Doomed(S)
           IN  /\ E \in SUBSET Issues /\ AffectedByDeletion(S) = E \ S
               /\ \A p \in E, c \in Issues : dep[<<c, p>>] = "child" => c \in E
               /\ \A x \in Issues \ E, i \in S :
                     /\ dep[<<x, i>>] \notin Kinds
                     /\ \A j \in Issues : dep[<<x, j>>] \in WaitsFor => dep[<<i, j>>] # "child"
<1> DEFINE C == S \cup UNION {BlockingDependers(dep, i) \cup Waiters(dep, i)
                                \cup WaitersOnParents(dep, i)
                                \cup Children(dep, i) : i \in S}
<1>1. C \in SUBSET Issues /\ S \subseteq C
  <2>1. ASSUME NEW i \in S
        PROVE  BlockingDependers(dep, i) \cup Waiters(dep, i) \cup WaitersOnParents(dep, i)
                 \cup Children(dep, i) \subseteq Issues
    BY DEF BlockingDependers, WaitersOnParents, Waiters, Children
  <2> QED
    BY <2>1
<1>2. /\ C \subseteq Expand(dep, C) /\ Expand(dep, C) \in SUBSET Issues
      /\ \A p \in Expand(dep, C), c \in Issues : dep[<<c, p>>] = "child" => c \in Expand(dep, C)
  BY <1>1, ExpandCloses
<1>3. ASSUME NEW x \in Issues \ C, NEW i \in S
      PROVE  /\ dep[<<x, i>>] # "blocks" /\ dep[<<x, i>>] # "child" /\ dep[<<x, i>>] \notin WaitsFor
             /\ \A j \in Issues : dep[<<x, j>>] \in WaitsFor => dep[<<i, j>>] # "child"
  BY DEF BlockingDependers, WaitersOnParents, Waiters, Children
<1>4. AffectedByDeletion(S) = Expand(dep, C) \ S
  BY DEF AffectedByDeletion
<1>5. Doomed(S) = Expand(dep, C)
  BY <1>1, <1>2, <1>4 DEF Doomed
<1>6. \A x \in Issues \ C, i \in S : dep[<<x, i>>] \notin Kinds
  BY <1>3, KindFacts
<1> HIDE DEF C
<1> QED
  BY <1>1, <1>2, <1>3, <1>4, <1>5, <1>6

\* A row whose own edges, and what they lead to, stay as they are, is to be blocked
\* as before.
LEMMA SameAround ==
    ASSUME NEW x \in Issues,
           Active(x)' = Active(x),
           \A j \in Issues : dep'[<<x, j>>] = dep[<<x, j>>],
           \A j \in Issues : dep[<<x, j>>] = "blocks" => Active(j)' = Active(j),
           \A j \in Issues : dep[<<x, j>>] = "child" => isBlocked'[j] = isBlocked[j],
           \A j \in Issues : dep[<<x, j>>] \in WaitsFor =>
               \A c \in Issues : /\ dep'[<<c, j>>] = "child" <=> dep[<<c, j>>] = "child"
                                 /\ dep[<<c, j>>] = "child" => status'[c] = status[c]
    PROVE  /\ ActiveBlocker(x)' = ActiveBlocker(x)
           /\ ShouldBeBlocked(x)' = ShouldBeBlocked(x)
<1>2. ActiveBlocker(x)' = ActiveBlocker(x)
  BY DEF ActiveBlocker
<1>3. BlockedParent(x)' = BlockedParent(x)
  BY DEF BlockedParent
<1>4. ASSUME NEW j \in Issues, dep[<<x, j>>] \in WaitsFor
      PROVE  /\ (\E c \in Children(dep', j) : Active(c)') <=> (\E c \in Children(dep, j) : Active(c))
             /\ (\A c \in Children(dep', j) : status'[c] # "closed")
                  <=> (\A c \in Children(dep, j) : status[c] # "closed")
  <2>1. Children(dep', j) = Children(dep, j)
    BY <1>4 DEF Children
  <2>2. \A c \in Children(dep, j) : status'[c] = status[c]
    BY <1>4 DEF Children
  <2> QED
    BY <2>1, <2>2 DEF Active
<1>5. HeldAtGate(x)' = HeldAtGate(x)
  <2> DEFINE Holds(j, d, s) == /\ d[<<x, j>>] \in WaitsFor
                               /\ \E c \in Children(d, j) : s[c] = "open"
                               /\ \/ d[<<x, j>>] = "all"
                                  \/ \A c \in Children(d, j) : s[c] # "closed"
  <2>1. ASSUME NEW j \in Issues
        PROVE  Holds(j, dep', status') <=> Holds(j, dep, status)
    <3>1. dep'[<<x, j>>] = dep[<<x, j>>]
      OBVIOUS
    <3>2. CASE dep[<<x, j>>] \in WaitsFor
      BY <1>4, <3>1, <3>2 DEF Active
    <3> QED
      BY <3>1, <3>2
  <2>2. (\E j \in Issues : Holds(j, dep', status')) <=> \E j \in Issues : Holds(j, dep, status)
    <3> HIDE DEF Holds
    <3> QED
      BY <2>1
  <2> QED
    BY <2>2 DEF HeldAtGate, Active
<1> QED
  BY <1>2, <1>3, <1>5 DEF ShouldBeBlocked

-------------------------------------------------------------------------------
(* The loop *)

\* Flags of rows in todo change: what the rows outside are to be stays.
LEMMA OutsideStays ==
    ASSUME RowsOK, todo \in SUBSET Issues, Sealed(todo),
           status' = status, dep' = dep,
           \A x \in Issues \ todo : isBlocked'[x] = isBlocked[x]
    PROVE  \A x \in Issues \ todo : ShouldBeBlocked(x)' = ShouldBeBlocked(x)
<1> SUFFICES ASSUME NEW x \in Issues \ todo PROVE ShouldBeBlocked(x)' = ShouldBeBlocked(x)
  OBVIOUS
<1>1. Active(x)' = Active(x) /\ ActiveBlocker(x)' = ActiveBlocker(x)
        /\ HeldAtGate(x)' = HeldAtGate(x)
  BY DEF Active, ActiveBlocker, HeldAtGate, Children
<1>2. CASE \A p \in todo : dep[<<x, p>>] # "child"
  <2>1. BlockedParent(x)' = BlockedParent(x)
    BY <1>2 DEF BlockedParent
  <2> QED
    BY <1>1, <2>1 DEF ShouldBeBlocked
<1>3. CASE ~Active(x) \/ ActiveBlocker(x)
  BY <1>1, <1>3, Zenon DEF ShouldBeBlocked
<1> QED
  BY <1>2, <1>3 DEF Sealed

LEMMA SealedStays ==
    ASSUME status' = status, dep' = dep, todo' = todo, Sealed(todo)
    PROVE  Sealed(todo)'
  BY DEF Sealed, Active, ActiveBlocker

\* If no flag changes, neither does anything said of rows.
LEMMA FlagsSame ==
    ASSUME status' = status, dep' = dep, isBlocked' = isBlocked, wisps' = wisps
    PROVE  /\ StaleFlags' = StaleFlags /\ Unmarked' = Unmarked
           /\ \A x \in Issues : ShouldBeBlocked(x)' = ShouldBeBlocked(x)
  BY DEF StaleFlags, Unmarked, ShouldBeBlocked, Active, ActiveBlocker, BlockedParent, HeldAtGate,
         Children

\* With more flags set, no row that was to be blocked is not.
LEMMA MoreFlags ==
    ASSUME status' = status, dep' = dep, NEW x \in Issues,
           \A y \in Issues : isBlocked[y] => isBlocked'[y], ShouldBeBlocked(x)
    PROVE  ShouldBeBlocked(x)'
  BY DEF ShouldBeBlocked, Active, ActiveBlocker, BlockedParent, HeldAtGate, Children

\* A statement that changes rows of todo leaves the others right.
LEMMA StaleWithin ==
    ASSUME RowsOK, todo \in SUBSET Issues, StaleFlags \subseteq todo, Sealed(todo),
           status' = status, dep' = dep,
           \A x \in Issues \ todo : isBlocked'[x] = isBlocked[x]
    PROVE  StaleFlags' \subseteq todo
<1>1. \A x \in Issues \ todo : ShouldBeBlocked(x)' = ShouldBeBlocked(x)
  BY OutsideStays
<1> QED
  BY <1>1 DEF StaleFlags

LEMMA StaleRow ==
    ASSUME RowsOK, NEW x \in Issues
    PROVE  x \in StaleFlags <=> ~(isBlocked[x] <=> ShouldBeBlocked(x))
<1>1. isBlocked[x] \in BOOLEAN
  BY DEF RowsOK
<1>2. ShouldBeBlocked(x) \in BOOLEAN
  BY DEF ShouldBeBlocked
<1> QED
  BY <1>1, <1>2 DEF StaleFlags

LEMMA MarkKeeps ==
    ASSUME BlockedTypeOK, LoopInv, RoundInv, NEW table \in SUBSET Issues,
           NEW here \in Labels \ {"idle"}, NEW next \in Labels \ {"idle"},
           Mark(table, here, next), next \in {"unmarkIssues", "unmarkWisps"} => mode = "recompute"
    PROVE  /\ BlockedTypeOK' /\ LoopInv'
           /\ ~changed' => ~changed /\ isBlocked' = isBlocked /\ Unmarked \cap table = {}
<1> DEFINE hit == {i \in todo \cap table : ~isBlocked[i] /\ ShouldBeBlocked(i)}
<1>1. /\ pc = here /\ pc' = next /\ status' = status /\ wisps' = wisps /\ dep' = dep
      /\ mode' = mode /\ todo' = todo /\ changed' = (changed \/ hit # {})
      /\ isBlocked' = [i \in Issues |-> isBlocked[i] \/ i \in hit]
  BY DEF Mark
<1>2. BlockedTypeOK'
  BY <1>1 DEF BlockedTypeOK, RowsOK
<1>3. hit \subseteq StaleFlags /\ Unmarked \cap table \subseteq hit
  BY DEF StaleFlags, Unmarked, LoopInv, BlockedTypeOK, RowsOK
<1>4. ASSUME hit = {} PROVE isBlocked' = isBlocked
  BY <1>1, <1>4 DEF BlockedTypeOK, RowsOK
<1>5. LoopInv'
  <2>1. CASE hit = {}
    <3>1. isBlocked' = isBlocked
      BY <2>1, <1>4
    <3>2. StaleFlags' = StaleFlags /\ \A x \in Issues : ShouldBeBlocked(x)' = ShouldBeBlocked(x)
      BY <1>1, <3>1, FlagsSame
    <3>3. StaleFlags' = {} \/ Sealed(todo)'
      BY <1>1, <3>2, SealedStays DEF LoopInv
    <3> QED
      BY <1>1, <3>1, <3>2, <3>3 DEF LoopInv
  <2>2. CASE hit # {}
    <3>1. Sealed(todo) /\ StaleFlags \subseteq todo
      BY <2>2, <1>3 DEF LoopInv
    <3>2. \A x \in Issues \ todo : isBlocked'[x] = isBlocked[x]
      BY <1>1 DEF BlockedTypeOK, RowsOK
    <3>3. StaleFlags' \subseteq todo /\ Sealed(todo)'
      BY <1>1, <3>1, <3>2, StaleWithin, SealedStays DEF BlockedTypeOK
    <3>4. ASSUME mode = "mark", NEW x \in Issues, isBlocked'[x] PROVE ShouldBeBlocked(x)'
      <4>1. ShouldBeBlocked(x)
        BY <3>4, <1>1 DEF LoopInv
      <4>2. \A y \in Issues : isBlocked[y] => isBlocked'[y]
        BY <1>1
      <4> QED
        BY <1>1, <4>1, <4>2, MoreFlags
    <3> QED
      BY <1>1, <3>3, <3>4 DEF LoopInv
  <2> QED
    BY <2>1, <2>2
<1>6. ~changed' => ~changed /\ hit = {}
  BY <1>1 DEF BlockedTypeOK
<1> HIDE DEF hit
<1> QED
  BY <1>2, <1>3, <1>4, <1>5, <1>6

LEMMA UnmarkKeeps ==
    ASSUME BlockedTypeOK, LoopInv, RoundInv, NEW table \in SUBSET Issues,
           NEW here \in {"unmarkIssues", "unmarkWisps"},
           NEW next \in {"markWisps", "check"}, Unmark(table, here, next)
    PROVE  /\ BlockedTypeOK' /\ LoopInv'
           /\ ~changed' => ~changed /\ isBlocked' = isBlocked
                             /\ StaleFlags \cap table \subseteq Unmarked
<1> DEFINE hit == {i \in todo \cap table : isBlocked[i] /\ ~ShouldBeBlocked(i)}
<1>1. /\ pc = here /\ pc' = next /\ status' = status /\ wisps' = wisps /\ dep' = dep
      /\ mode' = mode /\ todo' = todo /\ changed' = (changed \/ hit # {})
      /\ isBlocked' = [i \in Issues |-> isBlocked[i] /\ i \notin hit]
  BY DEF Unmark
<1>2. BlockedTypeOK'
  BY <1>1 DEF BlockedTypeOK, RowsOK, Labels
<1>3. hit \subseteq StaleFlags /\ (hit = {} => StaleFlags \cap table \subseteq Unmarked)
  BY StaleRow DEF Unmarked, LoopInv, BlockedTypeOK
<1>4. ASSUME hit = {} PROVE isBlocked' = isBlocked
  BY <1>1, <1>4 DEF BlockedTypeOK, RowsOK
<1>5. mode = "recompute"
  BY <1>1 DEF LoopInv
<1>6. LoopInv'
  <2>1. CASE hit = {}
    <3>1. isBlocked' = isBlocked
      BY <2>1, <1>4
    <3>2. StaleFlags' = StaleFlags
      BY <1>1, <3>1, FlagsSame
    <3>3. StaleFlags' = {} \/ Sealed(todo)'
      BY <1>1, <3>2, SealedStays DEF LoopInv
    <3> QED
      BY <1>1, <1>5, <3>2, <3>3 DEF LoopInv
  <2>2. CASE hit # {}
    <3>1. Sealed(todo) /\ StaleFlags \subseteq todo
      BY <2>2, <1>3 DEF LoopInv
    <3>2. \A x \in Issues \ todo : isBlocked'[x] = isBlocked[x]
      BY <1>1 DEF BlockedTypeOK, RowsOK
    <3>3. StaleFlags' \subseteq todo /\ Sealed(todo)'
      BY <1>1, <3>1, <3>2, StaleWithin, SealedStays DEF BlockedTypeOK
    <3> QED
      BY <1>1, <1>5, <3>3 DEF LoopInv
  <2> QED
    BY <2>1, <2>2
<1>7. ~changed' => ~changed /\ hit = {}
  BY <1>1 DEF BlockedTypeOK
<1> HIDE DEF hit
<1> QED
  BY <1>2, <1>3, <1>4, <1>6, <1>7

\* The end of a round in which a statement changed a row begins another; otherwise
\* no row is stale.
LEMMA EndRoundKeeps ==
    ASSUME BlockedTypeOK, LoopInv, RoundInv, EndRound
    PROVE  BlockedTypeOK' /\ LoopInv' /\ RoundInv'
<1>1. /\ pc = "check" /\ status' = status /\ wisps' = wisps /\ dep' = dep
      /\ isBlocked' = isBlocked /\ changed' = FALSE
      /\ pc' = IF changed THEN "markIssues" ELSE "idle"
      /\ todo' = IF changed THEN todo ELSE {}
      /\ mode' = IF changed THEN mode ELSE "recompute"
  BY DEF EndRound
<1>2. BlockedTypeOK'
  BY <1>1 DEF BlockedTypeOK, RowsOK, Labels
<1>3. RoundInv'
  BY <1>1 DEF RoundInv
<1>4. StaleFlags' = StaleFlags /\ \A x \in Issues : ShouldBeBlocked(x)' = ShouldBeBlocked(x)
  BY <1>1, FlagsSame
<1>5. CASE changed
  <2>1. StaleFlags' = {} \/ Sealed(todo)'
    BY <1>1, <1>4, <1>5, SealedStays DEF LoopInv
  <2> QED
    BY <1>1, <1>2, <1>3, <1>4, <1>5, <2>1 DEF LoopInv
<1>6. CASE ~changed
  <2>1. StaleFlags' = {}
    BY <1>1, <1>4, <1>6 DEF RoundInv
  <2> QED
    BY <1>1, <1>2, <1>3, <1>6, <2>1 DEF LoopInv
<1> QED
  BY <1>5, <1>6

\* Each statement of the loop.
LEMMA LoopKeeps ==
    ASSUME BlockedTypeOK, LoopInv, RoundInv, Loop
    PROVE  BlockedTypeOK' /\ LoopInv' /\ RoundInv'
<1>1. wisps \in SUBSET Issues /\ Issues \ wisps \in SUBSET Issues
  BY DEF BlockedTypeOK, RowsOK
<1>2. mode \in {"recompute", "mark"}
  BY DEF BlockedTypeOK
<1>3. ASSUME mode = "mark" PROVE StaleFlags \subseteq Unmarked
  BY <1>3, StaleRow DEF LoopInv, Unmarked, BlockedTypeOK, StaleFlags
<1>4. Unmarked \subseteq Issues /\ StaleFlags \subseteq Issues
  BY DEF Unmarked, StaleFlags
<1>5. CASE MarkIssues
  <2> DEFINE next == IF mode = "mark" THEN "markWisps" ELSE "unmarkIssues"
  <2>1. next \in Labels \ {"idle"} /\ "markIssues" \in Labels \ {"idle"}
    BY DEF Labels
  <2>2. Mark(Issues \ wisps, "markIssues", next)
    BY <1>5 DEF MarkIssues
  <2>3. next \in {"unmarkIssues", "unmarkWisps"} => mode = "recompute"
    BY <1>2
  <2>4. pc' = next /\ wisps' = wisps /\ status' = status /\ dep' = dep
    BY <2>2 DEF Mark
  <2>5. /\ BlockedTypeOK' /\ LoopInv'
        /\ ~changed' => ~changed /\ isBlocked' = isBlocked /\ Unmarked \cap (Issues \ wisps) = {}
    <3> HIDE DEF next
    <3> QED
      BY <1>1, <2>1, <2>2, <2>3, MarkKeeps
  <2>6. ~changed' => Unmarked' \subseteq wisps' /\ (mode = "mark" => StaleFlags' \subseteq wisps')
    BY <1>3, <1>4, <2>4, <2>5, FlagsSame
  <2> QED
    BY <2>4, <2>5, <2>6 DEF RoundInv
<1>6. CASE UnmarkIssues
  <2>1. pc = "unmarkIssues" /\ pc' = "markWisps" /\ wisps' = wisps /\ status' = status /\ dep' = dep
    BY <1>6 DEF UnmarkIssues, Unmark
  <2>2. /\ BlockedTypeOK' /\ LoopInv'
        /\ ~changed' => ~changed /\ isBlocked' = isBlocked
                          /\ StaleFlags \cap (Issues \ wisps) \subseteq Unmarked
    BY <1>1, <1>6, UnmarkKeeps DEF UnmarkIssues
  <2>3. ~changed' => StaleFlags' \subseteq wisps'
    BY <1>4, <2>1, <2>2, FlagsSame DEF RoundInv
  <2> QED
    BY <2>1, <2>2, <2>3 DEF RoundInv
<1>7. CASE MarkWisps
  <2> DEFINE next == IF mode = "mark" THEN "check" ELSE "unmarkWisps"
  <2>1. next \in Labels \ {"idle"} /\ "markWisps" \in Labels \ {"idle"}
    BY DEF Labels
  <2>2. Mark(wisps, "markWisps", next)
    BY <1>7 DEF MarkWisps
  <2>3. next \in {"unmarkIssues", "unmarkWisps"} => mode = "recompute"
    BY <1>2
  <2>4. pc = "markWisps" /\ pc' = next /\ wisps' = wisps /\ status' = status /\ dep' = dep
    BY <2>2 DEF Mark
  <2>5. /\ BlockedTypeOK' /\ LoopInv'
        /\ ~changed' => ~changed /\ isBlocked' = isBlocked /\ Unmarked \cap wisps = {}
    <3> HIDE DEF next
    <3> QED
      BY <1>1, <2>1, <2>2, <2>3, MarkKeeps
  <2>6. ~changed' => StaleFlags \subseteq wisps /\ Unmarked = {}
    <3>1. ~changed' => StaleFlags \subseteq wisps
      BY <2>4, <2>5 DEF RoundInv
    <3>2. Unmarked \subseteq StaleFlags
      BY StaleRow DEF Unmarked, BlockedTypeOK
    <3> QED
      BY <2>5, <3>1, <3>2
  <2>7. ~changed' => StaleFlags' \subseteq wisps' /\ Unmarked' = {}
                       /\ (mode = "mark" => StaleFlags' = {})
    BY <1>3, <2>4, <2>5, <2>6, FlagsSame
  <2> QED
    BY <2>4, <2>5, <2>7 DEF RoundInv
<1>8. CASE UnmarkWisps
  <2>1. pc = "unmarkWisps" /\ pc' = "check" /\ wisps' = wisps /\ status' = status /\ dep' = dep
    BY <1>8 DEF UnmarkWisps, Unmark
  <2>2. /\ BlockedTypeOK' /\ LoopInv'
        /\ ~changed' => ~changed /\ isBlocked' = isBlocked /\ StaleFlags \cap wisps \subseteq Unmarked
    BY <1>1, <1>8, UnmarkKeeps DEF UnmarkWisps
  <2>3. ~changed' => StaleFlags' = {}
    BY <2>1, <2>2, FlagsSame DEF RoundInv
  <2> QED
    BY <2>1, <2>2, <2>3 DEF RoundInv
<1> QED
  BY <1>5, <1>6, <1>7, <1>8, EndRoundKeeps DEF Loop

-------------------------------------------------------------------------------
(* The edits *)

\* Sealed in the next state, of a set that is computed in this one.
SealedNext(S) ==
    \A x \in Issues \ S :
        (\A p \in S : dep'[<<x, p>>] # "child") \/ ~Active(x)' \/ ActiveBlocker(x)'

\* An edit starts with every flag right.
LEMMA IdleRight ==
    ASSUME LoopInv, pc = "idle"
    PROVE  StaleFlags = {} /\ todo = {} /\ mode = "recompute"
  BY DEF LoopInv

\* It is done well if the loop it starts runs over all rows that it made stale.
LEMMA EditRuns ==
    ASSUME RowsOK', NEW m \in {"recompute", "mark"}, NEW S \in SUBSET Issues, Run(m, S),
           StaleFlags' \subseteq S,
           StaleFlags' = {} \/ SealedNext(S),
           m = "mark" => \A x \in Issues : isBlocked'[x] => ShouldBeBlocked(x)'
    PROVE  BlockedTypeOK' /\ LoopInv' /\ RoundInv'
<1>1. /\ todo' = S /\ changed' = FALSE
      /\ S = {} => pc' = "idle" /\ mode' = "recompute"
      /\ S # {} => pc' = "markIssues" /\ mode' = m
  BY DEF Run
<1>2. BlockedTypeOK'
  BY <1>1 DEF BlockedTypeOK, Labels
<1>3. StaleFlags' = {} \/ Sealed(todo)'
  BY <1>1 DEF Sealed, SealedNext
<1>4. LoopInv'
  BY <1>1, <1>3 DEF LoopInv
<1>5. RoundInv'
  BY <1>1 DEF RoundInv
<1> QED
  BY <1>2, <1>4, <1>5

\* Or if it made none stale, and starts no loop.
LEMMA EditRests ==
    ASSUME BlockedTypeOK, LoopInv, RowsOK', pc = "idle", UNCHANGED loopVars, StaleFlags' = {}
    PROVE  BlockedTypeOK' /\ LoopInv' /\ RoundInv'
<1>1. pc' = "idle" /\ todo' = {} /\ mode' = "recompute" /\ changed' \in BOOLEAN
  BY IdleRight DEF loopVars, BlockedTypeOK
<1>2. BlockedTypeOK'
  BY <1>1 DEF BlockedTypeOK, Labels
<1> QED
  BY <1>1, <1>2 DEF LoopInv, RoundInv

\* A set that is closed under children.
LEMMA ClosedSealed ==
    ASSUME NEW S \in SUBSET Issues,
           \A p \in S, c \in Issues : dep'[<<c, p>>] = "child" => c \in S
    PROVE  SealedNext(S)
  BY DEF SealedNext

\* Rows are right as long as they are to be as before, and are.
LEMMA RightStays ==
    ASSUME RowsOK, RowsOK', StaleFlags = {}, NEW S \in SUBSET Issues,
           \A x \in Issues \ S : isBlocked'[x] = isBlocked[x]
                                   /\ ShouldBeBlocked(x)' = ShouldBeBlocked(x)
    PROVE  StaleFlags' \subseteq S
  BY DEF StaleFlags

\* An edit that changes the row of one id, no edge, and no other flag.
LEMMA RowEdit ==
    ASSUME RowsOK, RowsOK', StaleFlags = {}, NEW i \in Issues, dep' = dep,
           \A x \in Issues \ {i} : status'[x] = status[x] /\ isBlocked'[x] = isBlocked[x]
    PROVE  LET E == AffectedByStatusChange(i)
           IN  E \in SUBSET Issues /\ StaleFlags' \subseteq E /\ SealedNext(E)
<1> DEFINE E == AffectedByStatusChange(i)
<1>1. /\ i \in E /\ E \in SUBSET Issues
      /\ \A p \in E, c \in Issues : dep[<<c, p>>] = "child" => c \in E
      /\ \A x \in Issues \ E :
            /\ dep[<<x, i>>] # "blocks"
            /\ \A j \in Issues : dep[<<x, j>>] \in WaitsFor => dep[<<i, j>>] # "child"
  BY StatusAffects
<1> HIDE DEF E
<1>2. SealedNext(E)
  BY <1>1, ClosedSealed
<1>3. ASSUME NEW x \in Issues \ E
      PROVE  isBlocked'[x] = isBlocked[x] /\ ShouldBeBlocked(x)' = ShouldBeBlocked(x)
  <2>1. x # i /\ status'[x] = status[x] /\ isBlocked'[x] = isBlocked[x]
    BY <1>1
  <2>2. \A j \in Issues : dep[<<x, j>>] = "blocks" => Active(j)' = Active(j)
    BY <1>1 DEF Active
  <2>3. \A j \in Issues : dep[<<x, j>>] = "child" => isBlocked'[j] = isBlocked[j]
    BY <1>1
  <2>4. \A j \in Issues : dep[<<x, j>>] \in WaitsFor =>
            \A c \in Issues : /\ dep'[<<c, j>>] = "child" <=> dep[<<c, j>>] = "child"
                              /\ dep[<<c, j>>] = "child" => status'[c] = status[c]
    BY <1>1
  <2>5. Active(x)' = Active(x)
    BY <2>1 DEF Active
  <2>6. ShouldBeBlocked(x)' = ShouldBeBlocked(x)
    BY <1>1, <2>2, <2>3, <2>4, <2>5, SameAround
  <2> QED
    BY <2>1, <2>6
<1>4. StaleFlags' \subseteq E
  BY <1>1, <1>3, RightStays
<1> QED
  BY <1>1, <1>2, <1>4 DEF E

\* An edit that changes one edge and no row.
LEMMA EdgeEdit ==
    ASSUME RowsOK, RowsOK', StaleFlags = {}, NEW i \in Issues, NEW j \in Issues, NEW k, NEW kind,
           dep' = [dep EXCEPT ![<<i, j>>] = k], status' = status, isBlocked' = isBlocked,
           k = "child" \/ dep[<<i, j>>] = "child" => kind = "child"
    PROVE  LET E == AffectedByDepChange(dep', i, j, kind)
           IN  E \in SUBSET Issues /\ StaleFlags' \subseteq E /\ SealedNext(E)
<1> DEFINE E == AffectedByDepChange(dep', i, j, kind)
<1>1. /\ i \in E /\ E \in SUBSET Issues
      /\ \A p \in E, c \in Issues : dep'[<<c, p>>] = "child" => c \in E
      /\ kind = "child" => \A x \in Issues \ E : dep'[<<x, j>>] \notin WaitsFor
  BY DepAffects
<1>a. /\ dep'[<<i, j>>] = k
      /\ \A x, y \in Issues : <<x, y>> # <<i, j>> => dep'[<<x, y>>] = dep[<<x, y>>]
  BY DEF RowsOK
<1> HIDE DEF E
<1>2. SealedNext(E)
  BY <1>1, ClosedSealed
<1>3. ASSUME NEW x \in Issues \ E
      PROVE  isBlocked'[x] = isBlocked[x] /\ ShouldBeBlocked(x)' = ShouldBeBlocked(x)
  <2>1. \A y \in Issues : dep'[<<x, y>>] = dep[<<x, y>>]
    BY <1>1, <1>a
  <2>2. \A y \in Issues : dep[<<x, y>>] \in WaitsFor =>
            \A c \in Issues : /\ dep'[<<c, y>>] = "child" <=> dep[<<c, y>>] = "child"
                              /\ dep[<<c, y>>] = "child" => status'[c] = status[c]
    <3> SUFFICES ASSUME NEW y \in Issues, dep[<<x, y>>] \in WaitsFor, NEW c \in Issues
        PROVE  dep'[<<c, y>>] = "child" <=> dep[<<c, y>>] = "child"
      OBVIOUS
    <3>1. CASE <<c, y>> # <<i, j>>
      BY <3>1, <1>a
    <3>2. CASE c = i /\ y = j
      <4>1. kind # "child"
        BY <1>1, <2>1, <3>2
      <4> QED
        BY <4>1, <3>2, <1>a
    <3> QED
      BY <3>1, <3>2
  <2>3. \A y \in Issues : Active(y)' = Active(y)
    BY DEF Active
  <2> QED
    BY <2>1, <2>2, <2>3, SameAround
<1>4. StaleFlags' \subseteq E
  BY <1>1, <1>3, RightStays
<1> QED
  BY <1>1, <1>2, <1>4 DEF E

\* Updates and closures.
LEMMA UpdateKeeps ==
    ASSUME Gaps = {}, BlockedTypeOK, LoopInv, NEW i \in Issues, NEW st \in Statuses, Update(i, st)
    PROVE  BlockedTypeOK' /\ LoopInv' /\ RoundInv'
<1>1. /\ pc = "idle" /\ StaleFlags = {} /\ RowsOK
      /\ status' = [status EXCEPT ![i] = st] /\ wisps' = wisps /\ dep' = dep /\ isBlocked' = isBlocked
  BY IdleRight DEF Update, BlockedTypeOK
<1>2. RowsOK'
  BY <1>1 DEF RowsOK
<1>3. \A x \in Issues \ {i} : status'[x] = status[x] /\ isBlocked'[x] = isBlocked[x]
  BY <1>1 DEF RowsOK
<1>4. CASE Active(i) # (st = "open")
  <2>1. Run("recompute", AffectedByStatusChange(i))
    BY <1>4 DEF Update, Recompute
  <2>2. /\ AffectedByStatusChange(i) \in SUBSET Issues
        /\ StaleFlags' \subseteq AffectedByStatusChange(i) /\ SealedNext(AffectedByStatusChange(i))
    BY <1>1, <1>2, <1>3, RowEdit
  <2> QED
    BY <1>2, <2>1, <2>2, EditRuns
<1>5. CASE ~(Active(i) # (st = "open"))
  <2>1. UNCHANGED loopVars
    BY <1>5 DEF Update
  <2>2. \A x \in Issues : Active(x)' = Active(x)
    <3>1. Active(i)' <=> Active(i)
      BY <1>1, <1>5 DEF Active, RowsOK
    <3> QED
      BY <1>1, <1>3, <3>1 DEF Active
  <2>3. ASSUME NEW x \in Issues, NEW j \in Issues, dep[<<x, j>>] \in WaitsFor,
               NEW c \in Issues, dep[<<c, j>>] = "child"
        PROVE  status'[c] = status[c]
    <3>1. CASE c # i
      BY <1>3, <3>1
    <3>2. CASE c = i
      <4>1. x \in WaitersOnParents(dep, i)
        BY <2>3, <3>2 DEF WaitersOnParents, Waiters
      <4>2. status[i] \in Statuses /\ {status[i], st} # {"closed", "pinned"}
        BY <4>1, <1>1 DEF Update, Present, RowsOK
      <4>3. st = status[i]
        BY <1>5, <4>2 DEF Active, Statuses
      <4> QED
        BY <1>1, <3>2, <4>3 DEF RowsOK
    <3> QED
      BY <3>1, <3>2
  <2>4. \A x \in Issues : ShouldBeBlocked(x)' = ShouldBeBlocked(x)
    BY <1>1, <2>2, <2>3, SameAround
  <2>5. StaleFlags' = {}
    BY <1>1, <2>4 DEF StaleFlags
  <2> QED
    BY <1>1, <1>2, <2>1, <2>5, EditRests
<1> QED
  BY <1>4, <1>5

LEMMA CloseKeeps ==
    ASSUME BlockedTypeOK, LoopInv, NEW i \in Issues, Close(i)
    PROVE  BlockedTypeOK' /\ LoopInv' /\ RoundInv'
<1>1. /\ pc = "idle" /\ StaleFlags = {} /\ RowsOK
      /\ status' = [status EXCEPT ![i] = "closed"]
      /\ wisps' = wisps /\ dep' = dep /\ isBlocked' = isBlocked
  BY IdleRight DEF Close, BlockedTypeOK
<1>2. RowsOK'
  BY <1>1 DEF RowsOK, Statuses
<1>3. \A x \in Issues \ {i} : status'[x] = status[x] /\ isBlocked'[x] = isBlocked[x]
  BY <1>1 DEF RowsOK
<1>4. Run("recompute", AffectedByStatusChange(i))
  BY DEF Close, Recompute
<1>5. /\ AffectedByStatusChange(i) \in SUBSET Issues
      /\ StaleFlags' \subseteq AffectedByStatusChange(i) /\ SealedNext(AffectedByStatusChange(i))
  BY <1>1, <1>2, <1>3, RowEdit
<1> QED
  BY <1>2, <1>4, <1>5, EditRuns

LEMMA PromoteKeeps ==
    ASSUME BlockedTypeOK, LoopInv, NEW i \in Issues, Promote(i)
    PROVE  BlockedTypeOK' /\ LoopInv' /\ RoundInv'
<1>1. /\ pc = "idle" /\ StaleFlags = {} /\ RowsOK
      /\ status' = status /\ dep' = dep
      /\ wisps' = wisps \ {i} /\ isBlocked' = [isBlocked EXCEPT ![i] = FALSE]
  BY IdleRight DEF Promote, BlockedTypeOK
<1>2. RowsOK'
  BY <1>1 DEF RowsOK
<1>3. \A x \in Issues \ {i} : status'[x] = status[x] /\ isBlocked'[x] = isBlocked[x]
  BY <1>1 DEF RowsOK
<1>4. Run("recompute", AffectedByStatusChange(i))
  BY DEF Promote, Recompute
<1>5. /\ AffectedByStatusChange(i) \in SUBSET Issues
      /\ StaleFlags' \subseteq AffectedByStatusChange(i) /\ SealedNext(AffectedByStatusChange(i))
  BY <1>1, <1>2, <1>3, RowEdit
<1> QED
  BY <1>2, <1>4, <1>5, EditRuns

\* A row is written over none, or over one on which no other depends.
LEMMA WriteRowAlone ==
    ASSUME Gaps = {}, RowsOK, NEW i \in Issues, NEW st \in Statuses, NEW isWisp \in BOOLEAN,
           WriteRow(i, st, isWisp)
    PROVE  /\ AffectedByStatusChange(i) = {i}
           /\ status' \in [Issues -> Statuses \cup {"absent"}] /\ wisps' \in SUBSET Issues
           /\ isBlocked' \in [Issues -> BOOLEAN] /\ ~isBlocked'[i]
           /\ \A x \in Issues \ {i} : status'[x] = status[x] /\ isBlocked'[x] = isBlocked[x]
<1>1. /\ AffectedByStatusChange(i) = {i}
      /\ status' = [status EXCEPT ![i] = st] /\ isBlocked' = [isBlocked EXCEPT ![i] = FALSE]
      /\ wisps' \in {wisps \cup {i}, wisps \ {i}}
  BY DEF WriteRow
<1> QED
  BY <1>1 DEF RowsOK

LEMMA CreateKeeps ==
    ASSUME Gaps = {}, BlockedTypeOK, LoopInv, NEW i \in Issues, NEW st \in Statuses,
           NEW isWisp \in BOOLEAN, Create(i, st, isWisp)
    PROVE  BlockedTypeOK' /\ LoopInv' /\ RoundInv'
<1>1. /\ pc = "idle" /\ StaleFlags = {} /\ RowsOK /\ dep' = dep /\ WriteRow(i, st, isWisp)
      /\ Run("recompute", {i})
  BY IdleRight DEF Create, Recompute, BlockedTypeOK
<1>2. /\ AffectedByStatusChange(i) = {i}
      /\ RowsOK'
      /\ \A x \in Issues \ {i} : status'[x] = status[x] /\ isBlocked'[x] = isBlocked[x]
  BY <1>1, WriteRowAlone DEF RowsOK
<1>3. {i} \in SUBSET Issues /\ StaleFlags' \subseteq {i} /\ SealedNext({i})
  BY <1>1, <1>2, RowEdit
<1> QED
  BY <1>1, <1>2, <1>3, EditRuns

LEMMA MayRelateTypes ==
    ASSUME NEW i, NEW j, NEW kind, <<i, j, kind>> \in MayRelate
    PROVE  i \in Issues /\ j \in Issues /\ kind \in Kinds
  BY MayRelateAssumption

LEMMA CreateWithEdgeKeeps ==
    ASSUME Gaps = {}, BlockedTypeOK, LoopInv, NEW i \in Issues, NEW st \in Statuses,
           NEW isWisp \in BOOLEAN, NEW j \in Issues, NEW kind \in Kinds,
           CreateWithEdge(i, st, isWisp, j, kind)
    PROVE  BlockedTypeOK' /\ LoopInv' /\ RoundInv'
<1> DEFINE k == IF kind \in WaitsFor THEN "unset" ELSE kind
<1>1. /\ pc = "idle" /\ StaleFlags = {} /\ RowsOK /\ WriteRow(i, st, isWisp) /\ i # j
      /\ dep' = IF dep[<<i, j>>] # "none" THEN dep ELSE [dep EXCEPT ![<<i, j>>] = k]
      /\ kind = "child" => Waiters(dep, j) = {}
      /\ Run("recompute", {i})
  BY IdleRight DEF CreateWithEdge, Recompute, BlockedTypeOK, Acceptable
<1>2. k \in Kinds /\ (k = "child" => kind = "child")
  BY DEF Kinds, WaitsFor
<1> HIDE DEF k
<1>3. /\ AffectedByStatusChange(i) = {i} /\ RowsOK'
      /\ \A x \in Issues \ {i} : status'[x] = status[x] /\ isBlocked'[x] = isBlocked[x]
  BY <1>1, <1>2, WriteRowAlone DEF RowsOK
<1>4. CASE dep' = dep
  <2>1. {i} \in SUBSET Issues /\ StaleFlags' \subseteq {i} /\ SealedNext({i})
    BY <1>1, <1>3, <1>4, RowEdit
  <2> QED
    BY <1>1, <1>3, <2>1, EditRuns
<1>5. CASE dep' # dep
  <2>1. dep[<<i, j>>] = "none" /\ dep' = [dep EXCEPT ![<<i, j>>] = k]
    BY <1>1, <1>5
  <2>2. /\ dep'[<<i, j>>] = k
        /\ \A x, y \in Issues : <<x, y>> # <<i, j>> => dep'[<<x, y>>] = dep[<<x, y>>]
    BY <2>1, <1>1 DEF RowsOK
  <2>3. /\ \A c \in Issues : dep[<<c, i>>] = "child" => c = i
        /\ \A x \in Issues \ {i} :
              /\ dep[<<x, i>>] # "blocks"
              /\ \A y \in Issues : dep[<<x, y>>] \in WaitsFor => dep[<<i, y>>] # "child"
    BY <1>3, StatusAffects
  <2>4. SealedNext({i})
    BY <1>1, <2>2, <2>3 DEF SealedNext
  <2>5. ASSUME NEW x \in Issues \ {i}
        PROVE  isBlocked'[x] = isBlocked[x] /\ ShouldBeBlocked(x)' = ShouldBeBlocked(x)
    <3>1. isBlocked'[x] = isBlocked[x] /\ Active(x)' = Active(x)
      BY <1>3 DEF Active
    <3>2. \A y \in Issues : dep'[<<x, y>>] = dep[<<x, y>>]
      BY <2>2
    <3>3. \A y \in Issues : dep[<<x, y>>] = "blocks" => Active(y)' = Active(y)
      BY <1>3, <2>3 DEF Active
    <3>4. \A y \in Issues : dep[<<x, y>>] = "child" => isBlocked'[y] = isBlocked[y]
      BY <1>3, <2>3
    <3>5. ASSUME NEW y \in Issues, dep[<<x, y>>] \in WaitsFor, NEW c \in Issues
          PROVE  /\ dep'[<<c, y>>] = "child" <=> dep[<<c, y>>] = "child"
                 /\ dep[<<c, y>>] = "child" => status'[c] = status[c]
      <4>1. dep[<<c, y>>] = "child" => status'[c] = status[c]
        BY <1>3, <2>3, <3>5
      <4>2. CASE <<c, y>> # <<i, j>>
        BY <2>2, <4>1, <4>2
      <4>3. CASE c = i /\ y = j
        <5>1. kind # "child"
          BY <1>1, <3>5, <4>3 DEF Waiters
        <5> QED
          BY <1>2, <2>1, <2>2, <4>1, <4>3, <5>1
      <4> QED
        BY <4>2, <4>3
    <3> QED
      BY <3>1, <3>2, <3>3, <3>4, <3>5, SameAround
  <2>6. {i} \in SUBSET Issues /\ StaleFlags' \subseteq {i}
    BY <1>1, <1>3, <2>5, RightStays
  <2> QED
    BY <1>1, <1>3, <2>4, <2>6, EditRuns
<1> QED
  BY <1>4, <1>5

LEMMA RemoveDependencyKeeps ==
    ASSUME BlockedTypeOK, LoopInv, NEW i \in Issues, NEW j \in Issues, RemoveDependency(i, j)
    PROVE  BlockedTypeOK' /\ LoopInv' /\ RoundInv'
<1>1. /\ pc = "idle" /\ StaleFlags = {} /\ RowsOK
      /\ status' = status /\ wisps' = wisps /\ isBlocked' = isBlocked
      /\ dep' = [dep EXCEPT ![<<i, j>>] = "none"]
      /\ Run("recompute", AffectedByDepChange(dep', i, j, dep[<<i, j>>]))
  BY IdleRight DEF RemoveDependency, Recompute, BlockedTypeOK
<1>2. RowsOK'
  BY <1>1 DEF RowsOK
<1> DEFINE E == AffectedByDepChange(dep', i, j, dep[<<i, j>>])
<1>3. E \in SUBSET Issues /\ StaleFlags' \subseteq E /\ SealedNext(E)
  BY <1>1, <1>2, EdgeEdit
<1>4. Run("recompute", E)
  BY <1>1
<1> HIDE DEF E
<1> QED
  BY <1>2, <1>3, <1>4, EditRuns

\* An edge that makes a child.
LEMMA InsertChildKeeps ==
    ASSUME BlockedTypeOK, LoopInv, pc = "idle", NEW i \in Issues, NEW j \in Issues,
           InsertDependency(i, j, "child"), UNCHANGED <<status, wisps>>
    PROVE  BlockedTypeOK' /\ LoopInv' /\ RoundInv'
<1>1. /\ StaleFlags = {} /\ RowsOK
      /\ status' = status /\ wisps' = wisps /\ isBlocked' = isBlocked
      /\ dep' = [dep EXCEPT ![<<i, j>>] = "child"]
      /\ Run("recompute", AffectedByDepChange(dep', i, j, "child"))
  BY IdleRight DEF InsertDependency, Recompute, BlockedTypeOK
<1>2. RowsOK'
  BY <1>1, KindFacts DEF RowsOK
<1> DEFINE E == AffectedByDepChange(dep', i, j, "child")
<1>3. E \in SUBSET Issues /\ StaleFlags' \subseteq E /\ SealedNext(E)
  BY <1>1, <1>2, EdgeEdit
<1>4. Run("recompute", E)
  BY <1>1
<1> HIDE DEF E
<1> QED
  BY <1>2, <1>3, <1>4, EditRuns

\* A new edge that makes no child can only block, and so can more flags.
LEMMA EdgeBlocks ==
    ASSUME RowsOK, NEW i \in Issues, NEW j \in Issues, NEW kind \in Kinds \ {"child"},
           dep[<<i, j>>] = "none", dep' = [dep EXCEPT ![<<i, j>>] = kind], status' = status,
           \A y \in Issues : isBlocked[y] => isBlocked'[y],
           NEW x \in Issues, ShouldBeBlocked(x)
    PROVE  ShouldBeBlocked(x)'
<1>1. /\ \A y \in Issues : dep[<<x, y>>] # "none" => dep'[<<x, y>>] = dep[<<x, y>>]
      /\ \A c, y \in Issues : dep'[<<c, y>>] = "child" <=> dep[<<c, y>>] = "child"
  BY DEF RowsOK
<1>2. Active(x)' = Active(x) /\ \A y \in Issues : Active(y)' = Active(y)
  BY DEF Active
<1>3. ActiveBlocker(x) => ActiveBlocker(x)'
  BY <1>1, <1>2 DEF ActiveBlocker
<1>4. BlockedParent(x) => BlockedParent(x)'
  BY <1>1 DEF BlockedParent
<1>5. \A y \in Issues : Children(dep', y) = Children(dep, y)
  BY <1>1 DEF Children
<1>6. HeldAtGate(x) => HeldAtGate(x)'
  <2> SUFFICES ASSUME HeldAtGate(x) PROVE HeldAtGate(x)'
    OBVIOUS
  <2>1. PICK y \in Issues :
          /\ dep[<<x, y>>] \in WaitsFor
          /\ \E c \in Children(dep, y) : Active(c)
          /\ \/ dep[<<x, y>>] = "all"
             \/ \A c \in Children(dep, y) : status[c] # "closed"
    BY DEF HeldAtGate
  <2>2. dep'[<<x, y>>] = dep[<<x, y>>] /\ Children(dep', y) = Children(dep, y)
    BY <1>1, <1>5, <2>1, KindFacts
  <2>3. \E c \in Children(dep', y) : Active(c)'
    BY <1>2, <2>1, <2>2 DEF Children
  <2> QED
    BY <2>1, <2>2, <2>3 DEF HeldAtGate
<1> QED
  BY <1>2, <1>3, <1>4, <1>6 DEF ShouldBeBlocked

\* An edge that waits at a gate; the loop that follows only marks.
LEMMA InsertWaitKeeps ==
    ASSUME BlockedTypeOK, LoopInv, pc = "idle", NEW i \in Issues, NEW j \in Issues,
           NEW kind \in WaitsFor,
           InsertDependency(i, j, kind), UNCHANGED <<status, wisps>>
    PROVE  BlockedTypeOK' /\ LoopInv' /\ RoundInv'
<1>0. kind # "blocks" /\ kind # "child" /\ kind \in Kinds
  BY KindFacts
<1>1. /\ StaleFlags = {} /\ RowsOK /\ dep[<<i, j>>] = "none"
      /\ status' = status /\ wisps' = wisps /\ isBlocked' = isBlocked
      /\ dep' = [dep EXCEPT ![<<i, j>>] = kind]
      /\ Run("mark", AffectedByDepChange(dep', i, j, kind))
  BY <1>0, IdleRight DEF InsertDependency, BlockedTypeOK
<1>2. RowsOK'
  BY <1>0, <1>1 DEF RowsOK
<1> DEFINE E == AffectedByDepChange(dep', i, j, kind)
<1>3. E \in SUBSET Issues /\ StaleFlags' \subseteq E /\ SealedNext(E)
  BY <1>0, <1>1, <1>2, EdgeEdit
<1>4. Run("mark", E)
  BY <1>1
<1>5. ASSUME NEW x \in Issues, isBlocked'[x] PROVE ShouldBeBlocked(x)'
  <2>1. ShouldBeBlocked(x)
    BY <1>1, <1>5, StaleRow
  <2> QED
    BY <1>0, <1>1, <2>1, EdgeBlocks
<1> HIDE DEF E
<1> QED
  BY <1>2, <1>3, <1>4, <1>5, EditRuns

\* A blocking edge.  Its source is marked by the edit itself, and left out of the
\* loop: that is enough, since with an active blocker its flag is settled, and
\* without one nothing changes.
LEMMA InsertBlocksKeeps ==
    ASSUME BlockedTypeOK, LoopInv, pc = "idle", NEW i \in Issues, NEW j \in Issues,
           InsertDependency(i, j, "blocks"), UNCHANGED <<status, wisps>>
    PROVE  BlockedTypeOK' /\ LoopInv' /\ RoundInv'
<1> DEFINE E == AffectedByDepChange(dep', i, j, "blocks")
<1>1. /\ StaleFlags = {} /\ RowsOK /\ dep[<<i, j>>] = "none"
      /\ status' = status /\ wisps' = wisps
      /\ dep' = [dep EXCEPT ![<<i, j>>] = "blocks"]
      /\ isBlocked' = [isBlocked EXCEPT ![i] = @ \/ (Active(i) /\ Active(j))]
      /\ Run("mark", E \ {i})
  BY IdleRight DEF InsertDependency, BlockedTypeOK
<1>2. RowsOK'
  BY <1>1, KindFacts DEF RowsOK
<1>3. /\ i \in E /\ E \in SUBSET Issues
      /\ \A p \in E, c \in Issues : dep'[<<c, p>>] = "child" => c \in E
  BY DepAffects
<1> HIDE DEF E
<1>4. /\ dep'[<<i, j>>] = "blocks"
      /\ \A x, y \in Issues : <<x, y>> # <<i, j>> => dep'[<<x, y>>] = dep[<<x, y>>]
      /\ \A x, y \in Issues : dep'[<<x, y>>] = "child" <=> dep[<<x, y>>] = "child"
      /\ \A x, y \in Issues : dep'[<<x, y>>] \in WaitsFor <=> dep[<<x, y>>] \in WaitsFor
  BY <1>1, KindFacts DEF RowsOK
<1>5. \A y \in Issues : Active(y)' = Active(y) /\ (y # i => isBlocked'[y] = isBlocked[y])
  BY <1>1 DEF Active, RowsOK
<1>6. ASSUME NEW x \in Issues \ {i}, dep[<<x, i>>] = "child" => isBlocked'[i] = isBlocked[i]
      PROVE  isBlocked'[x] = isBlocked[x] /\ ShouldBeBlocked(x)' = ShouldBeBlocked(x)
  <2>1. \A y \in Issues : dep'[<<x, y>>] = dep[<<x, y>>]
    BY <1>4
  <2>2. \A y \in Issues : dep[<<x, y>>] = "child" => isBlocked'[y] = isBlocked[y]
    BY <1>5, <1>6
  <2> QED
    BY <1>1, <1>4, <1>5, <2>1, <2>2, SameAround
<1>7. \A y \in Issues : isBlocked[y] => isBlocked'[y]
  BY <1>1 DEF RowsOK
<1>8. ASSUME NEW x \in Issues, isBlocked[x] PROVE ShouldBeBlocked(x)'
  <2>1. ShouldBeBlocked(x)
    BY <1>1, <1>8, StaleRow
  <2> QED
    <3>1. "blocks" \in Kinds \ {"child"}
      BY KindFacts
    <3> QED
      BY <1>1, <1>7, <2>1, <3>1, EdgeBlocks
<1>9. CASE Active(i) /\ Active(j)
  <2>1. isBlocked'[i] /\ Active(i)' /\ ActiveBlocker(i)' /\ ShouldBeBlocked(i)'
    <3>1. isBlocked'[i] /\ Active(i)'
      BY <1>1, <1>5, <1>9 DEF RowsOK
    <3>2. ActiveBlocker(i)'
      BY <1>4, <1>5, <1>9 DEF ActiveBlocker
    <3> QED
      BY <3>1, <3>2 DEF ShouldBeBlocked
  <2>2. i \notin StaleFlags'
    <3>1. isBlocked'[i] = TRUE /\ ShouldBeBlocked(i)' = TRUE
      BY <1>2, <2>1 DEF RowsOK, ShouldBeBlocked
    <3> QED
      BY <3>1 DEF StaleFlags
  <2>3. StaleFlags' \subseteq E
    <3>1. \A x \in Issues \ E : x \in Issues \ {i} /\ dep[<<x, i>>] # "child"
      BY <1>3, <1>4
    <3>2. \A x \in Issues \ E : isBlocked'[x] = isBlocked[x]
                                  /\ ShouldBeBlocked(x)' = ShouldBeBlocked(x)
      BY <1>6, <3>1
    <3> QED
      BY <1>1, <1>2, <1>3, <3>2, RightStays
  <2>4. SealedNext(E \ {i})
    BY <1>3, <2>1 DEF SealedNext
  <2>5. \A x \in Issues : isBlocked'[x] => ShouldBeBlocked(x)'
    BY <1>5, <1>8, <2>1
  <2>6. E \ {i} \in SUBSET Issues /\ StaleFlags' \subseteq E \ {i}
    BY <1>3, <2>2, <2>3
  <2> QED
    BY <1>1, <1>2, <2>4, <2>5, <2>6, EditRuns
<1>10. CASE ~(Active(i) /\ Active(j))
  <2>1. isBlocked' = isBlocked
    BY <1>1, <1>10 DEF RowsOK
  <2>2. ShouldBeBlocked(i)' = ShouldBeBlocked(i)
    <3>1. CASE ~Active(i)
      BY <3>1, <1>5 DEF ShouldBeBlocked
    <3>2. CASE ~Active(j)
      <4>1. ActiveBlocker(i)' = ActiveBlocker(i)
        BY <1>1, <1>4, <1>5, <3>2 DEF ActiveBlocker
      <4>2. BlockedParent(i)' = BlockedParent(i)
        BY <1>4, <2>1 DEF BlockedParent
      <4>3. HeldAtGate(i)' = HeldAtGate(i)
        <5>1. \A y \in Issues : Children(dep', y) = Children(dep, y)
          BY <1>4 DEF Children
        <5>2. \A y \in Issues : dep[<<i, y>>] \in WaitsFor => dep'[<<i, y>>] = dep[<<i, y>>]
          BY <1>1, <1>4, KindFacts
        <5>3. \A y \in Issues : (\E c \in Children(dep', y) : Active(c)')
                                  <=> (\E c \in Children(dep, y) : Active(c))
          BY <1>5, <5>1 DEF Children
        <5>4. \A y \in Issues : (\A c \in Children(dep', y) : status'[c] # "closed")
                                  <=> (\A c \in Children(dep, y) : status[c] # "closed")
          BY <1>1, <5>1
        <5>5. \A y \in Issues : dep'[<<i, y>>] \in WaitsFor <=> dep[<<i, y>>] \in WaitsFor
          BY <1>4
        <5> QED
          BY <5>2, <5>3, <5>4, <5>5 DEF HeldAtGate
      <4> QED
        BY <1>5, <4>1, <4>2, <4>3 DEF ShouldBeBlocked
    <3> QED
      BY <1>10, <3>1, <3>2
  <2>3. \A x \in Issues : ShouldBeBlocked(x)' = ShouldBeBlocked(x)
    BY <1>6, <2>1, <2>2
  <2>4. StaleFlags' = {}
    BY <1>1, <2>1, <2>3 DEF StaleFlags
  <2>5. E \ {i} \in SUBSET Issues /\ StaleFlags' \subseteq E \ {i}
    BY <1>3, <2>4
  <2>6. \A x \in Issues : isBlocked'[x] => ShouldBeBlocked(x)'
    BY <1>8, <2>1
  <2> QED
    BY <1>1, <1>2, <2>4, <2>5, <2>6, EditRuns
<1> QED
  BY <1>9, <1>10

LEMMA AddDependencyKeeps ==
    ASSUME Gaps = {}, BlockedTypeOK, LoopInv, NEW i, NEW j, NEW kind, AddDependency(i, j, kind)
    PROVE  BlockedTypeOK' /\ LoopInv' /\ RoundInv'
<1>1. /\ pc = "idle" /\ i \in Issues /\ j \in Issues /\ kind \in Kinds
      /\ UNCHANGED <<status, wisps>>
  BY MayRelateTypes DEF AddDependency
<1>2. CASE InsertDependency(i, j, kind)
  <2>1. CASE kind = "blocks"
    BY <1>1, <1>2, <2>1, InsertBlocksKeeps
  <2>2. CASE kind = "child"
    BY <1>1, <1>2, <2>2, InsertChildKeeps
  <2>3. CASE kind \in WaitsFor
    BY <1>1, <1>2, <2>3, InsertWaitKeeps
  <2> QED
    BY <1>1, <2>1, <2>2, <2>3, KindFacts
<1>3. CASE ReplaceMetadata(i, j, kind)
  <2>1. isBlocked' = isBlocked /\ UNCHANGED loopVars /\ status' = status /\ wisps' = wisps
    BY <1>1, <1>3 DEF ReplaceMetadata
  <2>2. dep' = dep
    BY <1>1, <1>3 DEF ReplaceMetadata, BlockedTypeOK, RowsOK
  <2>3. RowsOK' /\ StaleFlags' = {}
    BY <1>1, <2>1, <2>2, FlagsSame, IdleRight DEF BlockedTypeOK, RowsOK
  <2> QED
    BY <1>1, <2>1, <2>3, EditRests
<1> QED
  BY <1>2, <1>3 DEF AddDependency
\* Rows that go.  The deleted ids are rightly left out of the loop.
LEMMA RemovedRows ==
    ASSUME RowsOK, StaleFlags = {}, NEW S \in SUBSET Issues, RemoveRows(S)
    PROVE  LET E == AffectedByDeletion(S)
           IN  RowsOK' /\ E \in SUBSET Issues /\ StaleFlags' \subseteq E /\ SealedNext(E)
<1> DEFINE D == Doomed(S)
           E == AffectedByDeletion(S)
<1>1. /\ D \in SUBSET Issues /\ E = D \ S /\ S \subseteq D
      /\ \A p \in D, c \in Issues : dep[<<c, p>>] = "child" => c \in D
      /\ \A x \in Issues \ D, i \in S :
            /\ dep[<<x, i>>] \notin Kinds
            /\ \A j \in Issues : dep[<<x, j>>] \in WaitsFor => dep[<<i, j>>] # "child"
  <2>1. S \subseteq D
    BY DEF Doomed
  <2> QED
    BY <2>1, DeletionAffects
<1>2. /\ status' = [i \in Issues |-> IF i \in S THEN "absent" ELSE status[i]]
      /\ isBlocked' = [i \in Issues |-> isBlocked[i] /\ i \notin S]
      /\ dep' = [e \in Issues \X Issues |->
                    IF e[2] \in S \cap WispRows /\ e[1] \notin wisps
                    THEN "none" ELSE dep[e]]
      /\ wisps' = wisps
  BY DEF RemoveRows
<1> HIDE DEF D, E
<1>3. RowsOK'
  <2>1. status' \in [Issues -> Statuses \cup {"absent"}] /\ wisps' \in SUBSET Issues
    BY <1>2 DEF RowsOK
  <2>2. dep' \in [Issues \X Issues -> Kinds \cup {"none"}]
    BY <1>2 DEF RowsOK
  <2>3. isBlocked' \in [Issues -> BOOLEAN]
    BY <1>2 DEF RowsOK
  <2> QED
    BY <2>1, <2>2, <2>3 DEF RowsOK
<1>4. ASSUME NEW x \in Issues, NEW y \in Issues
      PROVE  /\ dep'[<<x, y>>] # "none" => dep'[<<x, y>>] = dep[<<x, y>>]
             /\ y \notin S => dep'[<<x, y>>] = dep[<<x, y>>]
  <2>1. dep'[<<x, y>>] = IF y \in S \cap WispRows /\ x \notin wisps THEN "none" ELSE dep[<<x, y>>]
    BY <1>2
  <2> QED
    BY <2>1
<1>5. \A x \in Issues \ S : status'[x] = status[x] /\ isBlocked'[x] = isBlocked[x]
  BY <1>2 DEF RowsOK
<1>6. ASSUME NEW x \in S PROVE ~Active(x)' /\ x \notin StaleFlags'
  <2>1. status'[x] = "absent" /\ isBlocked'[x] = FALSE
    BY <1>2
  <2>2. ~Active(x)'
    BY <2>1 DEF Active
  <2>3. ShouldBeBlocked(x)' = FALSE
    BY <2>2 DEF ShouldBeBlocked
  <2> QED
    BY <2>1, <2>2, <2>3 DEF StaleFlags
<1>7. ASSUME NEW x \in Issues \ D
      PROVE  isBlocked'[x] = isBlocked[x] /\ ShouldBeBlocked(x)' = ShouldBeBlocked(x)
  <2>1. \A y \in S : dep[<<x, y>>] = "none" /\ dep'[<<x, y>>] = "none"
    <3> SUFFICES ASSUME NEW y \in S PROVE dep[<<x, y>>] = "none" /\ dep'[<<x, y>>] = "none"
      OBVIOUS
    <3>1. dep[<<x, y>>] \notin Kinds /\ y \in Issues
      BY <1>1
    <3>2. dep[<<x, y>>] = "none"
      BY <3>1 DEF RowsOK
    <3> QED
      BY <1>4, <3>1, <3>2
  <2>2. \A y \in Issues : dep'[<<x, y>>] = dep[<<x, y>>]
    BY <1>4, <2>1
  <2>3. \A y \in Issues : dep[<<x, y>>] \in Kinds => y \notin S
    BY <2>1, KindFacts
  <2>4. x \notin S /\ Active(x)' = Active(x)
    BY <1>1, <1>5 DEF Active
  <2>5. \A y \in Issues : dep[<<x, y>>] = "blocks" => Active(y)' = Active(y)
    BY <1>5, <2>3, KindFacts DEF Active
  <2>6. \A y \in Issues : dep[<<x, y>>] = "child" => isBlocked'[y] = isBlocked[y]
    BY <1>5, <2>3, KindFacts
  <2>7. ASSUME NEW y \in Issues, dep[<<x, y>>] \in WaitsFor, NEW c \in Issues
        PROVE  /\ dep'[<<c, y>>] = "child" <=> dep[<<c, y>>] = "child"
               /\ dep[<<c, y>>] = "child" => status'[c] = status[c]
    <3>1. dep'[<<c, y>>] = dep[<<c, y>>]
      BY <1>4, <2>3, <2>7, KindFacts
    <3>2. dep[<<c, y>>] = "child" => c \notin S
      BY <1>1, <2>7
    <3> QED
      BY <1>5, <3>1, <3>2
  <2>8. ShouldBeBlocked(x)' = ShouldBeBlocked(x)
    BY <2>2, <2>4, <2>5, <2>6, <2>7, SameAround
  <2> QED
    BY <1>5, <2>4, <2>8
<1>8. StaleFlags' \subseteq D
  BY <1>1, <1>3, <1>7, RightStays
<1>9. E \in SUBSET Issues /\ StaleFlags' \subseteq E
  BY <1>1, <1>6, <1>8
<1>10. SealedNext(E)
  <2>1. ASSUME NEW x \in Issues \ E, ~(x \in S), NEW p \in E PROVE dep'[<<x, p>>] # "child"
    <3>1. x \in Issues \ D /\ p \in D /\ p \in Issues /\ p \notin S
      BY <1>1, <2>1
    <3>2. dep'[<<x, p>>] = dep[<<x, p>>]
      BY <1>4, <3>1
    <3> QED
      BY <1>1, <3>1, <3>2
  <2> QED
    BY <1>6, <2>1 DEF SealedNext
<1> QED
  BY <1>3, <1>9, <1>10 DEF E

LEMMA DeleteKeeps ==
    ASSUME BlockedTypeOK, LoopInv, NEW i \in Issues, Delete(i)
    PROVE  BlockedTypeOK' /\ LoopInv' /\ RoundInv'
<1> DEFINE E == AffectedByDeletion({i})
<1>1. pc = "idle" /\ StaleFlags = {} /\ RowsOK /\ RemoveRows({i}) /\ Run("recompute", E)
  BY IdleRight DEF Delete, Recompute, BlockedTypeOK
<1>2. RowsOK' /\ E \in SUBSET Issues /\ StaleFlags' \subseteq E /\ SealedNext(E)
  BY <1>1, RemovedRows
<1> HIDE DEF E
<1> QED
  BY <1>1, <1>2, EditRuns

\* A deletion of several rows that goes through recomputes nothing, and need not.
LEMMA RemoveUnlessAffectingKeeps ==
    ASSUME BlockedTypeOK, LoopInv, pc = "idle", NEW S \in SUBSET Issues, RemoveUnlessAffecting(S)
    PROVE  BlockedTypeOK' /\ LoopInv' /\ RoundInv'
<1>1. /\ StaleFlags = {} /\ RowsOK /\ RemoveRows(S)
      /\ AffectedByDeletion(S) = {} /\ UNCHANGED loopVars
  BY IdleRight DEF RemoveUnlessAffecting, BlockedTypeOK
<1>2. RowsOK' /\ StaleFlags' = {}
  BY <1>1, RemovedRows
<1> QED
  BY <1>1, <1>2, EditRests

\* What DeleteIssuesInTx removes, expanded or not.
LEMMA DeletedIssues ==
    ASSUME NEW ids \in SUBSET Issues, NEW cascade \in BOOLEAN, NEW force \in BOOLEAN,
           DeleteIssues(ids, cascade, force)
    PROVE  pc = "idle" /\ \E S \in SUBSET Issues : RemoveUnlessAffecting(S)
<1> DEFINE listed == ids \cap WispRows
           regular == ids \ listed
           expanded == IF cascade THEN AllDependents(regular) ELSE regular
<1>1. pc = "idle" /\ RemoveUnlessAffecting(listed \cup expanded)
  BY DEF DeleteIssues
<1>2. listed \cup expanded \in SUBSET Issues
  BY DEF AllDependents
<1> HIDE DEF listed, regular, expanded
<1> QED
  BY <1>1, <1>2

-------------------------------------------------------------------------------
(* Types, of any edits *)

LEMMA RunTypes ==
    ASSUME RowsOK', NEW m \in {"recompute", "mark"}, NEW S \in SUBSET Issues, Run(m, S)
    PROVE  BlockedTypeOK'
  BY DEF Run, BlockedTypeOK, Labels

LEMMA RestTypes ==
    ASSUME BlockedTypeOK, RowsOK', UNCHANGED loopVars
    PROVE  BlockedTypeOK'
  BY DEF BlockedTypeOK, loopVars

LEMMA LoopTypes ==
    ASSUME BlockedTypeOK, Loop
    PROVE  BlockedTypeOK'
<1>1. ASSUME NEW table, NEW here, NEW next \in Labels, Mark(table, here, next)
      PROVE  BlockedTypeOK'
  BY <1>1 DEF Mark, BlockedTypeOK, RowsOK
<1>2. ASSUME NEW table, NEW here, NEW next \in Labels, Unmark(table, here, next)
      PROVE  BlockedTypeOK'
  BY <1>2 DEF Unmark, BlockedTypeOK, RowsOK
<1>3. CASE MarkIssues
  <2>1. (IF mode = "mark" THEN "markWisps" ELSE "unmarkIssues") \in Labels
    BY DEF Labels
  <2> QED
    BY <1>1, <1>3, <2>1, Zenon DEF MarkIssues
<1>4. CASE UnmarkIssues
  <2>1. "markWisps" \in Labels
    BY DEF Labels
  <2> QED
    BY <1>2, <1>4, <2>1, Zenon DEF UnmarkIssues
<1>5. CASE MarkWisps
  <2>1. (IF mode = "mark" THEN "check" ELSE "unmarkWisps") \in Labels
    BY DEF Labels
  <2> QED
    BY <1>1, <1>5, <2>1, Zenon DEF MarkWisps
<1>6. CASE UnmarkWisps
  <2>1. "check" \in Labels
    BY DEF Labels
  <2> QED
    BY <1>2, <1>6, <2>1, Zenon DEF UnmarkWisps
<1>7. CASE EndRound
  BY <1>7 DEF EndRound, BlockedTypeOK, RowsOK, Labels
<1> QED
  BY <1>3, <1>4, <1>5, <1>6, <1>7 DEF Loop

LEMMA WriteRowTypes ==
    ASSUME RowsOK, NEW i \in Issues, NEW st \in Statuses, NEW isWisp, WriteRow(i, st, isWisp)
    PROVE  /\ status' \in [Issues -> Statuses \cup {"absent"}] /\ wisps' \in SUBSET Issues
           /\ isBlocked' \in [Issues -> BOOLEAN]
  BY DEF WriteRow, RowsOK

LEMMA RemoveRowsTypes ==
    ASSUME RowsOK, NEW S \in SUBSET Issues, RemoveRows(S)
    PROVE  RowsOK'
<1>1. status' \in [Issues -> Statuses \cup {"absent"}] /\ wisps' \in SUBSET Issues
  BY DEF RemoveRows, RowsOK
<1>2. dep' \in [Issues \X Issues -> Kinds \cup {"none"}]
  BY DEF RemoveRows, RowsOK
<1>3. isBlocked' \in [Issues -> BOOLEAN]
  BY DEF RemoveRows, RowsOK
<1> QED
  BY <1>1, <1>2, <1>3 DEF RowsOK

LEMMA EdgeTypes ==
    ASSUME BlockedTypeOK, NEW i, NEW j, NEW kind, AddDependency(i, j, kind)
    PROVE  BlockedTypeOK'
<1>1. /\ i \in Issues /\ j \in Issues /\ kind \in Kinds
      /\ status' = status /\ wisps' = wisps
  BY MayRelateTypes DEF AddDependency
<1>2. CASE InsertDependency(i, j, kind)
  <2> DEFINE S == AffectedByDepChange([dep EXCEPT ![<<i, j>>] = kind], i, j, kind)
  <2>1. S \in SUBSET Issues
    BY <1>1, DepAffects
  <2>2. dep' = [dep EXCEPT ![<<i, j>>] = kind]
    BY <1>2 DEF InsertDependency
  <2>3. CASE kind = "blocks"
    <3>1. /\ isBlocked' = [isBlocked EXCEPT ![i] = @ \/ (Active(i) /\ Active(j))]
          /\ Run("mark", S \ {i})
      BY <1>2, <2>3 DEF InsertDependency
    <3>2. RowsOK'
      BY <1>1, <2>2, <3>1 DEF BlockedTypeOK, RowsOK
    <3> QED
      BY <2>1, <3>1, <3>2, RunTypes
  <2>4. CASE kind # "blocks"
    <3>1. isBlocked' = isBlocked /\ \E m \in {"recompute", "mark"} : Run(m, S)
      BY <1>2, <2>4 DEF InsertDependency, Recompute
    <3>2. RowsOK'
      BY <1>1, <2>2, <3>1 DEF BlockedTypeOK, RowsOK
    <3> QED
      BY <2>1, <3>1, <3>2, RunTypes
  <2> QED
    BY <2>3, <2>4
<1>3. CASE ReplaceMetadata(i, j, kind)
  <2>1. RowsOK' /\ UNCHANGED loopVars
    BY <1>1, <1>3 DEF ReplaceMetadata, BlockedTypeOK, RowsOK
  <2> QED
    BY <2>1, RestTypes
<1> QED
  BY <1>2, <1>3 DEF AddDependency

LEMMA EditTypes ==
    ASSUME BlockedTypeOK, Edit
    PROVE  BlockedTypeOK'
<1>1. \A e \in MayRelate : e[1] \in Issues /\ e[2] \in Issues /\ e[3] \in Kinds
  BY MayRelateAssumption
<1>2. RowsOK
  BY DEF BlockedTypeOK
<1>3. \A i \in Issues : AffectedByStatusChange(i) \in SUBSET Issues
  BY StatusAffects
<1>4. ASSUME NEW i \in Issues, NEW st \in Statuses, Update(i, st) PROVE BlockedTypeOK'
  <2>1. RowsOK' /\ (Run("recompute", AffectedByStatusChange(i)) \/ UNCHANGED loopVars)
    BY <1>2, <1>4 DEF Update, Recompute, RowsOK
  <2> QED
    BY <1>3, <2>1, RunTypes, RestTypes
<1>5. ASSUME NEW i \in Issues, NEW st \in Statuses, NEW isWisp \in BOOLEAN, Create(i, st, isWisp)
      PROVE  BlockedTypeOK'
  <2>1. RowsOK' /\ Run("recompute", {i}) /\ {i} \in SUBSET Issues
    BY <1>2, <1>5, WriteRowTypes DEF Create, Recompute, RowsOK
  <2> QED
    BY <2>1, RunTypes
<1>6. ASSUME NEW e \in MayRelate, NEW st \in Statuses, NEW isWisp \in BOOLEAN,
             CreateWithEdge(e[1], st, isWisp, e[2], e[3])
      PROVE  BlockedTypeOK'
  <2> DEFINE kind == IF e[3] \in WaitsFor THEN "unset" ELSE e[3]
  <2>1. kind \in Kinds
    BY <1>1 DEF Kinds, WaitsFor
  <2>2. dep' = dep \/ dep' = [dep EXCEPT ![<<e[1], e[2]>>] = kind]
    BY <1>6 DEF CreateWithEdge
  <2>3. WriteRow(e[1], st, isWisp) /\ Run("recompute", {e[1]})
    BY <1>6 DEF CreateWithEdge, Recompute
  <2> HIDE DEF kind
  <2>4. dep' \in [Issues \X Issues -> Kinds \cup {"none"}]
    BY <1>2, <2>1, <2>2 DEF RowsOK
  <2>5. RowsOK' /\ {e[1]} \in SUBSET Issues
    BY <1>1, <1>2, <2>3, <2>4, WriteRowTypes DEF RowsOK
  <2> QED
    BY <2>3, <2>5, RunTypes
<1>7. ASSUME NEW i \in Issues, NEW j \in Issues, RemoveDependency(i, j) PROVE BlockedTypeOK'
  <2>1. RowsOK' /\ Run("recompute", AffectedByDepChange(dep', i, j, dep[<<i, j>>]))
    BY <1>2, <1>7 DEF RemoveDependency, Recompute, RowsOK
  <2>2. AffectedByDepChange(dep', i, j, dep[<<i, j>>]) \in SUBSET Issues
    BY DepAffects
  <2> QED
    BY <2>1, <2>2, RunTypes
<1>8. ASSUME NEW i \in Issues, Close(i) \/ Promote(i) PROVE BlockedTypeOK'
  <2>1. RowsOK' /\ Run("recompute", AffectedByStatusChange(i))
    BY <1>2, <1>8 DEF Close, Promote, Recompute, RowsOK, Statuses
  <2> QED
    BY <1>3, <2>1, RunTypes
<1>9. ASSUME NEW i \in Issues, Delete(i) PROVE BlockedTypeOK'
  <2>1. RowsOK' /\ Run("recompute", AffectedByDeletion({i})) /\ {i} \in SUBSET Issues
    BY <1>2, <1>9, RemoveRowsTypes DEF Delete, Recompute
  <2> QED
    BY <2>1, RunTypes, DeletionAffects
<1>10. ASSUME NEW S \in SUBSET Issues, RemoveUnlessAffecting(S) PROVE BlockedTypeOK'
  BY <1>2, <1>10, RemoveRowsTypes, RestTypes DEF RemoveUnlessAffecting
<1>11. ASSUME NEW ids \in SUBSET Issues, NEW cascade \in BOOLEAN, NEW force \in BOOLEAN,
              DeleteIssues(ids, cascade, force)
       PROVE  \E S \in SUBSET Issues : RemoveUnlessAffecting(S)
  BY <1>11, DeletedIssues
<1> QED
  BY <1>4, <1>5, <1>6, <1>7, <1>8, <1>9, <1>10, <1>11, EdgeTypes
     DEF Edit, DeleteIssuesBySourceRepo

-------------------------------------------------------------------------------
(* The specification *)

\* A database as created, and every step.
LEMMA InitKeeps ==
    ASSUME Init
    PROVE  BlockedTypeOK /\ LoopInv /\ RoundInv
<1>1. BlockedTypeOK
  BY DEF Init, BlockedTypeOK, RowsOK, Labels
<1>2. \A x \in Issues : isBlocked[x] = FALSE /\ ShouldBeBlocked(x) = FALSE
  BY DEF Init, ShouldBeBlocked, Active
<1>3. StaleFlags = {} /\ todo = {} /\ mode = "recompute" /\ pc = "idle"
  BY <1>2 DEF StaleFlags, Init
<1> QED
  BY <1>1, <1>3 DEF LoopInv, RoundInv

LEMMA EditKeeps ==
    ASSUME Gaps = {}, BlockedTypeOK, LoopInv, Edit
    PROVE  BlockedTypeOK' /\ LoopInv' /\ RoundInv'
<1>1. \A e \in MayRelate : e[1] \in Issues /\ e[2] \in Issues /\ e[3] \in Kinds
  BY MayRelateAssumption
<1>2. CASE \E i \in Issues, st \in Statuses : Update(i, st)
  BY <1>2, UpdateKeeps
<1>3. CASE \E i \in Issues, st \in Statuses, isWisp \in BOOLEAN : Create(i, st, isWisp)
  BY <1>3, CreateKeeps
<1>4. CASE \E e \in MayRelate : AddDependency(e[1], e[2], e[3])
  BY <1>4, AddDependencyKeeps
<1>5. CASE \E e \in MayRelate, st \in Statuses, isWisp \in BOOLEAN :
              CreateWithEdge(e[1], st, isWisp, e[2], e[3])
  <2>1. PICK e \in MayRelate, st \in Statuses, isWisp \in BOOLEAN :
            CreateWithEdge(e[1], st, isWisp, e[2], e[3])
    BY <1>5
  <2> QED
    BY <1>1, <2>1, CreateWithEdgeKeeps
<1>6. CASE \E i, j \in Issues : RemoveDependency(i, j)
  BY <1>6, RemoveDependencyKeeps
<1>7. CASE \E i \in Issues : Close(i) \/ Delete(i) \/ Promote(i)
  BY <1>7, CloseKeeps, DeleteKeeps, PromoteKeeps
<1>8. CASE \E ids \in SUBSET Issues : DeleteIssuesBySourceRepo(ids)
  BY <1>8, RemoveUnlessAffectingKeeps DEF DeleteIssuesBySourceRepo
<1>9. CASE \E ids \in SUBSET Issues, cascade, force \in BOOLEAN : DeleteIssues(ids, cascade, force)
  BY <1>9, DeletedIssues, RemoveUnlessAffectingKeeps
<1> QED
  BY <1>2, <1>3, <1>4, <1>5, <1>6, <1>7, <1>8, <1>9 DEF Edit

LEMMA SameTypes ==
    ASSUME BlockedTypeOK, UNCHANGED vars
    PROVE  BlockedTypeOK'
  BY DEF vars, BlockedTypeOK, RowsOK

LEMMA SameKeeps ==
    ASSUME BlockedTypeOK, LoopInv, RoundInv, UNCHANGED vars
    PROVE  BlockedTypeOK' /\ LoopInv' /\ RoundInv'
<1>1. /\ status' = status /\ wisps' = wisps /\ dep' = dep /\ isBlocked' = isBlocked
      /\ pc' = pc /\ mode' = mode /\ todo' = todo /\ changed' = changed
  BY DEF vars
<1>2. /\ StaleFlags' = StaleFlags /\ Unmarked' = Unmarked
      /\ \A x \in Issues : ShouldBeBlocked(x)' = ShouldBeBlocked(x)
  BY <1>1, FlagsSame
<1>3. Sealed(todo) => Sealed(todo)'
  BY <1>1, SealedStays
<1>4. LoopInv'
  BY <1>1, <1>2, <1>3 DEF LoopInv
<1>5. RoundInv'
  BY <1>1, <1>2 DEF RoundInv
<1> QED
  BY <1>4, <1>5, SameTypes

LEMMA NextKeeps ==
    ASSUME Gaps = {}, BlockedTypeOK, LoopInv, RoundInv, [Next]_vars
    PROVE  BlockedTypeOK' /\ LoopInv' /\ RoundInv'
<1>1. CASE UNCHANGED vars
  BY <1>1, SameKeeps
<1>2. CASE Loop
  BY <1>2, LoopKeeps
<1>3. CASE Edit
  BY <1>3, EditKeeps
<1> QED
  BY <1>1, <1>2, <1>3 DEF Next

\* The rows and the loop keep their types, whatever clients edit.
THEOREM BlockedTypes == Spec => []BlockedTypeOK
<1>1. Init => BlockedTypeOK
  BY InitKeeps
<1>2. BlockedTypeOK /\ [Next]_vars => BlockedTypeOK'
  BY SameTypes, LoopTypes, EditTypes DEF Next
<1> QED
  BY <1>1, <1>2, PTL DEF Spec

\* What is true of the loop as long as clients keep to the edits whose affected ids
\* the code computes.
LEMMA LoopInvariant ==
    ASSUME Gaps = {}
    PROVE  Spec => [](BlockedTypeOK /\ LoopInv /\ RoundInv)
<1>1. Init => BlockedTypeOK /\ LoopInv /\ RoundInv
  BY InitKeeps
<1>2. BlockedTypeOK /\ LoopInv /\ RoundInv /\ [Next]_vars => (BlockedTypeOK /\ LoopInv /\ RoundInv)'
  BY NextKeeps
<1> QED
  BY <1>1, <1>2, PTL DEF Spec

\* In every database between two transactions CountIsBlockedInconsistenciesInTx
\* counts 0, whatever the edges are, parent cycles among them, and in whatever
\* tables their ends: the ids that each edit computes are enough.
THEOREM FlagsRight ==
    ASSUME Gaps = {}
    PROVE  Spec => []IsBlockedConsistent
<1>1. LoopInv => IsBlockedConsistent
  BY DEF LoopInv, IsBlockedConsistent
<1> QED
  BY <1>1, LoopInvariant, PTL

-------------------------------------------------------------------------------
(* The graph *)

\* There is no way of blocking edges from i to j if some set closed under them
\* parts the two.
LEMMA PartedAndClosed ==
    ASSUME NEW i \in Issues, NEW j \in Issues
    PROVE  ~Reaches(i, j) <=>
               \E T \in SUBSET Issues :
                   /\ i \in T /\ j \notin T
                   /\ \A x \in T, y \in Issues : dep[<<x, y>>] = "blocks" => y \in T
  BY DEF Reaches, BlocksClosed

LEMMA PartedNext ==
    ASSUME NEW i \in Issues, NEW j \in Issues, NEW T \in SUBSET Issues, i \in T, j \notin T,
           \A x \in T, y \in Issues : dep'[<<x, y>>] = "blocks" => y \in T
    PROVE  ~Reaches(i, j)'
  BY DEF Reaches, BlocksClosed

\* A step that adds no edge, and one that adds an edge, checked, that clients add.
NoEdge == \A x, y \in Issues : dep'[<<x, y>>] \in {dep[<<x, y>>], "none"}

NewEdge ==
    \E i, j \in Issues, k, kind \in Kinds :
        /\ <<i, j, kind>> \in MayRelate /\ Acceptable(i, j, kind)
        /\ SameType(k, kind)
        /\ dep' = [dep EXCEPT ![<<i, j>>] = k]

LEMMA StepEdges ==
    ASSUME BlockedTypeOK, Next
    PROVE  NoEdge \/ NewEdge
<1>1. dep \in [Issues \X Issues -> Kinds \cup {"none"}]
  BY DEF BlockedTypeOK, RowsOK
<1>2. CASE dep' = dep
  BY <1>2 DEF NoEdge
<1>3. CASE Loop
  <2>1. dep' = dep
    BY <1>3 DEF Loop, MarkIssues, UnmarkIssues, MarkWisps, UnmarkWisps, Mark, Unmark, EndRound
  <2> QED
    BY <1>2, <2>1
<1>4. ASSUME NEW e \in MayRelate, AddDependency(e[1], e[2], e[3]) PROVE NewEdge
  <2>1. e[1] \in Issues /\ e[2] \in Issues /\ e[3] \in Kinds /\ <<e[1], e[2], e[3]>> = e
    BY MayRelateAssumption
  <2>2. Acceptable(e[1], e[2], e[3]) /\ dep' = [dep EXCEPT ![<<e[1], e[2]>>] = e[3]]
    BY <1>4 DEF AddDependency, InsertDependency, ReplaceMetadata
  <2>3. SameType(e[3], e[3]) /\ <<e[1], e[2], e[3]>> \in MayRelate
    BY <2>1 DEF SameType
  <2> QED
    BY <2>1, <2>2, <2>3 DEF NewEdge
<1>5. ASSUME NEW e \in MayRelate, NEW st \in Statuses, NEW isWisp \in BOOLEAN,
             CreateWithEdge(e[1], st, isWisp, e[2], e[3])
      PROVE  NoEdge \/ NewEdge
  <2> DEFINE k == IF e[3] \in WaitsFor THEN "unset" ELSE e[3]
  <2>1. e[1] \in Issues /\ e[2] \in Issues /\ e[3] \in Kinds /\ <<e[1], e[2], e[3]>> \in MayRelate
    BY MayRelateAssumption
  <2>2. k \in Kinds /\ SameType(k, e[3])
    BY <2>1 DEF Kinds, WaitsFor, SameType
  <2>3. /\ Acceptable(e[1], e[2], e[3])
        /\ dep' = dep \/ dep' = [dep EXCEPT ![<<e[1], e[2]>>] = k]
    BY <1>5 DEF CreateWithEdge
  <2> HIDE DEF k
  <2> QED
    BY <1>2, <2>1, <2>2, <2>3 DEF NewEdge
<1>6. ASSUME NEW i \in Issues, NEW j \in Issues, RemoveDependency(i, j) PROVE NoEdge
  BY <1>1, <1>6 DEF NoEdge, RemoveDependency
<1>7. ASSUME NEW S \in SUBSET Issues, RemoveRows(S) PROVE NoEdge
  BY <1>7 DEF NoEdge, RemoveRows
<1>8. CASE \/ \E i \in Issues, st \in Statuses : Update(i, st)
           \/ \E i \in Issues, st \in Statuses, isWisp \in BOOLEAN : Create(i, st, isWisp)
           \/ \E i \in Issues : Close(i) \/ Promote(i)
  <2>1. dep' = dep
    BY <1>8 DEF Update, Create, Close, Promote
  <2> QED
    BY <1>2, <2>1
<1>9. ASSUME NEW i \in Issues, Delete(i) PROVE NoEdge
  BY <1>7, <1>9 DEF Delete
<1>10. CASE \/ \E ids \in SUBSET Issues : DeleteIssuesBySourceRepo(ids)
            \/ \E ids \in SUBSET Issues, cascade, force \in BOOLEAN : DeleteIssues(ids, cascade, force)
  <2>1. PICK S \in SUBSET Issues : RemoveRows(S)
    BY <1>10, DeletedIssues DEF DeleteIssuesBySourceRepo, RemoveUnlessAffecting
  <2> QED
    BY <1>7, <2>1
<1> QED
  BY <1>3, <1>4, <1>5, <1>6, <1>8, <1>9, <1>10 DEF Next, Edit

\* Fewer blocking edges make no cycle.
LEMMA FewerEdges ==
    ASSUME NoBlockingCycle,
           \A x, y \in Issues : dep'[<<x, y>>] = "blocks" => dep[<<x, y>>] = "blocks"
    PROVE  NoBlockingCycle'
<1> SUFFICES ASSUME NEW i \in Issues, NEW j \in Issues, dep'[<<i, j>>] = "blocks"
             PROVE  ~Reaches(j, i)'
  BY DEF NoBlockingCycle
<1>1. PICK T \in SUBSET Issues :
          /\ j \in T /\ i \notin T
          /\ \A x \in T, y \in Issues : dep[<<x, y>>] = "blocks" => y \in T
  BY PartedAndClosed DEF NoBlockingCycle
<1> QED
  BY <1>1, PartedNext

\* Nor does an edge to an issue from which no way leads back.
LEMMA CheckedEdge ==
    ASSUME NoBlockingCycle, NEW i \in Issues, NEW j \in Issues, ~Reaches(j, i),
           \A x, y \in Issues :
               dep'[<<x, y>>] = "blocks" => dep[<<x, y>>] = "blocks" \/ (x = i /\ y = j)
    PROVE  NoBlockingCycle'
<1>1. PICK U \in SUBSET Issues :
          /\ j \in U /\ i \notin U
          /\ \A x \in U, y \in Issues : dep[<<x, y>>] = "blocks" => y \in U
  BY PartedAndClosed
<1> SUFFICES ASSUME NEW a \in Issues, NEW b \in Issues, dep'[<<a, b>>] = "blocks"
             PROVE  ~Reaches(b, a)'
  BY DEF NoBlockingCycle
<1>2. CASE a = i /\ b = j
  BY <1>1, <1>2, PartedNext
<1>3. CASE ~(a = i /\ b = j)
  <2>1. PICK T \in SUBSET Issues :
            /\ b \in T /\ a \notin T
            /\ \A x \in T, y \in Issues : dep[<<x, y>>] = "blocks" => y \in T
    BY <1>3, PartedAndClosed DEF NoBlockingCycle
  <2>2. CASE i \notin T
    BY <2>1, <2>2, PartedNext
  <2>3. CASE a \notin U
    <3>1. \A x \in T \cup U, y \in Issues : dep'[<<x, y>>] = "blocks" => y \in T \cup U
      BY <1>1, <2>1
    <3> QED
      BY <2>1, <2>3, <3>1, PartedNext
  <2>4. CASE a \in U
    <3>1. b \in U
      BY <1>1, <1>3, <2>4
    <3>2. \A x \in T \cap U, y \in Issues : dep'[<<x, y>>] = "blocks" => y \in T \cap U
      BY <1>1, <2>1
    <3> QED
      BY <2>1, <3>1, <3>2, PartedNext
  <2> QED
    BY <2>2, <2>3, <2>4
<1> QED
  BY <1>2, <1>3

\* The cycle check keeps the blocking edges acyclic, whatever is deleted and created
\* again between two insertions, and with whatever gaps.
THEOREM NeverACycle == Spec => []NoBlockingCycle
<1>1. Init => NoBlockingCycle
  BY DEF Init, NoBlockingCycle
<1>2. BlockedTypeOK /\ NoBlockingCycle /\ [Next]_vars => NoBlockingCycle'
  <2>1. ASSUME NoBlockingCycle, UNCHANGED vars PROVE NoBlockingCycle'
    BY <2>1, FewerEdges DEF vars
  <2>2. ASSUME NoBlockingCycle, NoEdge PROVE NoBlockingCycle'
    BY <2>2, FewerEdges DEF NoEdge
  <2>3. ASSUME BlockedTypeOK, NoBlockingCycle, NewEdge PROVE NoBlockingCycle'
    <3>1. PICK i \in Issues, j \in Issues, k \in Kinds, kind \in Kinds :
              /\ Acceptable(i, j, kind) /\ SameType(k, kind)
              /\ dep' = [dep EXCEPT ![<<i, j>>] = k]
      BY <2>3 DEF NewEdge
    <3>2. \A x, y \in Issues :
              dep'[<<x, y>>] = dep[<<x, y>>] \/ (x = i /\ y = j /\ dep'[<<x, y>>] = k)
      BY <2>3, <3>1 DEF BlockedTypeOK, RowsOK
    <3>3. CASE k # "blocks"
      BY <2>3, <3>2, <3>3, FewerEdges
    <3>4. CASE k = "blocks"
      <4>1. ~Reaches(j, i)
        BY <3>1, <3>4, KindFacts DEF Acceptable, SameType
      <4> QED
        BY <2>3, <3>2, <4>1, CheckedEdge
    <3> QED
      BY <3>3, <3>4
  <2> QED
    BY <2>1, <2>2, <2>3, StepEdges
<1> QED
  BY <1>1, <1>2, BlockedTypes, PTL DEF Spec

-------------------------------------------------------------------------------
(* Parents *)

\* What clients may ask of their children for a flag to have a cause: that parents
\* form no ring - every set of issues has one without a parent in it -, which no
\* check of the code prevents.
NoRingOfParents ==
    \A S \in SUBSET Issues :
        S # {} => \E i \in S : \A j \in S : <<i, j, "child">> \notin MayRelate

ParentsAsAdded ==
    \A i, j \in Issues : dep[<<i, j>>] = "child" => <<i, j, "child">> \in MayRelate

LEMMA ParentsStayAsAdded == Spec => []ParentsAsAdded
<1>1. Init => ParentsAsAdded
  BY DEF Init, ParentsAsAdded
<1>2. BlockedTypeOK /\ ParentsAsAdded /\ [Next]_vars => ParentsAsAdded'
  <2>1. ASSUME ParentsAsAdded, UNCHANGED vars PROVE ParentsAsAdded'
    BY <2>1 DEF vars, ParentsAsAdded
  <2>2. ASSUME ParentsAsAdded, NoEdge PROVE ParentsAsAdded'
    BY <2>2 DEF NoEdge, ParentsAsAdded
  <2>3. ASSUME BlockedTypeOK, ParentsAsAdded, NewEdge PROVE ParentsAsAdded'
    <3>1. PICK i \in Issues, j \in Issues, k \in Kinds, kind \in Kinds :
              /\ <<i, j, kind>> \in MayRelate /\ SameType(k, kind)
              /\ dep' = [dep EXCEPT ![<<i, j>>] = k]
      BY <2>3 DEF NewEdge
    <3>2. \A x, y \in Issues :
              dep'[<<x, y>>] = dep[<<x, y>>] \/ (x = i /\ y = j /\ dep'[<<x, y>>] = k)
      BY <2>3, <3>1 DEF BlockedTypeOK, RowsOK
    <3>3. k = "child" => kind = "child"
      BY KindFacts, <3>1 DEF SameType
    <3> QED
      BY <2>3, <3>1, <3>2, <3>3 DEF ParentsAsAdded
  <2> QED
    BY <2>1, <2>2, <2>3, StepEdges
<1> QED
  BY <1>1, <1>2, BlockedTypes, PTL DEF Spec

\* Whatever holds the flagged rows with an active blocker or at a gate, and with a
\* flagged parent its children, holds all flagged rows.
LEMMA FlagsHaveCauses ==
    ASSUME RowsOK, StaleFlags = {}, ParentsAsAdded, NoRingOfParents, NEW T \in SUBSET Issues,
           \A i \in Issues : isBlocked[i] /\ (ActiveBlocker(i) \/ HeldAtGate(i)) => i \in T,
           \A i \in Issues, j \in T : isBlocked[i] /\ dep[<<i, j>>] = "child" => i \in T
    PROVE  \A i \in Issues : isBlocked[i] => i \in T
<1> DEFINE X == {i \in Issues : isBlocked[i] /\ i \notin T}
<1> SUFFICES ASSUME X # {} PROVE FALSE
  OBVIOUS
<1>1. PICK i \in X : \A j \in X : <<i, j, "child">> \notin MayRelate
  BY DEF NoRingOfParents
<1>2. ShouldBeBlocked(i)
  BY <1>1, StaleRow
<1>3. PICK j \in Issues : dep[<<i, j>>] = "child" /\ isBlocked[j]
  BY <1>1, <1>2 DEF ShouldBeBlocked, BlockedParent
<1>4. j \in X
  BY <1>1, <1>3
<1> QED
  BY <1>1, <1>3, <1>4 DEF ParentsAsAdded

\* No family of issues keeps itself blocked: from each flagged issue parents lead to
\* one with an active blocker or an unsatisfied gate.
THEOREM FlagsWithReason ==
    ASSUME Gaps = {}, NoRingOfParents
    PROVE  Spec => []BlockedForAReason
<1>1. BlockedTypeOK /\ LoopInv /\ ParentsAsAdded => BlockedForAReason
  <2> SUFFICES ASSUME BlockedTypeOK, LoopInv, ParentsAsAdded, pc = "idle"
               PROVE  \A i \in Issues : isBlocked[i] =>
                         \E a \in Issues :
                             i \in Expand(dep, {a}) /\ (ActiveBlocker(a) \/ HeldAtGate(a))
    BY DEF BlockedForAReason
  <2> DEFINE T == {i \in Issues : \E a \in Issues :
                      i \in Expand(dep, {a}) /\ (ActiveBlocker(a) \/ HeldAtGate(a))}
  <2>1. RowsOK /\ StaleFlags = {}
    BY IdleRight DEF BlockedTypeOK
  <2>2. ASSUME NEW i \in Issues, ActiveBlocker(i) \/ HeldAtGate(i) PROVE i \in T
    <3>1. i \in Expand(dep, {i})
      BY ExpandCloses
    <3> QED
      BY <2>2, <3>1
  <2>3. ASSUME NEW i \in Issues, NEW j \in T, dep[<<i, j>>] = "child" PROVE i \in T
    <3>1. PICK a \in Issues : j \in Expand(dep, {a}) /\ (ActiveBlocker(a) \/ HeldAtGate(a))
      OBVIOUS
    <3>2. i \in Expand(dep, {a})
      BY <2>3, <3>1, ExpandCloses
    <3> QED
      BY <3>1, <3>2
  <2>4. T \in SUBSET Issues
    OBVIOUS
  <2>5. \A i \in Issues : isBlocked[i] => i \in T
    <3> HIDE DEF T
    <3> QED
      BY <2>1, <2>2, <2>3, <2>4, FlagsHaveCauses
  <2> QED
    BY <2>5
<1> QED
  BY <1>1, LoopInvariant, ParentsStayAsAdded, PTL

-------------------------------------------------------------------------------
(* Queries *)

\* Between transactions the flags are the least set that the graph allows.
LEMMA FlagsByDefinition ==
    ASSUME RowsOK, StaleFlags = {}, ParentsAsAdded, NoRingOfParents
    PROVE  BlockedByDefinition = {i \in Issues : isBlocked[i]}
<1> DEFINE B == {i \in Issues : isBlocked[i]}
<1>1. ClosedUnderBlocking(B)
  <2> SUFFICES ASSUME NEW i \in Issues, Active(i),
                      ActiveBlocker(i) \/ HeldAtGate(i) \/ Parents(i) \cap B # {}
               PROVE  isBlocked[i]
    BY DEF ClosedUnderBlocking
  <2>1. Parents(i) \cap B # {} => BlockedParent(i)
    BY DEF Parents, BlockedParent
  <2> QED
    BY <2>1, StaleRow DEF ShouldBeBlocked
<1>2. ASSUME NEW T \in SUBSET Issues, ClosedUnderBlocking(T) PROVE B \subseteq T
  <2>1. \A i \in Issues : isBlocked[i] => Active(i)
    BY StaleRow DEF ShouldBeBlocked
  <2>2. \A i \in Issues : isBlocked[i] /\ (ActiveBlocker(i) \/ HeldAtGate(i)) => i \in T
    BY <1>2, <2>1 DEF ClosedUnderBlocking
  <2>3. ASSUME NEW i \in Issues, NEW j \in T, isBlocked[i], dep[<<i, j>>] = "child" PROVE i \in T
    <3>1. j \in Parents(i) \cap T
      BY <2>3 DEF Parents
    <3> QED
      BY <1>2, <2>1, <2>3, <3>1 DEF ClosedUnderBlocking
  <2>4. \A i \in Issues : isBlocked[i] => i \in T
    BY <2>2, <2>3, FlagsHaveCauses
  <2> QED
    BY <2>4
<1> QED
  BY <1>1, <1>2 DEF BlockedByDefinition

\* Ready work by either query, and what the flags say.
LEMMA ReadyByFlags ==
    ASSUME RowsOK, NEW deferred \in SUBSET Issues
    PROVE  /\ ReadyWork(deferred, TRUE) =
                  {i \in Issues : Active(i) /\ ~isBlocked[i]} \ Deferred(deferred)
           /\ \A eph \in BOOLEAN : ReadyWorkWithCounts(deferred, eph) = ReadyWork(deferred, eph)
<1>1. wisps \in SUBSET Issues
  BY DEF RowsOK
<1>2. ReadyWork(deferred, TRUE) =
          {i \in Issues : Active(i) /\ ~isBlocked[i]} \ Deferred(deferred)
  BY <1>1 DEF ReadyWork, ReadyIssues, ReadyWisps
<1>3. \A i \in wisps : Active(i) => WispRows # {}
  BY DEF WispRows, Present, Active
<1>4. ReadyWorkWithCounts(deferred, TRUE) = ReadyWork(deferred, TRUE)
  BY <1>2, <1>3 DEF ReadyWorkWithCounts
<1>5. ReadyWorkWithCounts(deferred, FALSE) = ReadyWork(deferred, FALSE)
  BY DEF ReadyWorkWithCounts, ReadyWork, ReadyIssues
<1> QED
  BY <1>2, <1>4, <1>5

\* An issue that waits for the children of an epic and for nothing else.
LEMMA EligibleHoldsNobody ==
    ASSUME RowsOK, StaleFlags = {}, NEW e \in Issues, NEW i \in Issues, EligibleForClose(e),
           \A j \in Issues \ {e} : dep[<<i, j>>] = "none", dep[<<i, e>>] \in WaitsFor
    PROVE  ~isBlocked[i]
<1>1. "none" \notin WaitsFor /\ "blocks" \notin WaitsFor /\ "child" \notin WaitsFor
  BY KindFacts
<1>2. ~ActiveBlocker(i)
  BY <1>1 DEF ActiveBlocker
<1>3. ~BlockedParent(i)
  BY <1>1 DEF BlockedParent
<1>4. ~HeldAtGate(i)
  BY <1>1 DEF HeldAtGate, EligibleForClose, Active
<1> QED
  BY <1>2, <1>3, <1>4, StaleRow DEF ShouldBeBlocked

\* Progress is complete exactly when every step is closed.
LEMMA ProgressComplete ==
    ASSUME IsFiniteSet(Issues), NEW m \in Issues
    PROVE  NothingLeft(m) <=> \A c \in Steps(m) : status[c] = "closed"
<1> DEFINE Closed == {c \in Steps(m) : status[c] = "closed"}
<1>1. Steps(m) \in SUBSET Issues
  BY DEF Steps, Children
<1>2. IsFiniteSet(Steps(m))
  BY <1>1, FS_Subset
<1>3. Closed \in SUBSET Steps(m)
  OBVIOUS
<1>4. Cardinality(Steps(m)) = Cardinality(Closed) => Steps(m) = Closed
  BY <1>2, <1>3, FS_Subset
<1>5. NothingLeft(m) <=> Cardinality(Closed) = Cardinality(Steps(m))
  BY DEF NothingLeft, MoleculeProgress
<1>6. Closed = Steps(m) <=> \A c \in Steps(m) : status[c] = "closed"
  OBVIOUS
<1> HIDE DEF Closed
<1> QED
  BY <1>4, <1>5, <1>6

\* Ready work is exactly what the graph, read from nothing, leaves free, by either
\* query, and an epic that is offered for closure holds up nobody.
THEOREM FreeWork ==
    ASSUME Gaps = {}, NoRingOfParents, IsFiniteSet(Issues)
    PROVE  Spec => []FreeWorkIsFree
<1>1. BlockedTypeOK /\ LoopInv /\ ParentsAsAdded => FreeWorkIsFree
  <2> SUFFICES ASSUME BlockedTypeOK, LoopInv, ParentsAsAdded, pc = "idle" PROVE FreeWorkIsFree
    BY DEF FreeWorkIsFree, ReadyIsUnblocked, EligibleEpicHoldsNobody
  <2>1. RowsOK /\ StaleFlags = {}
    BY IdleRight DEF BlockedTypeOK
  <2>2. BlockedByDefinition = {i \in Issues : isBlocked[i]}
    BY <2>1, FlagsByDefinition
  <2>3. ReadyIsUnblocked
    <3> SUFFICES ASSUME NEW deferred \in SUBSET Issues
                 PROVE  /\ ReadyWork(deferred, TRUE) =
                               {i \in Issues : Active(i)}
                                   \ (BlockedByDefinition \cup Deferred(deferred))
                        /\ \A eph \in BOOLEAN :
                               ReadyWorkWithCounts(deferred, eph) = ReadyWork(deferred, eph)
      BY Zenon DEF ReadyIsUnblocked
    <3>1. {i \in Issues : Active(i) /\ ~isBlocked[i]} \ Deferred(deferred)
            = {i \in Issues : Active(i)} \ ({i \in Issues : isBlocked[i]} \cup Deferred(deferred))
      OBVIOUS
    <3> QED
      BY <2>1, <2>2, <3>1, ReadyByFlags
  <2>4. \A e, i \in Issues :
            /\ EligibleForClose(e) /\ dep[<<i, e>>] \in WaitsFor
            /\ \A j \in Issues \ {e} : dep[<<i, j>>] = "none"
            => ~isBlocked[i]
    BY <2>1, EligibleHoldsNobody
  <2>5. \A e \in Issues : EligibleForClose(e) => NothingLeft(e)
    <3>1. \A e \in Issues : EligibleForClose(e) => \A c \in Steps(e) : status[c] = "closed"
      BY DEF EligibleForClose, Steps
    <3> QED
      BY <3>1, ProgressComplete
  <2>6. ASSUME NEW e \in Issues \ wisps, Active(e), NothingLeft(e), Steps(e) = Children(dep, e),
               Steps(e) # {}
        PROVE  EligibleForClose(e)
    <3>1. \A c \in Steps(e) : status[c] = "closed"
      BY <2>6, ProgressComplete
    <3> QED
      BY <2>6, <3>1 DEF EligibleForClose, Active, Present
  <2> QED
    BY <2>3, <2>4, <2>5, <2>6 DEF FreeWorkIsFree, EligibleEpicHoldsNobody
<1> QED
  BY <1>1, LoopInvariant, ParentsStayAsAdded, PTL

\* What clients may ask of their children for a blocked row to be listed under what
\* blocks it: one parent each.
OneParent ==
    \A e, f \in MayRelate : e[3] = "child" /\ f[3] = "child" /\ e[1] = f[1] => e[2] = f[2]

\* A blocked row is listed, unless a gate holds it.
LEMMA BlockedRowsListed ==
    ASSUME RowsOK, StaleFlags = {}, NEW i \in Issues, isBlocked[i], ~HeldAtGate(i)
    PROVE  \E j \in Issues : <<i, j>> \in BlockedList
<1>1. Active(i) /\ (ActiveBlocker(i) \/ BlockedParent(i))
  BY StaleRow DEF ShouldBeBlocked
<1>2. CASE NamedBlockers(i) # {}
  <2>1. PICK j \in NamedBlockers(i) : TRUE
    BY <1>2
  <2>2. j \in Issues
    BY DEF NamedBlockers
  <2> QED
    BY <1>1, <2>1, <2>2 DEF BlockedList
<1>3. CASE NamedBlockers(i) = {}
  <2>1. ~ActiveBlocker(i)
    BY <1>3 DEF ActiveBlocker, NamedBlockers
  <2>2. PICK j \in Issues : j \in Parents(i)
    BY <1>1, <2>1 DEF BlockedParent, Parents
  <2> QED
    BY <1>1, <1>3, <2>2 DEF BlockedList
<1> QED
  BY <1>2, <1>3

\* Under an active issue.
LEMMA ListedUnderActive ==
    ASSUME RowsOK, StaleFlags = {}, ParentsAsAdded, OneParent, NEW e \in BlockedList
    PROVE  Active(e[2]) \/ HeldAtGate(e[1])
<1>1. /\ e[1] \in Issues /\ e[2] \in Issues /\ isBlocked[e[1]]
      /\ \/ e[2] \in NamedBlockers(e[1])
         \/ NamedBlockers(e[1]) = {} /\ e[2] \in Parents(e[1])
  BY DEF BlockedList
<1>2. CASE e[2] \in NamedBlockers(e[1])
  BY <1>2 DEF NamedBlockers
<1>3. CASE NamedBlockers(e[1]) = {} /\ e[2] \in Parents(e[1])
  <2>1. ~ActiveBlocker(e[1])
    BY <1>3 DEF ActiveBlocker, NamedBlockers
  <2>2. BlockedParent(e[1]) \/ HeldAtGate(e[1])
    BY <1>1, <2>1, StaleRow DEF ShouldBeBlocked
  <2>3. ASSUME BlockedParent(e[1]) PROVE Active(e[2])
    <3>1. PICK j \in Issues : dep[<<e[1], j>>] = "child" /\ isBlocked[j]
      BY <2>3 DEF BlockedParent
    <3>2. /\ <<e[1], j, "child">> \in MayRelate
          /\ <<e[1], e[2], "child">> \in MayRelate
      BY <1>1, <1>3, <3>1 DEF ParentsAsAdded, Parents
    <3>3. j = e[2]
      BY <3>2 DEF OneParent
    <3> QED
      BY <3>1, <3>3, StaleRow DEF ShouldBeBlocked
  <2> QED
    BY <2>2, <2>3
<1> QED
  BY <1>1, <1>2, <1>3

\* A row without an active blocker, a parent and a gate can be started.
LEMMA FreedIsReady ==
    ASSUME RowsOK, StaleFlags = {}, NEW k \in Issues, NEW i \in NewlyUnblockedByClose(k),
           ~Active(k), \A j \in Issues : dep[<<i, j>>] \in {"none", "blocks"}
    PROVE  i \in ReadyWork({}, TRUE)
<1>1. i \in Issues /\ Active(i) /\ ~ActiveBlocker(i)
  BY DEF NewlyUnblockedByClose, ActiveBlocker
<1>2. \A j \in Issues : dep[<<i, j>>] # "child" /\ dep[<<i, j>>] \notin WaitsFor
  BY KindFacts
<1>3. ~BlockedParent(i) /\ ~HeldAtGate(i)
  BY <1>2 DEF BlockedParent, HeldAtGate
<1>4. ~isBlocked[i]
  BY <1>1, <1>3, StaleRow DEF ShouldBeBlocked
<1>5. Deferred({}) = {}
  BY DEF Deferred, ChildrenOfDeferred
<1>6. {} \in SUBSET Issues
  OBVIOUS
<1> QED
  BY <1>1, <1>4, <1>5, <1>6, ReadyByFlags

\* Whoever is blocked is listed under an active issue, unless a gate holds it, and
\* what a closing announces as unblocked can be started.
THEOREM BlockedExplained ==
    ASSUME Gaps = {}, OneParent
    PROVE  Spec => []BlockedWorkExplained
<1>1. BlockedTypeOK /\ LoopInv /\ ParentsAsAdded => BlockedWorkExplained
  <2> SUFFICES ASSUME BlockedTypeOK, LoopInv, ParentsAsAdded, pc = "idle"
               PROVE  BlockedWorkExplained
    BY DEF BlockedWorkExplained, BlockedAreListed, UnblockedAreReady
  <2>1. RowsOK /\ StaleFlags = {}
    BY IdleRight DEF BlockedTypeOK
  <2>2. BlockedAreListed
    BY <2>1, BlockedRowsListed, ListedUnderActive DEF BlockedAreListed
  <2>3. UnblockedAreReady
    BY <2>1, FreedIsReady DEF UnblockedAreReady
  <2> QED
    BY <2>2, <2>3 DEF BlockedWorkExplained
<1> QED
  BY <1>1, LoopInvariant, ParentsStayAsAdded, PTL

\* The queries that show edges agree, from either end and with the counts.
THEOREM DirectionsAlwaysAgree ==
    ASSUME IsFiniteSet(Issues)
    PROVE  Spec => []DirectionsAgree
<1>1. BlockedTypeOK => DirectionsAgree
  <2> SUFFICES ASSUME BlockedTypeOK, NEW i \in Issues, NEW j \in Issues, Present(i)
               PROVE  /\ j \in BlockedBy(i) <=> i \in Blocks(j)
                      /\ dep[<<i, j>>] = "blocks" /\ Active(j) => j \in BlockedBy(i)
                      /\ j \in Records(i) <=> <<i, j>> \in AllRecords
                      /\ Present(j) => (j \in Dependencies(i) <=> i \in PresentDependents(j))
                      /\ DependencyCount(i) = DepCount(i)
                      /\ DependencyCount(i) >= Cardinality(BlockedBy(i))
                      /\ RdepCount(j) >= Cardinality(Blocks(j))
                      /\ WispRows # {} => DependentCount(j) = RdepCount(j)
    BY DEF DirectionsAgree
  <2> DEFINE Out == {y \in Issues : dep[<<i, y>>] = "blocks"}
             In == {x \in Issues : dep[<<x, j>>] = "blocks"}
  <2>1. j \in BlockedBy(i) <=> i \in Blocks(j)
    BY DEF BlockedBy, Blocks
  <2>2. dep[<<i, j>>] = "blocks" /\ Active(j) => j \in BlockedBy(i)
    BY DEF BlockedBy, Active, NotClosed
  <2>3. j \in Records(i) <=> <<i, j>> \in AllRecords
    BY DEF Records, AllRecords
  <2>4. Present(j) => (j \in Dependencies(i) <=> i \in PresentDependents(j))
    BY DEF Dependencies, PresentDependents
  <2>5. Counted(i)
    BY DEF Counted, WispRows
  <2>6. DependencyCount(i) = Cardinality(Out) /\ DepCount(i) = Cardinality(Out)
    BY <2>5 DEF DependencyCount, DepCount
  <2>7. BlockedBy(i) \in SUBSET Out /\ Blocks(j) \in SUBSET In
    BY DEF BlockedBy, Blocks
  <2>8. RdepCount(j) = Cardinality(In) /\ (WispRows # {} => DependentCount(j) = Cardinality(In))
    BY DEF RdepCount, DependentCount, Counted
  <2>9. IsFiniteSet(Out) /\ IsFiniteSet(In)
    <3>1. Out \in SUBSET Issues /\ In \in SUBSET Issues
      OBVIOUS
    <3> HIDE DEF Out, In
    <3> QED
      BY <3>1, FS_Subset
  <2> HIDE DEF Out, In
  <2>10. /\ Cardinality(BlockedBy(i)) <= Cardinality(Out)
         /\ Cardinality(Blocks(j)) <= Cardinality(In)
    BY <2>7, <2>9, FS_Subset
  <2>11. /\ Cardinality(BlockedBy(i)) \in Nat /\ Cardinality(Out) \in Nat
         /\ Cardinality(Blocks(j)) \in Nat /\ Cardinality(In) \in Nat
    BY <2>7, <2>9, FS_Subset, FS_CardinalityType
  <2>12. /\ DependencyCount(i) >= Cardinality(BlockedBy(i))
         /\ RdepCount(j) >= Cardinality(Blocks(j))
    BY <2>6, <2>8, <2>10, <2>11
  <2> QED
    BY <2>1, <2>2, <2>3, <2>4, <2>6, <2>8, <2>12
<1> QED
  BY <1>1, BlockedTypes, PTL

-------------------------------------------------------------------------------
(* The pass after a merge *)

\* The rows of a commit, and those whose flags are right.
TypedRows(r) ==
    /\ r.status \in [Issues -> Statuses \cup {"absent"}]
    /\ r.dep \in [Issues \X Issues -> Kinds \cup {"none"}]
    /\ r.isBlocked \in [Issues -> BOOLEAN]

HeldIn(r, i) ==
    \E j \in Issues :
        /\ r.dep[<<i, j>>] \in WaitsFor
        /\ \E c \in Issues : r.dep[<<c, j>>] = "child" /\ r.status[c] = "open"
        /\ \/ r.dep[<<i, j>>] = "all"
           \/ \A c \in Issues : r.dep[<<c, j>>] = "child" => r.status[c] # "closed"

BlockedIn(r, i) ==
    /\ r.status[i] = "open"
    /\ \/ \E j \in Issues : r.dep[<<i, j>>] = "blocks" /\ r.status[j] = "open"
       \/ \E j \in Issues : r.dep[<<i, j>>] = "child" /\ r.isBlocked[j]
       \/ HeldIn(r, i)

RightRows(r) == TypedRows(r) /\ \A i \in Issues : r.isBlocked[i] <=> BlockedIn(r, i)

\* Before the merge each clone is as BlockedState says; after it, flags were right in
\* the rows that the pass takes its diff from, whatever was edited since.
MergeInv ==
    /\ BlockedTypeOK /\ phase \in Phases
    /\ phase \in {"base", "theirs", "ours"} => LoopInv /\ RoundInv /\ pending = NoRows
    /\ phase \in {"theirs", "ours"} => RightRows(base)
    /\ phase = "ours" => TypedRows(theirs)
    /\ phase = "merged" => pc = "idle" /\ RightRows(From)
    /\ phase = "stale" => RightRows(pending)
    /\ phase \in {"recompute", "repair"} => LoopInv /\ RoundInv
    /\ phase = "settled" => StaleFlags = {}

\* The flags of a database are right when those of its rows are.
LEMMA BlockedInRows ==
    ASSUME NEW i \in Issues
    PROVE  BlockedIn(Rows, i) <=> ShouldBeBlocked(i)
<1>1. /\ Rows.status = status /\ Rows.dep = dep /\ Rows.isBlocked = isBlocked
  BY DEF Rows
<1>2. HeldIn(Rows, i) <=> HeldAtGate(i)
  BY <1>1 DEF HeldIn, HeldAtGate, Children, Active
<1>3. (\E j \in Issues : Rows.dep[<<i, j>>] = "blocks" /\ Rows.status[j] = "open")
        <=> ActiveBlocker(i)
  BY <1>1 DEF ActiveBlocker, Active
<1>4. (\E j \in Issues : Rows.dep[<<i, j>>] = "child" /\ Rows.isBlocked[j]) <=> BlockedParent(i)
  BY <1>1 DEF BlockedParent
<1> QED
  BY <1>1, <1>2, <1>3, <1>4 DEF BlockedIn, ShouldBeBlocked, Active

LEMMA RightWhenIdle ==
    ASSUME RowsOK
    PROVE  /\ TypedRows(Rows)
           /\ StaleFlags = {} <=> RightRows(Rows)
<1>1. TypedRows(Rows) /\ Rows.isBlocked = isBlocked
  BY DEF RowsOK, TypedRows, Rows
<1>2. \A i \in Issues : i \notin StaleFlags <=> (Rows.isBlocked[i] <=> BlockedIn(Rows, i))
  BY <1>1, StaleRow, BlockedInRows
<1>3. StaleFlags \subseteq Issues
  BY DEF StaleFlags
<1> HIDE DEF Rows
<1> QED
  BY <1>1, <1>2, <1>3 DEF RightRows

\* changedIssueIDs and changedDependencyEdges seed all that a merge may have made stale.
LEMMA MergeCovers ==
    ASSUME RowsOK, NEW from, RightRows(from)
    PROVE  LET A == MergeAffected(from)
           IN  A \in SUBSET Issues /\ StaleFlags \subseteq A /\ Sealed(A)
<1> DEFINE A == MergeAffected(from)
           Edited == {e \in ChangedEdges(from) : e[3] # "none"}
           OfRows == UNION {AffectedByStatusChange(i) : i \in ChangedIssues(from)}
           OfEdges == UNION {AffectedByDepChange(dep, e[1], e[2], e[3]) : e \in Edited}
<1>1. A = OfRows \cup OfEdges
  BY DEF MergeAffected
<1>2. ChangedIssues(from) \in SUBSET Issues
  BY DEF ChangedIssues
<1>3. \A e \in Edited : e[1] \in Issues /\ e[2] \in Issues
  BY DEF ChangedEdges
<1>4. ASSUME NEW x \in Issues, NEW y \in Issues, dep[<<x, y>>] # from.dep[<<x, y>>],
             NEW kind \in {dep[<<x, y>>], from.dep[<<x, y>>]}, kind # "none"
      PROVE  AffectedByDepChange(dep, x, y, kind) \subseteq A
  <2>1. <<x, y>> \in {e \in Issues \X Issues : dep[e] # from.dep[e]}
    BY <1>4
  <2>2. <<x, y, kind>> \in {<<x, y, from.dep[<<x, y>>]>>, <<x, y, dep[<<x, y>>]>>}
    OBVIOUS
  <2>3. <<x, y, kind>> \in ChangedEdges(from)
    BY <2>1, <2>2 DEF ChangedEdges
  <2> DEFINE e == <<x, y, kind>>
  <2>4. e \in Edited /\ e[1] = x /\ e[2] = y /\ e[3] = kind
    BY <1>4, <2>3
  <2> HIDE DEF e, Edited
  <2> QED
    BY <1>1, <2>4
<1>5. /\ A \in SUBSET Issues
      /\ \A p \in A, c \in Issues : dep[<<c, p>>] = "child" => c \in A
  <2> SUFFICES ASSUME NEW p \in A
               PROVE  p \in Issues /\ \A c \in Issues : dep[<<c, p>>] = "child" => c \in A
    OBVIOUS
  <2> HIDE DEF Edited
  <2>1. CASE p \in OfRows
    <3>1. PICK i \in ChangedIssues(from) : p \in AffectedByStatusChange(i)
      BY <2>1
    <3>2. AffectedByStatusChange(i) \subseteq A
      BY <1>1
    <3> HIDE DEF A
    <3> QED
      BY <1>2, <3>1, <3>2, StatusAffects
  <2>2. CASE p \in OfEdges
    <3>1. PICK e \in Edited : p \in AffectedByDepChange(dep, e[1], e[2], e[3])
      BY <2>2
    <3>2. AffectedByDepChange(dep, e[1], e[2], e[3]) \subseteq A
      BY <1>1
    <3> HIDE DEF A
    <3> QED
      BY <1>3, <3>1, <3>2, DepAffects
  <2> QED
    BY <1>1, <2>1, <2>2
<1>6. \A i \in ChangedIssues(from) : AffectedByStatusChange(i) \subseteq A
  BY <1>1
<1> HIDE DEF A, OfRows, OfEdges, Edited
<1>7. ASSUME NEW x \in Issues \ A
      PROVE  isBlocked[x] = from.isBlocked[x] /\ (ShouldBeBlocked(x) <=> BlockedIn(from, x))
  <2>1. \A i \in ChangedIssues(from) : x # i
    BY <1>2, <1>6, StatusAffects
  <2>2. status[x] = from.status[x] /\ isBlocked[x] = from.isBlocked[x]
    BY <2>1 DEF ChangedIssues
  <2>3. \A i \in Issues \ ChangedIssues(from) :
            status[i] = from.status[i] /\ isBlocked[i] = from.isBlocked[i]
    BY DEF ChangedIssues
  <2>4. \A y \in Issues : dep[<<x, y>>] = from.dep[<<x, y>>]
    <3> SUFFICES ASSUME NEW y \in Issues, dep[<<x, y>>] # from.dep[<<x, y>>] PROVE FALSE
      OBVIOUS
    <3>1. PICK kind \in {dep[<<x, y>>], from.dep[<<x, y>>]} : kind # "none"
      OBVIOUS
    <3>2. x \in AffectedByDepChange(dep, x, y, kind)
      BY DepAffects
    <3> QED
      BY <1>4, <3>1, <3>2
  <2>5. \A y \in Issues : dep[<<x, y>>] = "blocks" => status[y] = from.status[y]
    <3> SUFFICES ASSUME NEW y \in ChangedIssues(from), dep[<<x, y>>] = "blocks" PROVE FALSE
      BY <2>3
    <3> QED
      BY <1>2, <1>6, StatusAffects
  <2>6. \A y \in Issues : dep[<<x, y>>] = "child" => isBlocked[y] = from.isBlocked[y]
    <3> SUFFICES ASSUME NEW y \in ChangedIssues(from), dep[<<x, y>>] = "child" PROVE FALSE
      BY <2>3
    <3>1. y \in A
      BY <1>2, <1>6, StatusAffects
    <3> QED
      BY <1>5, <3>1
  <2>7. ASSUME NEW y \in Issues, dep[<<x, y>>] \in WaitsFor, NEW c \in Issues
        PROVE  /\ dep[<<c, y>>] = "child" <=> from.dep[<<c, y>>] = "child"
               /\ dep[<<c, y>>] = "child" => status[c] = from.status[c]
    <3>1. ASSUME dep[<<c, y>>] # from.dep[<<c, y>>],
                 "child" \in {dep[<<c, y>>], from.dep[<<c, y>>]}
          PROVE  FALSE
      <4>1. AffectedByDepChange(dep, c, y, "child") \subseteq A
        BY <1>4, <3>1
      <4>2. x \in AffectedByDepChange(dep, c, y, "child")
        BY <2>7, DepAffects
      <4> QED
        BY <4>1, <4>2
    <3>2. ASSUME dep[<<c, y>>] = "child", c \in ChangedIssues(from) PROVE FALSE
      <4>1. x \in AffectedByStatusChange(c)
        BY <2>7, <3>2, StatusAffects
      <4> QED
        BY <1>6, <3>2, <4>1
    <3> QED
      BY <2>3, <3>1, <3>2
  <2>8. ActiveBlocker(x) <=> \E j \in Issues : from.dep[<<x, j>>] = "blocks" /\ from.status[j] = "open"
    BY <2>4, <2>5 DEF ActiveBlocker, Active
  <2>9. BlockedParent(x) <=> \E j \in Issues : from.dep[<<x, j>>] = "child" /\ from.isBlocked[j]
    BY <2>4, <2>6 DEF BlockedParent
  <2>10. ASSUME NEW y \in Issues, dep[<<x, y>>] \in WaitsFor
         PROVE  /\ (\E c \in Children(dep, y) : Active(c))
                     <=> \E c \in Issues : from.dep[<<c, y>>] = "child" /\ from.status[c] = "open"
                /\ (\A c \in Children(dep, y) : status[c] # "closed")
                     <=> \A c \in Issues :
                             from.dep[<<c, y>>] = "child" => from.status[c] # "closed"
    BY <2>7, <2>10 DEF Children, Active
  <2>11. HeldAtGate(x) <=> HeldIn(from, x)
    BY <2>4, <2>10 DEF HeldAtGate, HeldIn
  <2> QED
    BY <2>2, <2>8, <2>9, <2>11 DEF ShouldBeBlocked, BlockedIn, Active
<1>8. StaleFlags \subseteq A
  <2>1. \A x \in Issues \ A : isBlocked[x] <=> ShouldBeBlocked(x)
    BY <1>7 DEF RightRows
  <2> QED
    BY <2>1, StaleRow DEF StaleFlags
<1>9. Sealed(A)
  BY <1>5 DEF Sealed
<1> QED
  BY <1>5, <1>8, <1>9 DEF A

\* Where there is a marker there are rows, or else no issues at all.
LEMMA NoRowsRight ==
    ASSUME RightRows(NoRows), RowsOK
    PROVE  RightRows(Rows)
<1>1. NoRows.status = << >> /\ NoRows.status \in [Issues -> Statuses \cup {"absent"}]
  BY DEF RightRows, TypedRows, NoRows
<1>2. Issues = {}
  <2>1. DOMAIN NoRows.status = Issues
    BY <1>1
  <2>2. DOMAIN NoRows.status = {}
    BY <1>1
  <2> QED
    BY <2>1, <2>2
<1> QED
  BY <1>2, RightWhenIdle DEF RightRows

\* A clone's own writes.
LEMMA WriteKeeps ==
    ASSUME Gaps = {}, MergeInv, Write
    PROVE  MergeInv'
<1>1. /\ phase' = phase /\ base' = base /\ theirs' = theirs /\ before' = before
      /\ pending' = pending /\ (Loop \/ Edit) /\ BlockedTypeOK
      /\ phase \in {"base", "theirs", "ours", "stale"}
  BY DEF Write, MergeInv
<1>2. BlockedTypeOK'
  BY <1>1, LoopTypes, EditTypes
<1>3. ASSUME phase # "stale" PROVE LoopInv' /\ RoundInv'
  BY <1>1, <1>3, LoopKeeps, EditKeeps DEF MergeInv
<1> QED
  BY <1>1, <1>2, <1>3 DEF MergeInv, Phases

LEMMA ForkKeeps ==
    ASSUME MergeInv, Fork
    PROVE  MergeInv'
<1>1. /\ phase = "base" /\ pc = "idle" /\ phase' = "theirs" /\ base' = Rows /\ pending' = pending
      /\ UNCHANGED vars
  BY DEF Fork
<1>2. BlockedTypeOK /\ LoopInv /\ RoundInv /\ pending = NoRows
  BY <1>1 DEF MergeInv
<1>3. RightRows(base')
  BY <1>1, <1>2, IdleRight, RightWhenIdle DEF BlockedTypeOK
<1>4. BlockedTypeOK' /\ LoopInv' /\ RoundInv'
  BY <1>1, <1>2, SameKeeps
<1> QED
  BY <1>1, <1>2, <1>3, <1>4 DEF MergeInv, Phases

\* The other clone starts from rows whose flags are right.
LEMMA TurnKeeps ==
    ASSUME MergeInv, Turn
    PROVE  MergeInv'
<1>1. /\ phase = "theirs" /\ pc = "idle" /\ phase' = "ours" /\ theirs' = Rows
      /\ status' = base.status /\ dep' = base.dep /\ isBlocked' = base.isBlocked
      /\ wisps' = wisps /\ UNCHANGED loopVars /\ base' = base /\ pending' = pending
  BY DEF Turn
<1>2. BlockedTypeOK /\ LoopInv /\ RoundInv /\ pending = NoRows /\ RightRows(base)
  BY <1>1 DEF MergeInv
<1>3. RowsOK'
  BY <1>1, <1>2 DEF RightRows, TypedRows, RowsOK, BlockedTypeOK
<1>4. TypedRows(theirs')
  BY <1>1, <1>2, RightWhenIdle DEF BlockedTypeOK
<1>5. StaleFlags' = {}
  <2>1. ASSUME NEW x \in Issues PROVE BlockedIn(base, x) <=> ShouldBeBlocked(x)'
    <3>1. HeldIn(base, x) <=> HeldAtGate(x)'
      BY <1>1 DEF HeldIn, HeldAtGate, Children, Active
    <3>2. (\E j \in Issues : base.dep[<<x, j>>] = "blocks" /\ base.status[j] = "open")
            <=> ActiveBlocker(x)'
      BY <1>1 DEF ActiveBlocker, Active
    <3>3. (\E j \in Issues : base.dep[<<x, j>>] = "child" /\ base.isBlocked[j])
            <=> BlockedParent(x)'
      BY <1>1 DEF BlockedParent
    <3>4. base.status[x] = "open" <=> Active(x)'
      BY <1>1 DEF Active
    <3> QED
      BY <3>1, <3>2, <3>3, <3>4 DEF BlockedIn, ShouldBeBlocked
  <2>2. \A x \in Issues : isBlocked'[x] \in BOOLEAN /\ (isBlocked'[x] <=> ShouldBeBlocked(x)')
    BY <1>1, <1>2, <1>3, <2>1 DEF RightRows, RowsOK
  <2>3. \A x \in Issues : ShouldBeBlocked(x)' \in BOOLEAN
    BY DEF ShouldBeBlocked
  <2> QED
    BY <2>2, <2>3 DEF StaleFlags
<1>6. BlockedTypeOK' /\ LoopInv' /\ RoundInv'
  BY <1>1, <1>2, <1>3, <1>5, EditRests
<1> QED
  BY <1>1, <1>2, <1>4, <1>6 DEF MergeInv, Phases

\* A merge leaves the rows as they were before it to the pass.
LEMMA MergeKeeps ==
    ASSUME Hook = TRUE, MergeInv, Merge
    PROVE  MergeInv'
<1>1. /\ phase = "ours" /\ pc = "idle" /\ phase' = "merged" /\ before' = Rows
      /\ wisps' = wisps /\ UNCHANGED loopVars /\ pending' = pending
  BY DEF Merge
<1>2. /\ status' = [i \in Issues |-> Merged(base.status[i], status[i], theirs.status[i])]
      /\ isBlocked' = [i \in Issues |-> Merged(base.isBlocked[i], isBlocked[i], theirs.isBlocked[i])]
      /\ dep' = [e \in Issues \X Issues |-> Merged(base.dep[e], dep[e], theirs.dep[e])]
  BY DEF Merge
<1>3. /\ BlockedTypeOK /\ RowsOK /\ LoopInv /\ pending = NoRows
      /\ TypedRows(base) /\ TypedRows(theirs)
  BY <1>1 DEF MergeInv, BlockedTypeOK, RightRows
<1>4. RowsOK'
  <2>1. status' \in [Issues -> Statuses \cup {"absent"}]
    BY <1>2, <1>3 DEF RowsOK, TypedRows, Merged
  <2>2. isBlocked' \in [Issues -> BOOLEAN]
    BY <1>2, <1>3 DEF RowsOK, TypedRows, Merged
  <2>3. dep' \in [Issues \X Issues -> Kinds \cup {"none"}]
    BY <1>2, <1>3 DEF RowsOK, TypedRows, Merged
  <2> QED
    BY <1>1, <1>3, <2>1, <2>2, <2>3 DEF RowsOK
<1>5. BlockedTypeOK'
  BY <1>1, <1>3, <1>4, RestTypes
<1>6. RightRows(Rows)
  BY <1>1, <1>3, IdleRight, RightWhenIdle
<1>7. From' = Rows /\ pc' = "idle"
  BY <1>1, <1>3 DEF From, loopVars
<1> QED
  BY <1>1, <1>5, <1>6, <1>7 DEF MergeInv, Phases

\* A loop over all rows, or over what the diff seeds.
LEMMA PassRuns ==
    ASSUME BlockedTypeOK, NEW S \in SUBSET Issues, StaleFlags \subseteq S, Sealed(S),
           Recompute(S), UNCHANGED <<status, wisps, dep, isBlocked>>
    PROVE  BlockedTypeOK' /\ LoopInv' /\ RoundInv'
<1>1. RowsOK' /\ StaleFlags' \subseteq S
  BY FlagsSame DEF BlockedTypeOK, RowsOK
<1>2. SealedNext(S)
  BY DEF Sealed, SealedNext, Active, ActiveBlocker
<1>3. Run("recompute", S)
  BY DEF Recompute
<1> QED
  BY <1>1, <1>2, <1>3, EditRuns

LEMMA PassKeeps ==
    ASSUME MergeInv, RecomputeAfterMerge \/ RecomputeAll
    PROVE  MergeInv'
<1>1. /\ BlockedTypeOK /\ RowsOK
      /\ UNCHANGED <<status, wisps, dep, isBlocked>>
      /\ phase' \in {"recompute", "repair"}
  BY DEF MergeInv, BlockedTypeOK, RecomputeAfterMerge, RecomputeAll
<1>2. Issues \in SUBSET Issues /\ StaleFlags \subseteq Issues /\ Sealed(Issues)
  BY DEF StaleFlags, Sealed
<1>3. CASE Recompute(Issues)
  <2>1. BlockedTypeOK' /\ LoopInv' /\ RoundInv'
    BY <1>1, <1>2, <1>3, PassRuns
  <2> QED
    BY <1>1, <2>1 DEF MergeInv, Phases
<1>4. CASE Recompute(MergeAffected(From)) /\ phase = "merged"
  <2>1. /\ MergeAffected(From) \in SUBSET Issues
        /\ StaleFlags \subseteq MergeAffected(From) /\ Sealed(MergeAffected(From))
    BY <1>1, <1>4, MergeCovers DEF MergeInv
  <2>2. BlockedTypeOK' /\ LoopInv' /\ RoundInv'
    BY <1>1, <1>4, <2>1, PassRuns
  <2> QED
    BY <1>1, <2>2 DEF MergeInv, Phases
<1> QED
  BY <1>3, <1>4 DEF RecomputeAfterMerge, RecomputeAll

\* The pass ends, fails, or is made up for.
LEMMA FinishKeeps ==
    ASSUME MergeInv, FinishPass
    PROVE  MergeInv'
<1>1. phase \in {"recompute", "repair"} /\ BlockedTypeOK /\ LoopInv /\ RoundInv
  BY DEF FinishPass, MergeInv
<1>2. CASE Loop /\ UNCHANGED <<phase, pending>>
  <2>1. BlockedTypeOK' /\ LoopInv' /\ RoundInv'
    BY <1>1, <1>2, LoopKeeps
  <2> QED
    BY <1>1, <1>2, <2>1 DEF MergeInv, Phases
<1>3. CASE pc = "idle" /\ phase' = "settled" /\ UNCHANGED vars
  <2>1. BlockedTypeOK' /\ LoopInv' /\ RoundInv'
    BY <1>1, <1>3, SameKeeps
  <2>2. StaleFlags' = {}
    BY <1>1, <1>3, IdleRight, FlagsSame DEF vars
  <2> QED
    BY <1>3, <2>1, <2>2 DEF MergeInv, Phases
<1> QED
  BY <1>2, <1>3 DEF FinishPass

LEMMA FailureKeeps ==
    ASSUME MergeInv, PassFails \/ PullAgain
    PROVE  MergeInv'
<1>1. UNCHANGED vars /\ BlockedTypeOK
  BY DEF PassFails, PullAgain, MergeInv
<1>2. BlockedTypeOK'
  BY <1>1 DEF vars, BlockedTypeOK, RowsOK
<1>3. CASE PassFails
  <2>1. phase' = "stale" /\ RightRows(pending')
    BY <1>3 DEF PassFails, MergeInv
  <2> QED
    BY <1>2, <2>1 DEF MergeInv, Phases
<1>4. CASE PullAgain
  <2>1. phase' = "merged" /\ pending' = pending /\ before' = Rows /\ pc' = "idle"
        /\ RightRows(pending)
    BY <1>4 DEF PullAgain, MergeInv, vars
  <2>2. RightRows(From')
    <3>1. CASE pending # NoRows
      BY <2>1, <3>1 DEF From
    <3>2. CASE pending = NoRows
      <4>1. RightRows(Rows)
        BY <1>1, <2>1, <3>2, NoRowsRight DEF BlockedTypeOK
      <4> QED
        BY <2>1, <3>2, <4>1 DEF From
    <3> QED
      BY <3>1, <3>2
  <2> QED
    BY <1>2, <2>1, <2>2 DEF MergeInv, Phases
<1> QED
  BY <1>3, <1>4

\* When a merge and the pass after it are over, each flag is what the merged graph
\* says, whichever clone changed what, also when a pass failed and the merged rows
\* were edited before the next one.  The caller that runs the pass is taken for
\* granted.
THEOREM FlagsRightAfterMerge ==
    ASSUME Gaps = {}, Hook = TRUE
    PROVE  MergeSpec => []FlagsFollowMerge
<1>1. MergeInit => MergeInv
  BY InitKeeps DEF MergeInit, MergeInv, Phases
<1>2. MergeInv /\ [MergeNext]_allVars => MergeInv'
  <2> SUFFICES ASSUME MergeInv, [MergeNext]_allVars PROVE MergeInv'
    OBVIOUS
  <2>1. CASE UNCHANGED allVars
    <3>1. UNCHANGED vars /\ UNCHANGED mergeVars
      BY <2>1 DEF allVars
    <3>2. /\ BlockedTypeOK /\ BlockedTypeOK' /\ StaleFlags' = StaleFlags /\ From' = From
          /\ LoopInv /\ RoundInv => LoopInv' /\ RoundInv'
      BY <3>1, FlagsSame, SameKeeps, SameTypes DEF MergeInv, vars, mergeVars, From
    <3> QED
      BY <3>1, <3>2 DEF MergeInv, vars, mergeVars
  <2> QED
    BY <2>1, WriteKeeps, ForkKeeps, TurnKeeps, MergeKeeps, PassKeeps, FinishKeeps, FailureKeeps
       DEF MergeNext
<1>3. MergeInv => FlagsFollowMerge
  BY DEF MergeInv, FlagsFollowMerge
<1> QED
  BY <1>1, <1>2, <1>3, PTL DEF MergeSpec
=================================================================================
