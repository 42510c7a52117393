---------------------------- MODULE HistoryProofs ----------------------------
(***************************************************************************)
(* Proofs about History, for any stores, rows, branches and bounds: the    *)
(* types, and that rows committed to a user's branch survive whatever      *)
(* Flatten and Compact do, unless they were not in the log the operation   *)
(* started from; which temporary branches are left, and on which branches  *)
(* stores are that do not know it.                                         *)
(***************************************************************************)
EXTENDS History, TLAPS

Histories == Seq(SUBSET AllRows)

\* What a commit adds is what the branch then has more.
LEMMA ContentAppend ==
    ASSUME NEW h \in Histories, NEW r \in SUBSET AllRows
    PROVE  Content(Append(h, r)) = Content(h) \cup r
<1>1. Content(h) \cup r \subseteq Content(Append(h, r))
  <2>1. Len(h) + 1 \in DOMAIN Append(h, r) /\ Append(h, r)[Len(h) + 1] = r
    BY DEF Histories
  <2>2. ASSUME NEW i \in DOMAIN h PROVE i \in DOMAIN Append(h, r) /\ Append(h, r)[i] = h[i]
    BY DEF Histories
  <2> QED  BY <2>1, <2>2 DEF Content
<1>2. Content(Append(h, r)) \subseteq Content(h) \cup r
  <2>1. ASSUME NEW i \in DOMAIN Append(h, r)
        PROVE  Append(h, r)[i] = r \/ (i \in DOMAIN h /\ Append(h, r)[i] = h[i])
    BY DEF Histories
  <2> QED  BY <2>1 DEF Content
<1> QED  BY <1>1, <1>2

\* A prefix of a history has no more than the history.
LEMMA ContentPrefix ==
    ASSUME NEW h \in Histories, NEW n \in Nat, n <= Len(h)
    PROVE  /\ SubSeq(h, 1, n) \in Histories
           /\ Content(SubSeq(h, 1, n)) \subseteq Content(h)
           /\ n = Len(h) => SubSeq(h, 1, n) = h
<1>1. /\ SubSeq(h, 1, n) \in Histories
      /\ DOMAIN SubSeq(h, 1, n) = 1..n
      /\ \A i \in 1..n : SubSeq(h, 1, n)[i] = h[i]
  BY DEF Histories
<1>2. Content(SubSeq(h, 1, n)) \subseteq Content(h)
  <2>1. 1..n \subseteq DOMAIN h
    BY DEF Histories
  <2> QED  BY <1>1, <2>1 DEF Content
<1>3. n = Len(h) => SubSeq(h, 1, n) = h
  BY DEF Histories
<1> QED  BY <1>1, <1>2, <1>3

\* The next commit of a history is what its longer prefix has more.
LEMMA ContentNext ==
    ASSUME NEW h \in Histories, NEW n \in Nat, n < Len(h)
    PROVE  Content(SubSeq(h, 1, n + 1)) = Content(SubSeq(h, 1, n)) \cup h[n + 1]
<1>1. SubSeq(h, 1, n + 1) = Append(SubSeq(h, 1, n), h[n + 1])
  BY DEF Histories
<1>2. SubSeq(h, 1, n) \in Histories /\ h[n + 1] \in SUBSET AllRows
  BY DEF Histories
<1> QED  BY <1>1, <1>2, ContentAppend

\* Content is made of rows.
LEMMA ContentType == ASSUME NEW h \in Histories PROVE Content(h) \in SUBSET AllRows
BY DEF Histories, Content

-----------------------------------------------------------------------------
(* Types. *)

LEMMA Names == /\ Branches = {Main} \cup Topics \cup Temps /\ Main \in Branches
               /\ FlattenTmp \in Temps /\ CompactTmp \in Temps
               /\ \A s : Temp(s) \in Temps
               /\ Main \notin Temps
BY DEF Branches, Temps, Temp, Main, FlattenTmp, CompactTmp

\* The part of TypeOK about branches.
BranchesOK ==
    /\ hist \in [Branches -> Histories]
    /\ work \in [Branches -> SUBSET AllRows]
    /\ \A b \in Branches : Content(hist[b]) \subseteq work[b]

\* One branch gets another history and another working set.
LEMMA SetBranch ==
    ASSUME BranchesOK, NEW b \in Branches, NEW h \in Histories, NEW w \in SUBSET AllRows,
           Content(h) \subseteq w,
           hist' = [hist EXCEPT ![b] = h], work' = [work EXCEPT ![b] = w]
    PROVE  BranchesOK'
<1>1. \A c \in Branches : hist'[c] = IF c = b THEN h ELSE hist[c]
  BY DEF BranchesOK
<1>2. \A c \in Branches : work'[c] = IF c = b THEN w ELSE work[c]
  BY DEF BranchesOK
<1>3. \A c \in Branches : Content(hist'[c]) \subseteq work'[c]
  BY <1>1, <1>2 DEF BranchesOK
<1> QED  BY <1>3 DEF BranchesOK

\* A version commit of rows of the working set.
LEMMA CommitRows ==
    ASSUME BranchesOK, NEW b \in Branches, NEW rows \in SUBSET work[b],
           hist' = Committed(b, rows), work' = work
    PROVE  /\ BranchesOK'
           /\ Content(hist'[b]) = Content(hist[b]) \cup rows
           /\ \A c \in Branches : c # b => hist'[c] = hist[c]
<1>1. rows \in SUBSET AllRows /\ hist[b] \in Histories
  BY DEF BranchesOK
<1>2. CASE rows = {}
  <2>1. hist' = hist
    BY <1>2 DEF Committed
  <2> QED  BY <1>2, <2>1 DEF BranchesOK
<1>3. CASE rows # {}
  <2>1. hist' = [hist EXCEPT ![b] = Append(hist[b], rows)]
    BY <1>3 DEF Committed
  <2>2. Append(hist[b], rows) \in Histories
    BY <1>1 DEF Histories
  <2>3. Content(Append(hist[b], rows)) = Content(hist[b]) \cup rows
    BY <1>1, ContentAppend
  <2>4. work[b] \in SUBSET AllRows /\ Content(hist[b]) \cup rows \subseteq work[b]
    BY DEF BranchesOK
  <2>5. work' = [work EXCEPT ![b] = work[b]]
    BY DEF BranchesOK
  <2>6. BranchesOK'
    BY <2>1, <2>2, <2>3, <2>4, <2>5, SetBranch
  <2>7. hist'[b] = Append(hist[b], rows) /\ \A c \in Branches : c # b => hist'[c] = hist[c]
    BY <2>1 DEF BranchesOK
  <2> QED  BY <2>3, <2>6, <2>7
<1> QED  BY <1>2, <1>3

\* A commit that arrives with its rows, from a remote or by a cherry-pick.
LEMMA ReceiveRows ==
    ASSUME BranchesOK, NEW b \in Branches, NEW rows \in SUBSET AllRows,
           hist' = [hist EXCEPT ![b] = Append(@, rows)], work' = [work EXCEPT ![b] = @ \cup rows]
    PROVE  /\ BranchesOK'
           /\ Content(hist'[b]) = Content(hist[b]) \cup rows
           /\ \A c \in Branches : c # b => hist'[c] = hist[c] /\ work'[c] = work[c]
           /\ work[b] \subseteq work'[b]
<1>1. hist[b] \in Histories /\ Append(hist[b], rows) \in Histories
  BY DEF BranchesOK, Histories
<1>2. Content(Append(hist[b], rows)) = Content(hist[b]) \cup rows
  BY <1>1, ContentAppend
<1>3. work[b] \cup rows \in SUBSET AllRows /\ Content(hist[b]) \cup rows \subseteq work[b] \cup rows
  BY DEF BranchesOK
<1>4. BranchesOK'
  BY <1>1, <1>2, <1>3, SetBranch
<1>5. hist'[b] = Append(hist[b], rows) /\ work'[b] = work[b] \cup rows
      /\ \A c \in Branches : c # b => hist'[c] = hist[c] /\ work'[c] = work[c]
  BY DEF BranchesOK
<1> QED  BY <1>2, <1>4, <1>5

\* The rest of TypeOK.
StoresOK ==
    /\ flock \in Stores \cup {Free}
    /\ pooled \in [Stores -> BOOLEAN]
    /\ at \in [Stores -> Branches \cup {Closed}]
    /\ named \in [Stores -> Branches]
    /\ task \in [Stores -> Tasks]
    /\ written \in SUBSET AllRows
    /\ abandoned \in SUBSET Temps
    /\ troubles \in 0..MaxTroubles /\ rewrites \in 0..MaxRewrites

LEMMA TypeParts == HistoryTypeOK <=> BranchesOK /\ StoresOK
BY DEF HistoryTypeOK, BranchesOK, StoresOK, Histories

LEMMA TypePartsNext == HistoryTypeOK' <=> BranchesOK' /\ StoresOK'
BY DEF HistoryTypeOK, BranchesOK, StoresOK, Histories

LEMMA InitTyped == HistoryInit => HistoryTypeOK
<1> SUFFICES ASSUME HistoryInit PROVE BranchesOK /\ StoresOK
  BY TypeParts
<1>1. <<{}, {Prefix}>> \in Histories /\ <<>> \in Histories
  BY DEF Histories, AllRows
<1>2. Content(<<>>) = {} /\ Content(<<{}, {Prefix}>>) \subseteq {Prefix}
  BY DEF Content
<1>3. BranchesOK
  <2>1. hist \in [Branches -> Histories]
    BY <1>1 DEF HistoryInit
  <2>2. work \in [Branches -> SUBSET AllRows]
    BY DEF HistoryInit, AllRows
  <2>3. \A b \in Branches : Content(hist[b]) \subseteq work[b]
    BY <1>2 DEF HistoryInit
  <2> QED  BY <2>1, <2>2, <2>3 DEF BranchesOK
<1>4. NoTask \in Tasks
  BY DEF NoTask, Tasks, Ops, Steps
<1>5. StoresOK
  BY <1>4, Names, HistoryAssumption DEF HistoryInit, StoresOK, AllRows
<1> QED  BY <1>3, <1>5

\* The fields of a task, and what is set in them.
LEMMA TaskFields ==
    ASSUME StoresOK, NEW s \in Stores
    PROVE  /\ task[s] \in Tasks /\ NoTask \in Tasks
           /\ task[s].seen \in Histories /\ task[s].cut \in Nat /\ task[s].next \in Nat
           /\ task[s].op \in Ops /\ task[s].step \in Steps
BY DEF StoresOK, Tasks, Histories, NoTask, Ops, Steps

LEMMA NewTasks ==
    ASSUME NEW seen \in Histories, NEW cut \in Nat, NEW next \in Nat
    PROVE  /\ Planned(seen, cut) \in Tasks
           /\ Flattening(seen) \in Tasks
           /\ Compacting(seen, cut, next) \in Tasks
<1>1. Len(seen) + 1 \in Nat
  BY DEF Histories
<1> QED  BY <1>1 DEF Planned, Flattening, Compacting, Tasks, Ops, Steps, Histories

LEMMA SetTask ==
    ASSUME StoresOK, NEW s \in Stores, NEW t \in Tasks, task' = [task EXCEPT ![s] = t]
    PROVE  task' \in [Stores -> Tasks]
BY DEF StoresOK

LEMMA GoOnTyped ==
    ASSUME StoresOK, NEW s \in Stores, NEW step \in Steps, GoOn(s, step)
    PROVE  task' \in [Stores -> Tasks]
BY DEF StoresOK, GoOn, Tasks

LEMMA FailsTyped ==
    ASSUME StoresOK, NEW s, NEW retryable, Fails(s, retryable)
    PROVE  troubles' \in 0..MaxTroubles
BY HistoryAssumption DEF Fails, StoresOK

\* Steps that leave branches alone.
LEMMA StoreStepsTyped ==
    ASSUME HistoryTypeOK, NEW s \in Stores,
           \/ \E b \in Requested : Open(s, b)
           \/ Leave(s) \/ LoseConnection(s) \/ CurrentBranch(s)
           \/ \E b \in {Main} \cup Topics : Checkout(s, b)
           \/ BeginFlatten(s) \/ PlanCompact(s) \/ BeginCompact(s) \/ GivesUp(s)
           \/ CheckoutTemp(s) \/ CheckoutMain(s)
           \/ \E retryable \in BOOLEAN : FlattenFails(s, retryable)
    PROVE  HistoryTypeOK' /\ hist' = hist /\ work' = work
<1> USE TypeParts, TypePartsNext, Names
<1>1. ASSUME hist' = hist, work' = work, StoresOK' PROVE HistoryTypeOK' /\ hist' = hist /\ work' = work
  BY <1>1 DEF BranchesOK
<1>2. ASSUME NEW b \in Requested, Open(s, b) PROVE HistoryTypeOK' /\ hist' = hist /\ work' = work
  BY <1>1, <1>2, HistoryAssumption DEF Open, StoresOK, aside
<1>3. CASE Leave(s)
  <2>1. task' \in [Stores -> Tasks]
    BY <1>3, SetTask, TaskFields DEF Leave
  <2>2. at' \in [Stores -> Branches \cup {Closed}] /\ pooled' \in [Stores -> BOOLEAN]
        /\ named' \in [Stores -> Branches]
    BY <1>3 DEF Leave, StoresOK
  <2>3. abandoned' \in SUBSET Temps
    BY <1>3 DEF Leave, StoresOK
  <2>4. troubles' \in 0..MaxTroubles /\ rewrites' \in 0..MaxRewrites
    BY <1>3, HistoryAssumption DEF Leave, StoresOK
  <2> QED  BY <1>1, <1>3, <2>1, <2>2, <2>3, <2>4 DEF Leave, StoresOK
<1>4. CASE LoseConnection(s)
  BY <1>1, <1>4, HistoryAssumption DEF LoseConnection, StoresOK
<1>5. CASE CurrentBranch(s)
  BY <1>1, <1>5, HistoryAssumption DEF CurrentBranch, Ready, StoresOK, aside
<1>6. ASSUME NEW b \in {Main} \cup Topics, Checkout(s, b)
      PROVE  HistoryTypeOK' /\ hist' = hist /\ work' = work
  BY <1>1, <1>6 DEF Checkout, StoresOK, aside
<1>7. CASE BeginFlatten(s)
  <2>1. at[s] \in Branches /\ hist[at[s]] \in Histories
    BY <1>7 DEF BeginFlatten, CanLock, Ready, StoresOK, BranchesOK
  <2>2. Flattening(hist[at[s]]) \in Tasks
    BY <2>1, NewTasks
  <2>3. task' \in [Stores -> Tasks]
    BY <1>7, <2>2, SetTask DEF BeginFlatten
  <2> QED  BY <1>1, <1>7, <2>3, HistoryAssumption DEF BeginFlatten, StoresOK, store
<1>8. CASE PlanCompact(s)
  <2>1. at[s] \in Branches /\ hist[at[s]] \in Histories
    BY <1>8 DEF PlanCompact, Ready, StoresOK, BranchesOK
  <2>2. PICK boundary \in 2..Len(hist[at[s]]) :
           task' = [task EXCEPT ![s] = Planned(hist[at[s]], boundary)]
    BY <1>8 DEF PlanCompact
  <2>3. boundary \in Nat
    BY <2>1 DEF Histories
  <2>4. task' \in [Stores -> Tasks]
    BY <2>1, <2>2, <2>3, NewTasks, SetTask
  <2> QED  BY <1>1, <1>8, <2>4, HistoryAssumption DEF PlanCompact, StoresOK, store
<1>9. CASE BeginCompact(s)
  <2>1. task[s].seen \in Histories /\ task[s].cut \in Nat /\ task[s].cut + 1 \in Nat
    BY TaskFields
  <2>2. task' \in [Stores -> Tasks]
    BY <1>9, <2>1, NewTasks, SetTask DEF BeginCompact
  <2> QED  BY <1>1, <1>9, <2>2 DEF BeginCompact, StoresOK, store, aside
<1>10. CASE GivesUp(s)
  BY <1>1, <1>10, SetTask, TaskFields DEF GivesUp, StoresOK, store, aside
<1>11. CASE CheckoutTemp(s)
  BY <1>1, <1>11, GoOnTyped DEF CheckoutTemp, StoresOK, aside, Steps
<1>12. CASE CheckoutMain(s)
  BY <1>1, <1>12, GoOnTyped DEF CheckoutMain, StoresOK, aside, Steps
<1>13. ASSUME NEW retryable \in BOOLEAN, FlattenFails(s, retryable)
       PROVE  HistoryTypeOK' /\ hist' = hist /\ work' = work
  <2>1. task' \in [Stores -> Tasks]
    BY <1>13, SetTask, TaskFields DEF FlattenFails
  <2>2. at' \in [Stores -> Branches \cup {Closed}] /\ pooled' \in [Stores -> BOOLEAN]
    BY <1>13 DEF FlattenFails, StoresOK
  <2>3. troubles' \in 0..MaxTroubles
    BY <1>13, FailsTyped DEF FlattenFails
  <2>4. abandoned' \in SUBSET Temps
    BY <1>13 DEF FlattenFails, StoresOK
  <2> QED  BY <1>1, <1>13, <2>1, <2>2, <2>3, <2>4 DEF FlattenFails, StoresOK
<1> QED
  BY <1>2, <1>3, <1>4, <1>5, <1>6, <1>7, <1>8, <1>9, <1>10, <1>11, <1>12, <1>13

\* The rows that a commit takes are rows of the working set.
LEMMA PendingRows ==
    ASSUME NEW b \in Branches
    PROVE  PendingTables(b) \in SUBSET work[b] /\ PendingTables(b) \cap DataRows \in SUBSET work[b]
BY DEF PendingTables

\* A store that is ready, or in the middle of a rewrite, has a branch.
LEMMA ReadyBranch ==
    ASSUME HistoryTypeOK, NEW s \in Stores
    PROVE  /\ Ready(s) => at[s] \in Branches
           /\ at[s] # Closed => at[s] \in Branches
           /\ at[s] \in Branches => hist[at[s]] \in Histories
           /\ Content(<<>>) = {} /\ <<>> \in Histories
BY TypeParts DEF Ready, StoresOK, BranchesOK, Histories, Content

-----------------------------------------------------------------------------
(* Steps that only add: no branch has fewer rows afterwards. *)

HistGrows == \A b \in Branches : Content(hist[b]) \subseteq Content(hist'[b])
WorkGrows == \A b \in Branches : work[b] \subseteq work'[b]

\* One branch gets a history with at least the rows it had.
LEMMA OneGrows ==
    ASSUME BranchesOK, NEW b \in Branches, NEW h \in Histories, NEW w \in SUBSET AllRows,
           Content(hist[b]) \subseteq Content(h), Content(h) \subseteq w,
           hist' = [hist EXCEPT ![b] = h], work' = [work EXCEPT ![b] = w]
    PROVE  BranchesOK' /\ HistGrows
<1>1. \A c \in Branches : hist'[c] = IF c = b THEN h ELSE hist[c]
  BY DEF BranchesOK
<1> QED  BY <1>1, SetBranch DEF HistGrows

\* A merge: fast-forward or a commit of what the other branch has more.
LEMMA MergeGrows ==
    ASSUME HistoryTypeOK, NEW s \in Stores, NEW b \in Branches, Merge(s, b)
    PROVE  HistoryTypeOK' /\ HistGrows /\ WorkGrows
<1> DEFINE ours == hist[at[s]]
           news == Content(hist[b]) \ Content(ours)
<1>1. at[s] \in Branches /\ ours \in Histories /\ hist[b] \in Histories /\ BranchesOK /\ StoresOK
  BY TypeParts, ReadyBranch DEF Merge, CanLock, BranchesOK
<1>2. news \in SUBSET AllRows /\ work[at[s]] \cup news \in SUBSET AllRows
  BY <1>1, ContentType DEF BranchesOK
<1>3. work' = [work EXCEPT ![at[s]] = work[at[s]] \cup news]
  BY <1>1 DEF Merge, BranchesOK
<1>4. WorkGrows
  BY <1>1, <1>3 DEF WorkGrows, BranchesOK
<1> SUFFICES BranchesOK' /\ HistGrows
  <2>1. StoresOK'
    BY <1>1 DEF Merge, StoresOK, store, aside
  <2> QED  BY <1>4, <2>1, TypePartsNext
<1>5. CASE IsPrefix(ours, hist[b])
  <2>1. hist' = [hist EXCEPT ![at[s]] = hist[b]]
    BY <1>5 DEF Merge
  <2>2. Len(ours) <= Len(hist[b]) /\ ours = SubSeq(hist[b], 1, Len(ours)) /\ Len(ours) \in Nat
    BY <1>1, <1>5 DEF IsPrefix, Histories
  <2>3. Content(ours) \subseteq Content(hist[b])
    BY <1>1, <2>2, ContentPrefix
  <2>4. Content(hist[b]) \subseteq work[at[s]] \cup news
    BY <1>1 DEF BranchesOK
  <2> HIDE DEF ours, news
  <2> QED  BY <1>1, <1>2, <1>3, <2>1, <2>3, <2>4, OneGrows DEF ours
<1>6. CASE ~IsPrefix(ours, hist[b])
  <2>1. hist' = Committed(at[s], news)
    BY <1>6 DEF Merge
  <2>2. CASE news = {}
    <3>1. hist' = hist /\ work' = work
      BY <1>1, <1>3, <2>1, <2>2 DEF Committed, BranchesOK
    <3> QED  BY <1>1, <3>1 DEF BranchesOK, HistGrows
  <2>3. CASE news # {}
    <3> HIDE DEF ours, news
    <3>1. hist' = [hist EXCEPT ![at[s]] = Append(hist[at[s]], news)]
      BY <2>1, <2>3 DEF Committed
    <3>2. Append(hist[at[s]], news) \in Histories
          /\ Content(Append(hist[at[s]], news)) = Content(hist[at[s]]) \cup news
      BY <1>1, <1>2, ContentAppend DEF ours, Histories
    <3>3. Content(hist[at[s]]) \cup news \subseteq work[at[s]] \cup news
      BY <1>1 DEF BranchesOK
    <3> QED  BY <1>1, <1>2, <1>3, <3>1, <3>2, <3>3, OneGrows
  <2> QED  BY <2>2, <2>3
<1> QED  BY <1>5, <1>6

\* A version commit of the store, of all tables or without config.
LEMMA CommitGrows ==
    ASSUME BranchesOK, NEW b \in Branches, hist' = CommitNative(b) \/ hist' = CommitAllNative(b),
           work' = work
    PROVE  /\ BranchesOK' /\ HistGrows
           /\ hist' = CommitAllNative(b) => work[b] \subseteq Content(hist'[b])
<1>1. PICK rows \in SUBSET work[b] :
         hist' = Committed(b, rows) /\ (hist' = CommitAllNative(b) => work[b] \subseteq Content(hist[b]) \cup rows)
  <2>1. CASE hist' = CommitAllNative(b)
    <3>1. work[b] \subseteq Content(hist[b]) \cup PendingTables(b)
      BY DEF PendingTables
    <3> QED  BY <2>1, <3>1, PendingRows DEF CommitAllNative
  <2>2. CASE hist' # CommitAllNative(b)
    BY <2>2, PendingRows DEF CommitNative
  <2> QED  BY <2>1, <2>2
<1>2. /\ BranchesOK'
      /\ Content(hist'[b]) = Content(hist[b]) \cup rows
      /\ \A c \in Branches : c # b => hist'[c] = hist[c]
  BY <1>1, CommitRows
<1>3. HistGrows
  BY <1>2 DEF HistGrows
<1> QED  BY <1>1, <1>2, <1>3

\* A commit that arrives.
LEMMA ReceiveGrows ==
    ASSUME BranchesOK, NEW b \in Branches, NEW rows \in SUBSET AllRows,
           hist' = [hist EXCEPT ![b] = Append(@, rows)], work' = [work EXCEPT ![b] = @ \cup rows]
    PROVE  /\ BranchesOK' /\ HistGrows /\ WorkGrows
           /\ Content(hist'[b]) = Content(hist[b]) \cup rows
<1>1. /\ BranchesOK'
      /\ Content(hist'[b]) = Content(hist[b]) \cup rows
      /\ \A c \in Branches : c # b => hist'[c] = hist[c] /\ work'[c] = work[c]
      /\ work[b] \subseteq work'[b]
  BY ReceiveRows
<1> QED  BY <1>1 DEF HistGrows, WorkGrows

\* A branch that did not exist begins with a history.
LEMMA NewBranchGrows ==
    ASSUME BranchesOK, NEW b \in Branches, ~Exists(b), NEW h \in Histories,
           hist' = [hist EXCEPT ![b] = h], work' = [work EXCEPT ![b] = Content(h)]
    PROVE  BranchesOK' /\ HistGrows /\ hist'[b] = h /\ work'[b] = Content(h)
<1>1. Content(hist[b]) = {}
  BY DEF Exists, Content
<1>2. Content(h) \in SUBSET AllRows
  BY ContentType
<1>3. BranchesOK' /\ HistGrows
  BY <1>1, <1>2, OneGrows
<1> QED  BY <1>3 DEF BranchesOK

\* Between calls a store does not hold the lock; in a rewrite it does, and its
\* boundary and the commit to pick next are commits of the log it has seen.
TaskOK(s) ==
    /\ task[s].op \in {"idle", "planned"} => task[s].step = "none" /\ flock # s
    /\ task[s].op \in {"flatten", "compact"} => task[s].step # "none" /\ flock = s /\ at[s] # Closed
    /\ task[s].op \in {"planned", "compact"} => task[s].cut \in 1..Len(task[s].seen)
    /\ task[s].op = "planned" => at[s] # Closed
    /\ task[s].op = "flatten" => task[s].next = Len(task[s].seen) + 1
    /\ task[s].op = "compact" =>
          /\ task[s].next \in (task[s].cut + 1)..(Len(task[s].seen) + 1)
          /\ task[s].step \in {"create", "checkout", "soften", "squash"} =>
                task[s].next = task[s].cut + 1

\* Where a new temporary branch begins.
LEMMA StartType ==
    ASSUME HistoryTypeOK, NEW s \in Stores, TaskOK(s), flock = s
    PROVE  /\ at[s] \in Branches /\ hist[at[s]] \in Histories
           /\ Start(s) \in Histories
           /\ task[s].op \in {"flatten", "compact"} /\ Temp(s) \in Temps /\ Temp(s) \in Branches
<1>1. StoresOK /\ BranchesOK
  BY TypeParts
<1>2. task[s].op \in {"flatten", "compact"} /\ at[s] \in Branches
  BY <1>1, TaskFields DEF TaskOK, Ops, StoresOK
<1>3. hist[at[s]] \in Histories /\ Temp(s) \in Temps /\ Temp(s) \in Branches
  BY <1>1, <1>2, Names DEF BranchesOK
<1>4. task[s].op = "compact" => SubSeq(task[s].seen, 1, task[s].cut) \in Histories
  <2>1. task[s].op = "compact" => /\ task[s].seen \in Histories /\ task[s].cut \in Nat
                                  /\ task[s].cut <= Len(task[s].seen)
    BY <1>1, TaskFields DEF TaskOK, Histories
  <2> QED  BY <2>1, ContentPrefix
<1> QED  BY <1>2, <1>3, <1>4 DEF Start

\* Writes, commits, new branches and pulls.
LEMMA UserStepsGrow ==
    ASSUME HistoryTypeOK, NEW s \in Stores,
           \/ \E r \in AllRows : Write(s, r)
           \/ CommitTables(s) \/ CommitWithConfig(s)
           \/ \E b \in Topics : Branch(s, b)
           \/ \E b \in {Main} \cup Topics : Merge(s, b)
           \/ \E r \in DataRows : Pull(s, r)
    PROVE  HistoryTypeOK' /\ HistGrows /\ ((\E r \in DataRows : Pull(s, r)) => WorkGrows)
<1>1. BranchesOK /\ StoresOK
  BY TypeParts
<1>2. ASSUME BranchesOK', HistGrows, WorkGrows, StoresOK'
      PROVE  HistoryTypeOK' /\ HistGrows /\ ((\E r \in DataRows : Pull(s, r)) => WorkGrows)
  BY <1>2, TypePartsNext
<1>3. ASSUME work' = work PROVE WorkGrows
  BY <1>3 DEF WorkGrows
<1>4. ASSUME NEW r \in AllRows, Write(s, r)
      PROVE  HistoryTypeOK' /\ HistGrows /\ WorkGrows
  <2>1. at[s] \in Branches
    BY <1>4, ReadyBranch DEF Write, CanLock
  <2>2. /\ hist' = hist /\ work' \in [Branches -> SUBSET AllRows] /\ WorkGrows
    BY <1>1, <1>4, <2>1 DEF Write, BranchesOK, WorkGrows
  <2>3. BranchesOK' /\ HistGrows
    BY <1>1, <2>2 DEF BranchesOK, WorkGrows, HistGrows
  <2>4. StoresOK'
    BY <1>1, <1>4 DEF Write, StoresOK, store, aside
  <2> QED  BY <2>2, <2>3, <2>4, TypePartsNext
<1>5. CASE CommitTables(s)
  <2>1. at[s] \in Branches
    BY <1>5, ReadyBranch DEF CommitTables, CanLock
  <2>2. BranchesOK' /\ HistGrows
    BY <1>1, <1>5, <2>1, CommitGrows DEF CommitTables
  <2>3. StoresOK'
    BY <1>1, <1>5 DEF CommitTables, StoresOK, store, aside
  <2> QED  BY <1>2, <1>3, <1>5, <2>2, <2>3 DEF CommitTables
<1>6. CASE CommitWithConfig(s)
  <2>1. at[s] \in Branches
    BY <1>6, ReadyBranch DEF CommitWithConfig, CanLock
  <2>2. BranchesOK' /\ HistGrows
    BY <1>1, <1>6, <2>1, CommitGrows DEF CommitWithConfig
  <2>3. StoresOK'
    BY <1>1, <1>6 DEF CommitWithConfig, StoresOK, store, aside
  <2> QED  BY <1>2, <1>3, <1>6, <2>2, <2>3 DEF CommitWithConfig
<1>7. ASSUME NEW b \in Topics, Branch(s, b)
      PROVE  HistoryTypeOK' /\ HistGrows /\ ((\E r \in DataRows : Pull(s, r)) => WorkGrows)
  <2>1. at[s] \in Branches /\ hist[at[s]] \in Histories
    BY <1>7, ReadyBranch DEF Branch, CanLock
  <2>2. BranchesOK' /\ HistGrows
    BY <1>1, <1>7, <2>1, Names, NewBranchGrows DEF Branch
  <2>3. StoresOK'
    BY <1>1, <1>7 DEF Branch, StoresOK, store, aside
  <2>4. ASSUME NEW r \in DataRows, Pull(s, r) PROVE FALSE
    BY <1>7, <2>4 DEF Branch, Pull
  <2> QED  BY <2>2, <2>3, <2>4, TypePartsNext
<1>8. ASSUME NEW b \in {Main} \cup Topics, Merge(s, b)
      PROVE  HistoryTypeOK' /\ HistGrows /\ WorkGrows
  BY <1>8, Names, MergeGrows
<1>9. ASSUME NEW r \in DataRows, Pull(s, r)
      PROVE  HistoryTypeOK' /\ HistGrows /\ WorkGrows
  <2>1. at[s] \in Branches /\ {r} \in SUBSET AllRows
    BY <1>9, ReadyBranch DEF Pull, AllRows
  <2>2. BranchesOK' /\ HistGrows /\ WorkGrows
    BY <1>1, <1>9, <2>1, ReceiveGrows DEF Pull
  <2>3. StoresOK'
    BY <1>1, <1>9 DEF Pull, StoresOK, store, aside, AllRows
  <2> QED  BY <2>2, <2>3, TypePartsNext
<1> QED
  BY <1>4, <1>5, <1>6, <1>7, <1>8, <1>9

-----------------------------------------------------------------------------
(* The invariant: what the rewrite in progress has seen is never out of reach. *)

\* The commits of the log that are squashed or picked so far.
Covered(s) == SubSeq(task[s].seen, 1, task[s].next - 1)

\* First they are in the branch Flatten starts from, then in the working set of the
\* temporary branch, then in its history, and at the reset all of the log is.
SafeAt(s) ==
    /\ task[s].step = "create" /\ task[s].op = "flatten" =>
          Content(task[s].seen) \subseteq Content(hist[at[s]])
    /\ task[s].step \in {"checkout", "soften"} => Exists(Temp(s))
    /\ task[s].step \in {"checkout", "soften", "squash"} => Content(Covered(s)) \subseteq work[Temp(s)]
    /\ task[s].step = "pick" => Content(Covered(s)) \subseteq Content(hist[Temp(s)])
    /\ task[s].step = "reset" => Content(task[s].seen) \subseteq Content(hist[Temp(s)])
    /\ task[s].step \in {"soften", "squash", "pick"} => at[s] = Temp(s)

IInv == HistoryTypeOK /\ \A s \in Stores : TaskOK(s) /\ SafeAt(s)

\* What GoOn changes of a task, and what stays.
LEMMA GoOnFields ==
    ASSUME StoresOK, NEW s \in Stores, NEW step \in Steps, GoOn(s, step)
    PROVE  /\ task'[s].op = task[s].op /\ task'[s].step = step /\ task'[s].seen = task[s].seen
           /\ task'[s].cut = task[s].cut /\ task'[s].next = task[s].next
           /\ Temp(s)' = Temp(s) /\ Covered(s)' = Covered(s)
<1>1. task[s] \in Tasks
  BY DEF StoresOK
<1>2. task'[s] = [task[s] EXCEPT !.step = step]
  BY DEF StoresOK, GoOn
<1>3. /\ task'[s].op = task[s].op /\ task'[s].step = step /\ task'[s].seen = task[s].seen
      /\ task'[s].cut = task[s].cut /\ task'[s].next = task[s].next
  BY <1>1, <1>2 DEF Tasks
<1> QED  BY <1>3 DEF Temp, Covered

\* TaskOK says the same of a task whose step goes on within a rewrite.
LEMMA GoOnTaskOK ==
    ASSUME StoresOK, NEW s \in Stores, TaskOK(s), flock = s, flock' = s, at'[s] # Closed,
           NEW step \in Steps \ {"none"}, GoOn(s, step),
           step \in {"create", "checkout", "soften", "squash"} =>
               task[s].step \in {"create", "checkout", "soften", "squash"}
    PROVE  TaskOK(s)'
<1>1. task[s].op \in {"flatten", "compact"}
  BY TaskFields DEF TaskOK, Ops
<1> QED  BY <1>1, GoOnFields DEF TaskOK

\* The other facts about commits of the log that a rewrite has seen.
LEMMA CoveredType ==
    ASSUME StoresOK, NEW s \in Stores, TaskOK(s), flock = s
    PROVE  /\ task[s].next - 1 \in 0..Len(task[s].seen) /\ task[s].next \in Nat
           /\ Covered(s) \in Histories
           /\ Content(Covered(s)) \subseteq Content(task[s].seen)
           /\ PicksDone(s) => Covered(s) = task[s].seen
           /\ ~PicksDone(s) => /\ task[s].next \in 1..Len(task[s].seen)
                               /\ task[s].seen[task[s].next] \in SUBSET AllRows
<1>1. task[s].op \in {"flatten", "compact"} /\ task[s].seen \in Histories
  BY TaskFields DEF TaskOK, Ops
<1>2. Len(task[s].seen) \in Nat /\ task[s].next \in Nat /\ task[s].cut \in Nat
  BY <1>1, TaskFields DEF Histories
<1>3. task[s].next \in 1..(Len(task[s].seen) + 1)
  BY <1>1, <1>2 DEF TaskOK
<1>4. task[s].next - 1 \in Nat /\ task[s].next - 1 <= Len(task[s].seen)
  BY <1>2, <1>3
<1>5. /\ Covered(s) \in Histories /\ Content(Covered(s)) \subseteq Content(task[s].seen)
      /\ task[s].next - 1 = Len(task[s].seen) => Covered(s) = task[s].seen
  BY <1>1, <1>4, ContentPrefix DEF Covered
<1>6. PicksDone(s) => task[s].next - 1 = Len(task[s].seen)
  BY <1>2, <1>3 DEF PicksDone
<1>7. ~PicksDone(s) => task[s].next \in 1..Len(task[s].seen)
  BY <1>2, <1>3 DEF PicksDone
<1>8. ~PicksDone(s) => task[s].seen[task[s].next] \in SUBSET AllRows
  BY <1>1, <1>7 DEF Histories
<1> QED  BY <1>2, <1>4, <1>5, <1>6, <1>7, <1>8

-----------------------------------------------------------------------------
(* The steps of a rewrite.  What may be lost, as in CommittedRowsSurvive: *)

Survive ==
    \A b \in {Main} \cup Topics :
        LET lost == Content(hist[b]) \ Content(hist'[b])
        IN  lost # {} =>
                \/ b # Main /\ hist'[b] = <<>>
                \/ b = Main /\ \E s \in Stores : At(s, "reset") /\ lost \cap Content(task[s].seen) = {}

LEMMA GrowthSurvives == ASSUME HistGrows PROVE Survive
BY Names DEF HistGrows, Survive

\* A change of one branch that is not a user's loses nothing.
LEMMA TempSurvives ==
    ASSUME HistoryTypeOK, NEW b \in Temps, NEW h, hist' = hist \/ hist' = [hist EXCEPT ![b] = h]
    PROVE  Survive
<1>1. \A c \in {Main} \cup Topics : c # b /\ hist'[c] = hist[c]
  BY Names, HistoryAssumption, TypeParts DEF BranchesOK
<1> QED  BY <1>1 DEF Survive

\* The holder of the lock, at a step of its rewrite.
LEMMA Holder ==
    ASSUME IInv, NEW s \in Stores, flock = s
    PROVE  /\ HistoryTypeOK /\ BranchesOK /\ StoresOK /\ TaskOK(s) /\ SafeAt(s)
           /\ Temp(s) \in Temps /\ Temp(s) \in Branches /\ at[s] \in Branches
           /\ task[s].op \in {"flatten", "compact"}
           /\ s # Free
BY TypeParts, StartType, HistoryAssumption DEF IInv

LEMMA CreateTempKeeps ==
    ASSUME IInv, NEW s \in Stores, CreateTemp(s)
    PROVE  HistoryTypeOK' /\ TaskOK(s)' /\ SafeAt(s)' /\ Survive
<1>1. flock = s /\ task[s].step = "create" /\ GoOn(s, "checkout") /\ at' = at /\ flock' = flock
  BY DEF CreateTemp, At, store
<1>2. Start(s) \in Histories /\ Temp(s) \in Branches /\ StoresOK /\ BranchesOK /\ TaskOK(s) /\ at[s] \in Branches
  BY <1>1, Holder, StartType
<1>3. BranchesOK' /\ HistGrows /\ hist'[Temp(s)] = Start(s) /\ work'[Temp(s)] = Content(Start(s))
  BY <1>2, NewBranchGrows DEF CreateTemp
<1>4. "checkout" \in Steps \ {"none"}
  BY DEF Steps
<1>5. StoresOK'
  BY <1>1, <1>2, <1>4, GoOnTyped DEF CreateTemp, StoresOK, store, aside
<1>6. TaskOK(s)'
  BY <1>1, <1>2, <1>4, GoOnTaskOK, HistoryAssumption
<1>7. /\ task'[s].step = "checkout" /\ Temp(s)' = Temp(s) /\ Covered(s)' = Covered(s)
  BY <1>1, <1>2, <1>4, GoOnFields
<1>8. Content(Covered(s)) \subseteq Content(Start(s)) /\ Start(s) # <<>>
  <2>1. CASE task[s].op = "flatten"
    <3>1. Content(Covered(s)) \subseteq Content(task[s].seen)
      BY <1>1, <1>2, CoveredType
    <3>2. Content(task[s].seen) \subseteq Content(hist[at[s]])
      BY <1>1, <2>1 DEF IInv, SafeAt
    <3> QED  BY <2>1, <3>1, <3>2 DEF Start, CreateTemp, Exists
  <2>2. CASE task[s].op = "compact"
    <3>1. task[s].next = task[s].cut + 1 /\ task[s].cut \in Nat /\ task[s].cut >= 1
          /\ task[s].cut <= Len(task[s].seen) /\ task[s].seen \in Histories
      BY <1>1, <1>2, <2>2, TaskFields DEF TaskOK, Histories
    <3>2. Covered(s) = SubSeq(task[s].seen, 1, task[s].cut)
      BY <3>1 DEF Covered
    <3>3. SubSeq(task[s].seen, 1, task[s].cut) # <<>>
      BY <3>1 DEF Histories
    <3>4. Start(s) = SubSeq(task[s].seen, 1, task[s].cut)
      BY <2>2 DEF Start
    <3> QED  BY <3>2, <3>3, <3>4
  <2> QED  BY <1>1, <2>1, <2>2, Holder
<1>9. SafeAt(s)'
  BY <1>3, <1>7, <1>8 DEF SafeAt, Exists
<1> QED  BY <1>3, <1>5, <1>6, <1>9, GrowthSurvives, TypePartsNext

LEMMA CheckoutTempKeeps ==
    ASSUME IInv, NEW s \in Stores, CheckoutTemp(s)
    PROVE  TaskOK(s)' /\ SafeAt(s)'
<1>1. flock = s /\ task[s].step = "checkout" /\ GoOn(s, "soften") /\ flock' = flock
      /\ hist' = hist /\ work' = work
  BY DEF CheckoutTemp, At
<1>2. Temp(s) \in Branches /\ StoresOK /\ BranchesOK /\ TaskOK(s) /\ SafeAt(s)
  BY <1>1, Holder
<1>3. at'[s] = Temp(s)
  BY <1>2 DEF CheckoutTemp, StoresOK
<1>4. "soften" \in Steps \ {"none"}
  BY DEF Steps
<1>5. /\ task'[s].step = "soften" /\ Temp(s)' = Temp(s) /\ Covered(s)' = Covered(s)
  BY <1>1, <1>2, <1>4, GoOnFields
<1>6. TaskOK(s)'
  BY <1>1, <1>2, <1>3, <1>4, GoOnTaskOK, HistoryAssumption
<1>7. SafeAt(s)'
  BY <1>1, <1>2, <1>3, <1>5 DEF SafeAt, Exists
<1> QED  BY <1>6, <1>7

LEMMA SoftResetKeeps ==
    ASSUME IInv, NEW s \in Stores, SoftResetToInitial(s)
    PROVE  HistoryTypeOK' /\ TaskOK(s)' /\ SafeAt(s)' /\ Survive
<1>1. flock = s /\ task[s].step = "soften" /\ GoOn(s, "squash") /\ at' = at /\ flock' = flock /\ work' = work
  BY DEF SoftResetToInitial, At, store
<1>2. Temp(s) \in Temps /\ Temp(s) \in Branches /\ StoresOK /\ BranchesOK /\ TaskOK(s) /\ SafeAt(s)
  BY <1>1, Holder
<1>3. at[s] = Temp(s) /\ hist[Temp(s)] # <<>> /\ hist[Temp(s)] \in Histories
  BY <1>1, <1>2 DEF SafeAt, Exists, BranchesOK
<1>4. 1 \in Nat /\ 1 <= Len(hist[Temp(s)])
  BY <1>3 DEF Histories
<1>5. SubSeq(hist[Temp(s)], 1, 1) \in Histories
      /\ Content(SubSeq(hist[Temp(s)], 1, 1)) \subseteq Content(hist[Temp(s)])
  BY <1>3, <1>4, ContentPrefix
<1>6. hist' = [hist EXCEPT ![Temp(s)] = SubSeq(hist[Temp(s)], 1, 1)]
      /\ work' = [work EXCEPT ![Temp(s)] = work[Temp(s)]]
  BY <1>1, <1>2, <1>3 DEF SoftResetToInitial, BranchesOK
<1>7. BranchesOK'
  <2>1. work[Temp(s)] \in SUBSET AllRows /\ Content(hist[Temp(s)]) \subseteq work[Temp(s)]
    BY <1>2 DEF BranchesOK
  <2> QED  BY <1>2, <1>5, <1>6, <2>1, SetBranch
<1>8. "squash" \in Steps \ {"none"}
  BY DEF Steps
<1>9. StoresOK'
  BY <1>1, <1>2, <1>8, GoOnTyped DEF SoftResetToInitial, StoresOK, store, aside
<1>10. TaskOK(s)'
  BY <1>1, <1>2, <1>3, <1>8, GoOnTaskOK, Names, HistoryAssumption
<1>11. /\ task'[s].step = "squash" /\ Temp(s)' = Temp(s) /\ Covered(s)' = Covered(s)
  BY <1>1, <1>2, <1>8, GoOnFields
<1>12. SafeAt(s)'
  BY <1>1, <1>2, <1>3, <1>11 DEF SafeAt
<1>13. Survive
  BY <1>1, <1>2, <1>6, Holder, TempSurvives
<1> QED  BY <1>7, <1>9, <1>10, <1>12, <1>13, TypePartsNext

LEMMA CommitSquashedKeeps ==
    ASSUME IInv, NEW s \in Stores, CommitSquashed(s)
    PROVE  HistoryTypeOK' /\ TaskOK(s)' /\ SafeAt(s)' /\ Survive
<1>1. flock = s /\ task[s].step = "squash" /\ GoOn(s, "pick") /\ at' = at /\ flock' = flock
      /\ work' = work /\ hist' = CommitAllNative(at[s])
  BY DEF CommitSquashed, At, store
<1>2. Temp(s) \in Branches /\ StoresOK /\ BranchesOK /\ TaskOK(s) /\ SafeAt(s)
  BY <1>1, Holder
<1>3. at[s] = Temp(s) /\ at[s] # Closed /\ Content(Covered(s)) \subseteq work[Temp(s)]
  BY <1>1, <1>2, HistoryAssumption DEF SafeAt
<1>4. BranchesOK' /\ HistGrows /\ work[Temp(s)] \subseteq Content(hist'[Temp(s)])
  BY <1>1, <1>2, <1>3, CommitGrows
<1>5. "pick" \in Steps \ {"none"} /\ "pick" \notin {"create", "checkout", "soften", "squash"}
  BY DEF Steps
<1>6. StoresOK'
  BY <1>1, <1>2, <1>5, GoOnTyped DEF CommitSquashed, StoresOK, store, aside
<1>7. TaskOK(s)'
  BY <1>1, <1>2, <1>3, <1>5, GoOnTaskOK
<1>8. /\ task'[s].step = "pick" /\ Temp(s)' = Temp(s) /\ Covered(s)' = Covered(s)
  BY <1>1, <1>2, <1>5, GoOnFields
<1>9. SafeAt(s)'
  BY <1>1, <1>3, <1>4, <1>8 DEF SafeAt
<1> QED  BY <1>4, <1>6, <1>7, <1>9, GrowthSurvives, TypePartsNext

LEMMA CherryPickKeeps ==
    ASSUME IInv, NEW s \in Stores, CherryPick(s)
    PROVE  HistoryTypeOK' /\ TaskOK(s)' /\ SafeAt(s)' /\ Survive
<1> DEFINE n == task[s].next
           picked == task[s].seen[n]
<1>1. flock = s /\ task[s].step = "pick" /\ at[s] = Temp(s) /\ ~PicksDone(s) /\ at' = at /\ flock' = flock
      /\ task' = [task EXCEPT ![s].next = @ + 1]
  BY DEF CherryPick, At, store
<1>2. /\ Temp(s) \in Branches /\ StoresOK /\ BranchesOK /\ TaskOK(s) /\ SafeAt(s)
      /\ task[s].op \in {"flatten", "compact"}
  BY <1>1, Holder
<1>3. n \in 1..Len(task[s].seen) /\ picked \in SUBSET AllRows /\ n \in Nat /\ n - 1 \in Nat
  BY <1>1, <1>2, CoveredType
<1>4. task[s] \in Tasks /\ task[s].seen \in Histories /\ task[s].cut \in Nat
  BY <1>2, TaskFields
<1>5. hist' = [hist EXCEPT ![Temp(s)] = Append(@, picked)]
      /\ work' = [work EXCEPT ![Temp(s)] = @ \cup picked]
  BY <1>1 DEF CherryPick
<1>6. /\ BranchesOK' /\ HistGrows
      /\ Content(hist'[Temp(s)]) = Content(hist[Temp(s)]) \cup picked
  <2> HIDE DEF picked
  <2> QED  BY <1>2, <1>3, <1>5, ReceiveGrows
<1>7. task'[s] = [task[s] EXCEPT !.next = n + 1]
  BY <1>1, <1>2 DEF StoresOK
<1>8. /\ task'[s].op = task[s].op /\ task'[s].step = "pick" /\ task'[s].seen = task[s].seen
      /\ task'[s].cut = task[s].cut /\ task'[s].next = n + 1
      /\ task'[s] \in Tasks
  BY <1>1, <1>3, <1>4, <1>7 DEF Tasks
<1>9. task' \in [Stores -> Tasks]
  <2>1. task' = [task EXCEPT ![s] = task'[s]]
    BY <1>1, <1>2 DEF StoresOK
  <2> QED  BY <1>2, <1>8, <2>1 DEF StoresOK
<1>10. StoresOK'
  BY <1>1, <1>2, <1>9 DEF CherryPick, StoresOK, store, aside
<1>11. task[s].op # "flatten"
  BY <1>2, <1>3, <1>4 DEF TaskOK, Histories
<1>12. TaskOK(s)'
  <2>1. n + 1 \in (task[s].cut + 1)..(Len(task[s].seen) + 1)
    BY <1>2, <1>3, <1>4, <1>11 DEF TaskOK, Histories
  <2> QED  BY <1>1, <1>2, <1>8, <1>11, <2>1, HistoryAssumption DEF TaskOK
<1>13. Temp(s)' = Temp(s)
  BY <1>8 DEF Temp
<1>14. Content(Covered(s)') = Content(Covered(s)) \cup picked
  <2>1. n - 1 < Len(task[s].seen) /\ (n - 1) + 1 = n /\ (n + 1) - 1 = n
    BY <1>3, <1>4 DEF Histories
  <2>2. Content(SubSeq(task[s].seen, 1, (n - 1) + 1)) =
            Content(SubSeq(task[s].seen, 1, n - 1)) \cup task[s].seen[(n - 1) + 1]
    BY <1>3, <1>4, <2>1, ContentNext
  <2>3. Covered(s)' = SubSeq(task[s].seen, 1, n) /\ Covered(s) = SubSeq(task[s].seen, 1, n - 1)
    BY <1>8, <2>1 DEF Covered
  <2> QED  BY <2>1, <2>2, <2>3
<1>15. SafeAt(s)'
  <2>1. Content(Covered(s)) \subseteq Content(hist[Temp(s)])
    BY <1>1, <1>2 DEF SafeAt
  <2>2. Content(Covered(s)') \subseteq Content(hist'[Temp(s)])
    BY <1>6, <1>14, <2>1
  <2> QED  BY <1>1, <1>8, <1>13, <2>2 DEF SafeAt
<1> QED  BY <1>6, <1>10, <1>12, <1>15, GrowthSurvives, TypePartsNext

LEMMA CheckoutMainKeeps ==
    ASSUME IInv, NEW s \in Stores, CheckoutMain(s)
    PROVE  TaskOK(s)' /\ SafeAt(s)'
<1>1. flock = s /\ task[s].step = "pick" /\ PicksDone(s) /\ GoOn(s, "reset") /\ flock' = flock
      /\ hist' = hist /\ work' = work
  BY DEF CheckoutMain, At
<1>2. StoresOK /\ TaskOK(s) /\ SafeAt(s)
  BY <1>1, Holder
<1>3. at'[s] = Main /\ Main # Closed
  BY <1>2, Names, HistoryAssumption DEF CheckoutMain, StoresOK
<1>4. "reset" \in Steps \ {"none"} /\ "reset" \notin {"create", "checkout", "soften", "squash"}
  BY DEF Steps
<1>5. /\ task'[s].step = "reset" /\ Temp(s)' = Temp(s) /\ task'[s].seen = task[s].seen
  BY <1>1, <1>2, <1>4, GoOnFields
<1>6. TaskOK(s)'
  BY <1>1, <1>2, <1>3, <1>4, GoOnTaskOK
<1>7. Content(task[s].seen) \subseteq Content(hist[Temp(s)])
  BY <1>1, <1>2, CoveredType DEF SafeAt
<1>8. SafeAt(s)'
  BY <1>1, <1>5, <1>7 DEF SafeAt
<1> QED  BY <1>6, <1>8

LEMMA ResetMainKeeps ==
    ASSUME IInv, NEW s \in Stores, ResetMain(s)
    PROVE  HistoryTypeOK' /\ TaskOK(s)' /\ SafeAt(s)' /\ Survive
<1>1. flock = s /\ task[s].step = "reset" /\ GoOn(s, "delete") /\ at' = at /\ flock' = flock
  BY DEF ResetMain, At, store
<1>2. Temp(s) \in Branches /\ StoresOK /\ BranchesOK /\ TaskOK(s) /\ SafeAt(s) /\ at[s] \in Branches
  BY <1>1, Holder
<1>3. hist[Temp(s)] \in Histories /\ Content(hist[Temp(s)]) \in SUBSET AllRows
  BY <1>2, ContentType DEF BranchesOK
<1>4. BranchesOK'
  BY <1>2, <1>3, Names, SetBranch DEF ResetMain
<1>5. "delete" \in Steps \ {"none"} /\ "delete" \notin {"create", "checkout", "soften", "squash"}
  BY DEF Steps
<1>6. StoresOK'
  BY <1>1, <1>2, <1>5, GoOnTyped DEF ResetMain, StoresOK, store, aside
<1>7. TaskOK(s)'
  BY <1>1, <1>2, <1>5, GoOnTaskOK, HistoryAssumption
<1>8. SafeAt(s)'
  BY <1>1, <1>2, <1>5, GoOnFields DEF SafeAt
<1>9. Survive
  <2>1. hist'[Main] = hist[Temp(s)] /\ \A b \in Topics : hist'[b] = hist[b]
    BY <1>2, Names, HistoryAssumption DEF ResetMain, BranchesOK
  <2>2. (Content(hist[Main]) \ Content(hist'[Main])) \cap Content(task[s].seen) = {}
    BY <1>1, <1>2, <2>1 DEF SafeAt
  <2>3. At(s, "reset")
    BY <1>1 DEF At
  <2> QED  BY <2>1, <2>2, <2>3 DEF Survive
<1> QED  BY <1>4, <1>6, <1>7, <1>8, <1>9, TypePartsNext

\* A rewrite begins; a plan is made or given up.
LEMMA BeginKeeps ==
    ASSUME IInv, NEW s \in Stores, BeginFlatten(s) \/ PlanCompact(s) \/ BeginCompact(s) \/ GivesUp(s)
    PROVE  TaskOK(s)' /\ SafeAt(s)'
<1>1. HistoryTypeOK /\ StoresOK /\ BranchesOK /\ TaskOK(s) /\ task[s] \in Tasks /\ s # Free
  BY TypeParts, TaskFields, HistoryAssumption DEF IInv
<1>2. CASE BeginFlatten(s)
  <2>1. at[s] # Closed /\ at' = at /\ flock' = s /\ hist' = hist /\ at[s] \in Branches
        /\ hist[at[s]] \in Histories
    BY <1>1, <1>2, ReadyBranch DEF BeginFlatten, CanLock, Ready, store
  <2>2. task'[s] = Flattening(hist[at[s]])
    BY <1>1, <1>2 DEF BeginFlatten, StoresOK
  <2>3. /\ task'[s].op = "flatten" /\ task'[s].step = "create" /\ task'[s].seen = hist[at[s]]
        /\ task'[s].next = Len(hist[at[s]]) + 1
    BY <2>2 DEF Flattening
  <2> QED  BY <2>1, <2>3 DEF TaskOK, SafeAt
<1>3. CASE PlanCompact(s)
  <2>1. at[s] # Closed /\ at' = at /\ flock' = flock /\ flock # s /\ hist[at[s]] \in Histories
    BY <1>1, <1>3, ReadyBranch DEF PlanCompact, Ready, store, TaskOK
  <2>2. PICK cut \in 2..Len(hist[at[s]]) : task'[s] = Planned(hist[at[s]], cut)
    BY <1>1, <1>3 DEF PlanCompact, StoresOK
  <2>3. /\ task'[s].op = "planned" /\ task'[s].step = "none" /\ task'[s].seen = hist[at[s]]
        /\ task'[s].cut = cut
    BY <2>2 DEF Planned
  <2>4. cut \in 1..Len(hist[at[s]])
    BY <2>1 DEF Histories
  <2> QED  BY <2>1, <2>3, <2>4 DEF TaskOK, SafeAt
<1>4. CASE BeginCompact(s)
  <2>1. task[s].op = "planned" /\ at' = at /\ flock' = s
        /\ task'[s] = Compacting(task[s].seen, task[s].cut, task[s].cut + 1)
    BY <1>1, <1>4 DEF BeginCompact, StoresOK, store
  <2>2. /\ task'[s].op = "compact" /\ task'[s].step = "create" /\ task'[s].seen = task[s].seen
        /\ task'[s].cut = task[s].cut /\ task'[s].next = task[s].cut + 1
    BY <2>1 DEF Compacting
  <2>3. task[s].seen \in Histories /\ task[s].cut \in Nat /\ task[s].cut \in 1..Len(task[s].seen) /\ at[s] # Closed
    BY <1>1, <2>1, TaskFields DEF TaskOK
  <2>4. task[s].cut + 1 \in (task[s].cut + 1)..(Len(task[s].seen) + 1)
    BY <2>3 DEF Histories
  <2> QED  BY <2>1, <2>2, <2>3, <2>4 DEF TaskOK, SafeAt
<1>5. CASE GivesUp(s)
  <2>1. task'[s] = NoTask /\ flock' = flock /\ flock # s
    BY <1>1, <1>5 DEF GivesUp, StoresOK, TaskOK
  <2> QED  BY <2>1 DEF NoTask, TaskOK, SafeAt
<1> QED  BY <1>2, <1>3, <1>4, <1>5

\* A rewrite is over, or has failed, or its store is gone: the lock is free again.
LEMMA EndKeeps ==
    ASSUME IInv, NEW s \in Stores,
           \/ Leave(s) \/ DeleteTemp(s)
           \/ \E retryable \in BOOLEAN : FlattenFails(s, retryable)
           \/ \E back, deleted, retryable \in BOOLEAN : CompactFails(s, back, deleted, retryable)
    PROVE  HistoryTypeOK' /\ TaskOK(s)' /\ SafeAt(s)' /\ Survive
<1>1. HistoryTypeOK /\ StoresOK /\ BranchesOK /\ TaskOK(s) /\ task[s] \in Tasks /\ s # Free
  BY TypeParts, TaskFields, HistoryAssumption DEF IInv
<1>2. /\ task'[s] = NoTask \/ (task[s].op = "compact" /\ task'[s] = Planned(task[s].seen, task[s].cut) /\ at'[s] # Closed)
      /\ flock' # s
  <2>1. CASE Leave(s)
    BY <1>1, <2>1 DEF Leave, StoresOK
  <2>2. CASE DeleteTemp(s)
    BY <1>1, <2>2 DEF DeleteTemp, StoresOK
  <2>3. ASSUME NEW retryable \in BOOLEAN, FlattenFails(s, retryable)
        PROVE  task'[s] = NoTask /\ flock' # s
    BY <1>1, <2>3 DEF FlattenFails, StoresOK
  <2>4. ASSUME NEW back \in BOOLEAN, NEW deleted \in BOOLEAN, NEW retryable \in BOOLEAN,
               CompactFails(s, back, deleted, retryable)
        PROVE  /\ task'[s] = NoTask \/ (task[s].op = "compact" /\ task'[s] = Planned(task[s].seen, task[s].cut) /\ at'[s] # Closed)
               /\ flock' # s
    <3>1. at[s] # Closed
      BY <1>1, <2>4 DEF CompactFails, TaskOK
    <3>2. at'[s] # Closed
      BY <1>1, <2>4, <3>1, Names, HistoryAssumption DEF CompactFails, StoresOK
    <3> QED  BY <1>1, <2>4, <3>2 DEF CompactFails, StoresOK
  <2> QED  BY <2>1, <2>2, <2>3, <2>4
<1>3. TaskOK(s)' /\ SafeAt(s)'
  <2>1. CASE task'[s] = NoTask
    BY <1>2, <2>1 DEF NoTask, TaskOK, SafeAt
  <2>2. CASE task[s].op = "compact" /\ task'[s] = Planned(task[s].seen, task[s].cut) /\ at'[s] # Closed
    BY <1>1, <1>2, <2>2 DEF Planned, TaskOK, SafeAt
  <2> QED  BY <1>2, <2>1, <2>2
<1>4. ASSUME hist' = hist PROVE Survive
  BY <1>4, GrowthSurvives DEF HistGrows
<1>5. /\ <<>> \in Histories /\ Content(<<>>) = {} /\ {} \in SUBSET AllRows
  BY DEF Histories, Content
<1>6. CASE Leave(s)
  BY <1>1, <1>3, <1>4, <1>6, StoreStepsTyped
<1>7. CASE DeleteTemp(s)
  <2>1. Temp(s) \in Temps /\ Temp(s) \in Branches
    BY Names
  <2>2. BranchesOK'
    BY <1>1, <1>5, <1>7, <2>1, SetBranch DEF DeleteTemp
  <2>3. task' \in [Stores -> Tasks]
    BY <1>1, <1>7, TaskFields, SetTask DEF DeleteTemp
  <2>4. StoresOK'
    BY <1>1, <1>7, <2>3 DEF DeleteTemp, StoresOK, store, aside
  <2>5. Survive
    BY <1>1, <1>7, <2>1, TempSurvives DEF DeleteTemp
  <2> QED  BY <1>3, <2>2, <2>4, <2>5, TypePartsNext
<1>8. ASSUME NEW retryable \in BOOLEAN, FlattenFails(s, retryable)
      PROVE  HistoryTypeOK' /\ TaskOK(s)' /\ SafeAt(s)' /\ Survive
  BY <1>1, <1>3, <1>4, <1>8, StoreStepsTyped
<1>9. ASSUME NEW back \in BOOLEAN, NEW deleted \in BOOLEAN, NEW retryable \in BOOLEAN,
             CompactFails(s, back, deleted, retryable)
      PROVE  HistoryTypeOK' /\ TaskOK(s)' /\ SafeAt(s)' /\ Survive
  <2>1. CompactTmp \in Temps /\ CompactTmp \in Branches
    BY Names
  <2>2. ASSUME CleansUp(s), deleted PROVE BranchesOK' /\ Survive
    <3>1. hist' = [hist EXCEPT ![CompactTmp] = <<>>] /\ work' = [work EXCEPT ![CompactTmp] = {}]
      BY <1>9, <2>2 DEF CompactFails
    <3> QED  BY <1>1, <1>5, <2>1, <3>1, SetBranch, TempSurvives
  <2>3. ASSUME ~(CleansUp(s) /\ deleted) PROVE BranchesOK' /\ Survive
    <3>1. hist' = hist /\ work' = work
      BY <1>9, <2>3 DEF CompactFails
    <3> QED  BY <1>1, <1>4, <3>1 DEF BranchesOK
  <2>4. BranchesOK' /\ Survive
    BY <2>2, <2>3
  <2>5. Planned(task[s].seen, task[s].cut) \in Tasks /\ NoTask \in Tasks
    BY <1>1, TaskFields, NewTasks
  <2>6. task' \in [Stores -> Tasks]
    BY <1>1, <1>9, <2>5, SetTask DEF CompactFails
  <2>7. at' \in [Stores -> Branches \cup {Closed}] /\ pooled' \in [Stores -> BOOLEAN]
    BY <1>1, <1>9, Names DEF CompactFails, StoresOK
  <2>8. abandoned' \in SUBSET Temps /\ troubles' \in 0..MaxTroubles
    BY <1>1, <1>9, Names, FailsTyped DEF CompactFails, StoresOK
  <2>9. StoresOK'
    BY <1>1, <1>9, <2>6, <2>7, <2>8 DEF CompactFails, StoresOK
  <2> QED  BY <1>3, <2>4, <2>9, TypePartsNext
<1> QED  BY <1>6, <1>7, <1>8, <1>9

-----------------------------------------------------------------------------
(* The steps of other stores. *)

\* Steps that need the file lock free, or take it.
Locking(s) ==
    \/ \E b \in {Main} \cup Topics : Checkout(s, b)
    \/ LoseConnection(s)
    \/ \E r \in AllRows : Write(s, r)
    \/ CommitTables(s) \/ CommitWithConfig(s)
    \/ \E b \in Topics : Branch(s, b)
    \/ \E b \in Topics \cup Temps : DeleteBranch(s, b)
    \/ \E b \in {Main} \cup Topics : Merge(s, b)
    \/ BeginFlatten(s) \/ BeginCompact(s)

\* Steps of a store that holds it.
Holding(s) ==
    \/ CreateTemp(s) \/ CheckoutTemp(s) \/ SoftResetToInitial(s) \/ CommitSquashed(s)
    \/ CherryPick(s) \/ CheckoutMain(s) \/ ResetMain(s) \/ DeleteTemp(s)
    \/ \E retryable \in BOOLEAN : FlattenFails(s, retryable)
    \/ \E back, deleted, retryable \in BOOLEAN : CompactFails(s, back, deleted, retryable)

\* Steps that do not look at it.
Lockless(s) ==
    \/ \E b \in Requested : Open(s, b)
    \/ Leave(s) \/ CurrentBranch(s) \/ PlanCompact(s) \/ GivesUp(s)
    \/ \E r \in DataRows : Pull(s, r)

LEMMA NextSplit == HistoryNext <=> \E s \in Stores : Locking(s) \/ Holding(s) \/ Lockless(s)
BY DEF HistoryNext, Locking, Holding, Lockless

\* What a step leaves alone of the other stores.
LEMMA LockingFrame ==
    ASSUME StoresOK, NEW s \in Stores, NEW t \in Stores, s # t, Locking(s)
    PROVE  task'[t] = task[t] /\ at'[t] = at[t] /\ flock = Free /\ flock' \in {Free, s}
<1> USE DEF StoresOK, store, aside
<1>1. ASSUME NEW b \in {Main} \cup Topics, Checkout(s, b)
      PROVE  task'[t] = task[t] /\ at'[t] = at[t] /\ flock = Free /\ flock' \in {Free, s}
  BY <1>1 DEF Checkout
<1>2. CASE LoseConnection(s)
  BY <1>2 DEF LoseConnection
<1>3. ASSUME NEW r \in AllRows, Write(s, r)
      PROVE  task'[t] = task[t] /\ at'[t] = at[t] /\ flock = Free /\ flock' \in {Free, s}
  BY <1>3 DEF Write, CanLock
<1>4. CASE CommitTables(s) \/ CommitWithConfig(s)
  BY <1>4 DEF CommitTables, CommitWithConfig, CanLock
<1>5. ASSUME NEW b, Branch(s, b) \/ DeleteBranch(s, b) \/ Merge(s, b)
      PROVE  task'[t] = task[t] /\ at'[t] = at[t] /\ flock = Free /\ flock' \in {Free, s}
  BY <1>5 DEF Branch, DeleteBranch, Merge, CanLock
<1>6. CASE BeginFlatten(s) \/ BeginCompact(s)
  BY <1>6 DEF BeginFlatten, BeginCompact, CanLock
<1> QED  BY <1>1, <1>2, <1>3, <1>4, <1>5, <1>6 DEF Locking

LEMMA HoldingFrame ==
    ASSUME StoresOK, NEW s \in Stores, NEW t \in Stores, s # t, Holding(s)
    PROVE  task'[t] = task[t] /\ at'[t] = at[t] /\ flock = s /\ flock' \in {Free, s}
<1> USE DEF StoresOK, store, aside
<1>1. CASE CreateTemp(s) \/ CheckoutTemp(s) \/ SoftResetToInitial(s) \/ CommitSquashed(s)
  BY <1>1 DEF CreateTemp, CheckoutTemp, SoftResetToInitial, CommitSquashed, At, GoOn
<1>2. CASE CherryPick(s) \/ CheckoutMain(s) \/ ResetMain(s) \/ DeleteTemp(s)
  BY <1>2 DEF CherryPick, CheckoutMain, ResetMain, DeleteTemp, At, GoOn
<1>3. ASSUME NEW retryable \in BOOLEAN, FlattenFails(s, retryable)
      PROVE  task'[t] = task[t] /\ at'[t] = at[t] /\ flock = s /\ flock' \in {Free, s}
  BY <1>3 DEF FlattenFails
<1>4. ASSUME NEW back \in BOOLEAN, NEW deleted \in BOOLEAN, NEW retryable \in BOOLEAN,
             CompactFails(s, back, deleted, retryable)
      PROVE  task'[t] = task[t] /\ at'[t] = at[t] /\ flock = s /\ flock' \in {Free, s}
  BY <1>4 DEF CompactFails
<1> QED  BY <1>1, <1>2, <1>3, <1>4 DEF Holding

LEMMA LocklessFrame ==
    ASSUME HistoryTypeOK, NEW s \in Stores, NEW t \in Stores, s # t, Lockless(s)
    PROVE  /\ task'[t] = task[t] /\ at'[t] = at[t] /\ flock' \in {flock, Free} /\ (flock # s => flock' = flock)
           /\ HistGrows /\ WorkGrows
           /\ \A b \in Branches : Exists(b) => hist'[b] # <<>>
<1>1. StoresOK /\ BranchesOK
  BY TypeParts
<1>2. CASE \E r \in DataRows : Pull(s, r)
  <2>1. PICK r \in DataRows : Pull(s, r)
    BY <1>2
  <2>2. HistGrows /\ WorkGrows
    BY <2>1, UserStepsGrow
  <2>3. at[s] \in Branches /\ hist[at[s]] \in Histories
    BY <2>1, ReadyBranch DEF Pull
  <2>4. Append(hist[at[s]], {r}) # <<>>
    <3>1. {r} \in SUBSET AllRows
      BY DEF AllRows
    <3>2. Len(hist[at[s]]) + 1 \in DOMAIN Append(hist[at[s]], {r})
      BY <2>3, <3>1 DEF Histories
    <3>3. DOMAIN <<>> = {}
      OBVIOUS
    <3> QED  BY <3>2, <3>3
  <2>5. \A b \in Branches : Exists(b) => hist'[b] # <<>>
    BY <1>1, <2>1, <2>3, <2>4 DEF Pull, BranchesOK, Exists
  <2> QED  BY <2>1, <2>2, <2>5 DEF Pull, store
<1>3. CASE ~\E r \in DataRows : Pull(s, r)
  <2>1. /\ hist' = hist /\ work' = work
        /\ task'[t] = task[t] /\ at'[t] = at[t] /\ flock' \in {flock, Free} /\ (flock # s => flock' = flock)
    BY <1>1, <1>3 DEF Lockless, Open, Leave, CurrentBranch, PlanCompact, GivesUp, StoresOK, store, aside
  <2> QED  BY <2>1 DEF HistGrows, WorkGrows, Exists
<1> QED  BY <1>2, <1>3

\* No step of another store disturbs the rewrite in progress.
LEMMA OthersKeep ==
    ASSUME IInv, NEW s \in Stores, NEW t \in Stores, s # t,
           Locking(s) \/ Holding(s) \/ Lockless(s)
    PROVE  TaskOK(t)' /\ SafeAt(t)'
<1>1. HistoryTypeOK /\ StoresOK /\ BranchesOK /\ TaskOK(t) /\ SafeAt(t) /\ t # Free
  BY TypeParts, HistoryAssumption DEF IInv
<1>2. task'[t] = task[t] /\ at'[t] = at[t] /\ (flock = t <=> flock' = t)
  BY <1>1, LockingFrame, HoldingFrame, LocklessFrame
<1>3. TaskOK(t)'
  BY <1>1, <1>2 DEF TaskOK
<1> SUFFICES SafeAt(t)'
  BY <1>3
<1>4. CASE task[t].step = "none"
  BY <1>2, <1>4 DEF SafeAt
<1>5. CASE task[t].step # "none"
  <2>1. flock = t
    BY <1>1, <1>5, TaskFields DEF TaskOK, Ops
  <2>2. Lockless(s)
    BY <1>1, <2>1, LockingFrame, HoldingFrame
  <2>3. HistGrows /\ WorkGrows /\ \A b \in Branches : Exists(b) => hist'[b] # <<>>
    BY <1>1, <2>2, LocklessFrame
  <2>4. Temp(t) \in Branches /\ at[t] \in Branches
    BY <2>1, Holder
  <2>5. Temp(t)' = Temp(t) /\ Covered(t)' = Covered(t)
    BY <1>2 DEF Temp, Covered
  <2> QED  BY <1>1, <1>2, <2>3, <2>4, <2>5 DEF SafeAt, HistGrows, WorkGrows, Exists
<1> QED  BY <1>4, <1>5

\* A store's own calls outside a rewrite.
LEMMA UserKeeps ==
    ASSUME IInv, NEW s \in Stores,
           \/ \E b \in Requested : Open(s, b)
           \/ \E b \in {Main} \cup Topics : Checkout(s, b)
           \/ LoseConnection(s) \/ CurrentBranch(s)
           \/ \E r \in AllRows : Write(s, r)
           \/ CommitTables(s) \/ CommitWithConfig(s)
           \/ \E b \in Topics : Branch(s, b)
           \/ \E b \in Topics \cup Temps : DeleteBranch(s, b)
           \/ \E b \in {Main} \cup Topics : Merge(s, b)
           \/ \E r \in DataRows : Pull(s, r)
    PROVE  TaskOK(s)' /\ SafeAt(s)'
<1>1. HistoryTypeOK /\ StoresOK /\ BranchesOK /\ TaskOK(s) /\ s # Free /\ task[s].op \in Ops /\ Main # Closed
  BY TypeParts, TaskFields, Names, HistoryAssumption DEF IInv
<1>2. ASSUME task' = task, flock' = flock, task[s].op \in {"idle", "planned"},
             task[s].op = "planned" => at'[s] # Closed
      PROVE  TaskOK(s)' /\ SafeAt(s)'
  BY <1>1, <1>2 DEF TaskOK, SafeAt
<1>3. ASSUME NEW b \in Requested, Open(s, b) PROVE TaskOK(s)' /\ SafeAt(s)'
  BY <1>1, <1>2, <1>3 DEF Open, TaskOK, Ops, StoresOK
<1>4. ASSUME NEW b \in {Main} \cup Topics, Checkout(s, b) PROVE TaskOK(s)' /\ SafeAt(s)'
  BY <1>1, <1>2, <1>4 DEF Checkout
<1>5. CASE LoseConnection(s)
  BY <1>1, <1>2, <1>5 DEF LoseConnection, TaskOK, Ops, StoresOK
<1>6. CASE CurrentBranch(s)
  BY <1>1, <1>2, <1>6 DEF CurrentBranch, Ready
<1>7. ASSUME NEW r, Write(s, r) \/ Pull(s, r) PROVE TaskOK(s)' /\ SafeAt(s)'
  BY <1>1, <1>2, <1>7 DEF Write, Pull, CanLock, Ready, store
<1>8. CASE CommitTables(s) \/ CommitWithConfig(s)
  BY <1>1, <1>2, <1>8 DEF CommitTables, CommitWithConfig, CanLock, Ready, store
<1>9. ASSUME NEW b, Branch(s, b) \/ DeleteBranch(s, b) \/ Merge(s, b) PROVE TaskOK(s)' /\ SafeAt(s)'
  BY <1>1, <1>2, <1>9 DEF Branch, DeleteBranch, Merge, CanLock, Ready, store
<1> QED  BY <1>3, <1>4, <1>5, <1>6, <1>7, <1>8, <1>9

\* Deleting a branch loses no more than the branch.
LEMMA DeleteBranchKeeps ==
    ASSUME HistoryTypeOK, NEW s \in Stores, NEW b \in Topics \cup Temps, DeleteBranch(s, b)
    PROVE  HistoryTypeOK' /\ Survive
<1>1. BranchesOK /\ StoresOK /\ b \in Branches /\ at[s] \in Branches /\ b # Main
  BY TypeParts, Names, ReadyBranch, HistoryAssumption DEF DeleteBranch, CanLock
<1>2. /\ <<>> \in Histories /\ Content(<<>>) = {} /\ {} \in SUBSET AllRows
  BY DEF Histories, Content
<1>3. BranchesOK'
  BY <1>1, <1>2, SetBranch DEF DeleteBranch
<1>4. StoresOK'
  BY <1>1 DEF DeleteBranch, StoresOK
<1>5. \A c \in Branches : hist'[c] = IF c = b THEN <<>> ELSE hist[c]
  BY <1>1 DEF DeleteBranch, BranchesOK
<1>6. Survive
  BY <1>1, <1>5, Names DEF Survive
<1> QED  BY <1>3, <1>4, <1>6, TypePartsNext

-----------------------------------------------------------------------------
(* The theorems. *)

LEMMA InitIInv == HistoryInit => IInv
<1> SUFFICES ASSUME HistoryInit PROVE IInv
  OBVIOUS
<1>1. HistoryTypeOK
  BY InitTyped
<1>2. ASSUME NEW s \in Stores PROVE TaskOK(s) /\ SafeAt(s)
  BY HistoryAssumption DEF HistoryInit, NoTask, TaskOK, SafeAt
<1> QED  BY <1>1, <1>2 DEF IInv

\* Every step keeps the types and loses nothing that it must not lose.
LEMMA StepTyped ==
    ASSUME IInv, NEW s \in Stores, Locking(s) \/ Holding(s) \/ Lockless(s)
    PROVE  HistoryTypeOK' /\ Survive
<1>1. HistoryTypeOK
  BY DEF IInv
<1>2. ASSUME HistoryTypeOK', hist' = hist PROVE HistoryTypeOK' /\ Survive
  BY <1>2, GrowthSurvives DEF HistGrows
<1>3. CASE Locking(s)
  <2>1. ASSUME NEW b \in {Main} \cup Topics, Checkout(s, b) PROVE HistoryTypeOK' /\ Survive
    BY <1>1, <1>2, <2>1, StoreStepsTyped
  <2>2. CASE LoseConnection(s) \/ BeginFlatten(s) \/ BeginCompact(s)
    BY <1>1, <1>2, <2>2, StoreStepsTyped
  <2>3. ASSUME NEW b \in Topics \cup Temps, DeleteBranch(s, b) PROVE HistoryTypeOK' /\ Survive
    BY <1>1, <2>3, DeleteBranchKeeps
  <2>4. CASE \/ \E r \in AllRows : Write(s, r)
             \/ CommitTables(s) \/ CommitWithConfig(s)
             \/ \E b \in Topics : Branch(s, b)
             \/ \E b \in {Main} \cup Topics : Merge(s, b)
    BY <1>1, <2>4, UserStepsGrow, GrowthSurvives
  <2> QED  BY <1>3, <2>1, <2>2, <2>3, <2>4 DEF Locking
<1>4. CASE Holding(s)
  <2>1. CASE CheckoutTemp(s) \/ CheckoutMain(s)
    BY <1>1, <1>2, <2>1, StoreStepsTyped
  <2>2. CASE \/ CreateTemp(s) \/ SoftResetToInitial(s) \/ CommitSquashed(s) \/ CherryPick(s) \/ ResetMain(s)
    BY <2>2, CreateTempKeeps, SoftResetKeeps, CommitSquashedKeeps, CherryPickKeeps, ResetMainKeeps
  <2>3. CASE \/ DeleteTemp(s)
             \/ \E retryable \in BOOLEAN : FlattenFails(s, retryable)
             \/ \E back, deleted, retryable \in BOOLEAN : CompactFails(s, back, deleted, retryable)
    BY <2>3, EndKeeps
  <2> QED  BY <1>4, <2>1, <2>2, <2>3 DEF Holding
<1>5. CASE Lockless(s)
  <2>1. CASE (\E b \in Requested : Open(s, b)) \/ Leave(s) \/ CurrentBranch(s) \/ PlanCompact(s) \/ GivesUp(s)
    BY <1>1, <1>2, <2>1, StoreStepsTyped
  <2>2. CASE \E r \in DataRows : Pull(s, r)
    BY <1>1, <2>2, UserStepsGrow, GrowthSurvives
  <2> QED  BY <1>5, <2>1, <2>2 DEF Lockless
<1> QED  BY <1>3, <1>4, <1>5

\* A store's own steps keep what is known of its task.
LEMMA OwnKeeps ==
    ASSUME IInv, NEW s \in Stores, Locking(s) \/ Holding(s) \/ Lockless(s)
    PROVE  TaskOK(s)' /\ SafeAt(s)'
<1>1. CASE Locking(s)
  BY <1>1, UserKeeps, BeginKeeps DEF Locking
<1>2. CASE Holding(s)
  BY <1>2, CreateTempKeeps, CheckoutTempKeeps, SoftResetKeeps, CommitSquashedKeeps, CherryPickKeeps,
     CheckoutMainKeeps, ResetMainKeeps, EndKeeps DEF Holding
<1>3. CASE Lockless(s)
  BY <1>3, UserKeeps, BeginKeeps, EndKeeps DEF Lockless
<1> QED  BY <1>1, <1>2, <1>3

LEMMA NextIInv == IInv /\ [HistoryNext]_historyVars => IInv' /\ (historyVars' = historyVars \/ Survive)
<1> SUFFICES ASSUME IInv, [HistoryNext]_historyVars PROVE IInv' /\ (historyVars' = historyVars \/ Survive)
  OBVIOUS
<1>1. CASE HistoryNext
  <2>1. PICK s \in Stores : Locking(s) \/ Holding(s) \/ Lockless(s)
    BY <1>1, NextSplit
  <2>2. HistoryTypeOK' /\ Survive
    BY <2>1, StepTyped
  <2>3. ASSUME NEW t \in Stores PROVE TaskOK(t)' /\ SafeAt(t)'
    BY <2>1, OwnKeeps, OthersKeep
  <2> QED  BY <2>2, <2>3 DEF IInv
<1>2. CASE historyVars' = historyVars
  <2>1. /\ hist' = hist /\ work' = work /\ flock' = flock /\ pooled' = pooled /\ at' = at /\ named' = named
        /\ task' = task /\ written' = written /\ abandoned' = abandoned
        /\ troubles' = troubles /\ rewrites' = rewrites
    BY <1>2 DEF historyVars, store, aside
  <2>2. HistoryTypeOK'
    BY <2>1 DEF IInv, HistoryTypeOK
  <2>3. ASSUME NEW t \in Stores PROVE TaskOK(t)' /\ SafeAt(t)'
    BY <2>1 DEF IInv, TaskOK, SafeAt, Covered, Exists, Temp
  <2> QED  BY <1>2, <2>2, <2>3 DEF IInv
<1> QED  BY <1>1, <1>2

\* Whatever the stores do, and wherever they die, each variable stays in its type and the
\* rows committed on a branch stay in its working set.
THEOREM HistoryTypes == HistorySpec => []HistoryTypeOK
<1>1. IInv /\ [HistoryNext]_historyVars => IInv'
  BY NextIInv
<1>2. IInv => HistoryTypeOK
  BY DEF IInv
<1> QED  BY InitIInv, <1>1, <1>2, PTL DEF HistorySpec

\* Rows committed to main or a topic branch are gone only with the branch, or when Flatten or
\* Compact resets main, and then only if they were not in the log that it started from: a
\* rewrite that fails, whose process dies at any statement, or whose temporary branch another
\* store pulls into, loses none of them.
THEOREM RowsSeenSurvive == HistorySpec => CommittedRowsSurvive
<1>1. IInv /\ [HistoryNext]_historyVars => IInv'
  BY NextIInv
<1>2. IInv /\ [HistoryNext]_historyVars =>
        [\A b \in {Main} \cup Topics :
          LET lost == Content(hist[b]) \ Content(hist[b])'
          IN  lost # {} =>
                  \/ b # Main /\ ~Exists(b)'
                  \/ b = Main /\ \E s \in Stores : At(s, "reset") /\ lost \cap Content(task[s].seen) = {}]_historyVars
  BY NextIInv DEF Survive, Content, Exists
<1> QED  BY InitIInv, <1>1, <1>2, PTL DEF HistorySpec, CommittedRowsSurvive

-----------------------------------------------------------------------------
(* Temporary branches, and where a store is between calls. *)

\* The holder, at a step that is not the first, owns its temporary branch.
Owned(t) == flock # Free /\ Temp(flock) = t /\ task[flock].step # "create"

\* A commit to a branch that is there makes no other.
LEMMA CommittedExists ==
    ASSUME BranchesOK, NEW b \in Branches, Exists(b), NEW rows \in SUBSET AllRows,
           hist' = Committed(b, rows) \/ hist' = [hist EXCEPT ![b] = Append(@, rows)]
    PROVE  \A c \in Branches : hist'[c] # <<>> => Exists(c)
BY DEF Committed, BranchesOK, Exists

\* Calls of users make no temporary branch, and forget what was abandoned only with it.
LEMMA LockingTemps ==
    ASSUME HistoryTypeOK, NEW s \in Stores, Locking(s)
    PROVE  \A t \in Temps : hist'[t] # <<>> => Exists(t) /\ (t \in abandoned => t \in abandoned')
<1> SUFFICES ASSUME NEW t \in Temps, hist'[t] # <<>>
    PROVE  Exists(t) /\ (t \in abandoned => t \in abandoned')
  OBVIOUS
<1>1. BranchesOK /\ StoresOK /\ t \in Branches /\ t \notin {Main} \cup Topics
  BY TypeParts, Names, HistoryAssumption
<1>2. CASE hist' = hist /\ abandoned' = abandoned
  BY <1>2 DEF Exists
<1>3. ASSUME NEW b \in Topics \cup Temps, DeleteBranch(s, b)
      PROVE  Exists(t) /\ (t \in abandoned => t \in abandoned')
  BY <1>1, <1>3, Names DEF DeleteBranch, BranchesOK, Exists
<1>4. ASSUME NEW b \in Topics, Branch(s, b)
      PROVE  Exists(t) /\ (t \in abandoned => t \in abandoned')
  BY <1>1, <1>4 DEF Branch, BranchesOK, Exists, aside
<1>5. CASE CommitTables(s) \/ CommitWithConfig(s)
  <2>1. at[s] \in Branches /\ Exists(at[s])
    BY <1>5, ReadyBranch DEF CommitTables, CommitWithConfig, CanLock, Ready
  <2>2. PendingTables(at[s]) \in SUBSET AllRows /\ PendingTables(at[s]) \cap DataRows \in SUBSET AllRows
    BY <1>1, <2>1 DEF PendingTables, BranchesOK
  <2>3. hist'[t] # <<>> => Exists(t)
    BY <1>1, <1>5, <2>1, <2>2, CommittedExists
    DEF CommitTables, CommitWithConfig, CommitNative, CommitAllNative
  <2> QED  BY <1>5, <2>3 DEF CommitTables, CommitWithConfig, aside
<1>6. ASSUME NEW b \in {Main} \cup Topics, Merge(s, b)
      PROVE  Exists(t) /\ (t \in abandoned => t \in abandoned')
  <2>1. at[s] \in Branches /\ Exists(at[s])
    BY <1>6, ReadyBranch DEF Merge, CanLock, Ready
  <2>2. t # at[s] => hist'[t] = hist[t]
    BY <1>1, <1>6 DEF Merge, Committed, BranchesOK
  <2> QED  BY <1>6, <2>1, <2>2 DEF Merge, Exists, aside
<1> QED
  BY <1>2, <1>3, <1>4, <1>5, <1>6
  DEF Locking, Checkout, LoseConnection, Write, BeginFlatten, BeginCompact, aside

\* So do the steps that do not look at the lock, except that a process that dies in the
\* middle of a rewrite leaves its branch abandoned.
LEMMA LocklessTemps ==
    ASSUME IInv, NoTempLeftOver, NEW s \in Stores, Lockless(s)
    PROVE  NoTempLeftOver'
<1> SUFFICES ASSUME NEW t \in Temps, hist'[t] # <<>>
    PROVE  t \in abandoned' \/ Owned(t)'
  BY DEF NoTempLeftOver, Owned, Exists
<1>1. HistoryTypeOK /\ BranchesOK /\ StoresOK /\ t \in Branches /\ s # Free
  BY TypeParts, Names, HistoryAssumption DEF IInv
<1>2. Exists(t)
  <2>1. CASE \E r \in DataRows : Pull(s, r)
    <3>1. PICK r \in DataRows : Pull(s, r)
      BY <2>1
    <3>2. at[s] \in Branches /\ Exists(at[s]) /\ {r} \in SUBSET AllRows
      BY <1>1, <3>1, ReadyBranch DEF Pull, Ready, AllRows
    <3> QED  BY <1>1, <3>1, <3>2, CommittedExists DEF Pull
  <2>2. CASE ~\E r \in DataRows : Pull(s, r)
    BY <2>2 DEF Lockless, Open, Leave, CurrentBranch, PlanCompact, GivesUp, Exists
  <2> QED  BY <2>1, <2>2
<1>3. t \in abandoned \/ Owned(t)
  BY <1>2 DEF NoTempLeftOver, Owned
<1>4. abandoned \subseteq abandoned'
  BY DEF Lockless, Open, Leave, CurrentBranch, PlanCompact, GivesUp, Pull, aside
<1>5. CASE flock = s
  <2>1. task[s].step # "none" /\ task[s].op \in {"flatten", "compact"}
    BY <1>1, <1>5, Holder DEF TaskOK
  <2>2. Leave(s) \/ UNCHANGED <<task, flock>>
    BY <1>5, <2>1 DEF Lockless, Open, CurrentBranch, PlanCompact, GivesUp, Pull, Ready
  <2>3. CASE Leave(s)
    BY <1>3, <1>4, <1>5, <2>3 DEF Leave, Owned
  <2>4. CASE UNCHANGED <<task, flock>>
    BY <1>3, <1>4, <2>4 DEF Owned, Temp
  <2> QED  BY <2>2, <2>3, <2>4
<1>6. CASE flock # s /\ flock # Free
  <2>1. flock \in Stores /\ flock' = flock /\ task'[flock] = task[flock]
    BY <1>1, <1>6, LocklessFrame DEF StoresOK
  <2> QED  BY <1>3, <1>4, <2>1 DEF Owned, Temp
<1>7. CASE flock = Free
  BY <1>3, <1>4, <1>7 DEF Owned
<1> QED  BY <1>5, <1>6, <1>7

\* A rewrite works on its temporary branch from the moment it is made; it notes as
\* abandoned what it does not delete.
LEMMA HoldingTemps ==
    ASSUME IInv, NoTempLeftOver, NEW s \in Stores, Holding(s)
    PROVE  NoTempLeftOver'
<1> SUFFICES ASSUME NEW t \in Temps, hist'[t] # <<>>
    PROVE  t \in abandoned' \/ Owned(t)'
  BY DEF NoTempLeftOver, Owned, Exists
<1>1. /\ HistoryTypeOK /\ BranchesOK /\ StoresOK /\ t \in Branches /\ t # Main /\ s # Free
      /\ flock = s /\ SafeAt(s) /\ Temp(s) \in Temps
  <2>1. flock = s
    BY DEF Holding, CreateTemp, CheckoutTemp, SoftResetToInitial, CommitSquashed, CherryPick,
           CheckoutMain, ResetMain, DeleteTemp, At, FlattenFails, CompactFails
  <2> QED  BY <2>1, Holder, TypeParts, Names, HistoryAssumption
<1>2. Exists(t) => t \in abandoned \/ (Temp(s) = t /\ task[s].step # "create")
  BY <1>1 DEF NoTempLeftOver
<1>3. ASSUME flock' = s, NEW step \in Steps \ {"create"}, GoOn(s, step),
             abandoned' = abandoned, hist'[t] # <<>> => Exists(t) \/ Temp(s) = t
      PROVE  t \in abandoned' \/ Owned(t)'
  <2>1. Temp(s)' = Temp(s) /\ task'[s].step = step
    BY <1>1, <1>3, GoOnFields
  <2> QED  BY <1>1, <1>2, <1>3, <2>1 DEF Owned, Temp
<1>4. "checkout" \in Steps \ {"create"} /\ "soften" \in Steps \ {"create"}
      /\ "squash" \in Steps \ {"create"} /\ "pick" \in Steps \ {"create"}
      /\ "reset" \in Steps \ {"create"} /\ "delete" \in Steps \ {"create"}
  BY DEF Steps
<1>5. CASE CreateTemp(s)
  <2>1. hist'[t] # <<>> => Exists(t) \/ Temp(s) = t
    BY <1>1, <1>5 DEF CreateTemp, BranchesOK, Exists
  <2> QED  BY <1>3, <1>4, <1>5, <2>1 DEF CreateTemp, At, aside
<1>6. CASE CheckoutTemp(s) \/ CheckoutMain(s)
  BY <1>3, <1>4, <1>6 DEF CheckoutTemp, CheckoutMain, At, aside, Exists
<1>7. CASE SoftResetToInitial(s)
  <2>1. hist'[t] # <<>> => Exists(t) \/ Temp(s) = t
    BY <1>1, <1>7 DEF SoftResetToInitial, At, SafeAt, BranchesOK, Exists
  <2> QED  BY <1>3, <1>4, <1>7, <2>1 DEF SoftResetToInitial, At, aside
<1>8. CASE CommitSquashed(s)
  <2>1. hist'[t] # <<>> => Exists(t) \/ Temp(s) = t
    BY <1>1, <1>8 DEF CommitSquashed, CommitAllNative, Committed, At, SafeAt, BranchesOK, Exists
  <2> QED  BY <1>3, <1>4, <1>8, <2>1 DEF CommitSquashed, At, aside
<1>9. CASE CherryPick(s)
  <2>1. hist'[t] # <<>> => Exists(t) \/ Temp(s) = t
    BY <1>1, <1>9 DEF CherryPick, At, SafeAt, BranchesOK, Exists
  <2>2. Temp(s)' = Temp(s) /\ task'[s].step = "pick"
    <3>1. task[s] \in Tasks /\ task'[s] = [task[s] EXCEPT !.next = task[s].next + 1]
      BY <1>1, <1>9 DEF CherryPick, StoresOK
    <3>2. task'[s].op = task[s].op /\ task'[s].step = task[s].step
      BY <3>1 DEF Tasks
    <3> QED  BY <1>9, <3>2 DEF CherryPick, At, Temp
  <2> QED  BY <1>1, <1>2, <1>9, <2>1, <2>2 DEF CherryPick, At, Owned, Temp, store, aside
<1>10. CASE ResetMain(s)
  <2>1. hist'[t] # <<>> => Exists(t)
    BY <1>1, <1>10 DEF ResetMain, BranchesOK, Exists
  <2> QED  BY <1>3, <1>4, <1>10, <2>1 DEF ResetMain, At, aside
<1>11. CASE DeleteTemp(s)
  BY <1>1, <1>2, <1>11 DEF DeleteTemp, BranchesOK, Exists, aside
<1>12. ASSUME NEW retryable \in BOOLEAN, FlattenFails(s, retryable)
       PROVE  t \in abandoned'
  BY <1>1, <1>2, <1>12 DEF FlattenFails, Exists, Temp
<1>13. ASSUME NEW back \in BOOLEAN, NEW deleted \in BOOLEAN, NEW retryable \in BOOLEAN,
              CompactFails(s, back, deleted, retryable)
       PROVE  t \in abandoned'
  <2>1. hist'[t] = hist[t]
    BY <1>1, <1>13 DEF CompactFails, BranchesOK
  <2>2. Temp(s) = CompactTmp
    BY <1>13 DEF CompactFails, Temp
  <2>3. t = CompactTmp /\ CleansUp(s) => ~deleted
    BY <1>1, <1>13 DEF CompactFails, BranchesOK
  <2> QED  BY <1>2, <1>13, <2>1, <2>2, <2>3 DEF CompactFails, CleansUp, Exists
<1> QED
  BY <1>5, <1>6, <1>7, <1>8, <1>9, <1>10, <1>11, <1>12, <1>13 DEF Holding

LEMMA InitTemps == HistoryInit => NoTempLeftOver
BY Names, HistoryAssumption DEF HistoryInit, NoTempLeftOver, Exists

LEMMA NextTemps == IInv /\ NoTempLeftOver /\ [HistoryNext]_historyVars => NoTempLeftOver'
<1> SUFFICES ASSUME IInv, NoTempLeftOver, [HistoryNext]_historyVars PROVE NoTempLeftOver'
  OBVIOUS
<1>1. ASSUME NEW s \in Stores, Locking(s) PROVE NoTempLeftOver'
  <2>1. flock = Free
    BY <1>1 DEF Locking, Checkout, LoseConnection, Write, CommitTables, CommitWithConfig, Branch,
                DeleteBranch, Merge, BeginFlatten, BeginCompact, CanLock
  <2>2. \A t \in Temps : hist'[t] # <<>> => Exists(t) /\ (t \in abandoned => t \in abandoned')
    BY <1>1, LockingTemps DEF IInv
  <2> QED  BY <2>1, <2>2 DEF NoTempLeftOver, Exists
<1>2. CASE UNCHANGED historyVars
  BY <1>2 DEF historyVars, aside, NoTempLeftOver, Exists, Temp
<1> QED  BY <1>1, <1>2, HoldingTemps, LocklessTemps, NextSplit

\* A temporary branch is there only while its operation runs, or because one died or failed
\* and could not clean up, whatever other stores do to branches meanwhile.
THEOREM TempsAccounted == HistorySpec => []NoTempLeftOver
<1>1. IInv /\ [HistoryNext]_historyVars => IInv'
  BY NextIInv
<1> QED  BY InitIInv, <1>1, InitTemps, NextTemps, PTL DEF HistorySpec

-----------------------------------------------------------------------------
\* A store on a branch that is neither main nor temporary has its connection, and is on
\* the branch it names, also in the middle of a rewrite.
OnItsBranch(s) ==
    at[s] \notin {Closed, Main} \cup Temps => at[s] = named[s] /\ pooled[s]

Attached == \A s \in Stores : OnItsBranch(s)

LEMMA AttachedStep ==
    ASSUME StoresOK, Attached, NEW s \in Stores, Locking(s) \/ Holding(s) \/ Lockless(s)
    PROVE  Attached'
<1> SUFFICES ASSUME NEW u \in Stores PROVE OnItsBranch(u)'
  BY DEF Attached
<1> USE DEF StoresOK
<1>0. OnItsBranch(u) /\ OnItsBranch(s) /\ Temp(s) \in Temps
  BY DEF Attached, Temp, Temps
<1>1. CASE at' = at /\ named' = named /\ pooled' = pooled
  BY <1>0, <1>1 DEF OnItsBranch
<1>2. ASSUME NEW b \in Requested, Open(s, b) PROVE OnItsBranch(u)'
  BY <1>0, <1>2 DEF Open, OnItsBranch
<1>3. CASE Leave(s) \/ LoseConnection(s)
  BY <1>0, <1>3 DEF Leave, LoseConnection, OnItsBranch
<1>4. ASSUME NEW b \in {Main} \cup Topics, Checkout(s, b) PROVE OnItsBranch(u)'
  BY <1>0, <1>4 DEF Checkout, OnItsBranch
<1>5. CASE CurrentBranch(s)
  BY <1>0, <1>5 DEF CurrentBranch, OnItsBranch
<1>6. ASSUME NEW b \in Topics \cup Temps, DeleteBranch(s, b) PROVE OnItsBranch(u)'
  BY <1>0, <1>6 DEF DeleteBranch, OnItsBranch
<1>7. CASE CheckoutTemp(s) \/ CheckoutMain(s)
  BY <1>0, <1>7 DEF CheckoutTemp, CheckoutMain, OnItsBranch
<1>8. ASSUME NEW retryable \in BOOLEAN, FlattenFails(s, retryable) PROVE OnItsBranch(u)'
  BY <1>0, <1>8 DEF FlattenFails, OnItsBranch
<1>9. ASSUME NEW back \in BOOLEAN, NEW deleted \in BOOLEAN, NEW retryable \in BOOLEAN,
             CompactFails(s, back, deleted, retryable)
      PROVE  OnItsBranch(u)'
  BY <1>0, <1>9 DEF CompactFails, OnItsBranch
<1> QED
  BY <1>1, <1>2, <1>3, <1>4, <1>5, <1>6, <1>7, <1>8, <1>9
  DEF Locking, Holding, Lockless, Write, CommitTables, CommitWithConfig, Branch, Merge, BeginFlatten,
      BeginCompact, CreateTemp, SoftResetToInitial, CommitSquashed, CherryPick, ResetMain,
      DeleteTemp, PlanCompact, GivesUp, Pull, store

\* A store that is not on the branch it names is on main or on a temporary branch, never on
\* another branch of the user, whatever calls failed and whichever connections were lost.
THEOREM StraysTheorem == HistorySpec => []StraysOnlyToMain
<1>1. HistoryInit => Attached
  BY DEF HistoryInit, Attached, OnItsBranch
<1>2. HistoryTypeOK /\ Attached /\ [HistoryNext]_historyVars => Attached'
  <2>1. Attached /\ UNCHANGED historyVars => Attached'
    BY DEF historyVars, store, Attached, OnItsBranch
  <2> QED  BY <2>1, AttachedStep, TypeParts, NextSplit
<1>3. Attached => StraysOnlyToMain
  BY DEF Attached, OnItsBranch, StraysOnlyToMain
<1> QED  BY <1>1, <1>2, <1>3, HistoryTypes, PTL DEF HistorySpec

\* What is left of branches after any calls, failures and deaths: temporary ones that
\* nobody could clean up, and stores on main or on one of them.
THEOREM BranchesTheorem == HistorySpec => []BranchesAccounted
BY TempsAccounted, StraysTheorem, PTL DEF BranchesAccounted
=============================================================================
