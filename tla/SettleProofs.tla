----------------------------- MODULE SettleProofs -----------------------------
(***************************************************************************)
(* Proofs about what keeps the clones of one remote together: the gate     *)
(* before migrations (MigrationGate), for any number of clones and of      *)
(* versions, and the settlement of a pull's merge (MergeSettle) and the    *)
(* sync with a strategy (FederationSync), for any number of clones and for *)
(* histories of any length over any of the rows.                           *)
(***************************************************************************)
EXTENDS FederationSync, MigrationGate, TLAPS

------------------------------------------------------------------------------
(* MigrationGate *)

Row == [file : {"released", "rewritten"}, by : Machines \cup {"any"}, hashed : BOOLEAN]

\* The row of a version above those of the release the clones began with: the
\* designated clone ran it, or it comes out the same whoever runs it.
Migrated(r, v) ==
    /\ r.hashed
    /\ IF v <= LastNonDeterministicMigration THEN r.by \in Designated ELSE r.by = "any"

\* A schema that grew from that release.
Grown(base, s) ==
    /\ s \in Seq(Row)
    /\ Len(base) <= Len(s) /\ Len(s) <= Latest
    /\ \A v \in 1..Len(base) : s[v] = base[v]
    /\ \A v \in 1..Len(s) : v > Len(base) => Migrated(s[v], v)

\* A clone that the gate let through is past the migrations with random keys, and
\* has run the file of every version the remote was known to have.
LetThrough(s, known) ==
    /\ LastNonDeterministicMigration <= Len(s)
    /\ Len(known) <= Len(s)
    /\ \A v \in 1..Len(known) : s[v].file = known[v].file

Knows(base, s) == s = <<>> \/ Grown(base, s)

GrownInv(base) ==
    /\ base \in Seq(Row)
    /\ schema \in [Machines -> Seq(Row)]
    /\ cached \in [Machines -> Seq(Row)]
    /\ passed \in [Machines -> [open : BOOLEAN, known : Seq(Row)]]
    /\ Grown(base, published)
    /\ \A m \in Machines : Grown(base, schema[m]) /\ Knows(base, cached[m])

\* What holds of the clones the gate is open for.
PassedInv ==
    \A m \in Machines :
        IF passed[m].open
        THEN m \notin Designated => LetThrough(schema[m], passed[m].known)
        ELSE passed[m] = Closed

GateInv(base) == GrownInv(base) /\ PassedInv

\* The sequences of the releases are sequences of rows.
LEMMA ReleasedRows ==
    ASSUME NEW s \in Released
    PROVE  /\ s \in Seq(Row) /\ Len(s) \in Nat /\ Len(s) <= Latest
           /\ Grown(s, s)
<1>1. PICK n \in 1..Latest :
          s \in [1..n -> {[file |-> "released", by |-> "any", hashed |-> h] : h \in BOOLEAN}]
  BY DEF Released
<1>2. s \in [1..n -> Row]
  <2>1. {[file |-> "released", by |-> "any", hashed |-> h] : h \in BOOLEAN} \subseteq Row
    BY DEF Row
  <2> QED
    BY <1>1, <2>1
<1>3. s \in Seq(Row) /\ Len(s) = n
  BY <1>2, GateAssumption
<1> QED
  BY <1>3, GateAssumption DEF Grown

LEMMA InitInv ==
    ASSUME GateInit
    PROVE  GateInv(published)
<1>1. /\ published \in Seq(Row)
      /\ Grown(published, published)
  BY ReleasedRows DEF GateInit
<1>2. <<>> \in Seq(Row)
  OBVIOUS
<1>3. GrownInv(published)
  BY <1>1, <1>2 DEF GateInit, GrownInv, Knows, Closed
<1>4. PassedInv
  BY DEF GateInit, PassedInv, Closed
<1> QED
  BY <1>3, <1>4 DEF GateInv

\* One more migration keeps a schema grown, if it is past the random keys or the
\* clone is the designated one.
LEMMA RanGrows ==
    ASSUME NEW base \in Seq(Row), NEW s, Grown(base, s), Len(s) < Latest,
           NEW m \in Machines,
           m \in Designated \/ LastNonDeterministicMigration <= Len(s)
    PROVE  Grown(base, Append(s, Ran(m, Len(s) + 1)))
<1> DEFINE r == Ran(m, Len(s) + 1)
<1>1. s \in Seq(Row) /\ Len(s) \in Nat /\ Len(base) \in Nat /\ Latest \in Nat
      /\ LastNonDeterministicMigration \in Nat
  BY GateAssumption DEF Grown
<1>2. r \in Row
  BY DEF Ran, Row
<1>3. Migrated(r, Len(s) + 1)
  <2>1. CASE Len(s) + 1 <= LastNonDeterministicMigration
    BY <2>1, <1>1 DEF Ran, Migrated
  <2>2. CASE ~(Len(s) + 1 <= LastNonDeterministicMigration)
    BY <2>2 DEF Ran, Migrated
  <2> QED
    BY <2>1, <2>2
<1>4. /\ Append(s, r) \in Seq(Row)
      /\ Len(Append(s, r)) = Len(s) + 1
      /\ \A v \in 1..Len(s) : Append(s, r)[v] = s[v]
      /\ Append(s, r)[Len(s) + 1] = r
  BY <1>1, <1>2
<1> HIDE DEF r
<1>5. ASSUME NEW v \in 1..(Len(s) + 1), v > Len(base)
      PROVE  Migrated(Append(s, r)[v], v)
  <2>1. CASE v \in 1..Len(s)
    BY <2>1, <1>4, <1>5 DEF Grown
  <2>2. CASE v = Len(s) + 1
    BY <2>2, <1>3, <1>4
  <2> QED
    BY <2>1, <2>2, <1>1
<1>6. \A v \in 1..Len(base) : Append(s, r)[v] = base[v]
  BY <1>1, <1>4 DEF Grown
<1> QED
  BY <1>1, <1>4, <1>5, <1>6 DEF Grown, r

\* What the smart gate lets through: the cursor of the remote is at the version of
\* the clone, or the remote is known to have no more than the first release.
LEMMA SmartLetsThrough ==
    ASSUME NEW base \in Seq(Row), NEW s, NEW t, Grown(base, s), Knows(base, t),
           SmartAutoMigrate(s, t)
    PROVE  LetThrough(s, t)
<1>1. t # <<>>
  BY DEF SmartAutoMigrate, Hashed
<1>2. /\ Grown(base, t)
      /\ s \in Seq(Row) /\ t \in Seq(Row)
      /\ Len(s) \in Nat /\ Len(t) \in Nat /\ Len(base) \in Nat
      /\ DOMAIN s = 1..Len(s) /\ DOMAIN t = 1..Len(t)
  BY <1>1 DEF Knows, Grown
<1>3. Len(t) <= Len(s)
  <2>1. CASE Len(t) <= Len(base)
    BY <2>1, <1>2 DEF Grown
  <2>2. CASE Len(t) > Len(base)
    <3>1. Len(t) \in Hashed(t)
      BY <2>2, <1>2 DEF Hashed, Grown, Migrated
    <3>2. \A v \in Hashed(t) : v \in Nat /\ Len(t) >= v
      BY <1>2 DEF Hashed
    <3>3. \E x \in Hashed(t) : \A y \in Hashed(t) : x >= y
      BY <3>1, <3>2
    <3>4. Max(Hashed(t)) \in Hashed(t) /\ \A y \in Hashed(t) : Max(Hashed(t)) >= y
      BY <3>3 DEF Max
    <3>5. Max(Hashed(t)) = Len(t)
      BY <3>1, <3>2, <3>4, <1>2
    <3> QED
      BY <3>5, <1>2 DEF SmartAutoMigrate
  <2> QED
    BY <2>1, <2>2, <1>2
<1>4. ASSUME NEW v \in 1..Len(t)
      PROVE  s[v].file = t[v].file
  <2>1. CASE v <= Len(base)
    BY <2>1, <1>2 DEF Grown
  <2>2. CASE v > Len(base)
    <3>1. v \in Hashed(s) /\ v \in Hashed(t)
      BY <2>2, <1>2, <1>3 DEF Hashed, Grown, Migrated
    <3> QED
      BY <3>1 DEF SmartAutoMigrate, ContentHashSkew
  <2> QED
    BY <2>1, <2>2, <1>2
<1>5. LastNonDeterministicMigration <= Len(s)
  BY DEF SmartAutoMigrate
<1> QED
  BY <1>3, <1>4, <1>5 DEF LetThrough

\* Each step keeps it.
LEMMA NextInv ==
    ASSUME NEW base, GateInv(base), [GateNext]_gateVars
    PROVE  GateInv(base)'
<1> USE DEF GateInv, GrownInv
<1>1. ASSUME NEW m \in Machines, Gate(m)
      PROVE  GateInv(base)'
  <2>1. m \notin Designated => LetThrough(schema[m], cached[m])
    BY <1>1, SmartLetsThrough DEF Gate, HasRemote
  <2>2. PassedInv'
    BY <1>1, <2>1 DEF Gate, PassedInv
  <2>3. GrownInv(base)'
    BY <1>1 DEF Gate
  <2> QED
    BY <2>2, <2>3
<1>2. ASSUME NEW m \in Machines, RunPending(m)
      PROVE  GateInv(base)'
  <2> DEFINE t == Append(schema[m], Ran(m, Len(schema[m]) + 1))
  <2>1. m \notin Designated => LetThrough(schema[m], passed[m].known)
    BY <1>2 DEF RunPending, PassedInv
  <2>2. Grown(base, t)
    BY <1>2, <2>1, RanGrows DEF RunPending, LetThrough
  <2>3. schema' = [schema EXCEPT ![m] = t]
    BY <1>2 DEF RunPending
  <2>4. t \in Seq(Row)
    BY <2>2 DEF Grown
  <2>5. LetThrough(schema[m], passed[m].known) => LetThrough(t, passed[m].known)
    <3>1. schema[m] \in Seq(Row) /\ passed[m].known \in Seq(Row)
      OBVIOUS
    <3>2. Ran(m, Len(schema[m]) + 1) \in Row
      BY DEF Ran, Row
    <3> HIDE DEF GateInv, GrownInv
    <3>3. /\ Len(t) = Len(schema[m]) + 1
          /\ \A v \in 1..Len(schema[m]) : t[v] = schema[m][v]
          /\ Len(schema[m]) \in Nat /\ Len(passed[m].known) \in Nat
      BY <3>1, <3>2
    <3> QED
      BY <3>3, GateAssumption DEF LetThrough
  <2> HIDE DEF t
  <2>6. GrownInv(base)'
    BY <1>2, <2>2, <2>3, <2>4 DEF RunPending
  <2>7. PassedInv'
    BY <1>2, <2>1, <2>3, <2>5 DEF RunPending, PassedInv
  <2> QED
    BY <2>6, <2>7
<1>3. ASSUME NEW m \in Machines, Ends(m)
      PROVE  GateInv(base)'
  <2>1. Closed \in [open : BOOLEAN, known : Seq(Row)] /\ ~Closed.open
    BY DEF Closed
  <2> QED
    BY <1>3, <2>1 DEF Ends, PassedInv
<1>4. ASSUME NEW m \in Machines, FetchRef(m)
      PROVE  GateInv(base)'
  BY <1>4 DEF FetchRef, PassedInv, Knows, Grown
<1>5. ASSUME NEW m \in Machines, PullSchema(m) \/ Bootstrap(m)
      PROVE  GateInv(base)'
  <2>1. /\ ~passed[m].open /\ passed' = passed /\ published' = published
        /\ schema' = [schema EXCEPT ![m] = published]
        /\ cached' = [cached EXCEPT ![m] = published]
    BY <1>5 DEF PullSchema, Bootstrap
  <2>2. published \in Seq(Row)
    BY DEF Grown
  <2> QED
    BY <2>1, <2>2 DEF PassedInv, Knows
<1>6. ASSUME NEW m \in Machines, PushSchema(m)
      PROVE  GateInv(base)'
  BY <1>6 DEF PushSchema, PassedInv, Knows
<1>7. CASE UNCHANGED gateVars
  BY <1>7 DEF gateVars, PassedInv
<1> QED
  BY <1>1, <1>2, <1>3, <1>4, <1>5, <1>6, <1>7 DEF GateNext

\* Two schemas that grew from one release have the same of every version they share.
LEMMA GrownAgree ==
    ASSUME NEW base \in Seq(Row), NEW s, NEW t, Grown(base, s), Grown(base, t),
           NEW v \in Shared(s, t)
    PROVE  s[v].by = t[v].by
<1>1. /\ v \in 1..Len(s) /\ v \in 1..Len(t)
      /\ Len(base) \in Nat
  BY DEF Shared, Grown
<1>2. CASE v <= Len(base)
  BY <1>1, <1>2 DEF Grown
<1>3. CASE v > Len(base)
  <2>1. Migrated(s[v], v) /\ Migrated(t[v], v)
    BY <1>1, <1>3 DEF Grown
  <2> QED
    BY <2>1, GateAssumption DEF Migrated
<1> QED
  BY <1>1, <1>2, <1>3

LEMMA InvConverges ==
    ASSUME NEW base, GateInv(base)
    PROVE  SchemasConverge
<1>1. ASSUME NEW m \in Machines, NEW n \in Machines, NEW v \in Shared(schema[m], schema[n])
      PROVE  schema[m][v].by = schema[n][v].by
  BY <1>1, GrownAgree DEF GateInv, GrownInv
<1>2. ASSUME NEW m \in Machines, m \notin Designated,
             NEW v \in Shared(schema[m], passed[m].known)
      PROVE  schema[m][v].file = passed[m].known[v].file
  <2>1. passed[m].known \in Seq(Row) /\ DOMAIN passed[m].known = 1..Len(passed[m].known)
    BY DEF GateInv, GrownInv
  <2>2. v \in 1..Len(passed[m].known)
    BY <2>1 DEF Shared
  <2>3. passed[m].open
    BY <2>2 DEF GateInv, PassedInv, Closed
  <2> QED
    BY <1>2, <2>2, <2>3 DEF GateInv, PassedInv, LetThrough
<1> QED
  BY <1>1, <1>2 DEF SchemasConverge

\* The gate keeps the clones of a remote from forking its schema, however many
\* clones there are, whatever files their binaries ship above the migrations with
\* random keys, and however old what each had fetched is.
THEOREM ClonesConverge == GateSpec => []SchemasConverge
<1> DEFINE Inv == \E base \in Released : GateInv(base)
<1>1. GateInit => Inv
  BY InitInv DEF GateInit
<1>2. Inv /\ [GateNext]_gateVars => Inv'
  BY NextInv
<1>3. Inv => SchemasConverge
  BY InvConverges
<1> QED
  BY <1>1, <1>2, <1>3, PTL DEF GateSpec

------------------------------------------------------------------------------
(* MergeSettle *)

\* What a row may hold.
Values == Clones \cup {Nobody, Absent, "present", NoHash} \cup Hashes \cup ({"blocks", "related"} \X Clones)

\* What a branch or a working set may hold.
Commits == {f \in [AllRows -> Values] : f["migration"] \in Hashes \cup {NoHash, Absent}}
Violations == Children \cup {"odd"}

CloneType ==
    [head : Commits, work : Commits, base : Commits, merging : BOOLEAN, ref : Commits,
     saved : Commits, had : SUBSET Violations, dirty : SUBSET AllRows,
     conflicts : SUBSET AllRows, violations : SUBSET Violations]

PullPlaces == {"none", "merge", "resolve", "capture", "repair", "conclude", "abort", "returned"}

PullType ==
    [pc : PullPlaces, by : Clones \cup {Nobody}, ref : Commits, clean : BOOLEAN,
     mergeErr : BOOLEAN, resolved : BOOLEAN, repaired : BOOLEAN, ok : BOOLEAN, before : CloneType]

SettleTypes ==
    /\ remote \in Commits
    /\ clone \in [Clones -> CloneType]
    /\ pull \in PullType
    /\ pull.pc # "none" => pull.by \in Clones

\* Of every clone.  A violation of a foreign key is a row that dangles; no row dangles
\* both in the branch and in the working set; a merge that can be given back has kept
\* what there was; and what was not committed is in none of the tables in conflict.
CloneInv(s) ==
    /\ s.violations \cap Children = Dangling(s.work)
    /\ s.conflicts # {} => s.merging
    /\ Dangling(s.work) \cap Dangling(s.head) = {}
    /\ s.merging =>
           /\ s.had \cap Children = Dangling(s.saved)
           /\ Dangling(s.saved) \cap Dangling(s.head) = {}
           /\ \A r \in s.dirty, x \in s.conflicts : TableOf(r) # TableOf(x)

\* A recorded hash is the same wherever a clone has it from, up to the remote.
HashInv(s) ==
    /\ HashKept(s.head, s.work) /\ HashKept(s.base, s.head) /\ HashKept(s.base, remote)
    /\ s.merging =>
           /\ HashKept(s.head, s.saved) /\ HashKept(s.ref, remote)
           /\ "migration" \in s.conflicts \/ HashKept(s.ref, s.work)
           /\ "migration" \in s.dirty => HashKept(s.ref, s.head)

Under == pull.pc \notin {"none", "returned"}

\* What clients had not committed when the pull o found them, with the rows of work.
OwnStays(o, work) ==
    \A r \in Own(o) :
        \/ work[r] = o.work[r]
        \/ o.merging /\ work[r] = o.saved[r]
        \/ r \in Children /\ work["issue"] = Absent

\* What the pull p may still give back of its clone s.
GivesBack(s, p) ==
    /\ p.clean => Dangling(s.head) = {}
    /\ s.merging =>
           /\ s.dirty = Own(p.before)
           /\ s.saved = IF p.before.merging THEN p.before.saved ELSE p.before.work

\* Of the clone that pulls, and how the pull found it.
PullInv ==
    /\ pull.pc = "merge" => clone[pull.by] = pull.before /\ pull.ref = remote
    /\ pull.pc # "none" =>
           /\ pull.clean => pull.before.work = pull.before.head /\ ~pull.before.merging
           /\ OwnStays(pull.before, clone[pull.by].work)
    /\ Under => GivesBack(clone[pull.by], pull)

\* The order in which conflicts and violations are dealt with by the pull p.
Ordered(s, p) ==
    /\ p.pc \in {"merge", "resolve", "capture"} => ~p.resolved /\ ~p.repaired
    /\ p.pc = "repair" => ~p.repaired
    /\ p.pc \in {"repair", "conclude"} /\ p.resolved => s.merging /\ s.conflicts = {}
    /\ p.pc = "conclude" \/ (p.pc = "returned" /\ p.ok) => s.violations = {}

OrderInv == Ordered(clone[pull.by], pull)

\* What the remote changed of a row has been brought in.
Won(r, ref, work) ==
    \/ work[r] = ref[r]
    \/ r = "migration" /\ ref[r] = NoHash
    \/ r \in Children /\ work["issue"] = Absent

\* The pull p has merged what the remote changed.
Brought(s, p) ==
    /\ \A r \in AllRows : p.ref[r] # p.before.base[r] => r \in s.conflicts \/ Won(r, p.ref, s.work)
    /\ s.conflicts # {} => s.ref = p.ref

\* The pull p has merged nothing and will not get past the error.
Barred(s, p) ==
    /\ p.mergeErr /\ ~p.resolved /\ ~p.repaired
    /\ s.conflicts = {} /\ s.violations = {}
    /\ p.pc # "returned"

\* Of a pull that found its clone settled, as long as it may still succeed.
RemoteInv ==
    /\ pull.pc \in {"resolve", "capture", "repair", "conclude"} \/ (pull.pc = "returned" /\ pull.ok)
    /\ ~Unsettled(pull.before)
    => Brought(clone[pull.by], pull) \/ Barred(clone[pull.by], pull)

SettleInv ==
    /\ SettleTypes
    /\ \A c \in Clones : CloneInv(clone[c]) /\ HashInv(clone[c])
    /\ PullInv
    /\ OrderInv
    /\ RemoteInv

\* No conflict is left to the end of a pull, if declined ones can always be read.
CapturedInv ==
    pull.pc \in {"repair", "conclude"} \/ Returned(TRUE) => clone[pull.by].conflicts = {}

LEMMA FirstTyped == FirstCommit \in Commits /\ NewClone \in CloneType /\ NoPull \in PullType
<1>1. FirstCommit \in Commits
  BY DEF FirstCommit, Commits, Values, AllRows
<1>2. NewClone \in CloneType
  BY <1>1 DEF NewClone, CloneType
<1>3. NoPull \in PullType
  BY <1>1, <1>2 DEF NoPull, PullType, PullPlaces
<1> QED
  BY <1>1, <1>2, <1>3

\* Rows of one commit and rows of another are rows of a commit.
LEMMA MixedRows ==
    ASSUME NEW f, f = [r \in AllRows |-> f[r]],
           \A r \in AllRows : \E g \in Commits : f[r] = g[r] \/ (r # "migration" /\ f[r] = Absent)
    PROVE  f \in Commits
<1>1. \A r \in AllRows : f[r] \in Values
  BY DEF Commits, Values
<1>2. f["migration"] \in Hashes \cup {NoHash, Absent}
  BY DEF AllRows, Commits
<1> QED
  BY <1>1, <1>2 DEF Commits

\* What a clone's record is made of.
LEMMA CloneFields ==
    ASSUME NEW s \in CloneType
    PROVE  /\ s.head \in Commits /\ s.work \in Commits /\ s.base \in Commits
           /\ s.merging \in BOOLEAN /\ s.ref \in Commits /\ s.saved \in Commits
           /\ s.had \in SUBSET Violations /\ s.dirty \in SUBSET AllRows
           /\ s.conflicts \in SUBSET AllRows /\ s.violations \in SUBSET Violations
  BY DEF CloneType

\* The end of a merge, which keeps the branch.
LEMMA NoMergeFields ==
    ASSUME NEW s \in CloneType
    PROVE  /\ NoMerge(s) \in CloneType
           /\ NoMerge(s).head = s.head /\ NoMerge(s).work = s.work /\ NoMerge(s).base = s.base
           /\ ~NoMerge(s).merging /\ NoMerge(s).conflicts = {} /\ NoMerge(s).violations = {}
<1>1. ASSUME NEW m \in BOOLEAN, NEW f \in Commits, NEW g \in Commits, NEW h \in SUBSET Violations,
             NEW d \in SUBSET AllRows, NEW k \in SUBSET AllRows, NEW v \in SUBSET Violations
      PROVE  [s EXCEPT !.merging = m, !.ref = f, !.saved = g, !.had = h,
                       !.dirty = d, !.conflicts = k, !.violations = v] \in CloneType
  BY DEF CloneType
<1>2. FALSE \in BOOLEAN /\ FirstCommit \in Commits /\ {} \in SUBSET Violations /\ {} \in SUBSET AllRows
  BY FirstTyped
<1>3. [s EXCEPT !.merging = FALSE, !.ref = FirstCommit, !.saved = FirstCommit, !.had = {},
                !.dirty = {}, !.conflicts = {}, !.violations = {}] \in CloneType
  BY ONLY <1>1, <1>2, Zenon
<1>4. NoMerge(s) \in CloneType
  BY <1>3 DEF NoMerge
<1>5. /\ NoMerge(s).head = s.head /\ NoMerge(s).work = s.work /\ NoMerge(s).base = s.base
      /\ NoMerge(s).merging = FALSE /\ NoMerge(s).conflicts = {} /\ NoMerge(s).violations = {}
  BY DEF NoMerge, CloneType
<1> QED
  BY <1>4, <1>5

\* The record of one clone, or of the pull, is replaced.
LEMMA CloneReplaced ==
    ASSUME SettleTypes, NEW c \in Clones, NEW s, On(c, s)
    PROVE  /\ clone'[c] = s
           /\ \A x \in Clones \ {c} : clone'[x] = clone[x]
           /\ s \in CloneType => clone' \in [Clones -> CloneType]
  BY DEF On, SettleTypes

LEMMA GotoFields ==
    ASSUME SettleTypes, NEW pc \in PullPlaces, Goto(pc)
    PROVE  /\ pull' \in PullType /\ pull'.pc = pc
           /\ pull'.by = pull.by /\ pull'.ref = pull.ref /\ pull'.clean = pull.clean
           /\ pull'.mergeErr = pull.mergeErr /\ pull'.resolved = pull.resolved
           /\ pull'.repaired = pull.repaired /\ pull'.ok = pull.ok /\ pull'.before = pull.before
  BY DEF Goto, SettleTypes, PullType

\* The rows of a merge that lands: those that were not committed stay, and a row that
\* the remote changed is the remote's unless this clone has committed another change.
LEMMA Landing ==
    ASSUME SettleTypes, NEW c \in Clones, CloneInv(clone[c]), ~clone[c].merging,
           \A r \in Own(clone[c]), x \in Changed(c) : TableOf(r) # TableOf(x),
           NEW work, work = Onto(c, clone[c].work)
    PROVE  /\ work \in Commits
           /\ \A r \in AllRows : work[r] = Merged(clone[c].base[r], clone[c].work[r], pull.ref[r])
           /\ \A r \in Own(clone[c]) : pull.ref[r] = clone[c].base[r] /\ work[r] = clone[c].work[r]
           /\ \A r \in AllRows \ Own(clone[c]) : clone[c].work[r] = clone[c].head[r]
           /\ Dangling(work) \cap Dangling(clone[c].head) = {}
<1> DEFINE s == clone[c]
<1>1. s \in CloneType /\ s.work \in Commits /\ s.head \in Commits /\ s.base \in Commits
      /\ pull.ref \in Commits
  BY CloneFields DEF SettleTypes, PullType
<1>2. work = [r \in AllRows |-> Merged(s.base[r], s.work[r], pull.ref[r])]
  BY DEF Onto
<1>3. \A r \in AllRows : work[r] = Merged(s.base[r], s.work[r], pull.ref[r])
  BY <1>2
<1>4. work \in Commits
  <2>1. work = [r \in AllRows |-> work[r]]
    BY <1>2
  <2>2. \A r \in AllRows : work[r] = s.work[r] \/ work[r] = pull.ref[r]
    BY <1>3 DEF Merged
  <2> QED
    BY <1>1, <2>1, <2>2, MixedRows
<1>5. Own(s) = {r \in AllRows : s.work[r] # s.head[r]}
  BY DEF Own
<1>6. \A r \in Own(s) : pull.ref[r] = s.base[r]
  BY <1>5 DEF Changed
<1>7. \A r \in Own(s) : work[r] = s.work[r]
  BY <1>3, <1>5, <1>6 DEF Merged
<1>8. ASSUME NEW r \in Dangling(work), r \in Dangling(s.head)
      PROVE  FALSE
  <2>1. /\ r \in AllRows /\ "issue" \in AllRows
        /\ work["issue"] = Absent /\ work[r] # Absent
        /\ s.head["issue"] = Absent /\ s.head[r] # Absent
    BY <1>8 DEF Dangling, Children, AllRows
  <2>2. s.work["issue"] = Absent
    BY <1>5, <1>7, <2>1
  <2>3. s.work[r] = Absent
    BY <1>8, <2>1, <2>2 DEF CloneInv, Dangling
  <2> QED
    BY <1>5, <1>7, <2>1, <2>3
<1> QED
  BY <1>3, <1>4, <1>5, <1>6, <1>7, <1>8

\* A statement of a client leaves no row that dangles, and a recorded hash alone.
LEMMA WrittenRows ==
    ASSUME NEW c \in Clones, NEW w \in Commits, Dangling(w) = {}, NEW x \in Written(c, w)
    PROVE  x \in Commits /\ Dangling(x) = {} /\ HashKept(w, x)
<1> USE SettleAssumption DEF Commits, Dangling, HashKept
<1>1. c \in Values /\ Absent \in Values /\ "present" \in Values /\ c # Absent
      /\ Hashes \cup {NoHash} \subseteq Values
      /\ \A type \in {"blocks", "related"} : <<type, c>> \in Values
  BY DEF Values
<1>2. ASSUME NEW r \in {"metadata", "memory", "prefix"}, x = [w EXCEPT ![r] = c]
      PROVE  x \in Commits /\ Dangling(x) = {} /\ HashKept(w, x)
  BY <1>1, <1>2 DEF Children, AllRows
<1>3. ASSUME NEW r \in {"memory", "edge", "label"}, x = [w EXCEPT ![r] = Absent]
      PROVE  x \in Commits /\ Dangling(x) = {} /\ HashKept(w, x)
  BY <1>1, <1>3 DEF Children, AllRows
<1>4. ASSUME NEW h \in Hashes \cup {NoHash}, w["migration"] = Absent, x = [w EXCEPT !["migration"] = h]
      PROVE  x \in Commits /\ Dangling(x) = {} /\ HashKept(w, x)
  <2>1. "migration" \in AllRows /\ "issue" \in AllRows /\ "migration" \notin Children
    BY DEF AllRows, Children
  <2>2. x \in Commits
    BY <1>1, <1>4, <2>1
  <2>3. Dangling(x) = {}
    BY <1>4, <2>1 DEF Children, AllRows
  <2>4. w["migration"] \notin Hashes
    BY <1>4
  <2> QED
    BY <2>2, <2>3, <2>4
<1>5. ASSUME NEW r \in {"edge", "label"}, w["issue"] # Absent, NEW v \in Values, x = [w EXCEPT ![r] = v]
      PROVE  x \in Commits /\ Dangling(x) = {} /\ HashKept(w, x)
  BY <1>5 DEF Children, AllRows
<1>6. ASSUME x = [w EXCEPT !["issue"] = c]
      PROVE  x \in Commits /\ Dangling(x) = {} /\ HashKept(w, x)
  BY <1>1, <1>6 DEF Children, AllRows
<1>7. ASSUME x = [r \in AllRows |-> IF r \in Children \cup {"issue"} THEN Absent ELSE w[r]]
      PROVE  x \in Commits /\ Dangling(x) = {} /\ HashKept(w, x)
  BY <1>1, <1>7 DEF Children, AllRows
<1> QED
  BY <1>1, <1>2, <1>3, <1>4, <1>5, <1>6, <1>7 DEF Written

\* One clone's record is replaced, between two pulls or at a place of a pull.
LEMMA OneClone ==
    ASSUME SettleInv, NEW c \in Clones, NEW s \in CloneType, On(c, s), CloneInv(s), HashInv(s),
           UNCHANGED remote, pull' \in PullType, pull'.pc # "none" => pull'.by \in Clones
    PROVE  /\ SettleTypes'
           /\ \A x \in Clones : (CloneInv(clone[x]) /\ HashInv(clone[x]))'
<1>1. /\ clone'[c] = s /\ clone' \in [Clones -> CloneType]
      /\ \A x \in Clones \ {c} : clone'[x] = clone[x]
  BY CloneReplaced DEF SettleInv
<1>2. SettleTypes'
  BY <1>1 DEF SettleInv, SettleTypes
<1>3. ASSUME NEW x \in Clones
      PROVE  (CloneInv(clone[x]) /\ HashInv(clone[x]))'
  <2>1. CloneInv(clone'[x]) /\ HashInv(clone'[x])
    BY <1>1 DEF SettleInv
  <2> QED
    BY <2>1 DEF CloneInv, HashInv, Dangling, HashKept
<1> QED
  BY <1>2, <1>3

LEMMA WriteKeeps ==
    ASSUME SettleInv, NEW c \in Clones, Write(c)
    PROVE  SettleInv'
<1> DEFINE s == clone[c]
<1>1. /\ s \in CloneType /\ s.work \in Commits /\ CloneInv(s) /\ HashInv(s)
      /\ s.violations = {} /\ s.conflicts = {} /\ Dangling(s.work) = {}
  BY CloneFields DEF Write, SettleInv, SettleTypes, CloneInv
<1>2. PICK w \in Written(c, s.work) : clone' = [clone EXCEPT ![c].work = w]
  BY DEF Write, Statement
<1>3. w \in Commits /\ Dangling(w) = {} /\ HashKept(s.work, w)
  BY <1>1, WrittenRows
<1> DEFINE x == [s EXCEPT !.work = w]
<1>4. /\ x \in CloneType
      /\ x.work = w /\ x.head = s.head /\ x.base = s.base /\ x.ref = s.ref /\ x.saved = s.saved
      /\ x.merging = s.merging /\ x.conflicts = s.conflicts /\ x.violations = s.violations
      /\ x.had = s.had /\ x.dirty = s.dirty
  BY <1>1, <1>3 DEF CloneType
<1>5. On(c, x)
  BY <1>2 DEF On, SettleInv, SettleTypes
<1> HIDE DEF x
<1>6. CloneInv(x)
  BY <1>1, <1>3, <1>4 DEF CloneInv
<1>7. HashInv(x)
  BY <1>1, <1>3, <1>4 DEF HashInv, HashKept
<1>8. UNCHANGED <<remote, pull>> /\ pull.pc = "none"
  BY DEF Write, Statement
<1>9. /\ SettleTypes' /\ \A y \in Clones : (CloneInv(clone[y]) /\ HashInv(clone[y]))'
  BY <1>4, <1>5, <1>6, <1>7, <1>8, OneClone DEF SettleInv, SettleTypes
<1> QED
  BY <1>8, <1>9 DEF SettleInv, PullInv, Under, OrderInv, Ordered, RemoteInv

LEMMA CommitAllKeeps ==
    ASSUME SettleInv, NEW c \in Clones, CommitAll(c)
    PROVE  SettleInv' /\ HashKept(clone[c].head, clone'[c].head)
<1> DEFINE s == clone[c]
           base == IF s.merging THEN s.ref ELSE s.base
           x == [NoMerge(s) EXCEPT !.head = s.work, !.base = base]
<1>1. /\ s \in CloneType /\ s.work \in Commits /\ base \in Commits /\ CloneInv(s) /\ HashInv(s)
      /\ s.violations = {} /\ s.conflicts = {} /\ Dangling(s.work) = {}
  BY CloneFields DEF CommitAll, SettleInv, SettleTypes, CloneInv
<1>2. /\ NoMerge(s) \in CloneType
      /\ NoMerge(s).work = s.work /\ NoMerge(s).base = s.base
      /\ ~NoMerge(s).merging /\ NoMerge(s).conflicts = {} /\ NoMerge(s).violations = {}
  BY <1>1, NoMergeFields
<1>3. On(c, x)
  BY DEF CommitAll, On
<1> HIDE DEF base
<1>4. /\ x \in CloneType
      /\ x.head = s.work /\ x.work = s.work /\ x.base = base
      /\ ~x.merging /\ x.conflicts = {} /\ x.violations = {}
  BY <1>1, <1>2 DEF CloneType
<1> HIDE DEF x
<1>5. CloneInv(x)
  BY <1>1, <1>4 DEF CloneInv
<1>6. HashInv(x)
  BY <1>1, <1>4 DEF HashInv, HashKept, base
<1>7. UNCHANGED <<remote, pull>> /\ pull.pc = "none"
  BY DEF CommitAll
<1>8. /\ SettleTypes' /\ \A y \in Clones : (CloneInv(clone[y]) /\ HashInv(clone[y]))'
  BY <1>3, <1>4, <1>5, <1>6, <1>7, OneClone DEF SettleInv, SettleTypes
<1>9. clone'[c] = x
  BY <1>3, CloneReplaced DEF SettleInv
<1> QED
  BY <1>1, <1>4, <1>7, <1>8, <1>9 DEF SettleInv, PullInv, Under, OrderInv, Ordered, RemoteInv, HashInv, HashKept

LEMMA PushKeeps ==
    ASSUME SettleInv, NEW c \in Clones, Push(c)
    PROVE  SettleInv' /\ HashKept(remote, remote')
<1> DEFINE s == clone[c]
           x == [s EXCEPT !.base = s.head]
<1>1. /\ s \in CloneType /\ s.head \in Commits /\ CloneInv(s) /\ HashInv(s)
      /\ remote = s.base /\ remote' = s.head
  BY CloneFields DEF Push, SettleInv, SettleTypes
<1>2. /\ clone'[c] = x /\ clone' \in [Clones -> CloneType]
      /\ \A y \in Clones \ {c} : clone'[y] = clone[y]
  BY <1>1 DEF Push, SettleInv, SettleTypes, CloneType
<1>3. /\ x.head = s.head /\ x.work = s.work /\ x.base = s.head /\ x.ref = s.ref /\ x.saved = s.saved
      /\ x.merging = s.merging /\ x.conflicts = s.conflicts /\ x.violations = s.violations
      /\ x.had = s.had /\ x.dirty = s.dirty
  BY <1>1 DEF CloneType
<1> HIDE DEF x
<1>4. HashKept(remote, remote')
  BY <1>1 DEF HashInv
<1>5. ASSUME NEW y \in Clones
      PROVE  CloneInv(clone[y])' /\ HashInv(clone[y])'
  <2>1. CASE y = c
    BY <1>1, <1>2, <1>3, <1>4, <2>1 DEF CloneInv, HashInv, HashKept, Dangling
  <2>2. CASE y # c
    BY <1>2, <1>4, <2>2 DEF SettleInv, CloneInv, HashInv, HashKept, Dangling
  <2> QED
    BY <2>1, <2>2
<1>6. UNCHANGED pull /\ pull.pc = "none"
  BY DEF Push
<1>7. SettleTypes'
  BY <1>1, <1>2, <1>6 DEF SettleInv, SettleTypes
<1> QED
  BY <1>4, <1>5, <1>6, <1>7 DEF SettleInv, PullInv, Under, OrderInv, Ordered, RemoteInv

LEMMA StartPullKeeps ==
    ASSUME SettleInv, NEW c \in Clones, StartPull(c)
    PROVE  SettleInv'
<1> DEFINE s == clone[c]
<1>1. /\ s \in CloneType /\ CloneInv(s) /\ UNCHANGED <<remote, clone>>
      /\ remote \in Commits
  BY DEF StartPull, At, SettleInv, SettleTypes
<1>2. PICK clean \in {FALSE, s.work = s.head /\ ~s.merging} :
          pull' = [NoPull EXCEPT !.pc = "merge", !.by = c, !.ref = remote,
                                 !.clean = clean, !.before = s]
  BY DEF StartPull
<1>3. /\ pull'.pc = "merge" /\ pull'.by = c /\ pull'.ref = remote /\ pull'.clean = clean
      /\ pull'.before = s /\ ~pull'.resolved /\ ~pull'.repaired
  BY <1>2 DEF NoPull
<1>4. pull' \in PullType
  <2>1. ASSUME NEW p \in PullPlaces, NEW q \in Clones, NEW f \in Commits, NEW b \in BOOLEAN,
               NEW o \in CloneType
        PROVE  [NoPull EXCEPT !.pc = p, !.by = q, !.ref = f, !.clean = b, !.before = o] \in PullType
    BY FirstTyped DEF PullType
  <2>2. "merge" \in PullPlaces /\ clean \in BOOLEAN
    BY DEF PullPlaces
  <2>3. [NoPull EXCEPT !.pc = "merge", !.by = c, !.ref = remote, !.clean = clean, !.before = s] \in PullType
    BY ONLY <1>1, <2>1, <2>2, c \in Clones, Zenon
  <2> QED
    BY <1>2, <2>3
<1>5. SettleTypes'
  BY <1>1, <1>3, <1>4 DEF SettleInv, SettleTypes
<1>6. \A y \in Clones : (CloneInv(clone[y]) /\ HashInv(clone[y]))'
  BY <1>1 DEF SettleInv, CloneInv, HashInv, HashKept, Dangling
<1>7. clean => s.work = s.head /\ ~s.merging /\ Dangling(s.head) = {}
  BY <1>1 DEF CloneInv
<1>8. PullInv'
  BY <1>1, <1>3, <1>7 DEF PullInv, Under, GivesBack, OwnStays, Own, Dangling
<1> QED
  BY <1>3, <1>5, <1>6, <1>8 DEF SettleInv, OrderInv, Ordered, RemoteInv

\* The pull p moves on to pc, for the same clone as before.
Moved(p, pc) ==
    /\ p \in PullType /\ p.pc = pc /\ p.by = pull.by /\ p.ref = pull.ref
    /\ p.clean = pull.clean /\ p.before = pull.before

LEMMA MovedOn ==
    ASSUME SettleTypes, NEW pc \in PullPlaces, NEW b \in BOOLEAN
    PROVE  /\ Goto(pc) =>
               /\ Moved(pull', pc) /\ pull'.mergeErr = pull.mergeErr
               /\ pull'.resolved = pull.resolved /\ pull'.repaired = pull.repaired
           /\ pull' = [pull EXCEPT !.pc = pc, !.mergeErr = b] =>
               /\ Moved(pull', pc) /\ pull'.mergeErr = b
               /\ pull'.resolved = pull.resolved /\ pull'.repaired = pull.repaired
           /\ pull' = [pull EXCEPT !.pc = pc, !.resolved = b] =>
               /\ Moved(pull', pc) /\ pull'.mergeErr = pull.mergeErr
               /\ pull'.resolved = b /\ pull'.repaired = pull.repaired
           /\ pull' = [pull EXCEPT !.pc = pc, !.repaired = b] =>
               /\ Moved(pull', pc) /\ pull'.mergeErr = pull.mergeErr
               /\ pull'.resolved = pull.resolved /\ pull'.repaired = b
           /\ pull' = [pull EXCEPT !.pc = pc, !.ok = b] =>
               /\ Moved(pull', pc) /\ pull'.ok = b /\ pull'.mergeErr = pull.mergeErr
               /\ pull'.resolved = pull.resolved /\ pull'.repaired = pull.repaired
  BY DEF Goto, Moved, SettleTypes, PullType

\* A step of the pull, past its merge, that leaves its clone as s.
LEMMA PullStep ==
    ASSUME SettleInv, pull.pc # "none", UNCHANGED remote,
           NEW pc \in PullPlaces \ {"none", "merge"}, Moved(pull', pc),
           NEW s \in CloneType, On(pull.by, s), CloneInv(s), HashInv(s),
           OwnStays(pull.before, s.work),
           pc # "returned" => GivesBack(s, pull), Ordered(s, pull'),
           ~Unsettled(pull.before) /\ (pc \in {"resolve", "capture", "repair", "conclude"}
                                       \/ (pc = "returned" /\ pull'.ok))
               => Brought(s, pull') \/ Barred(s, pull')
    PROVE  SettleInv' /\ clone'[pull.by] = s /\ \A c \in Clones \ {pull.by} : clone'[c] = clone[c]
<1>1. pull.by \in Clones /\ pull'.by = pull.by /\ pull'.pc = pc /\ pull'.ref = pull.ref
      /\ pull'.clean = pull.clean /\ pull'.before = pull.before /\ pull' \in PullType
  BY DEF SettleInv, SettleTypes, Moved
<1>2. SettleTypes' /\ \A c \in Clones : (CloneInv(clone[c]) /\ HashInv(clone[c]))'
  BY <1>1, OneClone
<1>3. clone'[pull.by] = s /\ \A c \in Clones \ {pull.by} : clone'[c] = clone[c]
  BY <1>1, CloneReplaced DEF SettleInv
<1>4. clone'[pull'.by] = s
  BY <1>1, <1>3
<1>5. PullInv'
  <2>1. OwnStays(pull'.before, s.work)
    BY <1>1
  <2>2. pc # "returned" => GivesBack(s, pull')
    BY <1>1 DEF GivesBack
  <2>3. pull'.clean => pull'.before.work = pull'.before.head /\ ~pull'.before.merging
    BY <1>1 DEF SettleInv, PullInv
  <2>4. pull'.pc \notin {"none", "merge"}
    BY <1>1
  <2> QED
    BY <1>1, <1>4, <2>1, <2>2, <2>3, <2>4 DEF PullInv, Under, OwnStays, GivesBack, Own, Dangling
<1>6. OrderInv'
  BY <1>4 DEF OrderInv, Ordered
<1>7. RemoteInv'
  <2>1. ASSUME /\ pull'.pc \in {"resolve", "capture", "repair", "conclude"} \/ (pull'.pc = "returned" /\ pull'.ok)
               /\ ~Unsettled(pull'.before)
        PROVE  Brought(s, pull') \/ Barred(s, pull')
    BY <1>1, <2>1 DEF Unsettled
  <2> QED
    BY <1>4, <2>1 DEF RemoteInv, Brought, Barred, Won, Unsettled
<1> QED
  BY <1>2, <1>3, <1>5, <1>6, <1>7 DEF SettleInv

\* What is known of the clone of a pull that is under way.
LEMMA PullKnows ==
    ASSUME SettleInv, Under
    PROVE  LET s == clone[pull.by]
               o == pull.before
           IN  /\ pull.by \in Clones /\ pull \in PullType /\ remote \in Commits /\ pull.pc # "none"
               /\ s \in CloneType /\ o \in CloneType /\ CloneInv(s) /\ HashInv(s)
               /\ OwnStays(o, s.work) /\ GivesBack(s, pull)
               /\ pull.clean => o.work = o.head /\ ~o.merging
               /\ Ordered(s, pull)
               /\ On(pull.by, s) <=> clone' = clone
<1>1. pull.by \in Clones /\ pull \in PullType /\ remote \in Commits /\ pull.pc # "none"
  BY DEF SettleInv, SettleTypes, Under
<1>2. clone[pull.by] \in CloneType /\ pull.before \in CloneType
  BY <1>1 DEF SettleInv, SettleTypes, PullType
<1>3. On(pull.by, clone[pull.by]) <=> clone' = clone
  BY <1>1 DEF On, SettleInv, SettleTypes
<1> QED
  BY <1>1, <1>2, <1>3 DEF SettleInv, PullInv, OrderInv, Under

\* A pull that leaves its clone alone, and takes no other branch than it has to.
LEMMA PullWaits ==
    ASSUME SettleInv, Under, UNCHANGED <<remote, clone>>,
           NEW pc \in PullPlaces \ {"none", "merge"}, Moved(pull', pc), Ordered(clone[pull.by], pull'),
           ~Unsettled(pull.before) /\ (pc \in {"resolve", "capture", "repair", "conclude"}
                                       \/ (pc = "returned" /\ pull'.ok))
               => Brought(clone[pull.by], pull') \/ Barred(clone[pull.by], pull')
    PROVE  SettleInv'
  BY PullKnows, PullStep

LEMMA NoFlagsKeeps ==
    ASSUME SettleInv, NoFlags
    PROVE  SettleInv'
<1>1. /\ Under /\ UNCHANGED <<remote, clone>>
      /\ pull' = [pull EXCEPT !.pc = "returned", !.ok = FALSE]
  BY DEF NoFlags, At, Return, Under
<1>2. Moved(pull', "returned") /\ ~pull'.ok /\ "returned" \in PullPlaces
  BY <1>1, MovedOn DEF SettleInv, PullPlaces
<1>3. Ordered(clone[pull.by], pull')
  BY <1>2 DEF Ordered, Moved
<1> QED
  BY <1>1, <1>2, <1>3, PullWaits

\* A merge that changes nothing is up to date or has failed.
LEMMA MergeChangesNothingKeeps ==
    ASSUME SettleInv, At("merge"), MergeChangesNothing(pull.by)
    PROVE  SettleInv'
<1> DEFINE s == clone[pull.by]
<1>1. Under /\ UNCHANGED <<remote, clone>> /\ "resolve" \in PullPlaces
  BY DEF MergeChangesNothing, At, Under, PullPlaces
<1>2. s = pull.before /\ CloneInv(s) /\ Ordered(s, pull) /\ pull.pc = "merge"
  BY <1>1, PullKnows DEF At, SettleInv, PullInv
<1>3. ~Unsettled(s) => s.conflicts = {} /\ s.violations = {}
  BY <1>2 DEF Unsettled, CloneInv
<1>4. CASE ~s.merging /\ Changed(pull.by) = {} /\ pull' = [pull EXCEPT !.pc = "resolve"]
  <2>1. /\ Moved(pull', "resolve") /\ pull'.mergeErr = pull.mergeErr
        /\ pull'.resolved = pull.resolved /\ pull'.repaired = pull.repaired
    BY <1>1, <1>4, MovedOn DEF Goto, SettleInv
  <2>2. \A r \in AllRows : pull.ref[r] = s.base[r]
    BY <1>4 DEF Changed
  <2>3. Ordered(s, pull')
    BY <1>2, <2>1 DEF Ordered, Moved
  <2>4. ~Unsettled(s) => Brought(s, pull')
    BY <1>2, <1>3, <2>1, <2>2 DEF Brought, Moved
  <2> QED
    BY <1>1, <1>2, <2>1, <2>3, <2>4, PullWaits
<1>5. CASE pull' = [pull EXCEPT !.pc = "resolve", !.mergeErr = TRUE]
  <2>1. /\ Moved(pull', "resolve") /\ pull'.mergeErr
        /\ pull'.resolved = pull.resolved /\ pull'.repaired = pull.repaired
    BY <1>1, <1>5, MovedOn DEF SettleInv
  <2>2. Ordered(s, pull')
    BY <1>2, <2>1 DEF Ordered, Moved
  <2>3. ~Unsettled(s) => Barred(s, pull')
    BY <1>2, <1>3, <2>1 DEF Barred, Ordered, Moved
  <2> QED
    BY <1>1, <1>2, <2>1, <2>2, <2>3, PullWaits
<1> QED
  BY <1>4, <1>5 DEF MergeChangesNothing

\* Of the merged rows: what hashes they keep, and what has been brought in.
LEMMA MergedRows ==
    ASSUME SettleInv, At("merge"), NEW c \in Clones, c = pull.by, ~clone[c].merging,
           \A r \in Own(clone[c]), x \in Changed(c) : TableOf(r) # TableOf(x),
           NEW conflicts, conflicts = {r \in AllRows : Clash(clone[c].base[r], clone[c].head[r], pull.ref[r])},
           NEW work, work = Onto(c, clone[c].work)
    PROVE  /\ HashKept(clone[c].head, work)
           /\ "migration" \in conflicts \/ HashKept(pull.ref, work)
           /\ "migration" \in Own(clone[c]) => HashKept(pull.ref, clone[c].head)
           /\ conflicts \subseteq Changed(c)
           /\ \A r \in Changed(c) \ conflicts : work[r] = pull.ref[r]
<1> DEFINE s == clone[c]
           m == "migration"
<1>1. /\ c \in Clones /\ CloneInv(s) /\ HashInv(s) /\ pull.ref = remote /\ m \in AllRows
  BY PullKnows DEF At, Under, SettleInv, PullInv, AllRows
<1>2. /\ \A r \in AllRows : work[r] = Merged(s.base[r], s.work[r], pull.ref[r])
      /\ \A r \in Own(s) : pull.ref[r] = s.base[r] /\ work[r] = s.work[r]
      /\ \A r \in AllRows \ Own(s) : s.work[r] = s.head[r]
  BY <1>1, Landing DEF SettleInv
<1>3. HashKept(s.head, s.work) /\ HashKept(s.base, s.head) /\ HashKept(s.base, pull.ref)
  BY <1>1 DEF HashInv
<1>4. ASSUME m \in Own(s)
      PROVE  HashKept(pull.ref, s.head) /\ HashKept(s.head, work) /\ HashKept(pull.ref, work)
  BY <1>2, <1>3, <1>4 DEF HashKept
<1>5. ASSUME m \notin Own(s)
      PROVE  HashKept(s.head, work) /\ (m \in conflicts \/ HashKept(pull.ref, work))
  <2>1. s.work[m] = s.head[m] /\ work[m] = Merged(s.base[m], s.head[m], pull.ref[m])
    BY <1>1, <1>2, <1>5
  <2>2. HashKept(s.head, work)
    BY <1>3, <2>1 DEF HashKept, Merged
  <2>3. m \in conflicts \/ HashKept(pull.ref, work)
    BY <1>1, <1>3, <2>1 DEF HashKept, Merged, Clash
  <2> QED
    BY <1>5, <2>2, <2>3
<1>6. conflicts \subseteq Changed(c)
  BY DEF Clash, Changed
<1>7. ASSUME NEW r \in Changed(c), r \notin conflicts
      PROVE  work[r] = pull.ref[r]
  <2>1. r \in AllRows /\ pull.ref[r] # s.base[r] /\ r \notin Own(s)
    BY <1>2 DEF Changed
  <2>2. s.work[r] = s.head[r] /\ work[r] = Merged(s.base[r], s.work[r], pull.ref[r])
    BY <1>2, <2>1
  <2> QED
    BY <1>7, <2>1, <2>2 DEF Merged, Clash
<1> QED
  BY <1>4, <1>5, <1>6, <1>7

LEMMA MergeLandsKeeps ==
    ASSUME SettleInv, At("merge"), MergeLands(pull.by)
    PROVE  SettleInv' /\ \A c \in Clones : HashKept(clone[c].head, clone'[c].head)
<1> DEFINE c == pull.by
           s == clone[c]
           conflicts == {r \in AllRows : Clash(s.base[r], s.head[r], pull.ref[r])}
           work == Onto(c, s.work)
           head == Onto(c, s.head)
<1>1. /\ Under /\ pull.pc = "merge" /\ UNCHANGED remote /\ "resolve" \in PullPlaces \ {"none", "merge"}
      /\ ~s.merging /\ \A r \in Own(s), x \in Changed(c) : TableOf(r) # TableOf(x)
  BY DEF MergeLands, At, Under, PullPlaces
<1>2. /\ c \in Clones /\ pull.pc # "none" /\ s \in CloneType /\ CloneInv(s) /\ HashInv(s)
      /\ s = pull.before /\ pull.ref = remote /\ remote \in Commits /\ SettleTypes
      /\ Ordered(s, pull) /\ (pull.clean => s.work = s.head)
      /\ s.head \in Commits /\ s.work \in Commits /\ s.base \in Commits /\ s.conflicts = {}
      /\ s.violations \in SUBSET Violations
  BY <1>1, PullKnows, CloneFields DEF SettleInv, PullInv, CloneInv
<1> HIDE DEF work, conflicts, c
<1>3. /\ work \in Commits
      /\ \A r \in AllRows : work[r] = Merged(s.base[r], s.work[r], pull.ref[r])
      /\ \A r \in Own(s) : pull.ref[r] = s.base[r] /\ work[r] = s.work[r]
      /\ \A r \in AllRows \ Own(s) : s.work[r] = s.head[r]
      /\ Dangling(work) \cap Dangling(s.head) = {}
  BY <1>1, <1>2, Landing DEF work
<1>4. /\ HashKept(s.head, work) /\ ("migration" \in conflicts \/ HashKept(pull.ref, work))
      /\ ("migration" \in Own(s) => HashKept(pull.ref, s.head))
      /\ conflicts \subseteq Changed(c) /\ \A r \in Changed(c) \ conflicts : work[r] = pull.ref[r]
  <2>1. ~clone[c].merging /\ \A r \in Own(clone[c]), x \in Changed(c) : TableOf(r) # TableOf(x)
    BY <1>1
  <2>2. /\ conflicts = {r \in AllRows : Clash(clone[c].base[r], clone[c].head[r], pull.ref[r])}
        /\ work = Onto(c, clone[c].work) /\ c = pull.by /\ c \in Clones
    BY <1>2 DEF work, conflicts, c
  <2> HIDE DEF s, head
  <2>3. /\ HashKept(clone[c].head, work)
        /\ "migration" \in conflicts \/ HashKept(pull.ref, work)
        /\ "migration" \in Own(clone[c]) => HashKept(pull.ref, clone[c].head)
        /\ conflicts \subseteq Changed(c)
        /\ \A r \in Changed(c) \ conflicts : work[r] = pull.ref[r]
    BY ONLY SettleInv, At("merge"), <2>1, <2>2, MergedRows
  <2> QED
    BY <2>3 DEF s
<1>5. OwnStays(pull.before, work)
  BY <1>2, <1>3 DEF OwnStays
<1>6. \A r \in AllRows : pull.ref[r] # pull.before.base[r] => r \in conflicts \/ Won(r, pull.ref, work)
  BY <1>2, <1>4 DEF Changed, Won
<1>7. ASSUME NEW x, On(c, x), x \in CloneType, CloneInv(x), HashInv(x), x.work = work,
             GivesBack(x, pull), HashKept(s.head, x.head),
             conflicts = {} \/ (x.conflicts = conflicts /\ x.ref = pull.ref), Moved(pull', "resolve"),
             pull'.resolved = pull.resolved, pull'.repaired = pull.repaired,
             x.conflicts \subseteq conflicts
      PROVE  SettleInv' /\ \A y \in Clones : HashKept(clone[y].head, clone'[y].head)
  <2>1. Ordered(x, pull')
    BY <1>1, <1>2, <1>7 DEF Ordered, Moved
  <2>2. Brought(x, pull')
    BY <1>6, <1>7 DEF Brought, Moved
  <2>3. SettleInv' /\ clone'[c] = x /\ \A y \in Clones \ {c} : clone'[y] = clone[y]
    BY <1>1, <1>2, <1>5, <1>7, <2>1, <2>2, PullStep DEF c
  <2> QED
    BY <1>7, <2>3 DEF HashKept
<1>8. PICK odd \in SUBSET {"odd"} :
        LET violations == Dangling(work) \cup (s.violations \ Children) \cup odd
            landed == [s EXCEPT !.work = work, !.ref = pull.ref, !.saved = s.work, !.had = s.violations,
                                !.dirty = Own(s), !.conflicts = conflicts, !.violations = violations]
        IN  \/ /\ conflicts \cup violations = {}
               /\ On(c, [s EXCEPT !.head = head, !.work = work, !.base = pull.ref, !.violations = {}])
               /\ Goto("resolve")
            \/ \E active, err \in BOOLEAN :
                   /\ conflicts # {} => active
                   /\ On(c, IF active THEN [landed EXCEPT !.merging = TRUE]
                            ELSE [NoMerge(landed) EXCEPT !.violations = violations])
                   /\ pull' = [pull EXCEPT !.pc = "resolve", !.mergeErr = err]
  BY DEF MergeLands, work, conflicts, c
<1> DEFINE violations == Dangling(work) \cup (s.violations \ Children) \cup odd
           landed == [s EXCEPT !.work = work, !.ref = pull.ref, !.saved = s.work, !.had = s.violations,
                               !.dirty = Own(s), !.conflicts = conflicts, !.violations = violations]
<1>9. /\ violations \in SUBSET Violations /\ violations \cap Children = Dangling(work)
      /\ conflicts \in SUBSET AllRows /\ Own(s) \in SUBSET AllRows
  BY <1>2, CloneFields DEF Violations, Children, Dangling, Own, conflicts
<1> HIDE DEF violations
<1>10. CASE /\ conflicts \cup violations = {}
            /\ On(c, [s EXCEPT !.head = head, !.work = work, !.base = pull.ref, !.violations = {}])
            /\ Goto("resolve")
  <2> DEFINE x == [s EXCEPT !.head = head, !.work = work, !.base = pull.ref, !.violations = {}]
  <2>1. head = [r \in AllRows |-> Merged(s.base[r], s.head[r], pull.ref[r])]
    BY DEF Onto
  <2>2. \A r \in AllRows : head[r] = Merged(s.base[r], s.head[r], pull.ref[r])
    BY <2>1
  <2>3. head \in Commits
    <3>1. \A r \in AllRows : head[r] = s.head[r] \/ head[r] = pull.ref[r]
      BY <2>2 DEF Merged
    <3>2. head = [r \in AllRows |-> head[r]]
      BY <2>1
    <3> QED
      BY <1>2, <3>1, <3>2, MixedRows
  <2> HIDE DEF head
  <2>4. /\ x \in CloneType /\ x.head = head /\ x.work = work /\ x.base = pull.ref /\ x.violations = {}
        /\ ~x.merging /\ x.conflicts = {}
    <3>1. ASSUME NEW f \in Commits, NEW g \in Commits, NEW h \in Commits, NEW v \in SUBSET Violations
          PROVE  [s EXCEPT !.head = f, !.work = g, !.base = h, !.violations = v] \in CloneType
      BY <1>2 DEF CloneType
    <3>2. x \in CloneType
      BY ONLY <1>2, <1>3, <2>3, <3>1, {} \in SUBSET Violations, Zenon
    <3>3. /\ x.head = head /\ x.work = work /\ x.base = pull.ref /\ x.violations = {}
          /\ x.merging = s.merging /\ x.conflicts = s.conflicts
      BY <1>2 DEF CloneType
    <3> QED
      BY <1>1, <1>2, <3>2, <3>3
  <2> HIDE DEF x
  <2>5. CloneInv(x)
    BY <1>9, <1>10, <2>4 DEF CloneInv
  <2>6. "migration" \in AllRows /\ HashKept(s.base, s.head) /\ HashKept(s.base, pull.ref)
    BY <1>2 DEF AllRows, HashInv
  <2>7. HashKept(s.head, head) /\ HashKept(pull.ref, head)
    <3>1. ~Clash(s.base["migration"], s.head["migration"], pull.ref["migration"])
      BY <1>10, <2>6 DEF conflicts
    <3> QED
      BY <2>2, <2>6, <3>1 DEF HashKept, Merged, Clash
  <2>8. HashKept(head, work)
    <3>1. CASE "migration" \in Own(s)
      BY <1>2, <1>3, <2>2, <2>6, <3>1 DEF HashKept, Merged, HashInv
    <3>2. CASE "migration" \notin Own(s)
      BY <1>3, <2>2, <2>6, <3>2 DEF HashKept
    <3> QED
      BY <3>1, <3>2
  <2>9. HashInv(x)
    BY <1>2, <2>4, <2>7, <2>8 DEF HashInv, HashKept
  <2>10. GivesBack(x, pull)
    <3>1. ASSUME s.work = s.head
          PROVE  Dangling(head) = {}
      <4>1. \A r \in AllRows : head[r] = work[r]
        BY <1>3, <2>2, <3>1
      <4> QED
        BY <1>9, <1>10, <4>1 DEF Dangling, AllRows, Children
    <3> QED
      BY <1>2, <2>4, <3>1 DEF GivesBack
  <2>11. /\ Moved(pull', "resolve")
         /\ pull'.resolved = pull.resolved /\ pull'.repaired = pull.repaired
    BY <1>1, <1>2, <1>10, MovedOn
  <2> QED
    BY <1>7, <1>10, <2>4, <2>5, <2>7, <2>9, <2>10, <2>11 DEF x
<1>11. ASSUME NEW active \in BOOLEAN, NEW err \in BOOLEAN, conflicts # {} => active,
              On(c, IF active THEN [landed EXCEPT !.merging = TRUE]
                    ELSE [NoMerge(landed) EXCEPT !.violations = violations]),
              pull' = [pull EXCEPT !.pc = "resolve", !.mergeErr = err]
       PROVE  SettleInv' /\ \A y \in Clones : HashKept(clone[y].head, clone'[y].head)
  <2>1. /\ landed \in CloneType
        /\ landed.head = s.head /\ landed.work = work /\ landed.base = s.base /\ landed.ref = pull.ref
        /\ landed.saved = s.work /\ landed.had = s.violations /\ landed.dirty = Own(s)
        /\ landed.conflicts = conflicts /\ landed.violations = violations
    <3>1. ASSUME NEW f \in Commits, NEW g \in Commits, NEW h \in Commits, NEW k \in SUBSET Violations,
                 NEW d \in SUBSET AllRows, NEW e \in SUBSET AllRows, NEW v \in SUBSET Violations
          PROVE  [s EXCEPT !.work = f, !.ref = g, !.saved = h, !.had = k,
                           !.dirty = d, !.conflicts = e, !.violations = v] \in CloneType
      BY <1>2 DEF CloneType
    <3>2. landed \in CloneType
      <4>1. /\ work \in Commits /\ pull.ref \in Commits /\ s.work \in Commits
            /\ s.violations \in SUBSET Violations /\ Own(s) \in SUBSET AllRows
            /\ conflicts \in SUBSET AllRows /\ violations \in SUBSET Violations
        BY <1>2, <1>3, <1>9
      <4> QED
        BY ONLY <3>1, <4>1, Zenon
    <3>3. /\ landed.head = s.head /\ landed.work = work /\ landed.base = s.base /\ landed.ref = pull.ref
          /\ landed.saved = s.work /\ landed.had = s.violations /\ landed.dirty = Own(s)
          /\ landed.conflicts = conflicts /\ landed.violations = violations
      BY <1>2 DEF CloneType
    <3> QED
      BY <3>2, <3>3
  <2> HIDE DEF landed
  <2> DEFINE x == IF active THEN [landed EXCEPT !.merging = TRUE]
                  ELSE [NoMerge(landed) EXCEPT !.violations = violations]
  <2>2. /\ x \in CloneType /\ x.head = s.head /\ x.work = work /\ x.base = s.base
        /\ x.violations = violations /\ x.merging = active
    BY <1>9, <2>1, NoMergeFields DEF CloneType
  <2>3. /\ active => x.ref = pull.ref /\ x.saved = s.work /\ x.had = s.violations
                     /\ x.dirty = Own(s) /\ x.conflicts = conflicts
        /\ ~active => x.conflicts = {}
    BY <2>1, NoMergeFields DEF CloneType
  <2> HIDE DEF x
  <2>4. CloneInv(x)
    <3>1. active => \A r \in Own(s), y \in conflicts : TableOf(r) # TableOf(y)
      BY <1>1, <1>4 DEF c
    <3> QED
      BY <1>2, <1>3, <1>9, <2>2, <2>3, <3>1 DEF CloneInv
  <2>5. HashInv(x)
    BY <1>2, <1>4, <2>2, <2>3 DEF HashInv, HashKept
  <2>6. GivesBack(x, pull)
    <3>1. pull.clean => Dangling(s.head) = {}
      BY <1>1, <1>2, PullKnows DEF GivesBack, c
    <3> QED
      BY <1>1, <1>2, <2>2, <2>3, <3>1 DEF GivesBack
  <2>7. /\ Moved(pull', "resolve")
        /\ pull'.resolved = pull.resolved /\ pull'.repaired = pull.repaired
    BY <1>1, <1>2, <1>11, MovedOn
  <2>8. HashKept(s.head, x.head)
    BY <2>2 DEF HashKept
  <2> QED
    BY <1>7, <1>11, <2>2, <2>3, <2>4, <2>5, <2>6, <2>7, <2>8 DEF x
<1> QED
  BY <1>8, <1>10, <1>11 DEF violations, landed

\* A pull that gives up at once.
LEMMA FailKeeps ==
    ASSUME SettleInv, Under, UNCHANGED <<remote, clone>>, Fail
    PROVE  SettleInv'
<1>1. Moved(pull', "abort") /\ "abort" \in PullPlaces
  BY MovedOn DEF Fail, SettleInv, PullPlaces
<1>2. Ordered(clone[pull.by], pull')
  BY <1>1 DEF Ordered, Moved
<1> QED
  BY <1>1, <1>2, PullWaits

\* Conflicts that are safe are settled without harm to what was not committed, to the
\* rows that dangle or to a recorded hash, and for what the remote holds.
LEMMA Resolved ==
    ASSUME SettleInv, Under, NEW s, s = clone[pull.by], NEW S, Resolve(pull.by, S),
           \A r \in s.conflicts : Safe(r, s.work[r], s.ref[r]),
           NEW done, done = {r \in s.conflicts : TableOf(r) \in S}
    PROVE  \E x \in CloneType :
               /\ On(pull.by, x) /\ CloneInv(x) /\ HashInv(x)
               /\ OwnStays(pull.before, x.work) /\ GivesBack(x, pull)
               /\ x.head = s.head /\ x.violations = s.violations /\ x.merging = s.merging
               /\ x.ref = s.ref /\ x.conflicts = s.conflicts \ done
               /\ x.work["issue"] = s.work["issue"]
               /\ \A r \in AllRows \ done : x.work[r] = s.work[r]
               /\ \A r \in done : Won(r, s.ref, x.work)
<1>1. /\ pull.by \in Clones /\ s \in CloneType /\ CloneInv(s) /\ HashInv(s)
      /\ OwnStays(pull.before, s.work) /\ GivesBack(s, pull)
      /\ s.head \in Commits /\ s.work \in Commits /\ s.ref \in Commits
      /\ s.conflicts \in SUBSET AllRows /\ s.dirty \in SUBSET AllRows
  BY PullKnows, CloneFields
<1> DEFINE work == [r \in AllRows |-> IF r \in done THEN Theirs(r, s.work[r], s.ref[r]) ELSE s.work[r]]
           x == [s EXCEPT !.work = work, !.conflicts = s.conflicts \ done]
<1>2. On(pull.by, x)
  BY DEF Resolve
<1>3. \A r \in AllRows : work[r] = IF r \in done THEN Theirs(r, s.work[r], s.ref[r]) ELSE s.work[r]
  OBVIOUS
<1>4. work \in Commits
  <2>1. \A r \in AllRows : work[r] = s.work[r] \/ work[r] = s.ref[r]
    BY <1>3 DEF Theirs
  <2>2. work = [r \in AllRows |-> work[r]]
    OBVIOUS
  <2> HIDE DEF work
  <2> QED
    BY <1>1, <2>1, <2>2, MixedRows
<1> HIDE DEF work
<1>5. /\ x \in CloneType /\ x.work = work /\ x.conflicts = s.conflicts \ done
      /\ x.head = s.head /\ x.base = s.base /\ x.merging = s.merging /\ x.ref = s.ref
      /\ x.saved = s.saved /\ x.had = s.had /\ x.dirty = s.dirty /\ x.violations = s.violations
  BY <1>1, <1>4 DEF CloneType
<1> HIDE DEF x
<1>6. done \subseteq s.conflicts /\ s.conflicts \cap {"issue", "label", "prefix"} = {}
  BY DEF Safe
<1>7. work["issue"] = s.work["issue"] /\ work["label"] = s.work["label"]
  BY <1>3, <1>6 DEF AllRows
<1>8. "edge" \in AllRows /\ (work["edge"] = Absent <=> s.work["edge"] = Absent)
  <2>1. CASE "edge" \in done
    <3>1. Absent \notin {s.work["edge"], s.ref["edge"]}
      BY <1>6, <2>1 DEF Safe
    <3> QED
      BY <1>3, <2>1, <3>1 DEF Theirs, AllRows
  <2>2. CASE "edge" \notin done
    BY <1>3, <2>2 DEF AllRows
  <2> QED
    BY <2>1, <2>2
<1>9. Dangling(work) = Dangling(s.work)
  BY <1>7, <1>8 DEF Dangling, Children
<1>10. CloneInv(x)
  BY <1>1, <1>5, <1>6, <1>9 DEF CloneInv
<1>11. "migration" \in AllRows /\ HashKept(s.head, work)
  BY <1>1, <1>3, <1>6 DEF HashKept, HashInv, Theirs, AllRows, Hashes, NoHash
<1>12. "migration" \in done => HashKept(s.ref, work)
  <2>1. ASSUME "migration" \in done
        PROVE  HashKept(s.ref, work)
    <3>1. /\ Absent \notin {s.work["migration"], s.ref["migration"]}
          /\ {s.work["migration"], s.ref["migration"]} # Hashes
      BY <1>6, <2>1 DEF Safe
    <3>2. s.work["migration"] \in Hashes \cup {NoHash} /\ s.ref["migration"] \in Hashes \cup {NoHash}
      BY <1>1, <3>1 DEF Commits
    <3>3. work["migration"] = Theirs("migration", s.work["migration"], s.ref["migration"])
      BY <1>3, <1>11, <2>1
    <3> QED
      BY <3>1, <3>2, <3>3 DEF HashKept, Theirs, Hashes, NoHash
  <2> QED
    BY <2>1
<1>13. HashInv(x)
  BY <1>1, <1>3, <1>5, <1>11, <1>12 DEF HashInv, HashKept
<1>14. ASSUME NEW r \in Own(pull.before)
       PROVE  work[r] = s.work[r]
  <2>1. r \in AllRows
    BY <1>14, PullKnows, CloneFields DEF Own
  <2>2. CASE done = {}
    BY <1>3, <2>1, <2>2
  <2>3. CASE done # {}
    <3>1. s.merging /\ r \in s.dirty
      BY <1>1, <1>6, <1>14, <2>3 DEF CloneInv, GivesBack
    <3>2. r \notin s.conflicts
      BY <1>1, <3>1 DEF CloneInv
    <3> QED
      BY <1>3, <1>6, <2>1, <3>2
  <2> QED
    BY <2>2, <2>3
<1>15. OwnStays(pull.before, x.work)
  BY <1>1, <1>5, <1>7, <1>14 DEF OwnStays
<1>16. GivesBack(x, pull)
  BY <1>1, <1>5 DEF GivesBack
<1>17. ASSUME NEW r \in done
       PROVE  Won(r, s.ref, work)
  <2>1. r \in AllRows /\ Safe(r, s.work[r], s.ref[r]) /\ work[r] = Theirs(r, s.work[r], s.ref[r])
    BY <1>1, <1>3, <1>6, <1>17
  <2>2. CASE r = "migration"
    <3>1. s.work["migration"] \in Hashes \cup {NoHash} /\ s.ref["migration"] \in Hashes \cup {NoHash}
      BY <1>1, <2>1, <2>2 DEF Safe, Commits
    <3> QED
      BY <1>12, <1>17, <2>1, <2>2, <3>1 DEF Won, HashKept
  <2>3. CASE r # "migration"
    BY <2>1, <2>3 DEF Won, Theirs
  <2> QED
    BY <2>2, <2>3
<1> QED
  BY <1>2, <1>3, <1>5, <1>7, <1>10, <1>13, <1>15, <1>16, <1>17

LEMMA TryAutoResolveKeeps ==
    ASSUME SettleInv, TryAutoResolve
    PROVE  SettleInv' /\ clone'[pull.by].head = clone[pull.by].head
           /\ \A c \in Clones \ {pull.by} : clone'[c] = clone[c]
<1> DEFINE s == clone[pull.by]
           tables == {TableOf(r) : r \in s.conflicts}
<1>1. /\ Under /\ pull.pc = "resolve" /\ UNCHANGED remote
      /\ {"abort", "capture", "repair"} \subseteq PullPlaces \ {"none", "merge"}
  BY DEF TryAutoResolve, At, Under, PullPlaces
<1>2. /\ Ordered(s, pull) /\ pull.pc # "none" /\ SettleTypes /\ pull.by \in Clones /\ CloneInv(s)
      /\ ~Unsettled(pull.before) => Brought(s, pull) \/ Barred(s, pull)
  BY <1>1, PullKnows DEF SettleInv, RemoteInv
<1>3. CASE UNCHANGED clone /\ Fail
  BY <1>1, <1>3, FailKeeps
<1>4. CASE UNCHANGED clone /\ Goto("capture")
  <2>1. /\ Moved(pull', "capture") /\ pull'.mergeErr = pull.mergeErr
        /\ pull'.resolved = pull.resolved /\ pull'.repaired = pull.repaired
    BY <1>1, <1>2, <1>4, MovedOn
  <2>2. Ordered(s, pull')
    BY <1>1, <1>2, <2>1 DEF Ordered, Moved
  <2>3. ~Unsettled(pull.before) => Brought(s, pull') \/ Barred(s, pull')
    BY <1>2, <2>1 DEF Brought, Barred, Moved
  <2>4. SettleInv'
    BY <1>1, <1>4, <2>1, <2>2, <2>3, PullWaits
  <2> QED
    BY <1>4, <2>4
<1>5. ASSUME NEW S, S \subseteq tables, Resolve(pull.by, S), tables # {},
             \A r \in s.conflicts : Safe(r, s.work[r], s.ref[r]),
             NEW pc \in {"abort", "repair"}, Moved(pull', pc),
             pc = "repair" => S = tables /\ ~pull'.repaired
      PROVE  SettleInv' /\ clone'[pull.by].head = clone[pull.by].head
             /\ \A c \in Clones \ {pull.by} : clone'[c] = clone[c]
  <2> DEFINE done == {r \in s.conflicts : TableOf(r) \in S}
  <2>1. PICK x \in CloneType :
               /\ On(pull.by, x) /\ CloneInv(x) /\ HashInv(x)
               /\ OwnStays(pull.before, x.work) /\ GivesBack(x, pull)
               /\ x.head = s.head /\ x.violations = s.violations /\ x.merging = s.merging
               /\ x.ref = s.ref /\ x.conflicts = s.conflicts \ done
               /\ x.work["issue"] = s.work["issue"]
               /\ \A r \in AllRows \ done : x.work[r] = s.work[r]
               /\ \A r \in done : Won(r, s.ref, x.work)
    <3>1. /\ s = clone[pull.by] /\ Under /\ Resolve(pull.by, S)
          /\ \A r \in s.conflicts : Safe(r, s.work[r], s.ref[r])
          /\ done = {r \in s.conflicts : TableOf(r) \in S}
      BY <1>1, <1>5
    <3> HIDE DEF s, done
    <3> QED
      BY ONLY SettleInv, <3>1, Resolved
  <2>2. s.merging /\ s.conflicts # {}
    BY <1>2, <1>5 DEF CloneInv
  <2>3. pc = "repair" => x.conflicts = {}
    BY <1>5, <2>1
  <2>4. Ordered(x, pull')
    BY <1>5, <2>1, <2>2, <2>3 DEF Ordered, Moved
  <2>5. pc = "repair" /\ ~Unsettled(pull.before) => Brought(x, pull')
    <3>1. ASSUME ~Unsettled(pull.before), pc = "repair"
          PROVE  Brought(x, pull')
      <4>1. Brought(s, pull) /\ s.ref = pull.ref
        BY <1>2, <2>2, <3>1 DEF Brought, Barred
      <4>2. ASSUME NEW r \in AllRows, pull.ref[r] # pull.before.base[r]
            PROVE  Won(r, pull.ref, x.work)
        <5>1. CASE r \in done
          BY <2>1, <4>1, <5>1
        <5>2. CASE r \notin done
          <6>1. r \notin s.conflicts
            BY <1>5, <3>1, <5>2
          <6>2. Won(r, pull.ref, s.work) /\ x.work[r] = s.work[r] /\ x.work["issue"] = s.work["issue"]
            BY <2>1, <4>1, <4>2, <5>2, <6>1 DEF Brought
          <6> QED
            BY <6>2 DEF Won
        <5> QED
          BY <5>1, <5>2
      <4> QED
        BY <1>5, <2>3, <3>1, <4>2 DEF Brought, Moved
    <3> QED
      BY <3>1
  <2>6. pc \in PullPlaces \ {"none", "merge"} /\ pc \notin {"resolve", "capture", "conclude", "returned"}
    BY <1>1, <1>5
  <2>7. SettleInv' /\ clone'[pull.by] = x /\ \A c \in Clones \ {pull.by} : clone'[c] = clone[c]
    BY <1>1, <1>2, <1>5, <2>1, <2>4, <2>5, <2>6, PullStep
  <2> QED
    BY <2>1, <2>7
<1>6. CASE /\ tables # {} /\ \A r \in s.conflicts : Safe(r, s.work[r], s.ref[r])
           /\ Resolve(pull.by, tables) /\ pull' = [pull EXCEPT !.pc = "repair", !.resolved = TRUE]
  <2>1. Moved(pull', "repair") /\ pull'.repaired = pull.repaired
    BY <1>1, <1>2, <1>6, MovedOn
  <2>2. ~pull'.repaired
    BY <1>1, <1>2, <2>1 DEF Ordered
  <2> QED
    BY <1>5, <1>6, <2>1, <2>2
<1>7. ASSUME NEW S \in SUBSET tables, tables # {}, Resolve(pull.by, S), Fail,
             \A r \in s.conflicts : Safe(r, s.work[r], s.ref[r])
      PROVE  SettleInv' /\ clone'[pull.by].head = clone[pull.by].head
             /\ \A c \in Clones \ {pull.by} : clone'[c] = clone[c]
  <2>1. Moved(pull', "abort")
    BY <1>1, <1>2, <1>7, MovedOn DEF Fail
  <2> QED
    BY <1>5, <1>7, <2>1
<1> QED
  BY <1>3, <1>4, <1>6, <1>7 DEF TryAutoResolve

LEMMA CaptureKeeps ==
    ASSUME SettleInv, Capture
    PROVE  SettleInv'
<1> DEFINE s == clone[pull.by]
<1>1. /\ Under /\ pull.pc = "capture" /\ UNCHANGED <<remote, clone>>
      /\ "repair" \in PullPlaces \ {"none", "merge"}
  BY DEF Capture, At, Under, PullPlaces
<1>2. /\ Ordered(s, pull) /\ SettleTypes
      /\ ~Unsettled(pull.before) => Brought(s, pull) \/ Barred(s, pull)
  BY <1>1, PullKnows DEF SettleInv, RemoteInv
<1>3. CASE Fail
  BY <1>1, <1>3, FailKeeps
<1>4. CASE Goto("repair")
  <2>1. /\ Moved(pull', "repair") /\ pull'.mergeErr = pull.mergeErr
        /\ pull'.resolved = pull.resolved /\ pull'.repaired = pull.repaired
    BY <1>1, <1>2, <1>4, MovedOn
  <2>2. Ordered(s, pull')
    BY <1>1, <1>2, <2>1 DEF Ordered, Moved
  <2>3. ~Unsettled(pull.before) => Brought(s, pull') \/ Barred(s, pull')
    BY <1>2, <2>1 DEF Brought, Barred, Moved
  <2> QED
    BY <1>1, <2>1, <2>2, <2>3, PullWaits
<1> QED
  BY <1>3, <1>4 DEF Capture

\* A dangling row goes with its issue, and no other row does.
LEMMA Repaired ==
    ASSUME SettleInv, Under, NEW s, s = clone[pull.by], NEW S, Repair(pull.by, S),
           S \subseteq s.violations, s.violations \subseteq Children
    PROVE  \E x \in CloneType :
               /\ On(pull.by, x) /\ CloneInv(x) /\ HashInv(x)
               /\ OwnStays(pull.before, x.work) /\ GivesBack(x, pull)
               /\ x.head = s.head /\ x.violations = s.violations \ S /\ x.merging = s.merging
               /\ x.ref = s.ref /\ x.conflicts = s.conflicts
               /\ x.work["issue"] = s.work["issue"]
               /\ \A r \in AllRows \ S : x.work[r] = s.work[r]
               /\ \A r \in S : r \in Children /\ x.work["issue"] = Absent
<1>1. /\ pull.by \in Clones /\ s \in CloneType /\ CloneInv(s) /\ HashInv(s)
      /\ OwnStays(pull.before, s.work) /\ GivesBack(s, pull)
      /\ s.head \in Commits /\ s.work \in Commits /\ s.violations \in SUBSET Violations
      /\ Own(pull.before) \subseteq AllRows
  BY PullKnows, CloneFields DEF Own
<1>2. S \subseteq Dangling(s.work) /\ S \subseteq Children /\ "issue" \notin Children
      /\ Children \subseteq AllRows /\ {"issue", "migration"} \subseteq AllRows \ Children
  BY <1>1 DEF CloneInv, Children, AllRows
<1> DEFINE work == [r \in AllRows |-> IF r \in S THEN Absent ELSE s.work[r]]
           x == [s EXCEPT !.work = work, !.violations = s.violations \ S]
<1>3. On(pull.by, x)
  BY DEF Repair
<1>4. \A r \in AllRows : work[r] = IF r \in S THEN Absent ELSE s.work[r]
  OBVIOUS
<1>5. work \in Commits
  <2>1. \A r \in AllRows : work[r] = s.work[r] \/ (r # "migration" /\ work[r] = Absent)
    BY <1>2, <1>4
  <2>2. work = [r \in AllRows |-> work[r]]
    OBVIOUS
  <2> HIDE DEF work
  <2> QED
    BY <1>1, <2>1, <2>2, MixedRows
<1> HIDE DEF work
<1>6. /\ x \in CloneType /\ x.work = work /\ x.violations = s.violations \ S
      /\ x.head = s.head /\ x.base = s.base /\ x.merging = s.merging /\ x.ref = s.ref
      /\ x.saved = s.saved /\ x.had = s.had /\ x.dirty = s.dirty /\ x.conflicts = s.conflicts
  BY <1>1, <1>5 DEF CloneType
<1> HIDE DEF x
<1>7. work["issue"] = s.work["issue"] /\ work["migration"] = s.work["migration"]
  BY <1>2, <1>4
<1>8. Dangling(work) = Dangling(s.work) \ S
  BY <1>2, <1>4, <1>7 DEF Dangling
<1>9. CloneInv(x)
  BY <1>1, <1>2, <1>6, <1>8 DEF CloneInv
<1>10. HashInv(x)
  BY <1>1, <1>6, <1>7 DEF HashInv, HashKept
<1>11. \A r \in S : r \in Children /\ work["issue"] = Absent
  BY <1>2, <1>7 DEF Dangling
<1>12. OwnStays(pull.before, x.work)
  BY <1>1, <1>4, <1>6, <1>7, <1>11 DEF OwnStays
<1>13. GivesBack(x, pull)
  BY <1>1, <1>6 DEF GivesBack
<1> QED
  BY <1>3, <1>4, <1>6, <1>7, <1>9, <1>10, <1>11, <1>12, <1>13

LEMMA TryRepairKeeps ==
    ASSUME SettleInv, TryRepair
    PROVE  /\ SettleInv' /\ clone'[pull.by].head = clone[pull.by].head
           /\ \A c \in Clones \ {pull.by} : clone'[c] = clone[c]
           /\ pull'.pc # "abort" => clone'[pull.by].conflicts = clone[pull.by].conflicts
<1> DEFINE s == clone[pull.by]
           v == s.violations
<1>1. /\ Under /\ pull.pc = "repair" /\ UNCHANGED remote
      /\ {"abort", "conclude"} \subseteq PullPlaces \ {"none", "merge"}
  BY DEF TryRepair, At, Under, PullPlaces
<1>2. /\ Ordered(s, pull) /\ pull.pc # "none" /\ SettleTypes /\ pull.by \in Clones
      /\ ~Unsettled(pull.before) => Brought(s, pull) \/ Barred(s, pull)
  BY <1>1, PullKnows DEF SettleInv, RemoteInv
<1>3. CASE UNCHANGED clone /\ Fail
  BY <1>1, <1>3, FailKeeps
<1>4. CASE v = {} /\ UNCHANGED clone /\ Goto("conclude")
  <2>1. /\ Moved(pull', "conclude") /\ pull'.mergeErr = pull.mergeErr
        /\ pull'.resolved = pull.resolved /\ pull'.repaired = pull.repaired
    BY <1>1, <1>2, <1>4, MovedOn
  <2>2. Ordered(s, pull')
    BY <1>1, <1>2, <1>4, <2>1 DEF Ordered, Moved
  <2>3. ~Unsettled(pull.before) => Brought(s, pull') \/ Barred(s, pull')
    BY <1>2, <2>1 DEF Brought, Barred, Moved
  <2>4. SettleInv'
    BY <1>1, <1>4, <2>1, <2>2, <2>3, PullWaits
  <2> QED
    BY <1>4, <2>4
<1>5. ASSUME NEW S \in SUBSET v, Repair(pull.by, S), v # {}, v \subseteq Children,
             NEW pc \in {"abort", "conclude"}, Moved(pull', pc),
             pc = "conclude" => S = v /\ pull'.resolved = pull.resolved
      PROVE  /\ SettleInv' /\ clone'[pull.by].head = clone[pull.by].head
             /\ \A c \in Clones \ {pull.by} : clone'[c] = clone[c]
             /\ clone'[pull.by].conflicts = clone[pull.by].conflicts
  <2>1. PICK x \in CloneType :
               /\ On(pull.by, x) /\ CloneInv(x) /\ HashInv(x)
               /\ OwnStays(pull.before, x.work) /\ GivesBack(x, pull)
               /\ x.head = s.head /\ x.violations = s.violations \ S /\ x.merging = s.merging
               /\ x.ref = s.ref /\ x.conflicts = s.conflicts
               /\ x.work["issue"] = s.work["issue"]
               /\ \A r \in AllRows \ S : x.work[r] = s.work[r]
               /\ \A r \in S : r \in Children /\ x.work["issue"] = Absent
    <3>1. /\ s = clone[pull.by] /\ Under /\ Repair(pull.by, S)
          /\ S \subseteq s.violations /\ s.violations \subseteq Children
      BY <1>1, <1>5
    <3> HIDE DEF s
    <3> QED
      BY ONLY SettleInv, <3>1, Repaired
  <2>2. pc = "conclude" => x.violations = {}
    BY <1>5, <2>1
  <2>3. Ordered(x, pull')
    BY <1>1, <1>2, <1>5, <2>1, <2>2 DEF Ordered, Moved
  <2>4. pc = "conclude" /\ ~Unsettled(pull.before) => Brought(x, pull')
    <3>1. ASSUME ~Unsettled(pull.before)
          PROVE  Brought(x, pull')
      <4>1. Brought(s, pull)
        BY <1>2, <1>5, <3>1 DEF Barred
      <4>2. ASSUME NEW r \in AllRows, Won(r, pull.ref, s.work)
            PROVE  Won(r, pull.ref, x.work)
        BY <2>1, <4>2 DEF Won
      <4> QED
        BY <1>5, <2>1, <4>1, <4>2 DEF Brought, Moved
    <3> QED
      BY <3>1
  <2>5. pc \in PullPlaces \ {"none", "merge"} /\ pc \notin {"resolve", "capture", "repair", "returned"}
    BY <1>1, <1>5
  <2>6. SettleInv' /\ clone'[pull.by] = x /\ \A c \in Clones \ {pull.by} : clone'[c] = clone[c]
    BY <1>1, <1>2, <1>5, <2>1, <2>3, <2>4, <2>5, PullStep
  <2> QED
    BY <2>1, <2>6
<1>6. CASE /\ v # {} /\ v \subseteq Children
           /\ Repair(pull.by, v) /\ pull' = [pull EXCEPT !.pc = "conclude", !.repaired = TRUE]
  <2>1. Moved(pull', "conclude") /\ pull'.resolved = pull.resolved
    BY <1>1, <1>2, <1>6, MovedOn
  <2> QED
    BY <1>5, <1>6, <2>1
<1>7. ASSUME NEW S \in SUBSET v, v # {}, v \subseteq Children, Repair(pull.by, S), Fail
      PROVE  /\ SettleInv' /\ clone'[pull.by].head = clone[pull.by].head
             /\ \A c \in Clones \ {pull.by} : clone'[c] = clone[c]
             /\ clone'[pull.by].conflicts = clone[pull.by].conflicts
  <2>1. Moved(pull', "abort")
    BY <1>1, <1>2, <1>7, MovedOn DEF Fail
  <2> QED
    BY <1>5, <1>7, <2>1
<1> QED
  BY <1>3, <1>4, <1>6, <1>7 DEF TryRepair

LEMMA ConcludeKeeps ==
    ASSUME SettleInv, Conclude
    PROVE  /\ SettleInv' /\ HashKept(clone[pull.by].head, clone'[pull.by].head)
           /\ \A c \in Clones \ {pull.by} : clone'[c] = clone[c]
           /\ clone'[pull.by].conflicts \in {{}, clone[pull.by].conflicts}
<1> DEFINE s == clone[pull.by]
           o == pull.before
<1>1. /\ Under /\ pull.pc = "conclude" /\ UNCHANGED remote
      /\ "returned" \in PullPlaces \ {"none", "merge"}
  BY DEF Conclude, At, Under, PullPlaces
<1>2. /\ Ordered(s, pull) /\ pull.pc # "none" /\ SettleTypes /\ pull.by \in Clones
      /\ s \in CloneType /\ CloneInv(s) /\ HashInv(s) /\ OwnStays(o, s.work)
      /\ s.head \in Commits /\ s.work \in Commits /\ s.ref \in Commits
      /\ ~Unsettled(o) => Brought(s, pull) \/ Barred(s, pull)
  BY <1>1, PullKnows, CloneFields DEF SettleInv, RemoteInv
<1>3. CASE UNCHANGED clone /\ Fail
  BY <1>1, <1>3, FailKeeps DEF HashKept
<1>4. CASE UNCHANGED clone /\ ~pull.resolved /\ (pull.mergeErr => pull.repaired) /\ Return(TRUE)
  <2>1. Moved(pull', "returned") /\ pull'.ok
    BY <1>1, <1>2, <1>4, MovedOn DEF Return
  <2>2. Ordered(s, pull')
    BY <1>1, <1>2, <2>1 DEF Ordered, Moved
  <2>3. ~Unsettled(o) => Brought(s, pull')
    BY <1>2, <1>4, <2>1 DEF Brought, Barred, Moved
  <2>4. SettleInv'
    BY <1>1, <1>4, <2>1, <2>2, <2>3, PullWaits
  <2> QED
    BY <1>4, <2>4 DEF HashKept
<1>5. CASE pull.resolved /\ CommitResolved(pull.by) /\ Return(TRUE)
  <2> DEFINE head == [r \in AllRows |-> IF r \in Own(s) THEN s.head[r] ELSE s.work[r]]
             x == [NoMerge(s) EXCEPT !.head = head, !.base = s.ref]
  <2>1. On(pull.by, x)
    BY <1>5 DEF CommitResolved
  <2>2. s.merging /\ s.conflicts = {} /\ s.violations = {} /\ Own(s) = s.dirty
    BY <1>1, <1>2, <1>5 DEF Ordered, Own
  <2>3. \A r \in AllRows : head[r] = IF r \in s.dirty THEN s.head[r] ELSE s.work[r]
    BY <2>2
  <2>4. head \in Commits
    <3>1. \A r \in AllRows : head[r] = s.head[r] \/ head[r] = s.work[r]
      BY <2>3
    <3>2. head = [r \in AllRows |-> head[r]]
      OBVIOUS
    <3> HIDE DEF head
    <3> QED
      BY <1>2, <3>1, <3>2, MixedRows
  <2> HIDE DEF head
  <2>5. /\ x \in CloneType /\ x.head = head /\ x.work = s.work /\ x.base = s.ref
        /\ ~x.merging /\ x.conflicts = {} /\ x.violations = {}
    <3>1. /\ NoMerge(s) \in CloneType /\ NoMerge(s).work = s.work
          /\ ~NoMerge(s).merging /\ NoMerge(s).conflicts = {} /\ NoMerge(s).violations = {}
      BY <1>2, NoMergeFields
    <3> QED
      BY <1>2, <2>4, <3>1 DEF CloneType
  <2> HIDE DEF x
  <2>6. CloneInv(x)
    BY <1>2, <2>2, <2>5 DEF CloneInv
  <2>7. "migration" \in AllRows /\ HashKept(s.head, head) /\ HashKept(head, s.work) /\ HashKept(s.ref, head)
        /\ HashKept(s.ref, remote)
    BY <1>2, <2>2, <2>3 DEF HashInv, HashKept, AllRows
  <2>8. HashInv(x)
    BY <2>5, <2>7 DEF HashInv, HashKept
  <2>9. Moved(pull', "returned") /\ pull'.ok
    BY <1>1, <1>2, <1>5, MovedOn DEF Return
  <2>10. Ordered(x, pull')
    BY <2>5, <2>9 DEF Ordered, Moved
  <2>11. ~Unsettled(o) => Brought(x, pull')
    BY <1>2, <1>5, <2>2, <2>5, <2>9 DEF Brought, Barred, Moved
  <2>12. SettleInv' /\ clone'[pull.by] = x /\ \A c \in Clones \ {pull.by} : clone'[c] = clone[c]
    BY <1>1, <1>2, <2>1, <2>5, <2>6, <2>8, <2>9, <2>10, <2>11, PullStep
  <2> QED
    BY <2>5, <2>7, <2>12
<1> QED
  BY <1>3, <1>4, <1>5 DEF Conclude

LEMMA AbortKeeps ==
    ASSUME SettleInv, Abort
    PROVE  /\ SettleInv' /\ clone'[pull.by].head = clone[pull.by].head
           /\ \A c \in Clones \ {pull.by} : clone'[c] = clone[c]
<1> DEFINE s == clone[pull.by]
           o == pull.before
<1>1. /\ Under /\ UNCHANGED remote /\ "returned" \in PullPlaces \ {"none", "merge"} /\ Return(FALSE)
  BY DEF Abort, At, Under, PullPlaces
<1>2. /\ pull.pc # "none" /\ SettleTypes /\ pull.by \in Clones
      /\ s \in CloneType /\ o \in CloneType /\ CloneInv(s) /\ HashInv(s) /\ OwnStays(o, s.work)
      /\ GivesBack(s, pull) /\ (pull.clean => o.work = o.head /\ ~o.merging)
      /\ s.head \in Commits /\ s.saved \in Commits /\ s.had \in SUBSET Violations
      /\ On(pull.by, s) <=> clone' = clone
  BY <1>1, PullKnows, CloneFields DEF SettleInv
<1>3. Moved(pull', "returned") /\ ~pull'.ok
  BY <1>1, <1>2, MovedOn DEF Return
<1>4. ASSUME NEW x \in CloneType, On(pull.by, x), CloneInv(x), HashInv(x), OwnStays(o, x.work),
             x.head = s.head
      PROVE  /\ SettleInv' /\ clone'[pull.by].head = clone[pull.by].head
             /\ \A c \in Clones \ {pull.by} : clone'[c] = clone[c]
  <2>1. Ordered(x, pull')
    BY <1>3 DEF Ordered, Moved
  <2>2. SettleInv' /\ clone'[pull.by] = x /\ \A c \in Clones \ {pull.by} : clone'[c] = clone[c]
    BY <1>1, <1>2, <1>3, <1>4, <2>1, PullStep
  <2> QED
    BY <1>4, <2>2
<1>5. /\ NoMerge(s) \in CloneType /\ NoMerge(s).head = s.head /\ NoMerge(s).base = s.base
      /\ ~NoMerge(s).merging /\ NoMerge(s).conflicts = {} /\ NoMerge(s).violations = {}
  BY <1>2, NoMergeFields
<1>6. CASE s.merging /\ On(pull.by, [NoMerge(s) EXCEPT !.work = s.saved, !.violations = s.had])
  <2> DEFINE x == [NoMerge(s) EXCEPT !.work = s.saved, !.violations = s.had]
  <2>1. /\ x \in CloneType /\ x.head = s.head /\ x.base = s.base /\ x.work = s.saved
        /\ ~x.merging /\ x.conflicts = {} /\ x.violations = s.had
    BY <1>2, <1>5 DEF CloneType
  <2> HIDE DEF x
  <2>2. CloneInv(x)
    BY <1>2, <1>6, <2>1 DEF CloneInv
  <2>3. HashInv(x)
    BY <1>2, <1>6, <2>1 DEF HashInv, HashKept
  <2>4. OwnStays(o, x.work)
    BY <1>2, <1>6, <2>1 DEF OwnStays, GivesBack
  <2> QED
    BY <1>4, <1>6, <2>1, <2>2, <2>3, <2>4 DEF x
<1>7. CASE pull.clean /\ On(pull.by, [NoMerge(s) EXCEPT !.work = s.head])
  <2> DEFINE x == [NoMerge(s) EXCEPT !.work = s.head]
  <2>1. /\ x \in CloneType /\ x.head = s.head /\ x.base = s.base /\ x.work = s.head
        /\ ~x.merging /\ x.conflicts = {} /\ x.violations = {}
    BY <1>2, <1>5 DEF CloneType
  <2> HIDE DEF x
  <2>2. CloneInv(x)
    BY <1>2, <1>7, <2>1 DEF CloneInv, GivesBack
  <2>3. HashInv(x)
    BY <1>2, <2>1 DEF HashInv, HashKept
  <2>4. Own(o) = {}
    BY <1>2, <1>7 DEF Own
  <2>5. OwnStays(o, x.work)
    BY <2>4 DEF OwnStays
  <2> QED
    BY <1>4, <1>7, <2>1, <2>2, <2>3, <2>5 DEF x
<1>8. CASE UNCHANGED clone
  BY <1>2, <1>4, <1>8
<1> QED
  BY <1>6, <1>7, <1>8 DEF Abort, MayReset

LEMMA EndPullKeeps ==
    ASSUME SettleInv, EndPull
    PROVE  SettleInv' /\ UNCHANGED <<remote, clone>>
<1>1. pull' = NoPull /\ UNCHANGED <<remote, clone>>
  BY DEF EndPull
<1>2. pull' \in PullType /\ pull'.pc = "none"
  BY <1>1, FirstTyped DEF NoPull
<1>3. SettleTypes' /\ \A c \in Clones : (CloneInv(clone[c]) /\ HashInv(clone[c]))'
  BY <1>1, <1>2 DEF SettleInv, SettleTypes, CloneInv, HashInv, HashKept, Dangling
<1>4. PullInv' /\ OrderInv' /\ RemoteInv'
  BY <1>2 DEF PullInv, Under, OrderInv, Ordered, RemoteInv
<1> QED
  BY <1>1, <1>3, <1>4 DEF SettleInv

LEMMA SettleInitInv == SettleInit => SettleInv
<1> SUFFICES ASSUME SettleInit
             PROVE  SettleInv
  OBVIOUS
<1>1. /\ remote = FirstCommit /\ pull = NoPull /\ clone = [c \in Clones |-> NewClone]
      /\ pull.pc = "none"
  BY DEF SettleInit, NoPull
<1>2. SettleTypes
  BY <1>1, FirstTyped DEF SettleTypes
<1>3. Dangling(FirstCommit) = {}
  BY SettleAssumption DEF Dangling, FirstCommit, Children, AllRows
<1>4. HashKept(FirstCommit, FirstCommit)
  BY DEF HashKept
<1>5. CloneInv(NewClone)
  BY <1>3 DEF CloneInv, NewClone
<1>6. HashInv(NewClone)
  BY <1>1, <1>4 DEF HashInv, NewClone
<1> QED
  BY <1>1, <1>2, <1>5, <1>6 DEF SettleInv, PullInv, Under, OrderInv, Ordered, RemoteInv

\* No head, of a clone or the remote, loses a recorded hash.
HeadsKept == HashKept(remote, remote') /\ \A c \in Clones : HashKept(clone[c].head, clone'[c].head)

LEMMA SettleNextInv == SettleInv /\ [SettleNext]_settleVars => SettleInv' /\ HeadsKept
<1> SUFFICES ASSUME SettleInv, [SettleNext]_settleVars
             PROVE  SettleInv' /\ HeadsKept
  OBVIOUS
<1>1. SettleTypes /\ clone \in [Clones -> CloneType]
  BY DEF SettleInv, SettleTypes
<1>2. ASSUME UNCHANGED <<remote, clone>>
      PROVE  HeadsKept
  BY <1>2 DEF HeadsKept, HashKept
<1>3. ASSUME UNCHANGED remote,
             \A c \in Clones \ {pull.by} : clone'[c] = clone[c],
             HashKept(clone[pull.by].head, clone'[pull.by].head)
      PROVE  HeadsKept
  BY <1>3 DEF HeadsKept, HashKept
<1>4. ASSUME NEW c \in Clones, Write(c)
      PROVE  SettleInv' /\ HeadsKept
  <2>1. PICK w : clone' = [clone EXCEPT ![c].work = w]
    BY <1>4 DEF Write, Statement
  <2>2. \A y \in Clones : clone'[y].head = clone[y].head
    BY <1>1, <2>1 DEF CloneType
  <2> QED
    BY <1>4, <2>2, WriteKeeps DEF HeadsKept, HashKept, Write, Statement
<1>5. ASSUME NEW c \in Clones, CommitAll(c)
      PROVE  SettleInv' /\ HeadsKept
  <2>1. UNCHANGED remote /\ \A y \in Clones \ {c} : clone'[y] = clone[y]
    BY <1>1, <1>5 DEF CommitAll
  <2> QED
    BY <1>5, <2>1, CommitAllKeeps DEF HeadsKept, HashKept
<1>6. ASSUME NEW c \in Clones, Push(c)
      PROVE  SettleInv' /\ HeadsKept
  <2>1. \A y \in Clones : clone'[y].head = clone[y].head
    BY <1>1, <1>6 DEF Push, CloneType
  <2> QED
    BY <1>6, <2>1, PushKeeps DEF HeadsKept, HashKept
<1>7. ASSUME NEW c \in Clones, StartPull(c)
      PROVE  SettleInv' /\ HeadsKept
  BY <1>2, <1>7, StartPullKeeps DEF StartPull, At
<1>8. CASE NoFlags
  BY <1>2, <1>8, NoFlagsKeeps DEF NoFlags, At
<1>9. CASE Merge
  <2>1. At("merge") /\ UNCHANGED remote
    BY <1>9 DEF Merge, At
  <2>2. CASE MergeChangesNothing(pull.by)
    BY <1>2, <2>1, <2>2, MergeChangesNothingKeeps DEF MergeChangesNothing
  <2>3. CASE MergeLands(pull.by)
    BY <2>1, <2>3, MergeLandsKeeps DEF HeadsKept, HashKept
  <2> QED
    BY <1>9, <2>2, <2>3 DEF Merge
<1>10. CASE TryAutoResolve
  <2>1. UNCHANGED remote
    BY <1>10 DEF TryAutoResolve, At
  <2> QED
    BY <1>3, <1>10, <2>1, TryAutoResolveKeeps DEF HashKept
<1>11. CASE Capture
  BY <1>2, <1>11, CaptureKeeps DEF Capture, At
<1>12. CASE TryRepair
  <2>1. UNCHANGED remote
    BY <1>12 DEF TryRepair, At
  <2> QED
    BY <1>3, <1>12, <2>1, TryRepairKeeps DEF HashKept
<1>13. CASE Conclude
  <2>1. UNCHANGED remote
    BY <1>13 DEF Conclude, At
  <2> QED
    BY <1>3, <1>13, <2>1, ConcludeKeeps
<1>14. CASE Abort
  <2>1. UNCHANGED remote
    BY <1>14 DEF Abort, At
  <2> QED
    BY <1>3, <1>14, <2>1, AbortKeeps DEF HashKept
<1>15. CASE EndPull
  BY <1>2, <1>15, EndPullKeeps
<1>16. CASE UNCHANGED settleVars
  <2>1. UNCHANGED <<remote, clone, pull>>
    BY <1>16 DEF settleVars
  <2> QED
    <3>1. SettleTypes' /\ OrderInv'
      BY <1>2, <2>1 DEF SettleInv, SettleTypes, OrderInv, Ordered
    <3>2. (\A c \in Clones : CloneInv(clone[c]) /\ HashInv(clone[c]))'
      <4>1. \A c \in Clones : CloneInv(clone[c]) /\ HashInv(clone[c])
        BY <1>2 DEF SettleInv
      <4> QED
        BY <2>1, <4>1 DEF CloneInv, HashInv, HashKept, Dangling
    <3>3. PullInv'
      BY <1>2, <2>1 DEF SettleInv, PullInv, Under, OwnStays, GivesBack, Own, Dangling
    <3>4. RemoteInv'
      BY <1>2, <2>1 DEF SettleInv, RemoteInv, Brought, Barred, Won, Unsettled
    <3> QED
      BY <1>2, <2>1, <3>1, <3>2, <3>3, <3>4 DEF SettleInv
<1> QED
  BY <1>4, <1>5, <1>6, <1>7, <1>8, <1>9, <1>10, <1>11, <1>12, <1>13, <1>14, <1>15, <1>16
     DEF SettleNext

\* What every step of the clients and of a pull keeps: the types, what each clone's merge
\* can give back, and what the pull has still to settle.  Clients write while a merge is
\* active too; such rows are in none of what a merge gives back, and nothing is said of
\* them.
THEOREM SettleInvariant == SettleSpec => []SettleInv
<1>1. SettleInv /\ [SettleNext]_settleVars => SettleInv'
  BY SettleNextInv
<1> QED
  BY SettleInitInv, <1>1, PTL DEF SettleSpec

\* What clients had written and not committed when no merge was active survives the pull
\* that begins one and every later pull of that merge, whatever fails (UncommittedWorkKept):
\* abortMerge's hard reset is for a working set that was clean, and a settlement rewrites
\* rows in conflict only, which are in no table with uncommitted changes.  What they write
\* while a merge is active is excepted: abortMerge takes it back (LateWorkKept is violated).
THEOREM UncommittedWorkTheorem == SettleSpec => []UncommittedWorkKept
<1>1. SettleInv => UncommittedWorkKept
  BY DEF SettleInv, PullInv, OwnStays, UncommittedWorkKept
<1> QED
  BY <1>1, SettleInvariant, PTL

\* No commit and no push drops a recorded content hash, or puts another one in its place
\* (HashesKept): TryAutoResolveMergeConflicts declines two recorded hashes that differ,
\* and keeps the recorded one against none.
THEOREM HashesTheorem == SettleSpec => HashesKept
<1>1. SettleInv /\ [SettleNext]_settleVars =>
          [/\ HashKept(remote, remote')
           /\ \A c \in Clones : HashKept(clone[c].head, clone[c]'.head)]_settleVars
  BY SettleNextInv DEF HeadsKept
<1> QED
  BY <1>1, SettleInvariant, PTL DEF SettleSpec, HashesKept

LEMMA CapturedStep ==
    ASSUME ~CaptureMayFail
    PROVE  SettleInv /\ CapturedInv /\ [SettleNext]_settleVars => CapturedInv'
<1> SUFFICES ASSUME SettleInv, CapturedInv, [SettleNext]_settleVars
             PROVE  CapturedInv'
  OBVIOUS
<1> DEFINE Late(p) == p.pc \in {"repair", "conclude"} \/ (p.pc = "returned" /\ p.ok = TRUE)
<1>1. SettleTypes /\ pull \in PullType
  BY DEF SettleInv, SettleTypes
<1>2. CapturedInv' <=> (Late(pull') => clone'[pull'.by].conflicts = {})
  BY DEF CapturedInv, Returned
<1>3. Late(pull) => clone[pull.by].conflicts = {}
  BY DEF CapturedInv, Returned
<1>4. \A pc \in PullPlaces : Goto(pc) => pull'.pc = pc /\ pull'.by = pull.by
  BY <1>1, MovedOn DEF Moved
<1>5. "abort" \in PullPlaces /\ "capture" \in PullPlaces /\ "repair" \in PullPlaces
      /\ "resolve" \in PullPlaces /\ "returned" \in PullPlaces /\ "conclude" \in PullPlaces
  BY DEF PullPlaces
<1>6. Fail \/ Return(FALSE) => ~Late(pull')
  BY <1>1, <1>4, <1>5, MovedOn DEF Fail, Return, Moved
<1>7. CASE \E c \in Clones : Write(c) \/ CommitAll(c) \/ Push(c) \/ StartPull(c)
  <2>1. pull'.pc \in {"none", "merge"}
    BY <1>7 DEF Write, Statement, CommitAll, Push, StartPull, At, NoPull
  <2> QED
    BY <1>2, <2>1
<1>8. CASE NoFlags \/ Abort
  BY <1>2, <1>6, <1>8 DEF NoFlags, Abort
<1>9. CASE Merge
  <2>1. \/ Goto("resolve")
        \/ \E b \in BOOLEAN : pull' = [pull EXCEPT !.pc = "resolve", !.mergeErr = b]
    BY <1>9 DEF Merge, MergeChangesNothing, MergeLands, Goto
  <2>2. pull'.pc = "resolve"
    BY <1>1, <1>5, <2>1, MovedOn DEF Moved
  <2> QED
    BY <1>2, <2>2
<1>10. CASE TryAutoResolve
  <2>1. CASE Fail
    BY <1>2, <1>6, <2>1
  <2>2. CASE Goto("capture")
    BY <1>2, <1>4, <1>5, <2>2
  <2>3. ASSUME Resolve(pull.by, {TableOf(r) : r \in clone[pull.by].conflicts}),
               pull' = [pull EXCEPT !.pc = "repair", !.resolved = TRUE]
        PROVE  CapturedInv'
    <3>1. pull'.pc = "repair" /\ pull'.by = pull.by /\ pull'.resolved
      BY <1>1, <1>5, <2>3, MovedOn DEF Moved
    <3>2. OrderInv'
      BY <1>10, TryAutoResolveKeeps DEF SettleInv
    <3> QED
      BY <1>2, <3>1, <3>2 DEF OrderInv, Ordered
  <2> QED
    BY <1>10, <2>1, <2>2, <2>3 DEF TryAutoResolve
<1>11. CASE Capture
  <2>1. CASE Fail
    BY <1>2, <1>6, <2>1
  <2>2. CASE clone[pull.by].conflicts = {} /\ Goto("repair") /\ UNCHANGED clone
    BY <1>2, <1>4, <1>5, <2>2
  <2> QED
    BY <1>11, <2>1, <2>2 DEF Capture
<1>12. CASE TryRepair
  <2>1. CASE Fail
    BY <1>2, <1>6, <2>1
  <2>2. ASSUME Goto("conclude") \/ pull' = [pull EXCEPT !.pc = "conclude", !.repaired = TRUE]
        PROVE  CapturedInv'
    <3>1. pull'.pc = "conclude" /\ pull'.by = pull.by
      BY <1>1, <1>4, <1>5, <2>2, MovedOn DEF Moved
    <3>2. clone'[pull.by].conflicts = clone[pull.by].conflicts /\ pull.pc = "repair"
      BY <1>12, <3>1, TryRepairKeeps DEF TryRepair, At
    <3> QED
      BY <1>2, <1>3, <3>1, <3>2
  <2> QED
    BY <1>12, <2>1, <2>2 DEF TryRepair
<1>13. CASE Conclude
  <2>1. CASE Fail
    BY <1>2, <1>6, <2>1
  <2>2. CASE Return(TRUE)
    <3>1. pull'.by = pull.by
      BY <1>1, <1>5, <2>2, MovedOn DEF Return, Moved
    <3>2. clone'[pull.by].conflicts \in {{}, clone[pull.by].conflicts} /\ pull.pc = "conclude"
      BY <1>13, ConcludeKeeps DEF Conclude, At
    <3> QED
      BY <1>2, <1>3, <3>1, <3>2
  <2> QED
    BY <1>13, <2>1, <2>2 DEF Conclude
<1>14. CASE EndPull
  BY <1>2, <1>14 DEF EndPull, NoPull
<1>15. CASE UNCHANGED settleVars
  BY <1>2, <1>3, <1>15 DEF settleVars
<1> QED
  BY <1>7, <1>8, <1>9, <1>10, <1>11, <1>12, <1>13, <1>14, <1>15 DEF SettleNext

\* Conflicts that were declined end the pull (GetConflicts before abortMerge), if they can
\* be read.
THEOREM CapturedInvariant ==
    ASSUME ~CaptureMayFail
    PROVE  SettleSpec => []CapturedInv
<1>1. SettleInit => CapturedInv
  BY DEF SettleInit, NoPull, CapturedInv, Returned
<1>2. SettleInv /\ CapturedInv /\ [SettleNext]_settleVars => CapturedInv'
  BY CapturedStep
<1> QED
  BY <1>1, <1>2, SettleInvariant, PTL DEF SettleSpec

\* A pull returns without an error only when nothing is in conflict and nothing dangles
\* (NothingUnsettledSucceeds), which SettleMerge's comment promises, as long as the
\* conflicts of a declined merge can be read (~CaptureMayFail).
THEOREM NothingUnsettledTheorem ==
    ASSUME ~CaptureMayFail
    PROVE  SettleSpec => []NothingUnsettledSucceeds
<1>1. SettleInv /\ CapturedInv => NothingUnsettledSucceeds
  <2> SUFFICES ASSUME SettleInv, CapturedInv, Returned(TRUE)
               PROVE  LET s == clone[pull.by]
                      IN  s.conflicts = {} /\ s.violations = {} /\ Dangling(s.work) = {}
    BY DEF NothingUnsettledSucceeds
  <2>1. pull.by \in Clones /\ pull.pc = "returned" /\ pull.ok
    BY DEF SettleInv, SettleTypes, Returned
  <2>2. clone[pull.by].violations = {} /\ CloneInv(clone[pull.by])
    BY <2>1 DEF SettleInv, OrderInv, Ordered
  <2> QED
    BY <2>2 DEF CapturedInv, CloneInv
<1> QED
  BY <1>1, SettleInvariant, CapturedInvariant, PTL

\* A pull that found its clone settled and returns without an error has brought in every
\* row the remote changed (RemoteWins), under the same assumption.
THEOREM RemoteWinsTheorem ==
    ASSUME ~CaptureMayFail
    PROVE  SettleSpec => []RemoteWins
<1>1. SettleInv /\ CapturedInv => RemoteWins
  <2> SUFFICES ASSUME SettleInv, CapturedInv, Returned(TRUE), ~Unsettled(pull.before)
               PROVE  \A r \in AllRows : pull.ref[r] # pull.before.base[r] =>
                          Won(r, pull.ref, clone[pull.by].work)
    BY DEF RemoteWins, Won
  <2>1. pull.pc = "returned" /\ pull.ok /\ clone[pull.by].conflicts = {}
    BY DEF Returned, CapturedInv
  <2>2. Brought(clone[pull.by], pull)
    BY <2>1 DEF SettleInv, RemoteInv, Barred
  <2> QED
    BY <2>1, <2>2 DEF Brought
<1> QED
  BY <1>1, SettleInvariant, CapturedInvariant, PTL

------------------------------------------------------------------------------
(* FederationSync *)

SyncPlaces == {"none", "sync merge", "settle", "push", "synced"}

SyncPullType ==
    [pc : SyncPlaces, by : Clones \cup {Nobody}, ref : Commits, clean : BOOLEAN,
     mergeErr : BOOLEAN, resolved : BOOLEAN, repaired : BOOLEAN, ok : BOOLEAN, before : CloneType]

SyncTypes ==
    /\ remote \in Commits
    /\ clone \in [Clones -> CloneType]
    /\ pull \in SyncPullType
    /\ pull.pc # "none" => pull.by \in Clones
    /\ strategy \in {"", "ours", "theirs"}

\* The rows a sync may decide on.
SyncRows == AllRows \ {"metadata"}

\* What the sync p, asked to settle K as strategy says, may have changed of work.
OnlyAsAsked(p, K, work) ==
    \A r \in SyncRows : work[r] # p.before.work[r] =>
        /\ work[r] = IF p.before.merging THEN p.before.ref[r] ELSE p.ref[r]
        /\ \/ r \in K /\ strategy = "theirs"
           \/ ~p.before.merging /\ p.before.head[r] = p.before.base[r]
              /\ p.before.work[r] = p.before.base[r]

\* What the sync p has brought in, but for the conflicts among K that are still open or
\* came without an error.
BroughtIn(p, K, work, open) ==
    ~p.before.merging =>
        \A r \in SyncRows : p.ref[r] # p.before.base[r] =>
            \/ work[r] = p.ref[r]
            \/ r \in K /\ (strategy = "ours" \/ ~p.mergeErr \/ r \in open)

\* Of the clone s that the sync p, past its merge, works on.  What is in conflict without an
\* error of the merge is never touched.
SyncingInv(s, p, K) ==
    /\ p.pc = "sync merge" => s = p.before /\ ~p.mergeErr
    /\ p.pc \in {"settle", "push", "synced"} => OnlyAsAsked(p, K, s.work)
    /\ p.pc = "settle" =>
           /\ s.merging /\ s.conflicts \subseteq K
           /\ s.ref = IF p.before.merging THEN p.before.ref ELSE p.ref
           /\ \A r \in s.conflicts : TableOf(r) \in todo
           /\ strategy # "" /\ p.mergeErr
    /\ p.pc \in {"settle", "push"} \/ (p.pc = "synced" /\ p.ok) =>
           BroughtIn(p, K, s.work, s.conflicts)
    /\ p.pc = "push" \/ (p.pc = "synced" /\ p.ok) => s.conflicts = IF p.mergeErr THEN {} ELSE K

SyncInv ==
    /\ SyncTypes
    /\ \A c \in Clones : clone[c].conflicts # {} => clone[c].merging
    /\ pull.pc # "none" => SyncingInv(clone[pull.by], pull, InConflict)

\* The record of one clone is replaced, in a step of a sync or between two.
LEMMA SyncClone ==
    ASSUME SyncTypes, NEW c \in Clones, NEW s \in CloneType, On(c, s)
    PROVE  /\ clone'[c] = s
           /\ \A x \in Clones \ {c} : clone'[x] = clone[x]
           /\ clone' \in [Clones -> CloneType]
  BY DEF On, SyncTypes

\* The sync p moves on to pc, for the same clone and the same commit.
SyncMoved(p, pc) ==
    /\ p \in SyncPullType /\ p.pc = pc
    /\ p.by = pull.by /\ p.ref = pull.ref /\ p.before = pull.before

LEMMA SyncPull ==
    ASSUME SyncTypes
    PROVE  /\ \A pc \in SyncPlaces : Goto(pc) =>
                  SyncMoved(pull', pc) /\ pull'.mergeErr = pull.mergeErr
           /\ \A b \in BOOLEAN : EndSync(b) =>
                  SyncMoved(pull', "synced") /\ pull'.ok = b /\ pull'.mergeErr = pull.mergeErr
           /\ \A conflicts : OnConflicts(conflicts) =>
                  /\ SyncMoved(pull', IF strategy = "" THEN "synced" ELSE "settle")
                  /\ ~pull'.ok /\ pull'.mergeErr
<1>1. ASSUME NEW pc \in SyncPlaces, Goto(pc)
      PROVE  SyncMoved(pull', pc) /\ pull'.mergeErr = pull.mergeErr
  <2>1. pull' = [pull EXCEPT !.pc = pc]
    BY <1>1 DEF Goto
  <2> QED
    BY <1>1, <2>1 DEF SyncMoved, SyncTypes, SyncPullType
<1>2. ASSUME NEW b \in BOOLEAN, EndSync(b)
      PROVE  SyncMoved(pull', "synced") /\ pull'.ok = b /\ pull'.mergeErr = pull.mergeErr
  BY <1>2 DEF EndSync, SyncMoved, SyncTypes, SyncPullType, SyncPlaces
<1>3. ASSUME NEW conflicts, OnConflicts(conflicts)
      PROVE  /\ SyncMoved(pull', IF strategy = "" THEN "synced" ELSE "settle")
             /\ ~pull'.ok /\ pull'.mergeErr
  <2> DEFINE pc == IF strategy = "" THEN "synced" ELSE "settle"
  <2>1. pull' = [pull EXCEPT !.pc = pc, !.ok = FALSE, !.mergeErr = TRUE]
    BY <1>3 DEF OnConflicts
  <2>2. pc \in SyncPlaces
    BY DEF SyncPlaces
  <2> HIDE DEF pc
  <2> QED
    BY <2>1, <2>2 DEF SyncMoved, SyncTypes, SyncPullType, pc
<1> QED
  BY <1>1, <1>2, <1>3

\* A statement of a client leaves a commit.
LEMMA SyncWritten ==
    ASSUME NEW c \in Clones, NEW w \in Commits, NEW x \in Written(c, w)
    PROVE  x \in Commits
<1> USE DEF Commits
<1>1. /\ c \in Values /\ Absent \in Values /\ "present" \in Values
      /\ Hashes \cup {NoHash} \subseteq Values
      /\ \A type \in {"blocks", "related"} : <<type, c>> \in Values
  BY DEF Values
<1>2. "migration" \in AllRows
  BY DEF AllRows
<1>3. ASSUME NEW r \in AllRows \ {"migration"}, NEW v \in Values, x = [w EXCEPT ![r] = v]
      PROVE  x \in Commits
  BY <1>2, <1>3
<1>4. ASSUME NEW h \in Hashes \cup {NoHash}, x = [w EXCEPT !["migration"] = h]
      PROVE  x \in Commits
  BY <1>1, <1>2, <1>4
<1>5. ASSUME x = [r \in AllRows |-> IF r \in Children \cup {"issue"} THEN Absent ELSE w[r]]
      PROVE  x \in Commits
  BY <1>1, <1>2, <1>5 DEF Children
<1>6. {"metadata", "memory", "prefix", "edge", "label", "issue"} \subseteq AllRows \ {"migration"}
  BY DEF AllRows
<1> QED
  BY <1>1, <1>3, <1>4, <1>5, <1>6 DEF Written

\* Between two syncs.
LEMMA RestKeeps ==
    ASSUME SyncInv, NEW c \in Clones, Statement(c) \/ CommitAll(c) \/ Push(c), Continue
    PROVE  SyncInv'
<1> DEFINE s == clone[c]
<1>1. s \in CloneType /\ s.conflicts # {} => s.merging
  BY DEF SyncInv, SyncTypes
<1>2. /\ s \in CloneType /\ s.head \in Commits /\ s.work \in Commits /\ s.base \in Commits /\ s.ref \in Commits
      /\ s.conflicts # {} => s.merging
  BY <1>1, CloneFields DEF SyncInv, SyncTypes
<1>3. pull' = pull /\ strategy' = strategy /\ pull.pc = "none"
  BY DEF Statement, CommitAll, Push, Continue
<1>4. PICK x \in CloneType : On(c, x) /\ (x.conflicts # {} => x.merging)
  <2>1. CASE Statement(c)
    <3>1. PICK w \in Written(c, s.work) : clone' = [clone EXCEPT ![c].work = w]
      BY <2>1 DEF Statement
    <3>2. w \in Commits
      BY <1>2, <3>1, SyncWritten
    <3>3. /\ [s EXCEPT !.work = w] \in CloneType
          /\ [s EXCEPT !.work = w].conflicts = s.conflicts /\ [s EXCEPT !.work = w].merging = s.merging
      BY <1>2, <3>2 DEF CloneType
    <3>4. On(c, [s EXCEPT !.work = w])
      BY <3>1 DEF On, SyncInv, SyncTypes
    <3> QED
      BY <1>2, <3>3, <3>4
  <2>2. CASE CommitAll(c)
    <3> DEFINE base == IF s.merging THEN s.ref ELSE s.base
               x == [NoMerge(s) EXCEPT !.head = s.work, !.base = base]
    <3>1. NoMerge(s) \in CloneType /\ NoMerge(s).conflicts = {}
      BY <1>2, NoMergeFields
    <3>2. base \in Commits
      BY <1>2
    <3>3. On(c, x)
      BY <2>2 DEF CommitAll, On
    <3> HIDE DEF base
    <3>4. x \in CloneType /\ x.conflicts = {}
      BY <1>2, <3>1, <3>2 DEF CloneType
    <3> HIDE DEF x
    <3> QED
      BY <3>3, <3>4
  <2>3. CASE Push(c)
    <3>1. On(c, [s EXCEPT !.base = s.head])
      BY <2>3 DEF Push, On, SyncInv, SyncTypes
    <3>2. /\ [s EXCEPT !.base = s.head] \in CloneType
          /\ [s EXCEPT !.base = s.head].conflicts = s.conflicts
          /\ [s EXCEPT !.base = s.head].merging = s.merging
      BY <1>2 DEF CloneType
    <3> QED
      BY <1>2, <3>1, <3>2
  <2> QED
    BY <2>1, <2>2, <2>3
<1>5. /\ clone'[c] = x /\ clone' \in [Clones -> CloneType]
      /\ \A y \in Clones \ {c} : clone'[y] = clone[y]
  BY <1>4, SyncClone DEF SyncInv
<1>6. remote' \in Commits
  BY <1>2 DEF Statement, CommitAll, Push, SyncInv, SyncTypes
<1> QED
  BY <1>3, <1>4, <1>5, <1>6 DEF SyncInv, SyncTypes

LEMMA FetchKeeps ==
    ASSUME SyncInv, NEW c \in Clones, Fetch(c)
    PROVE  SyncInv'
<1> DEFINE s == clone[c]
<1>1. s \in CloneType /\ remote \in Commits /\ UNCHANGED <<remote, clone>>
  BY DEF SyncInv, SyncTypes, Fetch, At
<1>2. pull' = [NoPull EXCEPT !.pc = "sync merge", !.by = c, !.ref = remote, !.before = s]
  BY DEF Fetch
<1>3. pull'.pc = "sync merge" /\ pull'.by = c /\ pull'.before = s /\ ~pull'.mergeErr
  BY <1>2 DEF NoPull
<1>4. pull' \in SyncPullType
  <2>1. ASSUME NEW p \in SyncPlaces, NEW f \in Commits, NEW o \in CloneType
        PROVE  [NoPull EXCEPT !.pc = p, !.by = c, !.ref = f, !.before = o] \in SyncPullType
    BY FirstTyped DEF NoPull, SyncPullType
  <2>2. "sync merge" \in SyncPlaces
    BY DEF SyncPlaces
  <2>3. [NoPull EXCEPT !.pc = "sync merge", !.by = c, !.ref = remote, !.before = s] \in SyncPullType
    BY ONLY <1>1, <2>1, <2>2, Zenon
  <2> QED
    BY <1>2, <2>3
<1>5. strategy' \in {"", "ours", "theirs"}
  BY SyncAssumption DEF Fetch
<1>6. SyncingInv(clone[pull.by], pull, InConflict)'
  BY <1>1, <1>3 DEF SyncingInv
<1> QED
  BY <1>1, <1>3, <1>4, <1>5, <1>6 DEF SyncInv, SyncTypes

\* A step of a sync that leaves its clone as s.
LEMMA SyncStep ==
    ASSUME SyncInv, pull.pc # "none", remote' \in Commits, strategy' = strategy,
           NEW pc \in SyncPlaces \ {"none", "sync merge"}, SyncMoved(pull', pc),
           NEW s \in CloneType, On(pull.by, s), s.conflicts # {} => s.merging,
           OnlyAsAsked(pull, InConflict, s.work),
           pc = "settle" =>
               /\ s.merging /\ s.conflicts \subseteq InConflict
               /\ s.ref = IF pull.before.merging THEN pull.before.ref ELSE pull.ref
               /\ \A r \in s.conflicts : TableOf(r) \in todo'
               /\ strategy # "" /\ pull'.mergeErr,
           pc \in {"settle", "push"} \/ (pc = "synced" /\ pull'.ok) =>
               BroughtIn(pull', InConflict, s.work, s.conflicts),
           pc = "push" \/ (pc = "synced" /\ pull'.ok) =>
               s.conflicts = IF pull'.mergeErr THEN {} ELSE InConflict
    PROVE  SyncInv'
<1>1. /\ pull' \in SyncPullType /\ pull'.pc = pc
      /\ pull'.by = pull.by /\ pull'.ref = pull.ref /\ pull'.before = pull.before
  BY DEF SyncMoved
<1>2. pull.by \in Clones
  BY DEF SyncInv, SyncTypes
<1>3. /\ clone'[pull.by] = s /\ clone' \in [Clones -> CloneType]
      /\ \A x \in Clones \ {pull.by} : clone'[x] = clone[x]
  BY <1>2, SyncClone DEF SyncInv
<1>4. SyncTypes'
  BY <1>1, <1>2, <1>3 DEF SyncInv, SyncTypes
<1>5. \A c \in Clones : clone'[c].conflicts # {} => clone'[c].merging
  BY <1>3 DEF SyncInv
<1>6. InConflict' = InConflict
  BY <1>1 DEF InConflict
<1> DEFINE K == InConflict
           n == clone'[pull'.by]
<1>7. n = s
  BY <1>1, <1>3
<1>8. OnlyAsAsked(pull, InConflict, clone[pull.by].work)'
  <2> DEFINE w == s.work
             old == pull.before
             ref == pull.ref
  <2>1. /\ n.work = w /\ pull'.before = old /\ pull'.ref = ref
        /\ InConflict' = K /\ strategy' = strategy
    BY <1>1, <1>6, <1>7
  <2>2. \A r \in SyncRows : w[r] # old.work[r] =>
            /\ w[r] = IF old.merging THEN old.ref[r] ELSE ref[r]
            /\ \/ r \in K /\ strategy = "theirs"
               \/ ~old.merging /\ old.head[r] = old.base[r] /\ old.work[r] = old.base[r]
    BY DEF OnlyAsAsked
  <2> HIDE DEF w, old, ref, K, n
  <2>3. \A r \in SyncRows : (n.work)[r] # (pull'.before).work[r] =>
            /\ (n.work)[r] = IF (pull'.before).merging THEN (pull'.before).ref[r] ELSE (pull'.ref)[r]
            /\ \/ r \in InConflict' /\ strategy' = "theirs"
               \/ /\ ~(pull'.before).merging
                  /\ (pull'.before).head[r] = (pull'.before).base[r]
                  /\ (pull'.before).work[r] = (pull'.before).base[r]
    BY ONLY <2>1, <2>2
  <2> QED
    BY <2>3 DEF OnlyAsAsked, n
<1>9. BroughtIn(pull', K, s.work, s.conflicts)
          => BroughtIn(pull, InConflict, clone[pull.by].work, clone[pull.by].conflicts)'
  BY <1>1, <1>6, <1>7 DEF BroughtIn
<1>10. SyncingInv(clone[pull.by], pull, InConflict)'
  BY <1>1, <1>6, <1>7, <1>8, <1>9 DEF SyncingInv
<1> QED
  BY <1>4, <1>5, <1>10 DEF SyncInv

LEMMA SyncFailsKeeps ==
    ASSUME SyncInv, SyncFails
    PROVE  SyncInv'
<1> DEFINE s == clone[pull.by]
<1>1. /\ pull.pc \in {"sync merge", "settle"} /\ pull.by \in Clones
      /\ UNCHANGED <<remote, clone, strategy>> /\ EndSync(FALSE)
  BY DEF SyncFails, At, Continue, SyncInv, SyncTypes, SyncPullType, SyncPlaces
<1>2. s \in CloneType /\ On(pull.by, s) /\ (s.conflicts # {} => s.merging)
  BY <1>1 DEF On, SyncInv, SyncTypes
<1>3. OnlyAsAsked(pull, InConflict, s.work)
  BY <1>1 DEF SyncInv, SyncingInv, OnlyAsAsked
<1>4. SyncMoved(pull', "synced") /\ ~pull'.ok
  BY <1>1, SyncPull DEF SyncInv
<1>5. "synced" \in SyncPlaces \ {"none", "sync merge"} /\ remote' \in Commits
  BY <1>1 DEF SyncPlaces, SyncInv, SyncTypes
<1> QED
  BY <1>1, <1>2, <1>3, <1>4, <1>5, SyncStep

\* The rows of a merge that starts: none that is not committed, and of the others those the
\* remote alone changed.
LEMMA SyncLanding ==
    ASSUME NEW s \in CloneType, NEW c \in Clones, clone[c] = s, pull.ref \in Commits,
           ~s.merging, \A r \in Own(s), x \in Changed(c) : TableOf(r) # TableOf(x)
    PROVE  /\ Onto(c, s.head) \in Commits /\ Onto(c, s.work) \in Commits
           /\ \A r \in AllRows : Onto(c, s.work)[r] # s.work[r] =>
                  /\ Onto(c, s.work)[r] = pull.ref[r]
                  /\ s.work[r] = s.base[r] /\ s.head[r] = s.base[r]
           /\ \A r \in AllRows : pull.ref[r] # s.base[r] =>
                  Onto(c, s.work)[r] = pull.ref[r] \/ Clash(s.base[r], s.head[r], pull.ref[r])
<1>1. s.work \in Commits /\ s.head \in Commits /\ s.base \in Commits
  BY CloneFields
<1>2. \A f \in {s.head, s.work} :
          /\ Onto(c, f) = [r \in AllRows |-> Merged(s.base[r], f[r], pull.ref[r])]
          /\ \A r \in AllRows : Onto(c, f)[r] = Merged(s.base[r], f[r], pull.ref[r])
  BY DEF Onto
<1>3. ASSUME NEW w \in {s.head, s.work}
      PROVE  Onto(c, w) \in Commits
  <2> SUFFICES ASSUME NEW f, f = Onto(c, w) PROVE f \in Commits
    OBVIOUS
  <2>1. f = [r \in AllRows |-> f[r]]
    BY <1>2
  <2>2. \A r \in AllRows : f[r] = w[r] \/ f[r] = pull.ref[r]
    BY <1>2 DEF Merged
  <2>3. \A r \in AllRows : \E g \in Commits : f[r] = g[r]
    BY <1>1, <2>2
  <2> QED
    BY <2>1, <2>3, MixedRows
<1>4. \A r \in AllRows : pull.ref[r] # s.base[r] => s.work[r] = s.head[r]
  BY DEF Own, Changed
<1> QED
  BY <1>2, <1>3, <1>4 DEF Merged, Clash

LEMMA MergeCleanKeeps ==
    ASSUME SyncInv, pull.pc = "sync merge", UNCHANGED remote, MergeClean(pull.by)
    PROVE  SyncInv'
<1> DEFINE c == pull.by
           s == clone[c]
           K == {r \in AllRows : Clash(s.base[r], s.head[r], pull.ref[r])}
           x == IF Changed(c) = {} THEN s
                ELSE [s EXCEPT !.head = Onto(c, @), !.work = Onto(c, @), !.base = pull.ref]
<1>1. /\ c \in Clones /\ s \in CloneType /\ pull.ref \in Commits
      /\ s = pull.before /\ ~s.merging /\ s.conflicts = {} /\ K = {}
      /\ \A r \in Own(s), y \in Changed(c) : TableOf(r) # TableOf(y)
      /\ Goto("push") /\ UNCHANGED strategy
  BY DEF MergeClean, Continue, SyncInv, SyncTypes, SyncPullType, SyncingInv
<1>2. InConflict = K
  BY <1>1 DEF InConflict
<1>3. On(c, x)
  BY <1>1 DEF MergeClean, On, SyncInv, SyncTypes
<1>4. /\ Onto(c, s.head) \in Commits /\ Onto(c, s.work) \in Commits
      /\ \A r \in AllRows : Onto(c, s.work)[r] # s.work[r] =>
             /\ Onto(c, s.work)[r] = pull.ref[r]
             /\ s.work[r] = s.base[r] /\ s.head[r] = s.base[r]
      /\ \A r \in AllRows : pull.ref[r] # s.base[r] =>
             Onto(c, s.work)[r] = pull.ref[r] \/ Clash(s.base[r], s.head[r], pull.ref[r])
  <2>1. clone[c] = s
    OBVIOUS
  <2> HIDE DEF c, s, K, x
  <2> QED
    BY <1>1, <2>1, SyncLanding
<1>5. /\ x \in CloneType /\ x.conflicts = {}
      /\ x.work = IF Changed(c) = {} THEN s.work ELSE Onto(c, s.work)
  BY <1>1, <1>4 DEF CloneType
<1>6. OnlyAsAsked(pull, InConflict, x.work)
  BY <1>1, <1>4, <1>5 DEF OnlyAsAsked, SyncRows
<1>7. BroughtIn(pull, InConflict, x.work, x.conflicts)
  <2>1. CASE Changed(c) = {}
    BY <1>1, <2>1 DEF BroughtIn, Changed, SyncRows
  <2>2. CASE Changed(c) # {}
    <3>1. x.work = Onto(c, s.work)
      BY <1>5, <2>2
    <3>2. \A r \in SyncRows : pull.ref[r] # pull.before.base[r] => x.work[r] = pull.ref[r]
      BY <1>1, <1>4, <3>1 DEF SyncRows
    <3> QED
      BY <3>2 DEF BroughtIn
  <2> QED
    BY <2>1, <2>2
<1>8. /\ "push" \in SyncPlaces \ {"none", "sync merge"} /\ SyncMoved(pull', "push")
      /\ remote' \in Commits /\ pull'.mergeErr = pull.mergeErr
  BY <1>1, SyncPull DEF SyncPlaces, SyncInv, SyncTypes
<1>9. BroughtIn(pull', InConflict, x.work, x.conflicts)
  BY <1>7, <1>8 DEF BroughtIn, SyncMoved
<1> HIDE DEF x
<1> QED
  BY <1>1, <1>2, <1>3, <1>5, <1>6, <1>8, <1>9, SyncStep

LEMMA MergeConflictsKeeps ==
    ASSUME SyncInv, pull.pc = "sync merge", UNCHANGED remote, MergeConflicts(pull.by)
    PROVE  SyncInv'
<1> DEFINE c == pull.by
           s == clone[c]
           K == {r \in AllRows : Clash(s.base[r], s.head[r], pull.ref[r])}
           w == Onto(c, s.work)
           x == [s EXCEPT !.work = Onto(c, @), !.merging = TRUE, !.ref = pull.ref,
                          !.saved = s.work, !.dirty = Own(s), !.conflicts = K]
<1>1. /\ c \in Clones /\ s \in CloneType /\ pull.ref \in Commits
      /\ s = pull.before /\ ~s.merging
      /\ \A r \in Own(s), y \in Changed(c) : TableOf(r) # TableOf(y)
      /\ OnConflicts(K) \/ (Goto("push") /\ Continue)
      /\ On(c, x) /\ ~pull.mergeErr
  BY DEF MergeConflicts, SyncInv, SyncTypes, SyncPullType, SyncingInv
<1>2. InConflict = K
  BY <1>1 DEF InConflict
<1>3. /\ w \in Commits
      /\ \A r \in AllRows : w[r] # s.work[r] =>
             /\ w[r] = pull.ref[r]
             /\ s.work[r] = s.base[r] /\ s.head[r] = s.base[r]
      /\ \A r \in AllRows : pull.ref[r] # s.base[r] => w[r] = pull.ref[r] \/ r \in K
  BY <1>1, SyncLanding
<1>4. s.work \in Commits /\ Own(s) \in SUBSET AllRows /\ K \in SUBSET AllRows
  BY <1>1, CloneFields DEF Own
<1>5. /\ x \in CloneType /\ x.conflicts = K /\ x.merging /\ x.ref = pull.ref /\ x.work = w
  <2> DEFINE Y(t, f, g, h, d, k) == [t EXCEPT !.work = f, !.merging = TRUE, !.ref = g, !.saved = h,
                                              !.dirty = d, !.conflicts = k]
  <2>1. ASSUME NEW t \in CloneType, NEW f \in Commits, NEW g \in Commits, NEW h \in Commits,
               NEW d \in SUBSET AllRows, NEW k \in SUBSET AllRows
        PROVE  /\ Y(t, f, g, h, d, k) \in CloneType /\ Y(t, f, g, h, d, k).conflicts = k
               /\ Y(t, f, g, h, d, k).merging /\ Y(t, f, g, h, d, k).ref = g
               /\ Y(t, f, g, h, d, k).work = f
    BY DEF CloneType
  <2>2. x = Y(s, w, pull.ref, s.work, Own(s), K)
    BY Zenon
  <2> HIDE DEF w, K, x, Y
  <2> QED
    BY ONLY <1>1, <1>3, <1>4, <2>1, <2>2
<1> HIDE DEF x
<1>6. OnlyAsAsked(pull, InConflict, x.work)
  BY <1>1, <1>3, <1>5 DEF OnlyAsAsked, SyncRows
<1>7. ASSUME SyncMoved(pull', "push") \/ SyncMoved(pull', "settle")
      PROVE  BroughtIn(pull', InConflict, x.work, x.conflicts)
  <2>1. pull'.ref = pull.ref /\ pull'.before = s
    BY <1>1, <1>7 DEF SyncMoved
  <2>2. \A r \in SyncRows : pull.ref[r] # s.base[r] => w[r] = pull.ref[r] \/ (r \in K /\ r \in x.conflicts)
    BY <1>3, <1>5 DEF SyncRows
  <2> HIDE DEF s, w, K
  <2> QED
    BY <1>2, <1>5, <2>1, <2>2 DEF BroughtIn
<1>8. CASE OnConflicts(K) /\ strategy = ""
  <2>1. /\ "synced" \in SyncPlaces \ {"none", "sync merge"} /\ SyncMoved(pull', "synced")
        /\ ~pull'.ok /\ remote' \in Commits /\ strategy' = strategy
    BY <1>8, SyncPull DEF OnConflicts, SyncPlaces, SyncInv, SyncTypes
  <2> QED
    BY <1>1, <1>5, <1>6, <2>1, SyncStep
<1>9. CASE OnConflicts(K) /\ strategy # ""
  <2>1. strategy' = strategy /\ todo' = {TableOf(r) : r \in K}
    BY <1>9 DEF OnConflicts
  <2>2. /\ "settle" \in SyncPlaces \ {"none", "sync merge"} /\ SyncMoved(pull', "settle")
        /\ remote' \in Commits /\ pull'.mergeErr
    BY <1>9, SyncPull DEF SyncPlaces, SyncInv, SyncTypes
  <2>3. BroughtIn(pull', InConflict, x.work, x.conflicts)
    BY <1>7, <2>2
  <2>4. \A r \in x.conflicts : TableOf(r) \in todo'
    BY <1>5, <2>1
  <2>5. /\ x.conflicts \subseteq InConflict
        /\ x.ref = IF pull.before.merging THEN pull.before.ref ELSE pull.ref
    BY <1>1, <1>2, <1>5
  <2> QED
    BY <1>1, <1>5, <1>6, <1>9, <2>1, <2>2, <2>3, <2>4, <2>5, SyncStep
<1>10. CASE Goto("push") /\ Continue
  <2>1. /\ "push" \in SyncPlaces \ {"none", "sync merge"} /\ SyncMoved(pull', "push")
        /\ remote' \in Commits /\ ~pull'.mergeErr /\ strategy' = strategy
    BY <1>1, <1>10, SyncPull DEF SyncPlaces, SyncInv, SyncTypes, Continue
  <2>2. BroughtIn(pull', InConflict, x.work, x.conflicts)
    BY <1>7, <2>1
  <2> QED
    BY <1>1, <1>2, <1>5, <1>6, <2>1, <2>2, SyncStep
<1> QED
  BY <1>1, <1>8, <1>9, <1>10

LEMMA MergeRefusedKeeps ==
    ASSUME SyncInv, pull.pc = "sync merge", UNCHANGED remote, MergeRefused(pull.by)
    PROVE  SyncInv'
<1> DEFINE c == pull.by
           s == clone[c]
           K == s.conflicts
<1>1. /\ c \in Clones /\ s \in CloneType /\ s = pull.before /\ s.merging
      /\ OnConflicts(K) /\ On(c, s)
  BY DEF MergeRefused, On, SyncInv, SyncTypes, SyncPullType, SyncingInv
<1>2. InConflict = K
  BY <1>1 DEF InConflict
<1>3. OnlyAsAsked(pull, InConflict, s.work)
  BY <1>1 DEF OnlyAsAsked
<1>4. CASE strategy = ""
  <2>1. strategy' = strategy
    BY <1>1 DEF OnConflicts
  <2>2. /\ "synced" \in SyncPlaces \ {"none", "sync merge"} /\ SyncMoved(pull', "synced")
        /\ ~pull'.ok /\ remote' \in Commits
    BY <1>1, <1>4, SyncPull DEF SyncPlaces, SyncInv, SyncTypes
  <2> QED
    BY <1>1, <1>3, <2>1, <2>2, SyncStep
<1>5. CASE strategy # ""
  <2>1. strategy' = strategy /\ todo' = {TableOf(r) : r \in K}
    BY <1>1 DEF OnConflicts
  <2>2. /\ "settle" \in SyncPlaces \ {"none", "sync merge"} /\ SyncMoved(pull', "settle")
        /\ remote' \in Commits /\ pull'.mergeErr
    BY <1>1, <1>5, SyncPull DEF SyncPlaces, SyncInv, SyncTypes
  <2>3. /\ s.conflicts \subseteq InConflict
        /\ s.ref = IF pull.before.merging THEN pull.before.ref ELSE pull.ref
        /\ \A r \in s.conflicts : TableOf(r) \in todo'
    BY <1>1, <1>2, <2>1
  <2>4. BroughtIn(pull', InConflict, s.work, s.conflicts)
    BY <1>1, <2>2 DEF BroughtIn, SyncMoved
  <2> QED
    BY <1>1, <1>3, <1>5, <2>1, <2>2, <2>3, <2>4, SyncStep
<1> QED
  BY <1>4, <1>5

\* What holds of the clone of a sync that settles its conflicts.
LEMMA Settling ==
    ASSUME SyncInv, pull.pc = "settle"
    PROVE  /\ pull.by \in Clones /\ clone[pull.by] \in CloneType /\ clone[pull.by].merging
           /\ clone[pull.by].conflicts \subseteq InConflict
           /\ clone[pull.by].ref = IF pull.before.merging THEN pull.before.ref ELSE pull.ref
           /\ \A r \in clone[pull.by].conflicts : TableOf(r) \in todo
           /\ strategy # "" /\ pull.mergeErr
           /\ OnlyAsAsked(pull, InConflict, clone[pull.by].work)
           /\ BroughtIn(pull, InConflict, clone[pull.by].work, clone[pull.by].conflicts)
  BY DEF SyncInv, SyncTypes, SyncingInv

LEMMA SyncResolveKeeps ==
    ASSUME SyncInv, NEW table, SyncResolve(table)
    PROVE  SyncInv'
<1> DEFINE c == pull.by
           s == clone[c]
           done == {r \in s.conflicts : TableOf(r) = table}
           w == [r \in AllRows |-> IF strategy = "theirs" /\ r \in done THEN s.ref[r] ELSE s.work[r]]
           x == [s EXCEPT !.work = [r \in AllRows |-> IF strategy = "theirs" /\ r \in done THEN s.ref[r]
                                                      ELSE @[r]],
                          !.conflicts = @ \ done]
<1>1. /\ pull.pc = "settle" /\ UNCHANGED <<remote, pull, strategy>>
      /\ todo' = todo \ {table} /\ On(c, x)
  BY DEF SyncResolve, At
<1>2. /\ c \in Clones /\ s \in CloneType /\ s.work \in Commits /\ s.ref \in Commits
      /\ s.conflicts \in SUBSET AllRows
  BY <1>1, Settling, CloneFields
<1>3. w \in Commits
  <2> SUFFICES ASSUME NEW f, f = w PROVE f \in Commits
    OBVIOUS
  <2>1. f = [r \in AllRows |-> f[r]]
    OBVIOUS
  <2>2. \A r \in AllRows : f[r] = s.work[r] \/ f[r] = s.ref[r]
    OBVIOUS
  <2>3. \A r \in AllRows : \E g \in Commits : f[r] = g[r]
    BY <1>2, <2>2
  <2> QED
    BY <2>1, <2>3, MixedRows
<1>4. /\ x \in CloneType /\ x.work = w /\ x.conflicts = s.conflicts \ done
      /\ x.merging = s.merging /\ x.ref = s.ref
  <2>1. s \in CloneType /\ s.conflicts \ done \in SUBSET AllRows
    BY <1>1, <1>2, Settling
  <2> DEFINE Y(t, f, k) == [t EXCEPT !.work = f, !.conflicts = k]
  <2>2. ASSUME NEW t \in CloneType, NEW f \in Commits, NEW k \in SUBSET AllRows
        PROVE  /\ Y(t, f, k) \in CloneType /\ Y(t, f, k).conflicts = k /\ Y(t, f, k).work = f
               /\ Y(t, f, k).merging = t.merging /\ Y(t, f, k).ref = t.ref
    BY DEF CloneType
  <2>3. x = Y(s, w, s.conflicts \ done)
    BY Zenon
  <2> HIDE DEF w, done, x, Y
  <2> QED
    BY ONLY <1>3, <2>1, <2>2, <2>3
<1>5. /\ clone'[c] = x /\ clone' \in [Clones -> CloneType]
      /\ \A y \in Clones \ {c} : clone'[y] = clone[y]
  <2> HIDE DEF x
  <2> QED
    BY <1>1, <1>2, <1>4, SyncClone DEF SyncInv
<1>6. OnlyAsAsked(pull, InConflict, x.work)
  <2>1. ASSUME NEW r \in SyncRows, w[r] # pull.before.work[r]
        PROVE  /\ w[r] = IF pull.before.merging THEN pull.before.ref[r] ELSE pull.ref[r]
               /\ \/ r \in InConflict /\ strategy = "theirs"
                  \/ ~pull.before.merging /\ pull.before.head[r] = pull.before.base[r]
                     /\ pull.before.work[r] = pull.before.base[r]
    <3>1. CASE strategy = "theirs" /\ r \in done
      BY <1>1, <3>1, Settling DEF SyncRows
    <3>2. CASE ~(strategy = "theirs" /\ r \in done)
      BY <1>1, <2>1, <3>2, Settling DEF OnlyAsAsked, SyncRows
    <3> QED
      BY <3>1, <3>2
  <2> QED
    BY <1>4, <2>1 DEF OnlyAsAsked
<1>7. BroughtIn(pull, InConflict, x.work, x.conflicts)
  <2>1. ASSUME NEW r \in SyncRows, ~pull.before.merging, pull.ref[r] # pull.before.base[r]
        PROVE  \/ w[r] = pull.ref[r]
               \/ r \in InConflict /\ (strategy = "ours" \/ ~pull.mergeErr \/ r \in s.conflicts \ done)
    <3>1. CASE strategy = "theirs" /\ r \in done
      BY <1>1, <2>1, <3>1, Settling DEF SyncRows
    <3>2. CASE ~(strategy = "theirs" /\ r \in done)
      BY <1>1, <2>1, <3>2, Settling DEF BroughtIn, SyncRows, SyncInv, SyncTypes
    <3> QED
      BY <3>1, <3>2
  <2> QED
    BY <1>4, <2>1 DEF BroughtIn
<1>8. \A r \in x.conflicts : TableOf(r) \in todo'
  BY <1>1, <1>4, Settling
<1> HIDE DEF x, done, w
<1>9. /\ x.merging /\ x.conflicts \subseteq InConflict /\ strategy # "" /\ pull'.mergeErr
      /\ x.ref = IF pull.before.merging THEN pull.before.ref ELSE pull.ref
      /\ BroughtIn(pull', InConflict, x.work, x.conflicts)
  BY <1>1, <1>4, <1>7, Settling
<1>10. SyncMoved(pull', "settle") /\ "settle" \in SyncPlaces \ {"none", "sync merge"} /\ remote' \in Commits
  BY <1>1 DEF SyncMoved, SyncPlaces, SyncInv, SyncTypes
<1> QED
  BY <1>1, <1>4, <1>6, <1>8, <1>9, <1>10, SyncStep

LEMMA SyncCommitKeeps ==
    ASSUME SyncInv, SyncCommit
    PROVE  SyncInv'
<1> DEFINE c == pull.by
           s == clone[c]
           InConfig(r) == TableOf(r) = "config"
           pending == {r \in AllRows : s.work[r] # s.head[r] /\ ~InConfig(r)}
           left == \E r \in AllRows : InConfig(r) /\ Clash(s.base[r], s.head[r], s.ref[r])
           head == [r \in AllRows |-> IF ~InConfig(r) THEN s.work[r]
                                      ELSE IF left THEN s.head[r]
                                      ELSE Merged(s.base[r], s.head[r], s.ref[r])]
           n == [NoMerge(s) EXCEPT !.head = [r \in AllRows |-> IF ~InConfig(r) THEN s.work[r]
                                                               ELSE IF left THEN @[r]
                                                               ELSE Merged(s.base[r], @[r], s.ref[r])],
                                   !.base = s.ref]
           x == IF pending = {} THEN s ELSE n
<1>1. /\ pull.pc = "settle" /\ todo = {} /\ Goto("push") /\ UNCHANGED <<remote, strategy>>
  BY DEF SyncCommit, At, Continue
<1>2. /\ c \in Clones /\ s \in CloneType /\ s.work \in Commits /\ s.ref \in Commits /\ s.head \in Commits
      /\ s.conflicts = {}
  BY <1>1, Settling, CloneFields
<1>3. NoMerge(s) \in CloneType /\ NoMerge(s).conflicts = {} /\ NoMerge(s).work = s.work /\ NoMerge(s).head = s.head
  BY <1>2, NoMergeFields
<1>4. head \in Commits
  <2> SUFFICES ASSUME NEW f, f = head PROVE f \in Commits
    OBVIOUS
  <2>1. f = [r \in AllRows |-> f[r]]
    OBVIOUS
  <2>2. \A r \in AllRows : f[r] = s.work[r] \/ f[r] = s.head[r] \/ f[r] = s.ref[r]
    BY DEF Merged
  <2>3. \A r \in AllRows : \E g \in Commits : f[r] = g[r]
    BY <1>2, <2>2
  <2> QED
    BY <2>1, <2>3, MixedRows
<1>5. On(c, x)
  <2>1. CASE pending = {}
    BY <1>2, <2>1 DEF SyncCommit, On, SyncInv, SyncTypes
  <2>2. CASE pending # {}
    <3>1. On(c, n)
      BY <2>2, Zenon DEF SyncCommit
    <3> QED
      BY <2>2, <3>1
  <2> QED
    BY <2>1, <2>2
<1>6. n \in CloneType /\ n.conflicts = {} /\ n.work = s.work
  <2> DEFINE Y(t, f, g) == [t EXCEPT !.head = f, !.base = g]
  <2>1. ASSUME NEW t \in CloneType, NEW f \in Commits, NEW g \in Commits
        PROVE  Y(t, f, g) \in CloneType /\ Y(t, f, g).conflicts = t.conflicts /\ Y(t, f, g).work = t.work
    BY DEF CloneType
  <2>2. n = Y(NoMerge(s), head, s.ref)
    BY <1>3
  <2>3. NoMerge(s) \in CloneType /\ NoMerge(s).conflicts = {} /\ NoMerge(s).work = s.work
        /\ head \in Commits /\ s.ref \in Commits
    BY <1>2, <1>3, <1>4
  <2> HIDE DEF head, n, Y
  <2> QED
    BY ONLY <2>1, <2>2, <2>3
<1>7. x \in CloneType /\ x.conflicts = {} /\ x.work = s.work
  <2> HIDE DEF n
  <2> QED
    BY <1>2, <1>6
<1> HIDE DEF x
<1>8. OnlyAsAsked(pull, InConflict, x.work) /\ BroughtIn(pull, InConflict, x.work, x.conflicts)
  BY <1>1, <1>2, <1>7, Settling
<1>9. /\ SyncMoved(pull', "push") /\ "push" \in SyncPlaces \ {"none", "sync merge"} /\ remote' \in Commits
      /\ pull'.mergeErr = pull.mergeErr /\ pull.mergeErr
  BY <1>1, SyncPull, Settling DEF SyncPlaces, SyncInv, SyncTypes
<1>10. BroughtIn(pull', InConflict, x.work, x.conflicts)
  BY <1>8, <1>9 DEF BroughtIn, SyncMoved
<1> QED
  BY <1>1, <1>2, <1>5, <1>7, <1>8, <1>9, <1>10, SyncStep

LEMMA SyncPushKeeps ==
    ASSUME SyncInv, SyncPush
    PROVE  SyncInv'
<1> DEFINE c == pull.by
           s == clone[c]
<1>1. /\ pull.pc = "push" /\ EndSync(TRUE) /\ strategy' = strategy
      /\ \E pushed \in {FALSE, remote = s.base}, noted \in BOOLEAN :
             /\ remote' = IF pushed THEN s.head ELSE remote
             /\ On(c, [s EXCEPT !.base = IF pushed THEN s.head ELSE @,
                                !.work["metadata"] = IF noted THEN c ELSE @])
  BY Zenon DEF SyncPush, Continue
<1>2. PICK pushed \in BOOLEAN, noted \in BOOLEAN :
          /\ remote' = IF pushed THEN s.head ELSE remote
          /\ On(c, [s EXCEPT !.base = IF pushed THEN s.head ELSE @,
                             !.work["metadata"] = IF noted THEN c ELSE @])
  BY <1>1
<1>3. /\ c \in Clones /\ s \in CloneType /\ s.work \in Commits /\ s.base \in Commits /\ s.head \in Commits
      /\ s.conflicts = (IF pull.mergeErr THEN {} ELSE InConflict) /\ remote \in Commits
      /\ s.conflicts # {} => s.merging
      /\ OnlyAsAsked(pull, InConflict, s.work) /\ BroughtIn(pull, InConflict, s.work, s.conflicts)
  BY <1>1, CloneFields DEF SyncInv, SyncTypes, SyncingInv
<1> DEFINE v == IF noted THEN c ELSE s.work["metadata"]
           w == [s.work EXCEPT !["metadata"] = v]
           base == IF pushed THEN s.head ELSE s.base
           x == [s EXCEPT !.base = IF pushed THEN s.head ELSE @,
                          !.work["metadata"] = IF noted THEN c ELSE @]
<1>4. w \in Commits /\ \A r \in SyncRows : w[r] = s.work[r]
  <2>1. v \in Values
    BY <1>3 DEF Commits, Values, AllRows
  <2> HIDE DEF v
  <2> QED
    BY <1>3, <2>1 DEF Commits, AllRows, SyncRows
<1>5. x \in CloneType /\ x.conflicts = s.conflicts /\ x.merging = s.merging /\ x.work = w
  <2> DEFINE Y(t, f, g) == [t EXCEPT !.base = g, !.work = f]
  <2>1. ASSUME NEW t \in CloneType, NEW f \in Commits, NEW g \in Commits
        PROVE  /\ Y(t, f, g) \in CloneType /\ Y(t, f, g).conflicts = t.conflicts
               /\ Y(t, f, g).merging = t.merging /\ Y(t, f, g).work = f
    BY DEF CloneType
  <2>2. x = Y(s, w, base)
    BY <1>3 DEF CloneType
  <2>3. base \in Commits
    BY <1>3
  <2>4. s \in CloneType /\ w \in Commits
    BY <1>3, <1>4
  <2> HIDE DEF s, w, x, base, Y
  <2> QED
    BY ONLY <2>1, <2>2, <2>3, <2>4
<1>6. On(c, x)
  BY <1>2
<1> HIDE DEF x, w
<1>7. OnlyAsAsked(pull, InConflict, x.work) /\ BroughtIn(pull, InConflict, x.work, x.conflicts)
  BY <1>3, <1>4, <1>5 DEF OnlyAsAsked, BroughtIn
<1>8. /\ SyncMoved(pull', "synced") /\ "synced" \in SyncPlaces \ {"none", "sync merge"} /\ remote' \in Commits
      /\ pull'.mergeErr = pull.mergeErr
  BY <1>1, <1>2, <1>3, SyncPull DEF SyncPlaces, SyncInv
<1>9. BroughtIn(pull', InConflict, x.work, x.conflicts)
  BY <1>7, <1>8 DEF BroughtIn, SyncMoved
<1> QED
  BY <1>1, <1>3, <1>5, <1>6, <1>7, <1>8, <1>9, SyncStep

LEMMA EndSyncKeeps ==
    ASSUME SyncInv, EndPull, Continue
    PROVE  SyncInv'
<1>1. pull' = NoPull /\ NoPull.pc = "none" /\ UNCHANGED <<remote, clone, strategy>>
  BY DEF EndPull, Continue, NoPull
<1>2. NoPull \in SyncPullType
  BY FirstTyped DEF NoPull, SyncPullType, SyncPlaces
<1> QED
  BY <1>1, <1>2 DEF SyncInv, SyncTypes

\* The inductive invariant of a sync: while it settles, every row still in conflict is in
\* a table it has still to resolve; where the merge left conflicts without an error, all
\* of them are open to the end.
THEOREM SyncInvariant == SyncSpec => []SyncInv
<1>1. SyncInit => SyncInv
  <2> SUFFICES ASSUME SyncInit PROVE SyncInv
    OBVIOUS
  <2>1. NoPull \in SyncPullType /\ NoPull.pc = "none"
    BY FirstTyped DEF NoPull, SyncPullType, SyncPlaces
  <2>2. NewClone.conflicts = {}
    BY DEF NewClone
  <2> QED
    BY <2>1, <2>2, FirstTyped DEF SyncInit, SettleInit, SyncInv, SyncTypes
<1>2. SyncInv /\ [SyncNext]_syncVars => SyncInv'
  <2> SUFFICES ASSUME SyncInv, [SyncNext]_syncVars PROVE SyncInv'
    OBVIOUS
  <2>1. ASSUME NEW c \in Clones, Statement(c) \/ CommitAll(c) \/ Push(c), Continue
        PROVE  SyncInv'
    BY <2>1, RestKeeps
  <2>2. ASSUME NEW c \in Clones, Fetch(c)
        PROVE  SyncInv'
    BY <2>2, FetchKeeps
  <2>3. CASE SyncFails
    BY <2>3, SyncFailsKeeps
  <2>4. CASE SyncMerge
    BY <2>4, MergeCleanKeeps, MergeConflictsKeeps, MergeRefusedKeeps DEF SyncMerge, At
  <2>5. CASE SyncCommit
    BY <2>5, SyncCommitKeeps
  <2>6. CASE SyncPush
    BY <2>6, SyncPushKeeps
  <2>7. ASSUME NEW table, SyncResolve(table)
        PROVE  SyncInv'
    BY <2>7, SyncResolveKeeps
  <2>8. CASE EndPull /\ Continue
    BY <2>8, EndSyncKeeps
  <2>9. CASE UNCHANGED syncVars
    BY <2>9 DEF syncVars, settleVars, SyncInv, SyncTypes, SyncingInv, OnlyAsAsked, BroughtIn, InConflict
  <2> QED
    BY <2>1, <2>2, <2>3, <2>4, <2>5, <2>6, <2>7, <2>8, <2>9 DEF SyncNext
<1> QED
  BY <1>1, <1>2, PTL DEF SyncSpec

\* StrategyFollowed: a sync changes what it was asked to, whatever fails, and of its
\* conflicts only those stay open without an error that its own merge left without one:
\* Merge does not look for them, and Sync pushes and returns nil.
THEOREM StrategyTheorem == SyncSpec => []StrategyFollowed
<1>1. SyncInv => StrategyFollowed
  BY DEF SyncInv, SyncingInv, OnlyAsAsked, BroughtIn, StrategyFollowed, Synced, SyncRows
<1> QED
  BY <1>1, SyncInvariant, PTL
==============================================================================
