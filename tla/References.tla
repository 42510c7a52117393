------------------------------ MODULE References ------------------------------
(***************************************************************************)
(* What refers to what: ids, the two tables of rows and the two tables of  *)
(* edges.                                                                  *)
(*                                                                         *)
(* An id is a row of issues or of wisps.  The edges of an issue are in     *)
(* dependencies, those of a wisp in wisp_dependencies, and an edge names   *)
(* its target in one of three columns, by the table of the target.  Rows   *)
(* move between the tables (promotion) and change their id (renaming), and *)
(* the code moves the edges by hand: no foreign key is enforced, as        *)
(* dependencies declares none and the code never turns on those that       *)
(* wisp_dependencies does.                                                 *)
(*                                                                         *)
(* Every operation is one write transaction; where the code returns an     *)
(* error the transaction is rolled back and no action is enabled.          *)
(*                                                                         *)
(* The edges are of types that block nobody, so that there is no flag to   *)
(* recompute and no cycle to refuse; BlockedState models the others.       *)
(***************************************************************************)
EXTENDS Integers, FiniteSets

CONSTANTS
    Ids,         \* the ids in use
    Foreign,     \* the pairs of ids whose prefixes differ
    MayRelate,   \* the pairs <<source, target>> that clients relate
    Reuse,       \* clients give the id of a row, or one that an edge still
                 \* names, to a new row
    MaxEdges,    \* bound on the edges
    MaxPrefixed  \* bound on the edges that RenameDependencyPrefix has changed

ASSUME ForeignAssumption == Foreign \subseteq Ids \X Ids
ASSUME MayRelateAssumption == MayRelate \subseteq Ids \X Ids
ASSUME ReuseAssumption == Reuse \in BOOLEAN
ASSUME BoundsAssumption == MaxEdges \in Nat /\ MaxPrefixed \in Nat

Tables == {"issues", "wisps"}
Columns == Tables \cup {"external"}

\* A row of a dependency table.  The primary key is a hash of a pair of ids
\* (depid.New), here the pair.
Edge == [id : Ids \X Ids, source : Ids, column : Columns, target : Ids]

VARIABLES
    rows,        \* rows[t]: the ids with a row in t
    deps,        \* deps[t]: the edges of the rows of t
    prefixed     \* the keys in use of edges that RenameDependencyPrefix has changed

vars == <<rows, deps, prefixed>>

TypeOK ==
    /\ rows \in [Tables -> SUBSET Ids]
    /\ deps \in [Tables -> SUBSET Edge]
    /\ prefixed \subseteq Ids \X Ids

Init ==
    /\ rows = [t \in Tables |-> {}]
    /\ deps = [t \in Tables |-> {}]
    /\ prefixed = {}

-------------------------------------------------------------------------------
(* Tables, and the constraints the database checks *)

\* IsActiveWispInTx and WispTableRouting: a wisp goes before an issue.
TableOf(i) == IF i \in rows["wisps"] THEN "wisps" ELSE "issues"

Exists(i) == i \in rows[TableOf(i)]

AllEdges == deps["issues"] \cup deps["wisps"]
Keys == {e.id : e \in AllEdges}

\* Client that hands out ids: new to the tables and named by no edge.
Fresh(i) ==
    \/ Reuse
    \/ /\ i \notin rows["issues"] \cup rows["wisps"]
       /\ \A e \in AllEdges : e.source # i /\ (e.target = i => e.column = "external")

\* Primary key and unique keys.
Clash(e, f) ==
    \/ e.id = f.id
    \/ e.source = f.source /\ e.column = f.column /\ e.target = f.target

\* Edges of E become others, as the function new says: they must clash neither
\* with the rest nor with each other.
CanReplace(E, new) ==
    /\ \A e \in DOMAIN new, f \in E \ DOMAIN new : ~Clash(new[e], f)
    /\ \A e, f \in DOMAIN new : Clash(new[e], new[f]) => e = f

Replace(E, new) == (E \ DOMAIN new) \cup {new[e] : e \in DOMAIN new}

\* checkRenameTargetCollision: somebody depends on n twice, by the column and
\* by another one.
RenameCollision(E, column, n) ==
    \E a, b \in E : /\ a.source = b.source /\ a.target = n /\ b.target = n
                    /\ a.column = column /\ b.column # column

\* checkRetargetTargetCollision.
RetargetCollision(E, from, to, n) ==
    \E a, b \in E : /\ a.source = b.source /\ a.target = n /\ b.target = n
                    /\ a.column = from /\ b.column \in {to, "external"}

-------------------------------------------------------------------------------
(* Edges *)

\* ClassifyDepTarget.
ColumnOf(s, t) == IF <<s, t>> \in Foreign THEN "external" ELSE TableOf(t)

NewEdge(s, t, column) == [id |-> <<s, t>>, source |-> s, column |-> column, target |-> t]

Room == Cardinality(deps["issues"]) + Cardinality(deps["wisps"]) < MaxEdges

\* AddDependencyInTx: a pair that is there already, in any column, stays as it
\* is.  The target of a foreign edge need not exist.
AddDependency(s, t) ==
    LET table == TableOf(s)
        e     == NewEdge(s, t, ColumnOf(s, t))
    IN  /\ Exists(s)
        /\ <<s, t>> \in Foreign \/ Exists(t)
        /\ s # t
        /\ \A f \in deps[table] : f.source = s => f.target # t
        /\ \A f \in deps[table] : ~Clash(e, f)
        /\ <<s, t>> \in MayRelate /\ Room
        /\ deps' = [deps EXCEPT ![table] = @ \cup {e}]
        /\ UNCHANGED rows

\* removeDependencyInTx looks in one table.
RemoveDependency(s, t) ==
    /\ deps' = [deps EXCEPT ![TableOf(s)] = {e \in @ : e.source # s \/ e.target # t}]
    /\ UNCHANGED rows

-------------------------------------------------------------------------------
(* Rows *)

\* createIssueSQLite, INSERT OR REPLACE: i is new, or written over in its table.
Create(i, table) ==
    /\ Fresh(i) \/ i \in rows[table]
    /\ rows' = [rows EXCEPT ![table] = @ \cup {i}]

\* CreateIssue and CreateIssues without the edges of the record; the path for
\* wisps alone never writes them.
CreateIssue(i, table) ==
    /\ Create(i, table)
    /\ UNCHANGED deps

\* With an edge, PersistDependencies.  Prefixes are not compared here, so the
\* target must exist; a target without a row is skipped, as is an edge whose
\* key is there.
CreateWithEdge(i, table, t) ==
    LET column == IF t \in rows'["wisps"] THEN "wisps" ELSE "issues"
        e      == NewEdge(i, t, column)
    IN  /\ Create(i, table)
        /\ i # t
        /\ t \in rows'[column]
        /\ \A f \in deps[table] : f.id # e.id => ~Clash(e, f)
        /\ <<i, t>> \in MayRelate /\ Room
        /\ deps' = IF \E f \in deps[table] : f.id = e.id THEN deps
                   ELSE [deps EXCEPT ![table] = @ \cup {e}]

\* DeleteWispFromDependenciesInTx.
WithoutWispTargets(E, S) == {e \in E : e.column # "wisps" \/ e.target \notin S}

\* The rows go; of the edges only those of issues to a deleted wisp.
RemoveRows(I, W) ==
    /\ rows' = [rows EXCEPT !["issues"] = @ \ I, !["wisps"] = @ \ W]
    /\ deps' = [deps EXCEPT !["issues"] = WithoutWispTargets(@, W)]

\* deleteIssueInTx.
Delete(i) ==
    /\ Exists(i)
    /\ IF TableOf(i) = "wisps" THEN RemoveRows({}, {i}) ELSE RemoveRows({i}, {})

\* Mutant: one dependency table is asked.
DependentsIssuesOnly(j) == {e.source : e \in {f \in deps["issues"] : f.target = j}}

Dependents(j) == {e.source : e \in {f \in AllEdges : f.target = j}}

\* FindAllDependentsInTx.
AllDependents(S) ==
    {i \in Ids : \A T \in SUBSET Ids :
        S \subseteq T /\ (\A j \in T : Dependents(j) \subseteq T) => i \in T}

\* DeleteIssuesInTx without dryRun.  A wisp that is both listed and found as a
\* dependent would be deleted twice, which is an error.
DeleteIssues(ids, cascade, force) ==
    LET listed   == ids \cap rows["wisps"]
        regular  == ids \ listed
        expanded == IF cascade THEN AllDependents(regular) ELSE regular
        cascaded == expanded \cap rows["wisps"]
    IN  /\ ids # {}
        /\ ~cascade /\ ~force => \A i \in regular : Dependents(i) \subseteq ids
        /\ cascaded \cap listed = {}
        /\ RemoveRows(expanded \ cascaded, listed \cup cascaded)

\* DeleteIssuesBySourceRepoInTx; the issues of a repository are any of the table.
DeleteIssuesBySourceRepo(ids) ==
    /\ ids # {} /\ ids \subseteq rows["issues"]
    /\ RemoveRows(ids, {})

-------------------------------------------------------------------------------
(* Promotion *)

Sourced(E, i) == {e \in E : e.source = i}

\* Mutant: the wisp column is not copied; a row without a target breaks a check
\* of the table and is ignored.
MergedPartly(E, M) ==
    E \cup {e \in M : e.column # "wisps" /\ \A f \in E : ~Clash(e, f)}

\* INSERT OR IGNORE of the edges M into E.
Merged(E, M) == E \cup {e \in M : \A f \in E : ~Clash(e, f)}

\* RetargetInboundDependenciesToIssueInTx: the edges to the wisp i name an issue.
ToWisp(E, i) == {e \in E : e.column = "wisps" /\ e.target = i}
AsIssue(e) == [e EXCEPT !.column = "issues"]

Retargeting(E, i) == [e \in ToWisp(E, i) |-> AsIssue(e)]

MayRetarget(E, i) ==
    /\ ~RetargetCollision(E, "wisps", "issues", i)
    /\ ~RenameCollision(E, "issues", i)
    /\ CanReplace(E, Retargeting(E, i))

Retargeted(E, i) == Replace(E, Retargeting(E, i))

\* Mutant: the edges are copied, not moved.
RemainingCopied(i) == deps["wisps"]

\* The edges of the wisp i in the table of issues, before inbound ones change.
Promoted(i) == Merged(deps["issues"], Sourced(deps["wisps"], i))
Remaining(i) == deps["wisps"] \ Sourced(deps["wisps"], i)

\* promoteFromEphemeralInTx.
Promote(i) ==
    /\ i \in rows["wisps"]
    /\ rows' = [rows EXCEPT !["issues"] = @ \cup {i}, !["wisps"] = @ \ {i}]
    /\ MayRetarget(Promoted(i), i) /\ MayRetarget(Remaining(i), i)
    /\ deps' = [deps EXCEPT !["issues"] = Retargeted(Promoted(i), i),
                            !["wisps"]  = Retargeted(Remaining(i), i)]

-------------------------------------------------------------------------------
(* Renaming *)

\* replaceDependencyTargetInTx: the edges to o, in either column, name n.
ToRow(E, o) == {e \in E : e.target = o /\ e.column # "external"}
Renamed(e, column, n) == NewEdge(e.source, n, column)
TargetRenaming(E, column, o, n) == [e \in ToRow(E, o) |-> Renamed(e, column, n)]

MayRenameTarget(E, column, o, n) ==
    /\ ~RenameCollision(E, column, n)
    /\ CanReplace(E, TargetRenaming(E, column, o, n))

TargetRenamed(E, column, o, n) == Replace(E, TargetRenaming(E, column, o, n))

\* Mutants: the database is trusted to cascade the new id; the key is not changed.
StaleCascaded(E, o, n) == {e \in E : e.source = n /\ e.id # <<n, e.target>>}
RekeyedInPlace(e, n) == [e EXCEPT !.source = n]

\* rekeyDependencySourceInTx, of the table of issues: edges whose key is not
\* the one that the new id gives.
Stale(E, o, n) == {e \in E : e.source \in {o, n} /\ e.id # <<n, e.target>>}
Rekeyed(e, n) == NewEdge(n, e.target, e.column)
Rekeying(E, o, n) == [e \in Stale(E, o, n) |-> Rekeyed(e, n)]

MayRekey(E, o, n) == CanReplace(E, Rekeying(E, o, n))
SourceRekeyed(E, o, n) == Replace(E, Rekeying(E, o, n))

RenameRow(table, o, n) ==
    /\ o \in rows[table] /\ n \notin rows[table] /\ o # n
    /\ Fresh(n)
    /\ rows' = [rows EXCEPT ![table] = (@ \ {o}) \cup {n}]
    /\ \A t \in Tables : MayRenameTarget(deps[t], table, o, n)

\* updateIssueIDInTx and UpdateIssueIDInDependenciesInTx.
RenameIssue(o, n) ==
    LET E == TargetRenamed(deps["issues"], "issues", o, n)
    IN  /\ o \notin rows["wisps"]
        /\ RenameRow("issues", o, n)
        /\ MayRekey(E, o, n)
        /\ deps' = [deps EXCEPT !["issues"] = SourceRekeyed(E, o, n),
                                !["wisps"]  = TargetRenamed(@, "issues", o, n)]

\* updateWispIDInTx and UpdateWispIDInDependenciesInTx: the edges of the wisp
\* itself stay with its old id.
RenameWisp(o, n) ==
    /\ RenameRow("wisps", o, n)
    /\ deps' = [t \in Tables |-> TargetRenamed(deps[t], "wisps", o, n)]

\* Of all edges, those of o and those to it in the column of a table name n instead.
Naming(E, o) == Sourced(E, o) \cup ToRow(E, o)
Reprefixed(e, o, n) ==
    [id |-> e.id, source |-> IF e.source = o THEN n ELSE e.source, column |-> e.column,
     target |-> IF e.target = o /\ e.column # "external" THEN n ELSE e.target]
Reprefixing(E, o, n) == [e \in Naming(E, o) |-> Reprefixed(e, o, n)]

\* Clients give edges to a row of the table that they are in and name, or to no row.
Suits(o, n) ==
    Exists(n) => /\ \A t \in Tables : Sourced(deps[t], o) # {} => t = TableOf(n)
                 /\ \A e \in ToRow(AllEdges, o) : e.column = TableOf(n)

\* With a whole id for the prefix, and no id below it.  The keys stay, as do the rows.
RenameDependencyPrefix(o, n) ==
    /\ o # n
    /\ \A t \in Tables : CanReplace(deps[t], Reprefixing(deps[t], o, n))
    /\ Suits(o, n)
    /\ deps' = [t \in Tables |-> Replace(deps[t], Reprefixing(deps[t], o, n))]
    /\ prefixed' = prefixed \cup {e.id : e \in Naming(AllEdges, o)}
    /\ Cardinality(prefixed') <= MaxPrefixed
    /\ UNCHANGED rows

-------------------------------------------------------------------------------

Edit ==
    \/ \E s, t \in Ids : AddDependency(s, t) \/ RemoveDependency(s, t)
    \/ \E i \in Ids, table \in Tables :
           \/ CreateIssue(i, table)
           \/ \E t \in Ids : CreateWithEdge(i, table, t)
    \/ \E i \in Ids : Delete(i) \/ Promote(i)
    \/ \E ids \in SUBSET Ids :
           \/ DeleteIssuesBySourceRepo(ids)
           \/ \E cascade, force \in BOOLEAN : DeleteIssues(ids, cascade, force)
    \/ \E o, n \in Ids : RenameIssue(o, n) \/ RenameWisp(o, n)

Next ==
    \/ Edit /\ prefixed' = prefixed \cap Keys'
    \/ \E o, n \in Ids : RenameDependencyPrefix(o, n)

Spec == Init /\ [][Next]_vars

-------------------------------------------------------------------------------
(* Properties *)

\* "The same edge gets the same primary key on every clone" (dependencies.go):
\* the key of an edge is the one its present source and target give, after any
\* sequence of promotions and of renames of rows, also where deleted rows left edges
\* behind and their ids are used again.  Excepted are the edges that
\* RenameDependencyPrefix has changed, which keep their key.
EdgeIdsDerived ==
    \A t \in Tables : \A e \in deps[t] : e.id = <<e.source, e.target>> \/ e.id \in prefixed

\* An id is in one table only, its edges are in the table that a removal
\* looks in, and edges to it name the table it is in.  So a count over both
\* tables counts nothing twice ("Issues and wisps are always in separate
\* tables", count.go), what a reader is shown can be removed, and joins by
\* column find what a row waits for.
TablesAgree ==
    /\ rows["issues"] \cap rows["wisps"] = {}
    /\ \A t \in Tables : \A e \in deps[t] :
           /\ Exists(e.source) => t = TableOf(e.source)
           /\ Exists(e.target) => e.column \in {TableOf(e.target), "external"}

\* The pairs that reads of both tables show.
Graph == {<<e.source, e.target>> : e \in AllEdges}

\* No edge of i has a key that RenameDependencyPrefix left on an edge.
Untouched(i) == \A e \in Sourced(AllEdges, i) : e.id \notin prefixed

\* Promotion moves the edges of a wisp and loses none of them, unless the key of one may
\* be taken by an edge that RenameDependencyPrefix has changed.
PromotionKeepsGraph == [][\A i \in Ids : Promote(i) /\ Untouched(i) => Graph' = Graph]_vars

\* The graph of rows that exist, and of the edges whose targets follow a rename.
Live == {<<e.source, e.target>> : e \in {f \in AllEdges : Exists(f.source) /\ f.column # "external"}}

\* Renaming an issue renames it in the graph and nothing else, unless an edge of it may
\* have by RenameDependencyPrefix the key that the new id gives it, and is passed over.
RenameKeepsGraph ==
    [][\A o, n \in Ids : RenameIssue(o, n) /\ Untouched(o) =>
           LET New(i) == IF i = o THEN n ELSE i
           IN  Live' = {<<New(p[1]), New(p[2])>> : p \in Live}]_vars

Orphaned == {e \in AllEdges' : Exists(e.source)' /\ e.target \in rows["issues"] \ rows'["issues"]}

\* A deletion without force leaves no row that depends on an issue it deletes: a step that
\* orphans a row is none.
NoNewOrphans ==
    [][Orphaned # {} => \A ids \in SUBSET Ids, cascade \in BOOLEAN :
                            ~DeleteIssues(ids, cascade, FALSE)]_vars
===============================================================================
