--------------------------- MODULE ReferencesProofs ---------------------------
(***************************************************************************)
(* Proofs about the edges between ids: about References, for any ids and   *)
(* any number of edges, and, from there on, about CycleSearch, for any     *)
(* graph and any number of edges whose cycles are asked for.               *)
(***************************************************************************)
EXTENDS References, CycleSearch, SequenceTheorems, TLAPS

\* An edge, field by field.
EdgeOf(id, s, column, t) == [id |-> id, source |-> s, column |-> column, target |-> t]

\* An edge built from a source, a target and a column is well formed and has
\* the key of its ends.
LEMMA NewEdgeType ==
    ASSUME NEW s \in Ids, NEW t \in Ids, NEW column \in Columns
    PROVE  /\ NewEdge(s, t, column) \in Edge
           /\ NewEdge(s, t, column).id = <<NewEdge(s, t, column).source, NewEdge(s, t, column).target>>
BY DEF NewEdge, Edge, Columns

\* What retargeting leaves: the edges that do not name the wisp, and the others
\* with another column.
LEMMA RetargetedEdges ==
    ASSUME NEW E \in SUBSET Edge, NEW i \in Ids, NEW e
    PROVE  e \in Retargeted(E, i) <=>
               \/ e \in E /\ ~(e.column = "wisps" /\ e.target = i)
               \/ \E f \in E : /\ f.column = "wisps" /\ f.target = i
                               /\ e = EdgeOf(f.id, f.source, "issues", f.target)
<1>1. \A f \in ToWisp(E, i) : AsIssue(f) = EdgeOf(f.id, f.source, "issues", f.target)
  BY DEF ToWisp, AsIssue, EdgeOf, Edge
<1>2. DOMAIN Retargeting(E, i) = ToWisp(E, i)
  BY DEF Retargeting
<1>3. \A f \in ToWisp(E, i) : Retargeting(E, i)[f] = AsIssue(f)
  BY DEF Retargeting
<1>4. e \in Retargeted(E, i) <=>
          (e \in E /\ e \notin ToWisp(E, i)) \/ \E f \in ToWisp(E, i) : e = AsIssue(f)
  BY <1>2, <1>3 DEF Retargeted, Replace
<1> QED BY <1>1, <1>4 DEF ToWisp

\* What renaming a target leaves.
LEMMA RenamedEdges ==
    ASSUME NEW E \in SUBSET Edge, NEW o \in Ids, NEW n \in Ids, NEW table \in Tables, NEW e
    PROVE  e \in TargetRenamed(E, table, o, n) <=>
               \/ e \in E /\ ~(e.target = o /\ e.column # "external")
               \/ \E f \in E : /\ f.target = o /\ f.column # "external"
                               /\ e = NewEdge(f.source, n, table)
<1>1. DOMAIN TargetRenaming(E, table, o, n) = ToRow(E, o)
  BY DEF TargetRenaming
<1>2. \A f \in ToRow(E, o) : TargetRenaming(E, table, o, n)[f] = NewEdge(f.source, n, table)
  BY DEF TargetRenaming, Renamed
<1>3. e \in TargetRenamed(E, table, o, n) <=>
          \/ e \in E /\ e \notin ToRow(E, o)
          \/ \E f \in ToRow(E, o) : e = NewEdge(f.source, n, table)
  BY <1>1, <1>2 DEF TargetRenamed, Replace
<1> QED BY <1>3 DEF ToRow

\* What renaming a source leaves: the edges of the old and of the new id that
\* had another key get the one of their ends.
LEMMA RekeyedEdges ==
    ASSUME NEW E \in SUBSET Edge, NEW o \in Ids, NEW n \in Ids, NEW e
    PROVE  e \in SourceRekeyed(E, o, n) <=>
               \/ e \in E /\ e \notin Stale(E, o, n)
               \/ \E f \in Stale(E, o, n) : e = NewEdge(n, f.target, f.column)
<1>1. DOMAIN Rekeying(E, o, n) = Stale(E, o, n)
  BY DEF Rekeying
<1>2. \A f \in Stale(E, o, n) : Rekeying(E, o, n)[f] = NewEdge(n, f.target, f.column)
  BY DEF Rekeying, Rekeyed
<1> QED BY <1>1, <1>2 DEF SourceRekeyed, Replace

\* What RenameDependencyPrefix leaves.
LEMMA ReprefixedEdges ==
    ASSUME NEW E \in SUBSET Edge, NEW o \in Ids, NEW n \in Ids,
           NEW e \in Replace(E, Reprefixing(E, o, n))
    PROVE  e \in E \/ \E f \in Naming(E, o) : f \in E /\ e = Reprefixed(f, o, n)
<1>1. DOMAIN Reprefixing(E, o, n) = Naming(E, o)
  BY DEF Reprefixing
<1>2. \A f \in Naming(E, o) : f \in E /\ Reprefixing(E, o, n)[f] = Reprefixed(f, o, n)
  BY DEF Reprefixing, Naming, Sourced, ToRow
<1> QED BY <1>1, <1>2 DEF Replace

\* The operations that rewrite the edges of a table keep them well formed.
LEMMA RewriteTypes ==
    ASSUME NEW E \in SUBSET Edge, NEW o \in Ids, NEW n \in Ids, NEW table \in Tables
    PROVE  /\ Retargeted(E, o) \in SUBSET Edge
           /\ TargetRenamed(E, table, o, n) \in SUBSET Edge
           /\ SourceRekeyed(E, o, n) \in SUBSET Edge
           /\ Replace(E, Reprefixing(E, o, n)) \in SUBSET Edge
<1>1. Retargeted(E, o) \in SUBSET Edge
  <2>1. \A f \in E : EdgeOf(f.id, f.source, "issues", f.target) \in Edge
    BY DEF EdgeOf, Edge, Columns, Tables
  <2> QED BY <2>1, RetargetedEdges
<1>2. TargetRenamed(E, table, o, n) \in SUBSET Edge
  <2>1. \A f \in E : NewEdge(f.source, n, table) \in Edge
    BY NewEdgeType DEF Edge, Columns
  <2> QED BY <2>1, RenamedEdges
<1>3. SourceRekeyed(E, o, n) \in SUBSET Edge
  <2>1. \A f \in Stale(E, o, n) : f \in Edge
    BY DEF Stale
  <2>2. \A f \in Stale(E, o, n) : NewEdge(n, f.target, f.column) \in Edge
    BY <2>1, NewEdgeType DEF Edge
  <2> QED BY <2>2, RekeyedEdges
<1>4. Replace(E, Reprefixing(E, o, n)) \in SUBSET Edge
  <2>1. \A f \in E : Reprefixed(f, o, n) \in Edge
    BY DEF Reprefixed, Edge
  <2> QED BY <2>1, ReprefixedEdges
<1> QED BY <1>1, <1>2, <1>3, <1>4

\* The two tables, and the parts of a promotion and of an issue's renaming.
LEMMA PartTypes ==
    ASSUME TypeOK, NEW i \in Ids, NEW o \in Ids, NEW n \in Ids
    PROVE  /\ TableOf(i) \in Tables
           /\ "issues" \in Tables /\ "wisps" \in Tables
           /\ deps["issues"] \in SUBSET Edge /\ deps["wisps"] \in SUBSET Edge
           /\ Promoted(i) \in SUBSET Edge /\ Remaining(i) \in SUBSET Edge
           /\ TargetRenamed(deps["issues"], "issues", o, n) \in SUBSET Edge
<1>1. "issues" \in Tables /\ "wisps" \in Tables /\ TableOf(i) \in Tables
  BY DEF Tables, TableOf
<1>2. deps["issues"] \in SUBSET Edge /\ deps["wisps"] \in SUBSET Edge
  BY <1>1 DEF TypeOK
<1>3. Promoted(i) \in SUBSET Edge /\ Remaining(i) \in SUBSET Edge
  BY <1>2 DEF Promoted, Remaining, Merged, Sourced
<1> QED BY <1>1, <1>2, <1>3, RewriteTypes

\* A step that changes the edges of one table, or of both.
LEMMA EditTypes ==
    ASSUME TypeOK, Edit
    PROVE  rows' \in [Tables -> SUBSET Ids] /\ deps' \in [Tables -> SUBSET Edge]
<1> USE DEF TypeOK
<1> DEFINE Typed == rows' \in [Tables -> SUBSET Ids] /\ deps' \in [Tables -> SUBSET Edge]
<1>1. ASSUME NEW s \in Ids, NEW t \in Ids, AddDependency(s, t)
      PROVE  Typed
  <2>1. ColumnOf(s, t) \in Columns /\ TableOf(s) \in Tables
    BY PartTypes DEF ColumnOf, Columns
  <2>2. NewEdge(s, t, ColumnOf(s, t)) \in Edge
    BY <2>1, NewEdgeType
  <2> QED BY <1>1, <2>1, <2>2 DEF AddDependency
<1>2. ASSUME NEW s \in Ids, NEW t \in Ids, RemoveDependency(s, t)
      PROVE  Typed
  BY <1>2, PartTypes DEF RemoveDependency
<1>3. ASSUME NEW i \in Ids, NEW table \in Tables, CreateIssue(i, table)
      PROVE  Typed
  BY <1>3 DEF CreateIssue, Create
<1>4. ASSUME NEW i \in Ids, NEW table \in Tables, NEW t \in Ids, CreateWithEdge(i, table, t)
      PROVE  Typed
  <2> DEFINE column == IF t \in rows'["wisps"] THEN "wisps" ELSE "issues"
             e      == NewEdge(i, t, column)
  <2>1. e \in Edge
    BY NewEdgeType DEF Columns, Tables
  <2>2. rows' \in [Tables -> SUBSET Ids]
    BY <1>4 DEF CreateWithEdge, Create
  <2>3. deps' = deps \/ deps' = [deps EXCEPT ![table] = @ \cup {e}]
    BY <1>4 DEF CreateWithEdge
  <2> QED BY <2>1, <2>2, <2>3
<1>5. ASSUME NEW I, NEW W, RemoveRows(I, W)
      PROVE  Typed
  BY <1>5 DEF RemoveRows, WithoutWispTargets, Tables
<1>6. ASSUME NEW i \in Ids, Promote(i)
      PROVE  Typed
  <2>1. Retargeted(Promoted(i), i) \in SUBSET Edge /\ Retargeted(Remaining(i), i) \in SUBSET Edge
    BY PartTypes, RewriteTypes
  <2>2. rows' \in [Tables -> SUBSET Ids]
    BY <1>6 DEF Promote, Tables
  <2> QED BY <1>6, <2>1, <2>2 DEF Promote
<1>7. ASSUME NEW o \in Ids, NEW n \in Ids, RenameIssue(o, n)
      PROVE  Typed
  <2> DEFINE E == TargetRenamed(deps["issues"], "issues", o, n)
  <2>1. SourceRekeyed(E, o, n) \in SUBSET Edge
    BY PartTypes, RewriteTypes
  <2>2. TargetRenamed(deps["wisps"], "issues", o, n) \in SUBSET Edge
    BY PartTypes, RewriteTypes
  <2>3. rows' \in [Tables -> SUBSET Ids]
    BY <1>7 DEF RenameIssue, RenameRow, Tables
  <2>4. deps' = [deps EXCEPT !["issues"] = SourceRekeyed(E, o, n),
                             !["wisps"]  = TargetRenamed(@, "issues", o, n)]
    BY <1>7 DEF RenameIssue
  <2> QED BY <2>1, <2>2, <2>3, <2>4
<1>8. ASSUME NEW o \in Ids, NEW n \in Ids, RenameWisp(o, n)
      PROVE  Typed
  <2>1. \A t \in Tables : TargetRenamed(deps[t], "wisps", o, n) \in SUBSET Edge
    BY PartTypes, RewriteTypes
  <2>2. rows' \in [Tables -> SUBSET Ids]
    BY <1>8 DEF RenameWisp, RenameRow, Tables
  <2> QED BY <1>8, <2>1, <2>2 DEF RenameWisp
<1>9. ASSUME NEW i \in Ids, Delete(i)
       PROVE  Typed
  BY <1>5, <1>9 DEF Delete
<1>10. ASSUME NEW ids \in SUBSET Ids,
              DeleteIssuesBySourceRepo(ids) \/ \E cascade, force \in BOOLEAN : DeleteIssues(ids, cascade, force)
       PROVE  Typed
  BY <1>5, <1>10 DEF DeleteIssuesBySourceRepo, DeleteIssues
<1> QED
  BY <1>1, <1>2, <1>3, <1>4, <1>6, <1>7, <1>8, <1>9, <1>10 DEF Edit

LEMMA TypePreserved ==
    ASSUME TypeOK, [Next]_vars
    PROVE  TypeOK'
<1>1. CASE Edit /\ prefixed' = prefixed \cap Keys'
  BY <1>1, EditTypes DEF TypeOK
<1>2. ASSUME NEW o \in Ids, NEW n \in Ids, RenameDependencyPrefix(o, n)
      PROVE  TypeOK'
  <2>1. \A t \in Tables : Replace(deps[t], Reprefixing(deps[t], o, n)) \in SUBSET Edge
    BY PartTypes, RewriteTypes DEF TypeOK
  <2>2. \A e \in Naming(AllEdges, o) : e.id \in Ids \X Ids
    BY PartTypes DEF Naming, Sourced, ToRow, AllEdges, Edge
  <2> QED BY <1>2, <2>1, <2>2 DEF RenameDependencyPrefix, TypeOK
<1>3. CASE UNCHANGED vars
  BY <1>3 DEF vars, TypeOK
<1> QED BY <1>1, <1>2, <1>3 DEF Next

\* Rows and edges keep their types.
THEOREM TypeCorrect == Spec => []TypeOK
<1>1. Init => TypeOK
  BY DEF Init, TypeOK
<1>2. TypeOK /\ [Next]_vars => TypeOK'
  BY TypePreserved
<1> QED BY <1>1, <1>2, PTL DEF Spec

-------------------------------------------------------------------------------
(* The key of an edge *)

\* EdgeIdsDerived of some edges.
Derived(E) == \A e \in E : e.id = <<e.source, e.target>> \/ e.id \in prefixed

\* Retargeting changes no end of an edge; the two parts of a renaming derive
\* the keys of the edges they change anew.
LEMMA RewritesDerive ==
    ASSUME NEW E \in SUBSET Edge, Derived(E), NEW o \in Ids, NEW n \in Ids, NEW table \in Tables
    PROVE  /\ Derived(Retargeted(E, o))
           /\ Derived(TargetRenamed(E, table, o, n))
           /\ Derived(SourceRekeyed(E, o, n))
<1>1. Derived(Retargeted(E, o))
  <2>1. \A f \in E : LET e == EdgeOf(f.id, f.source, "issues", f.target)
                     IN  e.id = <<e.source, e.target>> \/ e.id \in prefixed
    BY DEF EdgeOf, Derived
  <2> QED BY <2>1, RetargetedEdges DEF Derived
<1>2. Derived(TargetRenamed(E, table, o, n))
  <2> SUFFICES ASSUME NEW e \in TargetRenamed(E, table, o, n)
               PROVE  e.id = <<e.source, e.target>> \/ e.id \in prefixed
    BY DEF Derived
  <2>1. e \in E \/ \E f \in E : e = NewEdge(f.source, n, table)
    BY RenamedEdges
  <2> QED BY <2>1 DEF Derived, NewEdge
<1>3. Derived(SourceRekeyed(E, o, n))
  <2> SUFFICES ASSUME NEW e \in SourceRekeyed(E, o, n)
               PROVE  e.id = <<e.source, e.target>> \/ e.id \in prefixed
    BY DEF Derived
  <2>1. e \in E \/ \E f \in Stale(E, o, n) : e = NewEdge(n, f.target, f.column)
    BY RekeyedEdges
  <2> QED BY <2>1 DEF Derived, NewEdge
<1> QED BY <1>1, <1>2, <1>3

\* An edit other than a promotion or a renaming removes edges, or adds one
\* whose key is that of its ends.
LEMMA OtherEdges ==
    ASSUME TypeOK, Edit,
           \A i \in Ids : ~Promote(i),
           \A o, n \in Ids : ~RenameIssue(o, n) /\ ~RenameWisp(o, n)
    PROVE  \A t \in Tables : \A e \in deps'[t] :
               e \in deps[t] \/ e.id = <<e.source, e.target>>
<1> USE DEF TypeOK
<1> DEFINE Goal == \A t \in Tables : \A e \in deps'[t] :
                       e \in deps[t] \/ e.id = <<e.source, e.target>>
<1>1. ASSUME NEW s \in Ids, NEW t \in Ids, AddDependency(s, t)
      PROVE  Goal
  BY <1>1, PartTypes DEF AddDependency, NewEdge
<1>2. ASSUME NEW s \in Ids, NEW t \in Ids, RemoveDependency(s, t)
      PROVE  Goal
  BY <1>2, PartTypes DEF RemoveDependency
<1>3. ASSUME NEW i \in Ids, NEW table \in Tables, CreateIssue(i, table)
      PROVE  Goal
  BY <1>3 DEF CreateIssue
<1>4. ASSUME NEW i \in Ids, NEW table \in Tables, NEW t \in Ids, CreateWithEdge(i, table, t)
      PROVE  Goal
  BY <1>4 DEF CreateWithEdge, NewEdge
<1>5. ASSUME NEW I, NEW W, RemoveRows(I, W)
      PROVE  Goal
  BY <1>5 DEF RemoveRows, WithoutWispTargets, Tables
<1>6. ASSUME NEW i \in Ids, Delete(i)
      PROVE  Goal
  BY <1>5, <1>6 DEF Delete
<1>7. ASSUME NEW ids \in SUBSET Ids,
             DeleteIssuesBySourceRepo(ids) \/ \E cascade, force \in BOOLEAN : DeleteIssues(ids, cascade, force)
      PROVE  Goal
  BY <1>5, <1>7 DEF DeleteIssuesBySourceRepo, DeleteIssues
<1> QED
  BY <1>1, <1>2, <1>3, <1>4, <1>6, <1>7 DEF Edit

\* Every step keeps keys derived: promotions and renames rewrite edges, the other edits
\* are OtherEdges.
LEMMA EditDerives ==
    ASSUME TypeOK, EdgeIdsDerived, Edit
    PROVE  \A t \in Tables : Derived(deps'[t])
<1> DEFINE Goal == \A t \in Tables : Derived(deps'[t])
<1>0. Derived(deps["issues"]) /\ Derived(deps["wisps"])
  BY PartTypes DEF EdgeIdsDerived, Derived, Tables
<1>1. ASSUME NEW i \in Ids, Promote(i)
      PROVE  Goal
  <2>1. Promoted(i) \in SUBSET Edge /\ Remaining(i) \in SUBSET Edge
    BY PartTypes
  <2>2. Derived(Promoted(i)) /\ Derived(Remaining(i))
    BY <1>0 DEF Promoted, Remaining, Merged, Sourced, Derived
  <2>3. Derived(Retargeted(Promoted(i), i)) /\ Derived(Retargeted(Remaining(i), i))
    BY <2>1, <2>2, RewritesDerive DEF Tables
  <2> QED BY <1>1, <2>3 DEF Promote, TypeOK, Tables
<1>2. ASSUME NEW o \in Ids, NEW n \in Ids, RenameIssue(o, n)
      PROVE  Goal
  <2> DEFINE E == TargetRenamed(deps["issues"], "issues", o, n)
  <2>1. Derived(E) /\ Derived(TargetRenamed(deps["wisps"], "issues", o, n))
    BY <1>0, PartTypes, RewritesDerive
  <2>2. Derived(SourceRekeyed(E, o, n))
    BY <2>1, PartTypes, RewritesDerive
  <2>3. deps' = [deps EXCEPT !["issues"] = SourceRekeyed(E, o, n),
                             !["wisps"]  = TargetRenamed(@, "issues", o, n)]
    BY <1>2 DEF RenameIssue
  <2> HIDE DEF E
  <2> QED BY <2>1, <2>2, <2>3 DEF TypeOK, Tables
<1>3. ASSUME NEW o \in Ids, NEW n \in Ids, RenameWisp(o, n)
      PROVE  Goal
  <2>1. \A t \in Tables : Derived(TargetRenamed(deps[t], "wisps", o, n))
    BY <1>0, PartTypes, RewritesDerive DEF Tables
  <2> QED BY <1>3, <2>1 DEF RenameWisp
<1>4. CASE \A t \in Tables : \A e \in deps'[t] : e \in deps[t] \/ e.id = <<e.source, e.target>>
  BY <1>4 DEF Derived, EdgeIdsDerived
<1> QED
  BY <1>1, <1>2, <1>3, <1>4, OtherEdges

\* RenameDependencyPrefix changes edges and keeps their keys, which it records.
LEMMA KeysPreserved ==
    ASSUME TypeOK, EdgeIdsDerived, [Next]_vars
    PROVE  EdgeIdsDerived'
<1> SUFFICES ASSUME NEW t \in Tables, NEW e \in deps'[t]
             PROVE  e.id = <<e.source, e.target>> \/ e.id \in prefixed'
  BY DEF EdgeIdsDerived
<1>1. CASE Edit /\ prefixed' = prefixed \cap Keys'
  <2>1. e.id = <<e.source, e.target>> \/ e.id \in prefixed
    BY <1>1, EditDerives DEF Derived
  <2>2. e.id \in Keys'
    BY DEF Keys, AllEdges, Tables
  <2> QED BY <1>1, <2>1, <2>2
<1>2. ASSUME NEW o \in Ids, NEW n \in Ids, RenameDependencyPrefix(o, n)
      PROVE  e.id = <<e.source, e.target>> \/ e.id \in prefixed'
  <2>1. e \in deps[t] \/ \E f \in Naming(deps[t], o) : e = Reprefixed(f, o, n)
    <3>1. e \in Replace(deps[t], Reprefixing(deps[t], o, n)) /\ deps[t] \in SUBSET Edge
      BY <1>2 DEF RenameDependencyPrefix, TypeOK
    <3> QED BY <3>1, ReprefixedEdges
  <2>2. CASE e \in deps[t]
    BY <1>2, <2>2 DEF RenameDependencyPrefix, EdgeIdsDerived
  <2>3. ASSUME NEW f \in Naming(deps[t], o), e = Reprefixed(f, o, n)
        PROVE  e.id \in prefixed'
    <3>1. e.id = f.id
      BY <2>3 DEF Reprefixed
    <3>2. f \in Naming(AllEdges, o)
      BY DEF Naming, Sourced, ToRow, AllEdges, Tables
    <3> QED BY <1>2, <3>1, <3>2 DEF RenameDependencyPrefix
  <2> QED BY <2>1, <2>2, <2>3
<1>3. CASE UNCHANGED vars
  BY <1>3 DEF vars, EdgeIdsDerived
<1> QED BY <1>1, <1>2, <1>3 DEF Next

\* The same edge has the same primary key on every clone, whatever rows were renamed,
\* promoted, deleted and created again before, also when ids are used again: all edges
\* but those that RenameDependencyPrefix has changed.
THEOREM KeysFollowEnds == Spec => []EdgeIdsDerived
<1>1. Init => EdgeIdsDerived
  BY DEF Init, EdgeIdsDerived
<1>2. TypeOK /\ EdgeIdsDerived /\ [Next]_vars => EdgeIdsDerived'
  BY KeysPreserved
<1> QED BY <1>1, <1>2, TypeCorrect, PTL DEF Spec

-------------------------------------------------------------------------------
(* Promotion *)

\* Every edge of E has one of F between the same ids.
Covers(F, E) == \A e \in E : \E f \in F : f.source = e.source /\ f.target = e.target

\* Retargeting loses no pair and makes none up.
LEMMA RetargetedCovers ==
    ASSUME NEW E \in SUBSET Edge, NEW i \in Ids
    PROVE  Covers(E, Retargeted(E, i)) /\ Covers(Retargeted(E, i), E)
<1>0. \A f \in E : /\ EdgeOf(f.id, f.source, "issues", f.target).source = f.source
                  /\ EdgeOf(f.id, f.source, "issues", f.target).target = f.target
  BY DEF EdgeOf
<1>1. Covers(E, Retargeted(E, i))
  BY <1>0, RetargetedEdges DEF Covers
<1>2. Covers(Retargeted(E, i), E)
  <2> SUFFICES ASSUME NEW e \in E
               PROVE  \E f \in Retargeted(E, i) : f.source = e.source /\ f.target = e.target
    BY DEF Covers
  <2>1. CASE e.column = "wisps" /\ e.target = i
    <3>1. EdgeOf(e.id, e.source, "issues", e.target) \in Retargeted(E, i)
      BY <2>1, RetargetedEdges
    <3> QED BY <1>0, <3>1
  <2>2. CASE ~(e.column = "wisps" /\ e.target = i)
    <3>1. e \in Retargeted(E, i)
      BY <2>2, RetargetedEdges
    <3> QED BY <3>1
  <2> QED BY <2>1, <2>2
<1> QED BY <1>1, <1>2

\* An edge of the wisp that the promotion does not insert clashes with one of
\* the table of issues, and as the keys of both are derived, that is the same edge.
LEMMA PromotionStep ==
    ASSUME TypeOK, EdgeIdsDerived, NEW i \in Ids, Promote(i), Untouched(i)
    PROVE  Graph' = Graph
<1> DEFINE P == Promoted(i)
           R == Remaining(i)
<1>1. P \in SUBSET Edge /\ R \in SUBSET Edge
  BY PartTypes
<1>2. Covers(P \cup R, AllEdges)
  <2> SUFFICES ASSUME NEW e \in AllEdges
               PROVE  \E f \in P \cup R : f.source = e.source /\ f.target = e.target
    BY DEF Covers
  <2>1. CASE e \in deps["issues"] \/ (e \in deps["wisps"] /\ e.source # i)
    BY <2>1 DEF Promoted, Remaining, Merged, Sourced
  <2>2. CASE e \in deps["wisps"] /\ e.source = i
    <3>1. CASE \A f \in deps["issues"] : ~Clash(e, f)
      BY <2>2, <3>1 DEF Promoted, Merged, Sourced
    <3>2. CASE \E f \in deps["issues"] : Clash(e, f)
      <4>1. PICK f \in deps["issues"] : Clash(e, f)
        BY <3>2
      <4>2. e.id \notin prefixed
        BY <2>2 DEF Untouched, Sourced, AllEdges
      <4>3. e.id = f.id => e.id = <<e.source, e.target>> /\ f.id = <<f.source, f.target>>
        BY <2>2, <4>2 DEF EdgeIdsDerived, Tables
      <4>4. f.source = e.source /\ f.target = e.target
        BY <4>1, <4>3 DEF Clash
      <4> QED BY <4>4 DEF Promoted, Merged
    <3> QED BY <3>1, <3>2
  <2> QED BY <2>1, <2>2 DEF AllEdges
<1>3. P \cup R \subseteq AllEdges
  BY DEF Promoted, Remaining, Merged, Sourced, AllEdges
<1>4. AllEdges' = Retargeted(P, i) \cup Retargeted(R, i)
  BY DEF Promote, AllEdges, TypeOK, Tables
<1>5. /\ Covers(P, Retargeted(P, i)) /\ Covers(Retargeted(P, i), P)
      /\ Covers(R, Retargeted(R, i)) /\ Covers(Retargeted(R, i), R)
  BY <1>1, RetargetedCovers
<1> HIDE DEF P, R
<1>6. Covers(AllEdges, AllEdges')
  BY <1>3, <1>4, <1>5 DEF Covers
<1>7. Covers(AllEdges', AllEdges)
  <2>1. Covers(AllEdges', P \cup R)
    BY <1>4, <1>5 DEF Covers
  <2> QED BY <1>2, <2>1 DEF Covers
<1> QED BY <1>6, <1>7 DEF Covers, Graph

\* Promoting a wisp moves every edge of it and loses none, although the copy
\* ignores those that the table of issues refuses, unless an edge of it has a key that
\* RenameDependencyPrefix left on an edge.
THEOREM PromotionLosesNothing == Spec => PromotionKeepsGraph
<1>1. TypeOK /\ EdgeIdsDerived /\ [Next]_vars => [\A i \in Ids : Promote(i) /\ Untouched(i) => Graph' = Graph]_vars
  BY PromotionStep
<1> QED BY <1>1, TypeCorrect, KeysFollowEnds, PTL DEF Spec, PromotionKeepsGraph

-------------------------------------------------------------------------------
(* The two tables *)

\* TablesAgree, row by row: no edge is in the wrong table, or names the wrong one.
Apart(r) == r["issues"] \cap r["wisps"] = {}

Placed(r, e, t) == t = "issues" => e.source \notin r["wisps"]
Owned(r, e, t) == t = "wisps" => e.source \notin r["issues"]
Named(r, e) == /\ e.target \in r["issues"] => e.column # "wisps"
               /\ e.target \in r["wisps"] => e.column # "issues"

Agree(r, d) ==
    /\ Apart(r)
    /\ \A t \in Tables : \A e \in d[t] : Placed(r, e, t) /\ Owned(r, e, t) /\ Named(r, e)

\* On well-formed rows and edges the two ways to say it are the same.
LEMMA AgreeIsTablesAgree ==
    ASSUME TypeOK, TypeOK'
    PROVE  (TablesAgree <=> Agree(rows, deps)) /\ (TablesAgree' <=> Agree(rows', deps'))
<1>1. \A t \in Tables : \A e \in deps[t] : e.column \in {"issues", "wisps", "external"}
  BY DEF TypeOK, Edge, Columns, Tables
<1>2. \A t \in Tables : \A e \in deps'[t] : e.column \in {"issues", "wisps", "external"}
  BY DEF TypeOK, Edge, Columns, Tables
<1>3. TablesAgree <=> Agree(rows, deps)
  BY <1>1 DEF TablesAgree, Agree, Apart, Placed, Owned, Named, Exists, TableOf, Tables
<1>4. TablesAgree' <=> Agree(rows', deps')
  BY <1>2 DEF TablesAgree, Agree, Apart, Placed, Owned, Named, Exists, TableOf, Tables
<1> QED BY <1>3, <1>4

\* What a client that does not use ids again may count on.
LEMMA FreshIsUnnamed ==
    ASSUME Reuse = FALSE, NEW i \in Ids, Fresh(i)
    PROVE  /\ i \notin rows["issues"] /\ i \notin rows["wisps"]
           /\ \A t \in Tables : \A e \in deps[t] :
                  e.source # i /\ (e.target = i => e.column = "external")
BY DEF Fresh, AllEdges, Tables

\* Less rows and less edges agree if more did.
LEMMA LessAgrees ==
    ASSUME Agree(rows, deps),
           \A t \in Tables : rows'[t] \subseteq rows[t] /\ deps'[t] \subseteq deps[t]
    PROVE  Agree(rows', deps')
BY DEF Agree, Apart, Placed, Owned, Named, Tables

\* A new row that nothing named agrees with the edges.
LEMMA CreateAgrees ==
    ASSUME TypeOK, Reuse = FALSE, Agree(rows, deps), NEW i \in Ids, NEW table \in Tables, Create(i, table)
    PROVE  Agree(rows', deps) /\ i \in rows'[table]
<1>0. rows' = [rows EXCEPT ![table] = @ \cup {i}] /\ i \in rows'[table]
  BY DEF Create, TypeOK
<1>1. CASE i \in rows[table]
  <2>1. rows' = rows
    BY <1>0, <1>1 DEF TypeOK
  <2> QED BY <1>0, <2>1
<1>2. CASE Fresh(i)
  <2>1. Apart(rows')
    BY <1>0, <1>2, FreshIsUnnamed DEF Agree, Apart, TypeOK, Tables
  <2>2. ASSUME NEW t \in Tables, NEW e \in deps[t]
        PROVE  Placed(rows', e, t) /\ Owned(rows', e, t) /\ Named(rows', e)
    <3>1. e.source # i /\ (e.target = i => e.column = "external")
      BY <1>2, FreshIsUnnamed
    <3>2. Placed(rows, e, t) /\ Owned(rows, e, t) /\ Named(rows, e)
      BY DEF Agree
    <3> QED BY <1>0, <3>1, <3>2 DEF Placed, Owned, Named, TypeOK, Tables
  <2> QED BY <1>0, <2>1, <2>2 DEF Agree
<1> QED BY <1>1, <1>2 DEF Create

\* The wisp i becomes an issue, and so does every edge of it or to it.
LEMMA PromoteAgrees ==
    ASSUME TypeOK, Agree(rows, deps), NEW i \in Ids, Promote(i)
    PROVE  Agree(rows', deps')
<1>1. /\ rows' = [rows EXCEPT !["issues"] = @ \cup {i}, !["wisps"] = @ \ {i}]
      /\ i \in rows["wisps"]
  BY DEF Promote
<1>2. /\ rows'["issues"] = rows["issues"] \cup {i}
      /\ rows'["wisps"] = rows["wisps"] \ {i}
  BY <1>1 DEF TypeOK, Tables
<1>3. /\ deps'["issues"] = Retargeted(Promoted(i), i)
      /\ deps'["wisps"] = Retargeted(Remaining(i), i)
  BY DEF Promote, TypeOK, Tables
<1>4. Promoted(i) \in SUBSET Edge /\ Remaining(i) \in SUBSET Edge
  BY PartTypes
<1>5. Apart(rows')
  BY <1>2 DEF Agree, Apart
<1>6. ASSUME NEW E \in SUBSET Edge, NEW e \in Retargeted(E, i), \A f \in E : Named(rows, f)
      PROVE  Named(rows', e)
  <2>1. CASE e \in E /\ ~(e.column = "wisps" /\ e.target = i)
    BY <1>2, <1>6, <2>1 DEF Named
  <2>2. ASSUME NEW f \in E, f.column = "wisps", f.target = i,
               e = EdgeOf(f.id, f.source, "issues", f.target)
        PROVE  Named(rows', e)
    BY <1>2, <2>2 DEF Named, EdgeOf
  <2> QED BY <2>1, <2>2, RetargetedEdges
<1>7. ASSUME NEW E \in SUBSET Edge, NEW e \in Retargeted(E, i)
      PROVE  \E f \in E : f.source = e.source
  BY <1>7, RetargetedCovers DEF Covers
<1>8. ASSUME NEW e \in deps'["issues"]
      PROVE  Placed(rows', e, "issues") /\ Owned(rows', e, "issues") /\ Named(rows', e)
  <2>1. \A f \in Promoted(i) : Named(rows, f) /\ (f.source \notin rows["wisps"] \/ f.source = i)
    BY DEF Promoted, Merged, Sourced, Agree, Placed, Tables
  <2> QED BY <1>2, <1>3, <1>4, <1>6, <1>7, <1>8, <2>1 DEF Placed, Owned
<1>9. ASSUME NEW e \in deps'["wisps"]
      PROVE  Placed(rows', e, "wisps") /\ Owned(rows', e, "wisps") /\ Named(rows', e)
  <2>1. \A f \in Remaining(i) : Named(rows, f) /\ f.source \notin rows["issues"] /\ f.source # i
    BY DEF Remaining, Sourced, Agree, Owned, Tables
  <2> QED BY <1>2, <1>3, <1>4, <1>6, <1>7, <1>9, <2>1 DEF Placed, Owned
<1> QED BY <1>5, <1>8, <1>9 DEF Agree, Tables

\* What holds of the edges once a row of the table is renamed.
Followed(table, o, n) ==
    \A t \in Tables : \A e \in TargetRenamed(deps[t], table, o, n) :
        Named(rows', e) /\ \E f \in deps[t] : f.source = e.source

\* A row of the table gets a fresh id: the edges to it follow, with their sources.
LEMMA TargetsFollow ==
    ASSUME TypeOK, Reuse = FALSE, Agree(rows, deps),
           NEW table \in Tables, NEW o \in Ids, NEW n \in Ids, RenameRow(table, o, n)
    PROVE  Followed(table, o, n)
<1> SUFFICES ASSUME NEW t \in Tables, NEW e \in TargetRenamed(deps[t], table, o, n)
             PROVE  Named(rows', e) /\ \E f \in deps[t] : f.source = e.source
  BY DEF Followed
<1>1. rows' = [rows EXCEPT ![table] = (@ \ {o}) \cup {n}] /\ Fresh(n)
  BY DEF RenameRow
<1>2. \A f \in deps[t] : Named(rows, f) /\ (f.target = n => f.column = "external")
  BY <1>1, FreshIsUnnamed DEF Agree
<1>3. n \notin rows["issues"] /\ n \notin rows["wisps"]
  BY <1>1, FreshIsUnnamed
<1>4. deps[t] \in SUBSET Edge
  BY DEF TypeOK
<1>5. CASE e \in deps[t] /\ ~(e.target = o /\ e.column # "external")
  <2>1. Named(rows, e) /\ (e.target = n => e.column = "external")
    BY <1>2, <1>5
  <2> QED BY <1>1, <1>5, <2>1 DEF Named, TypeOK, Tables
<1>6. ASSUME NEW f \in deps[t], e = NewEdge(f.source, n, table)
      PROVE  Named(rows', e) /\ \E g \in deps[t] : g.source = e.source
  <2>1. e.target = n /\ e.column = table /\ e.source = f.source
    BY <1>6 DEF NewEdge
  <2> QED BY <1>1, <1>3, <2>1 DEF Named, TypeOK, Tables
<1> QED BY <1>4, <1>5, <1>6, RenamedEdges

\* A renamed wisp leaves its own edges at an id without a row, and takes those to it.
LEMMA RenameWispAgrees ==
    ASSUME TypeOK, Reuse = FALSE, Agree(rows, deps),
           NEW o \in Ids, NEW n \in Ids, RenameWisp(o, n)
    PROVE  Agree(rows', deps')
<1>0. "wisps" \in Tables
  BY DEF Tables
<1>1. RenameRow("wisps", o, n) /\ Fresh(n)
  BY DEF RenameWisp, RenameRow
<1>2. rows'["issues"] = rows["issues"] /\ rows'["wisps"] = (rows["wisps"] \ {o}) \cup {n}
  BY DEF RenameWisp, RenameRow, TypeOK, Tables
<1>3. Apart(rows')
  BY <1>1, <1>2, FreshIsUnnamed DEF Agree, Apart
<1>4. \A t \in Tables : \A e \in TargetRenamed(deps[t], "wisps", o, n) :
          Named(rows', e) /\ \E f \in deps[t] : f.source = e.source
  <2>1. Followed("wisps", o, n)
    BY <1>0, <1>1, TargetsFollow
  <2> QED BY <2>1 DEF Followed
<1>5. ASSUME NEW t \in Tables, NEW e \in deps'[t]
      PROVE  Placed(rows', e, t) /\ Owned(rows', e, t) /\ Named(rows', e)
  <2>1. e \in TargetRenamed(deps[t], "wisps", o, n)
    BY <1>5 DEF RenameWisp
  <2>2. Named(rows', e) /\ \E f \in deps[t] : f.source = e.source
    BY <1>4, <2>1
  <2>3. PICK f \in deps[t] : f.source = e.source
    BY <2>2
  <2>4. Placed(rows, f, t) /\ Owned(rows, f, t) /\ f.source # n
    BY <1>1, FreshIsUnnamed DEF Agree
  <2> QED BY <1>2, <2>2, <2>3, <2>4 DEF Placed, Owned
<1> QED BY <1>3, <1>5 DEF Agree

\* A renamed issue takes its edges and those to it.
LEMMA RenameIssueAgrees ==
    ASSUME TypeOK, Reuse = FALSE, Agree(rows, deps),
           NEW o \in Ids, NEW n \in Ids, RenameIssue(o, n)
    PROVE  Agree(rows', deps')
<1> DEFINE E == TargetRenamed(deps["issues"], "issues", o, n)
<1>0. "issues" \in Tables /\ "wisps" \in Tables
  BY DEF Tables
<1>1. RenameRow("issues", o, n) /\ Fresh(n)
  BY DEF RenameIssue, RenameRow
<1>2. rows'["issues"] = (rows["issues"] \ {o}) \cup {n} /\ rows'["wisps"] = rows["wisps"]
  BY <1>1 DEF RenameRow, TypeOK, Tables
<1>3. /\ deps'["issues"] = SourceRekeyed(E, o, n)
      /\ deps'["wisps"] = TargetRenamed(deps["wisps"], "issues", o, n)
  BY DEF RenameIssue, TypeOK, Tables
<1>4. n \notin rows["wisps"] /\ n \notin rows["issues"]
  BY <1>1, FreshIsUnnamed
<1>5. Apart(rows')
  BY <1>2, <1>4 DEF Agree, Apart
<1>6. \A t \in Tables : \A e \in TargetRenamed(deps[t], "issues", o, n) :
          Named(rows', e) /\ \E f \in deps[t] : f.source = e.source
  <2>1. Followed("issues", o, n)
    BY <1>0, <1>1, TargetsFollow
  <2> QED BY <2>1 DEF Followed
<1>7. \A f \in E : Named(rows', f) /\ f.source \notin rows["wisps"]
  <2>1. \A f \in deps["issues"] : f.source \notin rows["wisps"]
    BY DEF Agree, Placed, Tables
  <2> QED BY <1>0, <1>6, <2>1
<1>8. ASSUME NEW e \in deps'["issues"]
      PROVE  Placed(rows', e, "issues") /\ Owned(rows', e, "issues") /\ Named(rows', e)
  <2>1. E \in SUBSET Edge
    BY PartTypes
  <2>2. e \in E \/ \E f \in E : e = NewEdge(n, f.target, f.column)
    <3>1. Stale(E, o, n) \subseteq E
      BY DEF Stale
    <3> HIDE DEF E
    <3> QED BY <1>3, <1>8, <2>1, <3>1, RekeyedEdges
  <2>3. CASE e \in E
    BY <1>2, <1>7, <2>3 DEF Placed, Owned
  <2>4. ASSUME NEW f \in E, e = NewEdge(n, f.target, f.column)
        PROVE  Placed(rows', e, "issues") /\ Owned(rows', e, "issues") /\ Named(rows', e)
    <3>1. e.source = n /\ e.target = f.target /\ e.column = f.column
      BY <2>4 DEF NewEdge
    <3> QED BY <1>2, <1>4, <1>7, <3>1 DEF Placed, Owned, Named
  <2> QED BY <2>2, <2>3, <2>4
<1>9. ASSUME NEW e \in deps'["wisps"]
      PROVE  Placed(rows', e, "wisps") /\ Owned(rows', e, "wisps") /\ Named(rows', e)
  <2>1. Named(rows', e) /\ \E f \in deps["wisps"] : f.source = e.source
    <3>1. e \in TargetRenamed(deps["wisps"], "issues", o, n)
      BY <1>3, <1>9
    <3> QED BY <1>0, <1>6, <3>1
  <2>2. PICK f \in deps["wisps"] : f.source = e.source
    BY <2>1
  <2>3. f.source \notin rows["issues"] /\ f.source # n
    BY <1>1, FreshIsUnnamed DEF Agree, Owned, Tables
  <2> QED BY <1>2, <2>1, <2>2, <2>3 DEF Placed, Owned
<1> QED BY <1>5, <1>8, <1>9 DEF Agree, Tables

\* Edges that get another prefix name a row of the table they are in and name, or no row.
LEMMA PrefixAgrees ==
    ASSUME TypeOK, Agree(rows, deps), NEW o \in Ids, NEW n \in Ids, RenameDependencyPrefix(o, n)
    PROVE  Agree(rows', deps')
<1> SUFFICES ASSUME NEW t \in Tables, NEW e \in deps'[t]
             PROVE  Placed(rows, e, t) /\ Owned(rows, e, t) /\ Named(rows, e)
  BY DEF RenameDependencyPrefix, Agree
<1>1. e \in deps[t] \/ \E f \in deps[t] : e = Reprefixed(f, o, n)
  <2>1. e \in Replace(deps[t], Reprefixing(deps[t], o, n)) /\ deps[t] \in SUBSET Edge
    BY DEF RenameDependencyPrefix, TypeOK
  <2> QED BY <2>1, ReprefixedEdges
<1>2. CASE e \in deps[t]
  BY <1>2 DEF Agree
<1>3. ASSUME NEW f \in deps[t], e = Reprefixed(f, o, n)
      PROVE  Placed(rows, e, t) /\ Owned(rows, e, t) /\ Named(rows, e)
  <2>1. /\ e.source = (IF f.source = o THEN n ELSE f.source) /\ e.column = f.column
        /\ e.target = (IF f.target = o /\ f.column # "external" THEN n ELSE f.target)
    BY <1>3 DEF Reprefixed
  <2>2. Placed(rows, f, t) /\ Owned(rows, f, t) /\ Named(rows, f) /\ Apart(rows)
    BY DEF Agree
  <2>3. Exists(n) /\ f.source = o => t = TableOf(n)
    BY DEF RenameDependencyPrefix, Suits, Sourced
  <2>4. Exists(n) /\ f.target = o /\ f.column # "external" => f.column = TableOf(n)
    BY DEF RenameDependencyPrefix, Suits, ToRow, AllEdges, Tables
  <2>5. /\ n \in rows["issues"] => Exists(n) /\ TableOf(n) = "issues"
        /\ n \in rows["wisps"] => Exists(n) /\ TableOf(n) = "wisps"
    BY <2>2 DEF Exists, TableOf, Apart
  <2>6. Placed(rows, e, t) /\ Owned(rows, e, t)
    BY <2>1, <2>2, <2>3, <2>5 DEF Placed, Owned
  <2>7. Named(rows, e)
    BY <2>1, <2>2, <2>4, <2>5 DEF Named
  <2> QED BY <2>6, <2>7
<1> QED BY <1>1, <1>2, <1>3

LEMMA EditAgrees ==
    ASSUME TypeOK, Reuse = FALSE, Agree(rows, deps), Edit
    PROVE  Agree(rows', deps')
<1>1. ASSUME NEW s \in Ids, NEW t \in Ids, AddDependency(s, t)
      PROVE  Agree(rows', deps')
  <2> DEFINE new == NewEdge(s, t, ColumnOf(s, t))
  <2>1. new.source = s /\ new.target = t /\ new.column = ColumnOf(s, t)
    BY DEF NewEdge
  <2>2. rows' = rows /\ deps' = [deps EXCEPT ![TableOf(s)] = @ \cup {new}]
    BY <1>1 DEF AddDependency
  <2> HIDE DEF new
  <2>3. s \in rows[TableOf(s)]
    BY <1>1 DEF AddDependency, Exists
  <2>4. Placed(rows, new, TableOf(s)) /\ Owned(rows, new, TableOf(s)) /\ Named(rows, new)
    BY <2>1, <2>3 DEF Placed, Owned, Named, ColumnOf, TableOf, Agree, Apart
  <2> QED BY <2>2, <2>4 DEF Agree, TypeOK
<1>2. ASSUME NEW s \in Ids, NEW t \in Ids, RemoveDependency(s, t)
      PROVE  Agree(rows', deps')
  BY <1>2, LessAgrees, PartTypes DEF RemoveDependency, TypeOK
<1>3. ASSUME NEW i \in Ids, NEW table \in Tables, CreateIssue(i, table)
      PROVE  Agree(rows', deps')
  BY <1>3, CreateAgrees DEF CreateIssue
<1>4. ASSUME NEW i \in Ids, NEW table \in Tables, NEW t \in Ids, CreateWithEdge(i, table, t)
      PROVE  Agree(rows', deps')
  <2> DEFINE column == IF t \in rows'["wisps"] THEN "wisps" ELSE "issues"
             new    == NewEdge(i, t, column)
  <2>1. new.source = i /\ new.target = t /\ new.column = column
    BY DEF NewEdge
  <2>2. deps' = deps \/ deps' = [deps EXCEPT ![table] = @ \cup {new}]
    BY <1>4 DEF CreateWithEdge
  <2>3. Agree(rows', deps) /\ i \in rows'[table]
    BY <1>4, CreateAgrees DEF CreateWithEdge
  <2> HIDE DEF new
  <2>4. Placed(rows', new, table) /\ Owned(rows', new, table) /\ Named(rows', new)
    BY <2>1, <2>3 DEF Placed, Owned, Named, Agree, Apart, Tables
  <2> HIDE DEF column
  <2> QED BY <2>2, <2>3, <2>4 DEF Agree, TypeOK
<1>5. ASSUME NEW I, NEW W, RemoveRows(I, W)
      PROVE  Agree(rows', deps')
  <2>1. \A t \in Tables : rows'[t] \subseteq rows[t] /\ deps'[t] \subseteq deps[t]
    BY <1>5 DEF RemoveRows, WithoutWispTargets, TypeOK, Tables
  <2> QED BY <2>1, LessAgrees
<1>6. ASSUME NEW i \in Ids, Delete(i)
      PROVE  Agree(rows', deps')
  BY <1>5, <1>6 DEF Delete
<1>7. ASSUME NEW ids \in SUBSET Ids,
             DeleteIssuesBySourceRepo(ids) \/ \E cascade, force \in BOOLEAN : DeleteIssues(ids, cascade, force)
      PROVE  Agree(rows', deps')
  BY <1>5, <1>7 DEF DeleteIssuesBySourceRepo, DeleteIssues
<1>8. \A i \in Ids : Promote(i) => Agree(rows', deps')
  BY PromoteAgrees
<1>9. \A o, n \in Ids : RenameIssue(o, n) \/ RenameWisp(o, n) => Agree(rows', deps')
  BY RenameIssueAgrees, RenameWispAgrees
<1> QED
  BY <1>1, <1>2, <1>3, <1>4, <1>6, <1>7, <1>8, <1>9 DEF Edit

\* Every step keeps rows and edges in agreement, if no id is used twice.
LEMMA AgreePreserved ==
    ASSUME TypeOK, Reuse = FALSE, Agree(rows, deps), [Next]_vars
    PROVE  Agree(rows', deps')
<1>1. CASE UNCHANGED vars
  BY <1>1 DEF vars, Agree
<1> QED BY <1>1, EditAgrees, PrefixAgrees DEF Next

\* As long as clients use no id twice: an id is in one table, its edges are in
\* the table that goes with it, and edges name the table it is in.
THEOREM TablesStayApart ==
    ASSUME Reuse = FALSE
    PROVE  Spec => []TablesAgree
<1>1. Init => TablesAgree
  BY DEF Init, TablesAgree, Tables
<1>2. TypeOK /\ TablesAgree /\ [Next]_vars => TablesAgree'
  <2> SUFFICES ASSUME TypeOK, TablesAgree, [Next]_vars
               PROVE  TablesAgree'
    OBVIOUS
  <2>1. TypeOK'
    BY TypePreserved
  <2>2. Agree(rows, deps)
    BY <2>1, AgreeIsTablesAgree
  <2>3. Agree(rows', deps')
    BY <2>2, AgreePreserved
  <2> QED BY <2>1, <2>3, AgreeIsTablesAgree
<1> QED BY <1>1, <1>2, TypeCorrect, PTL DEF Spec

-------------------------------------------------------------------------------
(* Deletion *)

\* The search for dependents ends with all of them.
LEMMA DependentsClosed ==
    ASSUME NEW S \in SUBSET Ids, NEW e \in AllEdges, e.source \in Ids, e.target \in AllDependents(S)
    PROVE  e.source \in AllDependents(S)
<1> SUFFICES ASSUME NEW T \in SUBSET Ids, S \subseteq T, \A j \in T : Dependents(j) \subseteq T
             PROVE  e.source \in T
  BY DEF AllDependents
<1>1. e.target \in T
  BY DEF AllDependents
<1>2. e.source \in Dependents(e.target)
  BY DEF Dependents
<1> QED BY <1>1, <1>2

\* Whoever depends on an issue that goes is listed, or found by the search: it
\* goes as well, from the only table it is in.
LEMMA DeletionStep ==
    ASSUME TypeOK, TypeOK', Agree(rows, deps), NEW ids \in SUBSET Ids, NEW cascade \in BOOLEAN,
           DeleteIssues(ids, cascade, FALSE),
           NEW e \in AllEdges', Exists(e.source)', e.target \in rows["issues"]
    PROVE  e.target \in rows'["issues"]
<1> DEFINE listed   == ids \cap rows["wisps"]
           regular  == ids \ listed
           expanded == IF cascade THEN AllDependents(regular) ELSE regular
           cascaded == expanded \cap rows["wisps"]
<1>1. RemoveRows(expanded \ cascaded, listed \cup cascaded)
  BY DEF DeleteIssues
<1>2. /\ rows'["issues"] = rows["issues"] \ (expanded \ cascaded)
      /\ rows'["wisps"] = rows["wisps"] \ (listed \cup cascaded)
      /\ deps'["issues"] \subseteq deps["issues"] /\ deps'["wisps"] = deps["wisps"]
  BY <1>1 DEF RemoveRows, WithoutWispTargets, TypeOK, Tables
<1>3. e \in AllEdges
  BY <1>2 DEF AllEdges
<1>4. e.source \in Ids
  BY <1>3 DEF AllEdges, TypeOK, Tables, Edge
<1>5. e.source \in rows'["issues"] \/ e.source \in rows'["wisps"]
  BY DEF Exists, TableOf
<1>6. SUFFICES ASSUME e.target \in expanded
               PROVE  FALSE
  BY <1>2
<1>7. e.source \in ids \cup expanded
  <2>1. CASE cascade
    <3>1. regular \in SUBSET Ids
      OBVIOUS
    <3>2. e.target \in AllDependents(regular)
      BY <1>6, <2>1
    <3>3. e.source \in AllDependents(regular)
      BY <1>3, <1>4, <3>1, <3>2, DependentsClosed
    <3> QED BY <2>1, <3>3
  <2>2. CASE ~cascade
    <3>1. e.target \in regular
      BY <1>6, <2>2
    <3>2. Dependents(e.target) \subseteq ids
      BY <2>2, <3>1 DEF DeleteIssues
    <3>3. e.source \in Dependents(e.target)
      BY <1>3 DEF Dependents
    <3> QED BY <3>2, <3>3
  <2> QED BY <2>1, <2>2
<1>8. ~(e.source \in rows["issues"] /\ e.source \in rows["wisps"])
  BY DEF Agree, Apart
<1>9. ids \subseteq listed \cup expanded
  <2>1. CASE cascade
    BY <2>1 DEF AllDependents
  <2>2. CASE ~cascade
    BY <2>2
  <2> QED BY <2>1, <2>2
<1>10. e.source \in listed \cup expanded
  BY <1>7, <1>9
<1> HIDE DEF expanded
<1> QED BY <1>2, <1>5, <1>8, <1>10

\* A deletion that is not forced leaves no row depending on an issue it deletes.
THEOREM DeletionOrphansNobody ==
    ASSUME Reuse = FALSE
    PROVE  Spec => NoNewOrphans
<1>1. TypeOK /\ TypeOK' /\ TablesAgree /\ [Next]_vars =>
          [Orphaned # {} => \A ids \in SUBSET Ids, cascade \in BOOLEAN :
                               ~DeleteIssues(ids, cascade, FALSE)]_vars
  BY DeletionStep, AgreeIsTablesAgree DEF Orphaned
<1> QED BY <1>1, TypeCorrect, TablesStayApart, PTL DEF Spec, NoNewOrphans

-------------------------------------------------------------------------------
(* Renaming *)

Moved(o, n, i) == IF i = o THEN n ELSE i

\* g is f with other ends, and neither is external.
Maps(f, g, s, t) == /\ f.column # "external" /\ g.column # "external"
                    /\ g.source = s /\ g.target = t

\* Renaming the targets in one table.
LEMMA TargetsMapped ==
    ASSUME NEW E \in SUBSET Edge, NEW o \in Ids, NEW n \in Ids,
           \A f \in E : f.target = n => f.column = "external"
    PROVE  LET R == TargetRenamed(E, "issues", o, n)
           IN  /\ \A f \in E : f.column # "external" =>
                      \E g \in R : Maps(f, g, f.source, Moved(o, n, f.target))
               /\ \A g \in R : g.column # "external" =>
                      \E f \in E : Maps(f, g, f.source, Moved(o, n, f.target))
<1> DEFINE R == TargetRenamed(E, "issues", o, n)
<1>0. "issues" \in Tables
  BY DEF Tables
<1>1. \A f \in E : /\ NewEdge(f.source, n, "issues").source = f.source
                  /\ NewEdge(f.source, n, "issues").target = n
                  /\ NewEdge(f.source, n, "issues").column = "issues"
  BY DEF NewEdge
<1>2. ASSUME NEW f \in E, f.column # "external"
      PROVE  \E g \in R : Maps(f, g, f.source, Moved(o, n, f.target))
  <2>1. CASE f.target = o
    <3>1. NewEdge(f.source, n, "issues") \in R
      BY <1>0, <1>2, <2>1, RenamedEdges
    <3> QED BY <1>1, <1>2, <2>1, <3>1 DEF Maps, Moved
  <2>2. CASE f.target # o
    <3>1. f \in R
      BY <1>0, <2>2, RenamedEdges
    <3> HIDE DEF R
    <3> QED BY <1>2, <2>2, <3>1 DEF Maps, Moved
  <2> QED BY <2>1, <2>2
<1>3. ASSUME NEW g \in R, g.column # "external"
      PROVE  \E f \in E : Maps(f, g, f.source, Moved(o, n, f.target))
  <2>1. \/ g \in E /\ ~(g.target = o /\ g.column # "external")
        \/ \E f \in E : /\ f.target = o /\ f.column # "external"
                        /\ g = NewEdge(f.source, n, "issues")
    BY <1>0, RenamedEdges
  <2>2. CASE g \in E /\ ~(g.target = o /\ g.column # "external")
    BY <1>3, <2>2 DEF Maps, Moved
  <2>3. ASSUME NEW f \in E, f.target = o, f.column # "external", g = NewEdge(f.source, n, "issues")
        PROVE  \E h \in E : Maps(h, g, h.source, Moved(o, n, h.target))
    BY <1>1, <2>3 DEF Maps, Moved
  <2> QED BY <2>1, <2>2, <2>3
<1> QED BY <1>2, <1>3

\* Renaming the sources in the table of issues, when no edge has its new key already.
LEMMA SourcesMapped ==
    ASSUME NEW E \in SUBSET Edge, NEW o \in Ids, NEW n \in Ids, o # n,
           \A f \in E : f.source # n /\ (f.source = o => f.id # <<n, f.target>>)
    PROVE  LET R == SourceRekeyed(E, o, n)
           IN  /\ \A f \in E : f.column # "external" =>
                      \E g \in R : Maps(f, g, Moved(o, n, f.source), f.target)
               /\ \A g \in R : g.column # "external" =>
                      \E f \in E : Maps(f, g, Moved(o, n, f.source), f.target)
<1> DEFINE R == SourceRekeyed(E, o, n)
<1>1. \A f \in E : f \in Stale(E, o, n) <=> f.source = o
  BY DEF Stale
<1>2. Stale(E, o, n) \subseteq E
  BY DEF Stale
<1>3. \A f \in E : /\ NewEdge(n, f.target, f.column).source = n
                  /\ NewEdge(n, f.target, f.column).target = f.target
                  /\ NewEdge(n, f.target, f.column).column = f.column
  BY DEF NewEdge
<1>4. ASSUME NEW f \in E, f.column # "external"
      PROVE  \E g \in R : Maps(f, g, Moved(o, n, f.source), f.target)
  <2>1. CASE f.source = o
    <3>1. NewEdge(n, f.target, f.column) \in R
      BY <1>1, <2>1, RekeyedEdges
    <3> QED BY <1>3, <1>4, <2>1, <3>1 DEF Maps, Moved
  <2>2. CASE f.source # o
    <3>1. f \in R
      BY <1>1, <2>2, RekeyedEdges
    <3> HIDE DEF R
    <3> QED BY <1>4, <2>2, <3>1 DEF Maps, Moved
  <2> QED BY <2>1, <2>2
<1>5. ASSUME NEW g \in R, g.column # "external"
      PROVE  \E f \in E : Maps(f, g, Moved(o, n, f.source), f.target)
  <2>1. \/ g \in E /\ g \notin Stale(E, o, n)
        \/ \E f \in Stale(E, o, n) : g = NewEdge(n, f.target, f.column)
    BY RekeyedEdges
  <2>2. CASE g \in E /\ g \notin Stale(E, o, n)
    BY <1>1, <1>5, <2>2 DEF Maps, Moved
  <2>3. ASSUME NEW f \in Stale(E, o, n), g = NewEdge(n, f.target, f.column)
        PROVE  \E h \in E : Maps(h, g, Moved(o, n, h.source), h.target)
    <3>1. f \in E /\ f.source = o
      BY <1>1, <1>2
    <3> QED BY <1>3, <1>5, <2>3, <3>1 DEF Maps, Moved
  <2> QED BY <2>1, <2>2, <2>3
<1> QED BY <1>4, <1>5

\* The edges of the issue are all in the table that is rekeyed, those of the
\* fresh id are none, and the sources that exist are the same but for the id.
LEMMA RenameStep ==
    ASSUME TypeOK, EdgeIdsDerived, Reuse = FALSE, Agree(rows, deps),
           NEW o \in Ids, NEW n \in Ids, RenameIssue(o, n), Untouched(o)
    PROVE  Live' = {<<Moved(o, n, p[1]), Moved(o, n, p[2])>> : p \in Live}
<1> DEFINE E == TargetRenamed(deps["issues"], "issues", o, n)
           W == TargetRenamed(deps["wisps"], "issues", o, n)
           S == SourceRekeyed(E, o, n)
<1>0. "issues" \in Tables /\ "wisps" \in Tables
  BY DEF Tables
<1>1. Fresh(n) /\ o # n /\ o \in rows["issues"]
  BY DEF RenameIssue, RenameRow
<1>2. rows'["issues"] = (rows["issues"] \ {o}) \cup {n} /\ rows'["wisps"] = rows["wisps"]
  BY DEF RenameIssue, RenameRow, TypeOK, Tables
<1>3. AllEdges' = S \cup W
  BY DEF RenameIssue, AllEdges, TypeOK, Tables
<1>4. /\ deps["issues"] \in SUBSET Edge /\ deps["wisps"] \in SUBSET Edge /\ E \in SUBSET Edge
  BY PartTypes, <1>0
<1>5. \A f \in E : f.source = o => f.id # <<n, f.target>>
  <2>1. \A f \in deps["issues"] : f.source = o => f.id = <<o, f.target>>
    BY <1>0 DEF EdgeIdsDerived, Untouched, Sourced, AllEdges
  <2>2. \A f \in deps["issues"] : /\ NewEdge(f.source, n, "issues").source = f.source
                                 /\ NewEdge(f.source, n, "issues").target = n
                                 /\ NewEdge(f.source, n, "issues").id = <<f.source, n>>
    BY DEF NewEdge
  <2>3. \A f \in E : f \in deps["issues"] \/ \E g \in deps["issues"] : f = NewEdge(g.source, n, "issues")
    BY <1>0, <1>4, RenamedEdges
  <2> HIDE DEF E
  <2> QED BY <1>1, <2>1, <2>2, <2>3
<1>6. \A t \in Tables : \A f \in deps[t] : f.source # n /\ (f.target = n => f.column = "external")
  BY <1>1, FreshIsUnnamed
<1>7. \A f \in E : f.source # n
  <2>1. \A f \in deps["issues"] : NewEdge(f.source, n, "issues").source = f.source
    BY DEF NewEdge
  <2> QED BY <1>0, <1>4, <1>6, <2>1, RenamedEdges
<1>8. \A f \in deps["wisps"] : f.source # o
  BY <1>0, <1>1 DEF Agree, Owned
<1>9. /\ \A f \in deps["issues"] : f.column # "external" =>
            \E g \in E : Maps(f, g, f.source, Moved(o, n, f.target))
      /\ \A g \in E : g.column # "external" =>
            \E f \in deps["issues"] : Maps(f, g, f.source, Moved(o, n, f.target))
  BY <1>0, <1>4, <1>6, TargetsMapped
<1>10. /\ \A f \in deps["wisps"] : f.column # "external" =>
             \E g \in W : Maps(f, g, f.source, Moved(o, n, f.target))
       /\ \A g \in W : g.column # "external" =>
             \E f \in deps["wisps"] : Maps(f, g, f.source, Moved(o, n, f.target))
  BY <1>0, <1>4, <1>6, TargetsMapped
<1>11. /\ \A f \in E : f.column # "external" =>
             \E g \in S : Maps(f, g, Moved(o, n, f.source), f.target)
       /\ \A g \in S : g.column # "external" =>
             \E f \in E : Maps(f, g, Moved(o, n, f.source), f.target)
  BY <1>1, <1>4, <1>5, <1>7, SourcesMapped
<1> HIDE DEF E, W, S
<1>12. ASSUME NEW f \in AllEdges, f.column # "external"
       PROVE  \E g \in AllEdges' : Maps(f, g, Moved(o, n, f.source), Moved(o, n, f.target))
  <2>1. CASE f \in deps["issues"]
    <3>1. PICK g \in E : Maps(f, g, f.source, Moved(o, n, f.target))
      BY <1>9, <1>12, <2>1
    <3>2. PICK h \in S : Maps(g, h, Moved(o, n, g.source), g.target)
      BY <1>11, <3>1 DEF Maps
    <3> QED BY <1>3, <3>1, <3>2 DEF Maps
  <2>2. CASE f \in deps["wisps"]
    <3>1. PICK g \in W : Maps(f, g, f.source, Moved(o, n, f.target))
      BY <1>10, <1>12, <2>2
    <3> QED BY <1>3, <1>8, <2>2, <3>1 DEF Maps, Moved
  <2> QED BY <2>1, <2>2 DEF AllEdges
<1>13. ASSUME NEW g \in AllEdges', g.column # "external"
       PROVE  \E f \in AllEdges : Maps(f, g, Moved(o, n, f.source), Moved(o, n, f.target))
  <2>1. CASE g \in S
    <3>1. PICK e \in E : Maps(e, g, Moved(o, n, e.source), e.target)
      BY <1>11, <1>13, <2>1
    <3>2. PICK f \in deps["issues"] : Maps(f, e, f.source, Moved(o, n, f.target))
      BY <1>9, <3>1 DEF Maps
    <3> QED BY <3>1, <3>2 DEF Maps, AllEdges
  <2>2. CASE g \in W
    <3>1. PICK f \in deps["wisps"] : Maps(f, g, f.source, Moved(o, n, f.target))
      BY <1>10, <1>13, <2>2
    <3> QED BY <1>8, <3>1 DEF Maps, Moved, AllEdges
  <2> QED BY <1>3, <2>1, <2>2
<1>14. \A i \in Ids : i # n => (Exists(i) <=> Exists(Moved(o, n, i))')
  <2>1. o \notin rows["wisps"] /\ n \notin rows["wisps"] /\ n \notin rows["issues"]
    BY <1>1, FreshIsUnnamed DEF RenameIssue
  <2> QED BY <1>1, <1>2, <2>1 DEF Exists, TableOf, Moved
<1>15. \A f \in AllEdges : f.source \in Ids /\ f.source # n
  BY <1>0, <1>4, <1>6 DEF AllEdges, Edge
<1>16. \A f \in AllEdges, g \in AllEdges' :
           Maps(f, g, Moved(o, n, f.source), Moved(o, n, f.target)) => (Exists(f.source) <=> Exists(g.source)')
  BY <1>14, <1>15 DEF Maps
<1>17. ASSUME NEW q \in Live
       PROVE  <<Moved(o, n, q[1]), Moved(o, n, q[2])>> \in Live'
  <2>1. PICK f \in AllEdges : q = <<f.source, f.target>> /\ Exists(f.source) /\ f.column # "external"
    BY <1>17 DEF Live
  <2>2. PICK g \in AllEdges' : Maps(f, g, Moved(o, n, f.source), Moved(o, n, f.target))
    BY <1>12, <2>1
  <2>3. Exists(g.source)'
    BY <1>16, <2>1, <2>2
  <2> QED BY <2>1, <2>2, <2>3 DEF Live, Maps
<1>18. ASSUME NEW q \in Live'
       PROVE  \E p \in Live : q = <<Moved(o, n, p[1]), Moved(o, n, p[2])>>
  <2>1. PICK g \in AllEdges' : q = <<g.source, g.target>> /\ Exists(g.source)' /\ g.column # "external"
    BY <1>18 DEF Live
  <2>2. PICK f \in AllEdges : Maps(f, g, Moved(o, n, f.source), Moved(o, n, f.target))
    BY <1>13, <2>1
  <2>3. <<f.source, f.target>> \in Live
    BY <1>16, <2>1, <2>2 DEF Live, Maps
  <2> QED BY <2>1, <2>2, <2>3 DEF Maps
<1> QED BY <1>17, <1>18

\* Renaming an issue changes its id in the graph of rows that exist and of edges
\* that follow it, and nothing else, unless an edge of it has a key that
\* RenameDependencyPrefix left on an edge.
THEOREM RenamingKeepsGraph ==
    ASSUME Reuse = FALSE
    PROVE  Spec => RenameKeepsGraph
<1>1. TypeOK /\ TypeOK' /\ EdgeIdsDerived /\ TablesAgree /\ [Next]_vars =>
          [\A o, n \in Ids : RenameIssue(o, n) /\ Untouched(o) =>
              LET New(i) == IF i = o THEN n ELSE i
              IN  Live' = {<<New(p[1]), New(p[2])>> : p \in Live}]_vars
  <2> SUFFICES ASSUME TypeOK, TypeOK', EdgeIdsDerived, TablesAgree,
                      NEW o \in Ids, NEW n \in Ids, RenameIssue(o, n), Untouched(o)
               PROVE  Live' = {<<IF p[1] = o THEN n ELSE p[1], IF p[2] = o THEN n ELSE p[2]>> : p \in Live}
    OBVIOUS
  <2>1. Agree(rows, deps)
    BY AgreeIsTablesAgree
  <2>2. Live' = {<<Moved(o, n, p[1]), Moved(o, n, p[2])>> : p \in Live}
    BY <2>1, RenameStep
  <2> QED BY <2>2 DEF Moved
<1> QED BY <1>1, TypeCorrect, KeysFollowEnds, TablesStayApart, PTL DEF Spec, RenameKeepsGraph

-------------------------------------------------------------------------------
(* The invariant of the searches for cycles *)

\* What dfs has returned from.
Left == visited \ OnPath

\* The edge from i to j was recorded with a cycle, if both have a row.
Recorded(i, j) == {i, j} \subseteq existing => \E c \in cycles : {i, j} \subseteq c

\* The path goes along edges, to no id twice.
PathInv ==
    /\ OnPath \subseteq visited
    /\ \A m, n \in DOMAIN path : m < n => path[m] # path[n] /\ Leads(graph, path[m], path[n])
    /\ \A n \in DOMAIN path : n > 1 => <<path[n - 1], path[n]>> \in graph
    /\ \A n \in DOMAIN path : ahead[path[n]] \subseteq After(path[n])

\* Each edge that was looked at leads to what was left before, or further along the
\* path, or has been recorded; and of what was left each ring has a recorded edge.
DeepInv ==
    /\ PathInv
    /\ \A i \in Left : \A j \in After(i) : j \in Left \/ Recorded(i, j)
    /\ \A n \in DOMAIN path : \A j \in After(path[n]) \ ahead[path[n]] :
           \/ j \in Left \/ Recorded(path[n], j)
           \/ n < Len(path) /\ path[n + 1] = j
    /\ \A S \in SUBSET Left : S # {} => \E i \in S : \A j \in S \cap After(i) : Recorded(i, j)
    /\ ReportedCyclesExist
    /\ phase = "detected" => path = <<>> /\ \A i \in Nodes : After(i) # {} => i \in visited

Seen == {i \in Nodes : parent[i] # Unseen}

\* The search for the edge of this turn: what it has seen can be reached, and all
\* neighbours of what it is through with have been seen.
LevelInv ==
    /\ turn \in DOMAIN asked /\ asked[turn] \in graph /\ goal # start
    /\ \A i \in Seen : /\ Leads(graph, start, i)
                       /\ IF i = start THEN parent[i] = NoParent
                          ELSE parent[i] \in Seen /\ <<parent[i], i>> \in graph
    /\ start \in Seen
    /\ phase # "path" =>
           /\ goal \notin Seen /\ answer = <<>>
           /\ \A n \in DOMAIN queue : queue[n] \in Seen
           /\ \A i \in Seen : \/ After(i) \subseteq Seen
                              \/ \E n \in DOMAIN queue : queue[n] = i
                              \/ phase = "neighbors" /\ i = node /\ After(i) \ ahead[i] \subseteq Seen
           /\ phase = "neighbors" => node \in Seen /\ ahead[node] \subseteq After(node)

\* The part of the path that is put together.
Walk(s) == \A n \in 1..(Len(s) - 1) : <<s[n], s[n + 1]>> \in graph

PathBackInv ==
    /\ answer # <<>> /\ answer[Len(answer)] = goal /\ Walk(answer)
    /\ goal \in Seen
    /\ IF node = NoParent THEN answer[1] = start
       ELSE node \in Seen /\ <<node, answer[1]>> \in graph

BroadInv ==
    /\ \A n \in 1..(turn - 1) : asked[n] \notin Cyclic(graph)
    /\ phase = "edges" => answer = <<>>
    /\ phase \in {"queue", "neighbors", "path"} => LevelInv
    /\ phase = "path" => PathBackInv
    /\ phase = "answered" => IF answer = <<>> THEN turn = Len(asked) + 1
                             ELSE turn \in DOMAIN asked /\ asked[turn] \in Cyclic(graph)
    /\ PreciseThroughEdges

SearchInv ==
    /\ SearchTypes
    /\ phase \in {"roots", "detected"} => DeepInv
    /\ phase \notin {"roots", "detected"} => BroadInv /\ cycles = {}

-------------------------------------------------------------------------------
(* Chains of edges *)

LEMMA LeadsSelf ==
    ASSUME NEW g, NEW i
    PROVE  Leads(g, i, i)
BY DEF Leads

LEMMA LeadsThrough ==
    ASSUME NEW g, NEW i, NEW j, NEW k, Leads(g, i, j), Leads(g, j, k)
    PROVE  Leads(g, i, k)
BY DEF Leads

LEMMA LeadsAlong ==
    ASSUME NEW g, NEW i, NEW j, <<i, j>> \in g
    PROVE  Leads(g, i, j)
<1> SUFFICES ASSUME NEW T \in SUBSET Nodes, i \in T, \A e \in g : e[1] \in T => e[2] \in T
             PROVE  j \in T
  BY DEF Leads
<1>1. <<i, j>>[1] = i /\ <<i, j>>[2] = j
  OBVIOUS
<1> QED
  BY <1>1

\* Edges of a graph that has no cycle, and edges of which none is on a cycle, make none
\* together.
LEMMA NoCycleTogether ==
    ASSUME NEW g \in SUBSET (Nodes \X Nodes), NEW N, Cyclic(g \ N) = {}, N \cap Cyclic(g) = {}
    PROVE  Cyclic(g) = {}
<1> SUFFICES ASSUME NEW e \in g, Leads(g, e[2], e[1])
             PROVE  FALSE
  BY DEF Cyclic
<1> DEFINE i == e[1]  j == e[2]
<1>1. i \in Nodes /\ j \in Nodes /\ e = <<i, j>> /\ Leads(g, i, j)
  BY LeadsAlong
<1>2. e \in g \ N
  BY DEF Cyclic
<1>3. Leads(g \ N, j, i)
  <2> SUFFICES ASSUME NEW T \in SUBSET Nodes, j \in T,
                      \A d \in g \ N : d[1] \in T => d[2] \in T
               PROVE  i \in T
    BY DEF Leads
  <2> DEFINE U == {x \in Nodes : (x \in T /\ Leads(g, j, x)) \/ ~Leads(g, x, i)}
  <2>1. j \in U
    BY <1>1, LeadsSelf
  <2>2. ASSUME NEW d \in g, d[1] \in U PROVE d[2] \in U
    <3> DEFINE x == d[1]  y == d[2]
    <3>1. x \in Nodes /\ y \in Nodes /\ d = <<x, y>> /\ Leads(g, x, y)
      BY LeadsAlong
    <3>2. CASE ~Leads(g, y, i)
      BY <3>1, <3>2
    <3>3. CASE Leads(g, y, i)
      <4>1. Leads(g, x, i)
        BY <3>1, <3>3, LeadsThrough
      <4>2. x \in T /\ Leads(g, j, x) /\ Leads(g, j, y)
        BY <2>2, <3>1, <4>1, LeadsThrough
      <4>3. Leads(g, y, x)
        BY <1>1, <3>3, <4>2, LeadsThrough
      <4>4. d \notin N
        BY <4>3 DEF Cyclic
      <4>5. y \in T
        BY <4>2, <4>4
      <4> QED
        BY <3>1, <4>2, <4>5
    <3> QED
      BY <3>2, <3>3
  <2>3. i \in U
    <3>1. U \in SUBSET Nodes
      OBVIOUS
    <3> HIDE DEF U
    <3> QED
      BY <2>1, <2>2, <3>1 DEF Leads
  <2> QED
    BY <2>3, LeadsSelf
<1> QED
  BY <1>2, <1>3 DEF Cyclic

-------------------------------------------------------------------------------
(* The depth-first search *)

\* A step that leaves the graph alone.
LEMMA SameInput ==
    ASSUME UNCHANGED input
    PROVE  /\ graph' = graph /\ existing' = existing /\ asked' = asked
           /\ \A i : After(i)' = After(i)
           /\ \A i, j : Leads(graph', i, j) <=> Leads(graph, i, j)
BY DEF input, After, Leads

LEMMA AppendedNode ==
    ASSUME NEW s \in Seq(Nodes), NEW i \in Nodes
    PROVE  /\ Append(s, i) \in Seq(Nodes) /\ Len(Append(s, i)) = Len(s) + 1
           /\ DOMAIN s = 1..Len(s) /\ DOMAIN Append(s, i) = 1..(Len(s) + 1)
           /\ Append(s, i)[Len(s) + 1] = i
           /\ \A n \in 1..Len(s) : Append(s, i)[n] = s[n]
OBVIOUS

\* An id that was not visited comes to the end of the path.
LEMMA VisitKeeps ==
    ASSUME SearchTypes, DeepInv, phase = "roots", NEW i \in Nodes, i \notin visited, Visit(i),
           UNCHANGED <<input, phase, cycles, broad>>,
           ahead' \in [Nodes -> SUBSET Nodes], ahead'[i] = After(i),
           IF path = <<>> THEN \A j \in OnPath : ahead'[j] = ahead[j]
           ELSE /\ i \in After(path[Len(path)])
                /\ \A n \in DOMAIN path :
                       ahead'[path[n]] = ahead[path[n]] \ (IF n = Len(path) THEN {i} ELSE {})
    PROVE  DeepInv'
<1> USE DEF SearchTypes
<1>1. /\ path' = Append(path, i) /\ path' \in Seq(Nodes) /\ Len(path') = Len(path) + 1
      /\ DOMAIN path = 1..Len(path) /\ DOMAIN path' = 1..(Len(path) + 1)
      /\ path'[Len(path) + 1] = i
      /\ \A n \in 1..Len(path) : path'[n] = path[n]
      /\ Len(path) \in Nat
  BY AppendedNode DEF Visit
<1>2. visited' = visited \cup {i} /\ cycles' = cycles
  BY DEF Visit
<1>3. OnPath' = OnPath \cup {i}
  BY <1>1 DEF OnPath
<1>4. i \notin OnPath
  BY DEF DeepInv, PathInv
<1>5. Left' = Left
  BY <1>2, <1>3, <1>4 DEF Left
<1>6. /\ graph' = graph /\ existing' = existing
      /\ \A x : After(x)' = After(x)
      /\ \A x, y : Leads(graph', x, y) <=> Leads(graph, x, y)
      /\ \A x, y : Recorded(x, y)' <=> Recorded(x, y)
  BY <1>2, SameInput DEF Recorded
<1>7. PathInv'
  <2>1. OnPath' \subseteq visited'
    BY <1>2, <1>3 DEF DeepInv, PathInv
  <2>2. ASSUME NEW n \in DOMAIN path', n > 1 PROVE <<path'[n - 1], path'[n]>> \in graph'
    <3>1. CASE n = Len(path) + 1
      <4>1. path # <<>> /\ Len(path) >= 1 /\ n - 1 = Len(path)
        BY <2>2, <3>1, <1>1
      <4>2. path'[n - 1] = path[Len(path)] /\ path'[n] = i
        BY <1>1, <3>1, <4>1
      <4> QED
        BY <4>1, <4>2, <1>6 DEF After
    <3>2. CASE n # Len(path) + 1
      <4>1. n \in DOMAIN path /\ n - 1 \in 1..Len(path)
        BY <1>1, <2>2, <3>2
      <4> QED
        BY <1>1, <1>6, <2>2, <4>1 DEF DeepInv, PathInv
    <3> QED
      BY <3>1, <3>2
  <2>3. ASSUME NEW m \in DOMAIN path', NEW n \in DOMAIN path', m < n
        PROVE  path'[m] # path'[n] /\ Leads(graph', path'[m], path'[n])
    <3>0. m \in 1..Len(path) /\ path'[m] = path[m]
      BY <1>1, <2>3
    <3>1. CASE n = Len(path) + 1
      <4>1. path'[n] = i /\ path[m] \in OnPath
        BY <1>1, <3>0, <3>1 DEF OnPath
      <4>2. Leads(graph, path[Len(path)], i)
        <5>1. path # <<>>
          BY <1>1, <3>0
        <5> QED
          BY <5>1, LeadsAlong DEF After
      <4>3. Leads(graph, path[m], path[Len(path)])
        <5>1. Len(path) \in DOMAIN path /\ (m = Len(path) \/ m < Len(path))
          BY <1>1, <3>0
        <5> QED
          BY <1>1, <3>0, <5>1, LeadsSelf DEF DeepInv, PathInv
      <4> QED
        BY <1>4, <1>6, <3>0, <4>1, <4>2, <4>3, LeadsThrough
    <3>2. CASE n # Len(path) + 1
      <4>1. n \in 1..Len(path) /\ path'[n] = path[n]
        BY <1>1, <3>2
      <4> QED
        BY <1>1, <1>6, <2>3, <3>0, <4>1 DEF DeepInv, PathInv
    <3> QED
      BY <3>1, <3>2
  <2>4. ASSUME NEW n \in DOMAIN path' PROVE ahead'[path'[n]] \subseteq After(path'[n])
    <3>1. CASE n = Len(path) + 1
      BY <1>1, <3>1
    <3>2. CASE n # Len(path) + 1
      <4>1. n \in DOMAIN path /\ path'[n] = path[n] /\ path # <<>> /\ path[n] \in OnPath
        BY <1>1, <3>2 DEF OnPath
      <4>2. ahead'[path[n]] \subseteq ahead[path[n]]
        BY <4>1
      <4> QED
        BY <4>1, <4>2 DEF DeepInv, PathInv
    <3> QED
      BY <3>1, <3>2
  <2>5. \A n \in DOMAIN path' : ahead'[path'[n]] \subseteq {x \in Nodes : <<path'[n], x>> \in graph'}
    BY <2>4, <1>6 DEF After
  <2> QED
    BY <2>1, <2>2, <2>3, <2>5 DEF PathInv, After
<1>8. ASSUME NEW n \in DOMAIN path', NEW j \in After(path'[n]) \ ahead'[path'[n]]
      PROVE  j \in Left \/ Recorded(path'[n], j) \/ (n < Len(path') /\ path'[n + 1] = j)
  <2>1. CASE n = Len(path) + 1
    BY <1>1, <1>8, <2>1
  <2>2. CASE n # Len(path) + 1
    <3>1. n \in DOMAIN path /\ path'[n] = path[n] /\ path # <<>> /\ n < Len(path')
      BY <1>1, <2>2
    <3>2. CASE j \in After(path[n]) \ ahead[path[n]]
      <4>1. j \in Left \/ Recorded(path[n], j) \/ (n < Len(path) /\ path[n + 1] = j)
        BY <3>1, <3>2 DEF DeepInv
      <4>2. n < Len(path) => path'[n + 1] = path[n + 1]
        BY <1>1, <3>1
      <4> QED
        BY <3>1, <4>1, <4>2
    <3>3. CASE j \in ahead[path[n]]
      <4>1. n = Len(path) /\ j = i
        BY <1>8, <3>1, <3>3
      <4> QED
        BY <1>1, <3>1, <4>1
    <3> QED
      BY <1>8, <3>1, <3>2, <3>3
  <2> QED
    BY <2>1, <2>2
<1>9. ReportedCyclesExist'
  BY <1>2, <1>6 DEF DeepInv, ReportedCyclesExist
<1> QED
  BY <1>5, <1>6, <1>7, <1>8, <1>9 DEF DeepInv

\* What a step leaves alone, as the proofs below use it.
LEMMA SameGraph ==
    ASSUME UNCHANGED input
    PROVE  /\ graph' = graph /\ existing' = existing
           /\ \A x : After(x)' = After(x)
           /\ \A x, y : Leads(graph', x, y) <=> Leads(graph, x, y)
           /\ cycles' = cycles => \A x, y : Recorded(x, y)' <=> Recorded(x, y)
BY SameInput DEF Recorded

LEMMA RootKeeps ==
    ASSUME SearchInv, NEW i \in Nodes, Root(i)
    PROVE  DeepInv'
<1>1. SearchTypes /\ DeepInv /\ path = <<>> /\ After(i) \in SUBSET Nodes
  BY DEF SearchInv, Root, After
<1>2. /\ ahead' \in [Nodes -> SUBSET Nodes] /\ ahead'[i] = After(i)
      /\ OnPath = {}
  BY <1>1 DEF SearchTypes, Root, OnPath
<1> QED
  BY <1>1, <1>2, VisitKeeps DEF Root

\* A neighbour that was visited has been left, or closes a cycle of the path.
LEMMA RecordedCycle ==
    ASSUME SearchTypes, DeepInv, path # <<>>, NEW i \in OnPath, i \in After(path[Len(path)]),
           Record(i), UNCHANGED <<input, path>>
    PROVE  /\ Recorded(path[Len(path)], i)'
           /\ ReportedCyclesExist'
           /\ \A x, y : Recorded(x, y) => Recorded(x, y)'
<1> DEFINE last == path[Len(path)]
           round == {m \in DOMAIN path : \E b \in 1..m : path[b] = i}
           found == {path[n] : n \in round} \cap existing
<1>1. /\ graph' = graph /\ existing' = existing /\ \A x : After(x)' = After(x)
      /\ \A x, y : Leads(graph', x, y) <=> Leads(graph, x, y)
  BY SameInput
<1>2. Len(path) \in Nat \ {0} /\ DOMAIN path = 1..Len(path) /\ last \in Nodes
  BY DEF SearchTypes
<1>3. cycles' = IF found = {} THEN cycles ELSE cycles \cup {found}
  BY DEF Record, Closed
<1>4. PICK b \in DOMAIN path : path[b] = i
  BY DEF OnPath
<1>5. b \in round /\ Len(path) \in round
  BY <1>2, <1>4
<1>6. Recorded(last, i)'
  <2>1. SUFFICES ASSUME {last, i} \subseteq existing PROVE \E c \in cycles' : {last, i} \subseteq c
    BY <1>1 DEF Recorded
  <2>2. last \in found /\ i \in found
    BY <1>4, <1>5, <2>1
  <2> QED
    BY <1>3, <2>2
<1>7. ASSUME NEW x, NEW y, Recorded(x, y) PROVE Recorded(x, y)'
  BY <1>1, <1>3, <1>7 DEF Recorded
<1>8. ASSUME NEW m \in DOMAIN path, NEW n \in DOMAIN path, m <= n
      PROVE  Leads(graph, path[m], path[n])
  BY <1>2, <1>8, LeadsSelf DEF DeepInv, PathInv
<1>9. ASSUME NEW x \in found, NEW y \in found
      PROVE  \E z \in After(x) : Leads(graph, z, y)
  <2>1. PICK m \in round : path[m] = x
    OBVIOUS
  <2>2. PICK k \in round : path[k] = y
    OBVIOUS
  <2>3. PICK a \in 1..k : path[a] = i
    BY <2>2
  <2>4. Leads(graph, i, y)
    BY <1>2, <1>8, <2>2, <2>3
  <2>5. CASE m = Len(path)
    BY <2>1, <2>4, <2>5
  <2>6. CASE m # Len(path)
    <3>1. m + 1 \in DOMAIN path /\ m + 1 > 1 /\ (m + 1) - 1 = m /\ m + 1 <= Len(path)
      BY <1>2, <2>1, <2>6
    <3>2. <<path[m], path[m + 1]>> \in graph
      BY <3>1 DEF DeepInv, PathInv
    <3>3. path[m + 1] \in After(x)
      BY <2>1, <3>1, <3>2 DEF After, SearchTypes
    <3>4. Leads(graph, path[m + 1], last)
      BY <1>2, <1>8, <3>1
    <3>5. Leads(graph, last, i)
      BY LeadsAlong DEF After
    <3> QED
      BY <2>4, <3>3, <3>4, <3>5, LeadsThrough
  <2> QED
    BY <2>5, <2>6
<1>10. ReportedCyclesExist'
  <2> SUFFICES ASSUME NEW c \in cycles'
               PROVE  c # {} /\ \A x, y \in c : \E z \in After(x) : Leads(graph, z, y)
    BY <1>1 DEF ReportedCyclesExist
  <2>1. CASE c \in cycles
    BY <2>1 DEF DeepInv, ReportedCyclesExist
  <2>2. CASE c \notin cycles
    <3>1. c = found /\ found # {}
      BY <1>3, <2>2
    <3> HIDE DEF found
    <3> QED
      BY <1>9, <3>1
  <2> QED
    BY <2>1, <2>2
<1> QED
  BY <1>6, <1>7, <1>10

LEMMA NeighborKeeps ==
    ASSUME SearchInv, NEW i \in Nodes, Neighbor(i)
    PROVE  DeepInv'
<1> DEFINE last == path[Len(path)]
<1>1. /\ SearchTypes /\ DeepInv /\ path # <<>> /\ Len(path) \in Nat \ {0}
      /\ DOMAIN path = 1..Len(path) /\ last \in Nodes
      /\ i \in ahead[last] /\ phase = "roots" /\ phase' = "roots"
      /\ \A n \in DOMAIN path : path[n] \in Nodes /\ (n # Len(path) => path[n] # last)
  <2>1. SearchTypes /\ DeepInv /\ phase = "roots" /\ phase' = "roots" /\ path # <<>> /\ i \in ahead[last]
    BY DEF SearchInv, Neighbor
  <2>2. Len(path) \in Nat \ {0} /\ DOMAIN path = 1..Len(path) /\ \A n \in DOMAIN path : path[n] \in Nodes
    BY <2>1 DEF SearchTypes
  <2> QED
    BY <2>1, <2>2 DEF DeepInv, PathInv
<1>2. i \in After(last)
  BY <1>1 DEF DeepInv, PathInv
<1>3. CASE i \notin visited
  <2>1. Visit(i) /\ UNCHANGED <<input, phase, cycles, broad>>
    BY <1>3 DEF Neighbor
  <2>2. ahead' = [ahead EXCEPT ![last] = @ \ {i}, ![i] = After(i)]
    BY <1>3 DEF Neighbor
  <2>3. After(i) \in SUBSET Nodes /\ i \notin OnPath
    BY <1>1, <1>3 DEF After, DeepInv, PathInv
  <2>4. \A n \in DOMAIN path : path[n] # i
    BY <2>3 DEF OnPath
  <2>5. ahead' \in [Nodes -> SUBSET Nodes] /\ ahead'[i] = After(i)
    BY <1>1, <2>2, <2>3 DEF SearchTypes
  <2>6. \A n \in DOMAIN path : ahead'[path[n]] = ahead[path[n]] \ (IF n = Len(path) THEN {i} ELSE {})
    BY <1>1, <2>2, <2>3, <2>4 DEF SearchTypes
  <2> QED
    BY <1>1, <1>2, <1>3, <2>1, <2>5, <2>6, VisitKeeps
<1>4. CASE i \in visited
  <2>1. /\ UNCHANGED <<input, phase, visited, path>>
        /\ ahead' = [ahead EXCEPT ![last] = @ \ {i}]
        /\ IF i \in OnPath THEN Record(i) ELSE UNCHANGED cycles
    BY <1>4 DEF Neighbor
  <2>2. /\ graph' = graph /\ existing' = existing /\ \A x : After(x)' = After(x)
        /\ OnPath' = OnPath /\ Left' = Left
    BY <2>1, SameInput DEF OnPath, Left
  <2>3. /\ \A x, y : Recorded(x, y) => Recorded(x, y)'
        /\ ReportedCyclesExist'
        /\ i \in Left \/ Recorded(last, i)'
    <3>1. CASE i \in OnPath
      BY <1>1, <1>2, <2>1, <3>1, RecordedCycle
    <3>2. CASE i \notin OnPath
      <4>1. cycles' = cycles /\ i \in Left
        BY <1>4, <2>1, <3>2 DEF Left
      <4> QED
        BY <1>1, <2>1, <2>2, <4>1, SameGraph DEF DeepInv, ReportedCyclesExist
    <3> QED
      BY <3>1, <3>2
  <2>4. PathInv'
    BY <1>1, <2>1, <2>2 DEF DeepInv, PathInv
  <2>5. ASSUME NEW n \in DOMAIN path, NEW j \in After(path[n]) \ ahead'[path[n]]
        PROVE  j \in Left \/ Recorded(path[n], j)' \/ (n < Len(path) /\ path[n + 1] = j)
    <3>1. CASE j \in ahead[path[n]]
      <4>1. n = Len(path) /\ j = i
        BY <1>1, <2>1, <2>5, <3>1 DEF SearchTypes
      <4> QED
        BY <2>1, <2>3, <4>1
    <3>2. CASE j \notin ahead[path[n]]
      BY <1>1, <2>1, <2>3, <3>2 DEF DeepInv
    <3> QED
      BY <3>1, <3>2
  <2>6. \A x \in Left : \A y \in After(x) : y \in Left \/ Recorded(x, y)'
    BY <1>1, <2>3 DEF DeepInv
  <2>7. ASSUME NEW S \in SUBSET Left, S # {}
        PROVE  \E x \in S : \A y \in S \cap After(x) : Recorded(x, y)'
    BY <1>1, <2>3, <2>7 DEF DeepInv
  <2> QED
    BY <1>1, <2>1, <2>2, <2>3, <2>4, <2>5, <2>6, <2>7 DEF DeepInv
<1> QED
  BY <1>3, <1>4

\* When dfs returns from an id, each of its edges leads to what was left before, or has
\* been recorded: a ring through it that is left now has a recorded edge still.
LEMMA LeaveKeeps ==
    ASSUME SearchInv, Leave
    PROVE  DeepInv'
<1> DEFINE last == path[Len(path)]
           rest == SubSeq(path, 1, Len(path) - 1)
<1>1. /\ SearchTypes /\ DeepInv /\ path # <<>> /\ ahead[last] = {} /\ phase' = "roots"
      /\ path' = rest /\ UNCHANGED <<input, ahead, visited, cycles>>
  BY DEF SearchInv, Leave
<1>2. /\ Len(path) \in Nat \ {0} /\ DOMAIN path = 1..Len(path)
      /\ rest \in Seq(Nodes) /\ Len(rest) = Len(path) - 1 /\ DOMAIN rest = 1..(Len(path) - 1)
      /\ \A n \in 1..(Len(path) - 1) : rest[n] = path[n]
  <2>1. path \in Seq(Nodes) /\ Len(path) \in Nat \ {0} /\ DOMAIN path = 1..Len(path)
    BY <1>1 DEF SearchTypes
  <2>2. 1 \in Int /\ Len(path) - 1 \in Int
    BY <2>1
  <2> QED
    BY <2>1, <2>2, SubSeqProperties
<1>3. /\ graph' = graph /\ existing' = existing
      /\ \A x : After(x)' = After(x)
      /\ \A x, y : Leads(graph', x, y) <=> Leads(graph, x, y)
      /\ \A x, y : Recorded(x, y)' <=> Recorded(x, y)
  BY <1>1, SameGraph
<1>4. \A n \in 1..(Len(path) - 1) : path[n] # last
  BY <1>1, <1>2 DEF DeepInv, PathInv
<1>5. OnPath = OnPath' \cup {last} /\ last \notin OnPath'
  <2>1. OnPath' = {path[n] : n \in 1..(Len(path) - 1)}
    BY <1>1, <1>2 DEF OnPath
  <2>2. 1..Len(path) = (1..(Len(path) - 1)) \cup {Len(path)}
    BY <1>2
  <2>3. OnPath = {path[n] : n \in 1..(Len(path) - 1)} \cup {last}
    BY <1>2, <2>2 DEF OnPath
  <2> QED
    BY <1>4, <2>1, <2>3
<1>6. Left' = Left \cup {last} /\ last \notin Left
  BY <1>1, <1>5 DEF Left, DeepInv, PathInv
<1>7. \A j \in After(last) : j \in Left \/ Recorded(last, j)
  BY <1>1, <1>2 DEF DeepInv
<1>8. PathInv'
  BY <1>1, <1>2, <1>3, <1>5 DEF DeepInv, PathInv, After
<1>9. \A x \in Left' : \A j \in After(x) : j \in Left' \/ Recorded(x, j)
  BY <1>1, <1>6, <1>7 DEF DeepInv
<1>10. ASSUME NEW n \in 1..(Len(path) - 1), NEW j \in After(path[n]) \ ahead[path[n]]
       PROVE  j \in Left' \/ Recorded(path[n], j) \/ (n < Len(rest) /\ rest[n + 1] = j)
  <2>1. j \in Left \/ Recorded(path[n], j) \/ (n < Len(path) /\ path[n + 1] = j)
    BY <1>1, <1>2, <1>10 DEF DeepInv
  <2>2. CASE n = Len(path) - 1
    BY <1>2, <1>6, <2>1, <2>2
  <2>3. CASE n # Len(path) - 1
    <3>1. n + 1 \in 1..(Len(path) - 1) /\ n < Len(rest)
      <4> DEFINE k == Len(path)
      <4>1. k \in Nat /\ Len(rest) = k - 1 /\ n \in 1..(k - 1) /\ n # k - 1
        BY <1>2, <2>3
      <4> HIDE DEF k, rest
      <4> QED
        BY <4>1 DEF k
    <3> QED
      BY <1>2, <1>6, <2>1, <3>1
  <2> QED
    BY <2>2, <2>3
<1>11. ASSUME NEW S \in SUBSET (Left'), S # {}
       PROVE  \E x \in S : \A y \in S \cap After(x) : Recorded(x, y)
  <2>1. CASE S \cap Left = {}
    <3>1. S = {last}
      BY <1>6, <1>11, <2>1
    <3> QED
      BY <1>6, <1>7, <3>1
  <2>2. CASE S \cap Left # {}
    <3>1. PICK x \in S \cap Left : \A y \in S \cap Left \cap After(x) : Recorded(x, y)
      <4>1. S \cap Left \in SUBSET Left
        OBVIOUS
      <4> QED
        BY <1>1, <2>2, <4>1 DEF DeepInv
    <3>2. \A y \in After(x) : y \in Left \/ Recorded(x, y)
      BY <1>1, <3>1 DEF DeepInv
    <3> QED
      BY <3>1, <3>2
  <2> QED
    BY <2>1, <2>2
<1>12. ReportedCyclesExist'
  BY <1>1, <1>3 DEF DeepInv, ReportedCyclesExist
<1>13. \A n \in DOMAIN path' : \A j \in After(path'[n]) \ ahead'[path'[n]] :
           j \in Left' \/ Recorded(path'[n], j) \/ (n < Len(path') /\ path'[n + 1] = j)
  BY <1>1, <1>2, <1>10
<1> QED
  BY <1>1, <1>3, <1>8, <1>9, <1>11, <1>12, <1>13 DEF DeepInv

LEMMA DetectedKeeps ==
    ASSUME SearchInv, Detected
    PROVE  DeepInv'
<1>1. /\ SearchTypes /\ DeepInv /\ path = <<>> /\ \A i \in Nodes : After(i) # {} => i \in visited
      /\ UNCHANGED <<input, ahead, visited, path, cycles>>
  BY DEF SearchInv, Detected, deep
<1>2. /\ graph' = graph /\ existing' = existing
      /\ \A x : After(x)' = After(x)
      /\ \A x, y : Recorded(x, y)' <=> Recorded(x, y)
      /\ OnPath' = OnPath /\ Left' = Left
  BY <1>1, SameGraph DEF OnPath, Left
<1>3. PathInv'
  BY <1>1, <1>2 DEF DeepInv, PathInv
<1>4. ReportedCyclesExist'
  BY <1>1, <1>2 DEF DeepInv, ReportedCyclesExist
<1> QED
  BY <1>1, <1>2, <1>3, <1>4 DEF DeepInv

\* Once the depth-first search has ended, a ring of issues that have a row has an edge
\* that was recorded.
LEMMA DetectedAll ==
    ASSUME SearchInv
    PROVE  NoCycleApart
<1> SUFFICES ASSUME phase = "detected", NEW S \in SUBSET existing,
                    S # {}, \A i \in S : After(i) \cap S # {}
             PROVE  \E c \in cycles : \E i \in c \cap S : c \cap S \cap After(i) # {}
  BY DEF NoCycleApart
<1>1. DeepInv /\ SearchTypes /\ path = <<>> /\ OnPath = {}
  BY DEF SearchInv, DeepInv, OnPath
<1>2. S \in SUBSET Left
  BY <1>1 DEF DeepInv, SearchTypes, Left
<1>3. PICK i \in S : \A j \in S \cap After(i) : Recorded(i, j)
  BY <1>1, <1>2 DEF DeepInv
<1>4. PICK j \in S : j \in After(i)
  OBVIOUS
<1> QED
  BY <1>3, <1>4 DEF Recorded

-------------------------------------------------------------------------------
(* The searches for a path that closes a named edge *)

\* What a step leaves alone, as the proofs below use it.
LEMMA SameEdges ==
    ASSUME UNCHANGED input
    PROVE  /\ graph' = graph /\ asked' = asked
           /\ \A x : After(x)' = After(x)
           /\ Cyclic(graph)' = Cyclic(graph)
           /\ turn' = turn => goal' = goal /\ start' = start
BY SameInput DEF Cyclic, goal, start

LEMMA NamedEdge ==
    ASSUME SearchTypes, turn \in DOMAIN asked
    PROVE  /\ asked[turn] = <<goal, start>> /\ Len(asked) \in Nat /\ turn \in 1..Len(asked)
           /\ goal = Blank \/ start = Blank => asked[turn] \notin Cyclic(graph)
           /\ goal # Blank => asked[turn] \in graph /\ goal \in Nodes /\ start \in Nodes
           /\ asked[turn] \in graph /\ Leads(graph, start, goal) => asked[turn] \in Cyclic(graph)
           /\ asked[turn] \in Cyclic(graph) => Leads(graph, start, goal)
<1>1. Len(asked) \in Nat /\ turn \in 1..Len(asked) /\ asked[turn] \in Pairs(graph)
  BY DEF SearchTypes
<1>2. asked[turn] = <<goal, start>>
  <2>1. CASE asked[turn] \in graph
    BY <2>1 DEF SearchTypes, goal, start
  <2>2. CASE asked[turn] = <<Blank, Blank>>
    BY <2>2 DEF goal, start
  <2> QED
    BY <1>1, <2>1, <2>2 DEF Pairs
<1>3. asked[turn] \in graph => goal \in Nodes /\ start \in Nodes
  BY <1>2 DEF SearchTypes
<1>4. asked[turn] \in graph \/ (goal = Blank /\ start = Blank)
  BY <1>1, <1>2 DEF Pairs
<1>5. Blank \notin Nodes
  BY SearchAssumption
<1>6. asked[turn] \in Cyclic(graph) => asked[turn] \in graph
  BY DEF Cyclic
<1>7. asked[turn] \in graph => (asked[turn] \in Cyclic(graph) <=> Leads(graph, start, goal))
  BY <1>2 DEF Cyclic, goal, start
<1> QED
  BY <1>1, <1>2, <1>3, <1>4, <1>5, <1>6, <1>7

LEMMA NextEdgeKeeps ==
    ASSUME SearchInv, NextEdge
    PROVE  BroadInv'
<1>1. SearchTypes /\ BroadInv /\ turn \in DOMAIN asked /\ phase = "edges" /\ answer = <<>>
  BY DEF SearchInv, BroadInv, NextEdge
<1>2. UNCHANGED input
  BY DEF NextEdge
<1>3. /\ graph' = graph /\ asked' = asked /\ Cyclic(graph)' = Cyclic(graph)
      /\ \A x : After(x)' = After(x)
  BY <1>2, SameEdges
<1>4. \A n \in 1..(turn - 1) : asked[n] \notin Cyclic(graph)
  BY <1>1 DEF BroadInv
<1>5. turn \in 1..Len(asked) /\ Len(asked) \in Nat /\ asked[turn] = <<goal, start>>
  BY <1>1, NamedEdge
<1>6. CASE goal = Blank \/ start = Blank
  <2>1. turn' = turn + 1 /\ phase' = "edges" /\ answer' = <<>>
    BY <1>1, <1>5, <1>6, NamedEdge DEF NextEdge, SearchTypes
  <2>2. asked[turn] \notin Cyclic(graph)
    BY <1>1, <1>6, NamedEdge
  <2>3. \A n \in 1..(turn' - 1) : asked[n] \notin Cyclic(graph)
    BY <1>4, <1>5, <2>1, <2>2
  <2> QED
    BY <1>3, <2>1, <2>3 DEF BroadInv, PreciseThroughEdges
<1>7. CASE goal # Blank /\ goal = start
  <2>1. answer' = <<goal, goal>> /\ phase' = "answered" /\ turn' = turn
    BY <1>7 DEF NextEdge
  <2>2. asked[turn] \in graph /\ asked[turn] \in Cyclic(graph)
    BY <1>1, <1>7, NamedEdge, LeadsSelf
  <2>3. /\ answer'[1] = goal /\ answer'[2] = start /\ Len(answer') = 2 /\ answer' # <<>>
    BY <1>7, <2>1
  <2>4. PreciseThroughEdges'
    BY <1>3, <1>5, <1>7, <2>1, <2>2, <2>3 DEF PreciseThroughEdges
  <2> QED
    BY <1>1, <1>3, <1>4, <2>1, <2>2, <2>3, <2>4 DEF BroadInv
<1>8. CASE goal # Blank /\ start # Blank /\ goal # start
  <2>1. /\ parent' = [i \in Nodes |-> IF i = start THEN NoParent ELSE Unseen]
        /\ queue' = <<start>> /\ phase' = "queue" /\ turn' = turn /\ answer' = answer
    BY <1>8 DEF NextEdge
  <2>2. asked[turn] \in graph /\ goal \in Nodes /\ start \in Nodes
    BY <1>1, <1>8, NamedEdge
  <2>3. Seen' = {start} /\ parent'[start] = NoParent
    BY <2>1, <2>2 DEF Seen, Unseen, NoParent
  <2>4. goal' = goal /\ start' = start
    BY <1>2, <2>1, SameEdges
  <2>5. queue'[1] = start /\ DOMAIN queue' = {1}
    BY <2>1
  <2>6. LevelInv'
    BY <1>1, <1>3, <1>8, <2>1, <2>2, <2>3, <2>4, <2>5, LeadsSelf DEF LevelInv
  <2> QED
    BY <1>1, <1>3, <1>4, <2>1, <2>6 DEF BroadInv, PreciseThroughEdges
<1> QED
  BY <1>6, <1>7, <1>8

LEMMA NoneFoundKeeps ==
    ASSUME SearchInv, NoneFound
    PROVE  BroadInv'
<1>1. SearchTypes /\ BroadInv /\ answer = <<>> /\ turn = Len(asked) + 1
  BY DEF SearchInv, BroadInv, NoneFound, SearchTypes
<1>2. phase' = "answered" /\ UNCHANGED <<input, turn, answer>>
  BY DEF NoneFound, broad
<1> QED
  BY <1>1, <1>2, SameEdges DEF BroadInv, PreciseThroughEdges

LEMMA DequeueKeeps ==
    ASSUME SearchInv, Dequeue
    PROVE  BroadInv'
<1> DEFINE i == Head(queue)
<1>1. /\ SearchTypes /\ BroadInv /\ LevelInv /\ queue # <<>> /\ phase = "queue" /\ phase' = "neighbors"
      /\ node' = i /\ queue' = Tail(queue) /\ ahead' = [ahead EXCEPT ![i] = After(i)]
      /\ UNCHANGED <<input, turn, parent, answer>>
  BY DEF SearchInv, BroadInv, Dequeue
<1>2. /\ graph' = graph /\ asked' = asked /\ Cyclic(graph)' = Cyclic(graph)
      /\ \A x : After(x)' = After(x)
      /\ goal' = goal /\ start' = start /\ Seen' = Seen
  BY <1>1, SameEdges DEF Seen
<1>3. /\ i = queue[1] /\ i \in Nodes
      /\ \A n \in DOMAIN queue' : n + 1 \in DOMAIN queue /\ queue'[n] = queue[n + 1]
      /\ \A n \in DOMAIN queue : n = 1 \/ (n - 1 \in DOMAIN queue' /\ queue'[n - 1] = queue[n])
      /\ 1 \in DOMAIN queue
  BY <1>1 DEF SearchTypes
<1>4. ahead'[i] = After(i)
  BY <1>1, <1>3 DEF SearchTypes
<1>5. LevelInv'
  <2>1. i \in Seen
    BY <1>1, <1>3 DEF LevelInv
  <2>2. ASSUME NEW x \in Seen
        PROVE  \/ After(x) \subseteq Seen
               \/ \E n \in DOMAIN queue' : queue'[n] = x
               \/ x = i
    <3>1. After(x) \subseteq Seen \/ \E n \in DOMAIN queue : queue[n] = x
      BY <1>1, <2>2 DEF LevelInv
    <3>2. ASSUME NEW n \in DOMAIN queue, queue[n] = x
          PROVE  x = i \/ \E m \in DOMAIN queue' : queue'[m] = x
      BY <1>3, <3>2
    <3> QED
      BY <3>1, <3>2
  <2>3. \A n \in DOMAIN queue' : queue'[n] \in Seen
    BY <1>1, <1>3 DEF LevelInv
  <2> QED
    BY <1>1, <1>2, <1>4, <2>1, <2>2, <2>3 DEF LevelInv
<1> QED
  BY <1>1, <1>2, <1>5 DEF BroadInv, PreciseThroughEdges

\* An empty queue: what was seen is closed under the edges.
LEMMA UnreachableKeeps ==
    ASSUME SearchInv, Unreachable
    PROVE  BroadInv'
<1>1. /\ SearchTypes /\ BroadInv /\ LevelInv /\ queue = <<>> /\ phase = "queue"
      /\ turn' = turn + 1 /\ phase' = "edges" /\ UNCHANGED <<input, answer>>
  BY DEF SearchInv, BroadInv, Unreachable
<1>2. graph' = graph /\ asked' = asked /\ Cyclic(graph)' = Cyclic(graph)
  BY <1>1, SameEdges
<1>3. Seen \in SUBSET Nodes /\ start \in Seen /\ goal \notin Seen
  BY <1>1 DEF LevelInv, Seen
<1>4. \A e \in graph : e[1] \in Seen => e[2] \in Seen
  <2> SUFFICES ASSUME NEW e \in graph, e[1] \in Seen PROVE e[2] \in Seen
    OBVIOUS
  <2>1. e[2] \in After(e[1])
    <3>1. e[1] \in Nodes /\ e[2] \in Nodes /\ e = <<e[1], e[2]>>
      BY <1>1 DEF SearchTypes
    <3> QED
      BY <3>1 DEF After
  <2>2. DOMAIN queue = {}
    BY <1>1
  <2> QED
    BY <1>1, <2>1, <2>2 DEF LevelInv
<1>5. ~Leads(graph, start, goal)
  BY <1>3, <1>4 DEF Leads
<1>6. asked[turn] \notin Cyclic(graph) /\ turn \in 1..Len(asked) /\ Len(asked) \in Nat
  BY <1>1, <1>5, NamedEdge DEF LevelInv
<1>7. \A n \in 1..(turn' - 1) : asked[n] \notin Cyclic(graph)
  BY <1>1, <1>6 DEF BroadInv
<1>8. answer = <<>>
  BY <1>1 DEF LevelInv
<1> QED
  BY <1>1, <1>2, <1>7, <1>8 DEF BroadInv, PreciseThroughEdges

LEMMA DiscoverKeeps ==
    ASSUME SearchInv, NEW i \in Nodes, Discover(i)
    PROVE  BroadInv'
<1>1. /\ SearchTypes /\ BroadInv /\ LevelInv /\ phase = "neighbors" /\ i \in ahead[node]
      /\ ahead' = [ahead EXCEPT ![node] = @ \ {i}] /\ UNCHANGED <<input, turn, node>>
  BY DEF SearchInv, BroadInv, Discover
<1>2. /\ graph' = graph /\ asked' = asked /\ Cyclic(graph)' = Cyclic(graph)
      /\ \A x : After(x)' = After(x)
      /\ \A x, y : Leads(graph', x, y) <=> Leads(graph, x, y)
      /\ goal' = goal /\ start' = start
  BY <1>1, SameEdges, SameInput
<1>3. /\ node \in Seen /\ node \in Nodes /\ ahead[node] \subseteq After(node)
      /\ answer = <<>> /\ goal \notin Seen /\ turn \in DOMAIN asked /\ asked[turn] \in graph
  BY <1>1 DEF LevelInv, Seen
<1>4. ahead'[node] = ahead[node] \ {i} /\ \A x \in Nodes \ {node} : ahead'[x] = ahead[x]
  BY <1>1, <1>3 DEF SearchTypes
<1>5. <<node, i>> \in graph /\ Leads(graph, start, i)
  <2>1. <<node, i>> \in graph
    BY <1>1, <1>3 DEF After
  <2> QED
    BY <1>1, <1>3, <2>1, LeadsAlong, LeadsThrough DEF LevelInv
<1>6. CASE parent[i] # Unseen
  <2>1. parent' = parent /\ queue' = queue /\ answer' = answer /\ phase' = phase /\ i \in Seen
    BY <1>6 DEF Discover, Seen
  <2>2. Seen' = Seen
    BY <2>1 DEF Seen
  <2>3. ASSUME NEW x \in Seen
        PROVE  \/ After(x) \subseteq Seen
               \/ \E n \in DOMAIN queue : queue[n] = x
               \/ x = node /\ After(x) \ ahead'[x] \subseteq Seen
    BY <1>1, <1>4, <2>1 DEF LevelInv
  <2>4. LevelInv'
    BY <1>1, <1>2, <1>3, <1>4, <2>1, <2>2, <2>3 DEF LevelInv
  <2> QED
    BY <1>1, <1>2, <2>1, <2>4 DEF BroadInv, PreciseThroughEdges
<1>7. CASE parent[i] = Unseen
  <2>1. parent' = [parent EXCEPT ![i] = node] /\ i \notin Seen
    BY <1>7 DEF Discover, Seen
  <2>2. /\ parent'[i] = node /\ \A x \in Nodes \ {i} : parent'[x] = parent[x]
        /\ node # Unseen
    BY <1>1, <1>3, <2>1, SearchAssumption DEF SearchTypes
  <2>3. Seen' = Seen \cup {i}
    BY <2>2 DEF Seen
  <2>4. i # start /\ start \in Seen
    BY <1>1, <2>1 DEF LevelInv
  <2>5. \A x \in Seen' : /\ Leads(graph, start, x)
                         /\ IF x = start THEN parent'[x] = NoParent
                            ELSE parent'[x] \in Seen' /\ <<parent'[x], x>> \in graph
    <3>1. ASSUME NEW x \in Seen
          PROVE  /\ Leads(graph, start, x)
                 /\ IF x = start THEN parent'[x] = NoParent
                    ELSE parent'[x] \in Seen' /\ <<parent'[x], x>> \in graph
      <4>1. parent'[x] = parent[x]
        BY <2>1, <2>2, <3>1 DEF Seen
      <4> QED
        BY <1>1, <2>3, <3>1, <4>1 DEF LevelInv
    <3> QED
      BY <1>3, <1>5, <2>2, <2>3, <2>4, <3>1
  <2>6. CASE i = goal
    <3>1. answer' = <<i>> /\ phase' = "path"
      BY <1>7, <2>6 DEF Discover
    <3>2. LevelInv'
      BY <1>1, <1>2, <1>3, <2>3, <2>4, <2>5, <3>1 DEF LevelInv
    <3>3. PathBackInv'
      <4>1. answer' # <<>> /\ Len(answer') = 1 /\ answer'[1] = i
        BY <3>1
      <4>2. node' # NoParent
        BY <1>1, <1>3, SearchAssumption
      <4>3. Walk(answer')
        BY <4>1 DEF Walk
      <4> QED
        BY <1>1, <1>2, <1>3, <1>5, <2>3, <2>6, <4>1, <4>2, <4>3 DEF PathBackInv, Walk
    <3> QED
      BY <1>1, <1>2, <3>1, <3>2, <3>3 DEF BroadInv, PreciseThroughEdges
  <2>7. CASE i # goal
    <3>1. queue' = Append(queue, i) /\ answer' = answer /\ phase' = "neighbors"
      BY <1>1, <1>7, <2>7 DEF Discover
    <3>2. /\ \A n \in DOMAIN queue : n \in DOMAIN queue' /\ queue'[n] = queue[n]
          /\ \A n \in DOMAIN queue' : n \in DOMAIN queue \/ queue'[n] = i
          /\ Len(queue') \in DOMAIN queue' /\ queue'[Len(queue')] = i
      BY <1>1, <3>1, AppendedNode DEF SearchTypes
    <3>3. \A n \in DOMAIN queue' : queue'[n] \in Seen'
      BY <1>1, <2>3, <3>2 DEF LevelInv
    <3>4. ASSUME NEW x \in Seen'
          PROVE  \/ After(x) \subseteq Seen'
                 \/ \E n \in DOMAIN queue' : queue'[n] = x
                 \/ x = node /\ After(x) \ ahead'[x] \subseteq Seen'
      <4>1. CASE x = i
        BY <3>2, <4>1
      <4>2. CASE x \in Seen
        <5>1. \/ After(x) \subseteq Seen
              \/ \E n \in DOMAIN queue : queue[n] = x
              \/ x = node /\ After(x) \ ahead[x] \subseteq Seen
          BY <1>1, <4>2 DEF LevelInv
        <5> QED
          BY <1>4, <2>3, <3>2, <5>1
      <4> QED
        BY <2>3, <4>1, <4>2
    <3>5. node' \in Seen' /\ goal' \notin Seen' /\ ahead'[node] \subseteq After(node)
      BY <1>1, <1>2, <1>3, <1>4, <2>3, <2>7
    <3>6. LevelInv'
      BY <1>1, <1>2, <1>3, <2>3, <2>4, <2>5, <3>1, <3>3, <3>4, <3>5 DEF LevelInv
    <3> QED
      BY <1>1, <1>2, <3>1, <3>6 DEF BroadInv, PreciseThroughEdges
  <2> QED
    BY <2>6, <2>7
<1> QED
  BY <1>6, <1>7

LEMMA LastNeighborKeeps ==
    ASSUME SearchInv, LastNeighbor
    PROVE  BroadInv'
<1>1. /\ SearchTypes /\ BroadInv /\ LevelInv /\ phase = "neighbors" /\ ahead[node] = {}
      /\ phase' = "queue" /\ UNCHANGED <<input, turn, parent, queue, node, answer, ahead>>
  BY DEF SearchInv, BroadInv, LastNeighbor, broad
<1>2. /\ graph' = graph /\ asked' = asked /\ Cyclic(graph)' = Cyclic(graph)
      /\ \A x : After(x)' = After(x)
      /\ goal' = goal /\ start' = start /\ Seen' = Seen
  BY <1>1, SameEdges DEF Seen
<1>3. ASSUME NEW x \in Seen
      PROVE  After(x) \subseteq Seen \/ \E n \in DOMAIN queue : queue[n] = x
  BY <1>1 DEF LevelInv
<1>4. LevelInv'
  BY <1>1, <1>2, <1>3 DEF LevelInv
<1> QED
  BY <1>1, <1>2, <1>4 DEF BroadInv, PreciseThroughEdges

\* A walk with an edge to its first node put before it.
LEMMA WalkBefore ==
    ASSUME NEW s \in Seq(Nodes), s # <<>>, Walk(s), NEW x \in Nodes, <<x, s[1]>> \in graph
    PROVE  /\ <<x>> \o s \in Seq(Nodes) /\ <<x>> \o s # <<>> /\ Walk(<<x>> \o s)
           /\ (<<x>> \o s)[1] = x /\ (<<x>> \o s)[2] = s[1]
           /\ (<<x>> \o s)[Len(<<x>> \o s)] = s[Len(s)]
<1> DEFINE t == <<x>> \o s
<1>1. /\ t \in Seq(Nodes) /\ Len(t) = Len(s) + 1 /\ Len(s) \in Nat \ {0} /\ t[1] = x
      /\ \A n \in 1..Len(s) : t[n + 1] = s[n]
  OBVIOUS
<1>2. ASSUME NEW n \in 1..(Len(t) - 1) PROVE <<t[n], t[n + 1]>> \in graph
  <2>1. CASE n = 1
    BY <1>1, <2>1
  <2>2. CASE n # 1
    <3>1. n - 1 \in 1..(Len(s) - 1) /\ n - 1 \in 1..Len(s) /\ n \in 1..Len(s) /\ (n - 1) + 1 = n
      BY <1>1, <2>2
    <3> QED
      BY <1>1, <3>1 DEF Walk
  <2> QED
    BY <2>1, <2>2
<1> HIDE DEF t
<1>3. 1 \in 1..Len(s) /\ Len(s) \in 1..Len(s)
  BY <1>1
<1>4. t # <<>> /\ t[2] = s[1] /\ t[Len(t)] = s[Len(s)]
  BY <1>1, <1>3
<1> QED
  BY <1>1, <1>2, <1>4 DEF t, Walk

LEMMA PathBackKeeps ==
    ASSUME SearchInv, PathBack
    PROVE  BroadInv'
<1>1. /\ SearchTypes /\ BroadInv /\ LevelInv /\ PathBackInv /\ phase = "path"
      /\ UNCHANGED <<input, turn, parent>> /\ answer \in Seq(Nodes)
  BY DEF SearchInv, BroadInv, PathBack, SearchTypes
<1>2. /\ graph' = graph /\ asked' = asked /\ Cyclic(graph)' = Cyclic(graph)
      /\ \A x : After(x)' = After(x)
      /\ goal' = goal /\ start' = start /\ Seen' = Seen
      /\ \A s : Walk(s)' <=> Walk(s)
  BY <1>1, SameEdges DEF Seen, Walk
<1>3. CASE node # NoParent
  <2>1. answer' = <<node>> \o answer /\ node' = parent[node] /\ phase' = "path"
    BY <1>1, <1>3 DEF PathBack
  <2>2. answer # <<>> /\ Walk(answer) /\ node \in Seen /\ node \in Nodes /\ <<node, answer[1]>> \in graph
    BY <1>1, <1>3 DEF PathBackInv, Seen
  <2>3. /\ answer' # <<>> /\ Walk(answer') /\ answer'[1] = node
        /\ answer'[Len(answer')] = answer[Len(answer)]
    BY <1>1, <2>1, <2>2, WalkBefore
  <2>4. NoParent \notin Seen
    BY SearchAssumption DEF Seen
  <2>5. IF node' = NoParent THEN node = start ELSE node' \in Seen /\ <<node', node>> \in graph
    BY <1>1, <2>1, <2>2, <2>4 DEF LevelInv
  <2>6. PathBackInv'
    BY <1>1, <1>2, <2>3, <2>5 DEF PathBackInv, Walk
  <2>7. LevelInv'
    BY <1>1, <1>2, <2>1 DEF LevelInv
  <2> QED
    BY <1>1, <1>2, <2>1, <2>6, <2>7 DEF BroadInv, PreciseThroughEdges
<1>4. CASE node = NoParent
  <2>1. answer' = <<goal>> \o answer /\ phase' = "answered"
    BY <1>4 DEF PathBack, rendered
  <2>2. /\ asked[turn] = <<goal, start>> /\ goal \in Nodes /\ turn \in DOMAIN asked
        /\ asked[turn] \in graph
    <3>1. turn \in DOMAIN asked /\ asked[turn] \in graph /\ goal \in Seen
      BY <1>1 DEF LevelInv, PathBackInv
    <3> QED
      BY <1>1, <3>1, NamedEdge DEF Seen
  <2>3. /\ answer # <<>> /\ Walk(answer) /\ answer[1] = start /\ <<goal, answer[1]>> \in graph
        /\ answer[Len(answer)] = goal
    BY <1>1, <1>4, <2>2 DEF PathBackInv
  <2>4. /\ answer' # <<>> /\ Walk(answer') /\ answer'[1] = goal /\ answer'[2] = start
        /\ answer'[Len(answer')] = goal
    BY <1>1, <2>1, <2>2, <2>3, WalkBefore
  <2>5. asked[turn] \in Cyclic(graph)
    BY <1>1, <2>2, NamedEdge DEF LevelInv, PathBackInv
  <2>6. PreciseThroughEdges'
    BY <1>2, <2>2, <2>4 DEF PreciseThroughEdges, Walk
  <2> QED
    BY <1>1, <1>2, <2>1, <2>2, <2>4, <2>5, <2>6 DEF BroadInv
<1> QED
  BY <1>3, <1>4

-------------------------------------------------------------------------------
(* The invariant *)

LEMMA SearchInitOk == SearchInit => SearchInv
<1> SUFFICES ASSUME SearchInit PROVE SearchInv
  OBVIOUS
<1>1. /\ graph \in SUBSET (Nodes \X Nodes) /\ existing \in SUBSET Nodes
      /\ visited = {} /\ path = <<>> /\ cycles = {} /\ ahead = [i \in Nodes |-> {}]
      /\ turn = 1 /\ parent = [i \in Nodes |-> Unseen] /\ queue = <<>> /\ node = Blank
      /\ answer = <<>> /\ phase \in {"roots", "edges"}
  BY DEF SearchInit
<1>2. asked \in Seq(Pairs(graph))
  <2>1. CASE asked = <<>>
    BY <2>1
  <2>2. CASE asked \in UNION {[1..n -> Pairs(graph)] : n \in 0..MaxAsked}
    BY <2>2, SearchAssumption
  <2> QED
    BY <2>1, <2>2 DEF SearchInit
<1>3. SearchTypes
  <2>1. turn \in 1..(Len(asked) + 1)
    BY <1>1, <1>2
  <2> QED
    BY <1>1, <1>2, <2>1 DEF SearchTypes
<1>4. DeepInv
  BY <1>1 DEF DeepInv, PathInv, OnPath, Left, ReportedCyclesExist
<1>5. BroadInv
  BY <1>1 DEF BroadInv, PreciseThroughEdges
<1> QED
  BY <1>1, <1>3, <1>4, <1>5 DEF SearchInv

LEMMA TypesKept ==
    ASSUME SearchInv, [SearchNext]_searchVars
    PROVE  SearchTypes'
<1>1. SearchTypes
  BY DEF SearchInv
<1>2. ASSUME NEW i \in Nodes, Root(i) PROVE SearchTypes'
  BY <1>1, <1>2 DEF SearchTypes, Root, Visit, input, broad, After
<1>3. ASSUME NEW i \in Nodes, Neighbor(i) PROVE SearchTypes'
  <2>1. \A j : After(j) \in SUBSET Nodes
    BY DEF After
  <2>2. UNCHANGED <<input, phase, broad>> /\ ahead' \in [Nodes -> SUBSET Nodes]
    BY <1>1, <1>3, <2>1 DEF Neighbor, SearchTypes
  <2>3. visited' \in SUBSET Nodes /\ path' \in Seq(Nodes)
    <3>1. CASE i \notin visited
      <4>1. path \in Seq(Nodes) /\ path' = Append(path, i) /\ visited' = visited \cup {i}
        BY <1>1, <1>3, <3>1 DEF Neighbor, Visit, SearchTypes
      <4> QED
        BY <1>1, <4>1, AppendedNode DEF SearchTypes
    <3>2. CASE i \in visited
      BY <1>1, <1>3, <3>2 DEF Neighbor, SearchTypes
    <3> QED
      BY <3>1, <3>2
  <2>4. cycles' \in SUBSET SUBSET Nodes
    <3>1. Record(i) => cycles' \in SUBSET SUBSET Nodes
      BY <1>1 DEF Record, Closed, SearchTypes
    <3> QED
      BY <1>1, <1>3, <3>1 DEF Neighbor, SearchTypes
  <2> QED
    BY <1>1, <2>2, <2>3, <2>4 DEF SearchTypes, input, broad
<1>4. ASSUME NEW i \in Nodes, Discover(i) PROVE SearchTypes'
  <2>1. /\ UNCHANGED <<input, deep, turn, node>> /\ node \in Nodes
        /\ ahead' = [ahead EXCEPT ![node] = @ \ {i}] /\ phase = "neighbors"
    BY <1>4 DEF Discover, SearchInv, BroadInv, LevelInv, Seen
  <2>2. ahead' \in [Nodes -> SUBSET Nodes]
    BY <1>1, <2>1 DEF SearchTypes
  <2>3. /\ parent' \in [Nodes -> Nodes \cup {Unseen, NoParent}] /\ queue' \in Seq(Nodes)
        /\ answer' \in Seq(Nodes) /\ phase' \in {"neighbors", "path"}
    <3>1. CASE parent[i] # Unseen
      BY <1>1, <1>4, <2>1, <3>1 DEF Discover, SearchTypes
    <3>2. CASE parent[i] = Unseen
      <4>1. parent' = [parent EXCEPT ![i] = node] /\ parent \in [Nodes -> Nodes \cup {Unseen, NoParent}]
        BY <1>1, <1>4, <3>2 DEF Discover, SearchTypes
      <4>2. CASE i = goal
        <5>1. answer' = <<i>> /\ phase' = "path" /\ queue' = queue
          BY <1>4, <3>2, <4>2 DEF Discover
        <5> QED
          BY <1>1, <2>1, <4>1, <5>1 DEF SearchTypes
      <4>3. CASE i # goal
        <5>1. answer' = answer /\ phase' = phase /\ queue' = Append(queue, i) /\ queue \in Seq(Nodes)
          BY <1>1, <1>4, <3>2, <4>3 DEF Discover, SearchTypes
        <5>2. queue' \in Seq(Nodes)
          BY <5>1, AppendedNode
        <5> QED
          BY <1>1, <2>1, <4>1, <5>1, <5>2 DEF SearchTypes
      <4> QED
        BY <4>2, <4>3
    <3> QED
      BY <3>1, <3>2
  <2> QED
    BY <1>1, <2>1, <2>2, <2>3 DEF SearchTypes, input, deep
<1>5. CASE Leave
  <2>1. SubSeq(path, 1, Len(path) - 1) \in Seq(Nodes)
    <3>1. path \in Seq(Nodes) /\ path # <<>>
      BY <1>1, <1>5 DEF Leave, SearchTypes
    <3>2. 1 \in Int /\ Len(path) - 1 \in Int /\ \A n \in 1..(Len(path) - 1) : path[n] \in Nodes
      BY <3>1
    <3> QED
      BY <3>2, SubSeqProperties
  <2> QED
    BY <1>1, <1>5, <2>1 DEF Leave, SearchTypes, input, broad
<1>6. CASE Detected
  BY <1>1, <1>6 DEF Detected, SearchTypes, input, deep, broad
<1>7. CASE NextEdge
  <2>1. UNCHANGED <<input, ahead, deep, node>> /\ turn \in DOMAIN asked
    BY <1>7 DEF NextEdge
  <2>2. turn \in 1..Len(asked) /\ Len(asked) \in Nat /\ (goal # Blank => goal \in Nodes /\ start \in Nodes)
    BY <1>1, <2>1, NamedEdge
  <2>3. /\ turn' \in 1..(Len(asked) + 1) /\ parent' \in [Nodes -> Nodes \cup {Unseen, NoParent}]
        /\ queue' \in Seq(Nodes) /\ answer' \in Seq(Nodes) /\ phase' \in {"edges", "answered", "queue"}
    <3>1. CASE goal = Blank \/ start = Blank
      BY <1>1, <1>7, <2>2, <3>1, NamedEdge, <2>1 DEF NextEdge, SearchTypes
    <3>2. CASE goal # Blank /\ goal = start
      <4>1. answer' = <<goal, goal>> /\ phase' = "answered" /\ UNCHANGED <<turn, parent, queue>>
        BY <1>7, <3>2 DEF NextEdge
      <4>2. <<goal, goal>> \in Seq(Nodes)
        BY <2>2, <3>2
      <4> QED
        BY <1>1, <4>1, <4>2 DEF SearchTypes
    <3>3. CASE goal # Blank /\ start # Blank /\ goal # start
      <4>1. queue' \in Seq(Nodes)
        <5>1. queue' = <<start>> /\ start \in Nodes
          BY <1>7, <2>2, <3>3 DEF NextEdge
        <5>2. \A x \in Nodes : <<x>> \in Seq(Nodes)
          OBVIOUS
        <5> QED
          BY <5>1, <5>2
      <4>2. parent' \in [Nodes -> Nodes \cup {Unseen, NoParent}] /\ UNCHANGED <<turn, answer>> /\ phase' = "queue"
        BY <1>7, <3>3 DEF NextEdge
      <4> QED
        BY <1>1, <4>1, <4>2 DEF SearchTypes
    <3> QED
      BY <3>1, <3>2, <3>3
  <2> QED
    BY <1>1, <2>1, <2>3 DEF SearchTypes, input, deep
<1>8. CASE NoneFound
  BY <1>1, <1>8 DEF NoneFound, SearchTypes, input, deep, broad
<1>9. CASE Dequeue
  <2>1. Head(queue) \in Nodes /\ Tail(queue) \in Seq(Nodes) /\ After(Head(queue)) \in SUBSET Nodes
    BY <1>1, <1>9 DEF Dequeue, SearchTypes, After
  <2> QED
    BY <1>1, <1>9, <2>1 DEF Dequeue, SearchTypes, input, deep
<1>10. CASE Unreachable
  <2>1. turn + 1 \in 1..(Len(asked) + 1)
    <3>1. turn \in DOMAIN asked
      BY <1>10 DEF Unreachable, SearchInv, BroadInv, LevelInv
    <3> QED
      BY <1>1, <3>1 DEF SearchTypes
  <2> QED
    BY <1>1, <1>10, <2>1 DEF Unreachable, SearchTypes, input, deep
<1>11. CASE LastNeighbor
  BY <1>1, <1>11 DEF LastNeighbor, SearchTypes, input, deep, broad
<1>12. CASE PathBack
  <2>1. /\ UNCHANGED <<input, ahead, deep, turn, parent, queue>> /\ phase' \in {"path", "answered"}
        /\ LevelInv /\ PathBackInv
    BY <1>12 DEF PathBack, SearchInv, BroadInv
  <2>2. goal \in Nodes /\ (node # NoParent => node \in Nodes)
    BY <2>1 DEF PathBackInv, Seen
  <2>3. answer' \in Seq(Nodes) /\ node' \in Nodes \cup {Blank, NoParent}
    <3>1. CASE node # NoParent
      <4>1. parent[node] # Unseen
        BY <2>1, <3>1 DEF PathBackInv, Seen
      <4>2. answer' = <<node>> \o answer /\ node' = parent[node] /\ answer \in Seq(Nodes)
        BY <1>1, <1>12, <3>1 DEF PathBack, SearchTypes
      <4>3. answer' \in Seq(Nodes)
        BY <2>2, <3>1, <4>2
      <4>4. node' \in Nodes \cup {NoParent}
        BY <1>1, <2>2, <3>1, <4>1, <4>2 DEF SearchTypes
      <4> QED
        BY <4>3, <4>4
    <3>2. CASE node = NoParent
      <4>1. answer' = <<goal>> \o answer /\ node' = node /\ answer \in Seq(Nodes)
        BY <1>1, <1>12, <3>2 DEF PathBack, rendered, SearchTypes
      <4>2. answer' \in Seq(Nodes)
        BY <2>2, <4>1
      <4> QED
        BY <3>2, <4>1, <4>2
    <3> QED
      BY <3>1, <3>2
  <2> QED
    BY <1>1, <2>1, <2>3 DEF SearchTypes, input, deep
<1>13. CASE UNCHANGED searchVars
  BY <1>1, <1>13 DEF searchVars, input, deep, broad, SearchTypes
<1> QED
  BY <1>2, <1>3, <1>4, <1>5, <1>6, <1>7, <1>8, <1>9, <1>10, <1>11, <1>12, <1>13 DEF SearchNext

LEMMA SearchStep ==
    ASSUME SearchInv, [SearchNext]_searchVars
    PROVE  SearchInv'
<1> DEFINE Deep(p) == p \in {"roots", "detected"}
<1>1. SearchTypes'
  BY TypesKept
<1>2. ASSUME NEW i \in Nodes, Root(i) PROVE SearchInv'
  BY <1>1, <1>2, RootKeeps DEF SearchInv, Root
<1>3. ASSUME NEW i \in Nodes, Neighbor(i) PROVE SearchInv'
  BY <1>1, <1>3, NeighborKeeps DEF SearchInv, Neighbor
<1>4. ASSUME NEW i \in Nodes, Discover(i) PROVE SearchInv'
  <2>1. phase' \in {"neighbors", "path"}
    BY <1>4 DEF Discover
  <2> QED
    BY <1>1, <1>4, <2>1, DiscoverKeeps DEF SearchInv, Discover, deep
<1>5. CASE Leave
  BY <1>1, <1>5, LeaveKeeps DEF SearchInv, Leave
<1>6. CASE Detected
  BY <1>1, <1>6, DetectedKeeps DEF SearchInv, Detected
<1>7. CASE NextEdge
  <2>1. phase' \in {"edges", "answered", "queue"}
    BY <1>7 DEF NextEdge
  <2> QED
    BY <1>1, <1>7, <2>1, NextEdgeKeeps DEF SearchInv, NextEdge, deep
<1>8. CASE NoneFound
  BY <1>1, <1>8, NoneFoundKeeps DEF SearchInv, NoneFound, deep, broad
<1>9. CASE Dequeue
  BY <1>1, <1>9, DequeueKeeps DEF SearchInv, Dequeue, deep
<1>10. CASE Unreachable
  BY <1>1, <1>10, UnreachableKeeps DEF SearchInv, Unreachable, deep
<1>11. CASE LastNeighbor
  BY <1>1, <1>11, LastNeighborKeeps DEF SearchInv, LastNeighbor, deep, broad
<1>12. CASE PathBack
  <2>1. phase' \in {"path", "answered"}
    BY <1>12 DEF PathBack
  <2> QED
    BY <1>1, <1>12, <2>1, PathBackKeeps DEF SearchInv, PathBack, deep
<1>13. CASE UNCHANGED searchVars
  <2>1. UNCHANGED input /\ UNCHANGED <<phase, ahead, visited, path, cycles, turn, parent, queue, node, answer>>
    BY <1>13 DEF searchVars, deep, broad
  <2>2. DeepInv => DeepInv'
    <3>1. /\ graph' = graph /\ existing' = existing /\ \A x : After(x)' = After(x)
          /\ \A x, y : Recorded(x, y)' <=> Recorded(x, y)
          /\ OnPath' = OnPath /\ Left' = Left
      BY <2>1, SameGraph DEF OnPath, Left
    <3>2. (PathInv <=> PathInv') /\ (ReportedCyclesExist <=> ReportedCyclesExist')
      BY <2>1, <3>1 DEF PathInv, ReportedCyclesExist, After
    <3> QED
      BY <2>1, <3>1, <3>2 DEF DeepInv
  <2>3. BroadInv => BroadInv'
    BY <2>1 DEF BroadInv, LevelInv, PathBackInv, PreciseThroughEdges, Cyclic, Walk, Seen, After,
                Leads, goal, start, input
  <2> QED
    BY <1>1, <2>1, <2>2, <2>3 DEF SearchInv
<1> QED
  BY <1>2, <1>3, <1>4, <1>5, <1>6, <1>7, <1>8, <1>9, <1>10, <1>11, <1>12, <1>13 DEF SearchNext

LEMMA SearchAlways == SearchSpec => []SearchInv
<1>1. SearchInv /\ [SearchNext]_searchVars => SearchInv'
  BY SearchStep
<1> QED
  BY SearchInitOk, <1>1, PTL DEF SearchSpec

-------------------------------------------------------------------------------
(* What the searches find *)

\* The variables of both searches keep their types.
THEOREM SearchTypesHold == SearchSpec => []SearchTypes
<1>1. SearchInv => SearchTypes
  BY DEF SearchInv
<1> QED
  BY SearchAlways, <1>1, PTL

LEMMA ReportedRight ==
    ASSUME SearchInv
    PROVE  ReportedCyclesExist
<1>1. CASE phase \in {"roots", "detected"}
  BY <1>1 DEF SearchInv, DeepInv
<1>2. CASE phase \notin {"roots", "detected"}
  BY <1>2 DEF SearchInv, ReportedCyclesExist
<1> QED
  BY <1>1, <1>2

\* DetectCycles: for any graph, what the depth-first search reports are cycles, and every
\* cycle among issues that have a row shares an edge with one that is reported.
THEOREM DetectionRight == SearchSpec => []CyclesDetected
<1>1. SearchInv => CyclesDetected
  BY ReportedRight, DetectedAll DEF CyclesDetected
<1> QED
  BY SearchAlways, <1>1, PTL

LEMMA AnsweredPrecise ==
    ASSUME SearchInv
    PROVE  PreciseThroughEdges
<1>1. CASE phase \in {"roots", "detected"}
  BY <1>1 DEF PreciseThroughEdges
<1>2. CASE phase \notin {"roots", "detected"}
  BY <1>2 DEF SearchInv, BroadInv
<1> QED
  BY <1>1, <1>2

LEMMA AnsweredRight ==
    ASSUME SearchInv
    PROVE  AnsweredIfCyclic
<1> SUFFICES ASSUME phase = "answered" PROVE answer # <<>> <=> Asked \cap Cyclic(graph) # {}
  BY DEF AnsweredIfCyclic
<1>1. SearchTypes /\ BroadInv
  BY DEF SearchInv
<1>2. CASE answer = <<>>
  <2>1. turn - 1 = Len(asked) /\ DOMAIN asked = 1..Len(asked)
    BY <1>1, <1>2 DEF BroadInv, SearchTypes
  <2>2. \A n \in DOMAIN asked : asked[n] \notin Cyclic(graph)
    BY <1>1, <2>1 DEF BroadInv
  <2> QED
    BY <1>2, <2>2 DEF Asked
<1>3. CASE answer # <<>>
  BY <1>1, <1>3 DEF BroadInv, Asked
<1> QED
  BY <1>2, <1>3

LEMMA AnsweredNone ==
    ASSUME SearchInv
    PROVE  IntegrityKept
<1> SUFFICES ASSUME phase = "answered", answer = <<>>, Cyclic(graph \ Asked) = {}
             PROVE  Cyclic(graph) = {}
  BY DEF IntegrityKept
<1>1. Asked \cap Cyclic(graph) = {}
  BY AnsweredRight DEF AnsweredIfCyclic
<1>2. graph \in SUBSET (Nodes \X Nodes)
  BY DEF SearchInv, SearchTypes
<1> QED
  BY <1>1, <1>2, NoCycleTogether

\* CycleThroughEdges: for any graph and any named edges, an answer is a closed walk that
\* begins with one of them, there is one exactly if one of them is on a cycle, and none
\* means that a graph without cycles has not been given any.
THEOREM AnswersRight == SearchSpec => []EdgesAnswered
<1>1. SearchInv => EdgesAnswered
  BY AnsweredPrecise, AnsweredRight, AnsweredNone DEF EdgesAnswered
<1> QED
  BY SearchAlways, <1>1, PTL
===============================================================================
