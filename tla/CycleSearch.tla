------------------------------ MODULE CycleSearch ------------------------------
(***************************************************************************)
(* The two searches for cycles of blocking edges                           *)
(* (internal/storage/issueops/cycles.go), step by step: the depth-first    *)
(* search of DetectCyclesInTx, for any cycle there is, and the breadth-    *)
(* first searches of CycleThroughEdgesInGraph, for one through an edge     *)
(* that is named, by which a client that has skipped the check of each     *)
(* insertion ends its transaction.                                         *)
(*                                                                         *)
(* A search reads the graph once, and nothing changes it meanwhile; it may *)
(* be any graph, as merges and deletions leave it.  Neighbours and roots   *)
(* come in any order.                                                      *)
(***************************************************************************)
EXTENDS Integers, Sequences

CONSTANTS
    Nodes,     \* the ids that edges may name
    Blank,     \* the id that a client left out
    MaxAsked   \* how many edges are named, at most

\* What parent holds of an id that was not seen, and of the first one.
Unseen   == "unseen"
NoParent == ""

ASSUME SearchAssumption == {Blank, Unseen, NoParent} \cap Nodes = {} /\ MaxAsked \in Nat

VARIABLES
    graph,    \* the blocking edges of both tables
    existing, \* the ids that have a row
    asked,    \* the edges whose cycles are asked for
    phase,    \* where the search is
    visited,  \* of the depth-first search, as are:
    path,     \* the ids being visited (recStack holds the same)
    ahead,    \* per id, the neighbours still to be looked at
    cycles,   \* what has been found
    turn,     \* the number of the edge that is looked for, and of its search:
    parent,   \* per id that was seen, from where
    queue,
    node,     \* the id whose neighbours are looked at, or that ends the path so far
    answer    \* the cycle to be rendered

input == <<graph, existing, asked>>
deep  == <<visited, path, cycles>>
broad == <<turn, parent, queue, node, answer>>
searchVars == <<input, phase, ahead, deep, broad>>

Pairs(g) == g \cup {<<Blank, Blank>>}

SearchTypes ==
    /\ graph \in SUBSET (Nodes \X Nodes) /\ existing \in SUBSET Nodes
    /\ asked \in Seq(Pairs(graph))
    /\ phase \in {"roots", "detected", "edges", "queue", "neighbors", "path", "answered"}
    /\ visited \in SUBSET Nodes /\ path \in Seq(Nodes)
    /\ ahead \in [Nodes -> SUBSET Nodes] /\ cycles \in SUBSET SUBSET Nodes
    /\ turn \in 1..(Len(asked) + 1)
    /\ parent \in [Nodes -> Nodes \cup {Unseen, NoParent}]
    /\ queue \in Seq(Nodes)
    /\ node \in Nodes \cup {Blank, NoParent}
    /\ answer \in Seq(Nodes)

After(i) == {j \in Nodes : <<i, j>> \in graph}
OnPath == {path[n] : n \in DOMAIN path}

SearchInit ==
    /\ graph \in SUBSET (Nodes \X Nodes)
    /\ \/ phase = "roots" /\ existing \in SUBSET Nodes /\ asked = <<>>
       \/ phase = "edges" /\ existing = Nodes
          /\ asked \in UNION {[1..n -> Pairs(graph)] : n \in 0..MaxAsked}
    /\ visited = {} /\ path = <<>> /\ cycles = {}
    /\ ahead = [i \in Nodes |-> {}]
    /\ turn = 1 /\ parent = [i \in Nodes |-> Unseen] /\ queue = <<>> /\ node = Blank
    /\ answer = <<>>

------------------------------------------------------------------------------
(* DetectCyclesInTx *)

\* The call of dfs on i.
Visit(i) ==
    /\ visited' = visited \cup {i}
    /\ path' = Append(path, i)

Root(i) ==
    /\ phase = "roots" /\ path = <<>>
    /\ After(i) # {} /\ i \notin visited
    /\ Visit(i) /\ ahead' = [ahead EXCEPT ![i] = After(i)]
    /\ UNCHANGED <<input, phase, cycles, broad>>

\* The part of the path that an edge back to i closes, as far as it has rows.
Closed(i) == {path[n] : n \in {m \in DOMAIN path : \E b \in 1..m : path[b] = i}} \cap existing

\* Mutant: a cycle of which an issue has no row is passed over.
RecordWhole(i) ==
    cycles' = IF OnPath \subseteq existing /\ Closed(i) # {} THEN cycles \cup {Closed(i)} ELSE cycles

Record(i) == cycles' = IF Closed(i) = {} THEN cycles ELSE cycles \cup {Closed(i)}

\* One round of the loop over the neighbours of the last id of the path.
Neighbor(i) ==
    LET last == path[Len(path)]
    IN  /\ phase = "roots" /\ path # <<>>
        /\ i \in ahead[last]
        /\ IF i \notin visited
           THEN /\ Visit(i) /\ UNCHANGED cycles
                /\ ahead' = [ahead EXCEPT ![last] = @ \ {i}, ![i] = After(i)]
           ELSE /\ IF i \in OnPath THEN Record(i) ELSE UNCHANGED cycles
                /\ ahead' = [ahead EXCEPT ![last] = @ \ {i}]
                /\ UNCHANGED <<visited, path>>
        /\ UNCHANGED <<input, phase, broad>>

Leave ==
    /\ phase = "roots" /\ path # <<>>
    /\ ahead[path[Len(path)]] = {}
    /\ path' = SubSeq(path, 1, Len(path) - 1)
    /\ UNCHANGED <<input, phase, ahead, visited, cycles, broad>>

Detected ==
    /\ phase = "roots" /\ path = <<>>
    /\ \A i \in Nodes : After(i) # {} => i \in visited
    /\ phase' = "detected"
    /\ UNCHANGED <<input, ahead, deep, broad>>

------------------------------------------------------------------------------
(* CycleThroughEdgesInGraph and reachPath *)

goal == asked[turn][1]
start == asked[turn][2]

\* An edge without an id is passed over, one from an id to itself needs no search.
NextEdge ==
    /\ phase = "edges" /\ turn \in DOMAIN asked
    /\ \/ /\ goal = Blank \/ start = Blank
          /\ turn' = turn + 1
          /\ UNCHANGED <<phase, parent, queue, answer>>
       \/ /\ goal # Blank /\ goal = start
          /\ answer' = <<goal, goal>> /\ phase' = "answered"
          /\ UNCHANGED <<turn, parent, queue>>
       \/ /\ goal # Blank /\ start # Blank /\ goal # start
          /\ parent' = [i \in Nodes |-> IF i = start THEN NoParent ELSE Unseen]
          /\ queue' = <<start>> /\ phase' = "queue"
          /\ UNCHANGED <<turn, answer>>
    /\ UNCHANGED <<input, ahead, deep, node>>

NoneFound ==
    /\ phase = "edges" /\ turn \notin DOMAIN asked
    /\ phase' = "answered"
    /\ UNCHANGED <<input, ahead, deep, broad>>

Dequeue ==
    /\ phase = "queue" /\ queue # <<>>
    /\ node' = Head(queue) /\ queue' = Tail(queue)
    /\ ahead' = [ahead EXCEPT ![Head(queue)] = After(Head(queue))]
    /\ phase' = "neighbors"
    /\ UNCHANGED <<input, deep, turn, parent, answer>>

\* Mutant: only the first edge is searched for.
UnreachableStops ==
    /\ phase = "queue" /\ queue = <<>>
    /\ phase' = "answered"
    /\ UNCHANGED <<input, ahead, deep, broad>>

Unreachable ==
    /\ phase = "queue" /\ queue = <<>>
    /\ turn' = turn + 1 /\ phase' = "edges"
    /\ UNCHANGED <<input, ahead, deep, parent, queue, node, answer>>

\* One round of the loop over the neighbours of node.
Discover(i) ==
    /\ phase = "neighbors" /\ i \in ahead[node]
    /\ ahead' = [ahead EXCEPT ![node] = @ \ {i}]
    /\ IF parent[i] # Unseen
       THEN UNCHANGED <<parent, queue, answer, phase>>
       ELSE /\ parent' = [parent EXCEPT ![i] = node]
            /\ IF i = goal
               THEN answer' = <<i>> /\ phase' = "path" /\ UNCHANGED queue
               ELSE queue' = Append(queue, i) /\ UNCHANGED <<answer, phase>>
    /\ UNCHANGED <<input, deep, turn, node>>

LastNeighbor ==
    /\ phase = "neighbors" /\ ahead[node] = {}
    /\ phase' = "queue"
    /\ UNCHANGED <<input, ahead, deep, broad>>

rendered == <<goal>> \o answer

\* The path is put together from its end; the new edge closes the cycle.
PathBack ==
    /\ phase = "path"
    /\ IF node # NoParent
       THEN answer' = <<node>> \o answer /\ node' = parent[node] /\ UNCHANGED phase
       ELSE answer' = rendered /\ phase' = "answered" /\ UNCHANGED node
    /\ UNCHANGED <<input, ahead, deep, turn, parent, queue>>

SearchNext ==
    \/ \E i \in Nodes : Root(i) \/ Neighbor(i) \/ Discover(i)
    \/ Leave \/ Detected
    \/ NextEdge \/ NoneFound \/ Dequeue \/ Unreachable \/ LastNeighbor \/ PathBack

SearchSpec == SearchInit /\ [][SearchNext]_searchVars

------------------------------------------------------------------------------
(* Properties *)

\* Some chain of edges of g leads from i to j.
Leads(g, i, j) ==
    \A T \in SUBSET Nodes :
        i \in T /\ (\A e \in g : e[1] \in T => e[2] \in T) => j \in T

\* The edges of g that are on a cycle.
Cyclic(g) == {e \in g : Leads(g, e[2], e[1])}

\* "Finds dependency cycles": the issues of one that is reported lie on a cycle of blocking
\* edges together, each behind and before each.
ReportedCyclesExist ==
    \A c \in cycles : c # {} /\ \A i, j \in c : \E n \in After(i) : Leads(graph, n, j)

\* The search reports a cycle for each back edge only, so not every cycle; but none
\* whose issues all have a row shares no edge with the ones reported.
NoCycleApart ==
    phase = "detected" =>
        \A S \in SUBSET existing :
            S # {} /\ (\A i \in S : After(i) \cap S # {})
            => \E c \in cycles : \E i \in c \cap S : c \cap S \cap After(i) # {}

\* What DetectCycles reports are cycles, and it reports all but those that share an edge
\* with one that it does report.
CyclesDetected == ReportedCyclesExist /\ NoCycleApart

\* "Precise where cycle enumeration is not": what is rendered goes along edges of the
\* graph, through a named edge first, and ends where it began; and there is an answer
\* exactly if a named edge is on a cycle, whatever other cycles the graph has.
PreciseThroughEdges ==
    phase = "answered" /\ answer # <<>> =>
        /\ \E n \in DOMAIN asked : asked[n] = <<answer[1], answer[2]>>
        /\ \A n \in 1..(Len(answer) - 1) : <<answer[n], answer[n + 1]>> \in graph
        /\ answer[Len(answer)] = answer[1]

Asked == {asked[n] : n \in DOMAIN asked}

AnsweredIfCyclic ==
    phase = "answered" => (answer # <<>> <=> Asked \cap Cyclic(graph) # {})

\* "One whole-graph check, never graph integrity": a graph that had no cycle before the
\* named edges were added has none after them if the search finds none.
IntegrityKept ==
    phase = "answered" /\ answer = <<>> /\ Cyclic(graph \ Asked) = {} => Cyclic(graph) = {}

\* A transaction of insertions without a check may be committed exactly if CycleThroughEdges
\* answers nothing, and what it answers shows why not.
EdgesAnswered == PreciseThroughEdges /\ AnsweredIfCyclic /\ IntegrityKept
================================================================================
