---------------------------- MODULE CycleDetection ----------------------------
(***************************************************************************)
(* The DAG of look_for_job.cpp: edges are added, and isCyclic() searches   *)
(* depth first with a mark for visited vertices and one for those on the   *)
(* recursion stack.  The order of an adjacency list is left open.          *)
(***************************************************************************)
EXTENDS Naturals, Sequences

CONSTANT numVertices
Vertex == 0 .. numVertices - 1

VARIABLES adjList,
          pc,      \* "editing" | "searching"
          i,       \* the loop variable of isCyclic()
          visited, recursionStack,
          stack,   \* the calls of isCyclicUtil: the vertex and the neighbours left
          result   \* what the last isCyclic() returned: "none" | "cyclic" | "acyclic"
vars == <<adjList, pc, i, visited, recursionStack, stack, result>>

Init ==
  /\ adjList = [v \in Vertex |-> {}]
  /\ pc = "editing" /\ i = 0 /\ visited = {} /\ recursionStack = {} /\ stack = << >>
  /\ result = "none"

\* An edge with an end out of bounds is reported and not added.
addEdge(src, dest) ==
  /\ pc = "editing"
  /\ adjList' = IF src >= numVertices \/ dest >= numVertices THEN adjList
                ELSE [adjList EXCEPT ![src] = @ \cup {dest}]
  /\ result' = "none"
  /\ UNCHANGED <<pc, i, visited, recursionStack, stack>>

isCyclic ==
  /\ pc = "editing"
  /\ pc' = "searching" /\ i' = 0 /\ visited' = {} /\ recursionStack' = {} /\ stack' = << >>
  /\ result' = "none"
  /\ UNCHANGED adjList

Return(r) == pc' = "editing" /\ result' = r

\* isCyclicUtil() on entry, called with frames below it.
Enter(v, below) ==
  /\ visited' = visited \cup {v}
  /\ recursionStack' = recursionStack \cup {v}
  /\ stack' = Append(below, [vertex |-> v, left |-> adjList[v]])

\* The innermost call, and the calls once it has taken its neighbour v.
Top == stack[Len(stack)]
Taken(v) == [stack EXCEPT ![Len(stack)].left = @ \ {v}]

\* The loop of isCyclic().
NextVertex ==
  /\ pc = "searching" /\ stack = << >>
  /\ IF i >= numVertices
     THEN Return("acyclic") /\ UNCHANGED <<i, visited, recursionStack, stack>>
     ELSE /\ i' = i + 1
          /\ IF i \in visited THEN UNCHANGED <<visited, recursionStack, stack>> ELSE Enter(i, << >>)
          /\ UNCHANGED <<pc, result>>
  /\ UNCHANGED adjList

\* A visited neighbour taken for a cycle, whether or not it is on the stack.
NeighbourVisited(v) ==
  /\ pc = "searching" /\ stack # << >> /\ v \in Top.left
  /\ IF v \notin visited THEN Enter(v, Taken(v)) /\ UNCHANGED <<pc, result>>
     ELSE Return("cyclic") /\ UNCHANGED <<visited, recursionStack, stack>>
  /\ UNCHANGED <<adjList, i>>

\* The loop of isCyclicUtil().  A true is returned through all the calls.
Neighbour(v) ==
  /\ pc = "searching" /\ stack # << >> /\ v \in Top.left
  /\ \/ /\ v \notin visited
        /\ Enter(v, Taken(v))
        /\ UNCHANGED <<pc, result>>
     \/ /\ v \in visited /\ v \in recursionStack
        /\ Return("cyclic")
        /\ UNCHANGED <<visited, recursionStack, stack>>
     \/ /\ v \in visited /\ v \notin recursionStack
        /\ stack' = Taken(v)
        /\ UNCHANGED <<pc, result, visited, recursionStack>>
  /\ UNCHANGED <<adjList, i>>

\* The end of isCyclicUtil().
Leave ==
  /\ pc = "searching" /\ stack # << >> /\ Top.left = {}
  /\ recursionStack' = recursionStack \ {Top.vertex}
  /\ stack' = SubSeq(stack, 1, Len(stack) - 1)
  /\ UNCHANGED <<adjList, pc, i, visited, result>>

Next ==
  \/ \E src, dest \in 0 .. numVertices : addEdge(src, dest)
  \/ isCyclic
  \/ NextVertex
  \/ \E v \in Vertex : Neighbour(v)
  \/ Leave
Spec == Init /\ [][Next]_vars

-----------------------------------------------------------------------------
\* A path of edges that ends where it begins.
HasCycle ==
  \E n \in 1 .. numVertices : \E path \in [0 .. n -> Vertex] :
    path[0] = path[n] /\ \A j \in 0 .. n - 1 : path[j + 1] \in adjList[path[j]]

\* isCyclic() says "cyclic" exactly for the graphs with a cycle, self-loops
\* included, in whatever order neighbours are listed.
AnswerIsRight ==
  result # "none" => (result = "cyclic" <=> HasCycle)
=============================================================================
