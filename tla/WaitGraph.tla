------------------------------ MODULE WaitGraph ------------------------------
(***************************************************************************)
(* LockWaitGraph of src/src/services/lock_manager.py: the wait-for graph   *)
(* of one node and the depth-first search for a cycle in it.               *)
(*                                                                         *)
(* The search is the one recursive function of the code written as steps:  *)
(* the arguments of the calls under way are `path`, whose members are also *)
(* rec_stack.  It visits the keys of the graph and the members of a set in *)
(* whatever order Python keeps them, so each choice is free.  No await     *)
(* interrupts it and the asyncio lock is held, so the graph stands still.  *)
(***************************************************************************)
EXTENDS Naturals, Sequences, FiniteSets

CONSTANT Client

ASSUME ClientAssumption == IsFiniteSet(Client)

VARIABLES
    graph,      \* whom each client waits for; a client without an entry: {}
    phase,      \* what the node does with the graph
    visited,
    path,       \* the nodes of the dfs calls under way, outermost first
    cycle       \* the path detect_cycle returns, <<>> for None
graphVars == <<graph, phase, visited, path, cycle>>

\* rec_stack, the members of the path, is part of visited.
GraphTypeOK ==
    /\ graph \in [Client -> SUBSET Client]
    /\ phase \in {"idle", "searching", "found", "none"}
    /\ visited \in SUBSET Client
    /\ path \in Seq(visited)
    /\ cycle \in Seq(Client)

GraphInit ==
    /\ graph = [c \in Client |-> {}]
    /\ phase = "idle"
    /\ visited = {}
    /\ path = <<>>
    /\ cycle = <<>>

Top == path[Len(path)]
OnPath(c) == \E i \in 1..Len(path) : path[i] = c

-----------------------------------------------------------------------------
\* Changes of the graph

AddEdge(waiter, holder) ==
    /\ phase = "idle"
    /\ graph' = [graph EXCEPT ![waiter] = @ \cup {holder}]
    /\ UNCHANGED <<phase, visited, path, cycle>>

\* Waiter waits for nobody any more, and nobody for waiter.
RemoveEdges(waiter) ==
    /\ phase = "idle"
    /\ graph' = [c \in Client |->
                   IF c = waiter THEN {} ELSE graph[c] \ {waiter}]
    /\ UNCHANGED <<phase, visited, path, cycle>>

-----------------------------------------------------------------------------
\* detect_cycle

Start ==
    /\ phase = "idle"
    /\ phase' = "searching"
    /\ UNCHANGED <<graph, visited, path, cycle>>

\* Variant: a node is not marked.
EnterUnmarked(c) ==
    /\ c \notin visited
    /\ path' = Append(path, c)
    /\ UNCHANGED <<graph, phase, visited, cycle>>

\* A call of dfs begins.
Enter(c) ==
    /\ c \notin visited
    /\ visited' = visited \cup {c}
    /\ path' = Append(path, c)
    /\ UNCHANGED <<graph, phase, cycle>>

\* The outer loop comes to a key that was not visited.
EnterRoot(c) ==
    /\ phase = "searching" /\ path = <<>>
    /\ Enter(c)

\* The loop over the neighbours comes to one that was not visited.
EnterNeighbour(c) ==
    /\ phase = "searching" /\ path # <<>> /\ c \in graph[Top]
    /\ Enter(c)

\* Variant: a neighbour need not be on the path, visited is enough.
SeenBefore(c) == c \in visited

\* The test that makes dfs return a cycle.
ClosesCycle(c) == c \in visited /\ OnPath(c)

\* The loop comes to a neighbour on the path: all calls return.
Found(c) ==
    /\ phase = "searching" /\ path # <<>> /\ c \in graph[Top]
    /\ ClosesCycle(c)
    /\ cycle' = Append(path, c)
    /\ phase' = "found"
    /\ UNCHANGED <<graph, visited, path>>

\* Variant: only the first neighbour is tried.
OneNeighbourDone == graph[Top] = {} \/ graph[Top] \cap visited # {}

\* No neighbour is left: each was visited and none is on the path.
NeighboursDone == \A c \in graph[Top] : c \in visited /\ ~OnPath(c)

\* The loop over the neighbours ends: dfs returns None.
Leave ==
    /\ phase = "searching" /\ path # <<>>
    /\ NeighboursDone
    /\ path' = SubSeq(path, 1, Len(path) - 1)
    /\ UNCHANGED <<graph, phase, visited, cycle>>

\* The outer loop ends.  Clients without neighbours change nothing.
NoneFound ==
    /\ phase = "searching" /\ path = <<>>
    /\ \A c \in Client : c \in visited \/ graph[c] = {}
    /\ phase' = "none"
    /\ UNCHANGED <<graph, visited, path, cycle>>

\* The caller has used the result.
Done ==
    /\ phase \in {"found", "none"}
    /\ phase' = "idle"
    /\ visited' = {} /\ path' = <<>> /\ cycle' = <<>>
    /\ UNCHANGED graph

-----------------------------------------------------------------------------
Search ==
    \/ \E c \in Client : EnterRoot(c) \/ EnterNeighbour(c) \/ Found(c)
    \/ Leave
    \/ NoneFound

GraphNext ==
    \/ \E w, h \in Client : AddEdge(w, h)
    \/ \E w \in Client : RemoveEdges(w)
    \/ Start
    \/ Search
    \/ Done

GraphSpec == GraphInit /\ [][GraphNext]_graphVars

\* detect_cycle is called and runs to its end without an await.
GraphFairness == WF_graphVars(Search)

-----------------------------------------------------------------------------
\* Properties

\* A set of clients each of which waits for another member.
Deadlocked(S) == S # {} /\ \A c \in S : graph[c] \cap S # {}

\* What detect_cycle returns is a walk along edges of the graph that ends at a
\* node it has passed before: it contains a cycle.
CycleIsReal ==
    phase = "found" =>
        /\ \A i \in 1..(Len(cycle) - 1) : cycle[i + 1] \in graph[cycle[i]]
        /\ \E i \in 1..(Len(cycle) - 1) : cycle[i] = cycle[Len(cycle)]

\* When detect_cycle returns None, no set of clients waits for itself.
NoDeadlockMissed ==
    phase = "none" => \A S \in SUBSET Client : ~Deadlocked(S)

\* The steps the search has left at most: each client it has not visited is
\* entered and left once, each on the path is left, and then the search ends.
StepsLeft ==
    2 * Cardinality(Client \ visited) + Len(path)
        + (IF phase = "searching" THEN 1 ELSE 0)

\* Each step of the search uses one of them up: a search of n clients takes no
\* more than 2n + 1 steps, whatever the graph and the order of enumeration.
SearchShrinks == [][phase = "searching" => StepsLeft' < StepsLeft]_graphVars

\* The search ends, in whatever order it meets the clients.
SearchEnds == phase = "searching" ~> phase # "searching"
=============================================================================
