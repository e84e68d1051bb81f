--------------------------- MODULE WaitGraphProofs ---------------------------
(***************************************************************************)
(* Theorems about WaitGraph: the depth-first search of detect_cycle is     *)
(* sound and complete for every finite set of clients and every order in   *)
(* which Python enumerates them.                                           *)
(***************************************************************************)
EXTENDS WaitGraph, SequenceTheorems, FiniteSetTheorems, TLAPS

\* The search has left c: neither c nor anything reachable from it is on a cycle.
Finished(c) == c \in visited /\ ~OnPath(c)

\* The calls under way form a walk without repetitions through visited clients.
PathIsWalk ==
    /\ \A i \in 1..Len(path) : path[i] \in visited
    /\ \A i, j \in 1..Len(path) : path[i] = path[j] => i = j
    /\ \A i \in 1..(Len(path) - 1) : path[i + 1] \in graph[path[i]]

\* What a finished client waits for is finished.
FinishedClosed ==
    \A c \in Client : Finished(c) => \A d \in graph[c] : Finished(d)

\* No deadlock lies among the finished clients.
FinishedFree ==
    \A S \in SUBSET Client :
        (\A c \in S : Finished(c)) => ~Deadlocked(S)

\* The state of the search is that of its phase.
PhaseInv ==
    /\ phase = "idle" => visited = {} /\ path = <<>>
    /\ phase = "none" =>
         /\ path = <<>>
         /\ \A c \in Client : c \in visited \/ graph[c] = {}

SearchInv ==
    /\ GraphTypeOK
    /\ PathIsWalk
    /\ FinishedClosed
    /\ FinishedFree
    /\ PhaseInv
    /\ CycleIsReal

-----------------------------------------------------------------------------
\* The path is one of clients.
LEMMA PathOfClients ==
    ASSUME GraphTypeOK
    PROVE  path \in Seq(Client)
BY DEF GraphTypeOK

\* Changes of the graph and of the phase leave the variables well typed.
LEMMA TypeStep ==
    ASSUME GraphTypeOK, [GraphNext]_graphVars
    PROVE  GraphTypeOK'
<1> USE DEF GraphTypeOK
<1>1. CASE \E w, h \in Client : AddEdge(w, h)
  BY <1>1 DEF AddEdge
<1>2. CASE \E w \in Client : RemoveEdges(w)
  BY <1>2 DEF RemoveEdges
<1>3. CASE Start
  BY <1>3 DEF Start
<1>4. ASSUME NEW c \in Client, Enter(c)
      PROVE  GraphTypeOK'
  <2>1. path \in Seq(visited') /\ c \in visited'
    BY <1>4, SeqDef DEF Enter
  <2>2. Append(path, c) \in Seq(visited')
    BY <2>1, AppendProperties
  <2> QED
    BY <1>4, <2>2 DEF Enter
<1>5. CASE \E c \in Client : EnterRoot(c) \/ EnterNeighbour(c)
  BY <1>4, <1>5 DEF EnterRoot, EnterNeighbour
<1>6. CASE \E c \in Client : Found(c)
  BY <1>6, PathOfClients DEF Found
<1>7. CASE Leave
  <2>1. Len(path) - 1 \in 0..Len(path)
    BY <1>7 DEF Leave
  <2>2. \A i \in 1..(Len(path) - 1) : path[i] \in visited
    BY <2>1
  <2>3. path' \in Seq(visited)
    BY <1>7, <2>1, <2>2, SubSeqProperties DEF Leave
  <2> QED
    BY <1>7, <2>3 DEF Leave
<1>8. CASE NoneFound
  BY <1>8 DEF NoneFound
<1>9. CASE Done
  BY <1>9 DEF Done
<1>10. CASE UNCHANGED graphVars
  BY <1>10 DEF graphVars
<1> QED
  BY <1>1, <1>2, <1>3, <1>5, <1>6, <1>7, <1>8, <1>9, <1>10 DEF GraphNext, Search

\* An empty path and no visited client satisfy all that is said of them.
LEMMA FreshSearch ==
    ASSUME visited = {}, path = <<>>
    PROVE  PathIsWalk /\ FinishedClosed /\ FinishedFree
<1>1. Len(path) = 0
  OBVIOUS
<1>2. \A c : ~Finished(c)
  BY DEF Finished
<1> QED
  BY <1>1, <1>2 DEF PathIsWalk, FinishedClosed, FinishedFree, Deadlocked

\* A call of dfs begins: its client is on the path, and none is finished that
\* was not before.
LEMMA EnterStep ==
    ASSUME GraphTypeOK, PathIsWalk, FinishedClosed, FinishedFree,
           NEW c \in Client, Enter(c), path # <<>> => c \in graph[Top]
    PROVE  PathIsWalk' /\ FinishedClosed' /\ FinishedFree'
<1> DEFINE n == Len(path)
<1>1. /\ n \in Nat /\ path' = Append(path, c) /\ Len(path') = n + 1
      /\ path'[n + 1] = c
      /\ \A i \in 1..n : path'[i] = path[i]
      /\ graph' = graph /\ visited' = visited \cup {c} /\ c \notin visited
  BY DEF Enter, GraphTypeOK
<1>2. \A d : Finished(d)' <=> Finished(d)
  <2>1. \A d : OnPath(d)' <=> OnPath(d) \/ d = c
    <3>1. \A i \in 1..(n + 1) : i \in 1..n \/ i = n + 1
      BY <1>1
    <3>2. 1..n \subseteq 1..(n + 1) /\ n + 1 \in 1..(n + 1)
      BY <1>1
    <3> QED
      BY <1>1, <3>1, <3>2 DEF OnPath
  <2> QED
    BY <1>1, <2>1 DEF Finished
<1>3. PathIsWalk'
  <2>1. \A i \in 1..(n + 1) : path'[i] \in visited'
    BY <1>1 DEF PathIsWalk
  <2>2. \A i, j \in 1..(n + 1) : path'[i] = path'[j] => i = j
    <3> SUFFICES ASSUME NEW i \in 1..(n + 1), NEW j \in 1..(n + 1),
                        path'[i] = path'[j]
                 PROVE  i = j
      OBVIOUS
    <3>1. CASE i \in 1..n /\ j \in 1..n
      BY <1>1, <3>1 DEF PathIsWalk
    <3>2. CASE i \in 1..n /\ j = n + 1
      BY <1>1, <3>2 DEF PathIsWalk
    <3>3. CASE i = n + 1 /\ j \in 1..n
      BY <1>1, <3>3 DEF PathIsWalk
    <3> QED
      BY <1>1, <3>1, <3>2, <3>3
  <2>3. \A i \in 1..n : path'[i + 1] \in graph'[path'[i]]
    <3> SUFFICES ASSUME NEW i \in 1..n
                 PROVE  path'[i + 1] \in graph'[path'[i]]
      OBVIOUS
    <3>1. CASE i = n
      BY <1>1, <3>1 DEF Top
    <3>2. CASE i # n
      <4>1. i \in 1..(n - 1) /\ i + 1 \in 1..n
        BY <1>1, <3>2
      <4> QED
        BY <1>1, <4>1 DEF PathIsWalk
    <3> QED
      BY <3>1, <3>2
  <2>4. (n + 1) - 1 = n
    BY <1>1
  <2> QED
    BY <1>1, <2>1, <2>2, <2>3, <2>4 DEF PathIsWalk
<1>4. FinishedClosed' /\ FinishedFree'
  BY <1>1, <1>2 DEF FinishedClosed, FinishedFree, Deadlocked
<1> QED
  BY <1>3, <1>4

\* A call of dfs ends without a cycle.  Its client joins the finished ones; a
\* deadlock it would complete is one already without it, since a finished
\* client waits for none that is still on the path.
LEMMA LeaveStep ==
    ASSUME GraphTypeOK, PathIsWalk, FinishedClosed, FinishedFree, Leave
    PROVE  PathIsWalk' /\ FinishedClosed' /\ FinishedFree'
<1> DEFINE n == Len(path)
<1> PICK x \in Client : x = path[n]
  BY EmptySeq DEF Leave, GraphTypeOK
<1>1. /\ n \in Nat /\ n > 0 /\ x = path[n] /\ x \in visited
      /\ Len(path') = n - 1
      /\ \A i \in 1..(n - 1) : path'[i] = path[i]
      /\ graph' = graph /\ visited' = visited
  <2>1. n \in Nat /\ n > 0
    BY EmptySeq DEF Leave, GraphTypeOK
  <2>2. n \in 1..n /\ n - 1 \in 0..n
    BY <2>1
  <2>3. \A i \in 1..(n - 1) : path[i] \in Client
    BY <2>1 DEF GraphTypeOK
  <2>4. Len(path') = n - 1 /\ \A i \in 1..(n - 1) : path'[i] = path[i]
    <3> DEFINE m == n - 1
    <3>1. m \in Int /\ m >= 0 /\ m - 1 + 1 = m /\ \A i \in Int : 1 + i - 1 = i
      BY <2>1
    <3>2. path' = SubSeq(path, 1, m)
      BY DEF Leave
    <3> HIDE DEF m
    <3>3. /\ Len(path') = IF 1 <= m THEN m - 1 + 1 ELSE 0
          /\ \A i \in 1..(m - 1 + 1) : path'[i] = path[1 + i - 1]
      BY <2>3, <3>1, <3>2, SubSeqProperties DEF m
    <3>4. Len(path') = m
      BY <3>1, <3>3
    <3>5. \A i \in 1..m : path'[i] = path[i]
      BY <3>1, <3>3
    <3> QED
      BY <3>4, <3>5 DEF m
  <2> QED
    BY <2>1, <2>2, <2>4 DEF Leave, GraphTypeOK, PathIsWalk
<1>2. 1..(n - 1) \subseteq 1..n /\ \A i \in 1..n : i \in 1..(n - 1) \/ i = n
  BY <1>1
<1>3. ~OnPath(x)' /\ \A d : d # x => (OnPath(d)' <=> OnPath(d))
  <2>1. n \in 1..n /\ n \notin 1..(n - 1)
    BY <1>1
  <2>2. ~OnPath(x)'
    <3> SUFFICES ASSUME NEW i \in 1..(n - 1), path'[i] = x
                 PROVE  FALSE
      BY <1>1 DEF OnPath
    <3>1. i \in 1..n /\ path[i] = path[n]
      BY <1>1, <1>2
    <3>2. i = n
      BY <2>1, <3>1 DEF PathIsWalk
    <3> QED
      BY <2>1, <3>2
  <2>3. \A d : d # x => (OnPath(d)' <=> OnPath(d))
    BY <1>1, <1>2 DEF OnPath
  <2> QED
    BY <2>2, <2>3
<1>4. \A d : Finished(d)' <=> Finished(d) \/ d = x
  <2>1. Finished(x)'
    BY <1>1, <1>3 DEF Finished
  <2>2. ASSUME NEW d, d # x
        PROVE  Finished(d)' <=> Finished(d)
    BY <1>1, <1>3, <2>2 DEF Finished
  <2> QED
    BY <2>1, <2>2
<1>5. ~Finished(x)
  BY <1>1 DEF Finished, OnPath
<1>6. \A d \in graph[x] : Finished(d)
  BY DEF Leave, NeighboursDone, Top, Finished
<1>7. PathIsWalk'
  <2>1. \A i \in 1..((n - 1) - 1) : i \in 1..(n - 1) /\ i + 1 \in 1..(n - 1)
    BY <1>1
  <2>2. \A i \in 1..(n - 1) : path'[i] \in visited'
    BY <1>1, <1>2 DEF PathIsWalk
  <2>3. \A i, j \in 1..(n - 1) : path'[i] = path'[j] => i = j
    BY <1>1, <1>2 DEF PathIsWalk
  <2>4. \A i \in 1..((n - 1) - 1) : path'[i + 1] \in graph'[path'[i]]
    BY <1>1, <2>1 DEF PathIsWalk
  <2> QED
    BY <1>1, <2>2, <2>3, <2>4 DEF PathIsWalk
<1>8. FinishedClosed'
  BY <1>1, <1>4, <1>6 DEF FinishedClosed
<1>9. FinishedFree'
  <2> SUFFICES ASSUME NEW S \in SUBSET Client, \A c \in S : Finished(c)',
                      Deadlocked(S)
               PROVE  FALSE
    BY <1>1 DEF FinishedFree, Deadlocked
  <2>1. \A c \in S : graph[c] \cap S # {}
    BY DEF Deadlocked
  <2>2. \A c \in S : \A d \in graph[c] : Finished(d)
    BY <1>4, <1>6 DEF FinishedClosed
  <2>3. \A c \in S : graph[c] \cap (S \ {x}) # {}
    BY <1>5, <2>1, <2>2
  <2>4. S \ {x} # {} /\ \A c \in S \ {x} : Finished(c)
    BY <1>4, <2>3 DEF Deadlocked
  <2> QED
    BY <2>3, <2>4 DEF FinishedFree, Deadlocked
<1> QED
  BY <1>7, <1>8, <1>9

\* The path that dfs returns ends at a client it has passed.
LEMMA FoundStep ==
    ASSUME GraphTypeOK, PathIsWalk, NEW c \in Client, Found(c)
    PROVE  CycleIsReal'
<1> DEFINE n == Len(path)
<1>1. /\ n \in Nat /\ n > 0 /\ cycle' = Append(path, c) /\ Len(cycle') = n + 1
      /\ cycle'[n + 1] = c
      /\ \A i \in 1..n : cycle'[i] = path[i]
      /\ graph' = graph /\ c \in graph[path[n]] /\ OnPath(c)
  BY EmptySeq DEF Found, GraphTypeOK, ClosesCycle, Top
<1>2. (n + 1) - 1 = n
  BY <1>1
<1>3. \A i \in 1..n : cycle'[i + 1] \in graph'[cycle'[i]]
  <2> SUFFICES ASSUME NEW i \in 1..n
               PROVE  cycle'[i + 1] \in graph'[cycle'[i]]
    OBVIOUS
  <2>1. CASE i = n
    BY <1>1, <2>1
  <2>2. CASE i # n
    <3>1. i \in 1..(n - 1) /\ i + 1 \in 1..n
      BY <1>1, <2>2
    <3> QED
      BY <1>1, <3>1 DEF PathIsWalk
  <2> QED
    BY <2>1, <2>2
<1>4. \E i \in 1..n : cycle'[i] = cycle'[n + 1]
  BY <1>1 DEF OnPath
<1> QED
  BY <1>1, <1>2, <1>3, <1>4 DEF CycleIsReal

-----------------------------------------------------------------------------
\* No search is under way at the start.
LEMMA SearchInvInit == GraphInit => SearchInv
<1> SUFFICES ASSUME GraphInit
             PROVE  SearchInv
  OBVIOUS
<1>1. GraphTypeOK /\ PhaseInv /\ CycleIsReal
  BY DEF GraphInit, GraphTypeOK, PhaseInv, CycleIsReal
<1>2. PathIsWalk /\ FinishedClosed /\ FinishedFree
  BY FreshSearch DEF GraphInit
<1> QED
  BY <1>1, <1>2 DEF SearchInv

\* add_edge, remove_edges and every step of detect_cycle keep what the search
\* knows.
LEMMA SearchInvStep == SearchInv /\ [GraphNext]_graphVars => SearchInv'
<1> SUFFICES ASSUME SearchInv, [GraphNext]_graphVars
             PROVE  SearchInv'
  OBVIOUS
<1> USE DEF SearchInv
<1>1. GraphTypeOK'
  BY TypeStep
<1> DEFINE Rest == PathIsWalk /\ FinishedClosed /\ FinishedFree
                   /\ PhaseInv /\ CycleIsReal
<1>2. ASSUME visited' = {}, path' = <<>>
      PROVE  (PathIsWalk /\ FinishedClosed /\ FinishedFree)'
  <2>1. Len(path') = 0
    BY <1>2
  <2>2. \A c : ~Finished(c)'
    BY <1>2 DEF Finished
  <2> QED
    BY <2>1, <2>2 DEF PathIsWalk, FinishedClosed, FinishedFree, Deadlocked
<1>3. CASE \E w, h \in Client : AddEdge(w, h)
  <2>1. phase = "idle" /\ UNCHANGED <<phase, visited, path, cycle>>
    BY <1>3 DEF AddEdge
  <2> QED
    BY <1>1, <1>2, <2>1 DEF PhaseInv, CycleIsReal
<1>4. CASE \E w \in Client : RemoveEdges(w)
  <2>1. phase = "idle" /\ UNCHANGED <<phase, visited, path, cycle>>
    BY <1>4 DEF RemoveEdges
  <2> QED
    BY <1>1, <1>2, <2>1 DEF PhaseInv, CycleIsReal
<1>5. ASSUME UNCHANGED <<graph, visited, path>>
      PROVE  (PathIsWalk /\ FinishedClosed /\ FinishedFree)'
  BY <1>5 DEF PathIsWalk, FinishedClosed, FinishedFree, Finished, OnPath,
              Deadlocked
<1>6. CASE Start
  BY <1>1, <1>5, <1>6 DEF Start, PhaseInv, CycleIsReal
<1>7. CASE \E c \in Client : EnterRoot(c) \/ EnterNeighbour(c)
  <2> PICK c \in Client : EnterRoot(c) \/ EnterNeighbour(c)
    BY <1>7
  <2>1. phase = "searching" /\ Enter(c) /\ (path # <<>> => c \in graph[Top])
    BY DEF EnterRoot, EnterNeighbour
  <2>2. PathIsWalk' /\ FinishedClosed' /\ FinishedFree'
    BY <2>1, EnterStep
  <2>3. PhaseInv' /\ CycleIsReal'
    BY <2>1 DEF Enter, PhaseInv, CycleIsReal
  <2> QED
    BY <1>1, <2>2, <2>3
<1>8. CASE \E c \in Client : Found(c)
  <2>1. CycleIsReal'
    BY <1>8, FoundStep
  <2>2. UNCHANGED <<graph, visited, path>> /\ phase' = "found"
    BY <1>8 DEF Found
  <2> QED
    BY <1>1, <1>5, <2>1, <2>2 DEF PhaseInv
<1>9. CASE Leave
  <2>1. PathIsWalk' /\ FinishedClosed' /\ FinishedFree'
    BY <1>9, LeaveStep
  <2>2. PhaseInv' /\ CycleIsReal'
    BY <1>9 DEF Leave, PhaseInv, CycleIsReal
  <2> QED
    BY <1>1, <2>1, <2>2
<1>10. CASE NoneFound
  BY <1>1, <1>5, <1>10 DEF NoneFound, PhaseInv, CycleIsReal
<1>11. CASE Done
  BY <1>1, <1>2, <1>11 DEF Done, PhaseInv, CycleIsReal
<1>12. CASE UNCHANGED graphVars
  BY <1>1, <1>5, <1>12 DEF graphVars, PhaseInv, CycleIsReal
<1> QED
  BY <1>3, <1>4, <1>6, <1>7, <1>8, <1>9, <1>10, <1>11, <1>12 DEF GraphNext, Search

\* The invariant of the search holds throughout.
LEMMA SearchInvHolds == GraphSpec => []SearchInv
BY SearchInvInit, SearchInvStep, PTL DEF GraphSpec

-----------------------------------------------------------------------------
\* The variables of LockWaitGraph and of detect_cycle keep their types.
THEOREM WaitGraphTypeCorrect == GraphSpec => []GraphTypeOK
<1>1. SearchInv => GraphTypeOK
  BY DEF SearchInv
<1> QED
  BY <1>1, SearchInvHolds, PTL

\* detect_cycle is sound: the list it returns runs along edges and ends in a
\* cycle.
THEOREM CyclesAreReal == GraphSpec => []CycleIsReal
<1>1. SearchInv => CycleIsReal
  BY DEF SearchInv
<1> QED
  BY <1>1, SearchInvHolds, PTL

\* detect_cycle is complete: it returns None only when no set of clients waits
\* for itself.
THEOREM NoDeadlocksAreMissed == GraphSpec => []NoDeadlockMissed
<1>1. SearchInv => NoDeadlockMissed
  <2> SUFFICES ASSUME SearchInv, phase = "none",
                      NEW S \in SUBSET Client, Deadlocked(S)
               PROVE  FALSE
    BY DEF NoDeadlockMissed
  <2>1. \A c \in S : Finished(c)
    BY DEF SearchInv, PhaseInv, Deadlocked, Finished, OnPath
  <2> QED
    BY <2>1 DEF SearchInv, FinishedFree
<1> QED
  BY <1>1, SearchInvHolds, PTL

\* detect_cycle ends for every finite set of clients: it cannot take more than
\* StepsLeft further steps, two for each client and one to return.
THEOREM SearchAlwaysShrinks == GraphSpec => SearchShrinks
<1>1. SearchInv /\ [GraphNext]_graphVars
        => [phase = "searching" => StepsLeft' < StepsLeft]_graphVars
  <2> SUFFICES ASSUME GraphTypeOK, GraphNext, phase = "searching"
               PROVE  StepsLeft' < StepsLeft
    BY DEF SearchInv
  <2> DEFINE New == Client \ visited
  <2>1. IsFiniteSet(New) /\ Cardinality(New) \in Nat
    BY ClientAssumption, FS_Subset, FS_CardinalityType
  <2>2. Len(path) \in Nat
    BY DEF GraphTypeOK
  <2>3. ASSUME NEW c \in Client, Enter(c)
        PROVE  StepsLeft' < StepsLeft
    <3>1. Client \ visited' = New \ {c} /\ c \in New
      BY <2>3 DEF Enter
    <3>2. /\ Cardinality(New \ {c}) = Cardinality(New) - 1
          /\ Cardinality(New \ {c}) \in Nat
      BY <2>1, <3>1, FS_RemoveElement, FS_CardinalityType
    <3>3. Len(path') = Len(path) + 1 /\ phase' = "searching"
      BY <2>3 DEF Enter, GraphTypeOK
    <3> DEFINE k == Cardinality(New \ {c})
               m == Len(path)
    <3>4. k \in Nat /\ m \in Nat
      BY <2>2, <3>2
    <3>5. Cardinality(New) = k + 1
      BY <2>1, <3>2
    <3>6. StepsLeft = 2 * (k + 1) + m + 1
      BY <3>5 DEF StepsLeft
    <3>7. StepsLeft' = 2 * k + (m + 1) + 1
      BY <3>1, <3>3 DEF StepsLeft
    <3> HIDE DEF k, m
    <3> QED
      BY <3>4, <3>6, <3>7
  <2>4. ASSUME UNCHANGED <<visited, path>>, phase' # "searching"
        PROVE  StepsLeft' < StepsLeft
    BY <2>1, <2>2, <2>4 DEF StepsLeft
  <2>5. CASE Leave
    <3>1. Len(path) > 0
      BY <2>2, <2>5, EmptySeq DEF Leave, GraphTypeOK
    <3>2. Len(path') = Len(path) - 1
      <4> DEFINE m == Len(path) - 1
      <4>1. m \in Nat /\ m <= Len(path)
        BY <2>2, <3>1
      <4>2. path' = SubSeq(path, 1, m)
        BY <2>5 DEF Leave
      <4> HIDE DEF m
      <4>3. Len(SubSeq(path, 1, m)) = m
        BY <4>1 DEF GraphTypeOK
      <4> QED
        BY <4>2, <4>3 DEF m
    <3>3. visited' = visited /\ phase' = "searching"
      BY <2>5 DEF Leave
    <3> QED
      BY <2>1, <2>2, <3>1, <3>2, <3>3 DEF StepsLeft
  <2>6. CASE \E c \in Client : EnterRoot(c) \/ EnterNeighbour(c)
    BY <2>3, <2>6 DEF EnterRoot, EnterNeighbour
  <2>7. CASE NoneFound \/ \E c \in Client : Found(c)
    BY <2>4, <2>7 DEF NoneFound, Found
  <2> QED
    BY <2>5, <2>6, <2>7 DEF GraphNext, Search, AddEdge, RemoveEdges, Start, Done
<1> QED
  BY <1>1, SearchInvHolds, PTL DEF GraphSpec, SearchShrinks
=============================================================================
