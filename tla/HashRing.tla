------------------------------- MODULE HashRing -------------------------------
(***************************************************************************)
(* ConsistentHashRing of src/src/services/queue_service.py.  What md5 does *)
(* with the names of virtual nodes and with keys is modelled by points of  *)
(* a circle: each server has its own, a key may have any.                  *)
(***************************************************************************)
EXTENDS Naturals, FiniteSets, SequencesExt

CONSTANTS
    Server,
    Points,     \* the size of the circle
    Virtual     \* virtual_nodes

ASSUME RingAssumption ==
    /\ IsFiniteSet(Server)
    /\ Points \in Nat \ {0} /\ Virtual \in Nat \ {0}

VARIABLES
    place,      \* the points of each server, which never change
    nodes,      \* the servers in the ring
    ring        \* the server at each point in use
ringVars == <<place, nodes, ring>>

Point == 0..(Points - 1)

Lowest(S) == CHOOSE x \in S : \A y \in S : x <= y
Sorted(S) == [i \in 1..Cardinality(S) |->
                CHOOSE x \in S : Cardinality({y \in S : y <= x}) = i]

\* The ring of a set of servers.
BuildRing(S) ==
    [x \in UNION {place[s] : s \in S} |-> CHOOSE s \in S : x \in place[s]]

\* The ring gives the points of its servers, and no others, to one of them.
RingTypeOK ==
    /\ place \in [Server -> SUBSET Point]
    /\ nodes \subseteq Server
    /\ ring \in [UNION {place[s] : s \in nodes} -> nodes]

RingInit ==
    /\ place \in [Server -> {S \in SUBSET Point : Cardinality(S) = Virtual}]
    /\ \A s, t \in Server : s # t => place[s] \cap place[t] = {}
    /\ nodes \in SUBSET Server
    /\ ring = BuildRing(nodes)

-----------------------------------------------------------------------------
\* The points in use from k on.
From(k) == {x \in DOMAIN ring : k <= x}

\* Variant: keys are spread over the points by their remainder.
NodeByRemainder(k) ==
    LET points == Sorted(DOMAIN ring) IN ring[points[1 + (k % Len(points))]]

GetNode(k) ==
    ring[Lowest(IF From(k) # {} THEN From(k) ELSE DOMAIN ring)]

\* Variant: the search ends with the last point.
WalkToEnd(k) == Sorted(From(k)) \o Sorted(From(k))

\* The points in the order get_replicas looks at them.
Walk(k) == Sorted(From(k)) \o Sorted(From(k)) \o Sorted(DOMAIN ring)

GetReplicas(k, count) ==
    FoldLeft(LAMBDA found, x :
                 IF Len(found) >= count \/ ring[x] \in ToSet(found) THEN found
                 ELSE Append(found, ring[x]),
             <<>>, Walk(k))

AddNode(s) ==
    /\ s \notin nodes
    /\ nodes' = nodes \cup {s}
    /\ ring' = BuildRing(nodes')
    /\ UNCHANGED place

\* Variant: the points of the server stay in the ring.
RemoveNodeOnly(s) ==
    /\ s \in nodes
    /\ nodes' = nodes \ {s}
    /\ UNCHANGED <<place, ring>>

RemoveNode(s) ==
    /\ s \in nodes
    /\ nodes' = nodes \ {s}
    /\ ring' = BuildRing(nodes')
    /\ UNCHANGED place

\* recover_from_failure removes the server that failed; what it then finds out
\* about the replicas of unacknowledged messages it only writes to its log.
RecoverFromFailure(s) == RemoveNode(s)

RingNext == \E s \in Server : AddNode(s) \/ RecoverFromFailure(s)

RingSpec == RingInit /\ [][RingNext]_ringVars

-----------------------------------------------------------------------------
\* Properties

\* How far it is clockwise from k to the first point of server s.
Distance(k, s) == Lowest({(x + Points - k) % Points : x \in place[s]})

\* The replicas of a key are distinct, as many as asked for or as there are, and
\* those nearest to it clockwise, the nearest first, which is the node get_node
\* names: for every layout, key and number, past the end of the circle too.
ReplicasAreNearest ==
    \A k \in Point, count \in 0..Cardinality(Server) :
        LET found == GetReplicas(k, count)
            chosen == ToSet(found)
        IN
        /\ Len(found) = IF count < Cardinality(nodes) THEN count ELSE Cardinality(nodes)
        /\ chosen \subseteq nodes
        /\ \A i, j \in DOMAIN found : i < j => Distance(k, found[i]) < Distance(k, found[j])
        /\ \A s \in chosen, t \in nodes \ chosen : Distance(k, s) < Distance(k, t)
        /\ found # <<>> => found[1] = GetNode(k)

\* A key changes its node only if that node left or the new one came: the
\* others keep what they have (add_node, remove_node).
KeysStay ==
    [][\A k \in Point :
          ring # <<>> /\ ring' # <<>> /\ GetNode(k)' # GetNode(k)
              => GetNode(k) \notin nodes' \/ GetNode(k)' \notin nodes]_ringVars
=============================================================================
