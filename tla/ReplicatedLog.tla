---------------------------- MODULE ReplicatedLog ----------------------------
(***************************************************************************)
(* What a Raft cluster with one leader promises to the components that     *)
(* register an on_commit callback: there is one order of the commands, and *)
(* every node is handed prefixes of it, the leader first.  A process that  *)
(* follows may die; the new one is handed the order from its beginning.    *)
(***************************************************************************)
EXTENDS Naturals, Sequences

CONSTANTS Node, Nil, Cmd

VARIABLES
    leader,      \* the node that leads, Nil before one does
    order,       \* the commands in the order the leader appended them
    delivered    \* per node, the commands handed to its callbacks so far
vars == <<leader, order, delivered>>

TypeOK ==
    /\ leader \in Node \cup {Nil}
    /\ order \in Seq(Cmd)
    /\ delivered \in [Node -> Seq(Cmd)]

Init ==
    /\ leader \in Node \cup {Nil}
    /\ order = <<>>
    /\ delivered = [n \in Node |-> <<>>]

Elect(n) ==
    /\ leader = Nil
    /\ leader' = n
    /\ UNCHANGED <<order, delivered>>

Propose(c) ==
    /\ leader # Nil
    /\ \A i \in 1..Len(order) : order[i] # c
    /\ order' = Append(order, c)
    /\ UNCHANGED <<leader, delivered>>

\* The leader commits a longer prefix of the order, another node learns of a
\* longer prefix of what the leader has committed.
Deliver(n, k) ==
    /\ leader # Nil
    /\ k > Len(delivered[n])
    /\ n # leader => k <= Len(delivered[leader])
    /\ delivered' = [delivered EXCEPT ![n] = SubSeq(order, 1, k)]
    /\ UNCHANGED <<leader, order>>

\* A node other than the leader dies and starts again with nothing.
Rejoin(n) ==
    /\ leader # Nil /\ n # leader
    /\ delivered' = [delivered EXCEPT ![n] = <<>>]
    /\ UNCHANGED <<leader, order>>

Next ==
    \/ \E n \in Node : Elect(n) \/ Rejoin(n)
    \/ \E c \in Cmd : Propose(c)
    \/ \E n \in Node, k \in 1..Len(order) : Deliver(n, k)

Spec == Init /\ [][Next]_vars
=============================================================================
