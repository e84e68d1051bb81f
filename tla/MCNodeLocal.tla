----------------------------- MODULE MCNodeLocal -----------------------------
(* Instances for TLC of what nodes do without the log: AuditLog, HashRing and *)
(* WaitGraph side by side. *)
EXTENDS AuditLog, HashRing, WaitGraph, TLC

Init == AuditInit /\ RingInit /\ GraphInit

\* One of the layouts; only the ring looks at it.
Layout ==
    CHOOSE p \in [Server -> {S \in SUBSET Point : Cardinality(S) = Virtual}] :
        \A s, t \in Server : s # t => p[s] \cap p[t] = {}
RingRests == nodes = {} /\ place = Layout
AuditRests == made = 0
GraphRests == phase = "idle" /\ \A c \in Client : graph[c] = {}

\* They share nothing: it is enough that one moves while the others rest.
Next ==
    \/ RingRests /\ GraphRests /\ AuditNext /\ UNCHANGED <<ringVars, graphVars>>
    \/ AuditRests /\ GraphRests /\ RingNext /\ UNCHANGED <<auditVars, graphVars>>
    \/ AuditRests /\ RingRests /\ GraphNext /\ UNCHANGED <<auditVars, ringVars>>

Spec == Init /\ [][Next]_<<auditVars, ringVars, graphVars>>

FairSpec == Spec /\ GraphFairness

TypeOK == AuditTypeOK /\ RingTypeOK /\ GraphTypeOK
=============================================================================
