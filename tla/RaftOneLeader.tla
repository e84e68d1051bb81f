---------------------------- MODULE RaftOneLeader ----------------------------
(***************************************************************************)
(* Raft while one node leads: it may step down, campaign and be elected    *)
(* again, but nobody else is ever elected, and its process does not die.   *)
(* The processes of the other nodes may.  Such a cluster implements        *)
(* ReplicatedLog, which the services are built on.                         *)
(***************************************************************************)
EXTENDS Raft

OneLeader ==
    /\ \A e, f \in elected' : e.node = f.node
    /\ \A e \in elected : ~Restart(e.node)

OneLeaderSpec == Init /\ [][Next /\ OneLeader]_vars

\* The refinement mapping.
TheLeader == IF elected = {} THEN Nil ELSE (CHOOSE e \in elected : TRUE).node
Commands(entries) == [i \in DOMAIN entries |-> entries[i].cmd]
Order == IF elected = {} THEN <<>> ELSE Commands(log[TheLeader])
Delivered == [n \in Node |-> Commands(applied[n])]

Abstract == INSTANCE ReplicatedLog WITH
    leader <- TheLeader, order <- Order, delivered <- Delivered

\* While nobody else is elected, append requests that are lost, late,
\* reordered or overtaken by their successors, and followers that restart with
\* an empty log, never make a node apply anything but a prefix of the leader's
\* log, nor a follower anything the leader has not (_send_append_entries,
\* _handle_append_entries, _update_commit_index).
ImplementsReplicatedLog == Abstract!Spec
=============================================================================
