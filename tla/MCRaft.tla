------------------------------- MODULE MCRaft -------------------------------
(* Instances of Raft for TLC. *)
EXTENDS RaftOneLeader, TLC

Symmetry == Permutations(Node) \cup Permutations(Cmd)

(***************************************************************************)
(* Reachable states to start longer behaviours from: n timed out,          *)
(* campaigned through the processor of app.py, got every vote and leads    *)
(* term 2; its election timer has lapsed; it has appended the commands in  *)
(* cs and not sent them yet.                                               *)
(***************************************************************************)
Led(n, cs) ==
    /\ currentTerm = [p \in Node |-> 2]
    /\ votedFor = [p \in Node |-> n]
    /\ state = [p \in Node |-> IF p = n THEN "leader" ELSE "follower"]
    /\ leaderId = [p \in Node |-> IF p = n THEN n ELSE Nil]
    /\ log = [p \in Node |->
                IF p = n THEN [i \in DOMAIN cs |-> [term |-> 2, cmd |-> cs[i]]]
                ELSE <<>>]
    /\ commitIndex = [p \in Node |-> -1]
    /\ applied = [p \in Node |-> <<>>]
    /\ nextIndex = [p \in Node |-> [q \in Node |-> 0]]
    /\ matchIndex = [p \in Node |-> [q \in Node |-> 0]]
    /\ timer = [p \in Node |-> p # n]
    /\ inProgress = [p \in Node |-> FALSE]
    /\ election = [p \in Node |-> "idle"]
    /\ granted = [p \in Node |-> {}]
    /\ pendingSend = {<<n, cs[i]>> : i \in DOMAIN cs}
    /\ voteReqs = {} /\ voteReplies = {}
    /\ appendReqs = {} /\ appendReplies = {}
    /\ issued = {cs[i] : i \in DOMAIN cs} /\ restarts = 0
    /\ ballots = {[voter |-> p, candidate |-> n, term |-> 2] : p \in Node}
         \cup {[voter |-> n, candidate |-> n, term |-> 1]}
    /\ elected = {[node |-> n, term |-> 2]}

SpecRejoin ==
    (\E n \in Node : Led(n, <<>>)) /\ [][Next /\ OneLeader]_vars

(***************************************************************************)
(* Two kinds of behaviours in one run: elections from the start, without   *)
(* entries and with MaxInFlight messages in flight; and replication from a *)
(* leader with an unsent entry, with one message in flight (a bound).      *)
(***************************************************************************)
SpecLeaders ==
    /\ Init \/ \E n \in Node, c \in Cmd : Led(n, <<c>>)
    /\ [][/\ Next
          /\ IF issued = {} THEN issued' = {} ELSE InFlight' <= 1]_vars
=============================================================================
