-------------------------------- MODULE Raft --------------------------------
(***************************************************************************)
(* The RaftNode of src/src/protocols/raft.py together with the background  *)
(* task of src/src/app.py that drives its elections.                       *)
(*                                                                         *)
(* A node is one asyncio process: code between two awaits that really      *)
(* suspend is one step.  The suspension points that matter are             *)
(*   - asyncio.gather over the vote requests (_start_election),            *)
(*   - asyncio.gather over the append requests, once per heartbeat round   *)
(*     and once per client request,                                        *)
(*   - the sleep of the election timer.                                    *)
(* Everything else an `await` names runs to its end without a switch.      *)
(*                                                                         *)
(* An RPC is an HTTP request that may be refused at once, be handled, be   *)
(* handled long after its caller has given up, or never be handled; its    *)
(* reply may be lost.  HTTP neither duplicates requests nor orders two     *)
(* requests of one caller.  A request whose caller still waits is `live`.  *)
(*                                                                         *)
(* An operator marked "Variant" is the definition after it with one        *)
(* mistake; it is used nowhere and shows that some property would notice.  *)
(*                                                                         *)
(* Log indices are the code's: the first entry has index 0 and lives in    *)
(* log[n][1]; an empty log ends at index -1.                               *)
(***************************************************************************)
EXTENDS Integers, FiniteSets, Sequences

CONSTANTS
    Node,                     \* the cluster: node_id and the peers of each node
    Nil,                      \* Python's None
    Cmd,                      \* client commands, each submitted at most once
    MaxCampaigns,             \* bound: campaigns in a behaviour, and so terms
    MaxRestarts,              \* bound: process restarts in a behaviour
    MaxInFlight,              \* bound: requests and replies in flight
    RequestOutlivesElection   \* may an election timer fire while a request of
                              \* an abandoned election is still awaited?  Yes
                              \* with the shipped configuration, whose
                              \* request_timeout 5.0 exceeds its
                              \* election_timeout_min 1.5; no in a deployment
                              \* that keeps the former below the latter.

ASSUME NodeAssumption ==
    IsFiniteSet(Node) /\ Cardinality(Node) >= 2 /\ Nil \notin Node
ASSUME CmdAssumption == Nil \notin Cmd
ASSUME BoundAssumption ==
    /\ MaxCampaigns \in Nat /\ MaxRestarts \in Nat /\ MaxInFlight \in Nat
    /\ RequestOutlivesElection \in BOOLEAN

VARIABLES
    currentTerm, votedFor, state, leaderId,   \* RaftNode's election state
    log, commitIndex,                         \* its log
    applied,        \* entries handed to the on_commit callbacks, in order;
                    \* last_applied is Len(applied[n]) - 1
    nextIndex, matchIndex,                    \* leader state
    timer,          \* is an _election_timeout_handler task asleep?
    inProgress,     \* _election_in_progress
    election,       \* where the election task of app.py is suspended
    granted,        \* peers whose vote request of that election returned True
    pendingSend,    \* <<n, c>>: append_entry(c) has appended, not yet sent
    voteReqs, voteReplies, appendReqs, appendReplies,   \* the network
    issued, restarts,                         \* bookkeeping for the bounds
    ballots,        \* history: votes cast, own vote included
    elected         \* history: calls of _become_leader

nodeVars    == <<currentTerm, votedFor, state, leaderId>>
logVars     == <<log, commitIndex, applied>>
leaderVars  == <<nextIndex, matchIndex>>
taskVars    == <<timer, inProgress, election, granted, pendingSend>>
voteNet     == <<voteReqs, voteReplies>>
appendNet   == <<appendReqs, appendReplies>>
historyVars == <<issued, restarts, ballots, elected>>
vars == <<nodeVars, logVars, leaderVars, taskVars, voteNet, appendNet,
          historyVars>>

-----------------------------------------------------------------------------
\* Types

Entry == [term : Nat, cmd : Cmd]
Index == Nat \cup {-1}
VoteRequest == [src : Node, dst : Node, term : Nat,
                lastIndex : Index, lastTerm : Nat, live : BOOLEAN]
VoteReply == [src : Node, dst : Node, term : Nat, granted : BOOLEAN]
\* origin is Nil for a heartbeat round and the command for append_entry.
AppendRequest == [src : Node, dst : Node, term : Nat,
                  prevIndex : Index, prevTerm : Nat, entries : Seq(Entry),
                  commit : Index, origin : Cmd \cup {Nil}, live : BOOLEAN]
\* match is the caller's own prev_log_index + len(entries), kept across await.
AppendReply == [src : Node, dst : Node, term : Nat, success : BOOLEAN,
                match : Index, origin : Cmd \cup {Nil}]

\* Every variable of every node stays in its type.
TypeOK ==
    /\ currentTerm \in [Node -> Nat]
    /\ votedFor \in [Node -> Node \cup {Nil}]
    /\ state \in [Node -> {"follower", "candidate", "leader"}]
    /\ leaderId \in [Node -> Node \cup {Nil}]
    /\ log \in [Node -> Seq(Entry)]
    /\ commitIndex \in [Node -> Index]
    /\ applied \in [Node -> Seq(Entry)]
    /\ nextIndex \in [Node -> [Node -> Nat]]
    /\ matchIndex \in [Node -> [Node -> Nat]]
    /\ timer \in [Node -> BOOLEAN]
    /\ inProgress \in [Node -> BOOLEAN]
    /\ election \in [Node -> {"idle", "starting", "voting"}]
    /\ granted \in [Node -> SUBSET Node]
    /\ pendingSend \subseteq Node \X Cmd
    /\ voteReqs \subseteq VoteRequest
    /\ voteReplies \subseteq VoteReply
    /\ appendReqs \subseteq AppendRequest
    /\ appendReplies \subseteq AppendReply
    /\ issued \subseteq Cmd
    /\ restarts \in Nat
    /\ ballots \subseteq [voter : Node, candidate : Node, term : Nat]
    /\ elected \subseteq [node : Node, term : Nat]

-----------------------------------------------------------------------------
\* Helpers

Peers(n) == Node \ {n}

Larger(a, b) == IF a > b THEN a ELSE b
Smaller(a, b) == IF a < b THEN a ELSE b

\* Variant: half of the nodes.
HalfQuorum == Cardinality(Node) \div 2

\* _quorum_size
QuorumSize == (Cardinality(Node) \div 2) + 1

LastIndex(lg) == Len(lg) - 1
LastTerm(lg) == IF lg = <<>> THEN 0 ELSE lg[Len(lg)].term

\* Variant: the term of any message is adopted.
AnyTerm(n, r) == r.term

\* handle_message adopts the term of a newer message first.
TermAfter(n, r) == Larger(r.term, currentTerm[n])
VoteAfter(n, r) == IF r.term > currentTerm[n] THEN Nil ELSE votedFor[n]

\* The comparison of the logs in _handle_request_vote.
UpToDate(r, lg) ==
    \/ r.lastTerm > LastTerm(lg)
    \/ r.lastTerm = LastTerm(lg) /\ r.lastIndex >= LastIndex(lg)

\* Variant: the vote already cast is not looked at.
GrantsAgain(n, r) == r.term >= currentTerm[n] /\ UpToDate(r, log[n])

\* Does _handle_request_vote grant the vote?
Grants(n, r) ==
    /\ r.term >= currentTerm[n]
    /\ VoteAfter(n, r) \in {Nil, r.src}
    /\ UpToDate(r, log[n])

\* Variant: a leader of the same or a later term stays one.
StepsDownForNewer(n, r) == r.term > currentTerm[n]

\* Does an append request make n call _become_follower?
StepsDown(n, r) == r.term > currentTerm[n] \/ state[n] # "follower"

\* Variant: unguarded.
BackOffBelow(i) == i - 1

\* next_index after a refusal.
BackOff(i) == IF i > 0 THEN i - 1 ELSE i

\* The prev_log_index / prev_log_term test of _handle_append_entries.
PrevMatches(r, lg) ==
    /\ r.prevIndex < Len(lg)
    /\ r.prevIndex = -1 \/ lg[r.prevIndex + 1].term = r.prevTerm

\* Variant: entries the log already holds are appended again.
AppendAgain(lg, prev, entries) == lg \o entries

\* The append loop of _handle_append_entries.  Entries the log already holds
\* (same index, same term) are left alone; the first other one makes the
\* request's entries replace the rest of the log.
MergeEntries(lg, prev, entries) ==
    LET end == prev + 1 + Len(entries)
        agrees(i) == i <= Len(lg) /\ lg[i].term = entries[i - prev - 1].term
    IN  IF \A i \in (prev + 2)..end : agrees(i) THEN lg
        ELSE [j \in 1..end |-> IF \A i \in (prev + 2)..j : agrees(i) THEN lg[j]
                              ELSE entries[j - prev - 1]]

\* Variant: starts from last_applied instead of the entry after it.
ApplyFromLast(done, lg, ci) ==
    done \o SubSeq(lg, Larger(Len(done), 1), ci + 1)

\* _apply_committed_entries with log lg and commit index ci.
ApplyCommitted(done, lg, ci) == done \o SubSeq(lg, Len(done) + 1, ci + 1)

\* Variant: one place further up.
UpperIndex(n, match) ==
    LET at(q) == IF q = n THEN LastIndex(log[n]) ELSE match[q]
        middle == Cardinality(Node) \div 2 + 1
    IN  CHOOSE v \in {at(q) : q \in Node} :
            /\ Cardinality({q \in Node : at(q) < v}) <= middle
            /\ Cardinality({q \in Node : at(q) <= v}) > middle

\* sorted(match indices of the peers + [len(log) - 1])[N // 2]
MedianIndex(n, match) ==
    LET at(q) == IF q = n THEN LastIndex(log[n]) ELSE match[q]
        middle == Cardinality(Node) \div 2
    IN  CHOOSE v \in {at(q) : q \in Node} :
            /\ Cardinality({q \in Node : at(q) < v}) <= middle
            /\ Cardinality({q \in Node : at(q) <= v}) > middle

\* A request nobody waits for any more; it may still arrive.
Abandoned(r) == [r EXCEPT !.live = FALSE]

\* Cancelling the heartbeat task of n abandons the requests of its round.
Cancelled(reqs, n) ==
    {IF r.src = n /\ r.origin = Nil THEN Abandoned(r) ELSE r : r \in reqs}
Unheard(replies, n) == {r \in replies : ~(r.src = n /\ r.origin = Nil)}

InFlight == Cardinality(voteReqs) + Cardinality(voteReplies)
              + Cardinality(appendReqs) + Cardinality(appendReplies)

-----------------------------------------------------------------------------
Init ==
    /\ currentTerm = [n \in Node |-> 0]
    /\ votedFor = [n \in Node |-> Nil]
    /\ state = [n \in Node |-> "follower"]
    /\ leaderId = [n \in Node |-> Nil]
    /\ log = [n \in Node |-> <<>>]
    /\ commitIndex = [n \in Node |-> -1]
    /\ applied = [n \in Node |-> <<>>]
    /\ nextIndex = [n \in Node |-> [p \in Node |-> 0]]
    /\ matchIndex = [n \in Node |-> [p \in Node |-> 0]]
    /\ timer = [n \in Node |-> TRUE]
    /\ inProgress = [n \in Node |-> FALSE]
    /\ election = [n \in Node |-> "idle"]
    /\ granted = [n \in Node |-> {}]
    /\ pendingSend = {}
    /\ voteReqs = {} /\ voteReplies = {}
    /\ appendReqs = {} /\ appendReplies = {}
    /\ issued = {} /\ restarts = 0
    /\ ballots = {} /\ elected = {}

-----------------------------------------------------------------------------
\* Elections

Campaigns == Cardinality({b \in ballots : b.voter = b.candidate})

\* The first, uninterrupted part of _start_election.  leader_id is kept.
Campaign(n) ==
    /\ Campaigns < MaxCampaigns
    /\ currentTerm' = [currentTerm EXCEPT ![n] = @ + 1]
    /\ state' = [state EXCEPT ![n] = "candidate"]
    /\ votedFor' = [votedFor EXCEPT ![n] = n]
    /\ timer' = [timer EXCEPT ![n] = TRUE]
    /\ ballots' = ballots \cup
         {[voter |-> n, candidate |-> n, term |-> currentTerm[n] + 1]}

\* The timer was set again when the election now under way began, so it fires
\* during that election only if a vote request outlives the timeout.
TimerMayFire(n) ==
    /\ timer[n]
    /\ election[n] = "idle" \/ (RequestOutlivesElection /\ election[n] = "voting")

\* The election timer fires.  _start_election then runs inside the timer task
\* and its _reset_election_timer cancels that very task, so the gather over
\* the vote requests is cancelled before any of them is sent: the node is
\* left a candidate of a new term with a fresh timer and no election under way.
ElectionTimeout(n) ==
    /\ TimerMayFire(n) /\ state[n] # "leader" /\ ~inProgress[n]
    /\ Campaign(n)
    /\ UNCHANGED <<leaderId, logVars, leaderVars, inProgress, election,
                   granted, pendingSend, voteNet, appendNet, issued, restarts,
                   elected>>

\* The timer fires on a leader or during an election: the task just ends.
ElectionTimerLapses(n) ==
    /\ TimerMayFire(n) /\ (state[n] = "leader" \/ inProgress[n])
    /\ timer' = [timer EXCEPT ![n] = FALSE]
    /\ UNCHANGED <<nodeVars, logVars, leaderVars, inProgress, election,
                   granted, pendingSend, voteNet, appendNet, historyVars>>

\* _raft_message_processor of app.py finds a candidate without an election and
\* starts one in its own task, which then awaits the vote requests.
StartElection(n) ==
    /\ election[n] = "idle" /\ state[n] = "candidate" /\ ~inProgress[n]
    /\ Campaign(n)
    /\ inProgress' = [inProgress EXCEPT ![n] = TRUE]
    /\ election' = [election EXCEPT ![n] = "starting"]
    /\ UNCHANGED <<leaderId, logVars, leaderVars, granted, pendingSend,
                   voteNet, appendNet, issued, restarts, elected>>

\* The tasks of gather start: each _request_vote_from_peer reads the term and
\* the log as they are now.  Peers outside reach refuse the connection.
RequestVotes(n) == \E reach \in SUBSET Peers(n) :
    /\ election[n] = "starting"
    /\ InFlight + Cardinality(reach) <= MaxInFlight
    /\ election' = [election EXCEPT ![n] = "voting"]
    /\ voteReqs' = voteReqs \cup
         {[src |-> n, dst |-> p, term |-> currentTerm[n],
           lastIndex |-> LastIndex(log[n]), lastTerm |-> LastTerm(log[n]),
           live |-> TRUE] : p \in reach}
    /\ UNCHANGED <<nodeVars, logVars, leaderVars, timer, inProgress, granted,
                   pendingSend, voteReplies, appendNet, historyVars>>

\* Variant: _election_in_progress is left set.
StillElecting(n, leader, reqs, replies) ==
    /\ state' = [state EXCEPT ![n] = "follower"]
    /\ leaderId' = [leaderId EXCEPT ![n] = leader]
    /\ timer' = [timer EXCEPT ![n] = TRUE]
    /\ appendReqs' = Cancelled(reqs, n)
    /\ appendReplies' = Unheard(replies, n)
    /\ UNCHANGED inProgress

\* Variant: only a candidate steps down.
StillLeading(n, leader, reqs, replies) ==
    /\ state' = [state EXCEPT ![n] = IF @ = "candidate" THEN "follower" ELSE @]
    /\ leaderId' = [leaderId EXCEPT ![n] = leader]
    /\ inProgress' = [inProgress EXCEPT ![n] = FALSE]
    /\ timer' = [timer EXCEPT ![n] = TRUE]
    /\ appendReqs' = Cancelled(reqs, n)
    /\ appendReplies' = Unheard(replies, n)

\* _become_follower, with the requests and replies of the append RPCs it may
\* abandon.
BecomeFollower(n, leader, reqs, replies) ==
    /\ state' = [state EXCEPT ![n] = "follower"]
    /\ leaderId' = [leaderId EXCEPT ![n] = leader]
    /\ inProgress' = [inProgress EXCEPT ![n] = FALSE]
    /\ timer' = [timer EXCEPT ![n] = TRUE]
    /\ appendReqs' = Cancelled(reqs, n)
    /\ appendReplies' = Unheard(replies, n)

\* handle_message for a vote request, _handle_request_vote included.
HandleRequestVote(r) ==
    LET n == r.dst
        grant == Grants(n, r)
        term == TermAfter(n, r)
    IN  /\ currentTerm' = [currentTerm EXCEPT ![n] = term]
        /\ votedFor' = [votedFor EXCEPT
                          ![n] = IF grant THEN r.src ELSE VoteAfter(n, r)]
        /\ IF r.term > currentTerm[n]
           THEN BecomeFollower(n, Nil, appendReqs, appendReplies)
           ELSE /\ timer' = [timer EXCEPT ![n] = @ \/ grant]
                /\ UNCHANGED <<state, leaderId, inProgress, appendNet>>
        /\ ballots' = IF grant THEN ballots \cup
                        {[voter |-> n, candidate |-> r.src, term |-> term]}
                      ELSE ballots
        /\ voteReqs' = voteReqs \ {r}
        /\ voteReplies' = IF r.live THEN voteReplies \cup
               {[src |-> r.src, dst |-> n, term |-> term, granted |-> grant]}
             ELSE voteReplies
        /\ UNCHANGED <<logVars, leaderVars, election, granted, pendingSend,
                       issued, restarts, elected>>

\* _request_vote_from_peer gets its response.
HandleVoteReply(r) ==
    LET n == r.src
    IN  /\ voteReplies' = voteReplies \ {r}
        /\ granted' = [granted EXCEPT
                         ![n] = IF r.granted THEN @ \cup {r.dst} ELSE @]
        /\ IF r.term > currentTerm[n]
           THEN /\ currentTerm' = [currentTerm EXCEPT ![n] = r.term]
                /\ votedFor' = [votedFor EXCEPT ![n] = Nil]
                /\ BecomeFollower(n, Nil, appendReqs, appendReplies)
           ELSE UNCHANGED <<nodeVars, timer, inProgress, appendNet>>
        /\ UNCHANGED <<logVars, leaderVars, election, pendingSend, voteReqs,
                       historyVars>>

\* Variant: there is no time limit.
NeverTimesOut(r) == r.live /\ FALSE

\* wait_for gives up on a vote request; the request may still arrive.
RequestVoteTimeout(r) ==
    /\ r.live
    /\ voteReqs' = (voteReqs \ {r}) \cup {Abandoned(r)}
    /\ UNCHANGED <<nodeVars, logVars, leaderVars, taskVars, voteReplies,
                   appendNet, historyVars>>

\* The response does not arrive in time.
VoteReplyLost(r) ==
    /\ voteReplies' = voteReplies \ {r}
    /\ UNCHANGED <<nodeVars, logVars, leaderVars, taskVars, voteReqs,
                   appendNet, historyVars>>

\* gather returns when every vote request has returned.
VotesIn(n) ==
    /\ election[n] = "voting"
    /\ \A r \in voteReqs : r.src = n => ~r.live
    /\ \A r \in voteReplies : r.src # n

HasWon(n) ==
    state[n] = "candidate" /\ 1 + Cardinality(granted[n]) >= QuorumSize

\* The end of _start_election with _become_leader.
BecomeLeader(n) ==
    /\ VotesIn(n) /\ HasWon(n)
    /\ state' = [state EXCEPT ![n] = "leader"]
    /\ leaderId' = [leaderId EXCEPT ![n] = n]
    /\ nextIndex' = [nextIndex EXCEPT ![n] = [p \in Node |-> Len(log[n])]]
    /\ matchIndex' = [matchIndex EXCEPT ![n] = [p \in Node |-> 0]]
    /\ inProgress' = [inProgress EXCEPT ![n] = FALSE]
    /\ election' = [election EXCEPT ![n] = "idle"]
    /\ granted' = [granted EXCEPT ![n] = {}]
    /\ elected' = elected \cup {[node |-> n, term |-> currentTerm[n]]}
    /\ UNCHANGED <<currentTerm, votedFor, logVars, timer, pendingSend,
                   voteNet, appendNet, issued, restarts, ballots>>

\* Variant: _election_in_progress stays set when the election is lost.
ElectionFailsInProgress(n) ==
    /\ VotesIn(n) /\ ~HasWon(n)
    /\ election' = [election EXCEPT ![n] = "idle"]
    /\ granted' = [granted EXCEPT ![n] = {}]
    /\ UNCHANGED <<nodeVars, logVars, leaderVars, timer, inProgress,
                   pendingSend, voteNet, appendNet, historyVars>>

\* The end of _start_election without a majority, or no longer a candidate.
ElectionFails(n) ==
    /\ VotesIn(n) /\ ~HasWon(n)
    /\ inProgress' = [inProgress EXCEPT ![n] = FALSE]
    /\ election' = [election EXCEPT ![n] = "idle"]
    /\ granted' = [granted EXCEPT ![n] = {}]
    /\ UNCHANGED <<nodeVars, logVars, leaderVars, timer, pendingSend, voteNet,
                   appendNet, historyVars>>

-----------------------------------------------------------------------------
\* Log replication

\* The requests of _send_append_entries to the peers in reach.
SendAppendEntries(n, reach, origin) ==
    LET prev(p) == nextIndex[n][p] - 1
    IN  /\ InFlight + Cardinality(reach) <= MaxInFlight
        /\ appendReqs' = appendReqs \cup
             {[src |-> n, dst |-> p, term |-> currentTerm[n],
               prevIndex |-> prev(p),
               prevTerm |-> IF prev(p) >= 0 /\ prev(p) < Len(log[n])
                            THEN log[n][prev(p) + 1].term ELSE 0,
               entries |-> SubSeq(log[n], nextIndex[n][p] + 1, Len(log[n])),
               commit |-> commitIndex[n], origin |-> origin, live |-> TRUE] :
                 p \in reach}

\* One round of _heartbeat_loop; the next starts when every request of this
\* one has returned.  The loop lives exactly as long as its node is leader.
Heartbeat(n) == \E reach \in SUBSET Peers(n) :
    /\ state[n] = "leader"
    /\ \A r \in appendReqs : r.src = n /\ r.origin = Nil => ~r.live
    /\ \A r \in appendReplies : ~(r.src = n /\ r.origin = Nil)
    /\ SendAppendEntries(n, reach, Nil)
    /\ UNCHANGED <<nodeVars, logVars, leaderVars, taskVars, voteNet,
                   appendReplies, historyVars>>

\* append_entry on a leader up to its await.  On any other node it returns
\* False and changes nothing.
AppendEntry(n, c) ==
    /\ state[n] = "leader" /\ c \notin issued
    /\ issued' = issued \cup {c}
    /\ log' = [log EXCEPT
                 ![n] = Append(@, [term |-> currentTerm[n], cmd |-> c])]
    /\ pendingSend' = pendingSend \cup {<<n, c>>}
    /\ UNCHANGED <<nodeVars, commitIndex, applied, leaderVars, timer,
                   inProgress, election, granted, voteNet, appendNet,
                   restarts, ballots, elected>>

\* The tasks of _send_append_entries_to_all start.  Nothing cancels them, so
\* they run even if the node has lost its leadership since.
SendAppendEntriesToAll(n, c) == \E reach \in SUBSET Peers(n) :
    /\ <<n, c>> \in pendingSend
    /\ pendingSend' = pendingSend \ {<<n, c>>}
    /\ SendAppendEntries(n, reach, c)
    /\ UNCHANGED <<nodeVars, logVars, leaderVars, timer, inProgress, election,
                   granted, voteNet, appendReplies, historyVars>>

\* handle_message for an append request, _handle_append_entries included.
\* The term of the request is compared with the node's only to raise the
\* latter: a request of an older term is served like any other.
HandleAppendEntries(r) ==
    LET n == r.dst
        success == PrevMatches(r, log[n])
        newLog == IF success THEN MergeEntries(log[n], r.prevIndex, r.entries)
                  ELSE log[n]
        advance == success /\ r.commit > commitIndex[n]
        newCommit == IF advance THEN Smaller(r.commit, LastIndex(newLog))
                     ELSE commitIndex[n]
        term == TermAfter(n, r)
        reqs == appendReqs \ {r}
        replies == IF r.live THEN appendReplies \cup
              {[src |-> r.src, dst |-> n, term |-> term, success |-> success,
                match |-> r.prevIndex + Len(r.entries), origin |-> r.origin]}
            ELSE appendReplies
    IN  /\ currentTerm' = [currentTerm EXCEPT ![n] = term]
        /\ votedFor' = [votedFor EXCEPT ![n] = VoteAfter(n, r)]
        /\ IF StepsDown(n, r) THEN BecomeFollower(n, r.src, reqs, replies)
           ELSE /\ leaderId' = [leaderId EXCEPT ![n] = r.src]
                /\ timer' = [timer EXCEPT ![n] = TRUE]
                /\ appendReqs' = reqs /\ appendReplies' = replies
                /\ UNCHANGED <<state, inProgress>>
        /\ log' = [log EXCEPT ![n] = newLog]
        /\ commitIndex' = [commitIndex EXCEPT ![n] = newCommit]
        /\ applied' = [applied EXCEPT ![n] =
                         IF advance THEN ApplyCommitted(@, newLog, newCommit)
                         ELSE @]
        /\ UNCHANGED <<leaderVars, election, granted, pendingSend, voteNet,
                       historyVars>>

\* _send_append_entries gets a success: _update_commit_index follows.  Neither
\* the term of the reply nor the node's own term or state is looked at first.
HandleAppendSuccess(r) ==
    LET n == r.src
        match == [matchIndex[n] EXCEPT ![r.dst] = Larger(@, r.match)]
        k == MedianIndex(n, match)
        commit == /\ state[n] = "leader"
                  /\ k \in (commitIndex[n] + 1)..LastIndex(log[n])
                  /\ log[n][k + 1].term = currentTerm[n]
    IN  /\ r.success
        /\ matchIndex' = [matchIndex EXCEPT ![n] = match]
        /\ nextIndex' = [nextIndex EXCEPT ![n][r.dst] = match[r.dst] + 1]
        /\ commitIndex' = [commitIndex EXCEPT ![n] = IF commit THEN k ELSE @]
        /\ applied' = [applied EXCEPT ![n] =
                         IF commit THEN ApplyCommitted(@, log[n], k) ELSE @]
        /\ appendReplies' = appendReplies \ {r}
        /\ UNCHANGED <<nodeVars, log, taskVars, voteNet, appendReqs,
                       historyVars>>

\* _send_append_entries gets a refusal.
HandleAppendFailure(r) ==
    LET n == r.src
    IN  /\ ~r.success
        /\ IF r.term > currentTerm[n]
           THEN /\ currentTerm' = [currentTerm EXCEPT ![n] = r.term]
                /\ votedFor' = [votedFor EXCEPT ![n] = Nil]
                /\ BecomeFollower(n, Nil, appendReqs, appendReplies \ {r})
           ELSE /\ appendReplies' = appendReplies \ {r}
                /\ UNCHANGED <<nodeVars, timer, inProgress, appendReqs>>
        /\ nextIndex' = [nextIndex EXCEPT ![n][r.dst] = BackOff(@)]
        /\ UNCHANGED <<logVars, matchIndex, election, granted, pendingSend,
                       voteNet, historyVars>>

\* wait_for gives up on an append request; the request may still arrive.
AppendEntriesTimeout(r) ==
    /\ r.live
    /\ appendReqs' = (appendReqs \ {r}) \cup {Abandoned(r)}
    /\ UNCHANGED <<nodeVars, logVars, leaderVars, taskVars, voteNet,
                   appendReplies, historyVars>>

\* The response does not arrive in time.
AppendReplyLost(r) ==
    /\ appendReplies' = appendReplies \ {r}
    /\ UNCHANGED <<nodeVars, logVars, leaderVars, taskVars, voteNet,
                   appendReqs, historyVars>>

-----------------------------------------------------------------------------
\* The environment

\* A request nobody waits for any more is lost.
LoseRequest ==
    /\ \/ /\ \E r \in voteReqs : ~r.live /\ voteReqs' = voteReqs \ {r}
          /\ UNCHANGED appendReqs
       \/ /\ \E r \in appendReqs : ~r.live /\ appendReqs' = appendReqs \ {r}
          /\ UNCHANGED voteReqs
    /\ UNCHANGED <<nodeVars, logVars, leaderVars, taskVars, voteReplies,
                   appendReplies, historyVars>>

\* The process of n dies and RaftNode.__init__ and start run again.  Nothing
\* is read back: the "persistent state" lives in memory only.
Restart(n) ==
    /\ restarts < MaxRestarts
    /\ restarts' = restarts + 1
    /\ currentTerm' = [currentTerm EXCEPT ![n] = 0]
    /\ votedFor' = [votedFor EXCEPT ![n] = Nil]
    /\ state' = [state EXCEPT ![n] = "follower"]
    /\ leaderId' = [leaderId EXCEPT ![n] = Nil]
    /\ log' = [log EXCEPT ![n] = <<>>]
    /\ commitIndex' = [commitIndex EXCEPT ![n] = -1]
    /\ applied' = [applied EXCEPT ![n] = <<>>]
    /\ nextIndex' = [nextIndex EXCEPT ![n] = [p \in Node |-> 0]]
    /\ matchIndex' = [matchIndex EXCEPT ![n] = [p \in Node |-> 0]]
    /\ timer' = [timer EXCEPT ![n] = TRUE]
    /\ inProgress' = [inProgress EXCEPT ![n] = FALSE]
    /\ election' = [election EXCEPT ![n] = "idle"]
    /\ granted' = [granted EXCEPT ![n] = {}]
    /\ pendingSend' = {s \in pendingSend : s[1] # n}
    /\ voteReqs' = {IF r.src = n THEN Abandoned(r) ELSE r : r \in voteReqs}
    /\ appendReqs' = {IF r.src = n THEN Abandoned(r) ELSE r : r \in appendReqs}
    /\ voteReplies' = {r \in voteReplies : r.src # n}
    /\ appendReplies' = {r \in appendReplies : r.src # n}
    /\ UNCHANGED <<issued, ballots, elected>>

-----------------------------------------------------------------------------
Next ==
    \/ \E n \in Node :
          \/ ElectionTimeout(n)
          \/ ElectionTimerLapses(n)
          \/ StartElection(n)
          \/ RequestVotes(n)
          \/ BecomeLeader(n)
          \/ ElectionFails(n)
          \/ Heartbeat(n)
          \/ Restart(n)
    \/ \E n \in Node, c \in Cmd :
          AppendEntry(n, c) \/ SendAppendEntriesToAll(n, c)
    \/ \E r \in voteReqs : HandleRequestVote(r) \/ RequestVoteTimeout(r)
    \/ \E r \in voteReplies : HandleVoteReply(r) \/ VoteReplyLost(r)
    \/ \E r \in appendReqs : HandleAppendEntries(r) \/ AppendEntriesTimeout(r)
    \/ \E r \in appendReplies :
          \/ HandleAppendSuccess(r)
          \/ HandleAppendFailure(r)
          \/ AppendReplyLost(r)
    \/ LoseRequest

Spec == Init /\ [][Next]_vars

(***************************************************************************)
(* What the event loop guarantees: the processor of app.py polls for a     *)
(* candidate, tasks that gather has created start, wait_for ends every     *)
(* request, and a gather whose requests have all returned resumes.  An     *)
(* election timer need never fire, since it may be reset first, and        *)
(* nothing is assumed of the network.                                      *)
(***************************************************************************)
VoteRequestEnds(n) ==
    \/ \E r \in voteReqs : r.src = n /\ RequestVoteTimeout(r)
    \/ \E r \in voteReplies : r.src = n /\ (HandleVoteReply(r) \/ VoteReplyLost(r))

Fairness == \A n \in Node :
    /\ WF_vars(StartElection(n))
    /\ WF_vars(RequestVotes(n))
    /\ WF_vars(VoteRequestEnds(n))
    /\ WF_vars(BecomeLeader(n))
    /\ WF_vars(ElectionFails(n))

FairSpec == Spec /\ Fairness

-----------------------------------------------------------------------------
\* Properties

\* No node votes for two candidates in one term, its own candidacies included
\* (_start_election, _handle_request_vote and the resets of voted_for).
VoteOncePerTerm ==
    \A a, b \in ballots :
        a.voter = b.voter /\ a.term = b.term => a.candidate = b.candidate

\* _become_leader runs for at most one node in each term.
ElectionSafety ==
    \A e, f \in elected : e.term = f.term => e.node = f.node

\* A leader is in a term it was elected in: no path moves current_term of a
\* leader without _become_follower.
LeaderOwnsItsTerm ==
    \A n \in Node : state[n] = "leader" =>
        [node |-> n, term |-> currentTerm[n]] \in elected

\* Something is always left that will move a node on: a follower has an armed
\* election timer that will not find _election_in_progress set; a candidate
\* has an election under way or is free for the processor of app.py to start
\* one; a leader has no election under way that could end in its back.
NoNodeIsStranded ==
    \A n \in Node :
        /\ state[n] = "follower" => timer[n] /\ ~inProgress[n]
        /\ inProgress[n] => election[n] # "idle"
        /\ state[n] = "leader" => election[n] = "idle"

\* Two logs that hold an entry of the same term at the same index are equal up
\* to it, whatever append requests are lost, delayed or reordered.
LogMatching ==
    \A m, n \in Node : \A i \in 1..Smaller(Len(log[m]), Len(log[n])) :
        log[m][i].term = log[n][i].term =>
            SubSeq(log[m], 1, i) = SubSeq(log[n], 1, i)

\* Terms never decrease along a log, and none is beyond its node's term.
LogTermsOrdered ==
    \A n \in Node : \A i \in 1..Len(log[n]) :
        /\ log[n][i].term <= currentTerm[n]
        /\ \A j \in 1..i : log[n][j].term <= log[n][i].term

\* No on_commit callback sees a command twice on one node, however often the
\* append requests that carry it are resent.
AppliedOnce ==
    \A n \in Node : \A i, j \in 1..Len(applied[n]) :
        applied[n][i].cmd = applied[n][j].cmd => i = j

\* All nodes hand the same entries to their on_commit callbacks in the same
\* order.
StateMachineSafety ==
    \A m, n \in Node : \A i \in 1..Smaller(Len(applied[m]), Len(applied[n])) :
        applied[m][i] = applied[n][i]

\* The nodes whose logs hold what the log of n holds at place i.
Having(n, i) == {q \in Node : i <= Len(log[q]) /\ log[q][i] = log[n][i]}

\* What a leader has committed is in the logs of _quorum_size nodes ("replicas
\* required for quorum"), the first entry aside: _become_leader sets match_index to
\* 0, as if every peer had it.  No process has lost its log.  The median that
\* _update_commit_index takes keeps to it in a cluster of three, not in one of four.
LaterCommitsOnQuorum ==
    \A n \in Node : state[n] = "leader" /\ restarts = 0 =>
        \A i \in 2..(commitIndex[n] + 1) : Cardinality(Having(n, i)) >= QuorumSize

\* What the median gives in a cluster of any size: half of the nodes have what is
\* committed (_update_commit_index).
LaterCommitsOnHalf ==
    \A n \in Node : state[n] = "leader" /\ restarts = 0 =>
        \A i \in 2..(commitIndex[n] + 1) :
            2 * Cardinality(Having(n, i)) >= Cardinality(Node)

\* A node that stays leader only ever adds to the end of its log.
LeaderAppendOnly ==
    [][\A n \in Node : state[n] = "leader" /\ state'[n] = "leader" =>
          /\ Len(log[n]) <= Len(log'[n])
          /\ SubSeq(log'[n], 1, Len(log[n])) = log[n]]_vars

\* No election hangs: the gather of _start_election always returns.
ElectionEnds == \A n \in Node : election[n] # "idle" ~> election[n] = "idle"

\* A candidate never waits for ever for the processor of app.py: it leaves the
\* state or campaigns again (or the bound on campaigns is reached).
CandidateMovesOn == \A n \in Node, t \in 1..MaxCampaigns :
    state[n] = "candidate" /\ currentTerm[n] = t
        ~> \/ state[n] # "candidate"
           \/ currentTerm[n] > t
           \/ Campaigns >= MaxCampaigns
=============================================================================
