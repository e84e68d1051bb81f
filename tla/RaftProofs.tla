----------------------------- MODULE RaftProofs -----------------------------
(* Theorems about Raft, for every cluster, command set and bound. *)
EXTENDS Raft, TLAPS, FiniteSetTheorems, SequenceTheorems

-----------------------------------------------------------------------------
\* What the operators on logs return

\* The append loop of _handle_append_entries yields a log.
LEMMA MergeEntriesType ==
    ASSUME NEW lg \in Seq(Entry), NEW prev \in Index, prev < Len(lg),
           NEW entries \in Seq(Entry)
    PROVE  MergeEntries(lg, prev, entries) \in Seq(Entry)
<1> DEFINE end == prev + 1 + Len(entries)
           agrees(i) == i <= Len(lg) /\ lg[i].term = entries[i - prev - 1].term
           at(j) == IF \A i \in (prev + 2)..j : agrees(i) THEN lg[j]
                    ELSE entries[j - prev - 1]
<1>1. end \in Nat /\ prev \in Int /\ Len(lg) \in Nat /\ Len(entries) \in Nat
  BY DEF Index
<1>2. ASSUME NEW j \in 1..end PROVE at(j) \in Entry
  <2>1. CASE j <= prev + 1
    <3>1. j \in 1..Len(lg)
      BY <1>1, <2>1
    <3>2. \A i \in (prev + 2)..j : agrees(i)
      BY <1>1, <2>1
    <3> QED BY <3>1, <3>2, ElementOfSeq
  <2>2. CASE ~(j <= prev + 1)
    <3>1. j \in (prev + 2)..j /\ j - prev - 1 \in 1..Len(entries)
      BY <1>1, <2>2
    <3>2. CASE \A i \in (prev + 2)..j : agrees(i)
      <4>1. j \in 1..Len(lg)
        BY <1>1, <3>1, <3>2
      <4> QED BY <4>1, <3>2, ElementOfSeq
    <3>3. CASE ~(\A i \in (prev + 2)..j : agrees(i))
      BY <3>1, <3>3, ElementOfSeq
    <3> QED BY <3>2, <3>3
  <2> QED BY <2>1, <2>2
<1>3. [j \in 1..end |-> at(j)] \in Seq(Entry)
  BY <1>1, <1>2, IsASeq
<1> QED BY <1>3 DEF MergeEntries

\* _apply_committed_entries hands over entries of the log only.
LEMMA ApplyCommittedType ==
    ASSUME NEW done \in Seq(Entry), NEW lg \in Seq(Entry),
           NEW ci \in Index, ci < Len(lg)
    PROVE  ApplyCommitted(done, lg, ci) \in Seq(Entry)
<1>1. \A i \in (Len(done) + 1)..(ci + 1) : lg[i] \in Entry
  BY ElementOfSeq DEF Index
<1>2. SubSeq(lg, Len(done) + 1, ci + 1) \in Seq(Entry)
  <2> HIDE DEF Entry
  <2> QED BY <1>1, SubSeqProperties DEF Index
<1> QED BY <1>2 DEF ApplyCommitted

\* _send_append_entries builds well-formed requests.
LEMMA SendAppendEntriesType ==
    ASSUME TypeOK, NEW n \in Node, NEW reach \in SUBSET Peers(n),
           NEW origin \in Cmd \cup {Nil}, SendAppendEntries(n, reach, origin)
    PROVE  appendReqs' \subseteq AppendRequest
<1> DEFINE prev(p) == nextIndex[n][p] - 1
           prevTerm(p) == IF prev(p) >= 0 /\ prev(p) < Len(log[n])
                          THEN log[n][prev(p) + 1].term ELSE 0
           entries(p) == SubSeq(log[n], nextIndex[n][p] + 1, Len(log[n]))
           request(p) == [src |-> n, dst |-> p, term |-> currentTerm[n],
               prevIndex |-> prev(p), prevTerm |-> prevTerm(p),
               entries |-> entries(p), commit |-> commitIndex[n],
               origin |-> origin, live |-> TRUE]
<1>1. ASSUME NEW p \in reach PROVE request(p) \in AppendRequest
  <2>1. p \in Node /\ nextIndex[n][p] \in Nat /\ log[n] \in Seq(Entry)
        /\ currentTerm[n] \in Nat /\ commitIndex[n] \in Index
    BY DEF TypeOK, Peers
  <2>2. prev(p) \in Index
    BY <2>1 DEF Index
  <2>3. prevTerm(p) \in Nat
    <3>1. CASE prev(p) >= 0 /\ prev(p) < Len(log[n])
      <4>1. prev(p) + 1 \in 1..Len(log[n])
        BY <2>1, <3>1
      <4>2. log[n][prev(p) + 1] \in Entry
        BY <2>1, <4>1, ElementOfSeq
      <4> QED BY <3>1, <4>2 DEF Entry
    <3> QED BY <3>1
  <2>4. entries(p) \in Seq(Entry)
    <3>1. \A i \in (nextIndex[n][p] + 1)..Len(log[n]) : log[n][i] \in Entry
      BY <2>1, ElementOfSeq
    <3> HIDE DEF Entry
    <3> QED BY <2>1, <3>1, SubSeqProperties
  <2> HIDE DEF prev, prevTerm, entries
  <2> QED BY <2>1, <2>2, <2>3, <2>4 DEF AppendRequest
<1>2. appendReqs' = appendReqs \cup {request(p) : p \in reach}
  BY DEF SendAppendEntries
<1> HIDE DEF request
<1> QED BY <1>1, <1>2 DEF TypeOK

\* An abandoned request is a request.
LEMMA AbandonedType ==
    /\ \A r \in VoteRequest : Abandoned(r) \in VoteRequest
    /\ \A r \in AppendRequest : Abandoned(r) \in AppendRequest
BY DEF Abandoned, VoteRequest, AppendRequest

\* Abandoning the requests of a heartbeat round keeps them well formed.
LEMMA CancelledType ==
    ASSUME NEW n, NEW reqs \in SUBSET AppendRequest
    PROVE  Cancelled(reqs, n) \in SUBSET AppendRequest
BY AbandonedType DEF Cancelled

\* _become_follower keeps the variables it assigns in their types.
LEMMA BecomeFollowerType ==
    ASSUME TypeOK, NEW n \in Node, NEW leader \in Node \cup {Nil},
           NEW reqs \in SUBSET AppendRequest,
           NEW replies \in SUBSET AppendReply,
           BecomeFollower(n, leader, reqs, replies)
    PROVE  /\ state' \in [Node -> {"follower", "candidate", "leader"}]
           /\ leaderId' \in [Node -> Node \cup {Nil}]
           /\ inProgress' \in [Node -> BOOLEAN]
           /\ timer' \in [Node -> BOOLEAN]
           /\ appendReqs' \subseteq AppendRequest
           /\ appendReplies' \subseteq AppendReply
BY CancelledType DEF BecomeFollower, TypeOK, Unheard

-----------------------------------------------------------------------------
\* Type correctness

\* The constructor's state is in its types.
LEMMA InitType == Init => TypeOK
<1> SUFFICES ASSUME Init PROVE TypeOK
  OBVIOUS
<1>1. <<>> \in Seq(Entry)
  BY EmptySeq
<1> QED BY <1>1 DEF Init, TypeOK, Index

\* The actions of one election keep the types.
LEMMA ElectionType ==
    ASSUME TypeOK, NEW n \in Node,
           \/ ElectionTimeout(n) \/ ElectionTimerLapses(n)
           \/ StartElection(n) \/ RequestVotes(n)
           \/ BecomeLeader(n) \/ ElectionFails(n)
    PROVE  TypeOK'
<1>1. CASE ElectionTimeout(n)
  BY <1>1 DEF ElectionTimeout, Campaign, TypeOK, logVars, leaderVars, voteNet,
     appendNet
<1>2. CASE ElectionTimerLapses(n)
  BY <1>2 DEF ElectionTimerLapses, TypeOK, nodeVars, logVars, leaderVars,
     voteNet, appendNet, historyVars
<1>3. CASE StartElection(n)
  BY <1>3 DEF StartElection, Campaign, TypeOK, logVars, leaderVars, voteNet,
     appendNet
<1>4. CASE RequestVotes(n)
  <2>1. PICK reach \in SUBSET Peers(n) :
          voteReqs' = voteReqs \cup
            {[src |-> n, dst |-> p, term |-> currentTerm[n],
              lastIndex |-> LastIndex(log[n]), lastTerm |-> LastTerm(log[n]),
              live |-> TRUE] : p \in reach}
    BY <1>4 DEF RequestVotes
  <2>2. LastIndex(log[n]) \in Index
    BY DEF TypeOK, LastIndex, Index
  <2>3. LastTerm(log[n]) \in Nat
    <3>1. CASE log[n] = <<>>
      BY <3>1 DEF LastTerm
    <3>2. CASE log[n] # <<>>
      <4>1. log[n] \in Seq(Entry)
        BY DEF TypeOK
      <4>2. Len(log[n]) \in 1..Len(log[n])
        BY <3>2, <4>1, EmptySeq
      <4>3. log[n][Len(log[n])] \in Entry
        BY <4>1, <4>2, ElementOfSeq
      <4> QED BY <3>2, <4>3 DEF LastTerm, Entry
    <3> QED BY <3>1, <3>2
  <2>4. voteReqs' \subseteq VoteRequest
    <3>1. ASSUME NEW p \in reach
          PROVE  [src |-> n, dst |-> p, term |-> currentTerm[n],
                  lastIndex |-> LastIndex(log[n]),
                  lastTerm |-> LastTerm(log[n]), live |-> TRUE] \in VoteRequest
      <4>1. p \in Node /\ currentTerm[n] \in Nat
        BY DEF TypeOK, Peers
      <4> QED BY <2>2, <2>3, <4>1 DEF VoteRequest
    <3>2. voteReqs \subseteq VoteRequest
      BY DEF TypeOK
    <3> QED BY <2>1, <3>1, <3>2
  <2> QED BY <1>4, <2>4 DEF RequestVotes, TypeOK, nodeVars, logVars,
             leaderVars, appendNet, historyVars
<1>5. CASE BecomeLeader(n)
  BY <1>5 DEF BecomeLeader, TypeOK, logVars, voteNet, appendNet
<1>6. CASE ElectionFails(n)
  BY <1>6 DEF ElectionFails, TypeOK, nodeVars, logVars, leaderVars, voteNet,
     appendNet, historyVars
<1> QED BY <1>1, <1>2, <1>3, <1>4, <1>5, <1>6

\* Handling, answering and losing vote requests keeps the types.
LEMMA VoteType ==
    ASSUME TypeOK,
           \/ \E r \in voteReqs : HandleRequestVote(r) \/ RequestVoteTimeout(r)
           \/ \E r \in voteReplies : HandleVoteReply(r) \/ VoteReplyLost(r)
    PROVE  TypeOK'
<1>1. CASE \E r \in voteReqs : HandleRequestVote(r)
  <2>1. PICK r \in voteReqs : HandleRequestVote(r)
    BY <1>1
  <2>2. r \in VoteRequest
    BY DEF TypeOK
  <2>3. TermAfter(r.dst, r) \in Nat /\ VoteAfter(r.dst, r) \in Node \cup {Nil}
    BY <2>2 DEF TypeOK, VoteRequest, TermAfter, VoteAfter, Larger
  <2>4. Grants(r.dst, r) \in BOOLEAN
    BY DEF Grants
  <2>5. voteReplies' \subseteq VoteReply /\ voteReqs' \subseteq VoteRequest
    <3>1. [src |-> r.src, dst |-> r.dst, term |-> TermAfter(r.dst, r),
           granted |-> Grants(r.dst, r)] \in VoteReply
      BY <2>2, <2>3, <2>4 DEF VoteRequest, VoteReply
    <3> QED BY <2>1, <3>1 DEF HandleRequestVote, TypeOK
  <2>6. /\ currentTerm' \in [Node -> Nat]
        /\ votedFor' \in [Node -> Node \cup {Nil}]
        /\ ballots' \subseteq [voter : Node, candidate : Node, term : Nat]
    <3>1. r.src \in Node /\ r.dst \in Node
      BY <2>2 DEF VoteRequest
    <3>2. currentTerm' \in [Node -> Nat]
      BY <2>1, <2>3 DEF HandleRequestVote, TypeOK
    <3>3. votedFor' \in [Node -> Node \cup {Nil}]
      BY <2>1, <2>3, <3>1 DEF HandleRequestVote, TypeOK
    <3>4. ballots' \subseteq [voter : Node, candidate : Node, term : Nat]
      <4>1. [voter |-> r.dst, candidate |-> r.src,
             term |-> TermAfter(r.dst, r)]
              \in [voter : Node, candidate : Node, term : Nat]
        BY <2>3, <3>1
      <4>2. ballots' \subseteq ballots \cup {[voter |-> r.dst,
              candidate |-> r.src, term |-> TermAfter(r.dst, r)]}
        BY <2>1 DEF HandleRequestVote
      <4> QED BY <4>1, <4>2 DEF TypeOK
    <3> QED BY <3>2, <3>3, <3>4
  <2>7. /\ state' \in [Node -> {"follower", "candidate", "leader"}]
        /\ leaderId' \in [Node -> Node \cup {Nil}]
        /\ inProgress' \in [Node -> BOOLEAN]
        /\ timer' \in [Node -> BOOLEAN]
        /\ appendReqs' \subseteq AppendRequest
        /\ appendReplies' \subseteq AppendReply
    <3>1. CASE r.term > currentTerm[r.dst]
      <4>1. BecomeFollower(r.dst, Nil, appendReqs, appendReplies)
        BY <2>1, <3>1 DEF HandleRequestVote
      <4> QED BY <2>2, <4>1, BecomeFollowerType DEF TypeOK, VoteRequest
    <3>2. CASE ~(r.term > currentTerm[r.dst])
      BY <2>1, <3>2 DEF HandleRequestVote, TypeOK, appendNet
    <3> QED BY <3>1, <3>2
  <2> QED BY <2>1, <2>5, <2>6, <2>7 DEF HandleRequestVote, TypeOK, logVars,
             leaderVars
<1>2. CASE \E r \in voteReqs : RequestVoteTimeout(r)
  <2>1. PICK r \in voteReqs : RequestVoteTimeout(r)
    BY <1>2
  <2>2. voteReqs' \subseteq VoteRequest
    BY <2>1, AbandonedType DEF RequestVoteTimeout, TypeOK
  <2> QED BY <2>1, <2>2 DEF RequestVoteTimeout, TypeOK, nodeVars, logVars,
             leaderVars, taskVars, appendNet, historyVars
<1>3. CASE \E r \in voteReplies : HandleVoteReply(r)
  <2>1. PICK r \in voteReplies : HandleVoteReply(r)
    BY <1>3
  <2>2. r \in VoteReply
    BY DEF TypeOK
  <2>3. granted' \in [Node -> SUBSET Node] /\ voteReplies' \subseteq VoteReply
    <3>1. /\ voteReplies' = voteReplies \ {r}
          /\ granted' = [granted EXCEPT
                           ![r.src] = IF r.granted THEN @ \cup {r.dst} ELSE @]
      BY <2>1 DEF HandleVoteReply
    <3>2. r.src \in Node /\ r.dst \in Node
      BY <2>2 DEF VoteReply
    <3>3. granted \in [Node -> SUBSET Node] /\ voteReplies \subseteq VoteReply
      BY DEF TypeOK
    <3>4. granted' \in [Node -> SUBSET Node]
      BY <3>1, <3>2, <3>3
    <3> QED BY <3>1, <3>3, <3>4
  <2>4. CASE r.term > currentTerm[r.src]
    <3>1. BecomeFollower(r.src, Nil, appendReqs, appendReplies)
      BY <2>1, <2>4 DEF HandleVoteReply
    <3>2. /\ currentTerm' \in [Node -> Nat]
          /\ votedFor' \in [Node -> Node \cup {Nil}]
      <4>1. r.term \in Nat
        BY <2>2 DEF VoteReply
      <4>2. /\ currentTerm' = [currentTerm EXCEPT ![r.src] = r.term]
            /\ votedFor' = [votedFor EXCEPT ![r.src] = Nil]
        BY <2>1, <2>4 DEF HandleVoteReply
      <4> QED BY <4>1, <4>2 DEF TypeOK
    <3>3. /\ state' \in [Node -> {"follower", "candidate", "leader"}]
          /\ leaderId' \in [Node -> Node \cup {Nil}]
          /\ inProgress' \in [Node -> BOOLEAN]
          /\ timer' \in [Node -> BOOLEAN]
          /\ appendReqs' \subseteq AppendRequest
          /\ appendReplies' \subseteq AppendReply
      BY <2>2, <3>1, BecomeFollowerType DEF TypeOK, VoteReply
    <3> QED BY <2>1, <2>3, <3>2, <3>3 DEF HandleVoteReply, TypeOK, logVars,
               leaderVars, historyVars
  <2>5. CASE ~(r.term > currentTerm[r.src])
    <3>1. UNCHANGED <<nodeVars, timer, inProgress, appendNet, logVars,
                      leaderVars, election, pendingSend, voteReqs, historyVars>>
      BY <2>1, <2>5 DEF HandleVoteReply
    <3> QED BY <2>3, <3>1 DEF TypeOK, nodeVars, logVars, leaderVars,
               appendNet, historyVars
  <2> QED BY <2>4, <2>5
<1>4. CASE \E r \in voteReplies : VoteReplyLost(r)
  BY <1>4 DEF VoteReplyLost, TypeOK, nodeVars, logVars, leaderVars, taskVars,
     appendNet, historyVars
<1> QED BY <1>1, <1>2, <1>3, <1>4

\* Sending, handling, answering and losing append requests keeps the types.
LEMMA SendType ==
    ASSUME TypeOK, NEW n \in Node,
           \/ Heartbeat(n)
           \/ \E c \in Cmd : AppendEntry(n, c) \/ SendAppendEntriesToAll(n, c)
    PROVE  TypeOK'
<1>1. CASE Heartbeat(n)
  <2>1. appendReqs' \subseteq AppendRequest
    BY <1>1, SendAppendEntriesType DEF Heartbeat
  <2> QED BY <1>1, <2>1 DEF Heartbeat, TypeOK, nodeVars, logVars, leaderVars,
             taskVars, voteNet, historyVars
<1>2. CASE \E c \in Cmd : AppendEntry(n, c)
  <2>1. PICK c \in Cmd : AppendEntry(n, c)
    BY <1>2
  <2>2. [term |-> currentTerm[n], cmd |-> c] \in Entry
    BY DEF TypeOK, Entry
  <2>3. log' \in [Node -> Seq(Entry)]
    BY <2>1, <2>2, AppendProperties DEF AppendEntry, TypeOK
  <2>4. pendingSend' \subseteq Node \X Cmd /\ issued' \subseteq Cmd
    BY <2>1 DEF AppendEntry, TypeOK
  <2> HIDE DEF Entry
  <2>5. UNCHANGED <<nodeVars, commitIndex, applied, leaderVars, timer,
                    inProgress, election, granted, voteNet, appendNet,
                    restarts, ballots, elected>>
    BY <2>1 DEF AppendEntry
  <2> QED BY <2>3, <2>4, <2>5 DEF TypeOK, nodeVars, leaderVars, voteNet,
             appendNet
<1>3. CASE \E c \in Cmd : SendAppendEntriesToAll(n, c)
  <2>1. PICK c \in Cmd : SendAppendEntriesToAll(n, c)
    BY <1>3
  <2>2. appendReqs' \subseteq AppendRequest
    BY <2>1, SendAppendEntriesType DEF SendAppendEntriesToAll
  <2> QED BY <2>1, <2>2 DEF SendAppendEntriesToAll, TypeOK, nodeVars, logVars,
             leaderVars, voteNet, historyVars
<1> QED BY <1>1, <1>2, <1>3

\* _handle_append_entries keeps the types.
LEMMA HandleAppendEntriesType ==
    ASSUME TypeOK, NEW r \in appendReqs, HandleAppendEntries(r)
    PROVE  TypeOK'
<1> DEFINE n == r.dst
           success == PrevMatches(r, log[n])
           newLog == IF success THEN MergeEntries(log[n], r.prevIndex, r.entries)
                     ELSE log[n]
           advance == success /\ r.commit > commitIndex[n]
           newCommit == IF advance THEN Smaller(r.commit, LastIndex(newLog))
                        ELSE commitIndex[n]
           reply == [src |-> r.src, dst |-> n, term |-> TermAfter(n, r),
                     success |-> success, match |-> r.prevIndex + Len(r.entries),
                     origin |-> r.origin]
           replies == IF r.live THEN appendReplies \cup {reply}
                      ELSE appendReplies
<1>1. /\ n \in Node /\ r.src \in Node /\ r.term \in Nat /\ r.prevIndex \in Index
      /\ r.entries \in Seq(Entry) /\ r.commit \in Index
      /\ r.origin \in Cmd \cup {Nil}
  BY DEF TypeOK, AppendRequest
<1>2. /\ log[n] \in Seq(Entry) /\ commitIndex[n] \in Index
      /\ applied[n] \in Seq(Entry)
  BY <1>1 DEF TypeOK
<1>3. TermAfter(n, r) \in Nat /\ VoteAfter(n, r) \in Node \cup {Nil}
  BY <1>1 DEF TypeOK, TermAfter, VoteAfter, Larger
<1>4. newLog \in Seq(Entry)
  <2>1. CASE success
    <3>1. r.prevIndex < Len(log[n])
      BY <2>1 DEF PrevMatches
    <3> QED BY <1>1, <1>2, <2>1, <3>1, MergeEntriesType
  <2>2. CASE ~success
    BY <1>2, <2>2
  <2> QED BY <2>1, <2>2
<1>5. newCommit \in Index /\ (advance => newCommit < Len(newLog))
  <2> HIDE DEF newLog
  <2>1. Len(newLog) \in Nat
    BY <1>4
  <2> QED BY <1>1, <1>2, <2>1 DEF Smaller, LastIndex, Index
<1>6. advance => ApplyCommitted(applied[n], newLog, newCommit) \in Seq(Entry)
  <2> HIDE DEF newLog, newCommit
  <2> QED BY <1>2, <1>4, <1>5, ApplyCommittedType
<1>7. reply \in AppendReply
  <2>1. success \in BOOLEAN
    BY DEF PrevMatches
  <2>2. r.prevIndex + Len(r.entries) \in Index
    BY <1>1 DEF Index
  <2> HIDE DEF success
  <2> QED BY <1>1, <1>3, <2>1, <2>2 DEF AppendReply
<1>8. /\ currentTerm' \in [Node -> Nat]
      /\ votedFor' \in [Node -> Node \cup {Nil}]
  BY <1>1, <1>3 DEF HandleAppendEntries, TypeOK
<1>9. /\ log' = [log EXCEPT ![n] = newLog]
      /\ commitIndex' = [commitIndex EXCEPT ![n] = newCommit]
      /\ applied' = [applied EXCEPT ![n] =
                       IF advance THEN ApplyCommitted(@, newLog, newCommit)
                       ELSE @]
  BY DEF HandleAppendEntries
<1>10. /\ log' \in [Node -> Seq(Entry)]
       /\ commitIndex' \in [Node -> Index]
       /\ applied' \in [Node -> Seq(Entry)]
  <2> HIDE DEF newLog, newCommit, advance
  <2> QED BY <1>1, <1>2, <1>4, <1>5, <1>6, <1>9 DEF TypeOK
<1>11. /\ state' \in [Node -> {"follower", "candidate", "leader"}]
       /\ leaderId' \in [Node -> Node \cup {Nil}]
       /\ inProgress' \in [Node -> BOOLEAN]
       /\ timer' \in [Node -> BOOLEAN]
       /\ appendReqs' \subseteq AppendRequest
       /\ appendReplies' \subseteq AppendReply
  <2>1. replies \in SUBSET AppendReply /\ appendReqs \ {r} \in SUBSET AppendRequest
    <3> HIDE DEF reply
    <3> QED BY <1>7 DEF TypeOK
  <2>2. CASE StepsDown(n, r)
    <3>1. BecomeFollower(n, r.src, appendReqs \ {r}, replies)
      BY <2>2 DEF HandleAppendEntries
    <3> HIDE DEF replies
    <3> QED BY <1>1, <2>1, <3>1, BecomeFollowerType
  <2>3. CASE ~StepsDown(n, r)
    <3>1. /\ leaderId' = [leaderId EXCEPT ![n] = r.src]
          /\ timer' = [timer EXCEPT ![n] = TRUE]
          /\ appendReqs' = appendReqs \ {r} /\ appendReplies' = replies
          /\ UNCHANGED <<state, inProgress>>
      BY <2>3 DEF HandleAppendEntries
    <3> HIDE DEF replies
    <3> QED BY <1>1, <2>1, <3>1 DEF TypeOK
  <2> QED BY <2>2, <2>3
<1>12. UNCHANGED <<leaderVars, election, granted, pendingSend, voteNet,
                   historyVars>>
  BY DEF HandleAppendEntries
<1> QED BY <1>8, <1>10, <1>11, <1>12 DEF TypeOK, leaderVars, voteNet,
           historyVars

\* So do the two outcomes of _send_append_entries.
LEMMA AppendReplyType ==
    ASSUME TypeOK, NEW r \in appendReplies,
           HandleAppendSuccess(r) \/ HandleAppendFailure(r) \/ AppendReplyLost(r)
    PROVE  TypeOK'
<1> DEFINE n == r.src
<1>1. n \in Node /\ r.dst \in Node /\ r.term \in Nat /\ r.match \in Index
  BY DEF TypeOK, AppendReply
<1>2. CASE HandleAppendSuccess(r)
  <2> DEFINE match == [matchIndex[n] EXCEPT ![r.dst] = Larger(@, r.match)]
             k == MedianIndex(n, match)
             commit == /\ state[n] = "leader"
                       /\ k \in (commitIndex[n] + 1)..LastIndex(log[n])
                       /\ log[n][k + 1].term = currentTerm[n]
  <2>1. match \in [Node -> Nat]
    <3>1. matchIndex[n] \in [Node -> Nat]
      BY <1>1 DEF TypeOK
    <3>2. Larger(matchIndex[n][r.dst], r.match) \in Nat
      BY <1>1, <3>1 DEF Larger, Index
    <3> QED BY <1>1, <3>1, <3>2
  <2>2. /\ matchIndex' = [matchIndex EXCEPT ![n] = match]
        /\ nextIndex' = [nextIndex EXCEPT ![n][r.dst] = match[r.dst] + 1]
        /\ commitIndex' = [commitIndex EXCEPT ![n] = IF commit THEN k ELSE @]
        /\ applied' = [applied EXCEPT ![n] =
                         IF commit THEN ApplyCommitted(@, log[n], k) ELSE @]
        /\ appendReplies' = appendReplies \ {r}
        /\ UNCHANGED <<nodeVars, log, taskVars, voteNet, appendReqs,
                       historyVars>>
    BY <1>2 DEF HandleAppendSuccess
  <2>3. /\ matchIndex' \in [Node -> [Node -> Nat]]
        /\ nextIndex' \in [Node -> [Node -> Nat]]
    <3> HIDE DEF match
    <3>1. match[r.dst] + 1 \in Nat
      BY <1>1, <2>1
    <3>2. [nextIndex[n] EXCEPT ![r.dst] = match[r.dst] + 1] \in [Node -> Nat]
      <4>1. nextIndex[n] \in [Node -> Nat]
        BY <1>1 DEF TypeOK
      <4> QED BY <1>1, <3>1, <4>1
    <3>3. matchIndex' \in [Node -> [Node -> Nat]]
      BY <1>1, <2>1, <2>2 DEF TypeOK
    <3>4. nextIndex' \in [Node -> [Node -> Nat]]
      BY <1>1, <2>2, <3>2 DEF TypeOK
    <3> QED BY <3>3, <3>4
  <2>4. /\ log[n] \in Seq(Entry) /\ commitIndex[n] \in Index
        /\ applied[n] \in Seq(Entry)
    BY <1>1 DEF TypeOK
  <2>5. commit => k \in Index /\ k < Len(log[n])
    BY <2>4 DEF Index, LastIndex
  <2>6. commit => ApplyCommitted(applied[n], log[n], k) \in Seq(Entry)
    <3> HIDE DEF k
    <3> QED BY <2>4, <2>5, ApplyCommittedType
  <2>7. commitIndex' \in [Node -> Index] /\ applied' \in [Node -> Seq(Entry)]
    <3> HIDE DEF commit, k
    <3> QED BY <1>1, <2>2, <2>4, <2>5, <2>6 DEF TypeOK
  <2> QED BY <2>2, <2>3, <2>7 DEF TypeOK, nodeVars, taskVars, voteNet,
             historyVars
<1>3. CASE HandleAppendFailure(r)
  <2>1. nextIndex' \in [Node -> [Node -> Nat]]
    <3>1. nextIndex[n] \in [Node -> Nat]
      BY <1>1 DEF TypeOK
    <3>2. BackOff(nextIndex[n][r.dst]) \in Nat
      BY <1>1, <3>1 DEF BackOff
    <3>3. [nextIndex[n] EXCEPT ![r.dst] = BackOff(@)] \in [Node -> Nat]
      BY <1>1, <3>1, <3>2
    <3>4. nextIndex' = [nextIndex EXCEPT ![n][r.dst] = BackOff(@)]
      BY <1>3 DEF HandleAppendFailure
    <3> QED BY <1>1, <3>3, <3>4 DEF TypeOK
  <2>2. UNCHANGED <<logVars, matchIndex, election, granted, pendingSend,
                    voteNet, historyVars>>
    BY <1>3 DEF HandleAppendFailure
  <2>3. CASE r.term > currentTerm[n]
    <3>1. BecomeFollower(n, Nil, appendReqs, appendReplies \ {r})
      BY <1>3, <2>3 DEF HandleAppendFailure
    <3>2. /\ currentTerm' \in [Node -> Nat]
          /\ votedFor' \in [Node -> Node \cup {Nil}]
      <4>1. /\ currentTerm' = [currentTerm EXCEPT ![n] = r.term]
            /\ votedFor' = [votedFor EXCEPT ![n] = Nil]
        BY <1>3, <2>3 DEF HandleAppendFailure
      <4> QED BY <1>1, <4>1 DEF TypeOK
    <3>3. /\ state' \in [Node -> {"follower", "candidate", "leader"}]
          /\ leaderId' \in [Node -> Node \cup {Nil}]
          /\ inProgress' \in [Node -> BOOLEAN]
          /\ timer' \in [Node -> BOOLEAN]
          /\ appendReqs' \subseteq AppendRequest
          /\ appendReplies' \subseteq AppendReply
      <4>1. /\ appendReplies \ {r} \in SUBSET AppendReply
            /\ appendReqs \in SUBSET AppendRequest
        BY DEF TypeOK
      <4> QED BY <1>1, <3>1, <4>1, BecomeFollowerType
    <3> QED BY <2>1, <2>2, <3>2, <3>3 DEF TypeOK, logVars, voteNet, historyVars
  <2>4. CASE ~(r.term > currentTerm[n])
    <3>1. /\ appendReplies' = appendReplies \ {r}
          /\ UNCHANGED <<nodeVars, timer, inProgress, appendReqs>>
      BY <1>3, <2>4 DEF HandleAppendFailure
    <3> QED BY <2>1, <2>2, <3>1 DEF TypeOK, nodeVars, logVars, voteNet,
               historyVars
  <2> QED BY <2>3, <2>4
<1>4. CASE AppendReplyLost(r)
  BY <1>4 DEF AppendReplyLost, TypeOK, nodeVars, logVars, leaderVars, taskVars,
     voteNet, historyVars
<1> QED BY <1>2, <1>3, <1>4

\* Timeouts, losses and restarts keep the types.
LEMMA EnvironmentType ==
    ASSUME TypeOK,
           \/ \E r \in appendReqs : AppendEntriesTimeout(r)
           \/ LoseRequest
           \/ \E n \in Node : Restart(n)
    PROVE  TypeOK'
<1>1. CASE \E r \in appendReqs : AppendEntriesTimeout(r)
  <2>1. PICK r \in appendReqs : AppendEntriesTimeout(r)
    BY <1>1
  <2>2. appendReqs' \subseteq AppendRequest
    BY <2>1, AbandonedType DEF AppendEntriesTimeout, TypeOK
  <2> QED BY <2>1, <2>2 DEF AppendEntriesTimeout, TypeOK, nodeVars, logVars,
             leaderVars, taskVars, voteNet, historyVars
<1>2. CASE LoseRequest
  BY <1>2 DEF LoseRequest, TypeOK, nodeVars, logVars, leaderVars, taskVars,
     historyVars
<1>3. CASE \E n \in Node : Restart(n)
  <2>1. PICK n \in Node : Restart(n)
    BY <1>3
  <2>2. voteReqs' \subseteq VoteRequest /\ appendReqs' \subseteq AppendRequest
    BY <2>1, AbandonedType DEF Restart, TypeOK
  <2>3. /\ currentTerm' \in [Node -> Nat]
        /\ votedFor' \in [Node -> Node \cup {Nil}]
        /\ state' \in [Node -> {"follower", "candidate", "leader"}]
        /\ leaderId' \in [Node -> Node \cup {Nil}]
        /\ commitIndex' \in [Node -> Index]
        /\ nextIndex' \in [Node -> [Node -> Nat]]
        /\ matchIndex' \in [Node -> [Node -> Nat]]
    BY <2>1 DEF Restart, TypeOK, Index
  <2>4. /\ log' \in [Node -> Seq(Entry)]
        /\ applied' \in [Node -> Seq(Entry)]
    <3>1. <<>> \in Seq(Entry)
      BY EmptySeq
    <3> HIDE DEF Entry
    <3> QED BY <2>1, <3>1 DEF Restart, TypeOK
  <2>5. /\ timer' \in [Node -> BOOLEAN]
        /\ inProgress' \in [Node -> BOOLEAN]
        /\ election' \in [Node -> {"idle", "starting", "voting"}]
        /\ granted' \in [Node -> SUBSET Node]
        /\ pendingSend' \subseteq Node \X Cmd
        /\ voteReplies' \subseteq VoteReply
        /\ appendReplies' \subseteq AppendReply
        /\ restarts' \in Nat
        /\ UNCHANGED <<issued, ballots, elected>>
    <3>1. restarts' \in Nat
      BY <2>1 DEF Restart, TypeOK
    <3>2. granted' \in [Node -> SUBSET Node]
      BY <2>1 DEF Restart, TypeOK
    <3> QED BY <2>1, <3>1, <3>2 DEF Restart, TypeOK
  <2> QED BY <2>2, <2>3, <2>4, <2>5 DEF TypeOK
<1> QED BY <1>1, <1>2, <1>3

\* No handler leaves a variable outside its type.
LEMMA NextType == TypeOK /\ [Next]_vars => TypeOK'
<1> SUFFICES ASSUME TypeOK, [Next]_vars PROVE TypeOK'
  OBVIOUS
<1>1. CASE Next
  BY <1>1, ElectionType, VoteType, SendType, HandleAppendEntriesType,
     AppendReplyType, EnvironmentType DEF Next
<1>2. CASE UNCHANGED vars
  BY <1>2 DEF TypeOK, vars, nodeVars, logVars, leaderVars, taskVars, voteNet,
     appendNet, historyVars
<1> QED BY <1>1, <1>2

\* Every reachable state is well typed: terms, indices, requests and replies
\* of RaftNode stay in their ranges, next_index never below zero included.
THEOREM TypeCorrect == Spec => []TypeOK
BY InitType, NextType, PTL DEF Spec

-----------------------------------------------------------------------------
(***************************************************************************)
(* Election safety.  It holds while no node restarts (votes are kept in    *)
(* memory only) and no vote request outlives the election timeout; the     *)
(* run raft_stale_votes shows that without the latter it does not.         *)
(*                                                                         *)
(* Election safety is not inductive: nothing in it ties the votes counted  *)
(* in granted to votes that were cast in the term the winner is then in.   *)
(* The invariant follows a vote from the ballot through the reply and the  *)
(* tally of a node that is still a candidate.                              *)
(***************************************************************************)
Orderly == MaxRestarts = 0 /\ ~RequestOutlivesElection

Ballot(p, c, t) == [voter |-> p, candidate |-> c, term |-> t]

\* No node has voted beyond its term, and voted_for is its vote in its term.
BallotsCurrent == \A b \in ballots :
    /\ b.term <= currentTerm[b.voter]
    /\ b.term = currentTerm[b.voter] => votedFor[b.voter] = b.candidate

\* A candidate has voted for itself in its term.
CandidateVotes == \A n \in Node :
    state[n] = "candidate" => Ballot(n, n, currentTerm[n]) \in ballots

\* A request that is waited for belongs to an election under way, and to the
\* term of its sender unless that has stepped down.
RequestsCurrent == \A r \in voteReqs :
    /\ r.dst # r.src
    /\ r.live => election[r.src] = "voting"
    /\ r.live /\ state[r.src] = "candidate" => r.term = currentTerm[r.src]

\* A reply that grants a vote stands for a ballot of the sender's term.
RepliesBacked == \A r \in voteReplies :
    /\ r.dst # r.src
    /\ election[r.src] = "voting"
    /\ r.granted /\ state[r.src] = "candidate" =>
         Ballot(r.dst, r.src, currentTerm[r.src]) \in ballots

\* A vote counted by a candidate is a ballot of another node in its term.
TallyBacked == \A n \in Node :
    /\ election[n] # "voting" => granted[n] = {}
    /\ n \notin granted[n]
    /\ state[n] = "candidate" => \A p \in granted[n] :
         Ballot(p, n, currentTerm[n]) \in ballots

\* Whoever has become leader was voted for by a quorum in that term.
ElectedByQuorum == \A e \in elected : \E Q \in SUBSET Node :
    /\ Cardinality(Q) >= QuorumSize
    /\ \A q \in Q : Ballot(q, e.node, e.term) \in ballots

ElectionInv ==
    /\ VoteOncePerTerm
    /\ BallotsCurrent
    /\ CandidateVotes
    /\ RequestsCurrent
    /\ RepliesBacked
    /\ TallyBacked
    /\ ElectedByQuorum

\* A cluster that starts has cast no vote.
LEMMA ElectionInit == Init => ElectionInv
<1> SUFFICES ASSUME Init PROVE ElectionInv
  OBVIOUS
<1> USE DEF Init
<1>1. VoteOncePerTerm /\ BallotsCurrent /\ CandidateVotes
  BY DEF VoteOncePerTerm, BallotsCurrent, CandidateVotes
<1>2. RequestsCurrent /\ RepliesBacked /\ TallyBacked /\ ElectedByQuorum
  BY DEF RequestsCurrent, RepliesBacked, TallyBacked, ElectedByQuorum
<1> QED BY <1>1, <1>2 DEF ElectionInv

\* A step that casts no vote and makes nobody a candidate keeps the invariant:
\* nodes may step down or adopt later terms, messages may be lost or given up.
LEMMA QuietStep ==
    ASSUME TypeOK, TypeOK', ElectionInv,
           UNCHANGED <<election, granted, ballots, elected>>,
           voteReplies' \subseteq voteReplies,
           \A r \in voteReqs' : r \in voteReqs \/ (~r.live /\ r.dst # r.src),
           \A n \in Node :
              \/ currentTerm'[n] = currentTerm[n] /\ votedFor'[n] = votedFor[n]
              \/ currentTerm'[n] > currentTerm[n],
           \A n \in Node : state'[n] = "candidate" =>
              state[n] = "candidate" /\ currentTerm'[n] = currentTerm[n]
    PROVE  ElectionInv'
<1>0. /\ \A b \in ballots : b.voter \in Node /\ b.term \in Nat
      /\ \A r \in voteReqs : r.src \in Node
      /\ \A r \in voteReplies : r.src \in Node
      /\ \A n \in Node : currentTerm[n] \in Nat /\ currentTerm'[n] \in Nat
  BY DEF TypeOK, VoteRequest, VoteReply
<1>1. VoteOncePerTerm'
  BY DEF ElectionInv, VoteOncePerTerm
<1>2. BallotsCurrent'
  BY <1>0 DEF ElectionInv, BallotsCurrent
<1>3. CandidateVotes'
  BY DEF ElectionInv, CandidateVotes
<1>4. RequestsCurrent'
  <2>1. \A r \in voteReqs' : r.src \in Node
    BY DEF TypeOK, VoteRequest
  <2> QED BY <2>1 DEF ElectionInv, RequestsCurrent
<1>5. RepliesBacked'
  BY <1>0 DEF ElectionInv, RepliesBacked
<1>6. TallyBacked'
  BY DEF ElectionInv, TallyBacked
<1>7. ElectedByQuorum'
  BY DEF ElectionInv, ElectedByQuorum, QuorumSize
<1> QED BY <1>1, <1>2, <1>3, <1>4, <1>5, <1>6, <1>7 DEF ElectionInv

\* Adding ballots never takes a leader's quorum away.
LEMMA QuorumsStay ==
    ASSUME ElectedByQuorum, ballots \subseteq ballots', elected' = elected
    PROVE  ElectedByQuorum'
BY DEF ElectedByQuorum, QuorumSize

\* A campaign enters a new term, so the ballots before it stand.
LEMMA CampaignStep ==
    ASSUME TypeOK, TypeOK', ElectionInv, NEW n \in Node, Campaign(n),
           election[n] = "idle", election'[n] # "voting",
           \A m \in Node : m # n => election'[m] = election[m],
           UNCHANGED <<granted, voteReqs, voteReplies, elected>>
    PROVE  ElectionInv'
<1>0. /\ \A b \in ballots : b.voter \in Node /\ b.term \in Nat
      /\ \A r \in voteReqs : r.src \in Node
      /\ \A r \in voteReplies : r.src \in Node
      /\ \A m \in Node : currentTerm[m] \in Nat
      /\ granted[n] = {}
  BY DEF TypeOK, VoteRequest, VoteReply, ElectionInv, TallyBacked
<1>1. /\ currentTerm'[n] = currentTerm[n] + 1
      /\ votedFor'[n] = n
      /\ state'[n] = "candidate"
      /\ ballots' = ballots \cup {Ballot(n, n, currentTerm[n] + 1)}
  BY DEF Campaign, TypeOK, Ballot
<1>2. \A m \in Node : m # n => /\ currentTerm'[m] = currentTerm[m]
                              /\ votedFor'[m] = votedFor[m]
                              /\ state'[m] = state[m]
  BY DEF Campaign, TypeOK
<1>3. \A b \in ballots : b.voter = n => b.term < currentTerm[n] + 1
  BY <1>0 DEF ElectionInv, BallotsCurrent
<1>4. VoteOncePerTerm'
  BY <1>0, <1>1, <1>3 DEF ElectionInv, VoteOncePerTerm, Ballot
<1>5. BallotsCurrent'
  BY <1>0, <1>1, <1>2, <1>3 DEF ElectionInv, BallotsCurrent, Ballot
<1>6. CandidateVotes'
  BY <1>0, <1>1, <1>2 DEF ElectionInv, CandidateVotes
<1>7. RequestsCurrent'
  BY <1>0, <1>1, <1>2 DEF ElectionInv, RequestsCurrent
<1>8. RepliesBacked'
  BY <1>0, <1>1, <1>2 DEF ElectionInv, RepliesBacked
<1>9. TallyBacked'
  BY <1>0, <1>1, <1>2 DEF ElectionInv, TallyBacked
<1>10. ElectedByQuorum'
  BY <1>1, QuorumsStay DEF ElectionInv
<1> QED BY <1>4, <1>5, <1>6, <1>7, <1>8, <1>9, <1>10 DEF ElectionInv

\* gather starts the requests in the term the candidate is in.
LEMMA RequestVotesStep ==
    ASSUME TypeOK, TypeOK', ElectionInv, NEW n \in Node, RequestVotes(n)
    PROVE  ElectionInv'
<1>1. PICK reach \in SUBSET Peers(n) :
        /\ election[n] = "starting"
        /\ election' = [election EXCEPT ![n] = "voting"]
        /\ voteReqs' = voteReqs \cup
             {[src |-> n, dst |-> p, term |-> currentTerm[n],
               lastIndex |-> LastIndex(log[n]), lastTerm |-> LastTerm(log[n]),
               live |-> TRUE] : p \in reach}
  BY DEF RequestVotes
<1>2. UNCHANGED <<currentTerm, votedFor, state, granted, voteReplies, ballots,
                  elected>>
  BY DEF RequestVotes, nodeVars, historyVars
<1>3. /\ election'[n] = "voting" /\ granted[n] = {}
      /\ \A m \in Node : m # n => election'[m] = election[m]
  <2>1. election'[n] = "voting"
        /\ \A m \in Node : m # n => election'[m] = election[m]
    BY <1>1 DEF TypeOK
  <2>2. granted[n] = {}
    BY <1>1 DEF ElectionInv, TallyBacked
  <2> QED BY <2>1, <2>2
<1>4. VoteOncePerTerm' /\ BallotsCurrent' /\ CandidateVotes'
  BY <1>2 DEF ElectionInv, VoteOncePerTerm, BallotsCurrent, CandidateVotes
<1>5. RequestsCurrent'
  <2>1. \A r \in voteReqs : r.src \in Node
    BY DEF TypeOK, VoteRequest
  <2>2. ASSUME NEW r \in voteReqs'
        PROVE  /\ r.dst # r.src
               /\ r.live => election'[r.src] = "voting"
               /\ r.live /\ state'[r.src] = "candidate" =>
                    r.term = currentTerm'[r.src]
    <3>1. CASE r \in voteReqs
      BY <1>2, <1>3, <2>1, <3>1 DEF ElectionInv, RequestsCurrent
    <3>2. CASE r \notin voteReqs
      <4>1. r.src = n /\ r.dst \in Peers(n) /\ r.term = currentTerm[n]
        BY <1>1, <3>2
      <4> QED BY <1>2, <1>3, <4>1 DEF Peers
    <3> QED BY <3>1, <3>2
  <2> QED BY <2>2 DEF RequestsCurrent
<1>6. RepliesBacked'
  <2>1. \A r \in voteReplies : r.src \in Node
    BY DEF TypeOK, VoteReply
  <2> QED BY <1>2, <1>3, <2>1 DEF ElectionInv, RepliesBacked
<1>7. TallyBacked'
  BY <1>2, <1>3 DEF ElectionInv, TallyBacked
<1>8. ElectedByQuorum'
  BY <1>2, QuorumsStay DEF ElectionInv
<1> QED BY <1>4, <1>5, <1>6, <1>7, <1>8 DEF ElectionInv

\* A vote is granted once per term, and its reply stands for it.
LEMMA HandleRequestVoteStep ==
    ASSUME TypeOK, TypeOK', ElectionInv, NEW r \in voteReqs,
           HandleRequestVote(r)
    PROVE  ElectionInv'
<1> DEFINE n == r.dst
           c == r.src
           grant == Grants(n, r)
           term == TermAfter(n, r)
<1>0. /\ r \in VoteRequest
      /\ n \in Node /\ c \in Node /\ r.term \in Nat /\ n # c /\ c # Nil
      /\ \A m \in Node : currentTerm[m] \in Nat
      /\ \A b \in ballots : b.voter \in Node /\ b.candidate \in Node
                            /\ b.term \in Nat
  <2>1. r \in VoteRequest
    BY DEF TypeOK
  <2>2. n # c
    BY DEF ElectionInv, RequestsCurrent
  <2>3. \A b \in ballots : b.voter \in Node /\ b.candidate \in Node
                          /\ b.term \in Nat
    BY DEF TypeOK
  <2>4. \A m \in Node : currentTerm[m] \in Nat
    BY DEF TypeOK
  <2> QED BY <2>1, <2>2, <2>3, <2>4, NodeAssumption DEF VoteRequest
<1>1. /\ currentTerm' = [currentTerm EXCEPT ![n] = term]
      /\ votedFor' = [votedFor EXCEPT ![n] = IF grant THEN c
                                            ELSE VoteAfter(n, r)]
      /\ ballots' = IF grant THEN ballots \cup {Ballot(n, c, term)} ELSE ballots
      /\ voteReqs' = voteReqs \ {r}
      /\ voteReplies' = IF r.live THEN voteReplies \cup
             {[src |-> c, dst |-> n, term |-> term, granted |-> grant]}
           ELSE voteReplies
      /\ UNCHANGED <<election, granted, elected>>
  BY DEF HandleRequestVote, Ballot
<1>2. /\ term \in Nat
      /\ term = currentTerm[n] \/ term > currentTerm[n]
      /\ grant => term = r.term
      /\ term = currentTerm[n] /\ grant => votedFor[n] \in {Nil, c}
      /\ term = currentTerm[n] => VoteAfter(n, r) = votedFor[n]
  BY <1>0 DEF TermAfter, VoteAfter, Larger, Grants
<1>3. \A m \in Node : m # n => /\ currentTerm'[m] = currentTerm[m]
                              /\ votedFor'[m] = votedFor[m]
                              /\ state'[m] = state[m]
  <2>1. state' = [state EXCEPT ![n] = "follower"] \/ state' = state
    BY DEF HandleRequestVote, BecomeFollower
  <2> QED BY <1>0, <1>1, <2>1 DEF TypeOK
<1>4. /\ currentTerm'[n] = term
      /\ votedFor'[n] = IF grant THEN c ELSE VoteAfter(n, r)
  BY <1>0, <1>1 DEF TypeOK
<1>5. state'[n] = "candidate" => state[n] = "candidate" /\ term = currentTerm[n]
  <2>1. CASE r.term > currentTerm[n]
    <3>1. BecomeFollower(n, Nil, appendReqs, appendReplies)
      BY <2>1 DEF HandleRequestVote
    <3>2. state'[n] = "follower"
      BY <1>0, <3>1 DEF BecomeFollower, TypeOK
    <3> QED BY <3>2
  <2>2. CASE ~(r.term > currentTerm[n])
    <3>1. UNCHANGED state
      BY <2>2 DEF HandleRequestVote
    <3> QED BY <1>0, <2>2, <3>1 DEF TermAfter, Larger
  <2> QED BY <2>1, <2>2
<1> HIDE DEF n, c, grant, term
<1>6. \A b \in ballots : b.voter = n /\ b.term = term =>
        term = currentTerm[n] /\ b.candidate = votedFor[n]
  BY <1>0, <1>2 DEF ElectionInv, BallotsCurrent
<1>7. grant => \A b \in ballots :
        b.voter = n /\ b.term = term => b.candidate = c
  BY <1>0, <1>2, <1>6, NodeAssumption
<1>8. VoteOncePerTerm'
  BY <1>1, <1>7 DEF ElectionInv, VoteOncePerTerm, Ballot
<1>9. BallotsCurrent'
  <2>1. ASSUME NEW b \in ballots
        PROVE  /\ b.term <= currentTerm'[b.voter]
               /\ b.term = currentTerm'[b.voter] =>
                    votedFor'[b.voter] = b.candidate
    BY <1>0, <1>2, <1>3, <1>4, <1>6, <1>7 DEF ElectionInv, BallotsCurrent
  <2>2. grant => LET b == Ballot(n, c, term)
                 IN  /\ b.term <= currentTerm'[b.voter]
                     /\ b.term = currentTerm'[b.voter] =>
                          votedFor'[b.voter] = b.candidate
    BY <1>2, <1>4 DEF Ballot
  <2> QED BY <1>1, <2>1, <2>2 DEF BallotsCurrent
<1>10. CandidateVotes'
  BY <1>0, <1>1, <1>3, <1>4, <1>5 DEF ElectionInv, CandidateVotes
<1>11. RequestsCurrent'
  <2>1. \A q \in voteReqs : q.src \in Node
    BY DEF TypeOK, VoteRequest
  <2> QED BY <1>0, <1>1, <1>3, <1>4, <1>5, <2>1 DEF ElectionInv, RequestsCurrent
<1>12. RepliesBacked'
  <2>1. ASSUME NEW q \in voteReplies
        PROVE  /\ q.dst # q.src
               /\ election'[q.src] = "voting"
               /\ q.granted /\ state'[q.src] = "candidate" =>
                    Ballot(q.dst, q.src, currentTerm'[q.src]) \in ballots'
    <3>1. q.src \in Node
      BY DEF TypeOK, VoteReply
    <3> QED BY <1>0, <1>1, <1>3, <1>4, <1>5, <3>1 DEF ElectionInv, RepliesBacked
  <2>2. r.live => /\ election'[c] = "voting"
                  /\ grant /\ state'[c] = "candidate" =>
                       Ballot(n, c, currentTerm'[c]) \in ballots'
    <3>1. r.live => election[c] = "voting"
      BY DEF ElectionInv, RequestsCurrent, c
    <3>2. r.live /\ state[c] = "candidate" => r.term = currentTerm[c]
      BY DEF ElectionInv, RequestsCurrent, c
    <3> QED BY <1>0, <1>1, <1>2, <1>3, <3>1, <3>2
  <2>3. ASSUME NEW q \in voteReplies', q \notin voteReplies
        PROVE  r.live /\ q.dst = n /\ q.src = c /\ q.granted = grant
    BY <1>1, <2>3
  <2> QED BY <1>0, <2>1, <2>2, <2>3 DEF RepliesBacked
<1>13. TallyBacked'
  BY <1>0, <1>1, <1>3, <1>4, <1>5 DEF ElectionInv, TallyBacked
<1>14. ElectedByQuorum'
  BY <1>1, QuorumsStay DEF ElectionInv
<1> QED BY <1>8, <1>9, <1>10, <1>11, <1>12, <1>13, <1>14 DEF ElectionInv

\* A vote is counted in the term it was cast in, or its counter steps down.
LEMMA HandleVoteReplyStep ==
    ASSUME TypeOK, TypeOK', ElectionInv, NEW r \in voteReplies,
           HandleVoteReply(r)
    PROVE  ElectionInv'
<1> DEFINE n == r.src
<1>0. /\ n \in Node /\ r.term \in Nat /\ r.dst # n /\ election[n] = "voting"
      /\ \A m \in Node : currentTerm[m] \in Nat
      /\ \A b \in ballots : b.voter \in Node /\ b.term \in Nat
      /\ \A q \in voteReqs : q.src \in Node
      /\ \A q \in voteReplies : q.src \in Node
  <2>1. r.dst # n /\ election[n] = "voting"
    BY DEF ElectionInv, RepliesBacked
  <2> QED BY <2>1 DEF TypeOK, VoteRequest, VoteReply
<1>1. /\ voteReplies' = voteReplies \ {r}
      /\ granted' = [granted EXCEPT
                       ![n] = IF r.granted THEN @ \cup {r.dst} ELSE @]
      /\ UNCHANGED <<election, voteReqs, ballots, elected>>
  BY DEF HandleVoteReply, historyVars
<1>2. \A m \in Node :
        \/ currentTerm'[m] = currentTerm[m] /\ votedFor'[m] = votedFor[m]
        \/ currentTerm'[m] > currentTerm[m]
  <2>1. CASE r.term > currentTerm[n]
    <3>1. /\ currentTerm' = [currentTerm EXCEPT ![n] = r.term]
          /\ votedFor' = [votedFor EXCEPT ![n] = Nil]
      BY <2>1 DEF HandleVoteReply
    <3> QED BY <1>0, <2>1, <3>1 DEF TypeOK
  <2>2. CASE ~(r.term > currentTerm[n])
    BY <2>2 DEF HandleVoteReply, nodeVars
  <2> QED BY <2>1, <2>2
<1>3. \A m \in Node : state'[m] = "candidate" =>
        state[m] = "candidate" /\ currentTerm'[m] = currentTerm[m]
  <2>1. CASE r.term > currentTerm[n]
    <3>1. state' = [state EXCEPT ![n] = "follower"]
      BY <2>1 DEF HandleVoteReply, BecomeFollower
    <3>2. currentTerm' = [currentTerm EXCEPT ![n] = r.term]
      BY <2>1 DEF HandleVoteReply
    <3> QED BY <1>0, <3>1, <3>2 DEF TypeOK
  <2>2. CASE ~(r.term > currentTerm[n])
    BY <2>2 DEF HandleVoteReply, nodeVars
  <2> QED BY <2>1, <2>2
<1>4. /\ granted'[n] = IF r.granted THEN granted[n] \cup {r.dst} ELSE granted[n]
      /\ \A m \in Node : m # n => granted'[m] = granted[m]
  <2>1. granted \in [Node -> SUBSET Node]
    BY DEF TypeOK
  <2> QED BY <1>0, <1>1, <2>1
<1> HIDE DEF n
<1>5. VoteOncePerTerm' /\ CandidateVotes'
  BY <1>1, <1>3 DEF ElectionInv, VoteOncePerTerm, CandidateVotes
<1>6. BallotsCurrent'
  <2>1. \A m \in Node : currentTerm'[m] \in Nat
    BY DEF TypeOK
  <2> QED BY <1>0, <1>1, <1>2, <2>1 DEF ElectionInv, BallotsCurrent
<1>7. RequestsCurrent' /\ RepliesBacked'
  <2>1. RequestsCurrent'
    BY <1>0, <1>1, <1>3 DEF ElectionInv, RequestsCurrent
  <2>2. RepliesBacked'
    BY <1>0, <1>1, <1>3 DEF ElectionInv, RepliesBacked
  <2> QED BY <2>1, <2>2
<1>8. TallyBacked'
  <2>1. r.granted /\ state[n] = "candidate" =>
          Ballot(r.dst, n, currentTerm[n]) \in ballots
    BY DEF ElectionInv, RepliesBacked, n
  <2> QED BY <1>0, <1>1, <1>3, <1>4, <2>1 DEF ElectionInv, TallyBacked
<1>9. ElectedByQuorum'
  BY <1>1, QuorumsStay DEF ElectionInv
<1> QED BY <1>5, <1>6, <1>7, <1>8, <1>9 DEF ElectionInv

\* No vote request is waited for and no reply is on its way once gather returns,
\* so what the tally stood for no longer matters; a winner has a quorum.
LEMMA ElectionEndStep ==
    ASSUME TypeOK, TypeOK', ElectionInv, NEW n \in Node,
           BecomeLeader(n) \/ ElectionFails(n)
    PROVE  ElectionInv'
<1>1. /\ VotesIn(n)
      /\ election' = [election EXCEPT ![n] = "idle"]
      /\ granted' = [granted EXCEPT ![n] = {}]
      /\ UNCHANGED <<currentTerm, votedFor, voteReqs, voteReplies, ballots>>
  BY DEF BecomeLeader, ElectionFails, nodeVars, voteNet, historyVars
<1>2. /\ \A m \in Node : state'[m] = "candidate" => state[m] = "candidate"
      /\ \A q \in voteReqs : q.src \in Node
      /\ \A q \in voteReplies : q.src \in Node
      /\ \A m \in Node : m # n => /\ election'[m] = election[m]
                                 /\ granted'[m] = granted[m]
      /\ granted'[n] = {}
  <2>1. state' = [state EXCEPT ![n] = "leader"] \/ state' = state
    BY DEF BecomeLeader, ElectionFails, nodeVars
  <2>2. \A m \in Node : state'[m] = "candidate" => state[m] = "candidate"
    BY <2>1 DEF TypeOK
  <2>3. /\ \A q \in voteReqs : q.src \in Node
        /\ \A q \in voteReplies : q.src \in Node
    BY DEF TypeOK, VoteRequest, VoteReply
  <2>4. /\ \A m \in Node : m # n => /\ election'[m] = election[m]
                                  /\ granted'[m] = granted[m]
        /\ granted'[n] = {}
    BY <1>1 DEF TypeOK
  <2> QED BY <2>2, <2>3, <2>4
<1>3. VoteOncePerTerm' /\ BallotsCurrent' /\ CandidateVotes'
  BY <1>1, <1>2 DEF ElectionInv, VoteOncePerTerm, BallotsCurrent, CandidateVotes
<1>4. RequestsCurrent' /\ RepliesBacked'
  BY <1>1, <1>2 DEF ElectionInv, RequestsCurrent, RepliesBacked, VotesIn
<1>5. TallyBacked'
  BY <1>1, <1>2 DEF ElectionInv, TallyBacked
<1>6. ElectedByQuorum'
  <2>1. CASE ElectionFails(n)
    BY <2>1, <1>1, QuorumsStay DEF ElectionFails, historyVars, ElectionInv
  <2>2. CASE BecomeLeader(n)
    <3> DEFINE Q == granted[n] \cup {n}
               new == [node |-> n, term |-> currentTerm[n]]
    <3>1. /\ state[n] = "candidate" /\ 1 + Cardinality(granted[n]) >= QuorumSize
          /\ elected' = elected \cup {new}
      BY <2>2 DEF BecomeLeader, HasWon
    <3>2. granted[n] \in SUBSET Node /\ n \notin granted[n]
      BY DEF TypeOK, ElectionInv, TallyBacked
    <3>3. IsFiniteSet(granted[n])
      BY <3>2, NodeAssumption, FS_Subset
    <3>4. Cardinality(Q) = Cardinality(granted[n]) + 1
      BY <3>2, <3>3, FS_AddElement
    <3>5. Cardinality(Q) >= QuorumSize
      <4>1. Cardinality(granted[n]) \in Nat
        BY <3>3, FS_CardinalityType
      <4> QED BY <3>1, <3>4, <4>1
    <3>6. \A q \in Q : Ballot(q, n, currentTerm[n]) \in ballots
      BY <3>1 DEF ElectionInv, TallyBacked, CandidateVotes
    <3>7. \A e \in elected : \E R \in SUBSET Node :
            /\ Cardinality(R) >= QuorumSize
            /\ \A q \in R : Ballot(q, e.node, e.term) \in ballots
      BY DEF ElectionInv, ElectedByQuorum
    <3>8. \E R \in SUBSET Node :
            /\ Cardinality(R) >= QuorumSize
            /\ \A q \in R : Ballot(q, new.node, new.term) \in ballots
      <4>1. Q \in SUBSET Node
        BY <3>2
      <4>2. new.node = n /\ new.term = currentTerm[n]
        OBVIOUS
      <4> HIDE DEF Q, new
      <4> QED BY <3>5, <3>6, <4>1, <4>2
    <3> HIDE DEF new
    <3>9. \A e \in elected' : \E R \in SUBSET Node :
            /\ Cardinality(R) >= QuorumSize
            /\ \A q \in R : Ballot(q, e.node, e.term) \in ballots
      BY <3>1, <3>7, <3>8
    <3> QED BY <1>1, <3>9 DEF ElectedByQuorum, QuorumSize
  <2> QED BY <2>1, <2>2
<1> QED BY <1>3, <1>4, <1>5, <1>6 DEF ElectionInv

\* Two quorums of _quorum_size share a node.
LEMMA QuorumsMeet ==
    ASSUME NEW Q \in SUBSET Node, NEW R \in SUBSET Node,
           Cardinality(Q) >= QuorumSize, Cardinality(R) >= QuorumSize
    PROVE  Q \cap R # {}
<1>1. /\ IsFiniteSet(Node) /\ IsFiniteSet(Q) /\ IsFiniteSet(R)
      /\ Cardinality(Node) \in Nat /\ Cardinality(Q) \in Nat
      /\ Cardinality(R) \in Nat
  BY NodeAssumption, FS_Subset, FS_CardinalityType
<1>2. Cardinality(Q) + Cardinality(R) > Cardinality(Node)
  BY <1>1 DEF QuorumSize
<1> QED BY <1>1, <1>2, FS_MajoritiesIntersect

\* The invariant gives election safety.
LEMMA ElectionInvSafe ==
    ASSUME TypeOK, ElectionInv
    PROVE  ElectionSafety
<1> SUFFICES ASSUME NEW e \in elected, NEW f \in elected, e.term = f.term
             PROVE  e.node = f.node
  BY DEF ElectionSafety
<1>1. PICK Q \in SUBSET Node :
        /\ Cardinality(Q) >= QuorumSize
        /\ \A q \in Q : Ballot(q, e.node, e.term) \in ballots
  BY DEF ElectionInv, ElectedByQuorum
<1>2. PICK R \in SUBSET Node :
        /\ Cardinality(R) >= QuorumSize
        /\ \A q \in R : Ballot(q, f.node, f.term) \in ballots
  BY DEF ElectionInv, ElectedByQuorum
<1>3. PICK q \in Q \cap R : TRUE
  BY <1>1, <1>2, QuorumsMeet
<1>4. Ballot(q, e.node, e.term) \in ballots /\ Ballot(q, f.node, f.term) \in ballots
  BY <1>1, <1>2, <1>3
<1> QED BY <1>4 DEF ElectionInv, VoteOncePerTerm, Ballot

\* The append requests and replies of a heartbeat or of append_entry never
\* disturb an election other than by making a candidate step down.
LEMMA AppendStep ==
    ASSUME TypeOK, TypeOK', ElectionInv,
           \/ \E r \in appendReqs : HandleAppendEntries(r) \/ AppendEntriesTimeout(r)
           \/ \E r \in appendReplies :
                 \/ HandleAppendSuccess(r)
                 \/ HandleAppendFailure(r)
                 \/ AppendReplyLost(r)
    PROVE  ElectionInv'
<1>1. CASE \E r \in appendReqs : HandleAppendEntries(r)
  <2>1. PICK r \in appendReqs : HandleAppendEntries(r)
    BY <1>1
  <2>2. r.dst \in Node /\ r.term \in Nat /\ \A m \in Node : currentTerm[m] \in Nat
    BY DEF TypeOK, AppendRequest
  <2>3. /\ currentTerm' = [currentTerm EXCEPT ![r.dst] = TermAfter(r.dst, r)]
        /\ votedFor' = [votedFor EXCEPT ![r.dst] = VoteAfter(r.dst, r)]
        /\ UNCHANGED <<election, granted, voteReqs, voteReplies, ballots, elected>>
    BY <2>1 DEF HandleAppendEntries, voteNet, historyVars
  <2>4. state' = IF StepsDown(r.dst, r)
                 THEN [state EXCEPT ![r.dst] = "follower"] ELSE state
    BY <2>1 DEF HandleAppendEntries, BecomeFollower
  <2>5. \A m \in Node :
          \/ currentTerm'[m] = currentTerm[m] /\ votedFor'[m] = votedFor[m]
          \/ currentTerm'[m] > currentTerm[m]
    BY <2>2, <2>3 DEF TypeOK, TermAfter, VoteAfter, Larger
  <2>6. \A m \in Node : state'[m] = "candidate" =>
          state[m] = "candidate" /\ currentTerm'[m] = currentTerm[m]
    BY <2>2, <2>3, <2>4 DEF TypeOK, StepsDown
  <2> QED BY <2>3, <2>5, <2>6, QuietStep
<1>2. CASE \E r \in appendReplies : HandleAppendFailure(r)
  <2>1. PICK r \in appendReplies : HandleAppendFailure(r)
    BY <1>2
  <2>2. r.src \in Node /\ r.term \in Nat
    BY DEF TypeOK, AppendReply
  <2>3. UNCHANGED <<election, granted, voteReqs, voteReplies, ballots, elected>>
    BY <2>1 DEF HandleAppendFailure, voteNet, historyVars
  <2>4. CASE r.term > currentTerm[r.src]
    <3>1. /\ currentTerm' = [currentTerm EXCEPT ![r.src] = r.term]
          /\ votedFor' = [votedFor EXCEPT ![r.src] = Nil]
          /\ state' = [state EXCEPT ![r.src] = "follower"]
      BY <2>1, <2>4 DEF HandleAppendFailure, BecomeFollower
    <3>2. \A m \in Node :
            \/ currentTerm'[m] = currentTerm[m] /\ votedFor'[m] = votedFor[m]
            \/ currentTerm'[m] > currentTerm[m]
      BY <2>2, <2>4, <3>1 DEF TypeOK
    <3>3. \A m \in Node : state'[m] = "candidate" =>
            state[m] = "candidate" /\ currentTerm'[m] = currentTerm[m]
      BY <2>2, <3>1 DEF TypeOK
    <3> QED BY <2>3, <3>2, <3>3, QuietStep
  <2>5. CASE ~(r.term > currentTerm[r.src])
    <3>1. UNCHANGED <<currentTerm, votedFor, state>>
      BY <2>1, <2>5 DEF HandleAppendFailure, nodeVars
    <3> QED BY <2>3, <3>1, QuietStep
  <2> QED BY <2>4, <2>5
<1>3. CASE \/ \E r \in appendReqs : AppendEntriesTimeout(r)
           \/ \E r \in appendReplies : HandleAppendSuccess(r) \/ AppendReplyLost(r)
  <2>1. UNCHANGED <<currentTerm, votedFor, state, election, granted, voteReqs,
                    voteReplies, ballots, elected>>
    BY <1>3 DEF AppendEntriesTimeout, HandleAppendSuccess, AppendReplyLost,
       nodeVars, taskVars, voteNet, historyVars
  <2> QED BY <2>1, QuietStep
<1> QED BY <1>1, <1>2, <1>3

\* Every step of an orderly cluster keeps the invariant.
LEMMA ElectionStep ==
    ASSUME Orderly, TypeOK, TypeOK', ElectionInv, [Next]_vars
    PROVE  ElectionInv'
<1>1. ASSUME NEW n \in Node, ElectionTimeout(n) PROVE ElectionInv'
  <2>1. /\ Campaign(n) /\ election[n] = "idle"
        /\ UNCHANGED <<election, granted, voteReqs, voteReplies, elected>>
    BY <1>1 DEF ElectionTimeout, TimerMayFire, Orderly, voteNet
  <2> QED BY <2>1, CampaignStep
<1>2. ASSUME NEW n \in Node, StartElection(n) PROVE ElectionInv'
  <2>1. /\ Campaign(n) /\ election[n] = "idle"
        /\ election' = [election EXCEPT ![n] = "starting"]
        /\ UNCHANGED <<granted, voteReqs, voteReplies, elected>>
    BY <1>2 DEF StartElection, voteNet
  <2>2. /\ election'[n] = "starting"
        /\ \A m \in Node : m # n => election'[m] = election[m]
    BY <2>1 DEF TypeOK
  <2> QED BY <2>1, <2>2, CampaignStep
<1>3. ASSUME NEW n \in Node,
             \/ ElectionTimerLapses(n) \/ Heartbeat(n)
             \/ \E c \in Cmd : AppendEntry(n, c) \/ SendAppendEntriesToAll(n, c)
      PROVE  ElectionInv'
  <2>1. UNCHANGED <<currentTerm, votedFor, state, election, granted, voteReqs,
                    voteReplies, ballots, elected>>
    BY <1>3 DEF ElectionTimerLapses, Heartbeat, AppendEntry,
       SendAppendEntriesToAll, nodeVars, taskVars, voteNet, historyVars
  <2> QED BY <2>1, QuietStep
<1>4. ASSUME NEW r \in voteReqs, RequestVoteTimeout(r) PROVE ElectionInv'
  <2>1. /\ UNCHANGED <<currentTerm, votedFor, state, election, granted,
                       voteReplies, ballots, elected>>
        /\ voteReqs' = (voteReqs \ {r}) \cup {Abandoned(r)}
    BY <1>4 DEF RequestVoteTimeout, nodeVars, taskVars, historyVars
  <2>2. r \in VoteRequest /\ r.dst # r.src
    BY DEF TypeOK, ElectionInv, RequestsCurrent
  <2>3. ~Abandoned(r).live /\ Abandoned(r).dst # Abandoned(r).src
    BY <2>2 DEF Abandoned, VoteRequest
  <2> QED BY <2>1, <2>3, QuietStep
<1>5. ASSUME NEW r \in voteReplies, VoteReplyLost(r) PROVE ElectionInv'
  <2>1. /\ UNCHANGED <<currentTerm, votedFor, state, election, granted,
                       voteReqs, ballots, elected>>
        /\ voteReplies' \subseteq voteReplies
    BY <1>5 DEF VoteReplyLost, nodeVars, taskVars, historyVars
  <2> QED BY <2>1, QuietStep
<1>6. ASSUME LoseRequest PROVE ElectionInv'
  <2>1. /\ UNCHANGED <<currentTerm, votedFor, state, election, granted,
                       voteReplies, ballots, elected>>
        /\ voteReqs' \subseteq voteReqs
    BY <1>6 DEF LoseRequest, nodeVars, taskVars, historyVars
  <2> QED BY <2>1, QuietStep
<1>7. ASSUME NEW n \in Node PROVE ~Restart(n)
  BY DEF Restart, Orderly, TypeOK
<1>8. ASSUME UNCHANGED vars PROVE ElectionInv'
  <2>1. UNCHANGED <<currentTerm, votedFor, state, election, granted, voteReqs,
                    voteReplies, ballots, elected>>
    BY <1>8 DEF vars, nodeVars, taskVars, voteNet, historyVars
  <2> QED BY <2>1, QuietStep
<1> QED BY <1>1, <1>2, <1>3, <1>4, <1>5, <1>6, <1>7, <1>8, RequestVotesStep,
           HandleRequestVoteStep, HandleVoteReplyStep, ElectionEndStep,
           AppendStep DEF Next

\* In a cluster of any size, however requests and replies are delayed, lost or
\* reordered, no two nodes become leader in one term, as long as nobody
\* restarts and vote requests end within the election timeout.
THEOREM ElectionsAreSafe == ASSUME Orderly PROVE Spec => []ElectionSafety
<1>1. TypeOK /\ ElectionInv /\ TypeOK' /\ [Next]_vars => ElectionInv'
  BY ElectionStep
<1>2. TypeOK /\ ElectionInv => ElectionSafety
  BY ElectionInvSafe
<1> QED BY <1>1, <1>2, ElectionInit, TypeCorrect, PTL DEF Spec

\* Under the same conditions nobody votes for two candidates in one term.
THEOREM VotesAreCastOnce == ASSUME Orderly PROVE Spec => []VoteOncePerTerm
<1>1. TypeOK /\ ElectionInv /\ TypeOK' /\ [Next]_vars => ElectionInv'
  BY ElectionStep
<1>2. ElectionInv => VoteOncePerTerm
  BY DEF ElectionInv
<1> QED BY <1>1, <1>2, ElectionInit, TypeCorrect, PTL DEF Spec

-----------------------------------------------------------------------------
(***************************************************************************)
(* Properties of single nodes, with restarts and slow requests.            *)
(***************************************************************************)

\* What _become_follower assigns on one node.
LEMMA BecomeFollowerEffect ==
    ASSUME TypeOK, NEW n \in Node, NEW leader, NEW reqs, NEW replies,
           BecomeFollower(n, leader, reqs, replies)
    PROVE  /\ state'[n] = "follower" /\ timer'[n] /\ ~inProgress'[n]
           /\ \A m \in Node : m # n => /\ state'[m] = state[m]
                                      /\ timer'[m] = timer[m]
                                      /\ inProgress'[m] = inProgress[m]
BY DEF BecomeFollower, TypeOK

\* A received message leaves a node as it is, except that it may arm its timer,
\* or makes it a follower.
LEMMA MessageEffect ==
    ASSUME TypeOK,
           \/ \E r \in voteReqs : HandleRequestVote(r)
           \/ \E r \in voteReplies : HandleVoteReply(r)
           \/ \E r \in appendReqs : HandleAppendEntries(r)
           \/ \E r \in appendReplies : HandleAppendSuccess(r) \/ HandleAppendFailure(r)
    PROVE  /\ UNCHANGED <<election, elected>>
           /\ \A m \in Node :
                \/ state'[m] = "follower" /\ timer'[m] /\ ~inProgress'[m]
                \/ /\ state'[m] = state[m] /\ inProgress'[m] = inProgress[m]
                   /\ timer[m] => timer'[m]
                   /\ state[m] = "leader" => currentTerm'[m] = currentTerm[m]
<1>1. CASE \E r \in voteReqs : HandleRequestVote(r)
  <2>1. PICK r \in voteReqs : HandleRequestVote(r)
    BY <1>1
  <2>2. r.dst \in Node /\ r.term \in Nat /\ \A m \in Node : currentTerm[m] \in Nat
    BY DEF TypeOK, VoteRequest
  <2>3. /\ UNCHANGED <<election, elected>>
        /\ currentTerm' = [currentTerm EXCEPT ![r.dst] = TermAfter(r.dst, r)]
    BY <2>1 DEF HandleRequestVote
  <2>4. CASE r.term > currentTerm[r.dst]
    <3>1. BecomeFollower(r.dst, Nil, appendReqs, appendReplies)
      BY <2>1, <2>4 DEF HandleRequestVote
    <3>2. \A m \in Node : m # r.dst => currentTerm'[m] = currentTerm[m]
      BY <2>3 DEF TypeOK
    <3> QED BY <2>2, <2>3, <3>1, <3>2, BecomeFollowerEffect
  <2>5. CASE ~(r.term > currentTerm[r.dst])
    <3>1. /\ UNCHANGED <<state, inProgress>>
          /\ timer' = [timer EXCEPT ![r.dst] = @ \/ Grants(r.dst, r)]
      BY <2>1, <2>5 DEF HandleRequestVote
    <3>2. \A m \in Node : currentTerm'[m] = currentTerm[m]
      BY <2>2, <2>3, <2>5 DEF TypeOK, TermAfter, Larger
    <3>3. \A m \in Node : timer[m] => timer'[m]
      BY <2>2, <3>1 DEF TypeOK
    <3> QED BY <2>3, <3>1, <3>2, <3>3
  <2> QED BY <2>4, <2>5
<1>2. CASE \E r \in voteReplies : HandleVoteReply(r)
  <2>1. PICK r \in voteReplies : HandleVoteReply(r)
    BY <1>2
  <2>2. r.src \in Node
    BY DEF TypeOK, VoteReply
  <2>3. UNCHANGED <<election, elected>>
    BY <2>1 DEF HandleVoteReply, historyVars
  <2>4. CASE r.term > currentTerm[r.src]
    <3>1. /\ BecomeFollower(r.src, Nil, appendReqs, appendReplies)
          /\ currentTerm' = [currentTerm EXCEPT ![r.src] = r.term]
      BY <2>1, <2>4 DEF HandleVoteReply
    <3>2. \A m \in Node : m # r.src => currentTerm'[m] = currentTerm[m]
      BY <3>1 DEF TypeOK
    <3> QED BY <2>2, <2>3, <3>1, <3>2, BecomeFollowerEffect
  <2>5. CASE ~(r.term > currentTerm[r.src])
    BY <2>1, <2>3, <2>5 DEF HandleVoteReply, nodeVars
  <2> QED BY <2>4, <2>5
<1>3. CASE \E r \in appendReqs : HandleAppendEntries(r)
  <2>1. PICK r \in appendReqs : HandleAppendEntries(r)
    BY <1>3
  <2>2. r.dst \in Node
    BY DEF TypeOK, AppendRequest
  <2>3. /\ UNCHANGED <<election, elected>>
        /\ currentTerm' = [currentTerm EXCEPT ![r.dst] = TermAfter(r.dst, r)]
    BY <2>1 DEF HandleAppendEntries, historyVars
  <2>4. \A m \in Node : m # r.dst => currentTerm'[m] = currentTerm[m]
    BY <2>3 DEF TypeOK
  <2>5. CASE StepsDown(r.dst, r)
    <3>1. PICK replies : BecomeFollower(r.dst, r.src, appendReqs \ {r}, replies)
      BY <2>1, <2>5 DEF HandleAppendEntries
    <3> QED BY <2>2, <2>3, <2>4, <3>1, BecomeFollowerEffect
  <2>6. CASE ~StepsDown(r.dst, r)
    <3>1. /\ UNCHANGED <<state, inProgress>>
          /\ timer' = [timer EXCEPT ![r.dst] = TRUE]
      BY <2>1, <2>6 DEF HandleAppendEntries
    <3>2. \A m \in Node : timer[m] => timer'[m]
      BY <2>2, <3>1 DEF TypeOK
    <3>3. state[r.dst] # "leader"
      BY <2>6 DEF StepsDown
    <3> QED BY <2>3, <2>4, <3>1, <3>2, <3>3
  <2> QED BY <2>5, <2>6
<1>4. CASE \E r \in appendReplies : HandleAppendSuccess(r)
  BY <1>4 DEF HandleAppendSuccess, nodeVars, taskVars, historyVars
<1>5. CASE \E r \in appendReplies : HandleAppendFailure(r)
  <2>1. PICK r \in appendReplies : HandleAppendFailure(r)
    BY <1>5
  <2>2. r.src \in Node
    BY DEF TypeOK, AppendReply
  <2>3. UNCHANGED <<election, elected>>
    BY <2>1 DEF HandleAppendFailure, historyVars
  <2>4. CASE r.term > currentTerm[r.src]
    <3>1. /\ BecomeFollower(r.src, Nil, appendReqs, appendReplies \ {r})
          /\ currentTerm' = [currentTerm EXCEPT ![r.src] = r.term]
      BY <2>1, <2>4 DEF HandleAppendFailure
    <3>2. \A m \in Node : m # r.src => currentTerm'[m] = currentTerm[m]
      BY <3>1 DEF TypeOK
    <3> QED BY <2>2, <2>3, <3>1, <3>2, BecomeFollowerEffect
  <2>5. CASE ~(r.term > currentTerm[r.src])
    BY <2>1, <2>3, <2>5 DEF HandleAppendFailure, nodeVars
  <2> QED BY <2>4, <2>5
<1> QED BY <1>1, <1>2, <1>3, <1>4, <1>5

\* The other steps of one node or of the network leave these variables alone.
LEMMA OtherEffect ==
    ASSUME \/ UNCHANGED vars
           \/ \E n \in Node : Heartbeat(n)
           \/ \E n \in Node, c \in Cmd :
                 AppendEntry(n, c) \/ SendAppendEntriesToAll(n, c)
           \/ \E r \in voteReqs : RequestVoteTimeout(r)
           \/ \E r \in voteReplies : VoteReplyLost(r)
           \/ \E r \in appendReqs : AppendEntriesTimeout(r)
           \/ \E r \in appendReplies : AppendReplyLost(r)
           \/ LoseRequest
    PROVE  UNCHANGED <<currentTerm, state, timer, inProgress, election, elected>>
BY DEF vars, Heartbeat, AppendEntry, SendAppendEntriesToAll,
   RequestVoteTimeout, VoteReplyLost, AppendEntriesTimeout, AppendReplyLost,
   LoseRequest, nodeVars, taskVars, historyVars

SingleNodeInv == NoNodeIsStranded /\ LeaderOwnsItsTerm

\* A node that starts has a timer and no election.
LEMMA SingleNodeInit == Init => SingleNodeInv
BY DEF Init, SingleNodeInv, NoNodeIsStranded, LeaderOwnsItsTerm

\* Every handler leaves a node with its timer, its election or its term in order.
LEMMA SingleNodeStep ==
    ASSUME TypeOK, SingleNodeInv, [Next]_vars
    PROVE  SingleNodeInv'
<1> USE DEF SingleNodeInv, NoNodeIsStranded, LeaderOwnsItsTerm
<1>1. ASSUME NEW n \in Node, ElectionTimeout(n) PROVE SingleNodeInv'
  BY <1>1 DEF ElectionTimeout, Campaign, TypeOK
<1>2. ASSUME NEW n \in Node, ElectionTimerLapses(n) PROVE SingleNodeInv'
  <2>1. \A m \in Node : timer'[m] = timer[m] \/ state[m] = "leader" \/ inProgress[m]
    BY <1>2 DEF ElectionTimerLapses, TypeOK
  <2> QED BY <1>2, <2>1 DEF ElectionTimerLapses, nodeVars, historyVars
<1>3. ASSUME NEW n \in Node, StartElection(n) PROVE SingleNodeInv'
  BY <1>3 DEF StartElection, Campaign, TypeOK
<1>4. ASSUME NEW n \in Node, RequestVotes(n) PROVE SingleNodeInv'
  <2>1. UNCHANGED <<currentTerm, state, timer, inProgress, elected>>
    BY <1>4 DEF RequestVotes, nodeVars, historyVars
  <2>2. /\ election[n] = "starting" /\ election'[n] = "voting"
        /\ \A m \in Node : m # n => election'[m] = election[m]
    BY <1>4 DEF RequestVotes, TypeOK
  <2> QED BY <2>1, <2>2
<1>5. ASSUME NEW n \in Node, BecomeLeader(n) PROVE SingleNodeInv'
  <2>1. /\ UNCHANGED <<currentTerm, timer>>
        /\ elected' = elected \cup {[node |-> n, term |-> currentTerm[n]]}
    BY <1>5 DEF BecomeLeader
  <2>2. /\ state'[n] = "leader" /\ ~inProgress'[n] /\ election'[n] = "idle"
        /\ \A m \in Node : m # n => /\ state'[m] = state[m]
                                   /\ inProgress'[m] = inProgress[m]
                                   /\ election'[m] = election[m]
    BY <1>5 DEF BecomeLeader, TypeOK
  <2> QED BY <2>1, <2>2
<1>6. ASSUME NEW n \in Node, ElectionFails(n) PROVE SingleNodeInv'
  <2>1. UNCHANGED <<currentTerm, state, timer, elected>>
    BY <1>6 DEF ElectionFails, nodeVars, historyVars
  <2>2. /\ ~inProgress'[n] /\ election'[n] = "idle"
        /\ \A m \in Node : m # n => /\ inProgress'[m] = inProgress[m]
                                   /\ election'[m] = election[m]
    BY <1>6 DEF ElectionFails, TypeOK
  <2> QED BY <2>1, <2>2
<1>7. ASSUME NEW n \in Node, Restart(n) PROVE SingleNodeInv'
  <2>1. /\ state'[n] = "follower" /\ timer'[n] /\ ~inProgress'[n]
        /\ elected' = elected
        /\ \A m \in Node : m # n => /\ state'[m] = state[m]
                                   /\ timer'[m] = timer[m]
                                   /\ inProgress'[m] = inProgress[m]
                                   /\ election'[m] = election[m]
                                   /\ currentTerm'[m] = currentTerm[m]
    BY <1>7 DEF Restart, TypeOK
  <2> QED BY <2>1
<1>8. CASE UNCHANGED <<currentTerm, state, timer, inProgress, election, elected>>
  BY <1>8
<1>9. CASE \/ \E r \in voteReqs : HandleRequestVote(r)
           \/ \E r \in voteReplies : HandleVoteReply(r)
           \/ \E r \in appendReqs : HandleAppendEntries(r)
           \/ \E r \in appendReplies : HandleAppendSuccess(r) \/ HandleAppendFailure(r)
  BY <1>9, MessageEffect
<1> QED BY <1>1, <1>2, <1>3, <1>4, <1>5, <1>6, <1>7, <1>8, <1>9, OtherEffect
        DEF Next

\* On every node and in every reachable state something is left that will move
\* the node on: an armed timer, an election under way, or the right to start one.
THEOREM NodesAreNeverStranded == Spec => []NoNodeIsStranded
<1>1. SingleNodeInv => NoNodeIsStranded
  BY DEF SingleNodeInv
<1> QED BY <1>1, SingleNodeInit, SingleNodeStep, TypeCorrect, PTL DEF Spec

\* A leader is always in a term it was elected in, restarts and slow requests
\* included.
THEOREM LeadersOwnTheirTerms == Spec => []LeaderOwnsItsTerm
<1>1. SingleNodeInv => LeaderOwnsItsTerm
  BY DEF SingleNodeInv
<1> QED BY <1>1, SingleNodeInit, SingleNodeStep, TypeCorrect, PTL DEF Spec

\* A step that leaves a node leader only adds to the end of its log.
LEMMA LeaderLogStep ==
    ASSUME TypeOK, [Next]_vars, NEW n \in Node, state[n] = "leader",
           state'[n] = "leader"
    PROVE  /\ Len(log[n]) <= Len(log'[n])
           /\ SubSeq(log'[n], 1, Len(log[n])) = log[n]
<1>1. log[n] \in Seq(Entry)
  BY DEF TypeOK
<1>2. CASE log'[n] = log[n]
  <2>1. Len(log[n]) \in Nat
    BY <1>1
  <2> QED BY <1>1, <1>2, <2>1, SubSeqFull
<1>3. CASE \E c \in Cmd : AppendEntry(n, c)
  <2>1. PICK c \in Cmd : log'[n] = Append(log[n], [term |-> currentTerm[n], cmd |-> c])
    BY <1>3 DEF AppendEntry, TypeOK
  <2>2. [term |-> currentTerm[n], cmd |-> c] \in Entry
    BY DEF Entry, TypeOK
  <2> HIDE DEF Entry
  <2>3. /\ log'[n] \in Seq(Entry)
        /\ Len(log'[n]) = Len(log[n]) + 1
        /\ \A i \in 1..Len(log[n]) : log'[n][i] = log[n][i]
    BY <1>1, <2>1, <2>2, AppendProperties
  <2>4. /\ SubSeq(log'[n], 1, Len(log[n])) \in Seq(Entry)
        /\ Len(SubSeq(log'[n], 1, Len(log[n]))) = Len(log[n])
        /\ \A i \in 1..Len(log[n]) :
              SubSeq(log'[n], 1, Len(log[n]))[i] = log'[n][i]
    <3>1. Len(log[n]) \in Nat
      BY <1>1
    <3>2. \A i \in 1..Len(log[n]) : log'[n][i] \in Entry
      BY <1>1, <2>3, <3>1, ElementOfSeq
    <3> QED BY <3>1, <3>2, SubSeqProperties
  <2>5. SubSeq(log'[n], 1, Len(log[n])) = log[n]
    BY <1>1, <2>3, <2>4, SeqEqual
  <2> QED BY <1>1, <2>3, <2>5
<1>4. CASE \E r \in appendReqs : HandleAppendEntries(r)
  <2>1. PICK r \in appendReqs : HandleAppendEntries(r)
    BY <1>4
  <2>2. r.dst \in Node
    BY DEF TypeOK, AppendRequest
  <2>3. r.dst # n
    <3>1. SUFFICES ASSUME r.dst = n PROVE FALSE
      OBVIOUS
    <3>2. StepsDown(n, r)
      BY <3>1 DEF StepsDown
    <3>3. state'[n] = "follower"
      BY <2>1, <3>1, <3>2 DEF HandleAppendEntries, BecomeFollower, TypeOK
    <3> QED BY <3>3
  <2>4. \E lg : log' = [log EXCEPT ![r.dst] = lg]
    BY <2>1 DEF HandleAppendEntries
  <2> QED BY <1>2, <2>2, <2>3, <2>4 DEF TypeOK
<1>5. CASE \E m \in Node : Restart(m)
  <2>1. PICK m \in Node : Restart(m)
    BY <1>5
  <2>2. m # n
    BY <2>1 DEF Restart, TypeOK
  <2>3. log'[n] = log[n]
    BY <2>1, <2>2 DEF Restart, TypeOK
  <2> QED BY <1>2, <2>3
<1>6. CASE \E m \in Node, c \in Cmd : m # n /\ AppendEntry(m, c)
  <2>1. log'[n] = log[n]
    BY <1>6 DEF AppendEntry, TypeOK
  <2> QED BY <1>2, <2>1
<1>7. CASE UNCHANGED log
  BY <1>2, <1>7
<1>8. \/ UNCHANGED log
      \/ \E m \in Node, c \in Cmd : AppendEntry(m, c)
      \/ \E r \in appendReqs : HandleAppendEntries(r)
      \/ \E m \in Node : Restart(m)
  BY DEF Next, vars, logVars, ElectionTimeout, ElectionTimerLapses,
     StartElection, RequestVotes, BecomeLeader, ElectionFails, Heartbeat,
     SendAppendEntriesToAll, HandleRequestVote, RequestVoteTimeout,
     HandleVoteReply, VoteReplyLost, AppendEntriesTimeout,
     HandleAppendSuccess, HandleAppendFailure, AppendReplyLost, LoseRequest
<1> QED BY <1>3, <1>4, <1>5, <1>6, <1>7, <1>8

\* No node that stays leader through a step loses or changes an entry of its
\* log in it: the only handler that rewrites a log also ends a leadership.
THEOREM LeadersOnlyAppend == Spec => LeaderAppendOnly
<1>1. TypeOK /\ [Next]_vars =>
        [\A n \in Node : state[n] = "leader" /\ state'[n] = "leader" =>
            /\ Len(log[n]) <= Len(log'[n])
            /\ SubSeq(log'[n], 1, Len(log[n])) = log[n]]_vars
  BY LeaderLogStep
<1> QED BY <1>1, TypeCorrect, PTL DEF Spec, LeaderAppendOnly
=============================================================================
