------------------------- MODULE RaftOneLeaderProofs -------------------------
(***************************************************************************)
(* Theorems about Raft while one node leads, for every cluster, command    *)
(* set and bound.  What every log and every append request holds is copied *)
(* from the log of that node, and what a node commits is behind it.        *)
(***************************************************************************)
EXTENDS RaftOneLeader, RaftLogProofs, WellFoundedInduction

\* Whatever p holds q holds at the same place.
CopyOf(p, q) == \A x \in Nat : Has(p, x) => Has(q, x) /\ At(p, x) = At(q, x)

\* S alone has led, sent and received answers; everyone else is behind.
LedBy(S) ==
    /\ \A n \in Node : state[n] = "leader" => n = S
    /\ \A s \in pendingSend : s[1] = S
    /\ \A r \in appendReqs : r.src = S /\ r.dst # S /\ r.commit <= commitIndex[S]
    /\ \A r \in appendReplies : r.src = S /\ r.dst # S
    /\ \A p \in Pieces : CopyOf(p, LogPiece(log[S]))
    /\ \A n \in Node : commitIndex[n] <= commitIndex[S]

\* Nobody but S was elected, perhaps nobody at all.
Only(S) == \A e \in elected : e.node = S

\* What a node has applied is its log up to the commit index.
AppliedIsPrefix == \A n \in Node :
    /\ commitIndex[n] < Len(log[n]) /\ Len(applied[n]) = commitIndex[n] + 1
    /\ \A i \in 1..Len(applied[n]) : applied[n][i] = log[n][i]

OneLeaderInv ==
    /\ \E S \in Node : Only(S)
    /\ elected = {} => \A n \in Node : log[n] = <<>>
    /\ \A S \in Node : Only(S) => LedBy(S)
    /\ AppliedIsPrefix

-----------------------------------------------------------------------------
\* Copies of one log

\* A log that copies another is the beginning of it.
LEMMA CopiedLog ==
    ASSUME NEW a \in Seq(Entry), NEW b \in Seq(Entry),
           CopyOf(LogPiece(a), LogPiece(b))
    PROVE  Len(a) <= Len(b) /\ \A i \in 1..Len(a) : a[i] = b[i]
<1>1. Len(a) \in Nat /\ Len(b) \in Nat
  OBVIOUS
<1>2. ASSUME NEW i \in 1..Len(a) PROVE i \in 1..Len(b) /\ a[i] = b[i]
  <2>1. i \in Nat
    BY <1>1
  <2>2. Has(LogPiece(a), i) /\ At(LogPiece(a), i) = a[i]
    BY <2>1, LogPieceFacts
  <2>3. Has(LogPiece(b), i) /\ At(LogPiece(b), i) = At(LogPiece(a), i)
    BY <2>1, <2>2 DEF CopyOf
  <2> QED BY <2>1, <2>2, <2>3, LogPieceFacts
<1>3. Len(a) = 0 \/ Len(a) \in 1..Len(a)
  BY <1>1
<1>4. Len(a) <= Len(b)
  BY <1>1, <1>2, <1>3
<1> QED BY <1>2, <1>4

\* The other way round.
LEMMA CopyOfLog ==
    ASSUME NEW a \in Seq(Entry), NEW b \in Seq(Entry),
           Len(a) <= Len(b), \A i \in 1..Len(a) : a[i] = b[i]
    PROVE  CopyOf(LogPiece(a), LogPiece(b))
<1> SUFFICES ASSUME NEW x \in Nat, Has(LogPiece(a), x)
             PROVE  Has(LogPiece(b), x) /\ At(LogPiece(a), x) = At(LogPiece(b), x)
  BY DEF CopyOf
<1>1. Len(a) \in Nat /\ Len(b) \in Nat
  OBVIOUS
<1>2. x \in 1..Len(a) /\ At(LogPiece(a), x) = a[x] /\ At(LogPiece(b), x) = b[x]
  BY LogPieceFacts
<1>3. x \in 1..Len(b) /\ a[x] = b[x]
  BY <1>1, <1>2
<1> QED BY <1>2, <1>3, LogPieceFacts

\* Copies of a log are copies of what it grows into.
LEMMA CopyGrows ==
    ASSUME NEW p, NEW q, NEW f, CopyOf(p, q), CopyOf(q, f)
    PROVE  CopyOf(p, f)
BY DEF CopyOf

\* The append loop of _handle_append_entries where the log and the request are
\* copied from one log: nothing is cut off, and the request is held to its end.
LEMMA MergedGrows ==
    ASSUME NEW lg \in Seq(Entry), NEW r \in AppendRequest, PrevMatches(r, lg),
           NEW L \in Seq(Entry), CopyOf(LogPiece(lg), LogPiece(L)),
           CopyOf(RequestPiece(r), LogPiece(L))
    PROVE  LET m == MergeEntries(lg, r.prevIndex, r.entries)
           IN  /\ m \in Seq(Entry) /\ CopyOf(LogPiece(m), LogPiece(L))
               /\ Len(lg) <= Len(m) /\ \A i \in 1..Len(lg) : m[i] = lg[i]
               /\ r.prevIndex + Len(r.entries) < Len(m)
<1> DEFINE prev == r.prevIndex
           m == MergeEntries(lg, prev, r.entries)
           M == LogPiece(m)
           R == RequestPiece(r)
           end == prev + 1 + Len(r.entries)
<1>1. /\ prev \in Index /\ prev \in Int /\ prev + 1 \in Nat /\ prev < Len(lg)
      /\ r.entries \in Seq(Entry) /\ Len(r.entries) \in Nat /\ Len(lg) \in Nat
      /\ end \in Nat
  BY DEF AppendRequest, Index, PrevMatches
<1>2. m \in Seq(Entry) /\ Len(m) \in Nat
  BY <1>1, MergeEntriesType
<1>3. CopyOf(M, LogPiece(L))
  <2>1. CASE m = lg
    BY <2>1
  <2>2. CASE m # lg
    <3>1. /\ \A x \in Nat : Has(M, x) <=> x \in 1..(R.at + Len(r.entries))
          /\ \A x \in 1..R.at : Has(LogPiece(lg), x) /\ At(M, x) = At(LogPiece(lg), x)
          /\ \A x \in Nat : Has(M, x) /\ x > R.at =>
                /\ Has(R, x)
                /\ \/ At(M, x) = At(R, x)
                   \/ Has(LogPiece(lg), x) /\ At(M, x) = At(LogPiece(lg), x)
      BY <2>2, MergedPiece
    <3>2. R.at \in Nat
      BY RequestPieceFacts DEF Piece
    <3>3. CopyOf(R, LogPiece(L))
      OBVIOUS
    <3> HIDE DEF M, R
    <3>4. ASSUME NEW x \in Nat, Has(M, x)
          PROVE  Has(LogPiece(L), x) /\ At(M, x) = At(LogPiece(L), x)
      <4>1. x > R.at \/ x \in 1..R.at
        BY <3>1, <3>2, <3>4
      <4> QED BY <3>1, <3>3, <3>4, <4>1 DEF CopyOf
    <3> QED BY <3>4 DEF CopyOf
  <2> QED BY <2>1, <2>2
<1>4. Len(lg) <= Len(m) /\ prev + Len(r.entries) < Len(m)
  <2>1. CASE Len(lg) >= end
    <3>1. ASSUME NEW i \in (prev + 2)..end
          PROVE  i <= Len(lg) /\ lg[i].term = r.entries[i - prev - 1].term
      <4>1. i \in Nat /\ i \in 1..Len(lg) /\ i - prev - 1 \in 1..Len(r.entries)
        <5>1. \A a \in Int, l \in Nat : \A z \in (a + 2)..(a + 1 + l) :
                a + 1 \in Nat => z \in Nat /\ z >= 1 /\ z - a - 1 \in 1..l
          OBVIOUS
        <5>2. i \in Nat /\ i >= 1 /\ i - prev - 1 \in 1..Len(r.entries)
          BY <1>1, <5>1
        <5>3. i <= Len(lg)
          BY <1>1, <2>1
        <5> QED BY <1>1, <5>2, <5>3
      <4>2. Has(LogPiece(lg), i) /\ At(LogPiece(lg), i) = lg[i]
        BY <4>1, LogPieceFacts
      <4>3. Has(R, i) /\ At(R, i) = r.entries[i - prev - 1]
        BY <4>1, RequestPieceFacts
      <4>4. lg[i] = r.entries[i - prev - 1]
        BY <4>1, <4>2, <4>3 DEF CopyOf
      <4> QED BY <4>1, <4>4
    <3>2. m = lg
      BY <3>1 DEF MergeEntries
    <3> QED BY <1>1, <2>1, <3>2
  <2>2. CASE Len(lg) < end
    <3>1. (m = lg /\ \A k \in 1..Len(r.entries) : prev + 1 + k <= Len(lg)) \/ Len(m) = end
      <4> HIDE DEF Entry
      <4> QED BY <1>1, MergeEntriesResult
    <3>2. CASE Len(m) = end
      BY <1>1, <2>2, <3>2
    <3>3. CASE m = lg /\ \A k \in 1..Len(r.entries) : prev + 1 + k <= Len(lg)
      <4>1. Len(r.entries) = 0 \/ Len(r.entries) \in 1..Len(r.entries)
        BY <1>1
      <4>2. CASE Len(r.entries) = 0
        BY <1>1, <2>2, <4>2
      <4>3. CASE prev + 1 + Len(r.entries) <= Len(lg)
        BY <1>1, <2>2, <4>3
      <4> QED BY <3>3, <4>1, <4>2, <4>3
    <3> QED BY <3>1, <3>2, <3>3
  <2> HIDE DEF m, end
  <2> QED BY <1>1, <2>1, <2>2
<1>5. ASSUME NEW i \in 1..Len(lg) PROVE m[i] = lg[i]
  <2>1. i \in 1..Len(m)
    BY <1>1, <1>2, <1>4
  <2> HIDE DEF m
  <2> QED BY <1>2, <1>3, <2>1, CopiedLog
<1> QED BY <1>2, <1>3, <1>4, <1>5

-----------------------------------------------------------------------------
\* What a step does to the variables of OneLeaderInv

\* Nothing but roles, terms and what is given up.
Idle ==
    /\ UNCHANGED <<log, commitIndex, applied, matchIndex, restarts, elected>>
    /\ pendingSend' \subseteq pendingSend /\ appendReplies' \subseteq appendReplies
    /\ \A r \in appendReqs' : FromBefore(r)
    /\ \A n \in Node : state'[n] = "leader" => state[n] = "leader"

\* A heartbeat round, or the tasks of append_entry.
SendStep(n) ==
    /\ state[n] = "leader" \/ \E c \in Cmd : <<n, c>> \in pendingSend
    /\ \E reach \in SUBSET Peers(n), origin \in Cmd \cup {Nil} :
          SendAppendEntries(n, reach, origin)
    /\ UNCHANGED <<log, commitIndex, applied, matchIndex, restarts, elected,
                   state, appendReplies>>
    /\ pendingSend' \subseteq pendingSend

\* _become_follower leaves no new leader and no new request or reply.
LEMMA FollowerIdles ==
    ASSUME TypeOK, NEW n, NEW leader, NEW reqs \in SUBSET appendReqs,
           NEW replies \in SUBSET appendReplies, BecomeFollower(n, leader, reqs, replies)
    PROVE  /\ appendReplies' \subseteq appendReplies
           /\ \A r \in appendReqs' : FromBefore(r)
           /\ \A m \in Node : state'[m] = "leader" => state[m] = "leader"
<1>1. \A r \in appendReqs' : FromBefore(r)
  BY CancelledFromBefore DEF BecomeFollower
<1>2. appendReplies' \subseteq appendReplies
  BY DEF BecomeFollower, Unheard
<1>3. state \in [Node -> {"follower", "candidate", "leader"}]
  BY DEF TypeOK
<1>4. \A m \in Node : state'[m] = "leader" => state[m] = "leader"
  BY <1>3 DEF BecomeFollower
<1> QED BY <1>1, <1>2, <1>4

\* The handlers by what they do to the replication of the log: all that concerns
\* elections and what is given up is Idle.
LEMMA ReplicationKinds ==
    ASSUME TypeOK, [Next]_vars
    PROVE  \/ Idle
           \/ \E n \in Node : BecomeLeader(n)
           \/ \E n \in Node : SendStep(n)
           \/ \E n \in Node, c \in Cmd : AppendEntry(n, c)
           \/ \E r \in appendReqs : HandleAppendEntries(r)
           \/ \E r \in appendReplies : HandleAppendSuccess(r)
           \/ \E n \in Node : Restart(n)
<1>0. state \in [Node -> {"follower", "candidate", "leader"}]
  BY DEF TypeOK
<1>1. CASE \E n \in Node : ElectionTimeout(n) \/ StartElection(n)
  BY <1>0, <1>1 DEF ElectionTimeout, StartElection, Campaign, Idle, FromBefore,
     logVars, leaderVars, appendNet
<1>2. CASE \E n \in Node : ElectionTimerLapses(n) \/ RequestVotes(n) \/ ElectionFails(n)
  BY <1>2 DEF ElectionTimerLapses, RequestVotes, ElectionFails, Idle, FromBefore,
     nodeVars, logVars, leaderVars, appendNet, historyVars
<1>3. CASE \E n \in Node : Heartbeat(n)
  BY <1>3 DEF Heartbeat, SendStep, nodeVars, logVars, leaderVars, taskVars, historyVars
<1>4. CASE \E n \in Node, c \in Cmd : SendAppendEntriesToAll(n, c)
  <2>1. PICK n \in Node, c \in Cmd : SendAppendEntriesToAll(n, c)
    BY <1>4
  <2>2. SendStep(n)
    BY <2>1 DEF SendAppendEntriesToAll, SendStep, nodeVars, logVars, leaderVars,
       historyVars
  <2> QED BY <2>2
<1>5. CASE \E r \in voteReqs : HandleRequestVote(r)
  <2>1. PICK r \in voteReqs : HandleRequestVote(r)
    BY <1>5
  <2>2. /\ UNCHANGED <<log, commitIndex, applied, matchIndex, restarts, elected>>
        /\ pendingSend' = pendingSend
        /\ \/ BecomeFollower(r.dst, Nil, appendReqs, appendReplies)
           \/ UNCHANGED <<state, appendReqs, appendReplies>>
    BY <2>1 DEF HandleRequestVote, logVars, leaderVars, appendNet
  <2> QED BY <2>2, FollowerIdles DEF Idle, FromBefore
<1>6. CASE \E r \in voteReplies : HandleVoteReply(r)
  <2>1. PICK r \in voteReplies : HandleVoteReply(r)
    BY <1>6
  <2>2. /\ UNCHANGED <<log, commitIndex, applied, matchIndex, restarts, elected>>
        /\ pendingSend' = pendingSend
        /\ \/ BecomeFollower(r.src, Nil, appendReqs, appendReplies)
           \/ UNCHANGED <<state, appendReqs, appendReplies>>
    BY <2>1 DEF HandleVoteReply, nodeVars, logVars, leaderVars, appendNet, historyVars
  <2> QED BY <2>2, FollowerIdles DEF Idle, FromBefore
<1>7. CASE \E r \in appendReplies : HandleAppendFailure(r)
  <2>1. PICK r \in appendReplies : HandleAppendFailure(r)
    BY <1>7
  <2>2. /\ UNCHANGED <<log, commitIndex, applied, matchIndex, restarts, elected>>
        /\ pendingSend' = pendingSend
        /\ \/ BecomeFollower(r.src, Nil, appendReqs, appendReplies \ {r})
           \/ UNCHANGED <<state, appendReqs>> /\ appendReplies' = appendReplies \ {r}
    BY <2>1 DEF HandleAppendFailure, nodeVars, logVars, historyVars
  <2> QED BY <2>2, FollowerIdles DEF Idle, FromBefore
<1>8. CASE \/ \E r \in voteReqs : RequestVoteTimeout(r)
           \/ \E r \in voteReplies : VoteReplyLost(r)
           \/ \E r \in appendReqs : AppendEntriesTimeout(r)
           \/ \E r \in appendReplies : AppendReplyLost(r)
           \/ LoseRequest \/ UNCHANGED vars
  BY <1>8 DEF RequestVoteTimeout, VoteReplyLost, AppendEntriesTimeout, AppendReplyLost,
     LoseRequest, vars, Idle, FromBefore, nodeVars, logVars, leaderVars, taskVars,
     appendNet, historyVars
<1> QED BY <1>1, <1>2, <1>3, <1>4, <1>5, <1>6, <1>7, <1>8 DEF Next

-----------------------------------------------------------------------------
\* Handling of an append request and of its answer

\* _apply_committed_entries where what was applied is the log so far.
LEMMA ApplyCommittedPrefix ==
    ASSUME NEW done \in Seq(Entry), NEW lg \in Seq(Entry), NEW k \in Index,
           Len(done) <= k + 1, k < Len(lg), \A i \in 1..Len(done) : done[i] = lg[i]
    PROVE  LET a == ApplyCommitted(done, lg, k)
           IN  Len(a) = k + 1 /\ \A i \in 1..(k + 1) : a[i] = lg[i]
<1> DEFINE d == Len(done)
           s == SubSeq(lg, d + 1, k + 1)
           a == done \o s
<1>1. /\ d \in Nat /\ Len(lg) \in Nat /\ k \in Int /\ k + 1 \in Nat
      /\ k + 1 <= Len(lg) /\ d <= k + 1
  BY DEF Index
<1>2. \A i \in (d + 1)..(k + 1) : lg[i] \in Entry
  BY <1>1, ElementOfSeq
<1>3. /\ s \in Seq(Entry)
      /\ Len(s) = IF d + 1 <= k + 1 THEN (k + 1) - (d + 1) + 1 ELSE 0
      /\ \A i \in 1..((k + 1) - (d + 1) + 1) : s[i] = lg[(d + 1) + i - 1]
  <2> HIDE DEF d, Entry
  <2> QED BY <1>1, <1>2, SubSeqProperties
<1>4. Len(s) = k + 1 - d
  <2> HIDE DEF d, s
  <2> QED BY <1>1, <1>3
<1>5. /\ a \in Seq(Entry) /\ Len(a) = d + Len(s)
      /\ \A i \in 1..(d + Len(s)) : a[i] = IF i <= d THEN done[i] ELSE s[i - d]
  <2> HIDE DEF s, Entry
  <2> QED BY <1>3, ConcatProperties
<1>6. Len(a) = k + 1
  <2> HIDE DEF d, s, a
  <2> QED BY <1>1, <1>4, <1>5
<1>7. ASSUME NEW i \in 1..(k + 1) PROVE a[i] = lg[i]
  <2>1. i \in 1..(d + Len(s)) /\ i \in Nat
    <3> HIDE DEF d, s
    <3> QED BY <1>1, <1>4
  <2>2. CASE i <= d
    <3>1. i \in 1..d
      BY <1>1, <2>1, <2>2
    <3> QED BY <1>5, <2>1, <2>2, <3>1
  <2>3. CASE i > d
    <3>1. i - d \in 1..((k + 1) - (d + 1) + 1) /\ (d + 1) + (i - d) - 1 = i
      <4> HIDE DEF d
      <4> QED BY <1>1, <2>1, <2>3
    <3>2. s[i - d] = lg[i]
      <4> HIDE DEF s, d
      <4> QED BY <1>3, <3>1
    <3>3. ~(i <= d)
      <4> HIDE DEF d
      <4> QED BY <1>1, <2>1, <2>3
    <3>4. a[i] = s[i - d]
      <4> HIDE DEF s, d, a
      <4> QED BY <1>5, <2>1, <3>3
    <3> QED BY <3>2, <3>4
  <2>4. i <= d \/ i > d
    <3> HIDE DEF d
    <3> QED BY <1>1, <2>1
  <2> QED BY <2>2, <2>3, <2>4
<1> QED BY <1>6, <1>7 DEF ApplyCommitted

\* A follower handles a request of the leader: its log grows by copies, and it
\* applies no more than the leader had when it sent the request.
LEMMA FollowerAppends ==
    ASSUME TypeOK, NEW S \in Node, LedBy(S), AppliedIsPrefix,
           NEW r \in appendReqs, HandleAppendEntries(r)
    PROVE  LET n == r.dst
           IN  /\ n \in Node /\ n # S
               /\ \E m \in Seq(Entry) :
                     /\ log' = [log EXCEPT ![n] = m]
                     /\ CopyOf(LogPiece(m), LogPiece(log[S]))
                     /\ Len(log[n]) <= Len(m)
                     /\ \A i \in 1..Len(log[n]) : m[i] = log[n][i]
                     /\ PrevMatches(r, log[n]) =>
                           r.prevIndex + Len(r.entries) < Len(m)
                     /\ \/ applied' = applied /\ commitIndex' = commitIndex
                        \/ \E k \in Index, a \in Seq(Entry) :
                              /\ k >= commitIndex[n] /\ k <= commitIndex[S] /\ k < Len(m)
                              /\ commitIndex' = [commitIndex EXCEPT ![n] = k]
                              /\ applied' = [applied EXCEPT ![n] = a]
                              /\ Len(a) = k + 1 /\ \A i \in 1..(k + 1) : a[i] = m[i]
<1> DEFINE n == r.dst
           m == IF PrevMatches(r, log[n])
                THEN MergeEntries(log[n], r.prevIndex, r.entries) ELSE log[n]
<1>1. /\ n \in Node /\ r \in AppendRequest /\ m \in Seq(Entry)
      /\ log' = [log EXCEPT ![n] = m]
      /\ \/ applied' = applied /\ commitIndex' = commitIndex
         \/ /\ PrevMatches(r, log[n]) /\ r.commit > commitIndex[n]
            /\ \E ci \in Index :
                  /\ ci = Smaller(r.commit, LastIndex(m)) /\ ci < Len(m)
                  /\ commitIndex' = [commitIndex EXCEPT ![n] = ci]
                  /\ applied' = [applied EXCEPT ![n] = ApplyCommitted(@, m, ci)]
  BY DeliveryEffect
<1>2. n # S /\ r.commit <= commitIndex[S]
  BY DEF LedBy
<1>3. /\ log[n] \in Seq(Entry) /\ log[S] \in Seq(Entry) /\ applied[n] \in Seq(Entry)
      /\ commitIndex[n] \in Index /\ r.commit \in Index /\ commitIndex[S] \in Index
      /\ Len(log[n]) \in Nat /\ Len(m) \in Nat
  <2>1. /\ log \in [Node -> Seq(Entry)] /\ applied \in [Node -> Seq(Entry)]
        /\ commitIndex \in [Node -> Index]
    BY DEF TypeOK
  <2>2. r.commit \in Index
    BY <1>1 DEF AppendRequest
  <2> HIDE DEF m, n
  <2>3. Len(m) \in Nat
    BY <1>1
  <2> QED BY <1>1, <2>1, <2>2, <2>3
<1>4. CopyOf(LogPiece(log[n]), LogPiece(log[S])) /\ CopyOf(RequestPiece(r), LogPiece(log[S]))
  <2>1. LogPiece(log[n]) \in Pieces /\ RequestPiece(r) \in Pieces
    BY <1>1 DEF Pieces, LogPieces, RequestPieces
  <2> QED BY <2>1 DEF LedBy
<1>5. /\ CopyOf(LogPiece(m), LogPiece(log[S])) /\ Len(log[n]) <= Len(m)
      /\ \A i \in 1..Len(log[n]) : m[i] = log[n][i]
      /\ PrevMatches(r, log[n]) => r.prevIndex + Len(r.entries) < Len(m)
  <2>1. CASE PrevMatches(r, log[n])
    BY <1>1, <1>3, <1>4, <2>1, MergedGrows
  <2>2. CASE ~PrevMatches(r, log[n])
    BY <1>3, <1>4, <2>2
  <2> QED BY <2>1, <2>2
<1>6. /\ commitIndex[n] < Len(log[n]) /\ Len(applied[n]) = commitIndex[n] + 1
      /\ \A i \in 1..Len(applied[n]) : applied[n][i] = log[n][i]
  BY <1>1 DEF AppliedIsPrefix
<1> HIDE DEF m, n
<1>7. ASSUME NEW k \in Index, k = Smaller(r.commit, LastIndex(m)), k < Len(m),
             r.commit > commitIndex[n]
      PROVE  /\ k >= commitIndex[n] /\ k <= commitIndex[S]
             /\ ApplyCommitted(applied[n], m, k) \in Seq(Entry)
             /\ Len(ApplyCommitted(applied[n], m, k)) = k + 1
             /\ \A i \in 1..(k + 1) : ApplyCommitted(applied[n], m, k)[i] = m[i]
  <2>1. k >= commitIndex[n] /\ k <= commitIndex[S]
    BY <1>2, <1>3, <1>5, <1>6, <1>7 DEF Smaller, LastIndex, Index
  <2>2. Len(applied[n]) <= k + 1 /\ \A i \in 1..Len(applied[n]) : applied[n][i] = m[i]
    <3>1. \A i \in 1..Len(applied[n]) : i \in 1..Len(log[n])
      BY <1>3, <1>6 DEF Index
    <3>2. Len(applied[n]) <= k + 1
      BY <1>3, <1>6, <2>1 DEF Index
    <3> QED BY <1>5, <1>6, <3>1, <3>2
  <2> QED BY SMTT(30), <1>1, <1>3, <1>7, <2>1, <2>2, ApplyCommittedPrefix, ApplyCommittedType
<1>8. applied \in [Node -> Seq(Entry)]
  BY DEF TypeOK
<1>9. \/ applied' = applied /\ commitIndex' = commitIndex
      \/ \E k \in Index, a \in Seq(Entry) :
            /\ k >= commitIndex[n] /\ k <= commitIndex[S] /\ k < Len(m)
            /\ commitIndex' = [commitIndex EXCEPT ![n] = k]
            /\ applied' = [applied EXCEPT ![n] = a]
            /\ Len(a) = k + 1 /\ \A i \in 1..(k + 1) : a[i] = m[i]
  <2>1. CASE applied' = applied /\ commitIndex' = commitIndex
    BY <2>1
  <2>2. ASSUME NEW k \in Index, k = Smaller(r.commit, LastIndex(m)), k < Len(m),
               r.commit > commitIndex[n],
               commitIndex' = [commitIndex EXCEPT ![n] = k],
               applied' = [applied EXCEPT ![n] = ApplyCommitted(@, m, k)]
        PROVE  \E l \in Index, a \in Seq(Entry) :
                  /\ l >= commitIndex[n] /\ l <= commitIndex[S] /\ l < Len(m)
                  /\ commitIndex' = [commitIndex EXCEPT ![n] = l]
                  /\ applied' = [applied EXCEPT ![n] = a]
                  /\ Len(a) = l + 1 /\ \A i \in 1..(l + 1) : a[i] = m[i]
    <3>1. applied' = [applied EXCEPT ![n] = ApplyCommitted(applied[n], m, k)]
      BY <1>8, <2>2
    <3> QED BY <1>7, <2>2, <3>1
  <2> QED BY <1>1, <2>1, <2>2
<1> QED BY <1>1, <1>2, <1>5, <1>9 DEF n

\* The leader gets an answer: it may apply more of its own log.
LEMMA LeaderCommits ==
    ASSUME TypeOK, NEW S \in Node, LedBy(S), AppliedIsPrefix,
           NEW r \in appendReplies, HandleAppendSuccess(r)
    PROVE  LET match == [matchIndex[S] EXCEPT ![r.dst] = Larger(@, r.match)]
           IN  /\ r.src = S /\ r.dst \in Node \ {S} /\ r.success
               /\ UNCHANGED <<log, appendReqs, pendingSend, state, elected, restarts>>
               /\ appendReplies' = appendReplies \ {r}
               /\ matchIndex' = [matchIndex EXCEPT ![S] = match]
               /\ \/ applied' = applied /\ commitIndex' = commitIndex
                  \/ \E k \in Index, a \in Seq(Entry) :
                        /\ k = MedianIndex(S, match)
                        /\ k > commitIndex[S] /\ k < Len(log[S])
                        /\ commitIndex' = [commitIndex EXCEPT ![S] = k]
                        /\ applied' = [applied EXCEPT ![S] = a]
                        /\ Len(a) = k + 1 /\ \A i \in 1..(k + 1) : a[i] = log[S][i]
<1> DEFINE match == [matchIndex[S] EXCEPT ![r.dst] = Larger(@, r.match)]
<1>1. r.src = S /\ r.dst # S /\ r.dst \in Node
  BY DEF LedBy, TypeOK, AppendReply
<1>2. /\ r.success /\ UNCHANGED <<log, appendReqs, pendingSend, state, elected, restarts>>
      /\ appendReplies' = appendReplies \ {r}
  BY DEF HandleAppendSuccess, nodeVars, taskVars, historyVars
<1>3. /\ matchIndex' = [matchIndex EXCEPT ![S] = match]
      /\ \/ applied' = applied /\ commitIndex' = commitIndex
         \/ \E k \in Index :
               /\ k = MedianIndex(S, match)
               /\ k > commitIndex[S] /\ k < Len(log[S])
               /\ commitIndex' = [commitIndex EXCEPT ![S] = k]
               /\ applied' = [applied EXCEPT ![S] = ApplyCommitted(@, log[S], k)]
  BY <1>1, CommitEffect
<1> HIDE DEF match
<1>4. /\ log[S] \in Seq(Entry) /\ applied[S] \in Seq(Entry) /\ commitIndex[S] \in Index
      /\ applied \in [Node -> Seq(Entry)] /\ Len(log[S]) \in Nat
  BY DEF TypeOK
<1>5. /\ commitIndex[S] < Len(log[S]) /\ Len(applied[S]) = commitIndex[S] + 1
      /\ \A i \in 1..Len(applied[S]) : applied[S][i] = log[S][i]
  BY DEF AppliedIsPrefix
<1>6. ASSUME NEW k \in Index, k = MedianIndex(S, match),
             k > commitIndex[S], k < Len(log[S]),
             commitIndex' = [commitIndex EXCEPT ![S] = k],
             applied' = [applied EXCEPT ![S] = ApplyCommitted(@, log[S], k)]
      PROVE  \E l \in Index, a \in Seq(Entry) :
                /\ l = MedianIndex(S, match) /\ l > commitIndex[S] /\ l < Len(log[S])
                /\ commitIndex' = [commitIndex EXCEPT ![S] = l]
                /\ applied' = [applied EXCEPT ![S] = a]
                /\ Len(a) = l + 1 /\ \A i \in 1..(l + 1) : a[i] = log[S][i]
  <2> DEFINE a == ApplyCommitted(applied[S], log[S], k)
  <2>1. Len(applied[S]) <= k + 1
    BY <1>4, <1>5, <1>6 DEF Index
  <2>2. a \in Seq(Entry) /\ Len(a) = k + 1 /\ \A i \in 1..(k + 1) : a[i] = log[S][i]
    BY <1>4, <1>5, <1>6, <2>1, ApplyCommittedPrefix, ApplyCommittedType
  <2>3. applied' = [applied EXCEPT ![S] = a]
    BY <1>4, <1>6
  <2> HIDE DEF a
  <2> QED BY <1>6, <2>2, <2>3
<1> QED BY <1>1, <1>2, <1>3, <1>6 DEF match

-----------------------------------------------------------------------------
\* The invariant holds in every step

\* What has to be shown of a step for S to have led alone after it.
LEMMA LedByKept ==
    ASSUME TypeOK, TypeOK', NEW S \in Node, LedBy(S),
           \A n \in Node : state'[n] = "leader" => state[n] = "leader" \/ n = S,
           \A s \in pendingSend' : s \in pendingSend \/ s[1] = S,
           \A r \in appendReqs' :
              \/ FromBefore(r)
              \/ /\ r.src = S /\ r.dst # S /\ r.commit = commitIndex[S]
                 /\ CopyOf(RequestPiece(r), LogPiece(log[S])),
           \A r \in appendReplies' : r \in appendReplies \/ (r.src = S /\ r.dst # S),
           CopyOf(LogPiece(log[S]), LogPiece(log'[S])),
           \A n \in Node : CopyOf(LogPiece(log'[n]), LogPiece(log'[S])),
           \A n \in Node : commitIndex'[n] <= commitIndex'[S],
           commitIndex[S] <= commitIndex'[S]
    PROVE  LedBy(S)'
<1>1. /\ commitIndex[S] \in Int /\ commitIndex'[S] \in Int
      /\ \A r \in appendReqs : r \in AppendRequest /\ r.commit \in Int
  <2>1. commitIndex[S] \in Index /\ commitIndex'[S] \in Index
    BY DEF TypeOK
  <2>2. \A r \in appendReqs : r \in AppendRequest /\ r.commit \in Index
    BY DEF TypeOK, AppendRequest
  <2> QED BY <2>1, <2>2 DEF Index
<1>2. ASSUME NEW r \in appendReqs'
      PROVE  /\ r.src = S /\ r.dst # S /\ r.commit <= commitIndex'[S]
             /\ CopyOf(RequestPiece(r), LogPiece(log'[S]))
  <2>1. CASE FromBefore(r)
    <3>1. PICK s \in appendReqs : r = s \/ r = Abandoned(s)
      BY <2>1 DEF FromBefore
    <3>2. /\ r.src = s.src /\ r.dst = s.dst /\ r.commit = s.commit
          /\ RequestPiece(r) = RequestPiece(s)
      BY <1>1, <3>1, AbandonedPiece
    <3>3. s.src = S /\ s.dst # S /\ s.commit <= commitIndex[S]
      BY DEF LedBy
    <3>4. CopyOf(RequestPiece(s), LogPiece(log[S]))
      BY DEF LedBy, Pieces, RequestPieces
    <3> QED BY <1>1, <3>2, <3>3, <3>4, CopyGrows
  <2>2. CASE /\ r.src = S /\ r.dst # S /\ r.commit = commitIndex[S]
             /\ CopyOf(RequestPiece(r), LogPiece(log[S]))
    BY <1>1, <2>2, CopyGrows
  <2> QED BY <2>1, <2>2
<1>3. \A p \in Pieces' : CopyOf(p, LogPiece(log'[S]))
  BY <1>2 DEF Pieces, LogPieces, RequestPieces
<1>4. /\ \A n \in Node : state'[n] = "leader" => n = S
      /\ \A s \in pendingSend' : s[1] = S
      /\ \A r \in appendReplies' : r.src = S /\ r.dst # S
  BY DEF LedBy
<1> QED BY <1>2, <1>3, <1>4 DEF LedBy

\* What else _handle_append_entries does: the one answer it gives says how far
\* the request reaches, and nobody becomes leader.
LEMMA DeliveryAnswer ==
    ASSUME TypeOK, NEW r \in appendReqs, HandleAppendEntries(r)
    PROVE  /\ UNCHANGED <<pendingSend, matchIndex, restarts, elected>>
           /\ \A n \in Node : state'[n] = "leader" => state[n] = "leader"
           /\ \A s \in appendReplies' :
                 \/ s \in appendReplies
                 \/ /\ s.src = r.src /\ s.dst = r.dst
                    /\ s.match = r.prevIndex + Len(r.entries)
                    /\ s.success = PrevMatches(r, log[r.dst])
<1> DEFINE n == r.dst
           answer == [src |-> r.src, dst |-> n, term |-> TermAfter(n, r),
                      success |-> PrevMatches(r, log[n]),
                      match |-> r.prevIndex + Len(r.entries), origin |-> r.origin]
           replies == IF r.live THEN appendReplies \cup {answer} ELSE appendReplies
<1>1. /\ UNCHANGED <<pendingSend, matchIndex, restarts, elected>>
      /\ \/ BecomeFollower(n, r.src, appendReqs \ {r}, replies)
         \/ state' = state /\ appendReplies' = replies
  BY DEF HandleAppendEntries, leaderVars, historyVars
<1>2. state \in [Node -> {"follower", "candidate", "leader"}]
  BY DEF TypeOK
<1>3. \A m \in Node : state'[m] = "leader" => state[m] = "leader"
  BY <1>1, <1>2 DEF BecomeFollower
<1>4. appendReplies' \subseteq replies
  BY <1>1 DEF BecomeFollower, Unheard
<1>5. \A s \in appendReplies' : s \in appendReplies \/ s = answer
  BY <1>4
<1> QED BY <1>1, <1>3, <1>5

\* No handler lets a node other than the elected one send, or a log, a request or a
\* commit index get ahead of it.
LEMMA LedByStep ==
    ASSUME TypeOK, TypeOK', OneLeaderInv, [Next /\ OneLeader]_vars,
           NEW S \in Node, Only(S)'
    PROVE  Only(S) /\ LedBy(S)'
<1>1. /\ log \in [Node -> Seq(Entry)] /\ log' \in [Node -> Seq(Entry)]
      /\ commitIndex \in [Node -> Index] /\ commitIndex' \in [Node -> Index]
      /\ state \in [Node -> {"follower", "candidate", "leader"}]
  BY DEF TypeOK
<1>2. [Next]_vars
  OBVIOUS
<1>3. Only(S)
  <2>1. elected \subseteq elected'
    BY <1>2, ReplicationKinds DEF Idle, BecomeLeader, SendStep, AppendEntry,
       HandleAppendEntries, HandleAppendSuccess, Restart, historyVars
  <2> QED BY <2>1 DEF Only
<1>4. LedBy(S)
  BY <1>3 DEF OneLeaderInv
<1>5. /\ \A p \in Pieces : CopyOf(p, LogPiece(log[S]))
      /\ \A n \in Node : CopyOf(LogPiece(log[n]), LogPiece(log[S]))
      /\ \A n \in Node : commitIndex[n] <= commitIndex[S]
      /\ \A n \in Node : commitIndex[n] \in Int
  BY <1>1, <1>4 DEF LedBy, Pieces, LogPieces, Index
<1>6. CASE Idle
  <2>1. /\ log' = log /\ commitIndex' = commitIndex
        /\ pendingSend' \subseteq pendingSend /\ appendReplies' \subseteq appendReplies
        /\ \A r \in appendReqs' : FromBefore(r)
        /\ \A n \in Node : state'[n] = "leader" => state[n] = "leader"
    BY <1>6 DEF Idle
  <2>2. LedBy(S)'
    BY <1>4, <1>5, <2>1, LedByKept
  <2> QED BY <1>3, <2>2
<1>7. ASSUME NEW n \in Node, BecomeLeader(n) PROVE LedBy(S)'
  <2>1. /\ elected' = elected \cup {[node |-> n, term |-> currentTerm[n]]}
        /\ state' = [state EXCEPT ![n] = "leader"]
        /\ UNCHANGED <<log, commitIndex, pendingSend, appendReqs, appendReplies>>
    BY <1>7 DEF BecomeLeader, logVars, appendNet
  <2>2. n = S
    <3> DEFINE e == [node |-> n, term |-> currentTerm[n]]
    <3>1. e \in elected' /\ e.node = n
      BY <2>1
    <3> HIDE DEF e
    <3> QED BY <3>1 DEF Only
  <2>3. \A m \in Node : state'[m] = "leader" => state[m] = "leader" \/ m = S
    BY <1>1, <2>1, <2>2
  <2>4. \A r \in appendReqs' : FromBefore(r)
    BY <2>1 DEF FromBefore
  <2> QED BY <1>4, <1>5, <2>1, <2>3, <2>4, LedByKept
<1>8. ASSUME NEW n \in Node, SendStep(n) PROVE LedBy(S)'
  <2>1. /\ UNCHANGED <<log, commitIndex, state, appendReplies>>
        /\ pendingSend' \subseteq pendingSend
    BY <1>8 DEF SendStep
  <2>2. n = S
    BY <1>4, <1>8 DEF SendStep, LedBy
  <2>3. PICK reach \in SUBSET Peers(S), origin \in Cmd \cup {Nil} :
          SendAppendEntries(S, reach, origin)
    BY <1>8, <2>2 DEF SendStep
  <2>4. ASSUME NEW r \in appendReqs'
        PROVE  \/ FromBefore(r)
               \/ /\ r.src = S /\ r.dst # S /\ r.commit = commitIndex[S]
                  /\ CopyOf(RequestPiece(r), LogPiece(log[S]))
    <3>1. CASE r \in appendReqs
      BY <3>1 DEF FromBefore
    <3>2. CASE r \notin appendReqs
      <4>1. /\ SliceOf(RequestPiece(r), LogPiece(log[S]))
            /\ r.src = S /\ r.dst \in reach /\ r.commit = commitIndex[S]
        BY <2>3, <3>2, SentSlices
      <4> QED BY <4>1 DEF SliceOf, CopyOf, Peers
    <3> QED BY <3>1, <3>2
  <2> QED BY <1>4, <1>5, <2>1, <2>4, LedByKept
<1>9. ASSUME NEW n \in Node, NEW c \in Cmd, AppendEntry(n, c) PROVE LedBy(S)'
  <2> DEFINE e == [term |-> currentTerm[n], cmd |-> c]
  <2>1. /\ state[n] = "leader" /\ log' = [log EXCEPT ![n] = Append(@, e)]
        /\ pendingSend' = pendingSend \cup {<<n, c>>}
        /\ UNCHANGED <<state, commitIndex, appendReqs, appendReplies>>
    BY <1>9 DEF AppendEntry, nodeVars, appendNet
  <2>2. n = S
    BY <1>4, <2>1 DEF LedBy
  <2>3. e \in Entry
    <3>1. currentTerm[n] \in Nat
      BY DEF TypeOK
    <3> QED BY <3>1 DEF Entry
  <2> HIDE DEF e
  <2>4. log'[S] = Append(log[S], e) /\ \A m \in Node : m # S => log'[m] = log[m]
    BY <1>1, <2>1, <2>2
  <2>5. CopyOf(LogPiece(log[S]), LogPiece(log'[S]))
    <3>1. /\ log[S] \in Seq(Entry) /\ log'[S] \in Seq(Entry)
          /\ Len(log[S]) <= Len(log'[S])
          /\ \A i \in 1..Len(log[S]) : log[S][i] = log'[S][i]
      <4> HIDE DEF Entry
      <4>1. /\ Append(log[S], e) \in Seq(Entry)
            /\ Len(Append(log[S], e)) = Len(log[S]) + 1 /\ Len(log[S]) \in Nat
            /\ \A i \in 1..Len(log[S]) : Append(log[S], e)[i] = log[S][i]
        BY <1>1, <2>3, AppendProperties
      <4> QED BY <1>1, <2>4, <4>1
    <3> QED BY <3>1, CopyOfLog
  <2>6. \A m \in Node : CopyOf(LogPiece(log'[m]), LogPiece(log'[S]))
    <3>1. CopyOf(LogPiece(log'[S]), LogPiece(log'[S]))
      BY DEF CopyOf
    <3> QED BY <1>5, <2>4, <2>5, <3>1, CopyGrows
  <2>7. \A s \in pendingSend' : s \in pendingSend \/ s[1] = S
    BY <2>1, <2>2
  <2>8. \A r \in appendReqs' : FromBefore(r)
    BY <2>1 DEF FromBefore
  <2> QED BY <1>4, <1>5, <2>1, <2>5, <2>6, <2>7, <2>8, LedByKept
<1>10. ASSUME NEW r \in appendReqs, HandleAppendEntries(r) PROVE LedBy(S)'
  <2> DEFINE n == r.dst
  <2>0. n \in Node /\ n # S /\ r.src = S
    BY <1>4, <1>10, FollowerAppends DEF OneLeaderInv, LedBy
  <2>1. PICK m \in Seq(Entry) :
          /\ log' = [log EXCEPT ![n] = m]
          /\ CopyOf(LogPiece(m), LogPiece(log[S]))
          /\ \/ commitIndex' = commitIndex
             \/ \E k \in Index : /\ k <= commitIndex[S]
                                 /\ commitIndex' = [commitIndex EXCEPT ![n] = k]
    BY <1>4, <1>10, FollowerAppends DEF OneLeaderInv
  <2>2. /\ pendingSend' = pendingSend
        /\ \A p \in Node : state'[p] = "leader" => state[p] = "leader"
        /\ \A s \in appendReplies' : s \in appendReplies \/ (s.src = S /\ s.dst = n)
    BY <1>10, <2>0, DeliveryAnswer
  <2>3. \A s \in appendReqs' : FromBefore(s)
    BY <1>10, DeliveryEffect
  <2> HIDE DEF n
  <2>4. log'[S] = log[S] /\ log'[n] = m /\ \A p \in Node : p # n => log'[p] = log[p]
    BY <1>1, <2>0, <2>1
  <2>5. /\ CopyOf(LogPiece(log[S]), LogPiece(log'[S]))
        /\ \A p \in Node : CopyOf(LogPiece(log'[p]), LogPiece(log'[S]))
    BY <1>5, <2>1, <2>4
  <2>6. commitIndex'[S] = commitIndex[S] /\ \A p \in Node : commitIndex'[p] <= commitIndex[S]
    <3>1. CASE commitIndex' = commitIndex
      BY <1>5, <3>1
    <3>2. ASSUME NEW k \in Index, k <= commitIndex[S],
                 commitIndex' = [commitIndex EXCEPT ![n] = k]
          PROVE  /\ commitIndex'[S] = commitIndex[S]
                 /\ \A p \in Node : commitIndex'[p] <= commitIndex[S]
      <4>1. /\ commitIndex'[n] = k /\ commitIndex'[S] = commitIndex[S]
            /\ \A p \in Node : p # n => commitIndex'[p] = commitIndex[p]
        BY <1>1, <2>0, <3>2
      <4> QED BY <1>5, <3>2, <4>1
    <3> QED BY <2>1, <3>1, <3>2
  <2>7. commitIndex[S] <= commitIndex'[S] /\ \A p \in Node : commitIndex'[p] <= commitIndex'[S]
    BY <1>5, <2>6
  <2> QED BY <1>4, <2>0, <2>2, <2>3, <2>5, <2>7, LedByKept
<1>11. ASSUME NEW r \in appendReplies, HandleAppendSuccess(r) PROVE LedBy(S)'
  <2>1. /\ UNCHANGED <<log, appendReqs, pendingSend, state>>
        /\ appendReplies' = appendReplies \ {r}
        /\ \/ commitIndex' = commitIndex
           \/ \E k \in Index : /\ k > commitIndex[S]
                               /\ commitIndex' = [commitIndex EXCEPT ![S] = k]
    <3> DEFINE match == [matchIndex[S] EXCEPT ![r.dst] = Larger(@, r.match)]
    <3>1. AppliedIsPrefix
      BY DEF OneLeaderInv
    <3>2. /\ UNCHANGED <<log, appendReqs, pendingSend, state>>
          /\ appendReplies' = appendReplies \ {r}
          /\ \/ applied' = applied /\ commitIndex' = commitIndex
             \/ \E k \in Index, a \in Seq(Entry) :
                   /\ k = MedianIndex(S, match)
                   /\ k > commitIndex[S] /\ k < Len(log[S])
                   /\ commitIndex' = [commitIndex EXCEPT ![S] = k]
                   /\ applied' = [applied EXCEPT ![S] = a]
                   /\ Len(a) = k + 1 /\ \A i \in 1..(k + 1) : a[i] = log[S][i]
      BY <1>4, <1>11, <3>1, LeaderCommits
    <3> HIDE DEF match
    <3> QED BY <3>2
  <2>2. \A s \in appendReqs' : FromBefore(s)
    BY <2>1 DEF FromBefore
  <2>3. /\ commitIndex[S] <= commitIndex'[S]
        /\ \A p \in Node : commitIndex'[p] <= commitIndex'[S]
    <3>1. CASE commitIndex' = commitIndex
      BY <1>5, <3>1
    <3>2. ASSUME NEW k \in Index, k > commitIndex[S],
                 commitIndex' = [commitIndex EXCEPT ![S] = k]
          PROVE  /\ commitIndex[S] <= commitIndex'[S]
                 /\ \A p \in Node : commitIndex'[p] <= commitIndex'[S]
      <4>1. commitIndex'[S] = k /\ k \in Int
        BY <1>1, <3>2 DEF Index
      <4> QED BY <1>1, <1>5, <3>2, <4>1
    <3> QED BY <2>1, <3>1, <3>2
  <2> QED BY <1>4, <1>5, <2>1, <2>2, <2>3, LedByKept
<1>12. ASSUME NEW n \in Node, Restart(n), OneLeader PROVE LedBy(S)'
  <2>1. /\ log' = [log EXCEPT ![n] = <<>>]
        /\ commitIndex' = [commitIndex EXCEPT ![n] = -1]
        /\ state' = [state EXCEPT ![n] = "follower"]
        /\ pendingSend' \subseteq pendingSend /\ appendReplies' \subseteq appendReplies
        /\ \A r \in appendReqs' : FromBefore(r)
    BY <1>12 DEF Restart, FromBefore
  <2>2. log'[S] = log[S] /\ commitIndex'[S] = commitIndex[S]
    <3>1. CASE n # S
      BY <1>1, <2>1, <3>1
    <3>2. CASE n = S
      <4>1. elected = {}
        BY <1>3, <1>12, <3>2 DEF OneLeader, Only
      <4>2. log[S] = <<>> /\ Len(<<>>) = 0
        BY <4>1 DEF OneLeaderInv
      <4>3. commitIndex[S] < 0
        BY <4>2 DEF OneLeaderInv, AppliedIsPrefix
      <4>4. commitIndex[S] = -1
        BY <1>1, <4>3 DEF Index
      <4> QED BY <1>1, <2>1, <3>2, <4>2, <4>4
    <3> QED BY <3>1, <3>2
  <2>3. \A p \in Node : /\ log'[p] \in {log[p], <<>>}
                        /\ commitIndex'[p] \in {commitIndex[p], -1}
                        /\ state'[p] = "leader" => state[p] = "leader"
    BY <1>1, <2>1
  <2>4. CopyOf(LogPiece(<<>>), LogPiece(log[S]))
    BY EmptyLog DEF CopyOf
  <2>5. commitIndex[S] >= -1
    <3>1. commitIndex[S] \in Index
      BY <1>1
    <3> QED BY <3>1 DEF Index
  <2>6. commitIndex[S] <= commitIndex'[S] /\ \A p \in Node : commitIndex'[p] <= commitIndex'[S]
    <3>1. \A p \in Node : commitIndex'[p] = commitIndex[p] \/ commitIndex'[p] = -1
      BY <2>3
    <3>2. commitIndex'[S] = commitIndex[S] /\ commitIndex[S] \in Int
      BY <1>5, <2>2
    <3> QED BY <1>5, <2>5, <3>1, <3>2
  <2>7. /\ CopyOf(LogPiece(log[S]), LogPiece(log'[S]))
        /\ \A p \in Node : CopyOf(LogPiece(log'[p]), LogPiece(log'[S]))
    BY <1>5, <2>2, <2>3, <2>4
  <2>8. /\ \A p \in Node : state'[p] = "leader" => state[p] = "leader" \/ p = S
        /\ \A s \in pendingSend' : s \in pendingSend \/ s[1] = S
        /\ \A r \in appendReqs' : FromBefore(r)
        /\ \A r \in appendReplies' : r \in appendReplies
    BY <2>1, <2>3
  <2> QED BY <1>4, <2>6, <2>7, <2>8, LedByKept
<1>13. UNCHANGED vars => Idle
  BY DEF vars, Idle, FromBefore, nodeVars, logVars, leaderVars, taskVars, appendNet,
     historyVars
<1> QED BY <1>2, <1>3, <1>6, <1>7, <1>8, <1>9, <1>10, <1>11, <1>12, <1>13, ReplicationKinds

\* Before the first election nobody leads and nothing is sent: it would have to
\* be done by every node.
LEMMA BeforeElections ==
    ASSUME OneLeaderInv, elected = {}
    PROVE  /\ \A n \in Node : state[n] # "leader" /\ log[n] = <<>>
           /\ appendReqs = {} /\ appendReplies = {} /\ pendingSend = {}
<1>1. PICK a \in Node, b \in Node : a # b
  <2>1. IsFiniteSet(Node) /\ Cardinality(Node) >= 2
    BY NodeAssumption
  <2>2. Node # {} /\ \A a \in Node : Node # {a}
    BY <2>1, FS_EmptySet, FS_Singleton
  <2> QED BY <2>2
<1>2. LedBy(a) /\ LedBy(b)
  BY <1>1 DEF OneLeaderInv, Only
<1> QED BY <1>1, <1>2 DEF OneLeaderInv, LedBy

\* Whatever is applied stays a prefix of the log in every handler.
LEMMA AppliedIsPrefixStep ==
    ASSUME TypeOK, [Next]_vars, AppliedIsPrefix, NEW S \in Node, LedBy(S)
    PROVE  AppliedIsPrefix'
<1> DEFINE Prefix(n) ==
      /\ commitIndex[n] < Len(log[n]) /\ Len(applied[n]) = commitIndex[n] + 1
      /\ \A i \in 1..Len(applied[n]) : applied[n][i] = log[n][i]
<1>1. /\ log \in [Node -> Seq(Entry)] /\ applied \in [Node -> Seq(Entry)]
      /\ commitIndex \in [Node -> Index]
  BY DEF TypeOK
<1>2. \A n \in Node : Prefix(n)
  BY DEF AppliedIsPrefix
<1>3. SUFFICES ASSUME NEW p \in Node PROVE Prefix(p)'
  BY DEF AppliedIsPrefix
<1>4. ASSUME UNCHANGED <<log[p], applied[p], commitIndex[p]>> PROVE Prefix(p)'
  BY <1>2, <1>4
<1>5. CASE UNCHANGED <<log, applied, commitIndex>>
  BY <1>4, <1>5
<1>6. ASSUME NEW n \in Node, NEW c \in Cmd, AppendEntry(n, c) PROVE Prefix(p)'
  <2> DEFINE e == [term |-> currentTerm[n], cmd |-> c]
  <2>1. log' = [log EXCEPT ![n] = Append(@, e)] /\ UNCHANGED <<applied, commitIndex>>
    BY <1>6 DEF AppendEntry
  <2>2. e \in Entry
    <3>1. currentTerm[n] \in Nat
      BY DEF TypeOK
    <3> QED BY <3>1 DEF Entry
  <2> HIDE DEF e
  <2>3. CASE p # n
    BY <1>1, <1>4, <2>1, <2>3
  <2>4. CASE p = n
    <3>1. log'[p] = Append(log[p], e) /\ log[p] \in Seq(Entry) /\ commitIndex[p] \in Int
      BY <1>1, <2>1, <2>4 DEF Index
    <3>2. /\ Len(log'[p]) = Len(log[p]) + 1 /\ Len(log[p]) \in Nat
          /\ \A i \in 1..Len(log[p]) : log'[p][i] = log[p][i]
      <4> HIDE DEF Entry
      <4> QED BY <2>2, <3>1, AppendProperties
    <3>3. \A i \in 1..Len(applied[p]) : i \in 1..Len(log[p])
      BY <1>2, <3>1, <3>2
    <3> QED BY <1>2, <2>1, <3>1, <3>2, <3>3
  <2> QED BY <2>3, <2>4
<1>7. ASSUME NEW r \in appendReqs, HandleAppendEntries(r) PROVE Prefix(p)'
  <2> DEFINE n == r.dst
  <2>1. PICK m \in Seq(Entry) :
          /\ log' = [log EXCEPT ![n] = m]
          /\ Len(log[n]) <= Len(m) /\ \A i \in 1..Len(log[n]) : m[i] = log[n][i]
          /\ \/ applied' = applied /\ commitIndex' = commitIndex
             \/ \E k \in Index, a \in Seq(Entry) :
                   /\ k < Len(m)
                   /\ commitIndex' = [commitIndex EXCEPT ![n] = k]
                   /\ applied' = [applied EXCEPT ![n] = a]
                   /\ Len(a) = k + 1 /\ \A i \in 1..(k + 1) : a[i] = m[i]
    BY <1>7, FollowerAppends
  <2> HIDE DEF n
  <2>2. CASE p # n
    BY <1>1, <1>4, <2>1, <2>2
  <2>3. CASE p = n /\ applied' = applied /\ commitIndex' = commitIndex
    <3>1. log'[p] = m /\ Len(m) \in Nat /\ Len(log[p]) \in Nat /\ commitIndex[p] \in Int
      BY <1>1, <2>1, <2>3 DEF Index
    <3>2. \A i \in 1..Len(applied[p]) : i \in 1..Len(log[p])
      BY <1>2, <3>1
    <3> QED BY <1>2, <2>1, <2>3, <3>1, <3>2
  <2>4. ASSUME p = n, NEW k \in Index, NEW a \in Seq(Entry), k < Len(m),
               commitIndex' = [commitIndex EXCEPT ![n] = k],
               applied' = [applied EXCEPT ![n] = a],
               Len(a) = k + 1, \A i \in 1..(k + 1) : a[i] = m[i]
        PROVE  Prefix(p)'
    <3>1. log'[p] = m /\ commitIndex'[p] = k /\ applied'[p] = a
      BY <1>1, <2>1, <2>4
    <3> QED BY <2>4, <3>1
  <2> QED BY <2>1, <2>2, <2>3, <2>4
<1>8. ASSUME NEW r \in appendReplies, HandleAppendSuccess(r) PROVE Prefix(p)'
  <2> DEFINE match == [matchIndex[S] EXCEPT ![r.dst] = Larger(@, r.match)]
  <2>1. /\ log' = log
        /\ \/ applied' = applied /\ commitIndex' = commitIndex
           \/ \E k \in Index, a \in Seq(Entry) :
                 /\ k = MedianIndex(S, match)
                 /\ k > commitIndex[S] /\ k < Len(log[S])
                 /\ commitIndex' = [commitIndex EXCEPT ![S] = k]
                 /\ applied' = [applied EXCEPT ![S] = a]
                 /\ Len(a) = k + 1 /\ \A i \in 1..(k + 1) : a[i] = log[S][i]
    BY <1>8, LeaderCommits
  <2> HIDE DEF match
  <2>2. CASE p # S
    BY <1>1, <1>4, <2>1, <2>2
  <2>3. ASSUME p = S, NEW k \in Index, NEW a \in Seq(Entry), k < Len(log[S]),
               commitIndex' = [commitIndex EXCEPT ![S] = k],
               applied' = [applied EXCEPT ![S] = a],
               Len(a) = k + 1, \A i \in 1..(k + 1) : a[i] = log[S][i]
        PROVE  Prefix(p)'
    <3>1. log'[p] = log[S] /\ commitIndex'[p] = k /\ applied'[p] = a
      BY <1>1, <2>1, <2>3
    <3> QED BY <2>3, <3>1
  <2> QED BY <1>4, <2>1, <2>2, <2>3
<1>9. ASSUME NEW n \in Node, Restart(n) PROVE Prefix(p)'
  <2>1. /\ log' = [log EXCEPT ![n] = <<>>] /\ applied' = [applied EXCEPT ![n] = <<>>]
        /\ commitIndex' = [commitIndex EXCEPT ![n] = -1]
    BY <1>9 DEF Restart
  <2>2. CASE p # n
    BY <1>1, <1>4, <2>1, <2>2
  <2>3. CASE p = n
    <3>1. log'[p] = <<>> /\ applied'[p] = <<>> /\ commitIndex'[p] = -1
      BY <1>1, <2>1, <2>3
    <3> QED BY <3>1
  <2> QED BY <2>2, <2>3
<1>10. Idle \/ (\E n \in Node : BecomeLeader(n)) \/ (\E n \in Node : SendStep(n))
         => UNCHANGED <<log, applied, commitIndex>>
  BY DEF Idle, BecomeLeader, SendStep, logVars
<1> HIDE DEF Prefix
<1> QED BY <1>5, <1>6, <1>7, <1>8, <1>9, <1>10, ReplicationKinds

\* Every step the cluster with one leader may take keeps its invariant.
LEMMA OneLeaderStep ==
    ASSUME TypeOK, TypeOK', OneLeaderInv, [Next /\ OneLeader]_vars
    PROVE  OneLeaderInv'
<1>1. [Next]_vars
  OBVIOUS
<1>2. \E S \in Node : Only(S)'
  <2>1. CASE UNCHANGED vars
    BY <2>1 DEF OneLeaderInv, Only, vars, historyVars
  <2>2. CASE OneLeader /\ elected' = {}
    BY <2>2 DEF OneLeaderInv, Only
  <2>3. CASE OneLeader /\ elected' # {}
    <3>1. PICK e \in elected' : TRUE
      BY <2>3
    <3>2. e.node \in Node
      BY <3>1 DEF TypeOK
    <3> QED BY <2>3, <3>1, <3>2 DEF OneLeader, Only
  <2> QED BY <2>1, <2>2, <2>3
<1>3. \A S \in Node : Only(S)' => Only(S) /\ LedBy(S)'
  BY LedByStep
<1>4. AppliedIsPrefix'
  <2>1. PICK S \in Node : Only(S)
    BY <1>2, <1>3
  <2> QED BY <1>1, <2>1, AppliedIsPrefixStep DEF OneLeaderInv
<1>5. ASSUME elected' = {}, NEW n \in Node PROVE log'[n] = <<>>
  <2>1. elected = {}
    BY <1>1, <1>5, ReplicationKinds DEF Idle, BecomeLeader, SendStep, AppendEntry,
       HandleAppendEntries, HandleAppendSuccess, Restart, historyVars
  <2>2. /\ \A m \in Node : state[m] # "leader" /\ log[m] = <<>>
        /\ appendReqs = {} /\ appendReplies = {} /\ pendingSend = {}
    BY <2>1, BeforeElections
  <2>3. \/ UNCHANGED log
        \/ \E m \in Node : log' = [log EXCEPT ![m] = <<>>]
    BY <1>1, <1>5, <2>2, ReplicationKinds DEF Idle, BecomeLeader, SendStep,
       AppendEntry, Restart, logVars
  <2>4. log \in [Node -> Seq(Entry)]
    BY DEF TypeOK
  <2> QED BY <2>2, <2>3, <2>4
<1> QED BY <1>2, <1>3, <1>4, <1>5 DEF OneLeaderInv

\* _start_election, _send_append_entries, _handle_append_entries and
\* _update_commit_index together, while nobody else is elected.
LEMMA OneLeaderAlways == OneLeaderSpec => []OneLeaderInv
<1>1. Init => OneLeaderInv
  <2> SUFFICES ASSUME Init PROVE OneLeaderInv
    OBVIOUS
  <2>1. /\ \A n \in Node : /\ log[n] = <<>> /\ applied[n] = <<>> /\ commitIndex[n] = -1
                           /\ state[n] = "follower"
        /\ elected = {} /\ appendReqs = {} /\ appendReplies = {} /\ pendingSend = {}
    BY DEF Init
  <2>2. \E S \in Node : Only(S)
    <3>1. IsFiniteSet(Node) /\ Cardinality(Node) >= 2
      BY NodeAssumption
    <3>2. Node # {}
      BY <3>1, FS_EmptySet
    <3> QED BY <2>1, <3>2 DEF Only
  <2>3. AppliedIsPrefix
    BY <2>1 DEF AppliedIsPrefix
  <2>4. ASSUME NEW S \in Node PROVE LedBy(S)
    <3>1. \A p \in Pieces : CopyOf(p, LogPiece(log[S]))
      BY <2>1, EmptyLog DEF Pieces, LogPieces, RequestPieces, CopyOf
    <3>2. \A n \in Node : commitIndex[n] <= commitIndex[S]
      BY <2>1
    <3> QED BY <2>1, <3>1, <3>2 DEF LedBy
  <2> QED BY <2>1, <2>2, <2>3, <2>4 DEF OneLeaderInv
<1>2. TypeOK /\ TypeOK' /\ OneLeaderInv /\ [Next /\ OneLeader]_vars => OneLeaderInv'
  BY OneLeaderStep
<1>3. OneLeaderSpec => Spec
  BY PTL DEF OneLeaderSpec, Spec
<1> QED BY <1>1, <1>2, <1>3, TypeCorrect, PTL DEF OneLeaderSpec

-----------------------------------------------------------------------------
(***************************************************************************)
(* The refinement of ReplicatedLog.  Under the mapping a step elects,      *)
(* proposes, delivers, rejoins or changes nothing the services can see.    *)
(***************************************************************************)

\* The commands of the entries of a log, one for one.
LEMMA CommandsOf ==
    ASSUME NEW s \in Seq(Entry)
    PROVE  /\ Commands(s) \in Seq(Cmd) /\ Len(Commands(s)) = Len(s) /\ Len(s) \in Nat
           /\ \A i \in 1..Len(s) : Commands(s)[i] = s[i].cmd
<1>1. Len(s) \in Nat /\ DOMAIN s = 1..Len(s) /\ \A i \in 1..Len(s) : s[i] \in Entry
  <2> HIDE DEF Entry
  <2> QED BY LenProperties, ElementOfSeq
<1>2. \A i \in 1..Len(s) : s[i].cmd \in Cmd
  BY <1>1 DEF Entry
<1> HIDE DEF Entry
<1>3. Commands(s) = [i \in 1..Len(s) |-> s[i].cmd]
  BY <1>1 DEF Commands
<1> QED BY <1>1, <1>2, <1>3

\* append_entry adds one command at the end.
LEMMA CommandsAppend ==
    ASSUME NEW s \in Seq(Entry), NEW e \in Entry
    PROVE  Commands(Append(s, e)) = Append(Commands(s), e.cmd)
<1> DEFINE a == Append(s, e)
           b == Append(Commands(s), e.cmd)
<1>1. e.cmd \in Cmd
  BY DEF Entry
<1> HIDE DEF Entry
<1>2. /\ a \in Seq(Entry) /\ Len(a) = Len(s) + 1 /\ a[Len(s) + 1] = e
      /\ \A i \in 1..Len(s) : a[i] = s[i]
  BY AppendProperties
<1>3. /\ Commands(s) \in Seq(Cmd) /\ Len(Commands(s)) = Len(s) /\ Len(s) \in Nat
      /\ \A i \in 1..Len(s) : Commands(s)[i] = s[i].cmd
  BY CommandsOf
<1>4. /\ b \in Seq(Cmd) /\ Len(b) = Len(s) + 1 /\ b[Len(s) + 1] = e.cmd
      /\ \A i \in 1..Len(s) : b[i] = Commands(s)[i]
  BY <1>1, <1>3, AppendProperties
<1> HIDE DEF a, b
<1>5. /\ Commands(a) \in Seq(Cmd) /\ Len(Commands(a)) = Len(s) + 1
      /\ \A i \in 1..(Len(s) + 1) : Commands(a)[i] = a[i].cmd
  BY <1>2, CommandsOf
<1>6. ASSUME NEW i \in 1..(Len(s) + 1) PROVE Commands(a)[i] = b[i]
  <2>1. i \in 1..Len(s) \/ i = Len(s) + 1
    BY <1>3
  <2> QED BY <1>2, <1>3, <1>4, <1>5, <2>1
<1>7. Commands(a) = b
  BY <1>4, <1>5, <1>6, SeqEqual
<1> QED BY <1>7 DEF a, b

\* What is applied up to one point of a log is a prefix of its commands.
LEMMA CommandsPrefix ==
    ASSUME NEW s \in Seq(Entry), NEW t \in Seq(Entry), Len(s) <= Len(t),
           \A i \in 1..Len(s) : s[i] = t[i]
    PROVE  Commands(s) = SubSeq(Commands(t), 1, Len(s))
<1> HIDE DEF Entry
<1>1. /\ Commands(s) \in Seq(Cmd) /\ Len(Commands(s)) = Len(s) /\ Len(s) \in Nat
      /\ \A i \in 1..Len(s) : Commands(s)[i] = s[i].cmd
  BY CommandsOf
<1>2. /\ Commands(t) \in Seq(Cmd) /\ Len(Commands(t)) = Len(t) /\ Len(t) \in Nat
      /\ \A i \in 1..Len(t) : Commands(t)[i] = t[i].cmd
  BY CommandsOf
<1> DEFINE u == Commands(t)
           k == Len(s)
           b == SubSeq(u, 1, k)
<1> HIDE DEF u
<1>3. /\ \A i \in 1..k : u[i] \in Cmd /\ u[i] = t[i].cmd
      /\ k \in Int /\ k >= 0
  <2>1. u \in Seq(Cmd) /\ Len(u) = Len(t) /\ \A i \in 1..Len(t) : u[i] = t[i].cmd
    BY <1>2 DEF u
  <2>2. \A i \in 1..k : i \in 1..Len(u)
    BY <1>1, <1>2, <2>1
  <2>3. \A i \in 1..Len(u) : u[i] \in Cmd
    BY <2>1, ElementOfSeq
  <2> QED BY <1>1, <2>1, <2>2, <2>3
<1> HIDE DEF k
<1>4. /\ b \in Seq(Cmd) /\ Len(b) = IF 1 <= k THEN k - 1 + 1 ELSE 0
      /\ \A i \in 1..(k - 1 + 1) : b[i] = u[1 + i - 1]
  BY <1>3, SubSeqProperties
<1> HIDE DEF b
<1>5. Len(b) = k /\ \A i \in 1..k : b[i] = u[i]
  BY <1>3, <1>4
<1>6. \A i \in 1..k : Commands(s)[i] = b[i]
  BY <1>1, <1>3, <1>5 DEF k
<1>7. Commands(s) = b
  BY <1>1, <1>4, <1>5, <1>6, SeqEqual DEF k
<1> QED BY <1>7 DEF b, u, k

\* The node that was elected is the leader of ReplicatedLog.
LEMMA LeaderIs ==
    ASSUME NEW S \in Node, Only(S), elected # {}
    PROVE  TheLeader = S /\ Order = Commands(log[S]) /\ S # Nil
<1>1. (CHOOSE e \in elected : TRUE) \in elected
  OBVIOUS
<1>2. TheLeader = S
  BY <1>1 DEF TheLeader, Only
<1> QED BY <1>2, NodeAssumption DEF Order

\* Every handler maps to a step of ReplicatedLog or to none.
LEMMA ImplementsStep ==
    ASSUME TypeOK, TypeOK', PlacesInv, OneLeaderInv, [Next /\ OneLeader]_vars
    PROVE  Abstract!Next \/ UNCHANGED <<TheLeader, Order, Delivered>>
<1>1. /\ log \in [Node -> Seq(Entry)] /\ log' \in [Node -> Seq(Entry)]
      /\ applied \in [Node -> Seq(Entry)] /\ applied' \in [Node -> Seq(Entry)]
      /\ commitIndex \in [Node -> Index]
  BY DEF TypeOK
<1>2. PICK S \in Node : Only(S)'
  BY OneLeaderStep DEF OneLeaderInv
<1>3. Only(S) /\ LedBy(S) /\ AppliedIsPrefix
  BY <1>2, LedByStep DEF OneLeaderInv
<1>4. /\ elected # {} => TheLeader = S /\ Order = Commands(log[S]) /\ S # Nil
      /\ elected = {} => TheLeader = Nil /\ Order = <<>>
  BY <1>3, LeaderIs DEF TheLeader, Order
<1>5. /\ elected' # {} => TheLeader' = S /\ Order' = Commands(log'[S])
      /\ elected' = {} => TheLeader' = Nil /\ Order' = <<>>
  <2>1. CASE elected' # {}
    <3>1. (CHOOSE e \in elected' : TRUE) \in elected'
      BY <2>1
    <3>2. TheLeader' = S
      BY <1>2, <2>1, <3>1 DEF TheLeader, Only
    <3> QED BY <2>1, <3>2 DEF Order
  <2>2. CASE elected' = {}
    BY <2>2 DEF TheLeader, Order
  <2> QED BY <2>1, <2>2
<1>6. /\ \A n \in Node : /\ Len(Delivered[n]) = commitIndex[n] + 1
                         /\ Delivered[n] = Commands(applied[n])
      /\ Delivered = [n \in Node |-> Commands(applied[n])]
      /\ Delivered' = [n \in Node |-> Commands(applied'[n])]
  BY <1>1, <1>3, CommandsOf DEF Delivered, AppliedIsPrefix
<1>7. Len(Order) = IF elected = {} THEN 0 ELSE Len(log[S])
  BY <1>1, <1>4, CommandsOf
<1>8. CASE elected' = elected /\ log'[S] = log[S] /\ applied' = applied
  <2>1. TheLeader' = TheLeader /\ Order' = Order
    BY <1>4, <1>5, <1>8
  <2>2. Delivered' = Delivered
    BY <1>6, <1>8
  <2> QED BY <2>1, <2>2
<1>9. ASSUME NEW n \in Node, BecomeLeader(n)
      PROVE  Abstract!Next \/ UNCHANGED <<TheLeader, Order, Delivered>>
  <2>1. elected' # {} /\ UNCHANGED <<log, applied>>
    BY <1>9 DEF BecomeLeader, logVars
  <2>2. Delivered' = Delivered
    BY <1>6, <2>1
  <2>3. CASE elected = {}
    <3>1. Commands(log[S]) = <<>>
      BY <1>2, <2>3, BeforeElections DEF Commands
    <3>2. Abstract!Elect(S)
      BY <1>4, <1>5, <2>1, <2>2, <2>3, <3>1 DEF Abstract!Elect
    <3> QED BY <3>2 DEF Abstract!Next
  <2>4. CASE elected # {}
    BY <1>4, <1>5, <2>1, <2>2, <2>4
  <2> QED BY <2>3, <2>4
<1>10. ASSUME NEW n \in Node, NEW c \in Cmd, AppendEntry(n, c) PROVE Abstract!Next
  <2> DEFINE e == [term |-> currentTerm[n], cmd |-> c]
  <2>1. /\ state[n] = "leader" /\ c \notin issued /\ elected' = elected
        /\ log' = [log EXCEPT ![n] = Append(@, e)] /\ applied' = applied
    BY <1>10 DEF AppendEntry
  <2>2. n = S /\ elected # {}
    BY <1>3, <2>1, BeforeElections DEF LedBy
  <2>3. e \in Entry /\ e.cmd = c
    <3>1. currentTerm[n] \in Nat
      BY DEF TypeOK
    <3> QED BY <3>1 DEF Entry
  <2> HIDE DEF e
  <2>4. log'[S] = Append(log[S], e)
    BY <1>1, <2>1, <2>2
  <2>5. Order' = Append(Order, c)
    BY <1>1, <1>4, <1>5, <2>1, <2>2, <2>3, <2>4, CommandsAppend
  <2>6. ASSUME NEW i \in 1..Len(Order) PROVE Order[i] # c
    <3>1. i \in 1..Len(log[S]) /\ Order[i] = log[S][i].cmd /\ i \in Nat
      BY <1>1, <1>4, <1>7, <2>2, CommandsOf
    <3>2. /\ Has(LogPiece(log[S]), i) /\ At(LogPiece(log[S]), i) = log[S][i]
          /\ LogPiece(log[S]) \in AllPieces
      BY <1>1, <3>1, LogPieceFacts DEF AllPieces, Pieces, LogPieces
    <3> QED BY <2>1, <3>1, <3>2 DEF PlacesInv, OnlyIssued
  <2>7. TheLeader # Nil /\ TheLeader' = TheLeader /\ Delivered' = Delivered
    BY <1>4, <1>5, <1>6, <2>1, <2>2
  <2>8. Abstract!Propose(c)
    BY <2>5, <2>6, <2>7 DEF Abstract!Propose
  <2> QED BY <2>8 DEF Abstract!Next
<1>11. ASSUME NEW n \in Node, NEW k \in Index, NEW a \in Seq(Entry), elected # {},
              elected' = elected, log'[S] = log[S], n # S => k <= commitIndex[S],
              k > commitIndex[n], k < Len(log[S]), Len(a) = k + 1,
              \A i \in 1..(k + 1) : a[i] = log[S][i],
              applied' = [applied EXCEPT ![n] = a]
       PROVE  Abstract!Next
  <2>1. /\ k \in Int /\ k + 1 \in 1..Len(log[S]) /\ Len(log[S]) \in Nat
        /\ Len(a) <= Len(log[S])
        /\ \A m \in Node : commitIndex[m] \in Int
    <3>1. /\ k \in Int /\ k >= -1 /\ \A m \in Node : commitIndex[m] \in Int /\ commitIndex[m] >= -1
      BY <1>1, <1>11 DEF Index
    <3>2. Len(log[S]) \in Nat
      BY <1>1
    <3> QED BY <1>11, <3>1, <3>2
  <2>2. Commands(a) = SubSeq(Order, 1, k + 1)
    BY <1>1, <1>4, <1>11, <2>1, CommandsPrefix
  <2>3. Delivered' = [Delivered EXCEPT ![n] = SubSeq(Order, 1, k + 1)]
    BY <1>1, <1>6, <1>11, <2>2
  <2>4. k + 1 > Len(Delivered[n]) /\ (n # S => k + 1 <= Len(Delivered[S]))
    BY <1>6, <1>11, <2>1
  <2>5. TheLeader = S /\ TheLeader # Nil /\ UNCHANGED <<TheLeader, Order>>
    BY <1>4, <1>5, <1>11
  <2>6. Abstract!Deliver(n, k + 1)
    BY <2>3, <2>4, <2>5 DEF Abstract!Deliver
  <2>7. k + 1 \in 1..Len(Order)
    BY <1>7, <1>11, <2>1
  <2> QED BY <2>6, <2>7 DEF Abstract!Next
<1>12. ASSUME NEW r \in appendReqs, HandleAppendEntries(r)
       PROVE  Abstract!Next \/ UNCHANGED <<TheLeader, Order, Delivered>>
  <2> DEFINE n == r.dst
  <2>1. n \in Node /\ n # S /\ elected' = elected /\ elected # {}
    BY <1>3, <1>12, FollowerAppends, DeliveryAnswer, BeforeElections
  <2>2. PICK m \in Seq(Entry) :
          /\ log' = [log EXCEPT ![n] = m]
          /\ CopyOf(LogPiece(m), LogPiece(log[S]))
          /\ \A i \in 1..Len(log[n]) : m[i] = log[n][i]
          /\ \/ applied' = applied /\ commitIndex' = commitIndex
             \/ \E k \in Index, a \in Seq(Entry) :
                   /\ k >= commitIndex[n] /\ k <= commitIndex[S] /\ k < Len(m)
                   /\ commitIndex' = [commitIndex EXCEPT ![n] = k]
                   /\ applied' = [applied EXCEPT ![n] = a]
                   /\ Len(a) = k + 1 /\ \A i \in 1..(k + 1) : a[i] = m[i]
    <3>1. \E m \in Seq(Entry) :
            /\ log' = [log EXCEPT ![n] = m]
            /\ CopyOf(LogPiece(m), LogPiece(log[S]))
            /\ Len(log[n]) <= Len(m)
            /\ \A i \in 1..Len(log[n]) : m[i] = log[n][i]
            /\ PrevMatches(r, log[n]) => r.prevIndex + Len(r.entries) < Len(m)
            /\ \/ applied' = applied /\ commitIndex' = commitIndex
               \/ \E k \in Index, a \in Seq(Entry) :
                     /\ k >= commitIndex[n] /\ k <= commitIndex[S] /\ k < Len(m)
                     /\ commitIndex' = [commitIndex EXCEPT ![n] = k]
                     /\ applied' = [applied EXCEPT ![n] = a]
                     /\ Len(a) = k + 1 /\ \A i \in 1..(k + 1) : a[i] = m[i]
      BY SMTT(30), <1>3, <1>12, FollowerAppends
    <3> HIDE DEF n
    <3> QED BY <3>1
  <2> HIDE DEF n
  <2>3. log'[S] = log[S]
    BY <1>1, <2>1, <2>2
  <2>4. CASE applied' = applied
    BY <1>8, <2>1, <2>3, <2>4
  <2>5. ASSUME NEW k \in Index, NEW a \in Seq(Entry),
               k >= commitIndex[n], k <= commitIndex[S], k < Len(m),
               applied' = [applied EXCEPT ![n] = a],
               Len(a) = k + 1, \A i \in 1..(k + 1) : a[i] = m[i]
        PROVE  Abstract!Next \/ UNCHANGED <<TheLeader, Order, Delivered>>
    <3>1. Len(m) <= Len(log[S]) /\ \A i \in 1..Len(m) : m[i] = log[S][i]
      BY <1>1, <2>2, CopiedLog
    <3>2. /\ k \in Int /\ commitIndex[n] \in Int /\ Len(m) \in Nat /\ Len(log[S]) \in Nat
          /\ Len(log[n]) \in Nat
      BY <1>1, <2>1 DEF Index
    <3>3. k < Len(log[S]) /\ \A i \in 1..(k + 1) : a[i] = log[S][i]
      <4>1. k < Len(log[S]) /\ \A i \in 1..(k + 1) : i \in 1..Len(m)
        BY <2>5, <3>1, <3>2
      <4> QED BY <2>5, <3>1, <4>1
    <3>4. CASE k > commitIndex[n]
      BY <1>11, <2>1, <2>3, <2>5, <3>3, <3>4
    <3>5. CASE k = commitIndex[n]
      <4>1. /\ Len(applied[n]) = k + 1 /\ commitIndex[n] < Len(log[n])
            /\ \A i \in 1..Len(applied[n]) : applied[n][i] = log[n][i]
        BY <1>3, <2>1, <3>5 DEF AppliedIsPrefix
      <4>2. \A i \in 1..(k + 1) : i \in 1..Len(log[n])
        BY <3>2, <3>5, <4>1
      <4>3. \A i \in 1..(k + 1) : applied[n][i] = a[i]
        BY <2>2, <2>5, <4>1, <4>2
      <4>4. applied[n] = a
        <5>1. applied[n] \in Seq(Entry)
          BY <1>1, <2>1
        <5> HIDE DEF Entry
        <5> QED BY <2>5, <4>1, <4>3, <5>1, SeqEqual
      <4>5. applied' = applied
        BY <1>1, <2>1, <2>5, <4>4
      <4> QED BY <1>8, <2>1, <2>3, <4>5
    <3> QED BY <2>5, <3>2, <3>4, <3>5
  <2> QED BY <2>2, <2>4, <2>5
<1>13. ASSUME NEW r \in appendReplies, HandleAppendSuccess(r)
       PROVE  Abstract!Next \/ UNCHANGED <<TheLeader, Order, Delivered>>
  <2> DEFINE match == [matchIndex[S] EXCEPT ![r.dst] = Larger(@, r.match)]
  <2>1. /\ UNCHANGED <<log, elected>>
        /\ \/ applied' = applied /\ commitIndex' = commitIndex
           \/ \E k \in Index, a \in Seq(Entry) :
                 /\ k = MedianIndex(S, match)
                 /\ k > commitIndex[S] /\ k < Len(log[S])
                 /\ commitIndex' = [commitIndex EXCEPT ![S] = k]
                 /\ applied' = [applied EXCEPT ![S] = a]
                 /\ Len(a) = k + 1 /\ \A i \in 1..(k + 1) : a[i] = log[S][i]
    BY <1>3, <1>13, LeaderCommits
  <2> HIDE DEF match
  <2>2. elected # {}
    BY <1>13, BeforeElections
  <2> QED BY <1>8, <1>11, <2>1, <2>2
<1>14. ASSUME NEW n \in Node, Restart(n), OneLeader
       PROVE  Abstract!Next \/ UNCHANGED <<TheLeader, Order, Delivered>>
  <2>1. /\ log' = [log EXCEPT ![n] = <<>>] /\ applied' = [applied EXCEPT ![n] = <<>>]
        /\ elected' = elected
    BY <1>14 DEF Restart
  <2>2. CASE elected = {}
    <3>1. \A m \in Node : log[m] = <<>>
      BY <2>2, BeforeElections
    <3>2. applied[n] = <<>>
      <4>1. Len(applied[n]) = commitIndex[n] + 1 /\ commitIndex[n] < 0
        BY <1>3, <3>1 DEF AppliedIsPrefix
      <4>2. applied[n] \in Seq(Entry) /\ commitIndex[n] \in Index
        BY <1>1
      <4>3. Len(applied[n]) = 0
        BY <4>1, <4>2 DEF Index
      <4> HIDE DEF Entry
      <4> QED BY <4>2, <4>3, EmptySeq
    <3>3. log' = log /\ applied' = applied
      BY <1>1, <2>1, <3>1, <3>2
    <3> QED BY <1>8, <2>1, <3>3
  <2>3. CASE elected # {}
    <3>1. n # S
      BY <1>3, <1>14, <2>3 DEF OneLeader, Only
    <3>2. log'[S] = log[S]
      BY <1>1, <2>1, <3>1
    <3>3. Commands(<<>>) = <<>>
      BY DEF Commands
    <3>4. Delivered' = [Delivered EXCEPT ![n] = <<>>]
      BY <1>1, <1>6, <2>1, <3>3
    <3>5. TheLeader = S /\ TheLeader # Nil /\ UNCHANGED <<TheLeader, Order>>
      BY <1>4, <1>5, <2>1, <2>3, <3>2
    <3>6. Abstract!Rejoin(n)
      BY <3>1, <3>4, <3>5 DEF Abstract!Rejoin
    <3> QED BY <3>6 DEF Abstract!Next
  <2> QED BY <2>2, <2>3
<1>15. Idle \/ (\E n \in Node : SendStep(n)) \/ UNCHANGED vars =>
         elected' = elected /\ log' = log /\ applied' = applied
  BY DEF Idle, SendStep, vars, logVars, historyVars
<1>16. CASE UNCHANGED vars
  BY <1>8, <1>15, <1>16
<1>17. CASE Next /\ OneLeader
  BY <1>8, <1>9, <1>10, <1>12, <1>13, <1>14, <1>15, <1>17, ReplicationKinds
<1> QED BY <1>16, <1>17

\* While nobody else is elected the cluster is one log: whatever requests and
\* answers are lost, late or overtaken and whichever follower restarts, every
\* node hands its callbacks a prefix of the commands in the order append_entry
\* took them, and no follower is ahead of the leader.
THEOREM OneLeaderImplementsReplicatedLog == OneLeaderSpec => ImplementsReplicatedLog
<1>1. Init => Abstract!Init
  <2> SUFFICES ASSUME Init PROVE Abstract!Init
    OBVIOUS
  <2>1. elected = {} /\ \A n \in Node : applied[n] = <<>>
    BY DEF Init
  <2>2. TheLeader = Nil /\ Order = <<>>
    BY <2>1 DEF TheLeader, Order
  <2>3. Commands(<<>>) = <<>>
    BY DEF Commands
  <2>4. Delivered = [n \in Node |-> <<>>]
    BY <2>1, <2>3 DEF Delivered
  <2> QED BY <2>2, <2>4 DEF Abstract!Init
<1>2. TypeOK /\ TypeOK' /\ PlacesInv /\ OneLeaderInv /\ [Next /\ OneLeader]_vars =>
        [Abstract!Next]_(Abstract!vars)
  BY ImplementsStep DEF Abstract!vars
<1>3. OneLeaderSpec => Spec
  BY PTL DEF OneLeaderSpec, Spec
<1> QED BY <1>1, <1>2, <1>3, OneLeaderAlways, PlacesAlways, TypeCorrect, PTL
        DEF OneLeaderSpec, ImplementsReplicatedLog, Abstract!Spec

-----------------------------------------------------------------------------
(***************************************************************************)
(* The median of the match indices.                                        *)
(***************************************************************************)

\* A set of natural numbers has a least one.
LEMMA LeastNumber ==
    ASSUME NEW T \in SUBSET Nat, T # {}
    PROVE  \E x \in T : \A y \in T : x <= y
<1>1. \E x \in T : \A y \in T : ~(<<y, x>> \in OpToRel(<, Nat))
  BY NatLessThanWellFounded, WFMin
<1>2. \A a, b \in Nat : a < b => <<a, b>> \in OpToRel(<, Nat)
  BY SMT DEF OpToRel
<1>3. \A a, b \in T : ~(a < b) => b <= a
  OBVIOUS
<1> QED BY <1>1, <1>2, <1>3, Zenon

\* One of finitely many nodes has the greatest index, whichever the indices are.
LEMMA GreatestIndex ==
    ASSUME NEW Q, IsFiniteSet(Q), Q # {}, NEW f \in [Q -> Int]
    PROVE  \E q \in Q : \A p \in Q : f[p] <= f[q]
<1> DEFINE upTo(q) == {p \in Q : f[p] <= f[q]}
           above(q) == Cardinality(Q) - Cardinality(upTo(q))
           T == {above(q) : q \in Q}
<1>1. ASSUME NEW q \in Q
      PROVE  /\ IsFiniteSet(upTo(q)) /\ Cardinality(upTo(q)) \in Nat
             /\ Cardinality(upTo(q)) <= Cardinality(Q)
  <2>1. upTo(q) \in SUBSET Q
    OBVIOUS
  <2> HIDE DEF upTo
  <2> QED BY <2>1, FS_Subset, FS_CardinalityType
<1>2. Cardinality(Q) \in Nat
  BY FS_CardinalityType
<1>3. \A q \in Q : above(q) \in Nat
  <2> HIDE DEF upTo
  <2> QED BY <1>1, <1>2
<1>4. PICK q \in Q : \A p \in Q : above(q) <= above(p)
  <2>1. T \in SUBSET Nat /\ T # {}
    BY <1>3
  <2>2. PICK x \in T : \A y \in T : x <= y
    <3> HIDE DEF T
    <3> QED BY <2>1, LeastNumber
  <2> QED BY <2>2
<1>5. ASSUME NEW p \in Q, ~(f[p] <= f[q]) PROVE FALSE
  <2>1. upTo(q) \in SUBSET upTo(p) /\ p \in upTo(p) /\ p \notin upTo(q)
    <3>1. f[p] \in Int /\ f[q] \in Int
      OBVIOUS
    <3>2. \A o \in Q : f[o] <= f[q] => f[o] <= f[p]
      BY <1>5, <3>1
    <3> QED BY <1>5, <3>1, <3>2
  <2> HIDE DEF upTo
  <2>2. Cardinality(upTo(q)) <= Cardinality(upTo(p)) /\ upTo(q) # upTo(p)
    BY <1>1, <2>1, FS_Subset
  <2>3. Cardinality(upTo(p)) # Cardinality(upTo(q))
    BY <1>1, <2>1, <2>2, FS_Subset
  <2> QED BY <1>1, <1>2, <1>4, <2>2, <2>3
<1> QED BY <1>5

\* Where the indices f of the nodes Q lie.
Below(Q, f, v) == {q \in Q : f[q] < v}
UpTo(Q, f, v) == {q \in Q : f[q] <= v}

\* Among the indices of finitely many nodes there is one with at most m below
\* it and more than m up to it: what sorting them and taking place m finds.
LEMMA MedianExists ==
    ASSUME NEW Q, IsFiniteSet(Q), NEW f \in [Q -> Int], NEW m \in Nat,
           m < Cardinality(Q)
    PROVE  \E q \in Q : /\ Cardinality(Below(Q, f, f[q])) <= m
                       /\ Cardinality(UpTo(Q, f, f[q])) > m
<1> DEFINE below(v) == {q \in Q : f[q] < v}
           upTo(v) == {q \in Q : f[q] <= v}
           G == {q \in Q : Cardinality(upTo(f[q])) > m}
           g == [q \in G |-> -f[q]]
<1>1. Cardinality(Q) \in Nat /\ Q # {}
  BY FS_CardinalityType, FS_EmptySet
<1>2. IsFiniteSet(G) /\ G # {}
  <2>1. PICK q \in Q : \A p \in Q : f[p] <= f[q]
    BY <1>1, GreatestIndex
  <2>2. upTo(f[q]) = Q
    BY <2>1
  <2>3. q \in G
    BY <2>2
  <2>4. G \in SUBSET Q
    OBVIOUS
  <2> HIDE DEF G
  <2> QED BY <2>3, <2>4, FS_Subset
<1>3. PICK q \in G : \A p \in G : f[q] <= f[p]
  <2>1. g \in [G -> Int] /\ \A p \in G : g[p] = -f[p] /\ f[p] \in Int
    OBVIOUS
  <2> HIDE DEF G, g
  <2>2. PICK q \in G : \A p \in G : g[p] <= g[q]
    BY <1>2, <2>1, GreatestIndex
  <2> QED BY <2>1, <2>2
<1>4. IsFiniteSet(below(f[q]))
  <2>1. below(f[q]) \in SUBSET Q
    OBVIOUS
  <2> HIDE DEF below
  <2> QED BY <2>1, FS_Subset
<1>5. Cardinality(below(f[q])) <= m
  <2>1. CASE below(f[q]) = {}
    BY <2>1, FS_EmptySet
  <2>2. CASE below(f[q]) # {}
    <3> DEFINE B == below(f[q])
               h == [p \in B |-> f[p]]
    <3>1. h \in [B -> Int] /\ \A p \in B : h[p] = f[p] /\ p \in Q /\ f[p] < f[q]
      OBVIOUS
    <3>2. PICK w \in B : \A p \in B : f[p] <= f[w]
      <4> HIDE DEF B, h
      <4>1. PICK w \in B : \A p \in B : h[p] <= h[w]
        BY <1>4, <2>2, <3>1, GreatestIndex DEF B
      <4> QED BY <3>1, <4>1
    <3>3. w \notin G
      <4>1. f[w] < f[q] /\ f[w] \in Int /\ f[q] \in Int
        BY <3>1
      <4> QED BY <1>3, <4>1
    <3>4. upTo(f[w]) = B
      <4>1. \A p \in Q : f[p] \in Int
        OBVIOUS
      <4> QED BY <3>1, <3>2, <4>1
    <3>5. ~(Cardinality(B) > m)
      BY <3>1, <3>3, <3>4
    <3>6. Cardinality(B) \in Nat
      BY <1>4, FS_CardinalityType
    <3> HIDE DEF B
    <3>7. Cardinality(B) <= m
      BY <3>5, <3>6
    <3> QED BY <3>7 DEF B
  <2> QED BY <2>1, <2>2
<1> QED BY <1>3, <1>5 DEF Below, UpTo

\* The index _update_commit_index finds: at most N // 2 nodes are below it.
LEMMA MedianReached ==
    ASSUME NEW S \in Node, NEW match \in [Node -> Int], Len(log[S]) \in Nat
    PROVE  Cardinality({q \in Node : (IF q = S THEN LastIndex(log[S]) ELSE match[q])
                                       < MedianIndex(S, match)})
             <= Cardinality(Node) \div 2
<1> DEFINE at(q) == IF q = S THEN LastIndex(log[S]) ELSE match[q]
           f == [q \in Node |-> at(q)]
           m == Cardinality(Node) \div 2
           Fits(v) == /\ Cardinality({q \in Node : at(q) < v}) <= m
                      /\ Cardinality({q \in Node : at(q) <= v}) > m
<1>1. Cardinality(Node) \in Nat /\ m \in Nat /\ m < Cardinality(Node)
  BY NodeAssumption, FS_CardinalityType
<1>2. f \in [Node -> Int] /\ \A q \in Node : f[q] = at(q)
  BY DEF LastIndex
<1>3. MedianIndex(S, match) = CHOOSE v \in {at(q) : q \in Node} : Fits(v)
  BY DEF MedianIndex
<1> HIDE DEF m
<1>4. \E p \in Node : /\ Cardinality(Below(Node, f, f[p])) <= m
                     /\ Cardinality(UpTo(Node, f, f[p])) > m
  <2>1. IsFiniteSet(Node)
    BY NodeAssumption
  <2> HIDE DEF f
  <2> QED BY <1>1, <1>2, <2>1, MedianExists
<1>5. \E v \in {at(q) : q \in Node} : Fits(v)
  <2>1. PICK p \in Node : /\ Cardinality(Below(Node, f, f[p])) <= m
                          /\ Cardinality(UpTo(Node, f, f[p])) > m
    BY <1>4
  <2> DEFINE v == at(p)
  <2> HIDE DEF f, at
  <2>2. /\ Below(Node, f, f[p]) = {q \in Node : at(q) < v}
        /\ UpTo(Node, f, f[p]) = {q \in Node : at(q) <= v}
        /\ v \in {at(q) : q \in Node}
    BY <1>2 DEF Below, UpTo
  <2>3. Fits(v)
    BY <2>1, <2>2
  <2> QED BY <2>2, <2>3
<1> HIDE DEF at
<1>6. Fits(MedianIndex(S, match))
  <2> HIDE DEF Fits
  <2> QED BY <1>3, <1>5
<1> QED BY <1>6 DEF at, m

-----------------------------------------------------------------------------
(***************************************************************************)
(* What the leader has committed is on half of the nodes while no process  *)
(* has died, which is a quorum if their number is odd.  A match index      *)
(* counts entries its peer has acknowledged, and still has.                *)
(***************************************************************************)

\* The nodes whose log reaches place i.
Holders(i) == {q \in Node : i <= Len(log[q])}

Acknowledged ==
    /\ \A r \in appendReplies : r.success => r.match < Len(log[r.dst])
    /\ \A n, p \in Node : matchIndex[n][p] = 0 \/ matchIndex[n][p] < Len(log[p])

\* The nodes that are at or above the median, if as many as can be are below it.
Half == Cardinality(Node) - (Cardinality(Node) \div 2)

CommitsHeld == \A n \in Node : \A i \in 2..(commitIndex[n] + 1) :
    Cardinality(Holders(i)) >= Half

QuorumInv == restarts = 0 => Acknowledged /\ CommitsHeld

\* Half of a cluster is a quorum if its number of nodes is odd.
LEMMA HalfSize ==
    /\ Half \in Nat /\ Cardinality(Node) \in Nat
    /\ 2 * Half >= Cardinality(Node)
    /\ Cardinality(Node) % 2 = 1 => Half = QuorumSize
<1>1. Cardinality(Node) \in Nat
  BY NodeAssumption, FS_CardinalityType
<1>2. \A c \in Nat : /\ c - (c \div 2) \in Nat /\ 2 * (c - (c \div 2)) >= c
                    /\ c % 2 = 1 => c - (c \div 2) = (c \div 2) + 1
  OBVIOUS
<1> QED BY <1>1, <1>2 DEF Half, QuorumSize

\* _update_commit_index: below the median of the match indices, every entry but
\* the first is in the log of half of the nodes.
LEMMA MedianIsHeld ==
    ASSUME TypeOK, NEW S \in Node, NEW match \in [Node -> Nat],
           \A p \in Node : match[p] = 0 \/ match[p] < Len(log[p]),
           MedianIndex(S, match) \in Int, NEW i \in 2..(MedianIndex(S, match) + 1)
    PROVE  Cardinality(Holders(i)) >= Half
<1> DEFINE at(q) == IF q = S THEN LastIndex(log[S]) ELSE match[q]
           k == MedianIndex(S, match)
           low == {q \in Node : at(q) < k}
<1>1. /\ \A q \in Node : Len(log[q]) \in Nat /\ match[q] \in Nat
      /\ match \in [Node -> Int] /\ k \in Int /\ i \in Int /\ i >= 2 /\ i <= k + 1
  BY DEF TypeOK
<1>2. Cardinality(low) <= Cardinality(Node) \div 2
  BY <1>1, MedianReached
<1>3. Node \ low \in SUBSET Holders(i)
  <2> SUFFICES ASSUME NEW q \in Node, ~(at(q) < k) PROVE i <= Len(log[q])
    BY DEF Holders
  <2> HIDE DEF k
  <2>1. CASE q = S
    <3>1. at(q) = Len(log[q]) - 1
      BY <2>1 DEF LastIndex
    <3> HIDE DEF at
    <3> QED BY <1>1, <3>1
  <2>2. CASE q # S
    <3>1. at(q) = match[q]
      BY <2>2
    <3> HIDE DEF at
    <3> QED BY <1>1, <3>1
  <2> QED BY <2>1, <2>2
<1>4. /\ IsFiniteSet(low) /\ Cardinality(low) \in Nat
      /\ Cardinality(Node \ low) = Cardinality(Node) - Cardinality(low)
      /\ Cardinality(Node) \in Nat
  <2>1. low \in SUBSET Node /\ Node \cap low = low /\ IsFiniteSet(Node)
    BY NodeAssumption
  <2> HIDE DEF low
  <2>2. IsFiniteSet(low) /\ Cardinality(low) \in Nat /\ Cardinality(Node) \in Nat
    BY <2>1, FS_Subset, FS_CardinalityType
  <2>3. Cardinality(Node \ low) = Cardinality(Node) - Cardinality(Node \cap low)
    BY <2>1, <2>2, FS_Difference
  <2> QED BY <2>1, <2>2, <2>3
<1>5. /\ IsFiniteSet(Holders(i)) /\ Cardinality(Holders(i)) \in Nat
      /\ Cardinality(Node \ low) <= Cardinality(Holders(i))
  <2>1. Holders(i) \in SUBSET Node /\ IsFiniteSet(Node)
    BY NodeAssumption DEF Holders
  <2> HIDE DEF low
  <2>2. IsFiniteSet(Holders(i)) /\ Cardinality(Holders(i)) \in Nat
    BY <2>1, FS_Subset, FS_CardinalityType
  <2> QED BY <1>3, <2>2, FS_Subset
<1> HIDE DEF low
<1>6. \A c \in Nat, l \in Nat : l <= c \div 2 => c - l >= c - (c \div 2)
  OBVIOUS
<1>7. Cardinality(Node) - Cardinality(low) >= Half
  BY <1>2, <1>4, <1>6 DEF Half
<1> QED BY <1>4, <1>5, <1>7, HalfSize

\* What has to be shown of a step for QuorumInv to hold after it.
LEMMA QuorumKept ==
    ASSUME TypeOK, TypeOK', QuorumInv, restarts = 0,
           \A q \in Node : Len(log[q]) <= Len(log'[q]),
           \A r \in appendReplies' :
              r \in appendReplies \/ (r.success => r.match < Len(log'[r.dst])),
           \A n, p \in Node : \/ matchIndex'[n][p] = matchIndex[n][p]
                              \/ matchIndex'[n][p] = 0
                              \/ matchIndex'[n][p] < Len(log'[p]),
           \A n \in Node : \A i \in 2..(commitIndex'[n] + 1) :
              Cardinality(Holders(i)) >= Half
    PROVE  QuorumInv'
<1>1. /\ \A q \in Node : /\ Len(log[q]) \in Nat /\ Len(log'[q]) \in Nat
                         /\ \A p \in Node : matchIndex[q][p] \in Nat
      /\ \A r \in appendReplies : r.match \in Int /\ r.dst \in Node
      /\ \A n \in Node : commitIndex'[n] \in Int
  <2>1. \A q \in Node : /\ Len(log[q]) \in Nat /\ Len(log'[q]) \in Nat
                        /\ \A p \in Node : matchIndex[q][p] \in Nat
    BY DEF TypeOK
  <2>2. \A r \in appendReplies : r.match \in Index /\ r.dst \in Node
    BY DEF TypeOK, AppendReply
  <2>3. \A n \in Node : commitIndex'[n] \in Index
    BY DEF TypeOK
  <2> QED BY <2>1, <2>2, <2>3 DEF Index
<1>2. ASSUME NEW r \in appendReplies', r.success PROVE r.match < Len(log'[r.dst])
  <2>1. CASE r \in appendReplies
    <3>1. r.match < Len(log[r.dst])
      BY <1>2, <2>1 DEF QuorumInv, Acknowledged
    <3> QED BY <1>1, <2>1, <3>1
  <2> QED BY <1>2, <2>1
<1>3. ASSUME NEW n \in Node, NEW p \in Node
      PROVE  matchIndex'[n][p] = 0 \/ matchIndex'[n][p] < Len(log'[p])
  <2>1. matchIndex[n][p] = 0 \/ matchIndex[n][p] < Len(log[p])
    BY DEF QuorumInv, Acknowledged
  <2> QED BY <1>1, <2>1
<1>4. ASSUME NEW n \in Node, NEW i \in 2..(commitIndex'[n] + 1)
      PROVE  Cardinality(Holders(i)') >= Half
  <2>1. i \in Int
    BY <1>1
  <2>2. Holders(i) \in SUBSET Holders(i)' /\ Holders(i)' \in SUBSET Node
    BY <1>1, <2>1 DEF Holders
  <2>3. /\ IsFiniteSet(Holders(i)') /\ Cardinality(Holders(i)') \in Nat
        /\ IsFiniteSet(Holders(i)) /\ Cardinality(Holders(i)) \in Nat
        /\ Cardinality(Holders(i)) <= Cardinality(Holders(i)')
    <3>1. IsFiniteSet(Node)
      BY NodeAssumption
    <3>2. IsFiniteSet(Holders(i)')
      BY <2>2, <3>1, FS_Subset
    <3> QED BY <2>2, <3>2, FS_Subset, FS_CardinalityType
  <2>4. Cardinality(Holders(i)) >= Half /\ Half \in Nat
    BY HalfSize
  <2> QED BY <2>3, <2>4
<1> QED BY <1>2, <1>3, <1>4 DEF QuorumInv, Acknowledged, CommitsHeld

\* Every handler keeps what was acknowledged and what half of the nodes hold:
\* _handle_append_entries answers with no more than it has, and
\* _update_commit_index counts no more than was answered.
LEMMA QuorumStep ==
    ASSUME TypeOK, TypeOK', OneLeaderInv, QuorumInv, [Next /\ OneLeader]_vars
    PROVE  QuorumInv'
<1> SUFFICES ASSUME restarts' = 0 PROVE QuorumInv'
  BY DEF QuorumInv
<1>1. /\ log \in [Node -> Seq(Entry)] /\ log' \in [Node -> Seq(Entry)]
      /\ commitIndex \in [Node -> Index] /\ matchIndex \in [Node -> [Node -> Nat]]
      /\ restarts \in Nat
  BY DEF TypeOK
<1>2. PICK S \in Node : Only(S)'
  BY OneLeaderStep DEF OneLeaderInv
<1>3. LedBy(S) /\ AppliedIsPrefix
  BY <1>2, LedByStep DEF OneLeaderInv
<1>4. ASSUME restarts = 0, log' = log, appendReplies' \subseteq appendReplies,
             commitIndex' = commitIndex,
             \A n, p \in Node : matchIndex'[n][p] \in {matchIndex[n][p], 0}
      PROVE  QuorumInv'
  <2>1. \A n \in Node : \A i \in 2..(commitIndex'[n] + 1) :
          Cardinality(Holders(i)) >= Half
    BY <1>4 DEF QuorumInv, CommitsHeld
  <2>2. \A q \in Node : Len(log[q]) <= Len(log'[q])
    <3>1. \A q \in Node : Len(log[q]) \in Nat
      BY <1>1
    <3> QED BY <1>4, <3>1
  <2> QED BY <1>4, <2>1, <2>2, QuorumKept
<1>5. CASE Idle \/ \E n \in Node : SendStep(n)
  BY <1>4, <1>5 DEF Idle, SendStep
<1>6. ASSUME NEW n \in Node, BecomeLeader(n) PROVE QuorumInv'
  <2>1. /\ UNCHANGED <<log, commitIndex, appendReplies, restarts>>
        /\ matchIndex' = [matchIndex EXCEPT ![n] = [p \in Node |-> 0]]
    BY <1>6 DEF BecomeLeader, logVars, appendNet
  <2>2. \A m, p \in Node : matchIndex'[m][p] \in {matchIndex[m][p], 0}
    BY <1>1, <2>1
  <2> QED BY <1>4, <2>1, <2>2
<1>7. ASSUME NEW n \in Node, NEW c \in Cmd, AppendEntry(n, c) PROVE QuorumInv'
  <2> DEFINE e == [term |-> currentTerm[n], cmd |-> c]
  <2>1. /\ log' = [log EXCEPT ![n] = Append(@, e)]
        /\ UNCHANGED <<commitIndex, matchIndex, appendReplies, restarts>>
    BY <1>7 DEF AppendEntry, leaderVars, appendNet
  <2>2. e \in Entry
    <3>1. currentTerm[n] \in Nat
      BY DEF TypeOK
    <3> QED BY <3>1 DEF Entry
  <2> HIDE DEF e
  <2>3. ASSUME NEW q \in Node PROVE Len(log[q]) <= Len(log'[q])
    <3>1. Len(log[q]) \in Nat /\ log[q] \in Seq(Entry)
      BY <1>1
    <3>2. log'[q] = log[q] \/ log'[q] = Append(log[q], e)
      BY <1>1, <2>1
    <3>3. Len(Append(log[q], e)) = Len(log[q]) + 1
      <4> HIDE DEF Entry
      <4> QED BY <2>2, <3>1, AppendProperties
    <3> QED BY <3>1, <3>2, <3>3
  <2>4. \A m \in Node : \A i \in 2..(commitIndex'[m] + 1) :
          Cardinality(Holders(i)) >= Half
    BY <2>1 DEF QuorumInv, CommitsHeld
  <2> QED BY <2>1, <2>3, <2>4, QuorumKept
<1>8. ASSUME NEW r \in appendReqs, HandleAppendEntries(r) PROVE QuorumInv'
  <2> DEFINE n == r.dst
  <2>1. /\ n \in Node /\ UNCHANGED <<matchIndex, restarts>>
        /\ \A s \in appendReplies' :
              \/ s \in appendReplies
              \/ /\ s.dst = n /\ s.match = r.prevIndex + Len(r.entries)
                 /\ s.success = PrevMatches(r, log[n])
    BY <1>3, <1>8, FollowerAppends, DeliveryAnswer
  <2>2. PICK m \in Seq(Entry) :
          /\ log' = [log EXCEPT ![n] = m]
          /\ Len(log[n]) <= Len(m)
          /\ PrevMatches(r, log[n]) => r.prevIndex + Len(r.entries) < Len(m)
          /\ \/ commitIndex' = commitIndex
             \/ \E k \in Index : /\ k <= commitIndex[S]
                                 /\ commitIndex' = [commitIndex EXCEPT ![n] = k]
    <3>1. \E m \in Seq(Entry) :
            /\ log' = [log EXCEPT ![n] = m]
            /\ CopyOf(LogPiece(m), LogPiece(log[S]))
            /\ Len(log[n]) <= Len(m)
            /\ \A i \in 1..Len(log[n]) : m[i] = log[n][i]
            /\ PrevMatches(r, log[n]) => r.prevIndex + Len(r.entries) < Len(m)
            /\ \/ applied' = applied /\ commitIndex' = commitIndex
               \/ \E k \in Index, a \in Seq(Entry) :
                     /\ k >= commitIndex[n] /\ k <= commitIndex[S] /\ k < Len(m)
                     /\ commitIndex' = [commitIndex EXCEPT ![n] = k]
                     /\ applied' = [applied EXCEPT ![n] = a]
                     /\ Len(a) = k + 1 /\ \A i \in 1..(k + 1) : a[i] = m[i]
      BY <1>3, <1>8, FollowerAppends
    <3> HIDE DEF n
    <3> QED BY <3>1
  <2> HIDE DEF n
  <2>3. log'[n] = m /\ \A q \in Node : q # n => log'[q] = log[q]
    BY <1>1, <2>1, <2>2
  <2>4. \A q \in Node : Len(log[q]) <= Len(log'[q])
    <3>1. \A q \in Node : Len(log[q]) \in Nat
      BY <1>1
    <3> QED BY <2>2, <2>3, <3>1
  <2>5. \A s \in appendReplies' :
          s \in appendReplies \/ (s.success => s.match < Len(log'[s.dst]))
    BY <2>1, <2>2, <2>3
  <2>6. ASSUME NEW p \in Node, NEW i \in 2..(commitIndex'[p] + 1)
        PROVE  Cardinality(Holders(i)) >= Half
    <3>1. CommitsHeld /\ \A q \in Node : commitIndex[q] \in Int
      BY <1>1, <2>1 DEF QuorumInv, Index
    <3>2. CASE commitIndex'[p] = commitIndex[p]
      BY <3>1, <3>2 DEF CommitsHeld
    <3>3. ASSUME NEW k \in Index, k <= commitIndex[S], commitIndex'[p] = k
          PROVE  Cardinality(Holders(i)) >= Half
      <4>1. k \in Int
        BY <3>3 DEF Index
      <4>2. i \in 2..(k + 1) /\ commitIndex[S] \in Int
        BY <3>1, <3>3
      <4>3. i \in 2..(commitIndex[S] + 1)
        BY <3>3, <4>1, <4>2
      <4> QED BY <3>1, <4>3 DEF CommitsHeld
    <3>4. \/ commitIndex'[p] = commitIndex[p]
          \/ \E k \in Index : k <= commitIndex[S] /\ commitIndex'[p] = k
      BY <1>1, <2>2
    <3> QED BY <3>2, <3>3, <3>4
  <2> QED BY <2>1, <2>4, <2>5, <2>6, QuorumKept
<1>9. ASSUME NEW r \in appendReplies, HandleAppendSuccess(r) PROVE QuorumInv'
  <2> DEFINE match == [matchIndex[S] EXCEPT ![r.dst] = Larger(@, r.match)]
  <2>1. /\ r.dst \in Node \ {S} /\ r.success
        /\ UNCHANGED <<log, restarts>> /\ appendReplies' = appendReplies \ {r}
        /\ matchIndex' = [matchIndex EXCEPT ![S] = match]
        /\ \/ applied' = applied /\ commitIndex' = commitIndex
           \/ \E k \in Index, a \in Seq(Entry) :
                 /\ k = MedianIndex(S, match)
                 /\ k > commitIndex[S] /\ k < Len(log[S])
                 /\ commitIndex' = [commitIndex EXCEPT ![S] = k]
                 /\ applied' = [applied EXCEPT ![S] = a]
                 /\ Len(a) = k + 1 /\ \A i \in 1..(k + 1) : a[i] = log[S][i]
    <3>1. /\ r.src = S /\ r.dst \in Node \ {S} /\ r.success
          /\ UNCHANGED <<log, appendReqs, pendingSend, state, elected, restarts>>
          /\ appendReplies' = appendReplies \ {r}
          /\ matchIndex' = [matchIndex EXCEPT ![S] = match]
          /\ \/ applied' = applied /\ commitIndex' = commitIndex
             \/ \E k \in Index, a \in Seq(Entry) :
                   /\ k = MedianIndex(S, match)
                   /\ k > commitIndex[S] /\ k < Len(log[S])
                   /\ commitIndex' = [commitIndex EXCEPT ![S] = k]
                   /\ applied' = [applied EXCEPT ![S] = a]
                   /\ Len(a) = k + 1 /\ \A i \in 1..(k + 1) : a[i] = log[S][i]
      BY <1>3, <1>9, LeaderCommits
    <3> HIDE DEF match
    <3> QED BY <3>1
  <2>2. Acknowledged /\ CommitsHeld
    BY <2>1 DEF QuorumInv
  <2>3. r.match < Len(log[r.dst]) /\ r.match \in Index
    <3>1. r.match \in Index
      BY <1>9 DEF TypeOK, AppendReply
    <3>2. r.match < Len(log[r.dst])
      BY <2>1, <2>2 DEF Acknowledged
    <3> QED BY <3>1, <3>2
  <2>4. /\ match \in [Node -> Nat]
        /\ \A p \in Node : match[p] = 0 \/ match[p] < Len(log[p])
    <3>1. /\ matchIndex[S] \in [Node -> Nat]
          /\ \A p \in Node : matchIndex[S][p] = 0 \/ matchIndex[S][p] < Len(log[p])
      BY <1>1, <2>2 DEF Acknowledged
    <3>2. \A a \in Nat : Larger(a, r.match) \in Nat /\ Larger(a, r.match) \in {a, r.match}
      BY <2>3 DEF Larger, Index
    <3>3. /\ Larger(matchIndex[S][r.dst], r.match) \in Nat
          /\ Larger(matchIndex[S][r.dst], r.match) \in {matchIndex[S][r.dst], r.match}
      BY <2>1, <3>1, <3>2
    <3> QED BY <2>1, <2>3, <3>1, <3>3
  <2> HIDE DEF match
  <2>5. \A q \in Node : Len(log[q]) <= Len(log'[q])
    <3>1. \A q \in Node : Len(log[q]) \in Nat
      BY <1>1
    <3> QED BY <2>1, <3>1
  <2>6. \A n, p \in Node : matchIndex'[n][p] = matchIndex[n][p]
                             \/ matchIndex'[n][p] = 0 \/ matchIndex'[n][p] < Len(log'[p])
    BY <1>1, <2>1, <2>4
  <2>7. ASSUME NEW p \in Node, NEW i \in 2..(commitIndex'[p] + 1)
        PROVE  Cardinality(Holders(i)) >= Half
    <3>1. CASE commitIndex'[p] = commitIndex[p]
      BY <2>2, <3>1 DEF CommitsHeld
    <3>2. ASSUME MedianIndex(S, match) \in Index, commitIndex'[p] = MedianIndex(S, match)
          PROVE  Cardinality(Holders(i)) >= Half
      <4>1. MedianIndex(S, match) \in Int
        BY <3>2 DEF Index
      <4> QED BY <2>4, <3>2, <4>1, MedianIsHeld
    <3>3. \/ commitIndex'[p] = commitIndex[p]
          \/ MedianIndex(S, match) \in Index /\ commitIndex'[p] = MedianIndex(S, match)
      BY <1>1, <2>1
    <3> QED BY <3>1, <3>2, <3>3
  <2> QED BY <2>1, <2>5, <2>6, <2>7, QuorumKept
<1>10. ASSUME NEW n \in Node, Restart(n) PROVE QuorumInv'
  <2>1. restarts' = restarts + 1
    BY <1>10 DEF Restart
  <2> QED BY <1>1, <2>1
<1>11. CASE UNCHANGED vars
  BY <1>4, <1>11 DEF vars, logVars, leaderVars, appendNet, historyVars
<1> QED BY <1>5, <1>6, <1>7, <1>8, <1>9, <1>10, ReplicationKinds

\* With one elected leader and no restart, whatever append requests and answers
\* are lost, late or overtaken, what the leader has committed beyond the first entry
\* is in the logs of half of the nodes, in a cluster of any size, and in those of
\* _quorum_size nodes if the size is odd (_update_commit_index: the place it takes of
\* the sorted match indices is one a quorum has reached in odd clusters only).
THEOREM CommitsReachHalf ==
    OneLeaderSpec => [](/\ LaterCommitsOnHalf
                        /\ Cardinality(Node) % 2 = 1 => LaterCommitsOnQuorum)
<1>1. Init => QuorumInv
  <2> SUFFICES ASSUME Init PROVE Acknowledged /\ CommitsHeld
    BY DEF QuorumInv
  <2>1. Acknowledged
    BY DEF Init, Acknowledged
  <2>2. \A n \in Node : 2..(commitIndex[n] + 1) = {}
    BY DEF Init
  <2> QED BY <2>1, <2>2 DEF CommitsHeld
<1>2. TypeOK /\ TypeOK' /\ OneLeaderInv /\ QuorumInv /\ [Next /\ OneLeader]_vars => QuorumInv'
  BY QuorumStep
<1> DEFINE Goal == /\ LaterCommitsOnHalf
                   /\ Cardinality(Node) % 2 = 1 => LaterCommitsOnQuorum
<1>3. ASSUME TypeOK, OneLeaderInv, QuorumInv, NEW n \in Node,
             state[n] = "leader", restarts = 0,
             NEW i \in 2..(commitIndex[n] + 1)
      PROVE  Cardinality(Having(n, i)) >= Half /\ Cardinality(Having(n, i)) \in Nat
  <2>1. PICK S \in Node : Only(S)
    BY <1>3 DEF OneLeaderInv
  <2>2. LedBy(S) /\ n = S
    BY <1>3, <2>1 DEF OneLeaderInv, LedBy
  <2>3. Cardinality(Holders(i)) >= Half /\ Cardinality(Holders(i)) \in Nat
    <3>1. Holders(i) \in SUBSET Node /\ IsFiniteSet(Node)
      BY NodeAssumption DEF Holders
    <3>2. Cardinality(Holders(i)) \in Nat
      BY <3>1, FS_Subset, FS_CardinalityType
    <3> QED BY <1>3, <3>2 DEF QuorumInv, CommitsHeld
  <2>4. ASSUME NEW q \in Node, i <= Len(log[q]) PROVE log[q][i] = log[n][i]
    <3>1. log[q] \in Seq(Entry) /\ log[S] \in Seq(Entry) /\ Len(log[q]) \in Nat
      BY <1>3 DEF TypeOK
    <3>2. CopyOf(LogPiece(log[q]), LogPiece(log[S]))
      BY <2>2 DEF LedBy, Pieces, LogPieces
    <3>3. commitIndex[n] \in Index
      BY <1>3 DEF TypeOK
    <3>4. i \in 1..Len(log[q])
      BY <2>4, <3>1, <3>3 DEF Index
    <3> QED BY <2>2, <3>1, <3>2, <3>4, CopiedLog
  <2>5. Having(n, i) = Holders(i)
    BY <2>4 DEF Holders, Having
  <2> QED BY <2>3, <2>5
<1>4. TypeOK /\ OneLeaderInv /\ QuorumInv => Goal
  <2> SUFFICES ASSUME TypeOK, OneLeaderInv, QuorumInv, NEW n \in Node,
                      state[n] = "leader", restarts = 0,
                      NEW i \in 2..(commitIndex[n] + 1)
               PROVE  /\ 2 * Cardinality(Having(n, i)) >= Cardinality(Node)
                      /\ Cardinality(Node) % 2 = 1
                            => Cardinality(Having(n, i)) >= QuorumSize
    BY DEF LaterCommitsOnHalf, LaterCommitsOnQuorum
  <2> DEFINE h == Cardinality(Having(n, i))
             c == Cardinality(Node)
  <2>1. h >= Half /\ h \in Nat
    BY <1>3
  <2>2. /\ Half \in Nat /\ c \in Nat /\ 2 * Half >= c
        /\ c % 2 = 1 => Half = QuorumSize
    BY HalfSize
  <2> HIDE DEF h, c
  <2>3. 2 * h >= c
    BY <2>1, <2>2
  <2>4. c % 2 = 1 => h >= QuorumSize
    BY <2>1, <2>2
  <2> QED BY <2>3, <2>4 DEF h, c
<1> HIDE DEF Goal
<1>5. OneLeaderSpec => Spec
  BY PTL DEF OneLeaderSpec, Spec
<1>6. OneLeaderSpec => []Goal
  BY <1>1, <1>2, <1>4, <1>5, OneLeaderAlways, TypeCorrect, PTL DEF OneLeaderSpec
<1> QED BY <1>6 DEF Goal

\* While nobody else is elected, no two nodes ever apply different entries at
\* one place (_apply_committed_entries, _handle_append_entries): what the
\* behaviours that do need is a second leader.
THEOREM OneLeaderAgrees == OneLeaderSpec => []StateMachineSafety
<1>1. TypeOK /\ OneLeaderInv => StateMachineSafety
  <2> SUFFICES ASSUME TypeOK, OneLeaderInv, NEW m \in Node, NEW n \in Node,
                      NEW i \in 1..Smaller(Len(applied[m]), Len(applied[n]))
               PROVE  applied[m][i] = applied[n][i]
    BY DEF StateMachineSafety
  <2>1. PICK S \in Node : Only(S)
    BY DEF OneLeaderInv
  <2>2. log[S] \in Seq(Entry) /\ \A p \in Node : /\ log[p] \in Seq(Entry)
                                                 /\ Len(applied[p]) \in Nat
                                                 /\ Len(log[p]) \in Nat
    <3>1. log \in [Node -> Seq(Entry)] /\ applied \in [Node -> Seq(Entry)]
      BY DEF TypeOK
    <3> QED BY <3>1
  <2>3. ASSUME NEW p \in Node, i \in 1..Len(applied[p]) PROVE applied[p][i] = log[S][i]
    <3>1. CopyOf(LogPiece(log[p]), LogPiece(log[S]))
      BY <2>1 DEF OneLeaderInv, LedBy, Pieces, LogPieces
    <3>2. /\ commitIndex[p] < Len(log[p]) /\ Len(applied[p]) = commitIndex[p] + 1
          /\ applied[p][i] = log[p][i]
      BY <2>3 DEF OneLeaderInv, AppliedIsPrefix
    <3>3. commitIndex[p] \in Int
      BY DEF TypeOK, Index
    <3>4. i \in 1..Len(log[p])
      <4>1. Len(applied[p]) <= Len(log[p]) /\ Len(log[p]) \in Nat /\ Len(applied[p]) \in Nat
        BY <2>2, <3>2, <3>3
      <4> QED BY <2>3, <4>1
    <3> QED BY <2>2, <3>1, <3>2, <3>4, CopiedLog
  <2>4. i \in 1..Len(applied[m]) /\ i \in 1..Len(applied[n])
    BY <2>2 DEF Smaller
  <2> QED BY <2>3, <2>4
<1>2. OneLeaderSpec => Spec
  BY PTL DEF OneLeaderSpec, Spec
<1> QED BY <1>1, <1>2, OneLeaderAlways, TypeCorrect, PTL
=============================================================================
