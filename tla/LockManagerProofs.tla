-------------------------- MODULE LockManagerProofs --------------------------
(***************************************************************************)
(* Theorems about LockManager, for every set of nodes, clients, resources  *)
(* and calls and every bound on the releases.                              *)
(***************************************************************************)
EXTENDS LockManager, FiniteSetTheorems, SequenceTheorems, WellFoundedInduction,
        TLAPS

\* How many entries node n has applied.
Applied(n) == Len(delivered[n])

IsRelease(e, l) == e.op = "release" /\ e.lock = l

\* A node applies entries the leader has appended.
AppliedAppended == \A n \in Node : Applied(n) <= Len(order)

\* No entry is appended twice.
EntriesOnce == \A i, j \in 1..Len(order) : order[i] = order[j] => i = j

\* An acquire entry belongs to a call that looked at the locks before.
AcquiresCalled ==
    \A i \in 1..Len(order), l \in LockId :
        order[i] = Acquired(l) => call[l] \in Call /\ call[l].seen < i

\* A lock is released after it was acquired.
ReleasesFollow ==
    \A j \in 1..Len(order), l \in LockId :
        IsRelease(order[j], l) => \E i \in 1..(j - 1) : order[i] = Acquired(l)

\* The locks of a node are those acquired and not released in what it applied.
LocksFromLog ==
    \A n \in Node, l \in LockId :
        l \in locks[n] <=>
            /\ \E i \in 1..Applied(n) : order[i] = Acquired(l)
            /\ \A j \in 1..Applied(n) : ~IsRelease(order[j], l)

\* What a call saw: every lock that excludes its own and was applied by then
\* was also released.
LooksClear ==
    \A i, j \in 1..Len(order), l, m \in LockId :
        /\ order[i] = Acquired(l) /\ order[j] = Acquired(m)
        /\ Exclude(l, m) /\ i <= call[m].seen
        => \E k \in 1..call[m].seen : IsRelease(order[k], l)

LockInv ==
    /\ TypeOK
    /\ AppliedAppended
    /\ EntriesOnce
    /\ AcquiresCalled
    /\ ReleasesFollow
    /\ LocksFromLog
    /\ LooksClear

-----------------------------------------------------------------------------
\* Facts about the operators of the model

\* A slot without a call is none of the calls.
LEMMA NoCallIsNoCall == NoCall \notin Call
BY DEF NoCall, Call

\* Exclusion is symmetric.
LEMMA ExcludeSymmetric ==
    ASSUME NEW l, NEW m
    PROVE  Exclude(l, m) <=> /\ l # m
                             /\ ConflictsWith(call[m].resource, call[m].type, l)
BY DEF Exclude, ConflictsWith

\* A set of natural numbers has a least one.
LEMMA LeastOf ==
    ASSUME NEW S \in SUBSET Nat, S # {}
    PROVE  \E x \in S : \A y \in S : x <= y
<1>1. \E x \in S : \A y \in S : ~(<<y, x>> \in OpToRel(<, Nat))
  BY NatLessThanWellFounded, WFMin
<1>2. \A a, b \in Nat : a < b => <<a, b>> \in OpToRel(<, Nat)
  BY SMT DEF OpToRel
<1>3. \A a, b \in S : ~(a < b) => b <= a
  OBVIOUS
<1> QED
  BY <1>1, <1>2, <1>3, Zenon

\* The first of some locks a node knows is one of them.
LEMMA FirstIsMember ==
    ASSUME TypeOK, AppliedAppended, LocksFromLog,
           NEW n \in Node, NEW S \in SUBSET locks[n], S # {}
    PROVE  First(S) \in S
<1> DEFINE P == {Position(l) : l \in S}
<1>1. ASSUME NEW l \in S
      PROVE  Position(l) \in Nat
  <2>1. \E i \in 1..Len(order) : order[i] = Acquired(l)
    <3>1. l \in LockId /\ l \in locks[n]
      BY DEF TypeOK
    <3>2. PICK i \in 1..Applied(n) : order[i] = Acquired(l)
      BY <3>1 DEF LocksFromLog
    <3>3. i \in 1..Len(order)
      BY DEF AppliedAppended, Applied, TypeOK, Log!TypeOK
    <3> QED
      BY <3>2, <3>3
  <2>2. Position(l) \in 1..Len(order)
    BY <2>1 DEF Position
  <2> QED
    BY <2>2
<1>2. P \in SUBSET Nat /\ P # {}
  BY <1>1
<1>3. \E x \in P : \A y \in P : x <= y
  BY <1>2, LeastOf
<1>4. \E l \in S : \A m \in S : Position(l) <= Position(m)
  BY <1>3
<1> QED
  BY <1>4 DEF First

\* The edge a waiter adds leads to the owner of an exclusive lock on what it
\* waits for, by an entry the node has applied.
LEMMA EdgeLeads ==
    ASSUME TypeOK, AppliedAppended, LocksFromLog,
           NEW n \in Node, NEW c \in Client, NEW r \in Resource,
           NEW e \in EdgesToHolder(n, c, r)
    PROVE  /\ e[1] = c
           /\ \E m \in LockId :
                 /\ call[m].resource = r
                 /\ call[m].type = "exclusive" /\ call[m].owner = e[2]
                 /\ \E i \in 1..Applied(n) : order[i] = Acquired(m)
<1> DEFINE exclusive == {m \in locks[n] : /\ call[m].resource = r
                                          /\ call[m].type = "exclusive"}
           m == First(exclusive)
<1>1. exclusive # {} /\ e = <<c, call[m].owner>>
  BY DEF EdgesToHolder
<1>2. m \in exclusive
  BY <1>1, FirstIsMember
<1>3. m \in LockId /\ m \in locks[n]
  BY <1>2 DEF TypeOK
<1>4. call[m].resource = r /\ call[m].type = "exclusive"
  BY <1>2
<1>5. e[1] = c /\ call[m].owner = e[2]
  BY <1>1
<1> HIDE DEF m
<1>6. \E i \in 1..Applied(n) : order[i] = Acquired(m)
  BY <1>3 DEF LocksFromLog
<1> QED
  BY <1>3, <1>4, <1>5, <1>6

\* The edges a waiter adds lead from clients to clients.
LEMMA EdgesType ==
    ASSUME TypeOK, AppliedAppended, LocksFromLog, AcquiresCalled,
           NEW n \in Node, NEW c \in Client, NEW r \in Resource
    PROVE  EdgesToHolder(n, c, r) \in SUBSET (Client \X Client)
<1> DEFINE exclusive == {m \in locks[n] : /\ call[m].resource = r
                                          /\ call[m].type = "exclusive"}
<1>1. ASSUME exclusive # {}
      PROVE  call[First(exclusive)].owner \in Client
  <2> DEFINE l == First(exclusive)
  <2>1. l \in exclusive
    BY <1>1, FirstIsMember
  <2>2. l \in LockId /\ l \in locks[n]
    BY <2>1 DEF TypeOK
  <2> HIDE DEF l
  <2>3. PICK i \in 1..Applied(n) : order[i] = Acquired(l)
    BY <2>2 DEF LocksFromLog
  <2>4. i \in 1..Len(order)
    BY DEF AppliedAppended, Applied, TypeOK, Log!TypeOK
  <2>5. call[l] \in Call
    BY <2>2, <2>3, <2>4 DEF AcquiresCalled
  <2> QED
    BY <2>5 DEF Call, l
<1> QED
  BY <1>1 DEF EdgesToHolder

-----------------------------------------------------------------------------
\* What Propose, and a release, do to the log.

\* append_entry puts one new command at the end of the order.
LEMMA ProposeEffect ==
    ASSUME TypeOK, NEW e \in Command, Log!Propose(e)
    PROVE  /\ leader # Nil /\ leader \in Node
           /\ order' \in Seq(Command)
           /\ Len(order) \in Nat /\ Len(order') = Len(order) + 1
           /\ order'[Len(order) + 1] = e
           /\ \A i \in 1..Len(order) : order'[i] = order[i] /\ order[i] # e
           /\ leader' = leader /\ delivered' = delivered
BY DEF TypeOK, Log!TypeOK, Log!Propose

\* release_lock proposes the release of a lock the leader holds.
LEMMA ReleaseEffect ==
    ASSUME TypeOK, NEW l, AppendRelease(l)
    PROVE  /\ l \in LockId /\ l \in locks[leader]
           /\ \E k \in 1..MaxReleases :
                 Released(l, k) \in Command /\ Log!Propose(Released(l, k))
<1> DEFINE S == {i \in DOMAIN order : /\ order[i].op = "release"
                                      /\ order[i].lock = l}
           k == 1 + Cardinality(S)
<1>1. leader \in Node /\ l \in LockId /\ l \in locks[leader]
  BY DEF AppendRelease, TypeOK, Log!TypeOK
<1>2. IsFiniteSet(S)
  <2>1. DOMAIN order = 1..Len(order) /\ Len(order) \in Nat
    BY DEF TypeOK, Log!TypeOK
  <2>2. IsFiniteSet(1..Len(order))
    BY <2>1, FS_Interval
  <2> QED
    BY <2>1, <2>2, FS_Subset
<1>3. Cardinality(S) \in Nat
  BY <1>2, FS_CardinalityType
<1>4. k <= MaxReleases /\ Log!Propose(Released(l, k))
  BY DEF AppendRelease
<1>5. k \in 1..MaxReleases
  BY <1>3, <1>4, LockAssumption
<1> HIDE DEF k
<1>6. Released(l, k) \in Command
  BY <1>1, <1>5 DEF Command
<1> QED
  BY <1>1, <1>4, <1>5, <1>6

\* An entry acquires a lock or releases one.
LEMMA EntryForms ==
    ASSUME NEW e \in Command
    PROVE  /\ e.lock \in LockId
           /\ e.op = "acquire" <=> e = Acquired(e.lock)
           /\ e.op = "release" \/ e.op = "acquire"
<1>1. CASE \E l \in LockId : e = Acquired(l)
  BY <1>1 DEF Acquired
<1>2. CASE \E l \in LockId, k \in 1..MaxReleases : e = Released(l, k)
  BY <1>2 DEF Acquired, Released
<1> QED
  BY <1>1, <1>2 DEF Command

\* What acquire_lock appends is a command.
LEMMA AcquireEffect ==
    ASSUME NEW l \in LockId
    PROVE  Acquired(l) \in Command
BY DEF Command

-----------------------------------------------------------------------------
\* No operation leaves a variable outside its type.
LEMMA TypeStep ==
    ASSUME LockInv, [Next]_vars
    PROVE  TypeOK'
<1> USE DEF LockInv
<1>1. ASSUME NEW n \in Node, Elect(n)
      PROVE  TypeOK'
  BY <1>1 DEF Elect, Log!Elect, TypeOK, Log!TypeOK
<1>2. ASSUME NEW n \in Node, HandleCommit(n)
      PROVE  TypeOK'
  <2> DEFINE i == Len(delivered[n]) + 1
  <2>1. i \in 1..Len(order) /\ order[i] \in Command /\ order[i].lock \in LockId
    <3>1. i \in 1..Len(order)
      BY <1>2 DEF HandleCommit, TypeOK, Log!TypeOK
    <3>2. order[i] \in Command
      BY <3>1 DEF TypeOK, Log!TypeOK
    <3> QED
      BY <3>1, <3>2, EntryForms
  <2>2. SubSeq(order, 1, i) \in Seq(Command)
    <3>1. \A j \in 1..i : order[j] \in Command
      BY <2>1 DEF TypeOK, Log!TypeOK
    <3> QED
      BY <2>1, <3>1, SubSeqProperties
  <2>3. delivered' = [delivered EXCEPT ![n] = SubSeq(order, 1, i)]
        /\ UNCHANGED <<leader, order>>
    BY <1>2 DEF HandleCommit, Log!Deliver
  <2>4. Log!TypeOK'
    BY <2>2, <2>3 DEF TypeOK, Log!TypeOK
  <2>5. locks' \in [Node -> SUBSET LockId] /\ lockQueue' \in [Node -> SUBSET LockId]
    BY <1>2, <2>1 DEF HandleCommit, TypeOK
  <2> QED
    BY <1>2, <2>4, <2>5 DEF HandleCommit, TypeOK
<1>3. ASSUME NEW l \in LockId, NEW n \in Node, NEW c \in Client,
             NEW r \in Resource, NEW t \in LockType, NEW phase,
             phase \in {"proposed", "waiting", "refused"},
             Begin(l, n, c, r, t, phase)
      PROVE  call' \in [LockId -> Call \cup {NoCall}]
  <2>1. Len(delivered[n]) \in Nat
    BY DEF TypeOK, Log!TypeOK
  <2> QED
    BY <1>3, <2>1 DEF Begin, Call, TypeOK
<1>4. ASSUME NEW e \in Command, Log!Propose(e)
      PROVE  Log!TypeOK'
  BY <1>4, ProposeEffect DEF TypeOK, Log!TypeOK
<1>5. ASSUME NEW l \in LockId, NEW n \in Node, NEW c \in Client,
             NEW r \in Resource, NEW t \in LockType
      PROVE  /\ AcquireFree(l, n, c, r, t) => TypeOK'
             /\ AcquireRefused(l, n, c, r, t) => TypeOK'
             /\ AcquireBusy(l, n, c, r, t) => TypeOK'
  <2>1. CASE AcquireFree(l, n, c, r, t)
    BY <1>3, <1>4, <2>1, AcquireEffect DEF AcquireFree, TypeOK
  <2>2. CASE AcquireRefused(l, n, c, r, t)
    BY <1>3, <2>2 DEF AcquireRefused, TypeOK, Log!TypeOK, logVars
  <2>3. CASE AcquireBusy(l, n, c, r, t)
    <3>1. waitGraph' \in [Node -> SUBSET (Client \X Client)]
      BY <2>3, EdgesType DEF AcquireBusy, TypeOK
    <3> QED
      BY <1>3, <2>3, <3>1 DEF AcquireBusy, TypeOK, Log!TypeOK, logVars
  <2> QED
    BY <2>1, <2>2, <2>3
<1>6. ASSUME NEW l \in LockId, call[l].phase \in {"proposed", "waiting", "retried"}
      PROVE  call[l] \in Call
  BY <1>6 DEF TypeOK, NoCall
<1>7. ASSUME NEW l \in LockId, Retry(l)
      PROVE  TypeOK'
  <2>1. Log!TypeOK' /\ leader \in Node
    BY <1>4, <1>7, AcquireEffect, ProposeEffect DEF Retry
  <2>2. Len(delivered[leader]) \in Nat
    BY <2>1 DEF TypeOK, Log!TypeOK
  <2>3. [call[l] EXCEPT !.phase = "retried", !.seen = Len(delivered[leader])]
           \in Call
    BY <1>6, <1>7, <2>2 DEF Retry, Call
  <2>4. call' \in [LockId -> Call \cup {NoCall}]
    BY <1>7, <2>3 DEF Retry, TypeOK
  <2> QED
    BY <1>7, <2>1, <2>4 DEF Retry, TypeOK
<1>8. ASSUME NEW l \in LockId, GiveUp(l)
      PROVE  TypeOK'
  <2>1. call' \in [LockId -> Call \cup {NoCall}]
    BY <1>6, <1>8 DEF GiveUp, TypeOK, Call
  <2> QED
    BY <1>8, <2>1 DEF GiveUp, TypeOK, Log!TypeOK, logVars
<1>9. ASSUME NEW l \in LockId, Return(l)
      PROVE  TypeOK'
  <2>1. call' \in [LockId -> Call \cup {NoCall}]
    BY <1>6, <1>9 DEF Return, TypeOK, Call
  <2>2. waitGraph' \in [Node -> SUBSET (Client \X Client)]
    BY <1>9 DEF Return, TypeOK, WithoutEdges
  <2> QED
    BY <1>9, <2>1, <2>2 DEF Return, TypeOK, Log!TypeOK, logVars
<1>10. ASSUME NEW l, AppendRelease(l), UNCHANGED <<locks, lockQueue, waitGraph, call>>
       PROVE  TypeOK'
  BY <1>4, <1>10, ReleaseEffect DEF TypeOK
<1>11. CASE \E l \in LockId : Release(l)
  BY <1>10, <1>11 DEF Release
<1>12. CASE \E c \in Client : BreakDeadlock(c)
  BY <1>10, <1>12 DEF BreakDeadlock
<1>13. CASE UNCHANGED vars
  BY <1>13 DEF vars, TypeOK, Log!TypeOK
<1>14. ASSUME NEW n \in Node, Restart(n)
       PROVE  TypeOK'
  <2>1. ASSUME NEW l \in LockId
        PROVE  call'[l] \in Call \cup {NoCall}
    <3>1. CASE call[l].phase \in {"proposed", "waiting", "retried"}
      BY <1>6, <1>14, <3>1 DEF Restart, TypeOK, Call
    <3>2. CASE call[l].phase \notin {"proposed", "waiting", "retried"}
      BY <1>14, <3>2 DEF Restart, TypeOK
    <3> QED
      BY <3>1, <3>2
  <2>2. Log!TypeOK'
    BY <1>14, EmptySeq DEF Restart, Log!Rejoin, TypeOK, Log!TypeOK
  <2>3. call' \in [LockId -> Call \cup {NoCall}]
    BY <1>14, <2>1 DEF Restart
  <2> QED
    BY <1>14, <2>2, <2>3 DEF Restart, TypeOK
<1> QED
  BY <1>1, <1>2, <1>5, <1>7, <1>8, <1>9, <1>11, <1>12, <1>13, <1>14 DEF Next

-----------------------------------------------------------------------------
(***************************************************************************)
(* The parts of LockInv that talk about the log are kept by three kinds of *)
(* step: those that leave it and the calls in it alone, those that append  *)
(* an entry, and the commit of an entry on a node.                         *)
(***************************************************************************)
LogInv ==
    /\ AppliedAppended /\ EntriesOnce /\ AcquiresCalled
    /\ ReleasesFollow /\ LocksFromLog /\ LooksClear

\* Calls change, but not in what the log depends on.
LEMMA CallsChange ==
    ASSUME LockInv, UNCHANGED order, AppliedAppended', LocksFromLog',
           \A l \in LockId :
               /\ call[l] \in Call /\ call'[l] # call[l]
               => \E phase : /\ call'[l] = [call[l] EXCEPT !.phase = phase]
                             /\ call'[l] \in Call
    PROVE  LogInv'
<1> USE DEF LockInv
<1>1. \A l \in LockId, i \in 1..Len(order) :
        order[i] = Acquired(l) =>
          /\ call'[l] \in Call /\ call'[l].seen = call[l].seen
          /\ call'[l].resource = call[l].resource /\ call'[l].type = call[l].type
  <2> SUFFICES ASSUME NEW l \in LockId, NEW i \in 1..Len(order),
                      order[i] = Acquired(l), call'[l] # call[l]
               PROVE  /\ call'[l] \in Call /\ call'[l].seen = call[l].seen
                      /\ call'[l].resource = call[l].resource
                      /\ call'[l].type = call[l].type
    BY DEF AcquiresCalled
  <2>1. call[l] \in Call
    BY DEF AcquiresCalled
  <2>2. PICK phase : /\ call'[l] = [call[l] EXCEPT !.phase = phase]
                     /\ call'[l] \in Call
    BY <2>1
  <2> QED
    BY <2>1, <2>2 DEF Call
<1>2. EntriesOnce' /\ ReleasesFollow'
  BY DEF EntriesOnce, ReleasesFollow, IsRelease, Acquired
<1>3. AcquiresCalled'
  BY <1>1 DEF AcquiresCalled, Acquired
<1>4. LooksClear'
  BY <1>1 DEF LooksClear, Exclude, ConflictsWith, IsRelease, Acquired
<1> QED
  BY <1>2, <1>3, <1>4 DEF LogInv

\* A call that only moves on leaves log and locks as they are explained.
LEMMA CallsStep ==
    ASSUME LockInv, UNCHANGED <<order, delivered, locks>>,
           \A l \in LockId :
               /\ call[l] \in Call /\ call'[l] # call[l]
               => \E phase : /\ call'[l] = [call[l] EXCEPT !.phase = phase]
                             /\ call'[l] \in Call
    PROVE  LogInv'
<1>1. AppliedAppended' /\ LocksFromLog'
  BY DEF LockInv, AppliedAppended, LocksFromLog, Applied, IsRelease, Acquired
<1> QED
  BY <1>1, CallsChange

\* A node that starts again has applied nothing and knows no lock.
LEMMA RestartStep ==
    ASSUME LockInv, NEW n \in Node, Restart(n)
    PROVE  LogInv'
<1> USE DEF LockInv
<1>1. ASSUME NEW l \in LockId, call'[l] # call[l]
      PROVE  /\ call'[l] = [call[l] EXCEPT !.phase = "lost"]
             /\ call[l] \in Call /\ call'[l] \in Call
  BY <1>1 DEF Restart, TypeOK, Call, NoCall
<1>2. /\ order' = order /\ leader' = leader
      /\ delivered' = [delivered EXCEPT ![n] = <<>>]
      /\ locks' = [locks EXCEPT ![n] = {}]
  BY DEF Restart, Log!Rejoin
<1>3. Applied(n)' = 0 /\ locks'[n] = {}
      /\ \A p \in Node : p # n => Applied(p)' = Applied(p) /\ locks'[p] = locks[p]
  BY <1>2, EmptySeq DEF Applied, TypeOK, Log!TypeOK
<1>4. Len(order') \in Nat /\ Len(order') = Len(order)
  BY <1>2 DEF TypeOK, Log!TypeOK
<1>5. AppliedAppended'
  <2> SUFFICES ASSUME NEW p \in Node
               PROVE  Applied(p)' <= Len(order')
    BY DEF AppliedAppended
  <2>1. CASE p = n
    BY <1>3, <1>4, <2>1
  <2>2. CASE p # n
    BY <1>3, <1>4, <2>2 DEF AppliedAppended
  <2> QED
    BY <2>1, <2>2
<1>6. LocksFromLog'
  BY <1>2, <1>3 DEF LocksFromLog, IsRelease, Acquired
<1> QED
  BY <1>1, <1>2, <1>5, <1>6, CallsChange

\* The node at which TryAcquire succeeds has released what would exclude.
LEMMA LookIsClear ==
    ASSUME LockInv, NEW n \in Node, NEW r, NEW t, TryAcquire(n, r, t),
           NEW l \in LockId, ConflictsWith(r, t, l),
           NEW i \in 1..Applied(n), order[i] = Acquired(l)
    PROVE  \E k \in 1..Applied(n) : IsRelease(order[k], l)
<1>1. l \notin locks[n]
  BY DEF TryAcquire
<1> QED
  BY <1>1 DEF LockInv, LocksFromLog

\* A call that has looked at the leader's locks appends its entry.
LEMMA AcquireStep ==
    ASSUME LockInv, NEW m \in LockId, NEW d, d \in Call,
           call' = [call EXCEPT ![m] = d],
           Log!Propose(Acquired(m)), UNCHANGED locks,
           TryAcquire(leader, d.resource, d.type), d.seen = Applied(leader)
    PROVE  LogInv'
<1> USE DEF LockInv
<1> DEFINE z == Len(order)
<1>1. /\ leader \in Node
      /\ order' \in Seq(Command)
      /\ z \in Nat /\ Len(order') = z + 1
      /\ order'[z + 1] = Acquired(m)
      /\ \A i \in 1..z : order'[i] = order[i] /\ order[i] # Acquired(m)
      /\ delivered' = delivered
  BY AcquireEffect, ProposeEffect
<1>2. \A n \in Node : Applied(n)' = Applied(n) /\ Applied(n) \in Nat /\ Applied(n) <= z
  BY <1>1 DEF Applied, AppliedAppended, TypeOK, Log!TypeOK
<1>3. \A i \in 1..(z + 1) : i \in 1..z \/ i = z + 1
  BY <1>1
<1>4. \A l \in LockId : (l # m => call'[l] = call[l]) /\ call'[m] = d
  BY DEF TypeOK
<1>5. \A l \in LockId : Acquired(l) = Acquired(m) => l = m
  BY DEF Acquired
<1>6. AppliedAppended'
  BY <1>1, <1>2 DEF AppliedAppended
<1>7. EntriesOnce'
  BY <1>1, <1>3 DEF EntriesOnce
<1>8. AcquiresCalled'
  <2> SUFFICES ASSUME NEW i \in 1..(z + 1), NEW l \in LockId,
                      order'[i] = Acquired(l)
               PROVE  call'[l] \in Call /\ call'[l].seen < i
    BY <1>1 DEF AcquiresCalled, Acquired
  <2>1. CASE i \in 1..z
    BY <1>1, <1>4, <2>1 DEF AcquiresCalled
  <2>2. CASE i = z + 1
    BY <1>1, <1>2, <1>4, <1>5, <2>2
  <2> QED
    BY <1>3, <2>1, <2>2
<1>9. ~\E l : IsRelease(Acquired(m), l)
  BY DEF IsRelease, Acquired
<1>10. ReleasesFollow'
  <2> SUFFICES ASSUME NEW j \in 1..(z + 1), NEW l \in LockId,
                      IsRelease(order'[j], l)
               PROVE  \E i \in 1..(j - 1) : order'[i] = Acquired(l)
    BY <1>1 DEF ReleasesFollow, IsRelease, Acquired
  <2>1. j \in 1..z /\ IsRelease(order[j], l)
    BY <1>1, <1>3, <1>9
  <2>2. \A i \in 1..(j - 1) : i \in 1..z
    BY <1>1, <2>1
  <2> QED
    BY <1>1, <2>1, <2>2 DEF ReleasesFollow
<1>11. \A n \in Node : \A i \in 1..Applied(n) : order'[i] = order[i]
  BY <1>1, <1>2
<1>12. LocksFromLog'
  <2> SUFFICES ASSUME NEW n \in Node, NEW l \in LockId
               PROVE  l \in locks[n] <=>
                        /\ \E i \in 1..Applied(n) : order'[i] = Acquired(l)
                        /\ \A j \in 1..Applied(n) : ~IsRelease(order'[j], l)
    BY <1>2 DEF LocksFromLog, IsRelease, Acquired
  <2> QED
    BY <1>11 DEF LocksFromLog
<1>13. LooksClear'
  <2> SUFFICES ASSUME NEW i \in 1..(z + 1), NEW j \in 1..(z + 1),
                      NEW l \in LockId, NEW p \in LockId,
                      order'[i] = Acquired(l), order'[j] = Acquired(p),
                      Exclude(l, p)', i <= call'[p].seen
               PROVE  \E k \in 1..call'[p].seen : IsRelease(order'[k], l)
    BY <1>1 DEF LooksClear, IsRelease, Acquired
  <2>1. call'[p] \in Call /\ call'[p].seen \in Nat /\ call'[p].seen < j
    BY <1>1, <1>8 DEF AcquiresCalled, Call, Acquired
  <2>2. i \in 1..z /\ order[i] = Acquired(l) /\ l # m
    <3>1. i \in 1..z
      BY <1>1, <1>3, <2>1
    <3> QED
      BY <1>1, <3>1
  <2>3. call'[l] = call[l]
    BY <1>4, <2>2
  <2>4. CASE j \in 1..z
    <3>1. p # m /\ order[j] = Acquired(p)
      BY <1>1, <2>4
    <3>2. call'[p] = call[p]
      BY <1>4, <3>1
    <3>3. Exclude(l, p)
      BY <2>3, <3>2 DEF Exclude, ConflictsWith
    <3>4. PICK k \in 1..call[p].seen : IsRelease(order[k], l)
      BY <2>2, <2>4, <3>1, <3>2, <3>3 DEF LooksClear
    <3>5. k \in 1..z
      BY <1>1, <2>1, <2>4, <3>2
    <3> QED
      BY <1>1, <3>2, <3>4, <3>5
  <2>5. CASE j = z + 1
    <3>1. p = m /\ call'[p] = d /\ call'[p].seen = Applied(leader)
      BY <1>1, <1>4, <1>5, <2>5
    <3>2. ConflictsWith(d.resource, d.type, l)
      BY <2>3, <3>1 DEF Exclude, ConflictsWith
    <3>3. i \in 1..Applied(leader)
      BY <1>1, <1>2, <3>1
    <3>4. PICK k \in 1..Applied(leader) : IsRelease(order[k], l)
      BY <1>1, <2>2, <3>2, <3>3, LookIsClear
    <3> QED
      BY <1>1, <1>11, <3>1, <3>4
  <2> QED
    BY <1>3, <2>4, <2>5
<1> QED
  BY <1>6, <1>7, <1>8, <1>10, <1>12, <1>13 DEF LogInv

\* The release of a lock the leader knows is appended.
LEMMA ReleaseStep ==
    ASSUME LockInv, NEW m, AppendRelease(m), UNCHANGED <<locks, call>>
    PROVE  LogInv'
<1> USE DEF LockInv
<1> DEFINE z == Len(order)
<1>1. m \in LockId /\ m \in locks[leader]
  BY ReleaseEffect
<1> PICK h \in 1..MaxReleases :
           Released(m, h) \in Command /\ Log!Propose(Released(m, h))
  BY ReleaseEffect
<1>2. /\ leader \in Node
      /\ z \in Nat /\ Len(order') = z + 1
      /\ order'[z + 1] = Released(m, h)
      /\ \A i \in 1..z : order'[i] = order[i] /\ order[i] # Released(m, h)
      /\ delivered' = delivered
  BY ProposeEffect
<1>3. \A i \in 1..(z + 1) : i \in 1..z \/ i = z + 1
  BY <1>2
<1>4. \A n \in Node : Applied(n)' = Applied(n) /\ Applied(n) \in Nat /\ Applied(n) <= z
  BY <1>2 DEF Applied, AppliedAppended, TypeOK, Log!TypeOK
<1>5. \A l : Released(m, h) # Acquired(l)
  BY DEF Released, Acquired
<1>6. \A i \in 1..(z + 1), l \in LockId :
        order'[i] = Acquired(l) => i \in 1..z /\ order[i] = Acquired(l)
  BY <1>2, <1>3, <1>5
<1>7. AppliedAppended'
  BY <1>2, <1>4 DEF AppliedAppended
<1>8. EntriesOnce'
  BY <1>2, <1>3 DEF EntriesOnce
<1>9. AcquiresCalled'
  BY <1>2, <1>6 DEF AcquiresCalled, Acquired
<1>10. ReleasesFollow'
  <2> SUFFICES ASSUME NEW j \in 1..(z + 1), NEW l \in LockId,
                      IsRelease(order'[j], l)
               PROVE  \E i \in 1..(j - 1) : order'[i] = Acquired(l)
    BY <1>2 DEF ReleasesFollow, IsRelease, Acquired
  <2>1. CASE j \in 1..z
    <3>1. \A i \in 1..(j - 1) : i \in 1..z
      BY <1>2, <2>1
    <3> QED
      BY <1>2, <2>1, <3>1 DEF ReleasesFollow
  <2>2. CASE j = z + 1
    <3>1. l = m
      BY <1>2, <2>2 DEF IsRelease, Released
    <3>2. PICK i \in 1..Applied(leader) : order[i] = Acquired(m)
      BY <1>1, <1>2 DEF LocksFromLog
    <3>3. i \in 1..z /\ i \in 1..(j - 1)
      BY <1>2, <1>4, <2>2
    <3> QED
      BY <1>2, <3>1, <3>2, <3>3
  <2> QED
    BY <1>3, <2>1, <2>2
<1>11. \A n \in Node : \A i \in 1..Applied(n) : order'[i] = order[i]
  BY <1>2, <1>4
<1>12. LocksFromLog'
  <2> SUFFICES ASSUME NEW n \in Node, NEW l \in LockId
               PROVE  l \in locks[n] <=>
                        /\ \E i \in 1..Applied(n) : order'[i] = Acquired(l)
                        /\ \A j \in 1..Applied(n) : ~IsRelease(order'[j], l)
    BY <1>4 DEF LocksFromLog, IsRelease, Acquired
  <2> QED
    BY <1>11 DEF LocksFromLog
<1>13. LooksClear'
  <2> SUFFICES ASSUME NEW i \in 1..(z + 1), NEW j \in 1..(z + 1),
                      NEW l \in LockId, NEW p \in LockId,
                      order'[i] = Acquired(l), order'[j] = Acquired(p),
                      Exclude(l, p), i <= call[p].seen
               PROVE  \E k \in 1..call[p].seen : IsRelease(order'[k], l)
    BY <1>2 DEF LooksClear, IsRelease, Acquired, Exclude, ConflictsWith
  <2>1. i \in 1..z /\ order[i] = Acquired(l) /\ j \in 1..z /\ order[j] = Acquired(p)
    BY <1>6
  <2>2. call[p].seen \in Nat /\ call[p].seen < j
    BY <2>1 DEF AcquiresCalled, Call
  <2>3. PICK k \in 1..call[p].seen : IsRelease(order[k], l)
    BY <2>1 DEF LooksClear
  <2>4. k \in 1..z
    BY <1>2, <2>1, <2>2
  <2> QED
    BY <1>2, <2>3, <2>4
<1> QED
  BY <1>7, <1>8, <1>9, <1>10, <1>12, <1>13 DEF LogInv

\* A node applies its next entry.
LEMMA CommitStep ==
    ASSUME LockInv, NEW n \in Node, HandleCommit(n)
    PROVE  LogInv'
<1> USE DEF LockInv
<1> DEFINE a == Applied(n)
           e == order[a + 1]
<1>1. /\ a \in Nat /\ Len(order) \in Nat /\ a + 1 \in 1..Len(order)
      /\ UNCHANGED <<order, call>>
      /\ delivered' = [delivered EXCEPT ![n] = SubSeq(order, 1, a + 1)]
      /\ e \in Command
  BY DEF HandleCommit, Log!Deliver, Applied, TypeOK, Log!TypeOK
<1>2. e.lock \in LockId /\ (e.op = "acquire" <=> e = Acquired(e.lock))
      /\ (e.op = "release" \/ e.op = "acquire")
  BY <1>1, EntryForms
<1>3. Applied(n)' = a + 1
  <2>1. \A i \in 1..(a + 1) : order[i] \in Command
    BY <1>1 DEF TypeOK, Log!TypeOK
  <2>2. Len(SubSeq(order, 1, a + 1)) = a + 1
    BY <1>1, <2>1, SubSeqProperties
  <2> QED
    BY <1>1, <2>2 DEF Applied, TypeOK, Log!TypeOK
<1>4. \A p \in Node : p # n => Applied(p)' = Applied(p) /\ locks'[p] = locks[p]
  BY <1>1 DEF HandleCommit, Applied, TypeOK, Log!TypeOK
<1>5. /\ e.op = "acquire" => locks'[n] = locks[n] \cup {e.lock}
      /\ e.op = "release" => locks'[n] = locks[n] \ {e.lock}
  BY DEF HandleCommit, Applied, TypeOK
<1>6. \A i \in 1..(a + 1) : i \in 1..a \/ i = a + 1
  BY <1>1
<1>7. 1..a \subseteq 1..(a + 1) /\ a + 1 \in 1..(a + 1)
      /\ 1..a \subseteq 1..Len(order) /\ a + 1 \notin 1..a
  BY <1>1
<1>8. ASSUME NEW l \in LockId
      PROVE  l \in locks'[n] <=>
               /\ \E i \in 1..(a + 1) : order[i] = Acquired(l)
               /\ \A j \in 1..(a + 1) : ~IsRelease(order[j], l)
  <2>1. l \in locks[n] <=>
          /\ \E i \in 1..a : order[i] = Acquired(l)
          /\ \A j \in 1..a : ~IsRelease(order[j], l)
    BY DEF LocksFromLog
  <2>2. CASE e = Acquired(l)
    <3>1. e.lock = l /\ e.op = "acquire"
      BY <2>2 DEF Acquired
    <3>2. \A j \in 1..a : ~IsRelease(order[j], l)
      <4> SUFFICES ASSUME NEW j \in 1..a, IsRelease(order[j], l)
                   PROVE  FALSE
        OBVIOUS
      <4>1. PICK i \in 1..(j - 1) : order[i] = Acquired(l)
        BY <1>7 DEF ReleasesFollow
      <4>2. i \in 1..Len(order) /\ i # a + 1
        BY <1>1
      <4> QED
        BY <1>1, <2>2, <4>1, <4>2 DEF EntriesOnce
    <3>3. ~IsRelease(e, l)
      BY <3>1 DEF IsRelease
    <3> QED
      BY <1>5, <1>6, <1>7, <2>2, <3>1, <3>2, <3>3
  <2>3. CASE IsRelease(e, l)
    BY <1>5, <1>7, <2>3 DEF IsRelease
  <2>4. CASE e # Acquired(l) /\ ~IsRelease(e, l)
    <3>1. e.lock # l
      BY <1>2, <2>4 DEF IsRelease
    <3>2. l \in locks'[n] <=> l \in locks[n]
      BY <1>2, <1>5, <3>1
    <3> QED
      BY <1>6, <1>7, <2>1, <2>4, <3>2
  <2> QED
    BY <2>2, <2>3, <2>4
<1>9. LocksFromLog'
  <2> SUFFICES ASSUME NEW p \in Node, NEW l \in LockId
               PROVE  l \in locks'[p] <=>
                        /\ \E i \in 1..Applied(p)' : order[i] = Acquired(l)
                        /\ \A j \in 1..Applied(p)' : ~IsRelease(order[j], l)
    BY <1>1 DEF LocksFromLog, IsRelease, Acquired
  <2>1. CASE p = n
    BY <1>3, <1>8, <2>1
  <2>2. CASE p # n
    BY <1>4, <2>2 DEF LocksFromLog
  <2> QED
    BY <2>1, <2>2
<1>10. AppliedAppended'
  BY <1>1, <1>3, <1>4 DEF AppliedAppended
<1>11. EntriesOnce' /\ AcquiresCalled' /\ ReleasesFollow' /\ LooksClear'
  BY <1>1 DEF EntriesOnce, AcquiresCalled, ReleasesFollow, LooksClear, Acquired,
              IsRelease, Exclude, ConflictsWith
<1> QED
  BY <1>9, <1>10, <1>11 DEF LogInv

-----------------------------------------------------------------------------
\* At the start there are no locks, no calls and no entries.
LEMMA LockInvInit == Init => LockInv
<1> SUFFICES ASSUME Init
             PROVE  LockInv
  OBVIOUS
<1>1. order = <<>> /\ Len(order) = 0 /\ \A n \in Node : delivered[n] = <<>>
  BY DEF Init, Log!Init
<1>2. TypeOK
  BY DEF Init, Log!Init, TypeOK, Log!TypeOK
<1>3. LocksFromLog
  BY <1>1 DEF Init, LocksFromLog, Applied
<1>4. AppliedAppended /\ EntriesOnce /\ AcquiresCalled /\ ReleasesFollow /\ LooksClear
  BY <1>1 DEF AppliedAppended, EntriesOnce, AcquiresCalled, ReleasesFollow,
              LooksClear, Applied
<1> QED
  BY <1>2, <1>3, <1>4 DEF LockInv

\* Every operation of the lock manager keeps the invariant.
LEMMA LockInvStep == LockInv /\ [Next]_vars => LockInv'
<1> SUFFICES ASSUME LockInv, [Next]_vars
             PROVE  LogInv'
  BY TypeStep DEF LogInv, LockInv
<1> USE DEF LockInv
<1>1. call' \in [LockId -> Call \cup {NoCall}]
  BY TypeStep DEF TypeOK
<1>2. ASSUME UNCHANGED <<order, delivered, locks, call>>
      PROVE  LogInv'
  BY <1>2, CallsStep
<1>3. ASSUME NEW l \in LockId, NEW n \in Node, NEW c \in Client,
             NEW r \in Resource, NEW t \in LockType
      PROVE  /\ AcquireFree(l, n, c, r, t) => LogInv'
             /\ AcquireRefused(l, n, c, r, t) => LogInv'
             /\ AcquireBusy(l, n, c, r, t) => LogInv'
  <2>1. CASE AcquireFree(l, n, c, r, t)
    <3> DEFINE d == [phase |-> "proposed", at |-> n, owner |-> c, resource |-> r,
                     type |-> t, seen |-> Len(delivered[n])]
    <3>1. call' = [call EXCEPT ![l] = d] /\ n = leader
      BY <2>1 DEF AcquireFree, Begin
    <3>2. d \in Call /\ d.resource = r /\ d.type = t /\ d.seen = Applied(n)
      BY DEF Call, Applied, TypeOK, Log!TypeOK
    <3> HIDE DEF d
    <3> QED
      BY <2>1, <3>1, <3>2, AcquireStep DEF AcquireFree
  <2>2. ASSUME NEW phase, Begin(l, n, c, r, t, phase),
               UNCHANGED <<order, delivered, locks>>
        PROVE  LogInv'
    <3>1. call[l] \notin Call
      BY <2>2, NoCallIsNoCall DEF Begin
    <3>2. \A k \in LockId : k # l => call'[k] = call[k]
      BY <2>2 DEF Begin, TypeOK
    <3> QED
      BY <2>2, <3>1, <3>2, CallsStep
  <2>3. AcquireRefused(l, n, c, r, t) => LogInv'
    BY <2>2 DEF AcquireRefused, logVars
  <2>4. AcquireBusy(l, n, c, r, t) => LogInv'
    BY <2>2 DEF AcquireBusy, logVars
  <2> QED
    BY <2>1, <2>3, <2>4
<1>4. ASSUME NEW l \in LockId, Retry(l)
      PROVE  LogInv'
  <2> DEFINE d == [call[l] EXCEPT !.phase = "retried", !.seen = Len(delivered[leader])]
  <2>1. call[l] \in Call /\ leader \in Node
    BY <1>4, AcquireEffect, ProposeEffect DEF Retry, TypeOK, NoCall
  <2>2. Len(delivered[leader]) \in Nat
    BY <2>1 DEF TypeOK, Log!TypeOK
  <2>3. d \in Call /\ d.resource = call[l].resource /\ d.type = call[l].type
        /\ d.seen = Applied(leader)
    BY <2>1, <2>2 DEF Call, Applied
  <2>4. call' = [call EXCEPT ![l] = d]
    BY <1>4 DEF Retry, TypeOK
  <2> HIDE DEF d
  <2> QED
    BY <1>4, <2>3, <2>4, AcquireStep DEF Retry
<1>5. ASSUME NEW l \in LockId, NEW phase,
             call' = [call EXCEPT ![l].phase = phase], call[l].phase # "idle",
             UNCHANGED <<order, delivered, locks>>
      PROVE  LogInv'
  <2>1. call[l] \in Call /\ NoCall.phase = "idle"
    BY <1>5 DEF TypeOK, NoCall
  <2>2. call'[l] = [call[l] EXCEPT !.phase = phase]
        /\ \A k \in LockId : k # l => call'[k] = call[k]
    BY <1>5 DEF TypeOK
  <2>3. call'[l] \in Call
    <3>1. call'[l].at = call[l].at
      BY <2>1, <2>2 DEF Call
    <3>2. call'[l] # NoCall
      <4>1. DOMAIN call'[l] = DOMAIN call[l]
        BY <2>2
      <4>2. "at" \in DOMAIN call[l] /\ "at" \notin DOMAIN NoCall
        BY <2>1 DEF Call, NoCall
      <4> QED
        BY <4>1, <4>2
    <3> QED
      BY <1>1, <3>2
  <2> QED
    BY <1>5, <2>2, <2>3, CallsStep
<1>6. CASE \E n \in Node : Elect(n) \/ HandleCommit(n) \/ Restart(n)
  BY <1>2, <1>6, CommitStep, RestartStep DEF Elect, Log!Elect
<1>7. CASE \E l \in LockId, n \in Node, c \in Client, r \in Resource, t \in LockType :
             \/ AcquireFree(l, n, c, r, t)
             \/ AcquireRefused(l, n, c, r, t)
             \/ AcquireBusy(l, n, c, r, t)
  BY <1>3, <1>7
<1>8. CASE \E l \in LockId : Retry(l) \/ GiveUp(l) \/ Return(l)
  BY <1>4, <1>5, <1>8 DEF GiveUp, Return, logVars
<1>9. CASE \E l \in LockId : Release(l)
  BY <1>9, ReleaseStep DEF Release
<1>10. CASE \E c \in Client : BreakDeadlock(c)
  BY <1>10, ReleaseStep DEF BreakDeadlock
<1>11. CASE UNCHANGED vars
  BY <1>2, <1>11 DEF vars
<1> QED
  BY <1>6, <1>7, <1>8, <1>9, <1>10, <1>11 DEF Next

\* The invariant of the lock managers holds throughout.
LEMMA LockInvHolds == Spec => []LockInv
BY LockInvInit, LockInvStep, PTL DEF Spec

-----------------------------------------------------------------------------
\* The tables of the lock manager and its calls keep their types.
THEOREM LockTypeCorrect == Spec => []TypeOK
<1>1. LockInv => TypeOK
  BY DEF LockInv
<1> QED
  BY <1>1, LockInvHolds, PTL

\* Two locks that exclude each other are never on one node unless the calls
\* raced: what acquire_lock looked at was older than the other's commit.
THEOREM ConflictsComeFromRaces == Spec => []ConflictsAreRaces
<1>1. LockInv => ConflictsAreRaces
  <2> SUFFICES ASSUME LockInv, NEW n \in Node, NEW l \in locks[n], NEW m \in locks[n],
                      NEW i \in 1..Len(order), NEW j \in 1..Len(order),
                      Exclude(l, m), i < j,
                      order[i] = Acquired(l), order[j] = Acquired(m),
                      ~(call[m].seen < i)
               PROVE  FALSE
    BY DEF ConflictsAreRaces
  <2> USE DEF LockInv
  <2>1. l \in LockId /\ m \in LockId
    BY DEF TypeOK
  <2>2. call[m].seen \in Nat /\ call[m].seen < j
    BY <2>1 DEF AcquiresCalled, Call
  <2>3. PICK k \in 1..call[m].seen : IsRelease(order[k], l)
    BY <2>1, <2>2 DEF LooksClear
  <2>4. Applied(n) \in Nat /\ Applied(n) <= Len(order)
    BY DEF AppliedAppended, Applied, TypeOK, Log!TypeOK
  <2>5. j <= Applied(n)
    <3>1. PICK h \in 1..Applied(n) : order[h] = Acquired(m)
      BY <2>1 DEF LocksFromLog
    <3>2. h \in 1..Len(order)
      BY <2>4, <3>1 DEF TypeOK, Log!TypeOK
    <3> QED
      BY <3>1, <3>2 DEF EntriesOnce
  <2>6. k \in 1..Applied(n)
    BY <2>2, <2>4, <2>5
  <2> QED
    BY <2>1, <2>3, <2>6 DEF LocksFromLog
<1> QED
  BY <1>1, LockInvHolds, PTL

\* Nodes that have applied the same entries hold the same locks.
THEOREM LocksAlwaysAgree == Spec => []LocksAgree
<1>1. LockInv => LocksAgree
  <2> SUFFICES ASSUME LockInv, NEW n \in Node, NEW p \in Node,
                      Applied(n) = Applied(p)
               PROVE  locks[n] = locks[p]
    BY DEF LocksAgree, Applied
  <2>1. locks[n] \subseteq LockId /\ locks[p] \subseteq LockId
    BY DEF LockInv, TypeOK
  <2>2. \A l \in LockId : l \in locks[n] <=> l \in locks[p]
    BY DEF LockInv, LocksFromLog
  <2> QED
    BY <2>1, <2>2
<1> QED
  BY <1>1, LockInvHolds, PTL

\* A client whose waits all ended well has no edge left in the wait-for graph,
\* and every edge leads to one who held what its client waited for.
THEOREM EdgesAlwaysTellWaits == Spec => []EdgesTellWaits
<1>1. Init => EdgesTellWaits
  BY DEF Init, EdgesTellWaits
<1>2. LockInv /\ EdgesTellWaits /\ [Next]_vars => EdgesTellWaits'
  <2> SUFFICES ASSUME LockInv, EdgesTellWaits, [Next]_vars,
                      NEW n \in Node, NEW e \in waitGraph'[n]
               PROVE  \E l, m \in LockId :
                        /\ call'[l].phase \in {"waiting", "retried", "failed"}
                        /\ call'[l].at = n /\ call'[l].owner = e[1]
                        /\ call'[m].resource = call'[l].resource
                        /\ call'[m].type = "exclusive" /\ call'[m].owner = e[2]
                        /\ \E i \in 1..Len(delivered'[n]) : order'[i] = Acquired(m)
    BY DEF EdgesTellWaits, Acquired
  <2> USE DEF LockInv
  <2> DEFINE Waits(l) == /\ call[l].phase \in {"waiting", "retried", "failed"}
                         /\ call[l].at = n /\ call[l].owner = e[1]
             Held(m) == /\ call[m].type = "exclusive" /\ call[m].owner = e[2]
                        /\ \E i \in 1..Applied(n) : order[i] = Acquired(m)
             Same(l) == /\ call'[l].at = call[l].at
                        /\ call'[l].owner = call[l].owner
                        /\ call'[l].resource = call[l].resource
                        /\ call'[l].type = call[l].type
             LogKept == \A i \in 1..Applied(n) :
                           i \in 1..Len(delivered'[n]) /\ order'[i] = order[i]
             Goal == \E l, m \in LockId :
                        /\ call'[l].phase \in {"waiting", "retried", "failed"}
                        /\ call'[l].at = n /\ call'[l].owner = e[1]
                        /\ call'[m].resource = call'[l].resource
                        /\ call'[m].type = "exclusive" /\ call'[m].owner = e[2]
                        /\ \E i \in 1..Len(delivered'[n]) : order'[i] = Acquired(m)
  \* An edge that was there stays explained by the calls it was explained by,
  \* unless the waiter's wait ends well.
  <2>1. ASSUME NEW l \in LockId, NEW m \in LockId, Waits(l), Held(m),
               call[m].resource = call[l].resource, Same(l), Same(m), LogKept,
               call'[l].phase \in {"waiting", "retried", "failed"}
        PROVE  Goal
    <3>1. PICK i \in 1..Applied(n) : order[i] = Acquired(m)
      BY <2>1
    <3>2. i \in 1..Len(delivered'[n]) /\ order'[i] = Acquired(m)
      BY <2>1, <3>1
    <3> QED
      BY <2>1, <3>2
  <2>2. ASSUME e \in waitGraph[n]
        PROVE  \E l, m \in LockId : /\ Waits(l) /\ Held(m)
                                    /\ call[m].resource = call[l].resource
    BY <2>2 DEF EdgesTellWaits, Applied
  <2>3. ASSUME e \in waitGraph[n], LogKept, \A l \in LockId : Same(l),
               \A l \in LockId :
                  Waits(l) => call'[l].phase \in {"waiting", "retried", "failed"}
        PROVE  Goal
    <3>1. PICK l \in LockId, m \in LockId : /\ Waits(l) /\ Held(m)
                                            /\ call[m].resource = call[l].resource
      BY <2>2, <2>3
    <3> QED
      BY <2>1, <2>3, <3>1
  <2>4. Applied(n) \in Nat /\ Len(order) \in Nat /\ Applied(n) <= Len(order)
    BY DEF TypeOK, Log!TypeOK, AppliedAppended, Applied
  <2>5. ASSUME UNCHANGED <<order, delivered>>
        PROVE  LogKept
    BY <2>5 DEF Applied
  <2>6. ASSUME NEW x, x \in Command, Log!Propose(x)
        PROVE  LogKept
    BY <2>4, <2>6, ProposeEffect DEF Applied
  <2>7. \A m \in LockId : Held(m) => call[m] \in Call
    BY <2>4 DEF AcquiresCalled
  \* A call that begins takes none of these calls' places.
  <2>8. ASSUME NEW k \in LockId, NEW p \in Node, NEW c \in Client,
               NEW r \in Resource, NEW t \in LockType, NEW phase,
               Begin(k, p, c, r, t, phase)
        PROVE  /\ \A l \in LockId : l # k => call'[l] = call[l]
               /\ \A l \in LockId : Waits(l) => l # k
               /\ \A m \in LockId : Held(m) => m # k
               /\ call'[k].phase = phase /\ call'[k].at = p
               /\ call'[k].owner = c /\ call'[k].resource = r
    <3>1. call[k] = NoCall /\ call[k].phase = "idle" /\ call[k] \notin Call
      BY <2>8, NoCallIsNoCall DEF Begin, NoCall
    <3>2. \A m \in LockId : Held(m) => m # k
      BY <2>7, <3>1
    <3>3. \A l \in LockId : Waits(l) => l # k
      BY <3>1
    <3>4. \A l \in LockId : l # k => call'[l] = call[l]
      BY <2>8 DEF Begin, TypeOK
    <3>5. call'[k].phase = phase /\ call'[k].at = p
          /\ call'[k].owner = c /\ call'[k].resource = r
      BY <2>8 DEF Begin, TypeOK
    <3> HIDE DEF Held, Waits
    <3> QED
      BY <3>2, <3>3, <3>4, <3>5
  <2>9. ASSUME NEW k \in LockId, NEW p \in Node, NEW c \in Client,
               NEW r \in Resource, NEW t \in LockType, NEW phase,
               Begin(k, p, c, r, t, phase), LogKept, e \in waitGraph[n]
        PROVE  Goal
    <3>1. PICK l \in LockId, m \in LockId : /\ Waits(l) /\ Held(m)
                                            /\ call[m].resource = call[l].resource
      BY <2>2, <2>9
    <3>2. call'[l] = call[l] /\ call'[m] = call[m]
      BY <2>8, <2>9, <3>1
    <3>3. Same(l) /\ Same(m) /\ call'[l].phase \in {"waiting", "retried", "failed"}
      BY <3>1, <3>2
    <3> HIDE DEF Held, Waits, Same, LogKept, Goal
    <3> QED
      BY <2>1, <2>9, <3>1, <3>3
  <2>10. ASSUME NEW k \in LockId, NEW p \in Node, NEW c \in Client,
                NEW r \in Resource, NEW t \in LockType
         PROVE  /\ AcquireFree(k, p, c, r, t) => Goal
                /\ AcquireRefused(k, p, c, r, t) => Goal
                /\ AcquireBusy(k, p, c, r, t) => Goal
    <3> HIDE DEF Goal, LogKept
    <3>1. CASE AcquireFree(k, p, c, r, t)
      <4>1. LogKept
        BY <2>6, <3>1, AcquireEffect DEF AcquireFree
      <4>2. e \in waitGraph[n] /\ Begin(k, p, c, r, t, "proposed")
        BY <3>1 DEF AcquireFree
      <4> QED
        BY <2>9, <4>1, <4>2
    <3>2. CASE AcquireRefused(k, p, c, r, t)
      <4>1. LogKept
        BY <2>5, <3>2 DEF AcquireRefused, logVars
      <4>2. e \in waitGraph[n] /\ Begin(k, p, c, r, t, "refused")
        BY <3>2 DEF AcquireRefused
      <4> QED
        BY <2>9, <4>1, <4>2
    <3>3. CASE AcquireBusy(k, p, c, r, t)
      <4>1. LogKept /\ Begin(k, p, c, r, t, "waiting")
        BY <2>5, <3>3 DEF AcquireBusy, logVars
      <4>2. CASE e \in waitGraph[n]
        BY <2>9, <4>1, <4>2
      <4>3. CASE e \notin waitGraph[n]
        <5>1. n = p /\ e \in EdgesToHolder(n, c, r)
          BY <3>3, <4>3 DEF AcquireBusy, TypeOK
        <5>2. e[1] = c
          BY <5>1, EdgeLeads
        <5>3. PICK m \in LockId : /\ call[m].resource = r
                                  /\ call[m].type = "exclusive"
                                  /\ call[m].owner = e[2]
                                  /\ \E i \in 1..Applied(n) : order[i] = Acquired(m)
          BY <5>1, EdgeLeads
        <5>4. PICK i \in 1..Applied(n) : order[i] = Acquired(m)
          BY <5>3
        <5>5. call'[m] = call[m]
          BY <2>8, <4>1, <5>3
        <5>6. /\ call'[k].phase = "waiting" /\ call'[k].at = n
              /\ call'[k].owner = e[1] /\ call'[k].resource = r
          BY <2>8, <4>1, <5>1, <5>2
        <5>7. i \in 1..Len(delivered'[n]) /\ order'[i] = Acquired(m)
          BY <4>1, <5>4 DEF LogKept
        <5> QED
          BY <5>3, <5>5, <5>6, <5>7 DEF Goal
      <4> QED
        BY <4>2, <4>3
    <3> QED
      BY <3>1, <3>2, <3>3
  <2>11. ASSUME NEW k \in LockId, Retry(k) \/ GiveUp(k)
         PROVE  Goal
    <3>1. LogKept
      BY <2>5, <2>6, <2>11, AcquireEffect DEF Retry, GiveUp, logVars
    <3>2. call[k].phase = "waiting" /\ waitGraph' = waitGraph
      BY <2>11 DEF Retry, GiveUp
    <3>3. \A l \in LockId : Same(l) /\ (l # k => call'[l] = call[l])
      BY <2>11, <3>2 DEF Retry, GiveUp, TypeOK, NoCall, Call
    <3>4. call'[k].phase \in {"retried", "failed"}
      BY <2>11, <3>2 DEF Retry, GiveUp, TypeOK, NoCall, Call
    <3>5. \A l \in LockId :
             Waits(l) => call'[l].phase \in {"waiting", "retried", "failed"}
      BY <3>3, <3>4
    <3> HIDE DEF Waits, Same, LogKept, Goal
    <3> QED
      BY <2>3, <3>1, <3>2, <3>3, <3>5
  <2>12. ASSUME NEW k \in LockId, Return(k)
         PROVE  Goal
    <3>1. \A l \in LockId : l # k => call'[l] = call[l]
      BY <2>12 DEF Return, TypeOK
    <3>2. e \in waitGraph[n]
      BY <2>12 DEF Return, TypeOK, WithoutEdges
    <3>3. PICK l \in LockId, m \in LockId : /\ Waits(l) /\ Held(m)
                                            /\ call[m].resource = call[l].resource
      BY <2>2, <3>2
    <3>4. l # k
      <4> SUFFICES ASSUME l = k
                   PROVE  FALSE
        OBVIOUS
      <4>1. call[k].phase = "retried" /\ call[k].at = n /\ call[k].owner = e[1]
        BY <2>12, <3>3 DEF Return
      <4>2. waitGraph'[n] = WithoutEdges(waitGraph[n], call[k].owner)
        BY <2>12, <4>1 DEF Return, TypeOK
      <4> QED
        BY <4>1, <4>2 DEF WithoutEdges
    <3>5. LogKept
      BY <2>5, <2>12 DEF Return, logVars
    <3>6. Same(m)
      <4>1. call[m] \in Call
        BY <2>7, <3>3
      <4>2. call'[m] = IF m = k THEN [call[m] EXCEPT !.phase = "granted"]
                       ELSE call[m]
        BY <2>12 DEF Return, TypeOK
      <4> QED
        BY <4>1, <4>2 DEF Call
    <3>7. Same(l) /\ call'[l].phase \in {"waiting", "retried", "failed"}
      BY <3>1, <3>3, <3>4
    <3> HIDE DEF Waits, Held, Same, LogKept, Goal
    <3> QED
      BY <2>1, <3>3, <3>5, <3>6, <3>7
  <2>13. ASSUME e \in waitGraph[n], LogKept, UNCHANGED call
         PROVE  Goal
    <3>1. \A l \in LockId : Same(l)
      BY <2>13
    <3>2. \A l \in LockId :
             Waits(l) => call'[l].phase \in {"waiting", "retried", "failed"}
      BY <2>13
    <3> HIDE DEF Waits, Same, LogKept, Goal
    <3> QED
      BY <2>3, <2>13, <3>1, <3>2
  <2>14. ASSUME NEW l, AppendRelease(l), UNCHANGED <<waitGraph, call>>
         PROVE  Goal
    <3>1. LogKept
      BY <2>6, <2>14, ReleaseEffect
    <3> HIDE DEF LogKept, Goal
    <3> QED
      BY <2>13, <2>14, <3>1
  <2>15. ASSUME NEW p \in Node, Elect(p) \/ HandleCommit(p)
         PROVE  Goal
    <3>1. UNCHANGED <<waitGraph, call, order>>
      BY <2>15 DEF Elect, HandleCommit, Log!Elect, Log!Deliver
    <3>2. LogKept
      <4>1. CASE Elect(p)
        BY <2>5, <4>1 DEF Elect, Log!Elect
      <4>2. CASE HandleCommit(p)
        <5>1. Applied(n) <= Len(delivered'[n]) /\ Len(delivered'[n]) \in Nat
          <6>1. CASE n # p
            <7>1. delivered'[n] = delivered[n]
              BY <4>2, <6>1 DEF HandleCommit, Log!Deliver, TypeOK, Log!TypeOK
            <7> QED
              BY <2>4, <7>1 DEF Applied
          <6>2. CASE n = p
            <7>1. Len(delivered'[n]) = Applied(n) + 1
              <8> DEFINE i == Applied(n) + 1
              <8>1. i \in Nat /\ i <= Len(order)
                BY <2>4, <4>2, <6>2 DEF HandleCommit, Applied
              <8>2. delivered'[n] = SubSeq(order, 1, i)
                BY <4>2, <6>2 DEF HandleCommit, Log!Deliver, TypeOK, Log!TypeOK, Applied
              <8> HIDE DEF i
              <8>3. Len(SubSeq(order, 1, i)) = i
                BY <2>4, <8>1 DEF TypeOK, Log!TypeOK
              <8> QED
                BY <8>2, <8>3 DEF i
            <7> QED
              BY <2>4, <7>1
          <6> QED
            BY <6>1, <6>2
        <5> QED
          BY <2>4, <3>1, <5>1
      <4> QED
        BY <2>15, <4>1, <4>2
    <3> HIDE DEF LogKept, Goal
    <3> QED
      BY <2>13, <3>1, <3>2
  <2>16. ASSUME NEW p \in Node, Restart(p)
         PROVE  Goal
    <3>1. n # p /\ e \in waitGraph[n]
      BY <2>16 DEF Restart, TypeOK
    <3>2. LogKept
      <4>1. order' = order /\ delivered'[n] = delivered[n]
        BY <2>16, <3>1 DEF Restart, Log!Rejoin, TypeOK, Log!TypeOK
      <4> QED
        BY <4>1 DEF Applied
    <3>3. PICK l \in LockId, m \in LockId : /\ Waits(l) /\ Held(m)
                                            /\ call[m].resource = call[l].resource
      BY <2>2, <3>1
    <3>4. call'[l] = call[l]
      BY <2>16, <3>1, <3>3 DEF Restart
    <3>5. call[m] \in Call /\ call'[m] \in {call[m], [call[m] EXCEPT !.phase = "lost"]}
      BY <2>7, <2>16, <3>3 DEF Restart
    <3>6. Same(m)
      BY <3>5 DEF Call
    <3>7. Same(l) /\ call'[l].phase \in {"waiting", "retried", "failed"}
      BY <3>3, <3>4
    <3> HIDE DEF Waits, Held, Same, LogKept, Goal
    <3> QED
      BY <2>1, <3>2, <3>3, <3>6, <3>7
  <2> SUFFICES Goal
    OBVIOUS
  <2> HIDE DEF Waits, Held, Same, LogKept, Goal
  <2>17. CASE \E l \in LockId, p \in Node, c \in Client, r \in Resource, t \in LockType :
                \/ AcquireFree(l, p, c, r, t)
                \/ AcquireRefused(l, p, c, r, t)
                \/ AcquireBusy(l, p, c, r, t)
    BY <2>10, <2>17
  <2>18. CASE \E l \in LockId : Retry(l) \/ GiveUp(l) \/ Return(l)
    BY <2>11, <2>12, <2>18
  <2>19. CASE (\E l \in LockId : Release(l)) \/ (\E c \in Client : BreakDeadlock(c))
    BY <2>14, <2>19 DEF Release, BreakDeadlock
  <2>20. CASE UNCHANGED vars
    <3>1. LogKept
      BY <2>5, <2>20 DEF vars
    <3> QED
      BY <2>13, <2>20, <3>1 DEF vars
  <2>21. CASE \E p \in Node : Elect(p) \/ HandleCommit(p) \/ Restart(p)
    BY <2>15, <2>16, <2>21
  <2> QED
    BY <2>17, <2>18, <2>19, <2>20, <2>21 DEF Next
<1> QED
  BY <1>1, <1>2, LockInvHolds, PTL DEF Spec
=============================================================================
