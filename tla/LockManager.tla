----------------------------- MODULE LockManager -----------------------------
(***************************************************************************)
(* DistributedLockManager of src/src/services/lock_manager.py on every     *)
(* node of a cluster, over the log that Raft with one leader provides      *)
(* (ReplicatedLog).                                                        *)
(*                                                                         *)
(* A lock identifier stands for the acquire_lock call that makes it up.    *)
(* Looking at the locks and appending the entry is one step, for nothing   *)
(* between the two awaits; the commit of the entry is another.             *)
(***************************************************************************)
EXTENDS Naturals, Sequences, FiniteSets

CONSTANTS
    Node, Nil,
    Client, Resource,
    LockId,         \* one for each call of acquire_lock
    MaxReleases     \* bound: how often one lock is released

ASSUME LockAssumption == Nil \notin Node /\ MaxReleases \in Nat

VARIABLES
    leader, order, delivered,   \* of ReplicatedLog
    locks,      \* per node, the locks it knows of
    lockQueue,  \* per node, the calls in lock_queue
    waitGraph,  \* per node, the edges <<waiter, holder>>
    call        \* per call, its arguments and where it stands
logVars == <<leader, order, delivered>>
vars == <<leader, order, delivered, locks, lockQueue, waitGraph, call>>

LockType == {"shared", "exclusive"}

\* The entries.  Entries of one lock are told apart by the times it was released.
Acquired(l) == [op |-> "acquire", lock |-> l, release |-> 0]
Released(l, k) == [op |-> "release", lock |-> l, release |-> k]
Command ==
    {Acquired(l) : l \in LockId}
        \cup {Released(l, k) : l \in LockId, k \in 1..MaxReleases}

Log == INSTANCE ReplicatedLog WITH Cmd <- Command

\* "proposed" and "retried": the entry is appended, by the first attempt or by
\* the polling loop, and the call waits for the replication round to end.
\* "refused": append_entry has returned False at once.  "failed": the timeout is
\* over.  "lost": the process has died.
\* seen is a history variable: how many entries the node had applied when the
\* call found the resource free.
NoCall == [phase |-> "idle"]
Call ==
    [phase : {"proposed", "waiting", "retried", "granted", "refused", "failed", "lost"},
     at : Node, owner : Client, resource : Resource, type : LockType,
     seen : Nat]

TypeOK ==
    /\ Log!TypeOK
    /\ locks \in [Node -> SUBSET LockId]
    /\ lockQueue \in [Node -> SUBSET LockId]
    /\ waitGraph \in [Node -> SUBSET (Client \X Client)]
    /\ call \in [LockId -> Call \cup {NoCall}]

Init ==
    /\ Log!Init
    /\ locks = [n \in Node |-> {}]
    /\ lockQueue = [n \in Node |-> {}]
    /\ waitGraph = [n \in Node |-> {}]
    /\ call = [l \in LockId |-> NoCall]

-----------------------------------------------------------------------------
\* Helpers

\* Variant: shared locks do not keep an exclusive one out.
ConflictsOneWay(r, t, m) ==
    call[m].resource = r /\ call[m].type = "exclusive"

\* Lock m keeps a lock of type t on r from being acquired.
ConflictsWith(r, t, m) ==
    call[m].resource = r /\ (t = "exclusive" \/ call[m].type = "exclusive")

TryAcquire(n, r, t) == \A m \in locks[n] : ~ConflictsWith(r, t, m)

\* locks is a dictionary: it is enumerated in the order of the commits.
Position(l) == CHOOSE i \in 1..Len(order) : order[i] = Acquired(l)
First(S) == CHOOSE l \in S : \A m \in S : Position(l) <= Position(m)

\* Variant: the edge leads to the lock, not to its owner.
EdgesToLock(n, c, r) ==
    LET exclusive == {m \in locks[n] : /\ call[m].resource = r
                                       /\ call[m].type = "exclusive"}
    IN IF exclusive = {} THEN {} ELSE {<<c, First(exclusive)>>}

\* Variant: the edge leads to any holder of r.
EdgesToAnyHolder(n, c, r) ==
    LET held == {m \in locks[n] : call[m].resource = r}
    IN IF held = {} THEN {} ELSE {<<c, call[First(held)].owner>>}

\* The edge to the holder of r, for which only an exclusive lock counts.
EdgesToHolder(n, c, r) ==
    LET exclusive == {m \in locks[n] : /\ call[m].resource = r
                                       /\ call[m].type = "exclusive"}
    IN IF exclusive = {} THEN {} ELSE {<<c, call[First(exclusive)].owner>>}

\* remove_edges also drops the edges of others to the client.
WithoutEdges(g, c) == {e \in g : e[1] # c /\ e[2] # c}

\* A set of clients each of which waits for a member.
Cyclic(g, S) == \A c \in S : \E d \in S : <<c, d>> \in g
\* The clients from which the search of detect_cycle may meet a cycle.
CycleRoots(g) == UNION {S \in SUBSET Client : Cyclic(g, S)}

-----------------------------------------------------------------------------
\* acquire_lock

\* The arguments of a call that begins at node n.
Begin(l, n, c, r, t, phase) ==
    /\ call[l] = NoCall
    /\ call' = [call EXCEPT ![l] =
                  [phase |-> phase, at |-> n, owner |-> c, resource |-> r,
                   type |-> t, seen |-> Len(delivered[n])]]

\* The resource is free: the entry is appended.
AcquireFree(l, n, c, r, t) ==
    /\ TryAcquire(n, r, t)
    /\ n = leader
    /\ Begin(l, n, c, r, t, "proposed")
    /\ Log!Propose(Acquired(l))
    /\ UNCHANGED <<locks, lockQueue, waitGraph>>

\* The resource is free, but append_entry returns False: the node does not lead,
\* or it is the leader and has stepped down for a while.
AcquireRefused(l, n, c, r, t) ==
    /\ TryAcquire(n, r, t)
    /\ Begin(l, n, c, r, t, "refused")
    /\ UNCHANGED <<logVars, locks, lockQueue, waitGraph>>

\* The resource is taken: the call begins to poll.
AcquireBusy(l, n, c, r, t) ==
    /\ ~TryAcquire(n, r, t)
    /\ Begin(l, n, c, r, t, "waiting")
    /\ lockQueue' = [lockQueue EXCEPT ![n] = @ \cup {l}]
    /\ waitGraph' = [waitGraph EXCEPT ![n] = @ \cup EdgesToHolder(n, c, r)]
    /\ UNCHANGED <<logVars, locks>>

\* A poll finds the resource free and appends the entry.  A poll that is refused
\* by append_entry changes nothing.
Retry(l) ==
    /\ call[l].phase = "waiting"
    /\ TryAcquire(call[l].at, call[l].resource, call[l].type)
    /\ call[l].at = leader
    /\ call' = [call EXCEPT ![l].phase = "retried",
                            ![l].seen = Len(delivered[leader])]
    /\ Log!Propose(Acquired(l))
    /\ UNCHANGED <<locks, lockQueue, waitGraph>>

\* Variant: only a poll that finds the resource taken looks at the clock.
GiveUpWhenTaken(l) ==
    /\ call[l].phase = "waiting"
    /\ ~TryAcquire(call[l].at, call[l].resource, call[l].type)
    /\ call' = [call EXCEPT ![l].phase = "failed"]
    /\ UNCHANGED <<logVars, locks, lockQueue, waitGraph>>

\* The timeout is over, after a poll that found the resource taken or was refused.
\* The edges and the queue entry stay.
GiveUp(l) ==
    /\ call[l].phase = "waiting"
    /\ call' = [call EXCEPT ![l].phase = "failed"]
    /\ UNCHANGED <<logVars, locks, lockQueue, waitGraph>>

\* Variant: the edges of a call that had to wait are kept.
ReturnKeepingEdges(l) ==
    /\ call[l].phase \in {"proposed", "retried"}
    /\ call' = [call EXCEPT ![l].phase = "granted"]
    /\ UNCHANGED <<logVars, locks, lockQueue, waitGraph>>

\* append_entry has returned, with or without a commit of the entry.
Return(l) ==
    LET n == call[l].at IN
    /\ call[l].phase \in {"proposed", "retried"}
    /\ call' = [call EXCEPT ![l].phase = "granted"]
    /\ waitGraph' =
         [waitGraph EXCEPT ![n] =
            IF call[l].phase = "retried" THEN WithoutEdges(@, call[l].owner)
            ELSE @]
    /\ UNCHANGED <<logVars, locks, lockQueue>>

-----------------------------------------------------------------------------
\* release_lock, _deadlock_detection_loop, _handle_commit

\* Only the leader can append, and only for a lock it knows.
AppendRelease(l) ==
    LET k == 1 + Cardinality({i \in DOMAIN order : /\ order[i].op = "release"
                                                   /\ order[i].lock = l})
    IN
    /\ leader # Nil
    /\ l \in locks[leader]
    /\ k <= MaxReleases
    /\ Log!Propose(Released(l, k))

\* Variant: the lock is dropped before the entry is committed.
ReleaseAtOnce(l) ==
    /\ AppendRelease(l)
    /\ locks' = [locks EXCEPT ![leader] = @ \ {l}]
    /\ UNCHANGED <<lockQueue, waitGraph, call>>

\* Whoever knows the identifier gives the lock back, its owner or not, at any time
\* after the leader has applied it.  A call that append_entry refuses changes
\* nothing.
Release(l) ==
    /\ AppendRelease(l)
    /\ UNCHANGED <<locks, lockQueue, waitGraph, call>>

\* A round of the detection loop on the leader that finds a cycle.  The victim
\* is the client at which the search began; its first lock is released.
BreakDeadlock(victim) ==
    LET held == {l \in locks[leader] : call[l].owner = victim} IN
    /\ leader # Nil
    /\ victim \in CycleRoots(waitGraph[leader])
    /\ held # {}
    /\ AppendRelease(First(held))
    /\ UNCHANGED <<locks, lockQueue, waitGraph, call>>

\* Node n applies its next entry.
HandleCommit(n) ==
    LET i == Len(delivered[n]) + 1
        l == order[i].lock
    IN
    /\ i <= Len(order)
    /\ Log!Deliver(n, i)
    /\ \/ /\ order[i].op = "acquire"
          /\ locks' = [locks EXCEPT ![n] = @ \cup {l}]
          /\ lockQueue' = [lockQueue EXCEPT ![n] = @ \ {l}]
       \/ /\ order[i].op = "release"
          /\ locks' = [locks EXCEPT ![n] = @ \ {l}]
          /\ UNCHANGED lockQueue
    /\ UNCHANGED <<waitGraph, call>>

-----------------------------------------------------------------------------
Elect(n) == Log!Elect(n) /\ UNCHANGED <<locks, lockQueue, waitGraph, call>>

\* The process of a follower dies and a new one begins with empty tables.  The
\* callers it was serving get no answer.
Restart(n) ==
    /\ Log!Rejoin(n)
    /\ locks' = [locks EXCEPT ![n] = {}]
    /\ lockQueue' = [lockQueue EXCEPT ![n] = {}]
    /\ waitGraph' = [waitGraph EXCEPT ![n] = {}]
    /\ call' = [l \in LockId |->
                  IF /\ call[l].phase \in {"proposed", "waiting", "retried"}
                     /\ call[l].at = n
                  THEN [call[l] EXCEPT !.phase = "lost"] ELSE call[l]]

Next ==
    \/ \E n \in Node : Elect(n) \/ HandleCommit(n) \/ Restart(n)
    \/ \E l \in LockId, n \in Node, c \in Client, r \in Resource, t \in LockType :
          \/ AcquireFree(l, n, c, r, t)
          \/ AcquireRefused(l, n, c, r, t)
          \/ AcquireBusy(l, n, c, r, t)
    \/ \E l \in LockId : Retry(l) \/ GiveUp(l) \/ Return(l) \/ Release(l)
    \/ \E c \in Client : BreakDeadlock(c)

Spec == Init /\ [][Next]_vars

\* A polling loop goes round and has a timeout, a replication round ends.
Fairness ==
    \A l \in LockId : WF_vars(Retry(l) \/ GiveUp(l)) /\ WF_vars(Return(l))

FairSpec == Spec /\ Fairness

-----------------------------------------------------------------------------
\* Properties

\* Two locks that exclude each other.
Exclude(l, m) ==
    l # m /\ ConflictsWith(call[l].resource, call[l].type, m)

\* On no node two clients hold locks that exclude each other.
MutualExclusion ==
    \A n \in Node : \A l, m \in locks[n] :
        call[l].owner # call[m].owner => ~Exclude(l, m)

\* Locks that exclude each other come from a race only: the later of the two
\* calls found the resource free before its node had applied the entry of the
\* earlier.  A lock applied by the leader keeps every later call out, on all
\* nodes, until its release is applied (_try_acquire, _handle_commit).
ConflictsAreRaces ==
    \A n \in Node : \A l, m \in locks[n] :
        \A i, j \in 1..Len(order) :
            /\ Exclude(l, m) /\ i < j
            /\ order[i] = Acquired(l) /\ order[j] = Acquired(m)
            => call[m].seen < i

\* Nodes that have applied equally many entries know the same locks.
LocksAgree ==
    \A n, p \in Node :
        Len(delivered[n]) = Len(delivered[p]) => locks[n] = locks[p]

\* An edge tells of a wait: there is a call of its client at that node that still
\* waits or has timed out, and the edge leads to one who has held the same
\* resource exclusively, by an entry the node has applied.  It may name a holder
\* of the past, never one who only shared or asked; and a wait that ends well
\* leaves no edge, not those of the client's other calls either.
EdgesTellWaits ==
    \A n \in Node : \A e \in waitGraph[n] :
        \E l, m \in LockId :
            /\ call[l].phase \in {"waiting", "retried", "failed"}
            /\ call[l].at = n /\ call[l].owner = e[1]
            /\ call[m].resource = call[l].resource
            /\ call[m].type = "exclusive" /\ call[m].owner = e[2]
            /\ \E i \in 1..Len(delivered[n]) : order[i] = Acquired(m)

\* Every acquire_lock call returns or dies with its process: nothing a waiter
\* polls for, and no leadership, keeps it beyond its timeout.
AcquireReturns ==
    \A l \in LockId :
        call[l].phase \in {"proposed", "waiting", "retried"}
            ~> call[l].phase \in {"granted", "failed", "lost"}
=============================================================================
