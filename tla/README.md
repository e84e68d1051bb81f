# Specifications of the Distributed Synchronization System

TLA+ models, TLC configurations and TLAPS proofs for the Python program in
`src/` (package `src.src`). Paths below are relative to `src/src/` unless they
start with `src/`.

## The system

Every node of the cluster (four in `src/docker/docker-compose.yml`) is one
asyncio process that serves an HTTP API. Code between two `await`s that really
suspend runs without interruption; everything that can go wrong goes wrong
across those awaits, across nodes, and across process restarts.

| Component | State | Operations | Interacts with |
|---|---|---|---|
| Raft consensus, `protocols/raft.py` | term, vote, log, commit and apply indices, role, per-peer indices, two timers, `_election_in_progress` | election timer, `_start_election`, `_become_*`, heartbeat loop, `append_entry`, handlers of vote and append requests and of their replies | peers over HTTP; calls `on_commit` of the three services |
| Election processor and HTTP app, `app.py` | none of its own | `_raft_message_processor` polls for candidates; one handler per API operation | calls every component |
| Lock manager, `services/lock_manager.py` | `locks`, `lock_queue`, wait-for graph | acquire (with polling wait), release, deadlock detection loop, commit handler | `append_entry`, `on_commit` |
| Queue, `services/queue_service.py` | partitions, acks, pending messages, hash ring, Redis hash | publish, consume, acknowledge, recover, persist and delete tasks, commit handler | `append_entry`, `on_commit`, Redis |
| Cache, `services/cache_service.py` | blocks, LRU times | get, put, evict, invalidate, commit handler | `append_entry`, `on_commit` |
| Hash ring, `services/queue_service.py` | ring, sorted keys, nodes | add, remove, look up | called by the queue |
| PBFT coordinator, `bonus/features.py` | request log | `submit_request` (a simulator: no messages) | none |
| Audit log, `bonus/features.py` | log file, hash file, list | record, verify | file system |
| Geo router, load balancer, encryption and roles, `bonus/features.py` | small tables | pure or sequential | none |
| Configuration and types, `core/` | data | none | all |

What makes each one correct, and what is hard about it:

* **Raft.** One vote per node and term, one leader per term, logs that agree
  up to their last common entry, the same entries applied in the same order
  everywhere, commits only with a quorum, elections that end, and nodes that are
  never left with nothing to wake them. Hard: the reply that arrives after its
  candidate has moved on; requests that arrive after their caller has given up;
  append requests to one peer that overtake each other; a flag
  (`_election_in_progress`) set and reset by three different tasks; a restart
  that forgets what the comments call persistent state.
* **Locks.** No two owners of an exclusive lock on any node; every wait edge is a
  wait; a deadlock victim is part of a deadlock; a waiter gets the lock or times
  out. Hard: check-then-append across an await, acquisition before commit, stale
  edges.
* **Queue.** A published message is delivered until acknowledged, and stays in
  Redis until then, through restarts. Hard: commands to Redis out of order or
  failing, recovery racing the replay of the log.
* **Hash ring.** Replicas are distinct and near their key; a change of one server
  moves only keys of that server. Hard: the end of the circle.
* **Cache.** A node serves the value its log says was put last. Hard: `put` stores
  its block after three appends, and an invalidation deletes one after an await.
* **Audit log.** The hash covers what the log holds. Hard: a crash between the two
  files, and processes of one host that share them.

`PROJECT.json` lists each hazard at its line with the property that watches it.

## Modules

| Module | Stands for |
|---|---|
| `Raft` | `RaftNode` with the election processor of `app.py`, the HTTP network and process restarts |
| `ReplicatedLog` | what Raft with one leader promises to `on_commit` callbacks |
| `RaftOneLeader` | `Raft` in which one node only is ever elected, and its refinement mapping to `ReplicatedLog` |
| `MCRaft` | instances of `Raft` for TLC |
| `RaftProofs` | theorems about `Raft`: types, elections, roles |
| `RaftLogProofs` | theorems about what the logs of `Raft` hold |
| `RaftOneLeaderProofs` | theorems about `RaftOneLeader`, the refinement among them |
| `LockManager` | `DistributedLockManager` on every node, over `Log == INSTANCE ReplicatedLog` |
| `WaitGraph` | `LockWaitGraph` of one node with the depth-first search as steps |
| `MCLockManager` | instances for TLC |
| `Queue` | `DistributedQueue` on every node with the Redis they share, over `ReplicatedLog` |
| `Cache` | `MOESICache` and `LRUEvictionPolicy` on every node, over `ReplicatedLog` |
| `AuditLog` | the audit chain of `BonusSecurityService` |
| `HashRing` | `ConsistentHashRing` |
| `MCQueue`, `MCCache`, `MCNodeLocal` | instances for TLC; the last composes `AuditLog`, `HashRing` and `WaitGraph`, which share nothing |
| `LockManagerProofs`, `WaitGraphProofs`, `QueueProofs`, `CacheProofs`, `NodeLocalProofs` | theorems about them; the last about `AuditLog`, `HashRing` and the three of `MCNodeLocal` together |

### State of `Raft`

Variables are named after the attributes of `RaftNode`. `applied[n]` is the
sequence of entries handed to callbacks (`last_applied` is its length minus one).
`timer[n]` says whether an `_election_timeout_handler` task is asleep;
`inProgress[n]` is `_election_in_progress`; `election[n]` is where the election
task stands (`starting` between the end of the synchronous part and the start of
the gathered tasks, `voting` while the gather waits); `granted[n]` holds the peers
whose request of that election has returned True; `pendingSend` holds the calls of
`append_entry` that have appended and not yet built their requests. Requests and
replies are records in four sets; `live` is true while the caller still waits.
`ballots` and `elected` are history variables the properties talk about.

### Actions of `Raft`

| Action | Code |
|---|---|
| `ElectionTimeout`, `ElectionTimerLapses` | `_election_timeout_handler` |
| `StartElection` | `_raft_message_processor` finds a candidate and calls `_start_election` |
| `RequestVotes` | the gathered `_request_vote_from_peer` tasks start |
| `HandleRequestVote` | `handle_message`, `_handle_request_vote` |
| `HandleVoteReply`, `RequestVoteTimeout`, `VoteReplyLost` | the ways `_request_vote_from_peer` resumes |
| `BecomeLeader`, `ElectionFails` | the end of `_start_election` after the gather |
| `Heartbeat` | one round of `_heartbeat_loop` |
| `AppendEntry`, `SendAppendEntriesToAll` | `append_entry` before and after its tasks are scheduled |
| `HandleAppendEntries` | `handle_message`, `_handle_append_entries`, `_apply_committed_entries` |
| `HandleAppendSuccess`, `HandleAppendFailure`, `AppendEntriesTimeout`, `AppendReplyLost` | the ways `_send_append_entries` resumes, `_update_commit_index` included |
| `LoseRequest`, `Restart` | the network, and the death and new start of a process |

Points of the code the model keeps although they look odd:

* An election the timer starts cancels itself. `_start_election` calls
  `_reset_election_timer`, which cancels the timer task it is running in; the
  `gather` is then cancelled before a single vote request is sent. The node is
  left a candidate, and only `_raft_message_processor`, which polls every 0.1 s,
  starts an election that sends anything, in yet another term.
* `leader_id` is kept by `_start_election`.
* Votes are counted from return values; neither the term of a vote nor the term
  of the candidate is looked at again.
* `handle_message` compares terms only to raise its own: an append request of an
  older term is served like any other.
* `match_index` starts at 0, not -1, and `_update_commit_index` runs on every
  success, for whichever term the request was sent in.
* A refusal decrements `next_index` even when it made the leader step down.

Abstractions: requests to unreachable peers are refused at once (`reach`); two
identical dead requests are one element of a set; `Peers = {}`, the single-node
branch of `append_entry`, is excluded by `NodeAssumption` because
`core/config.py:75` never yields an empty peer list; `peers_connected` and
`on_state_changed` are left out (written only, and without subscribers); `index`
in an entry always equals its position; commands are opaque values. A timer that
is cancelled and created anew is one that stays armed.

`RequestOutlivesElection` says whether the election timer may fire while a vote
request of an election that the node has abandoned is still awaited. It may in the
shipped configuration (`request_timeout` 5.0 s against `election_timeout_min`
1.5 s, `core/config.py:12-14`). With FALSE the model is a deployment whose request
timeout is below the election timeout.

### What `ReplicatedLog` promises

`leader`, `order` (the commands in the order the leader appended them) and
`delivered[n]` (what node n's callbacks have seen). A step elects the first leader,
appends a command, hands a node a longer prefix of the order, where no other
node is ahead of the leader, or lets a follower die and begin again with nothing
(`Rejoin`). The services only see Raft through `append_entry` and `on_commit`, so
their models are built on this module. `RaftOneLeader` maps `Raft` to it by
`Abstract`: `OneLeaderSpec` is `Raft` with every step that elects a second node, or
that restarts the elected one, left out; all else may happen, the leader stepping
down and being elected again and followers restarting included. That it implements
`Abstract!Spec` is checked by a run and proved (`OneLeaderImplementsReplicatedLog`).
So the log under the services is one that `Raft` with one leader provides. They touch
it only through actions of `ReplicatedLog`; that is how their modules are written.
A second leader is outside of what it promises: `raft_diverges` shows that `Raft` then
promises nothing the services could use.

`append_entry` returns False (`protocols/raft.py:424-426`) at every node but the
leader, and at the leader while it has stepped down, which it may at any time. So
wherever a service appends, the model also has the refusal. In `Cache` it changes
blocks and is an action or a branch (`PutRefused`, `GetExpiredRefused`, the last
branch of `Store`); in `LockManager` it ends a first attempt (`AcquireRefused`, at any
node) and leaves a poll polling; in `Queue` a refused call changes nothing that the
model keeps and is a stutter. `append_entry` returning True promises no commit:
`Return`, `Store` and what follows a publish do not wait for one.

### `LockManager`

Its log is `leader`, `order` and `delivered` of `ReplicatedLog`. `locks[n]` is the
dictionary `locks` of node n, `lockQueue[n]` the calls in `lock_queue`,
`waitGraph[n]` the edges of the wait-for graph. A member of `LockId` is one call of
`acquire_lock` and the identifier it makes up; `call[l]` holds its arguments, the
node that serves it and its phase. The attributes of a `Lock` are those of its
call. `seen` is a history variable: how much of the log the node had applied when
the call found the resource free.

| Action | Code |
|---|---|
| `AcquireFree`, `AcquireRefused`, `AcquireBusy` | `acquire_lock` up to its first real await: the resource is free and the entry appended, free and `append_entry` refuses, or taken (queue entry, wait edge) |
| `Retry`, `GiveUp` | a round of the polling loop that appends, or finds its timeout over, whether the resource is taken or `append_entry` refused |
| `Return` | `append_entry` has returned; after a wait, `remove_edges` |
| `Release` | `release_lock` for a lock the leader knows, by whoever has its identifier |
| `BreakDeadlock` | a round of `_deadlock_detection_loop` that finds a cycle |
| `HandleCommit` | `_handle_commit` for the next entry of a node |
| `Elect` | the first leader |
| `Restart` | the process of a follower dies and a new one starts; calls it was serving get no answer |

`_try_acquire` and `append_entry` are one step since neither suspends before the
entry is in the log; the commit comes later, and `Return` does not wait for it,
since `append_entry` returns True once the replication round ends, whatever its
result. Entries are applied one at a time; a node that applies several at once
passes through the same states. What `detect_cycle` returns is abstracted to its
first element, a client from which a cycle can be reached (`CycleRoots`); that it
finds one exactly when there is one is shown in `WaitGraph`. Any such client may
be the victim, for the order of a dictionary filled by polling clients is not
tracked. `ttl` is left out since nothing reads it, and so are the calls of
`release_lock` that change nothing. `/lock/status` shows the identifiers of all locks,
so `Release` asks for no grant: it may come before the call that made the lock returns.

### `WaitGraph`

`path` holds the arguments of the `dfs` calls under way; its members are also
`rec_stack`. A client without neighbours stands for one that is no key of the
dictionary. `EnterRoot` and `EnterNeighbour` begin a call, `Found` returns a cycle
through all of them, `Leave` returns None, `NoneFound` ends the outer loop. `Done`
is the caller going on, after which the graph may change again.

### `Queue`

`partition[n]` is the list of one partition of node n; partitions have nothing to do
with each other. `redis[n]` is how far `set_persistence_store` has come, `store` the
hash in Redis, `tasks` a bag of the tasks under way per node, message and kind:
created (`persist`), or waiting for an `hset` or `hdel`. The commands of `Nil` are
those that processes which are dead have sent. `consumed`, a history variable, is
the set of messages that were handed out. A copy remembers in `at` and `saved`, two
more, which entry it comes from and whether its node takes it to be in Redis.
`acknowledge` looks at nothing, so `Acknowledge` may come from anyone who can have
the identifier (`Identified`), before the message was consumed and more than once.

| Action | Code |
|---|---|
| `Publish`, `Acknowledge` | `publish` and `acknowledge` at the leader, up to the entry in the log |
| `Consume` | `consume`: the first unacknowledged copies, each persisted again |
| `HandleCommit` | `_handle_commit`, the tasks it creates included |
| `BeginPersist` | `_persist_message` runs: it reads the copy and sends the `hset` |
| `Land`, `Fail` | an `hset` or `hdel` is carried out, of a living or a dead process, or the call raises |
| `Attach`, `Answer`, `AnswerLost`, `Load` | `set_persistence_store`, and `_load_persisted_messages` before and after its `hgetall` returns or raises |
| `Elect`, `Restart` | the first leader; the death and new start of a follower, whose tasks die with it and whose commands do not |

Commands of one node reach Redis over a pool of connections, hence in any order.
`OldMsg` are messages an earlier cluster left in Redis. `RedisNode` are the nodes
given a client: nothing in `src/` calls `set_persistence_store`, so this is for the
deployment to say. With `RedisNode = {}` the rest of the module is what ships.

### `Cache`

`cache[n][k]` is the block of key k at node n, valid or not; `recent` the keys of the
leader's `access_times` in their order. A member of `Request` is one `put`, or one
`get` that finds its block expired; `request[r]` says where it stands. `stored` and
`ended` are history variables: how much the leader had applied when the put
stored its block late, and when a valid block of the key it invalidates went: the
invalidation deleted it, or marked it and was refused.

| Action | Code |
|---|---|
| `Put`, `BroadcastInvalidation`, `Replicate` | the three appends of `put` (acquire, invalidate others, put) |
| `PutRefused` | the second or third append is refused: `put` returns False |
| `Store` | `put` goes on: its block is stored, and perhaps a victim marked and its invalidation appended or refused |
| `InvalidateDone` | `_invalidate_block` goes on and deletes the block; a `KeyError` if it is gone |
| `GetHit`, `GetInvalid`, `GetExpired`, `GetExpiredRefused`, `GetExpiredElsewhere` | the branches of `get`; an expired block is INVALID at once, and in the log only where `append_entry` takes the entry |
| `HandleInvalidation` | `handle_invalidation` as `/cache/invalidate` calls it |
| `HandleCommit`, `Elect`, `Restart` | as above |

Only EXCLUSIVE and INVALID occur. The branch of `put` that makes MODIFIED needs a
block that is MODIFIED or OWNED, and no code makes a block OWNED or SHARED.

### `AuditLog`

`logFile` and `hashFile` are the two files, a hash being the sequence of the records
that went into it; `writer[p]` is where process p stands in `record_audit`. The steps
are the accesses to the files: `ReadHash`, `AppendToLog`, `TruncateHash` and
`WriteHash` (`write_text` opens, which empties the file, and then writes). `Crash`
may come between any two. Nodes on one host share the files of the default
configuration.

### `HashRing`

`place[s]` are the points of the virtual nodes of server s, any layout; `ring` is
the dictionary. `GetNode` and `GetReplicas` are the two look-ups; `AddNode`,
`RemoveNode` and `RecoverFromFailure` rebuild the ring. Hashing is the one thing
abstracted; two virtual nodes on one point are left out.

## Runs

Bounds: `MaxCampaigns` (self-ballots, hence terms), `MaxRestarts`, `MaxInFlight`
(requests and replies in flight) and the set `Cmd` of commands, each submitted at
most once. `CHECK_DEADLOCK` is off since a behaviour stops when campaigns,
commands and messages are used up. Nodes and commands are symmetric in the safety
runs. No campaign, command or message is special in the code, so what three
nodes can do wrong shows with two competing candidates (two campaigns each, for
the timer's own campaign sends nothing) and two commands.

| Run | Instance | Shows |
|---|---|---|
| `raft_leaders` | 3 nodes, 4 campaigns; from the start without commands and with 2 in flight, and from a leader with an unsent entry, with 2 commands and 1 in flight | `VoteOncePerTerm`, `ElectionSafety` with requests delayed past their election; `LogMatching`, `LogTermsOrdered`, `AppliedOnce`, `LeaderAppendOnly` through conflicts and truncation |
| `raft_one_leader` | 3 nodes led from the start, 2 commands, 2 in flight, a follower that restarts | `TypeOK`, `LaterCommitsOnQuorum`, `ImplementsReplicatedLog`: heartbeat and client requests overtake each other |
| `raft_even_cluster` | 4 nodes led from the start, 2 commands, 2 in flight | violates `LaterCommitsOnQuorum` |
| `raft_faults` | 3 nodes, 3 campaigns, 1 restart, slow requests, fairness, no symmetry | `NoNodeIsStranded`, `LeaderOwnsItsTerm`, `ElectionEnds`, `CandidateMovesOn` |
| `raft_diverges` | 3 nodes, 2 commands, 4 campaigns | violates `StateMachineSafety` |
| `raft_stale_votes` | 3 nodes, 6 campaigns, slow requests | violates `ElectionSafety` |
| `locks` | 2 nodes, 2 clients, 1 resource, 2 calls, each lock released once, restarts, fairness, no symmetry | `TypeOK`, `ConflictsAreRaces`, `LocksAgree`, `EdgesTellWaits`, `AcquireReturns` |
| `lock_exclusion` | 2 calls | violates `MutualExclusion` |
| `queue` | 2 nodes, one with Redis, a new and an old message, 1 acknowledgement of each, batches of 1, restarts that leave a command under way, fairness | `TypeOK`, `AckedStaysAcked`, `CopiesAreExplained`, `Durable`, `StoreKeepsUnacked`, `PublishedIsConsumed` |
| `cache` | 2 nodes, 2 keys, 2 puts of which one expires, 1 expired get, a cache for one block, refused appends, restarts | `TypeOK`, `FollowersServeLog`, `StaleOnlyByLateStore`, `LostOnlyByInvalidation` |
| `cache_consistency` | the same | violates `CachesConsistent` |
| `node_local` | 2 processes, 3 records; 3 servers with 2 of 6 points each, every layout; 3 clients, every graph; fairness, no symmetry | `TypeOK`, `CoveredIsLogged`, `DamageHasCause`, `GapsStay`; `ReplicasAreNearest`, `KeysStay`; `CycleIsReal`, `NoDeadlockMissed`, `SearchShrinks`, `SearchEnds` |

`raft_one_leader` starts in `Led`, a state the program reaches when one node wins
term 2 with every vote. `raft_leaders` checks two kinds of behaviours (`SpecLeaders`):
elections from the initial state, without entries, and replication from the state of
`Led` after one call of `append_entry`; the states before that one are of the first
kind. `node_local` lets one of its three parts move while the others rest, for none
reads what another writes.

Locks: `MaxReleases` bounds how often one lock is released, by a caller or by the
detector. Locks on different resources never conflict, so one resource shows every
conflict, and a client that waits for its own lock is already a cycle. Two calls
make a holder and a waiter, or two that race; two nodes make a leader and one
that lags. For any number of calls the safety properties are theorems. Three
clients are the smallest number with a client that reaches a cycle without being
on it.

Queue: `MaxBatch` bounds the batch size and `MaxTasks` the tasks that persist one
message on one node before it is handed out again; with one waiting to begin
and several sent by commits, an old `hset` can still overtake everything else.
`MaxLeft` bounds the kinds of commands a process that dies leaves to Redis, of which
one is enough to land after anything the new process does. One
message that is new and one that Redis holds are the two ways a copy comes to be; a
third would be one of these. `Durable` is about the one node with Redis whether
it leads or follows, for the leader is elected freely; what the commands of two nodes
do to each other, several acknowledgements of a message and larger batches are left to
the theorems, which hold for any number of each. Cache: two puts are the
least for one value to supersede another, or to evict it from a cache for one
block, with the expired get as a third invalidation; two nodes, since followers
do not meet each other. Audit log: three records of two processes are a gap with
a record on either side. Hash ring: three servers are the least for which a key
has replicas and a node that is none.

The violations are the findings of `PROJECT.json`:

1. **A commit without a replica** (`raft_diverges`). `match_index` 0 stands for
   "has entry 0" before any entry was sent. A leader that appends its first entry
   and gets one success for an older, empty request commits and applies it alone;
   a later leader applies another entry at that place.
2. **Votes counted in the wrong term** (`raft_stale_votes`). A candidate that is
   made a follower while its gather waits, and times out again, counts the old
   votes for its new term.
3. **A lock granted twice** (`lock_exclusion`). Two clients look before either
   entry is committed. `ConflictsAreRaces` is what remains of mutual exclusion.
4. **A commit on two nodes of four** (`raft_even_cluster`). The element in the middle
   of four sorted match indices (`protocols/raft.py:304`) is one that two nodes have
   reached, while `_quorum_size` ("votes/replicas required for quorum") is three; four
   nodes are the default. `CommitsReachHalf` is what remains: half of the nodes have
   what is committed. Half of them and a quorum of votes still have a node in common.
5. **Caches that differ for good** (`cache_consistency`). The earlier of two puts
   stores its block on the leader after the later one was applied everywhere. With
   nothing under way any more the leader serves one value and the follower another;
   `src/README.md:40` promises that caches are always consistent.
   `StaleOnlyByLateStore` says that this is the only way for the leader to be stale.

Seen while modelling, and kept in the models without a run of its own:

* Waiting for a shared lock adds no edge (`services/lock_manager.py:244`), so a
  deadlock over shared locks is not seen. `detect_cycle` itself misses none.
* A wait edge keeps naming the holder it was added for when the lock passes to
  another client (`services/lock_manager.py:154`). `EdgesTellWaits` says how stale
  an edge may be: it never names one who did not hold the resource exclusively.
* A message that was acknowledged while the `hgetall` of a node was on its way is
  taken up by that node as new (`services/queue_service.py:310`). For messages of
  this cluster the replay of the log makes up for it (`AckedStaysAcked`); one of an
  earlier cluster may be handed out again.
* An `hset` that lands after the `hdel` brings an acknowledged message back to Redis
  (`services/queue_service.py:274`). `StoreKeepsUnacked` is the other direction,
  which holds.
* All topics share the partitions: `consume` hands out whatever lies there.
* An invalidation may delete the block of a put that was committed meanwhile, and one
  that `append_entry` refuses, for the leader has stepped down, leaves its block
  INVALID on this node and in no log (`services/cache_service.py:196-203`).
  `LostOnlyByInvalidation` says that nothing else makes the leader lack what the log
  has. If a commit deleted the block first, the call ends with a `KeyError` (phase
  `raised`).
* `/cache/invalidate` leaves an EXCLUSIVE block alone, hence every valid one.
* Only the leader's `put` looks at `max_size`; followers hold every key of the log.

### Fairness

`FairSpec` assumes only what the event loop guarantees: the processor polls
(`StartElection`), gathered tasks start (`RequestVotes`), `wait_for` ends each
request one way or another (`VoteRequestEnds`), and a gather whose parts are done
resumes (`BecomeLeader`, `ElectionFails`). Nothing is assumed of the election
timer (a message may reset it each time) or of the network. That a leader is
eventually elected does not follow from this and is not claimed: it is a matter
of the random timeouts.

`FairSpec` of `LockManager` assumes that a polling loop goes round until it appends or its timeout
is over, and that the round of requests in `append_entry` ends, as each request
has a timeout. It assumes nothing of commits, of releases or of the leader.
`GraphFairness` of `WaitGraph` assumes that a search, which no await interrupts, runs on.

`FairSpec` of `Queue` assumes that tasks begin and their calls to Redis end one way or
the other (the event loop and the client's own errors), and, of the environment, that
clients keep asking the leader for messages, one at a time, and acknowledge what they
get, again when `append_entry` refuses. Of replication it assumes nothing: whether an
entry is ever committed is not the queue's to say, as `append_entry` returns True
without a commit and entries of an older term wait for a new one
(`protocols/raft.py:306`). That the leader goes on committing what it appends is the
premise `CommitsGoOn` of `PublishedIsConsumed` instead. Its other premise,
`[]~CallsUsedUp`, is about a bound of the model: calls of `acknowledge` are finitely
many here, and a leader that loaded a message from Redis after it applied all of them
would have none left. With both, `PublishedIsConsumed` is what the queue owes to
clients that do their part; what it rules out is that copies already acknowledged, or
tasks that fail, keep a message from ever being handed out. Nothing is assumed of
attaching Redis or of restarts. No liveness is claimed of the cache: all its calls end
when `append_entry` does.

## Proofs

The three modules on Raft hold for every finite cluster of at least two nodes, every
set of commands and every value of the bounds; `LockManagerProofs` for any nodes, clients,
resources and calls; `WaitGraphProofs` for every finite set of clients;
`QueueProofs` for any nodes and acknowledgements, finitely many messages, and any nodes
with Redis; `CacheProofs` for any nodes, keys, requests and size; `NodeLocalProofs` for any
processes and number of records, and any finitely many servers, points and numbers
of virtual nodes.

| Theorem | Property | Assumes |
|---|---|---|
| `TypeCorrect` | `TypeOK` | |
| `ElectionsAreSafe` | `ElectionSafety` | `Orderly` |
| `VotesAreCastOnce` | `VoteOncePerTerm` | `Orderly` |
| `NodesAreNeverStranded` | `NoNodeIsStranded` | |
| `LeadersOwnTheirTerms` | `LeaderOwnsItsTerm` | |
| `LeadersOnlyAppend` | `LeaderAppendOnly` | |
| `LogTermsAlwaysOrdered` | `LogTermsOrdered` | |
| `CommandsAreAppliedOnce` | `AppliedOnce` | |
| `LogsMatch` | `LogMatching` | `Orderly` |
| `OneLeaderImplementsReplicatedLog` | `OneLeaderSpec => ImplementsReplicatedLog` | |
| `CommitsReachHalf` | `OneLeaderSpec => []LaterCommitsOnHalf`, and `LaterCommitsOnQuorum` | the second: an odd number of nodes |
| `OneLeaderAgrees` | `OneLeaderSpec => []StateMachineSafety` | |
| `LockTypeCorrect` | `TypeOK` of `LockManager` | |
| `ConflictsComeFromRaces` | `ConflictsAreRaces` | |
| `LocksAlwaysAgree` | `LocksAgree` | |
| `EdgesAlwaysTellWaits` | `EdgesTellWaits` | |
| `WaitGraphTypeCorrect` | `GraphTypeOK` | |
| `CyclesAreReal` | `CycleIsReal` | |
| `NoDeadlocksAreMissed` | `NoDeadlockMissed` | |
| `SearchAlwaysShrinks` | `SearchShrinks` | |
| `QueueTypeCorrect` | `TypeOK` of `Queue` | |
| `AckedAlwaysStaysAcked` | `AckedStaysAcked` | |
| `CopiesAlwaysExplained` | `CopiesAreExplained` | |
| `AlwaysDurable` | `Durable` | |
| `StoreAlwaysKeepsUnacked` | `StoreKeepsUnacked` | |
| `CacheTypeCorrect` | `TypeOK` of `Cache` | |
| `FollowersAlwaysServeLog` | `FollowersServeLog` | |
| `AlwaysStaleOnlyByLateStore` | `StaleOnlyByLateStore` | |
| `AlwaysLostOnlyByInvalidation` | `LostOnlyByInvalidation` | |
| `NodeLocalTypeCorrect` | `TypeOK` of `MCNodeLocal`, from the two below and `WaitGraphTypeCorrect` | |
| `AuditTypeCorrect` | `AuditTypeOK` | |
| `RingTypeCorrect` | `RingTypeOK` | |
| `CoveredIsAlwaysLogged` | `CoveredIsLogged` | |
| `DamageAlwaysHasCause` | `DamageHasCause` | |
| `GapsAlwaysStay` | `GapsStay` | |
| `KeysAlwaysStay` | `KeysStay` | |
| `ReplicasAlwaysNearest` | `ReplicasAreNearest` | |

`Orderly` is `MaxRestarts = 0 /\ ~RequestOutlivesElection`. Both parts are needed:
a restarted node forgets its vote, and `raft_stale_votes` is the behaviour the
second part excludes. So the theorem says what a deployment has to configure
for this code to elect at most one leader per term.

The argument for election safety follows a vote. `ElectionSafety` alone says
nothing about the votes still under way, so the inductive invariant
`ElectionInv` adds: ballots lie in the past of the voter and `voted_for` is the
ballot of the current term (`BallotsCurrent`); a candidate has voted for itself
(`CandidateVotes`); a request that is waited for carries the term of its sender if
that is still a candidate (`RequestsCurrent`, where the second part of `Orderly`
enters); a positive reply and a counted vote stand for ballots of the candidate's
term (`RepliesBacked`, `TallyBacked`); hence every elected node was voted for by a
quorum (`ElectedByQuorum`). Two quorums meet (`QuorumsMeet`) and a node votes once.

`NoNodeIsStranded /\ LeaderOwnsItsTerm` is inductive over `TypeOK` as it stands;
the lemma `MessageEffect` says that a message either leaves a node's role alone or
makes it a follower with an armed timer. `LeadersOnlyAppend` rests on the same
case distinction: every path by which a log is replaced makes the node a follower
first.

Of the logs, the first thing to see is that a log, an append request and what was
applied are the same kind of thing, a `Piece`: entries from a place on, and the term
of the entry before them. Every step makes pieces out of pieces. A leader appends
one entry to its log; `SentSlices` says that a request is a slice of its sender's
log, `MergeEntriesResult` and `MergedPiece` that what `_handle_append_entries` leaves
is the old log up to a place and the request after it, and `StepKinds` that no other
step touches them. The three theorems are three invariants on pieces:

* `TermsInv`: terms do not decrease along a piece and stay within its owner's term.
  Requests have to be ordered too, with the term of the entry before them, or the
  merge would not be; `PrevMatches` compares exactly that term.
* `PlacesInv`: a command stands at one place, in whichever piece. A leader gives a
  new command its place (`OnlyIssued`: no piece held it), after that it is copied
  from place to like place (`InheritsStep`), so that resending, truncating and
  forgetting a log never moves it, and a callback cannot see it twice.
* `MatchingInv`: two pieces with the same term at a place agree up to it
  (`PiecesMatch`). It holds because an entry of a term is only written by the node
  elected in it, beyond all others of that term (`LeaderHasTerm`); that there is one
  such node is `ElectionSafety`, where `Orderly` comes from. `ElectedPast` and
  `TermsElected` say that a newly elected leader finds no entry of its own term.

With one leader, `OneLeaderInv` says that every piece is a copy of a part of the
leader's log (`LedBy`), that no node and no request knows of a commit the leader does not, and
that `applied` is the log up to the commit index (`AppliedIsPrefix`). A request that
overtakes another can therefore cut a log short but never change an entry, and a
node may lose entries it has applied only by dying. So `Delivered` is a prefix of
`Order` on each node, and `ImplementsStep` maps each action to a step of
`ReplicatedLog` or a stutter. `OneLeaderAgrees` is a corollary, and the
counterpart of the finding in `raft_diverges`: what is violated there needs the
second leader.

`CommitsReachHalf` is about `_update_commit_index`, which sorts the match indices
and takes the one in the middle. `MedianExists` and `MedianReached` say what the
middle of a sorted list is, by counting those below; `Acknowledged`, that a match
index other than the initial 0 and each successful reply stand for entries the peer
still has. The median of any number of nodes is one that half of them, rounded up, have
reached (`HalfSize`). With an odd number that is a quorum; with an even number it is one
less, and `raft_even_cluster` shows it happen. A restart empties a log the leader goes
on counting, hence `restarts = 0` in both properties.

For the locks, `LocksFromLog` describes `locks[n]` by the log: acquired and not
released in what n has applied. With `ReleasesFollow` (a release comes after its
acquire) and `EntriesOnce` it is inductive, and `LocksAgree` follows. Then
`LooksClear` says what a call saw: whatever it would conflict with and was applied
by then was also released by then. So on a node that has applied the call's
entry, the release was applied as well. `LockInv` is the conjunction; its steps are the
four lemmas `CallsStep`, `AcquireStep`, `ReleaseStep`, `CommitStep`. `EdgesTellWaits`
is inductive over it: the holder an edge names when it is added has its entry in what
the node applied (`EdgeLeads`), the arguments of a call never change, and a node
loses what it has applied only together with its edges.

For the search, call a client finished once its `dfs` has returned. `SearchInv`
says that the path is a walk without repetition, that what a finished client waits
for is finished (`FinishedClosed`), and that no deadlock lies among finished
clients (`FinishedFree`). When a client x finishes, it waits for finished clients
only and none of those waits for x; so a deadlock with x would be one without it,
which there was not. At the end every client with neighbours is finished. That the
search gets there is counted by `StepsLeft`, which every step of it lowers: two for
each client not yet visited, one for each on the path, one for the end.

For the queue, `QueueInv` describes a partition by the log as well: each copy fits
the entry it comes from or was recovered (`CopiesFit`), none is missing and they are
in order (`NoneMissing`, `InPlace`). `AcksFollow` says that an acknowledgement comes
after its publish, which a node that recovers a message before it replays the
log depends on; to prove it one has to know that whatever was handed out, found in
Redis or on its way there was published first (`OnlyKnown`). `TakenByAck` says that
a command which takes a message out of Redis, of a living or a dead process, is there
only once the leader has applied an acknowledgement, and with it `Durable` is
inductive.

For the cache, `Latest` is `IsLatest` with the log, the length and the role as
arguments, so that it can be followed from one state to the next: entries past the
length do not matter (`LatestStays`), an entry the node does not heed changes
nothing (`LatestNext`), and a put makes itself the latest (`LatestPut`). `QuietStep`
sorts the actions: most keep the log and add no value, and where they take a value
from the leader they leave an excuse for it. `Store`, `HandleCommit`, `Elect` and
`Restart` are what remains. An excuse is good until the leader applies its entry
(`ExcuseKeeps`), and that entry then ends what it was an excuse for; that needs
`EntriesOnce`, for a value is the latest through one entry only.

For the audit log, `HashesEmbed` says that the hash, and each hash a process has
ready, is a subsequence of the log, with the function that embeds it as witness;
`WholeUntilDisturbed` that before the first mishap one process at most is writing
and its digest is the whole log.

For the hash ring, `RingInv` says that no two servers share a point and that the ring
is the one its servers make. The node of a key is then the owner of the lowest point
from the key on, or of the lowest of all (`NodeOfKey`). Taking points away that did
not include the chosen one leaves the choice alone (`ChosenStays`, `SmallerRing`);
an added server is a removed one read backwards.

`GetReplicas` walks the sorted points from the key on and goes on at the lowest.
Sorted, a point stands at its rank (`SortedIs`), so the walk meets the points nearer
clockwise first and each once (`WalkIs`). What a fold computes is not for an
induction here, but this fold can be unfolded: `FoldExists` shows that there is the
recursive function on sets of places that the fold is defined by, and `ReplicasLoop`
reads it as a loop over the walk, with what was found after each place (`IsLoop`).
`FoundInv` says that the servers found lie in the order of their distance and each
stands once, that whoever is nearer than one of them is among them, and that while there
are too few the owners of all places walked are; a least place where it fails takes the part of the induction
(`FoundAlways`). Every server has a point, for there is at least one virtual node
(`RingOwned`), so a walk to the end has met them all.

Only model-checked: the liveness properties `ElectionEnds`, `CandidateMovesOn`,
`SearchEnds`, `AcquireReturns` and `PublishedIsConsumed`. They rest on fairness, whose
ENABLED the prover cannot expand. Of `SearchEnds` the half that is safety is proved:
the search cannot go on for more than `StepsLeft` steps (`SearchAlwaysShrinks`).

## Not modelled

* PBFT coordinator: `submit_request` exchanges no messages and keeps no state but a
  log of its results; the votes are the number of replicas less a parameter of the
  request, counted in one step.
* Geo router: picks the lowest latency of a fixed table, sequentially.
* Load balancer: scores in floating point, from values the caller passes.
* Encryption and roles: pure functions on strings and a fixed table.
* Configuration and types: data, but for the constant `RequestOutlivesElection`.
* HTTP handlers other than the two named in `PROJECT.json`: each calls one
  operation and formats what it returns. JSON and URLs keep every field of a message.
* Statistics (`delivery_count`, `pending_messages`, hit counters): written, and read
  only to be reported.
* Services under a change of the leader: see `ReplicatedLog`.

## What is left

Every invariant and every action property of the passing runs is a theorem. Worth having
beyond them: which part of `LogMatching` survives a restart, and what `max_size`
bounds when puts overlap, for which the cache has no property yet.
