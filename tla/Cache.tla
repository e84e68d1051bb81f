-------------------------------- MODULE Cache --------------------------------
(***************************************************************************)
(* MOESICache of src/src/services/cache_service.py on every node, over the *)
(* log that Raft with one leader provides (ReplicatedLog).                 *)
(*                                                                         *)
(* Only the states EXCLUSIVE and INVALID occur: put makes the one, and the *)
(* branch that would make MODIFIED needs a block that is MODIFIED or OWNED *)
(* already.  A value is named by the put that wrote it.                    *)
(***************************************************************************)
EXTENDS Naturals, Sequences, FiniteSets

CONSTANTS
    Node, Nil,
    Key,
    PutRequest, \* one for each put
    Expiring,   \* the puts with a ttl above 0
    GetRequest, \* one for each get that meets a block older than its ttl
    MaxSize     \* max_size of the configuration

ASSUME CacheAssumption ==
    Nil \notin Node \cup Key /\ Expiring \subseteq PutRequest /\ MaxSize \in Nat

Request == PutRequest \cup GetRequest

VARIABLES
    leader, order, delivered,   \* of ReplicatedLog
    cache,      \* per node and key, its block
    recent,     \* the leader's keys with an access time, the oldest first
    request     \* per put or get, where it stands
logVars == <<leader, order, delivered>>
vars == <<leader, order, delivered, cache, recent, request>>

Command ==
    [op : {"acquire", "invalidateAll", "put", "invalidate"},
     req : Request, key : Key]
\* Variant: key and request change places.
EntrySwapped(op, r, k) == [op |-> op, req |-> k, key |-> r]
Entry(op, r, k) == [op |-> op, req |-> r, key |-> k]

Log == INSTANCE ReplicatedLog WITH Cmd <- Command

Block == [value : PutRequest, valid : BOOLEAN]
NoBlock == [valid |-> FALSE]

\* "acquiring", "broadcasting", "replicating", "invalidating": the entry is
\* appended and the call waits for append_entry to return.  "raised": it ended
\* with a KeyError.  target is the key it invalidates.  stored and ended are
\* history variables: how many entries the leader had applied when a put stored
\* its block over something newer, and when a valid block of the target went, for
\* the invalidation returned and deleted it or append_entry refused its entry.
NoRequest == [phase |-> "idle"]
Running ==
    [phase : {"acquiring", "broadcasting", "replicating", "invalidating",
              "done", "raised"},
     key : Key, target : Key \cup {Nil}, stored : Nat, ended : Nat]

TypeOK ==
    /\ Log!TypeOK
    /\ cache \in [Node -> [Key -> Block \cup {NoBlock}]]
    /\ recent \in Seq(Key)
    /\ request \in [Request -> Running \cup {NoRequest}]

Init ==
    /\ Log!Init
    /\ cache = [n \in Node |-> [k \in Key |-> NoBlock]]
    /\ recent = <<>>
    /\ request = [r \in Request |-> NoRequest]

-----------------------------------------------------------------------------
\* LRUEvictionPolicy

\* Keys without an access time come first.
Rank(s, k) ==
    IF \E i \in DOMAIN s : s[i] = k THEN CHOOSE i \in DOMAIN s : s[i] = k ELSE 0

\* Key k is the one used last.
Touched(k) ==
    LET i == Rank(recent, k) IN
    IF i = 0 THEN Append(recent, k)
    ELSE SubSeq(recent, 1, i - 1) \o SubSeq(recent, i + 1, Len(recent)) \o <<k>>

Keys(blocks) == {k \in Key : blocks[k] # NoBlock}

\* The keys least recently used; of equals, the dictionary decides.
Victims(blocks, s) ==
    {k \in Keys(blocks) : \A j \in Keys(blocks) : Rank(s, k) <= Rank(s, j)}

-----------------------------------------------------------------------------
\* put, at the leader.  append_entry may return False at any time, for the leader
\* has stepped down; at other nodes it always does.  A put whose first entry is
\* refused changes nothing.

\* The request goes on to a new phase, and this entry is appended.
Advance(r, from, to, op) ==
    /\ request[r].phase = from
    /\ request' = [request EXCEPT ![r].phase = to]
    /\ Log!Propose(Entry(op, r, request[r].key))
    /\ UNCHANGED <<cache, recent>>

Put(r, k) ==
    /\ request[r] = NoRequest
    /\ request' = [request EXCEPT ![r] =
          [phase |-> "acquiring", key |-> k, target |-> Nil,
           stored |-> 0, ended |-> 0]]
    /\ Log!Propose(Entry("acquire", r, k))
    /\ UNCHANGED <<cache, recent>>

BroadcastInvalidation(r) == Advance(r, "acquiring", "broadcasting", "invalidateAll")

Replicate(r) == Advance(r, "broadcasting", "replicating", "put")

\* append_entry refuses the next entry of put, which returns False.  Its broadcast
\* ignores the refusal, but the entry of the put is then refused as well.
PutRefused(r) ==
    /\ request[r].phase \in {"acquiring", "broadcasting"}
    /\ request' = [request EXCEPT ![r].phase = "done"]
    /\ UNCHANGED <<logVars, cache, recent>>

\* The leader has applied the put and then another entry for the key.
Superseded(r, k) ==
    \E i, j \in 1..Len(delivered[leader]) :
        /\ i < j /\ order[i] = Entry("put", r, k)
        /\ order[j].key = k /\ order[j].op \in {"put", "invalidate"}

\* The append of the put has returned, with or without a commit.  What is too much
\* is evicted: the victim is INVALID whether or not its entry is refused.
Store(r) ==
    LET k == request[r].key
        applied == IF Superseded(r, k) THEN Len(delivered[leader]) ELSE 0
        blocks == [cache[leader] EXCEPT ![k] = [value |-> r, valid |-> TRUE]]
    IN
    /\ request[r].phase = "replicating"
    /\ recent' = Touched(k)
    /\ \/ /\ Cardinality(Keys(blocks)) <= MaxSize
          /\ cache' = [cache EXCEPT ![leader] = blocks]
          /\ request' = [request EXCEPT ![r].phase = "done", ![r].stored = applied]
          /\ UNCHANGED logVars
       \/ /\ Cardinality(Keys(blocks)) > MaxSize
          /\ \E victim \in Victims(blocks, recent') :
                /\ cache' = [cache EXCEPT ![leader] =
                               [blocks EXCEPT ![victim].valid = FALSE]]
                /\ \/ /\ request' = [request EXCEPT
                            ![r].phase = "invalidating", ![r].target = victim,
                            ![r].stored = applied]
                      /\ Log!Propose(Entry("invalidate", r, victim))
                   \/ /\ request' = [request EXCEPT
                            ![r].phase = "done", ![r].target = victim,
                            ![r].stored = applied,
                            ![r].ended = IF blocks[victim].valid
                                         THEN Len(delivered[leader]) ELSE 0]
                      /\ UNCHANGED logVars

\* _invalidate_block goes on: the block is deleted, whatever it is by now.
InvalidateDone(r) ==
    LET k == request[r].target IN
    /\ request[r].phase = "invalidating"
    /\ request' = [request EXCEPT
          ![r].phase = IF cache[leader][k] = NoBlock THEN "raised" ELSE "done",
          ![r].ended = IF cache[leader][k].valid THEN Len(delivered[leader]) ELSE 0]
    /\ cache' = [cache EXCEPT ![leader][k] = NoBlock]
    /\ UNCHANGED <<logVars, recent>>

-----------------------------------------------------------------------------
\* get, handle_invalidation and _handle_commit

\* A hit at the leader.  Access times of other nodes are never read.
GetHit(k) ==
    /\ leader # Nil
    /\ cache[leader][k].valid
    /\ recent' = Touched(k)
    /\ UNCHANGED <<logVars, cache, request>>

\* A block found INVALID is deleted.
DropInvalid(n, k) ==
    /\ cache[n][k] # NoBlock /\ ~cache[n][k].valid
    /\ cache' = [cache EXCEPT ![n][k] = NoBlock]
    /\ UNCHANGED <<logVars, recent, request>>

GetInvalid(n, k) == DropInvalid(n, k)

\* The handler of /cache/invalidate names its own node, and that leaves a block
\* that is EXCLUSIVE alone.
HandleInvalidation(n, k) == DropInvalid(n, k)

MayExpire(block) == block.valid /\ block.value \in Expiring

\* Variant: the leader's block is deleted and no entry is appended.
GetExpiredAlone(r, k) ==
    /\ leader # Nil
    /\ request[r] = NoRequest
    /\ MayExpire(cache[leader][k])
    /\ cache' = [cache EXCEPT ![leader][k] = NoBlock]
    /\ UNCHANGED <<logVars, recent, request>>

\* A get at the leader finds a block older than its ttl.
GetExpired(r, k) ==
    /\ leader # Nil
    /\ request[r] = NoRequest
    /\ MayExpire(cache[leader][k])
    /\ cache' = [cache EXCEPT ![leader][k].valid = FALSE]
    /\ request' = [request EXCEPT ![r] =
          [phase |-> "invalidating", key |-> k, target |-> k,
           stored |-> 0, ended |-> 0]]
    /\ Log!Propose(Entry("invalidate", r, k))
    /\ UNCHANGED recent

\* The same when append_entry refuses, for the leader has stepped down: the block
\* is INVALID here alone.
GetExpiredRefused(r, k) ==
    /\ leader # Nil
    /\ request[r] = NoRequest
    /\ MayExpire(cache[leader][k])
    /\ cache' = [cache EXCEPT ![leader][k].valid = FALSE]
    /\ request' = [request EXCEPT ![r] =
          [phase |-> "done", key |-> k, target |-> k,
           stored |-> 0, ended |-> Len(delivered[leader])]]
    /\ UNCHANGED <<logVars, recent>>

\* The same at another node, where append_entry always refuses.
GetExpiredElsewhere(n, k) ==
    /\ n # leader
    /\ MayExpire(cache[n][k])
    /\ cache' = [cache EXCEPT ![n][k].valid = FALSE]
    /\ UNCHANGED <<logVars, recent, request>>

\* Variant: except_node is the only one to obey.
HeedsAtOwner(n, e) ==
    e.op \in {"put", "invalidate"} \/ (e.op = "invalidateAll" /\ n = leader)

\* Variant: the leader leaves its own puts to put.
HeedsOthers(n, e) == e.op = "invalidate" \/ (e.op # "acquire" /\ n # leader)

\* Node n changes its block when it applies e.  except_node of an invalidateAll
\* is the leader, which alone can append.
Heeds(n, e) ==
    e.op \in {"put", "invalidate"} \/ (e.op = "invalidateAll" /\ n # leader)

\* Node n applies its next entry.
HandleCommit(n) ==
    LET i == Len(delivered[n]) + 1
        e == order[i]
    IN
    /\ i <= Len(order)
    /\ Log!Deliver(n, i)
    /\ cache' = IF ~Heeds(n, e) THEN cache ELSE
                [cache EXCEPT ![n][e.key] =
                   IF e.op = "put" THEN [value |-> e.req, valid |-> TRUE] ELSE NoBlock]
    /\ UNCHANGED <<recent, request>>

-----------------------------------------------------------------------------
Elect(n) == Log!Elect(n) /\ UNCHANGED <<cache, recent, request>>

\* The process of a follower dies and a new one begins with an empty cache.
Restart(n) ==
    /\ Log!Rejoin(n)
    /\ cache' = [cache EXCEPT ![n] = [k \in Key |-> NoBlock]]
    /\ UNCHANGED <<recent, request>>

Next ==
    \/ \E n \in Node : Elect(n) \/ HandleCommit(n) \/ Restart(n)
    \/ \E r \in PutRequest, k \in Key : Put(r, k)
    \/ \E r \in GetRequest, k \in Key : GetExpired(r, k) \/ GetExpiredRefused(r, k)
    \/ \E r \in Request : \/ BroadcastInvalidation(r) \/ Replicate(r)
                          \/ PutRefused(r) \/ Store(r) \/ InvalidateDone(r)
    \/ \E k \in Key : GetHit(k)
    \/ \E n \in Node, k \in Key :
          GetInvalid(n, k) \/ HandleInvalidation(n, k) \/ GetExpiredElsewhere(n, k)

Spec == Init /\ [][Next]_vars

-----------------------------------------------------------------------------
\* Properties

\* What node n serves for k is the put applied last, and no invalidation that n
\* obeys has been applied since; entries up to number first are not counted.
IsLatest(n, k, r, first) ==
    \E i \in 1..Len(delivered[n]) :
        /\ order[i].op = "put" /\ order[i].key = k /\ order[i].req = r
        /\ \A j \in (i + 1)..Len(delivered[n]) :
              \/ order[j].key # k \/ order[j].op = "acquire"
              \/ order[j].op = "invalidateAll" /\ n = leader
              \/ j <= first

\* A node that follows serves what the log says, however far it has come with
\* it, whatever expired, and after a restart (_handle_commit, get).
FollowersServeLog ==
    \A n \in Node \ {leader}, k \in Key :
        cache[n][k].valid => IsLatest(n, k, cache[n][k].value, 0)

\* The leader serves an older value only if the put of that value was late to
\* store it: what it should have heeded was applied before that (put).
StaleOnlyByLateStore ==
    leader # Nil => \A k \in Key :
        LET r == cache[leader][k].value IN
        cache[leader][k].valid =>
            \/ IsLatest(leader, k, r, request[r].stored)
            \/ \A i \in 1..Len(delivered[leader]) : order[i] # Entry("put", r, k)

\* The leader lacks a value that the log has only because an invalidation of
\* that key is under way, or one ended or was refused after the value was applied
\* (_invalidate_block, which marks the block before it asks append_entry).
LostOnlyByInvalidation ==
    leader # Nil => \A k \in Key : \A i \in 1..Len(delivered[leader]) :
        /\ order[i].op = "put" /\ order[i].key = k
        /\ IsLatest(leader, k, order[i].req, 0)
        /\ ~cache[leader][k].valid
        => \E r \in Request :
              /\ request[r] # NoRequest
              /\ request[r].target = k
              /\ \/ request[r].ended >= i
                 \/ \E j \in 1..Len(order) : /\ order[j] = Entry("invalidate", r, k)
                                             /\ j > Len(delivered[leader])

\* What the README promises: when every call has returned and every node has
\* applied the whole log, nodes that serve a key serve the same value of it.
CachesConsistent ==
    /\ \A n \in Node : Len(delivered[n]) = Len(order)
    /\ \A r \in Request : request[r].phase \in {"idle", "done", "raised"}
    => \A n, p \in Node, k \in Key :
          cache[n][k].valid /\ cache[p][k].valid => cache[n][k].value = cache[p][k].value
=============================================================================
