-------------------------------- MODULE Queue --------------------------------
(***************************************************************************)
(* DistributedQueue of src/src/services/queue_service.py on every node,    *)
(* over the log that Raft with one leader provides (ReplicatedLog), with   *)
(* the Redis hash that all nodes share.                                    *)
(*                                                                         *)
(* One partition is modelled: partitions have nothing to do with each      *)
(* other.  Persisting and deleting are tasks of their own; their commands  *)
(* reach Redis over a pool of connections, in any order.                   *)
(***************************************************************************)
EXTENDS Naturals, Sequences, FiniteSets

CONSTANTS
    Node, Nil,
    Msg,        \* one for each call of publish, and those of an earlier cluster
    OldMsg,     \* the messages an earlier cluster left in Redis
    RedisNode,  \* the nodes that are given a Redis client
    AckCall,    \* bound: one for each call of acknowledge about a message
    MaxBatch,   \* bound: the largest batch_size
    MaxTasks,   \* bound: tasks under way that write a message a node hands out
    MaxLeft     \* bound: kinds of commands a process that dies leaves under way

ASSUME QueueAssumption ==
    /\ Nil \notin Node /\ OldMsg \subseteq Msg /\ IsFiniteSet(Msg)
    /\ MaxBatch \in Nat /\ MaxTasks \in Nat /\ MaxLeft \in Nat

VARIABLES
    leader, order, delivered,   \* of ReplicatedLog
    partition,  \* per node, its copies of messages
    redis,      \* per node, how far it has come with set_persistence_store
    store,      \* the hash in Redis: per message, absent or its acked field
    tasks,      \* per node, message and kind, how many tasks are under way
    consumed    \* history: the messages that were handed out
logVars == <<leader, order, delivered>>
vars == <<leader, order, delivered, partition, redis, store, tasks, consumed>>

Published(m) == [op |-> "publish", msg |-> m, by |-> Nil]
Acked(m, c) == [op |-> "ack", msg |-> m, by |-> c]
Command == {Published(m) : m \in Msg} \cup {Acked(m, c) : m \in Msg, c \in AckCall}

Log == INSTANCE ReplicatedLog WITH Cmd <- Command

\* at and saved are history variables: the log entry a copy comes from (0: from
\* Redis), and whether Redis is to have it, as far as its node knows.
Copy == [msg : Msg, acked : BOOLEAN, at : Nat, saved : BOOLEAN]

\* "asked" and "answered": hgetall is on its way there and back.
Redis == [phase : {"none", "asked", "answered", "attached"}, found : SUBSET Msg]
NoRedis == [phase |-> "none", found |-> {}]

\* A task that persists begins ("persist"), then waits for its hset, which
\* carries the acked flag it has read ("set", "setAcked").  The commands of Nil
\* are those that processes which are dead have sent.
Sent == {"set", "setAcked", "delete"}
Task == (Node \cup {Nil}) \X Msg \X ({"persist"} \cup Sent)

TypeOK ==
    /\ Log!TypeOK
    /\ partition \in [Node -> Seq(Copy)]
    /\ redis \in [Node -> Redis]
    /\ store \in [Msg -> {"absent", "unacked", "acked"}]
    /\ tasks \in [Task -> Nat]
    /\ consumed \subseteq Msg

Init ==
    /\ Log!Init
    /\ partition = [n \in Node |-> <<>>]
    /\ redis = [n \in Node |-> NoRedis]
    /\ store = [m \in Msg |-> IF m \in OldMsg THEN "unacked" ELSE "absent"]
    /\ tasks = [t \in Task |-> 0]
    /\ consumed = {}

-----------------------------------------------------------------------------
\* publish, consume, acknowledge, _handle_commit

Attached(n) == redis[n].phase # "none"

\* The tasks when node n creates one of this kind for message m.
Scheduled(n, m, kind) ==
    IF Attached(n) THEN [tasks EXCEPT ![<<n, m, kind>>] = @ + 1] ELSE tasks

\* At the leader while it leads.  Where append_entry returns False, at another
\* node or at a leader that has stepped down, publish changes nothing: its
\* partitions, its tasks and the log are as before.
Publish(m) ==
    /\ m \notin OldMsg
    /\ Log!Propose(Published(m))
    /\ UNCHANGED <<partition, redis, store, tasks, consumed>>

Unacked(n) == {i \in DOMAIN partition[n] : ~partition[n][i].acked}

\* Variant: the limit comes before the filter.
FilteredBatch(n, b) == {i \in Unacked(n) : i <= b}

\* The first copies that are not acknowledged.
Batch(n, b) ==
    {i \in Unacked(n) : Cardinality({j \in Unacked(n) : j < i}) < b}

\* Any node hands out its copies.  Each is persisted again.
Consume(n, b) ==
    LET copies(m) == {i \in Batch(n, b) : partition[n][i].msg = m}
        batch == {m \in Msg : copies(m) # {}}
    IN
    /\ batch # {}
    /\ \A m \in batch : tasks[<<n, m, "persist">>] + tasks[<<n, m, "set">>] < MaxTasks
    /\ consumed' = consumed \cup batch
    /\ tasks' = IF ~Attached(n) THEN tasks ELSE
                [t \in Task |->
                   IF t[1] = n /\ t[3] = "persist"
                   THEN tasks[t] + Cardinality(copies(t[2])) ELSE tasks[t]]
    /\ UNCHANGED <<logVars, partition, redis, store>>

\* The identifier of m has left a node: publish has returned it, or a cluster
\* before this one did.
Identified(m) ==
    m \in OldMsg \/ \E i \in DOMAIN order : order[i] = Published(m)

\* Variant: the message leaves Redis before its entry is committed.
AcknowledgeAtOnce(m, c) ==
    /\ Identified(m)
    /\ Log!Propose(Acked(m, c))
    /\ tasks' = Scheduled(leader, m, "delete")
    /\ UNCHANGED <<partition, redis, store, consumed>>

\* Whoever has the identifier may acknowledge, consumed or not, once or more.
\* Where append_entry returns False nothing changes, as in Publish.
Acknowledge(m, c) ==
    /\ Identified(m)
    /\ Log!Propose(Acked(m, c))
    /\ UNCHANGED <<partition, redis, store, tasks, consumed>>

\* Variant: only the first copy is marked.
MarkFirst(p, m) ==
    [i \in DOMAIN p |->
       IF p[i].msg = m /\ \A j \in 1..(i - 1) : p[j].msg # m
       THEN [p[i] EXCEPT !.acked = TRUE] ELSE p[i]]

\* Variant: the flag is set to the identifier.
MarkWith(p, m) ==
    [i \in DOMAIN p |->
       IF p[i].msg = m THEN [p[i] EXCEPT !.acked = m] ELSE p[i]]

\* Copies p, all those of message m acknowledged.
MarkAcked(p, m) ==
    [i \in DOMAIN p |->
       IF p[i].msg = m THEN [p[i] EXCEPT !.acked = TRUE] ELSE p[i]]

\* Node n applies its next entry.
HandleCommit(n) ==
    LET i == Len(delivered[n]) + 1
        m == order[i].msg
    IN
    /\ i <= Len(order)
    /\ Log!Deliver(n, i)
    /\ \/ /\ order[i].op = "publish"
          /\ partition' = [partition EXCEPT ![n] = Append(@,
                [msg |-> m, acked |-> FALSE, at |-> i, saved |-> Attached(n)])]
          /\ tasks' = Scheduled(n, m, "persist")
       \/ /\ order[i].op = "ack"
          /\ partition' = [partition EXCEPT ![n] = MarkAcked(@, m)]
          /\ tasks' = Scheduled(n, m, "delete")
    /\ UNCHANGED <<redis, store, consumed>>

-----------------------------------------------------------------------------
\* _persist_message, _delete_persisted_message, set_persistence_store

\* The task runs: it reads the copy and sends the hset.
BeginPersist(n, m) ==
    LET acked == \E i \in DOMAIN partition[n] :
                    partition[n][i].msg = m /\ partition[n][i].acked
    IN
    /\ tasks[<<n, m, "persist">>] > 0
    /\ tasks' = [tasks EXCEPT ![<<n, m, "persist">>] = @ - 1,
                              ![<<n, m, IF acked THEN "setAcked" ELSE "set">>] = @ + 1]
    /\ UNCHANGED <<logVars, partition, redis, store, consumed>>

Written == [set |-> "unacked", setAcked |-> "acked", delete |-> "absent"]

\* Redis carries out an hset or an hdel, of a node or of a dead process (Nil).
Land(n, m, kind) ==
    /\ tasks[<<n, m, kind>>] > 0
    /\ tasks' = [tasks EXCEPT ![<<n, m, kind>>] = @ - 1]
    /\ store' = [store EXCEPT ![m] = Written[kind]]
    /\ UNCHANGED <<logVars, partition, redis, consumed>>

\* The call to Redis fails, and the task ends with an exception nobody sees.
Fail(n, m, kind) ==
    /\ tasks[<<n, m, kind>>] > 0
    /\ tasks' = [tasks EXCEPT ![<<n, m, kind>>] = @ - 1]
    /\ partition' = [partition EXCEPT ![n] = [i \in DOMAIN @ |->
          IF @[i].msg = m THEN [@[i] EXCEPT !.saved = FALSE] ELSE @[i]]]
    /\ UNCHANGED <<logVars, redis, store, consumed>>

Attach(n) ==
    /\ n \in RedisNode
    /\ redis[n].phase = "none"
    /\ redis' = [redis EXCEPT ![n].phase = "asked"]
    /\ UNCHANGED <<logVars, partition, store, tasks, consumed>>

\* Redis answers the hgetall; what is marked as acknowledged will be skipped.
Answer(n) ==
    /\ redis[n].phase = "asked"
    /\ redis' = [redis EXCEPT ![n] =
          [phase |-> "answered", found |-> {m \in Msg : store[m] = "unacked"}]]
    /\ UNCHANGED <<logVars, partition, store, tasks, consumed>>

\* The hgetall fails: the client stays attached and nothing is recovered.
AnswerLost(n) ==
    /\ redis[n].phase = "asked"
    /\ redis' = [redis EXCEPT ![n].phase = "attached"]
    /\ UNCHANGED <<logVars, partition, store, tasks, consumed>>

\* Variant: the messages found are not looked up in the partition.
AllFound(n) == redis[n].found

\* The messages found of which the node has no copy.
NotYetKnown(n) ==
    {m \in redis[n].found : \A i \in DOMAIN partition[n] : partition[n][i].msg # m}

\* The node adds what it has found, in the order of the hash.
Load(n) ==
    LET new == NotYetKnown(n) IN
    /\ redis[n].phase = "answered"
    /\ \E s \in [1..Cardinality(new) -> new] :
          /\ \A m \in new : \E i \in DOMAIN s : s[i] = m
          /\ partition' = [partition EXCEPT ![n] = @ \o
                [i \in DOMAIN s |-> [msg |-> s[i], acked |-> FALSE,
                                     at |-> 0, saved |-> TRUE]]]
    /\ redis' = [redis EXCEPT ![n] = [phase |-> "attached", found |-> {}]]
    /\ UNCHANGED <<logVars, store, tasks, consumed>>

-----------------------------------------------------------------------------
Elect(n) ==
    /\ Log!Elect(n)
    /\ UNCHANGED <<partition, redis, store, tasks, consumed>>

\* The process of a follower dies and a new one begins.  Tasks that have not
\* begun are gone; commands already sent may still reach Redis (one that does not
\* has failed before).  Bound: those of one dead process are left at a time.
Restart(n) ==
    LET sent(o) == {t \in {o} \X Msg \X Sent : tasks[t] > 0} IN
    /\ Log!Rejoin(n)
    /\ sent(Nil) = {} /\ Cardinality(sent(n)) <= MaxLeft
    /\ partition' = [partition EXCEPT ![n] = <<>>]
    /\ redis' = [redis EXCEPT ![n] = NoRedis]
    /\ tasks' = [t \in Task |->
          IF t[1] = n THEN 0
          ELSE IF t[1] = Nil /\ t[3] \in Sent THEN tasks[<<n, t[2], t[3]>>]
          ELSE tasks[t]]
    /\ UNCHANGED <<store, consumed>>

Next ==
    \/ \E n \in Node : \/ Elect(n) \/ HandleCommit(n) \/ Restart(n)
                       \/ Attach(n) \/ Answer(n) \/ AnswerLost(n) \/ Load(n)
    \/ \E m \in Msg : Publish(m) \/ \E c \in AckCall : Acknowledge(m, c)
    \/ \E n \in Node, b \in 1..MaxBatch : Consume(n, b)
    \/ \E n \in Node, m \in Msg :
          \/ BeginPersist(n, m)
          \/ \E kind \in Sent : Land(n, m, kind) \/ Fail(n, m, kind)
    \/ \E m \in Msg, kind \in Sent : Land(Nil, m, kind)

Spec == Init /\ [][Next]_vars

\* Tasks that write a message run and end (the others keep nobody waiting), clients
\* keep asking the leader for one message, and who is handed a message acknowledges
\* it until append_entry takes the call.  Nothing is assumed of replication: whether
\* an entry commits is not up to the queue.
Fairness ==
    /\ \A m \in Msg : WF_vars(m \in consumed /\ \E c \in AckCall : Acknowledge(m, c))
    /\ WF_vars(\E n \in Node : leader = n /\ Consume(n, 1))
    /\ \A n \in RedisNode, m \in Msg :
          WF_vars(BeginPersist(n, m) \/ Land(n, m, "set") \/ Fail(n, m, "set"))

FairSpec == Spec /\ Fairness

-----------------------------------------------------------------------------
\* Properties

\* Node n has applied an acknowledgement of m.
AckApplied(n, m) ==
    \E i \in 1..Len(delivered[n]) : order[i].op = "ack" /\ order[i].msg = m

\* A node offers a message of this cluster until it applies an acknowledgement,
\* and never after, however many copies it has and whenever it recovered them
\* (_handle_commit, _load_persisted_messages).
AckedStaysAcked ==
    \A n \in Node : \A i \in 1..Len(partition[n]) :
        LET copy == partition[n][i] IN
        copy.msg \notin OldMsg => (copy.acked <=> AckApplied(n, copy.msg))

\* A node has one copy of each publish entry it has applied, in the order of the
\* log; other copies come from Redis, one of a message and never after another.
CopiesAreExplained ==
    \A n \in Node :
        /\ \A k \in 1..Len(delivered[n]) : order[k].op = "publish" =>
              \E i \in 1..Len(partition[n]) :
                 partition[n][i].at = k /\ partition[n][i].msg = order[k].msg
        /\ \A j \in 1..Len(partition[n]) : \A i \in 1..(j - 1) :
              IF partition[n][j].at = 0 THEN partition[n][i].msg # partition[n][j].msg
                                        ELSE partition[n][i].at < partition[n][j].at

\* A message some node has handed to Redis is there, or on its way, as long as
\* no node has applied an acknowledgement: no other task takes it away.
Durable ==
    \A n \in Node : \A i \in 1..Len(partition[n]) :
        LET m == partition[n][i].msg IN
        partition[n][i].saved =>
            \/ store[m] = "unacked"
            \/ tasks[<<n, m, "persist">>] > 0
            \/ tasks[<<n, m, "set">>] > 0
            \/ leader # Nil /\ AckApplied(leader, m)

\* A message that can be recovered stays so until the leader has applied an
\* acknowledgement of it, through restarts and late commands of all nodes.
StoreKeepsUnacked ==
    [][\A m \in Msg : store[m] = "unacked" /\ store'[m] # "unacked"
                        => leader # Nil /\ AckApplied(leader, m)]_vars

\* The leader commits and applies, again and again, all that it has appended.
\* The code does not promise it: append_entry returns True whatever becomes of
\* replication, and entries of an older term wait for a new one.
CommitsGoOn == []<>(leader # Nil => Len(delivered[leader]) = Len(order))

\* Bound: no call of acknowledge is left for a message the leader offers.  It has
\* recovered the message from Redis after it applied all of them.
CallsUsedUp ==
    /\ leader # Nil
    /\ \E i \in Unacked(leader) : \A c \in AckCall : \E k \in 1..Len(delivered[leader]) :
          order[k] = Acked(partition[leader][i].msg, c)

\* Every message for which publish returned its identifier is acknowledged in
\* the end, if the leader goes on committing and clients go on asking it for
\* messages and acknowledging them: neither copies already acknowledged (consume)
\* nor tasks that fail keep a message from being handed out.
PublishedIsConsumed ==
    CommitsGoOn /\ []~CallsUsedUp => \A m \in Msg \ OldMsg :
        (\E i \in 1..Len(order) : order[i] = Published(m))
            ~> (leader # Nil /\ AckApplied(leader, m))
=============================================================================
