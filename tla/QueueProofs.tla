----------------------------- MODULE QueueProofs -----------------------------
(***************************************************************************)
(* Theorems about Queue, for every set of nodes and Redis clients, every   *)
(* finite set of messages, any number of acknowledgements and every bound. *)
(***************************************************************************)
EXTENDS Queue, FunctionTheorems, FiniteSetTheorems, SequenceTheorems, TLAPS

\* How many entries node n has applied.
Applied(n) == Len(delivered[n])

\* The leader is the first to apply an entry.
AppliedByLeader ==
    \A n \in Node : /\ Applied(n) <= Len(order)
                    /\ IF leader = Nil THEN Applied(n) = 0
                                       ELSE Applied(n) <= Applied(leader)

\* No entry is appended twice.
EntriesOnce == \A i, j \in 1..Len(order) : order[i] = order[j] => i = j

\* The leader has applied an acknowledgement of m.
Finished(m) == leader # Nil /\ AckApplied(leader, m)

\* Message m is of an earlier cluster, or the leader has applied its publish.
Known(m) ==
    \/ m \in OldMsg
    \/ leader # Nil /\ \E i \in 1..Applied(leader) : order[i] = Published(m)

\* A message is published before it is acknowledged.
AcksFollow ==
    \A j \in 1..Len(order), m \in Msg \ OldMsg :
        order[j].op = "ack" /\ order[j].msg = m
        => \E i \in 1..(j - 1) : order[i] = Published(m)

\* A copy of m at node n comes from entry k, which n has applied, or from Redis
\* (k = 0), and is acknowledged as the log says.
CopyFits(n, m, k, acked) ==
    /\ Known(m)
    /\ k # 0 => k <= Applied(n) /\ order[k] = Published(m)
    /\ acked => AckApplied(n, m)
    /\ m \notin OldMsg /\ AckApplied(n, m) => acked

CopiesFit(n) ==
    \A i \in 1..Len(partition[n]) :
        CopyFits(n, partition[n][i].msg, partition[n][i].at, partition[n][i].acked)

\* The two parts of CopiesAreExplained.
NoneMissing(n) ==
    \A k \in 1..Applied(n) : order[k].op = "publish" =>
        \E i \in 1..Len(partition[n]) :
            partition[n][i].at = k /\ partition[n][i].msg = order[k].msg

InPlace(n) ==
    \A j \in 1..Len(partition[n]) : \A i \in 1..(j - 1) :
        IF partition[n][j].at = 0 THEN partition[n][i].msg # partition[n][j].msg
                                  ELSE partition[n][i].at < partition[n][j].at

CopiesAt(n) == CopiesFit(n) /\ NoneMissing(n) /\ InPlace(n)

\* What is in Redis, or on its way there or back, is known.
OnlyKnown ==
    \A m \in Msg :
        /\ store[m] = "unacked" => Known(m)
        /\ \A n \in Node : m \in redis[n].found => Known(m)
        /\ \A o \in Node \cup {Nil} : /\ tasks[<<o, m, "persist">>] > 0 => Known(m)
                                      /\ tasks[<<o, m, "set">>] > 0 => Known(m)

\* Only an acknowledgement takes a message out of Redis.
TakenByAck ==
    \A m \in Msg :
        /\ \A n \in Node : m \in redis[n].found => store[m] = "unacked" \/ Finished(m)
        /\ \A o \in Node \cup {Nil} : /\ tasks[<<o, m, "setAcked">>] > 0 => Finished(m)
                                      /\ tasks[<<o, m, "delete">>] > 0 => Finished(m)

QueueInv ==
    /\ TypeOK
    /\ AppliedByLeader
    /\ EntriesOnce
    /\ AcksFollow
    /\ \A n \in Node : CopiesAt(n)
    /\ OnlyKnown
    /\ TakenByAck
    /\ Durable

-----------------------------------------------------------------------------
\* Facts about the operators of the model

\* A command publishes or acknowledges.
LEMMA EntryForms ==
    ASSUME NEW e \in Command
    PROVE  /\ e.msg \in Msg
           /\ e.op \in {"publish", "ack"}
           /\ e.op = "publish" <=> e = Published(e.msg)
<1>1. CASE \E m \in Msg : e = Published(m)
  BY <1>1 DEF Published
<1>2. CASE \E m \in Msg, c \in AckCall : e = Acked(m, c)
  BY <1>2 DEF Published, Acked
<1> QED
  BY <1>1, <1>2 DEF Command

\* The entries publish and acknowledge append.
LEMMA CommandForms ==
    /\ \A m \in Msg : /\ Published(m) \in Command
                      /\ Published(m).op = "publish" /\ Published(m).msg = m
    /\ \A m \in Msg, c \in AckCall : /\ Acked(m, c) \in Command
                                      /\ Acked(m, c).op = "ack" /\ Acked(m, c).msg = m
<1>1. /\ \A m \in Msg : Published(m) \in Command
      /\ \A m \in Msg, c \in AckCall : Acked(m, c) \in Command
  BY DEF Command
<1>2. /\ \A m \in Msg : Published(m).op = "publish" /\ Published(m).msg = m
      /\ \A m \in Msg, c \in AckCall : Acked(m, c).op = "ack" /\ Acked(m, c).msg = m
  BY DEF Published, Acked
<1> QED
  BY <1>1, <1>2

\* The commit of an acknowledgement marks every copy of its message, and changes
\* nothing else.
LEMMA MarkAckedEffect ==
    ASSUME NEW p \in Seq(Copy), NEW m
    PROVE  /\ MarkAcked(p, m) \in Seq(Copy)
           /\ Len(MarkAcked(p, m)) = Len(p)
           /\ \A i \in 1..Len(p) :
                 LET copy == MarkAcked(p, m)[i] IN
                 /\ copy.msg = p[i].msg /\ copy.at = p[i].at /\ copy.saved = p[i].saved
                 /\ copy.acked <=> p[i].acked \/ p[i].msg = m
<1> DEFINE mark(i) == IF p[i].msg = m THEN [p[i] EXCEPT !.acked = TRUE] ELSE p[i]
<1>1. Len(p) \in Nat /\ DOMAIN p = 1..Len(p)
  BY LenProperties
<1>2. ASSUME NEW i \in 1..Len(p)
      PROVE  /\ mark(i) \in Copy
             /\ mark(i).msg = p[i].msg /\ mark(i).at = p[i].at
             /\ mark(i).saved = p[i].saved
             /\ mark(i).acked <=> p[i].acked \/ p[i].msg = m
  <2>1. p[i] \in Copy
    BY ElementOfSeq
  <2> QED
    BY <2>1 DEF Copy
<1>3. MarkAcked(p, m) = [i \in 1..Len(p) |-> mark(i)]
  BY <1>1 DEF MarkAcked
<1> HIDE DEF mark
<1>4. MarkAcked(p, m) \in [1..Len(p) -> Copy]
  BY <1>2, <1>3
<1>5. MarkAcked(p, m) \in Seq(Copy) /\ Len(MarkAcked(p, m)) = Len(p)
  BY <1>1, <1>4
<1> QED
  BY <1>2, <1>3, <1>5

\* The copies after a task for message m has failed.
Unsaved(p, m) ==
    [i \in DOMAIN p |-> IF p[i].msg = m THEN [p[i] EXCEPT !.saved = FALSE] ELSE p[i]]

\* A copy whose persist task is running or failed is not saved, and otherwise as
\* it was.
LEMMA UnsavedEffect ==
    ASSUME NEW p \in Seq(Copy), NEW m
    PROVE  /\ Unsaved(p, m) \in Seq(Copy)
           /\ Len(Unsaved(p, m)) = Len(p)
           /\ \A i \in 1..Len(p) :
                 LET copy == Unsaved(p, m)[i] IN
                 /\ copy.msg = p[i].msg /\ copy.at = p[i].at /\ copy.acked = p[i].acked
                 /\ copy.saved <=> p[i].saved /\ p[i].msg # m
<1> DEFINE fix(i) == IF p[i].msg = m THEN [p[i] EXCEPT !.saved = FALSE] ELSE p[i]
<1>1. Len(p) \in Nat /\ DOMAIN p = 1..Len(p)
  BY LenProperties
<1>2. ASSUME NEW i \in 1..Len(p)
      PROVE  /\ fix(i) \in Copy
             /\ fix(i).msg = p[i].msg /\ fix(i).at = p[i].at
             /\ fix(i).acked = p[i].acked
             /\ fix(i).saved <=> p[i].saved /\ p[i].msg # m
  <2>1. p[i] \in Copy
    BY ElementOfSeq
  <2> QED
    BY <2>1 DEF Copy
<1>3. Unsaved(p, m) = [i \in 1..Len(p) |-> fix(i)]
  BY <1>1 DEF Unsaved
<1> HIDE DEF fix
<1>4. Unsaved(p, m) \in [1..Len(p) -> Copy]
  BY <1>2, <1>3
<1>5. Unsaved(p, m) \in Seq(Copy) /\ Len(Unsaved(p, m)) = Len(p)
  BY <1>1, <1>4
<1> QED
  BY <1>2, <1>3, <1>5

\* Scheduling adds one task and takes none away.
LEMMA ScheduledEffect ==
    ASSUME TypeOK, NEW n \in Node, NEW m \in Msg,
           NEW kind \in {"persist", "delete"}
    PROVE  /\ Scheduled(n, m, kind) \in [Task -> Nat]
           /\ \A t \in Task : /\ tasks[t] \in Nat
                              /\ tasks[t] <= Scheduled(n, m, kind)[t]
                              /\ t # <<n, m, kind>> => Scheduled(n, m, kind)[t] = tasks[t]
           /\ Attached(n) => Scheduled(n, m, kind)[<<n, m, kind>>] > 0
<1> DEFINE u == <<n, m, kind>>
<1>1. u \in Task /\ tasks \in [Task -> Nat]
  BY DEF TypeOK, Task, Sent
<1> HIDE DEF u
<1>2. CASE Attached(n)
  <2>1. Scheduled(n, m, kind) = [tasks EXCEPT ![u] = tasks[u] + 1]
    BY <1>2 DEF Scheduled, u
  <2>2. tasks[u] + 1 \in Nat /\ tasks[u] + 1 > 0
    BY <1>1
  <2>3. /\ Scheduled(n, m, kind) \in [Task -> Nat]
        /\ Scheduled(n, m, kind)[u] = tasks[u] + 1
        /\ \A t \in Task : t # u => Scheduled(n, m, kind)[t] = tasks[t]
    BY <1>1, <2>1, <2>2
  <2>4. \A t \in Task : tasks[t] \in Nat /\ tasks[t] <= Scheduled(n, m, kind)[t]
    BY <1>1, <2>3
  <2> QED
    BY <2>2, <2>3, <2>4 DEF u
<1>3. CASE ~Attached(n)
  BY <1>1, <1>3 DEF Scheduled
<1> QED
  BY <1>2, <1>3

\* A task ends, or one goes on to its hset.
LEMMA TaskEnds ==
    ASSUME TypeOK, NEW t \in Task, tasks[t] > 0,
           tasks' = [tasks EXCEPT ![t] = @ - 1]
    PROVE  /\ tasks' \in [Task -> Nat]
           /\ \A u \in Task : tasks'[u] > 0 => tasks[u] > 0
           /\ \A u \in Task : u # t => tasks'[u] = tasks[u]
<1>1. tasks \in [Task -> Nat] /\ tasks[t] - 1 \in Nat
  BY DEF TypeOK
<1> QED
  BY <1>1

\* What becomes of a task that begins.
Setting(n, m) ==
    IF \E i \in DOMAIN partition[n] : partition[n][i].msg = m /\ partition[n][i].acked
    THEN "setAcked" ELSE "set"

\* A persist task that begins becomes the command it sends to Redis.
LEMMA BeginEffect ==
    ASSUME TypeOK, NEW n \in Node, NEW m \in Msg, BeginPersist(n, m)
    PROVE  /\ tasks' \in [Task -> Nat]
           /\ tasks[<<n, m, "persist">>] > 0
           /\ tasks'[<<n, m, Setting(n, m)>>] > 0
           /\ \A u \in Task : /\ u # <<n, m, "persist">> => tasks[u] <= tasks'[u]
                              /\ u # <<n, m, Setting(n, m)>> /\ tasks'[u] > 0
                                    => tasks[u] > 0
<1> DEFINE a == <<n, m, "persist">>
           b == <<n, m, Setting(n, m)>>
<1>1. a \in Task /\ b \in Task /\ a # b /\ tasks \in [Task -> Nat]
  BY DEF TypeOK, Task, Sent, Setting
<1>2. /\ tasks[a] > 0
      /\ tasks' = [tasks EXCEPT ![a] = @ - 1, ![b] = @ + 1]
  BY DEF BeginPersist, Setting
<1> HIDE DEF a, b
<1>3. /\ tasks[a] - 1 \in Nat /\ tasks[b] + 1 \in Nat
      /\ tasks' = [tasks EXCEPT ![a] = tasks[a] - 1, ![b] = tasks[b] + 1]
  BY <1>1, <1>2
<1>4. /\ tasks' \in [Task -> Nat]
      /\ tasks'[b] = tasks[b] + 1 /\ tasks'[a] = tasks[a] - 1
      /\ \A u \in Task : u # a /\ u # b => tasks'[u] = tasks[u]
  BY <1>1, <1>3
<1>5. \A u \in Task : /\ u # a => tasks[u] <= tasks'[u]
                      /\ u # b /\ tasks'[u] > 0 => tasks[u] > 0
  BY <1>1, <1>4
<1>6. tasks'[b] > 0
  BY <1>1, <1>4
<1> QED
  BY <1>2, <1>4, <1>5, <1>6 DEF a, b

\* Tasks are named by node, message and kind.
LEMMA TaskTypes ==
    \A n \in Node \cup {Nil}, m \in Msg, kind \in {"persist"} \cup Sent :
        /\ <<n, m, kind>> \in Task
        /\ <<n, m, kind>>[1] = n /\ <<n, m, kind>>[2] = m /\ <<n, m, kind>>[3] = kind
BY DEF Task

\* A process that dies leaves the commands it has sent, to nobody (Nil); the
\* tasks of other nodes are as before.
LEMMA RestartTasks ==
    ASSUME TypeOK, NEW n \in Node, Restart(n)
    PROVE  /\ tasks' \in [Task -> Nat]
           /\ \A o \in Node \cup {Nil}, m \in Msg, kind \in {"persist"} \cup Sent :
                 tasks'[<<o, m, kind>>] > 0 =>
                    \/ tasks[<<o, m, kind>>] > 0
                    \/ kind \in Sent /\ tasks[<<n, m, kind>>] > 0
           /\ \A o \in Node, m \in Msg, kind \in {"persist"} \cup Sent :
                 o # n => tasks'[<<o, m, kind>>] = tasks[<<o, m, kind>>]
<1> DEFINE left(t) == IF t[1] = n THEN 0
                      ELSE IF t[1] = Nil /\ t[3] \in Sent THEN tasks[<<n, t[2], t[3]>>]
                      ELSE tasks[t]
<1>1. tasks' = [t \in Task |-> left(t)]
  BY DEF Restart
<1>2. tasks \in [Task -> Nat]
  BY DEF TypeOK
<1>3. ASSUME NEW t \in Task
      PROVE  left(t) \in Nat
  <2>1. t[2] \in Msg /\ (t[3] \in Sent => <<n, t[2], t[3]>> \in Task)
    BY DEF Task
  <2> QED
    BY <1>2, <2>1
<1>4. ASSUME NEW o \in Node \cup {Nil}, NEW m \in Msg, NEW kind \in {"persist"} \cup Sent
      PROVE  /\ o = n => tasks'[<<o, m, kind>>] = 0
             /\ o # n /\ o = Nil /\ kind \in Sent =>
                   tasks'[<<o, m, kind>>] = tasks[<<n, m, kind>>]
             /\ o # n /\ ~(o = Nil /\ kind \in Sent) =>
                   tasks'[<<o, m, kind>>] = tasks[<<o, m, kind>>]
  <2> DEFINE t == <<o, m, kind>>
  <2>1. t \in Task /\ t[1] = o /\ t[2] = m /\ t[3] = kind
    BY TaskTypes
  <2>2. tasks'[t] = left(t)
    BY <1>1, <2>1
  <2> QED
    BY <2>1, <2>2
<1> HIDE DEF left
<1>5. tasks' \in [Task -> Nat]
  BY <1>1, <1>3
<1>6. ASSUME NEW o \in Node \cup {Nil}, NEW m \in Msg, NEW kind \in {"persist"} \cup Sent,
             tasks'[<<o, m, kind>>] > 0
      PROVE  \/ tasks[<<o, m, kind>>] > 0
             \/ kind \in Sent /\ tasks[<<n, m, kind>>] > 0
  <2> DEFINE now == tasks'[<<o, m, kind>>]
             own == tasks[<<o, m, kind>>]
             rest == tasks[<<n, m, kind>>]
  <2>1. /\ o = n => now = 0
        /\ o # n /\ o = Nil /\ kind \in Sent => now = rest
        /\ o # n /\ ~(o = Nil /\ kind \in Sent) => now = own
    BY <1>4
  <2>2. now > 0
    BY <1>6
  <2> HIDE DEF now, own, rest
  <2>3. now # 0
    BY <2>2
  <2>4. own > 0 \/ (kind \in Sent /\ rest > 0)
    BY Zenon, <2>1, <2>2, <2>3
  <2> QED
    BY <2>4 DEF own, rest
<1>7. ASSUME NEW o \in Node, NEW m \in Msg, NEW kind \in {"persist"} \cup Sent, o # n
      PROVE  tasks'[<<o, m, kind>>] = tasks[<<o, m, kind>>]
  BY <1>4, <1>7, QueueAssumption
<1> QED
  BY <1>5, <1>6, <1>7

\* append_entry puts one new command at the end of the order.
LEMMA ProposeEffect ==
    ASSUME TypeOK, NEW e \in Command, Log!Propose(e)
    PROVE  /\ leader # Nil /\ leader \in Node
           /\ order' \in Seq(Command)
           /\ Len(order) \in Nat /\ Len(order') = Len(order) + 1
           /\ order'[Len(order) + 1] = e
           /\ \A i \in 1..Len(order) : order'[i] = order[i] /\ order[i] # e
           /\ leader' = leader /\ delivered' = delivered
BY DEF TypeOK, Log!TypeOK, Log!Propose

\* A node applies one more entry.
LEMMA DeliverEffect ==
    ASSUME TypeOK, NEW n \in Node, HandleCommit(n), NEW i, i = Applied(n) + 1
    PROVE  /\ leader \in Node /\ leader # Nil
           /\ i \in Nat /\ i \in 1..Len(order) /\ Len(order) \in Nat
           /\ order[i] \in Command
           /\ leader' = leader /\ order' = order
           /\ delivered' \in [Node -> Seq(Command)]
           /\ Applied(n)' = i
           /\ \A p \in Node : p # n => Applied(p)' = Applied(p)
           /\ n # leader => i <= Applied(leader)
<1> DEFINE d == SubSeq(order, 1, i)
<1>1. /\ leader # Nil /\ leader \in Node
      /\ n # leader => i <= Applied(leader)
      /\ leader' = leader /\ order' = order
      /\ delivered' = [delivered EXCEPT ![n] = d]
      /\ i <= Len(order)
  BY DEF HandleCommit, Log!Deliver, Applied, TypeOK, Log!TypeOK
<1>2. i \in Nat /\ i \in 1..Len(order) /\ Len(order) \in Nat
      /\ \A j \in 1..i : order[j] \in Command
  BY <1>1 DEF Applied, TypeOK, Log!TypeOK
<1>3. d \in Seq(Command) /\ Len(d) = i
  BY <1>2, SubSeqProperties
<1> HIDE DEF d
<1>4. delivered' \in [Node -> Seq(Command)] /\ delivered'[n] = d
      /\ \A p \in Node : p # n => delivered'[p] = delivered[p]
  BY <1>1, <1>3 DEF TypeOK, Log!TypeOK
<1>5. order[i] \in Command
  BY <1>2
<1>6. Applied(n)' = i /\ \A p \in Node : p # n => Applied(p)' = Applied(p)
  BY <1>3, <1>4 DEF Applied
<1> QED
  BY <1>1, <1>2, <1>4, <1>5, <1>6

-----------------------------------------------------------------------------
\* The variables keep their types.

\* No operation leaves the log outside its type.
LEMMA LogTypeStep ==
    ASSUME TypeOK, [Next]_vars
    PROVE  Log!TypeOK'
<1>1. ASSUME NEW e \in Command, Log!Propose(e)
      PROVE  Log!TypeOK'
  BY <1>1, ProposeEffect DEF TypeOK, Log!TypeOK
<1>2. ASSUME NEW n \in Node, Elect(n)
      PROVE  Log!TypeOK'
  BY <1>2 DEF Elect, Log!Elect, TypeOK, Log!TypeOK
<1>3. ASSUME NEW n \in Node, HandleCommit(n)
      PROVE  Log!TypeOK'
  BY <1>3, DeliverEffect DEF TypeOK, Log!TypeOK
<1>4. ASSUME NEW n \in Node, Restart(n)
      PROVE  Log!TypeOK'
  BY <1>4, EmptySeq DEF Restart, Log!Rejoin, TypeOK, Log!TypeOK
<1>5. ASSUME UNCHANGED logVars
      PROVE  Log!TypeOK'
  BY <1>5 DEF logVars, TypeOK, Log!TypeOK
<1>6. CASE \E n \in Node : \/ Elect(n) \/ HandleCommit(n) \/ Restart(n)
                           \/ Attach(n) \/ Answer(n) \/ AnswerLost(n) \/ Load(n)
  BY <1>2, <1>3, <1>4, <1>5, <1>6 DEF Attach, Answer, AnswerLost, Load
<1>7. CASE \E m \in Msg : Publish(m) \/ \E c \in AckCall : Acknowledge(m, c)
  BY <1>1, <1>7, CommandForms DEF Publish, Acknowledge
<1>8. CASE \E n \in Node, b \in 1..MaxBatch : Consume(n, b)
  BY <1>5, <1>8 DEF Consume
<1>9. CASE \E n \in Node, m \in Msg :
             \/ BeginPersist(n, m)
             \/ \E kind \in Sent : Land(n, m, kind) \/ Fail(n, m, kind)
  BY <1>5, <1>9 DEF BeginPersist, Land, Fail
<1>10. CASE \E m \in Msg, kind \in Sent : Land(Nil, m, kind)
  BY <1>5, <1>10 DEF Land
<1>11. CASE UNCHANGED vars
  BY <1>5, <1>11 DEF vars, logVars
<1> QED
  BY <1>6, <1>7, <1>8, <1>9, <1>10, <1>11 DEF Next

\* What handing out messages does to the tasks.
LEMMA ConsumeEffect ==
    ASSUME TypeOK, NEW n \in Node, NEW b, Consume(n, b)
    PROVE  /\ tasks' \in [Task -> Nat]
           /\ \A t \in Task : tasks[t] \in Nat /\ tasks[t] <= tasks'[t]
           /\ \A p \in Node \cup {Nil}, m \in Msg, kind \in Sent :
                 tasks'[<<p, m, kind>>] = tasks[<<p, m, kind>>]
           /\ consumed' \subseteq Msg
           /\ \A p \in Node \cup {Nil}, m \in Msg :
                 tasks'[<<p, m, "persist">>] # tasks[<<p, m, "persist">>]
                 => p \in Node /\ \E i \in 1..Len(partition[p]) : partition[p][i].msg = m
<1> DEFINE copies(m) == {i \in Batch(n, b) : partition[n][i].msg = m}
           batch == {m \in Msg : copies(m) # {}}
<1>1. Len(partition[n]) \in Nat /\ DOMAIN partition[n] = 1..Len(partition[n])
  BY LenProperties DEF TypeOK
<1>2. ASSUME NEW m
      PROVE  /\ Cardinality(copies(m)) \in Nat
             /\ Cardinality(copies(m)) # 0 => copies(m) # {}
             /\ copies(m) # {} =>
                   \E i \in 1..Len(partition[n]) : partition[n][i].msg = m
  <2>1. copies(m) \subseteq 1..Len(partition[n])
    BY <1>1 DEF Batch, Unacked
  <2>2. IsFiniteSet(1..Len(partition[n]))
    BY <1>1, FS_Interval
  <2>3. IsFiniteSet(copies(m))
    BY <2>1, <2>2, FS_Subset
  <2>4. Cardinality(copies(m)) \in Nat
    BY <2>3, FS_CardinalityType
  <2>5. Cardinality(copies(m)) # 0 => copies(m) # {}
    BY FS_EmptySet
  <2> QED
    BY <2>1, <2>4, <2>5
<1>3. /\ consumed' = consumed \cup batch
      /\ tasks' = IF ~Attached(n) THEN tasks ELSE
                  [t \in Task |->
                     IF t[1] = n /\ t[3] = "persist"
                     THEN tasks[t] + Cardinality(copies(t[2])) ELSE tasks[t]]
  BY DEF Consume
<1> HIDE DEF copies
<1>4. tasks \in [Task -> Nat] /\ consumed \subseteq Msg
  BY DEF TypeOK
<1>5. /\ tasks' \in [Task -> Nat]
      /\ \A t \in Task : tasks[t] \in Nat /\ tasks[t] <= tasks'[t]
      /\ \A t \in Task : tasks'[t] # tasks[t] =>
            t[1] = n /\ t[3] = "persist" /\ Cardinality(copies(t[2])) # 0
  <2>1. CASE ~Attached(n)
    BY <1>3, <1>4, <2>1
  <2>2. CASE Attached(n)
    BY <1>2, <1>3, <1>4, <2>2
  <2> QED
    BY <2>1, <2>2
<1>6. \A p \in Node \cup {Nil}, m \in Msg, kind \in {"persist"} \cup Sent :
        /\ <<p, m, kind>> \in Task
        /\ <<p, m, kind>>[1] = p /\ <<p, m, kind>>[2] = m /\ <<p, m, kind>>[3] = kind
  BY DEF Task
<1>7. \A p \in Node \cup {Nil}, m \in Msg, kind \in Sent :
        tasks'[<<p, m, kind>>] = tasks[<<p, m, kind>>]
  <2> SUFFICES ASSUME NEW p \in Node \cup {Nil}, NEW m \in Msg, NEW kind \in Sent
               PROVE  tasks'[<<p, m, kind>>] = tasks[<<p, m, kind>>]
    OBVIOUS
  <2> DEFINE t == <<p, m, kind>>
  <2>1. t \in Task /\ t[3] = kind /\ kind # "persist"
    BY <1>6 DEF Sent
  <2> HIDE DEF t
  <2>2. tasks'[t] = tasks[t]
    BY <1>5, <2>1
  <2> QED
    BY <2>2 DEF t
<1>8. ASSUME NEW p \in Node \cup {Nil}, NEW m \in Msg,
             tasks'[<<p, m, "persist">>] # tasks[<<p, m, "persist">>]
      PROVE  p \in Node /\ \E i \in 1..Len(partition[p]) : partition[p][i].msg = m
  <2> DEFINE t == <<p, m, "persist">>
  <2>1. t \in Task /\ t[1] = p /\ t[2] = m /\ tasks'[t] # tasks[t]
    BY <1>6, <1>8
  <2> HIDE DEF t
  <2>2. t[1] = n /\ Cardinality(copies(t[2])) # 0
    BY <1>5, <2>1
  <2>3. p = n /\ Cardinality(copies(m)) # 0
    BY <2>1, <2>2
  <2> QED
    BY <1>2, <2>3
<1>9. consumed' \subseteq Msg
  BY <1>3, <1>4
<1> QED
  BY <1>5, <1>7, <1>8, <1>9

\* What a node adds to its copies when it has Redis' answer.
LEMMA LoadEffect ==
    ASSUME TypeOK, NEW n \in Node, Load(n)
    PROVE  /\ partition' \in [Node -> Seq(Copy)]
           /\ \A p \in Node : p # n => partition'[p] = partition[p]
           /\ Len(partition[n]) \in Nat /\ Len(partition'[n]) \in Nat
           /\ Len(partition[n]) <= Len(partition'[n])
           /\ \A i \in 1..Len(partition[n]) : partition'[n][i] = partition[n][i]
           /\ \A i \in (Len(partition[n]) + 1)..Len(partition'[n]) :
                 /\ partition'[n][i].msg \in NotYetKnown(n)
                 /\ ~partition'[n][i].acked
                 /\ partition'[n][i].at = 0
                 /\ \A j \in (Len(partition[n]) + 1)..(i - 1) :
                       partition'[n][j].msg # partition'[n][i].msg
<1> DEFINE new == NotYetKnown(n)
           N == Cardinality(new)
           L == Len(partition[n])
<1>1. PICK s \in [1..N -> new] :
        /\ \A m \in new : \E i \in 1..N : s[i] = m
        /\ partition' = [partition EXCEPT ![n] = partition[n] \o
              [i \in DOMAIN s |-> [msg |-> s[i], acked |-> FALSE, at |-> 0,
                                   saved |-> TRUE]]]
  BY DEF Load
<1>2. new \subseteq Msg /\ IsFiniteSet(new)
  <2>1. new \subseteq Msg
    BY DEF NotYetKnown, TypeOK, Redis
  <2> QED
    BY <2>1, FS_Subset, QueueAssumption
<1>3. N \in Nat
  BY <1>2, FS_CardinalityType
<1>4. L \in Nat /\ partition[n] \in Seq(Copy)
  BY LenProperties DEF TypeOK
<1> HIDE DEF new, N, L
<1>5. \A i, j \in 1..N : s[i] = s[j] => i = j
  <2>1. s \in Surjection(1..N, new)
    BY <1>1 DEF Surjection
  <2>2. IsFiniteSet(1..N) /\ Cardinality(1..N) = N
    <3>1. N >= 1 \/ N = 0
      BY <1>3
    <3> QED
      BY <1>3, <3>1, FS_Interval
  <2>3. s \in Injection(1..N, new)
    BY <2>1, <2>2, FS_SurjSameCardinalityImpliesInj DEF N
  <2> QED
    BY <2>3 DEF Injection, IsInjective
<1> DEFINE rec(i) == [msg |-> s[i], acked |-> FALSE, at |-> 0, saved |-> TRUE]
           t == [i \in 1..N |-> rec(i)]
<1>6. t \in Seq(Copy) /\ Len(t) = N
  <2>1. \A i \in 1..N : rec(i) \in Copy
    BY <1>2 DEF Copy
  <2> HIDE DEF rec
  <2>2. t \in [1..N -> Copy]
    BY <2>1
  <2> QED
    BY <1>3, <2>2
<1>7. \A i \in 1..N : /\ t[i].msg = s[i] /\ s[i] \in new /\ ~t[i].acked
                      /\ t[i].at = 0
  BY <1>1
<1>8. partition' = [partition EXCEPT ![n] = partition[n] \o t]
  BY <1>1
<1> HIDE DEF t
<1> DEFINE u == partition[n] \o t
<1>9. /\ u \in Seq(Copy) /\ Len(u) = L + N
      /\ \A i \in 1..L : u[i] = partition[n][i]
      /\ \A i \in (L + 1)..(L + N) : u[i] = t[i - L] /\ i - L \in 1..N
  <2>1. \A i \in 1..(L + N) : u[i] = IF i <= L THEN partition[n][i] ELSE t[i - L]
    BY <1>4, <1>6, ConcatProperties DEF L
  <2>2. u \in Seq(Copy) /\ Len(u) = L + N
    BY <1>4, <1>6, ConcatProperties DEF L
  <2>3. (\A i \in 1..L : i \in 1..(L + N) /\ i <= L)
        /\ \A i \in (L + 1)..(L + N) : i \in 1..(L + N) /\ ~(i <= L) /\ i - L \in 1..N
    BY <1>3, <1>4
  <2> HIDE DEF u
  <2> QED
    BY <2>1, <2>2, <2>3
<1>10. partition'[n] = u /\ \A p \in Node : p # n => partition'[p] = partition[p]
  BY <1>8 DEF TypeOK
<1>11. partition' \in [Node -> Seq(Copy)]
  BY <1>8, <1>9 DEF TypeOK
<1> HIDE DEF u
<1>12. ASSUME NEW i \in (L + 1)..(L + N)
       PROVE  /\ u[i].msg \in new /\ ~u[i].acked /\ u[i].at = 0
              /\ \A j \in (L + 1)..(i - 1) : u[j].msg # u[i].msg
  <2>1. u[i].msg = s[i - L] /\ u[i].msg \in new /\ ~u[i].acked /\ u[i].at = 0
        /\ i - L \in 1..N
    BY <1>7, <1>9
  <2>2. ASSUME NEW j \in (L + 1)..(i - 1)
        PROVE  u[j].msg # u[i].msg
    <3>1. j \in (L + 1)..(L + N) /\ j - L # i - L
      BY <1>3, <1>4
    <3>2. u[j].msg = s[j - L] /\ j - L \in 1..N
      BY <1>7, <1>9, <3>1
    <3> QED
      BY <1>5, <2>1, <3>1, <3>2
  <2> QED
    BY <2>1, <2>2
<1>13. L <= L + N /\ L + N \in Nat
  BY <1>3, <1>4
<1> QED
  BY <1>4, <1>9, <1>10, <1>11, <1>12, <1>13 DEF L, new

\* No operation leaves a variable outside its type.
LEMMA TypeStep ==
    ASSUME TypeOK, [Next]_vars
    PROVE  TypeOK'
<1>1. Log!TypeOK'
  BY LogTypeStep
<1>2. ASSUME NEW n \in Node, HandleCommit(n)
      PROVE  TypeOK'
  <2> DEFINE i == Applied(n) + 1
             e == order[i]
  <2>1. i \in Nat /\ e \in Command
    BY <1>2, DeliverEffect
  <2>2. e.msg \in Msg
    BY <2>1, EntryForms
  <2>3. /\ UNCHANGED <<redis, store, consumed>>
        /\ \/ /\ partition' = [partition EXCEPT ![n] = Append(@,
                   [msg |-> e.msg, acked |-> FALSE, at |-> i, saved |-> Attached(n)])]
              /\ tasks' = Scheduled(n, e.msg, "persist")
           \/ /\ partition' = [partition EXCEPT ![n] = MarkAcked(@, e.msg)]
              /\ tasks' = Scheduled(n, e.msg, "delete")
    BY <1>2 DEF HandleCommit, Applied
  <2> HIDE DEF i, e
  <2>4. tasks' \in [Task -> Nat]
    <3>1. /\ Scheduled(n, e.msg, "persist") \in [Task -> Nat]
          /\ Scheduled(n, e.msg, "delete") \in [Task -> Nat]
      BY <2>2, ScheduledEffect
    <3> QED
      BY <2>3, <3>1
  <2>5. partition' \in [Node -> Seq(Copy)]
    <3>1. [msg |-> e.msg, acked |-> FALSE, at |-> i, saved |-> Attached(n)] \in Copy
      BY <2>1, <2>2 DEF Copy, Attached
    <3>2. partition[n] \in Seq(Copy)
      BY DEF TypeOK
    <3>3. Append(partition[n],
             [msg |-> e.msg, acked |-> FALSE, at |-> i, saved |-> Attached(n)])
            \in Seq(Copy)
      BY <3>1, <3>2
    <3>4. MarkAcked(partition[n], e.msg) \in Seq(Copy)
      BY <3>2, MarkAckedEffect
    <3> QED
      BY <2>3, <3>3, <3>4 DEF TypeOK
  <2> QED
    BY <1>1, <2>3, <2>4, <2>5 DEF TypeOK
<1>3. ASSUME NEW n \in Node, Elect(n)
      PROVE  TypeOK'
  BY <1>1, <1>3 DEF Elect, TypeOK
<1>4. ASSUME NEW n \in Node, Restart(n)
      PROVE  TypeOK'
  <2>1. tasks' \in [Task -> Nat]
    BY <1>4, RestartTasks
  <2>2. partition' \in [Node -> Seq(Copy)]
    BY <1>4, EmptySeq DEF Restart, TypeOK
  <2>3. redis' \in [Node -> Redis]
    BY <1>4 DEF Restart, TypeOK, NoRedis, Redis
  <2> QED
    BY <1>1, <1>4, <2>1, <2>2, <2>3 DEF Restart, TypeOK
<1>5. ASSUME NEW n \in Node, Attach(n) \/ Answer(n) \/ AnswerLost(n)
      PROVE  TypeOK'
  <2>1. redis' \in [Node -> Redis]
    <3>1. redis \in [Node -> Redis] /\ redis[n] \in Redis
      BY DEF TypeOK
    <3>2. /\ [redis[n] EXCEPT !.phase = "asked"] \in Redis
          /\ [redis[n] EXCEPT !.phase = "attached"] \in Redis
          /\ [phase |-> "answered", found |-> {m \in Msg : store[m] = "unacked"}]
                \in Redis
      BY <3>1 DEF Redis
    <3>3. \E r \in Redis : redis' = [redis EXCEPT ![n] = r]
      BY <1>5, <3>1, <3>2 DEF Attach, Answer, AnswerLost
    <3> QED
      BY <3>1, <3>3
  <2> QED
    BY <1>1, <1>5, <2>1 DEF Attach, Answer, AnswerLost, TypeOK
<1>6. ASSUME NEW n \in Node, Load(n)
      PROVE  TypeOK'
  <2>1. redis' \in [Node -> Redis]
    BY <1>6 DEF Load, TypeOK, Redis
  <2>2. partition' \in [Node -> Seq(Copy)]
    BY <1>6, LoadEffect
  <2> QED
    BY <1>1, <1>6, <2>1, <2>2 DEF Load, TypeOK
<1>7. ASSUME NEW m \in Msg, Publish(m) \/ \E c \in AckCall : Acknowledge(m, c)
      PROVE  TypeOK'
  BY <1>1, <1>7 DEF Publish, Acknowledge, TypeOK
<1>8. ASSUME NEW n \in Node, NEW b, Consume(n, b)
      PROVE  TypeOK'
  <2>1. UNCHANGED <<partition, redis, store>>
    BY <1>8 DEF Consume
  <2> QED
    BY <1>1, <1>8, <2>1, ConsumeEffect DEF TypeOK
<1>9. ASSUME NEW n \in Node, NEW m \in Msg, BeginPersist(n, m)
      PROVE  TypeOK'
  <2>1. tasks' \in [Task -> Nat]
    BY <1>9, BeginEffect
  <2> QED
    BY <1>1, <1>9, <2>1 DEF BeginPersist, TypeOK
<1>10. ASSUME NEW n \in Node \cup {Nil}, NEW m \in Msg, NEW kind \in Sent,
              Land(n, m, kind) \/ (n \in Node /\ Fail(n, m, kind))
       PROVE  TypeOK'
  <2>1. tasks' \in [Task -> Nat]
    <3>1. <<n, m, kind>> \in Task
      BY DEF Task
    <3> QED
      BY <1>10, <3>1, TaskEnds DEF Land, Fail
  <2>2. CASE Land(n, m, kind)
    <3>1. Written[kind] \in {"absent", "unacked", "acked"}
      BY DEF Written, Sent
    <3>2. /\ store' = [store EXCEPT ![m] = Written[kind]]
          /\ store \in [Msg -> {"absent", "unacked", "acked"}]
      BY <2>2 DEF Land, TypeOK
    <3>3. store' \in [Msg -> {"absent", "unacked", "acked"}]
      BY <3>1, <3>2
    <3>4. UNCHANGED <<logVars, partition, redis, consumed>>
      BY <2>2 DEF Land
    <3> QED
      BY <1>1, <2>1, <3>3, <3>4 DEF TypeOK
  <2>3. CASE n \in Node /\ Fail(n, m, kind)
    <3>1. partition' = [partition EXCEPT ![n] = Unsaved(partition[n], m)]
      BY <2>3 DEF Fail, Unsaved
    <3>2. partition' \in [Node -> Seq(Copy)]
      <4>1. partition \in [Node -> Seq(Copy)]
        BY DEF TypeOK
      <4>2. partition[n] \in Seq(Copy)
        BY <2>3, <4>1
      <4>3. Unsaved(partition[n], m) \in Seq(Copy)
        BY <4>2, UnsavedEffect
      <4> QED
        BY <3>1, <4>1, <4>3
    <3>3. UNCHANGED <<logVars, redis, store, consumed>>
      BY <2>3 DEF Fail
    <3> QED
      BY <1>1, <2>1, <3>2, <3>3 DEF TypeOK
  <2> QED
    BY <1>10, <2>2, <2>3
<1>11. CASE UNCHANGED vars
  BY <1>1, <1>11 DEF vars, TypeOK
<1> QED
  BY <1>2, <1>3, <1>4, <1>5, <1>6, <1>7, <1>8, <1>9, <1>10, <1>11 DEF Next

-----------------------------------------------------------------------------
\* What any step does to the log.

\* The operations by what they do to the log.
LEMMA LogStep ==
    ASSUME [Next]_vars
    PROVE  \/ UNCHANGED <<leader, order, delivered>>
           \/ \E n \in Node : Elect(n) \/ HandleCommit(n) \/ Restart(n)
           \/ \E m \in Msg : Publish(m) \/ \E c \in AckCall : Acknowledge(m, c)
<1>1. CASE \E n \in Node : \/ Elect(n) \/ HandleCommit(n) \/ Restart(n)
                           \/ Attach(n) \/ Answer(n) \/ AnswerLost(n) \/ Load(n)
  BY <1>1 DEF Attach, Answer, AnswerLost, Load, logVars
<1>2. CASE \E n \in Node, b \in 1..MaxBatch : Consume(n, b)
  BY <1>2 DEF Consume, logVars
<1>3. CASE \E n \in Node, m \in Msg :
             \/ BeginPersist(n, m)
             \/ \E kind \in Sent : Land(n, m, kind) \/ Fail(n, m, kind)
  <2>1. PICK n \in Node, m \in Msg :
            \/ BeginPersist(n, m)
            \/ \E kind \in Sent : Land(n, m, kind) \/ Fail(n, m, kind)
    BY <1>3
  <2>2. UNCHANGED logVars
    BY Zenon, <2>1 DEF BeginPersist, Land, Fail
  <2> QED
    BY <2>2 DEF logVars
<1>4. CASE \E m \in Msg, kind \in Sent : Land(Nil, m, kind)
  BY <1>4 DEF Land, logVars
<1>5. CASE UNCHANGED vars
  BY <1>5 DEF vars
<1> QED
  BY SMTT(30), <1>1, <1>2, <1>3, <1>4, <1>5 DEF Next

\* Entries are only added.
LEMMA OrderGrows ==
    ASSUME TypeOK, [Next]_vars
    PROVE  /\ Len(order) \in Nat /\ Len(order') \in Nat
           /\ Len(order) <= Len(order')
           /\ \A i \in 1..Len(order) : order'[i] = order[i]
<1>1. Len(order) \in Nat
  BY DEF TypeOK, Log!TypeOK
<1>2. ASSUME order' = order
      PROVE  /\ Len(order') \in Nat /\ Len(order) <= Len(order')
             /\ \A i \in 1..Len(order) : order'[i] = order[i]
  BY <1>1, <1>2
<1>3. ASSUME NEW e \in Command, Log!Propose(e)
      PROVE  /\ Len(order') \in Nat /\ Len(order) <= Len(order')
             /\ \A i \in 1..Len(order) : order'[i] = order[i]
  BY <1>3, ProposeEffect
<1>4. ASSUME NEW n \in Node, Elect(n) \/ HandleCommit(n) \/ Restart(n)
      PROVE  order' = order
  BY <1>4 DEF Elect, HandleCommit, Restart, Log!Elect, Log!Deliver, Log!Rejoin
<1>5. ASSUME NEW m \in Msg, Publish(m) \/ \E c \in AckCall : Acknowledge(m, c)
      PROVE  \E e \in Command : Log!Propose(e)
  BY <1>5, CommandForms DEF Publish, Acknowledge
<1> QED
  BY <1>1, <1>2, <1>3, <1>4, <1>5, LogStep

\* The leader stays, and goes on applying entries.
LEMMA LeaderSteady ==
    ASSUME QueueInv, [Next]_vars, leader # Nil
    PROVE  /\ leader' = leader /\ leader \in Node
           /\ Len(delivered[leader]) \in Nat /\ Len(delivered'[leader]) \in Nat
           /\ Len(delivered[leader]) <= Len(delivered'[leader])
           /\ \A i \in 1..Len(delivered[leader]) : order'[i] = order[i]
<1> USE DEF QueueInv
<1>1. leader \in Node
  BY DEF TypeOK, Log!TypeOK
<1>2. /\ Len(delivered[leader]) \in Nat
      /\ Len(delivered[leader]) <= Len(order)
  BY <1>1 DEF AppliedByLeader, Applied, TypeOK, Log!TypeOK
<1>3. \A i \in 1..Len(delivered[leader]) : order'[i] = order[i]
  BY <1>2, OrderGrows
<1>4. ASSUME leader' = leader, delivered'[leader] = delivered[leader]
      PROVE  /\ leader' = leader /\ Len(delivered'[leader]) \in Nat
             /\ Len(delivered[leader]) <= Len(delivered'[leader])
  BY <1>2, <1>4
<1>5. ASSUME NEW n \in Node, HandleCommit(n)
      PROVE  /\ leader' = leader /\ Len(delivered'[leader]) \in Nat
             /\ Len(delivered[leader]) <= Len(delivered'[leader])
  <2>1. /\ leader' = leader /\ Applied(n)' = Applied(n) + 1
        /\ \A p \in Node : p # n => Applied(p)' = Applied(p)
    BY <1>5, DeliverEffect
  <2>2. Len(delivered'[leader]) = Len(delivered[leader])
        \/ Len(delivered'[leader]) = Len(delivered[leader]) + 1
    BY <1>1, <2>1 DEF Applied
  <2> QED
    BY <1>2, <2>1, <2>2
<1>6. ASSUME NEW n \in Node, Restart(n)
      PROVE  leader' = leader /\ delivered'[leader] = delivered[leader]
  BY <1>1, <1>6 DEF Restart, Log!Rejoin, TypeOK, Log!TypeOK
<1>7. ASSUME NEW n \in Node, Elect(n)
      PROVE  FALSE
  BY <1>7 DEF Elect, Log!Elect
<1>8. ASSUME NEW m \in Msg, Publish(m) \/ \E c \in AckCall : Acknowledge(m, c)
      PROVE  leader' = leader /\ delivered' = delivered
  BY <1>8 DEF Publish, Acknowledge, Log!Propose
<1> QED
  BY <1>1, <1>2, <1>3, <1>4, <1>5, <1>6, <1>7, <1>8, LogStep

\* What is known or finished stays so.
LEMMA KnownStays ==
    ASSUME QueueInv, [Next]_vars
    PROVE  /\ \A m : Known(m) => Known(m)'
           /\ \A m : Finished(m) => Finished(m)'
<1>1. ASSUME NEW m, Known(m)
      PROVE  Known(m)'
  <2>1. CASE m \in OldMsg
    BY <2>1 DEF Known
  <2>2. CASE m \notin OldMsg
    <3>1. leader # Nil /\ \E i \in 1..Applied(leader) : order[i] = Published(m)
      BY <1>1, <2>2 DEF Known
    <3>2. \E i \in 1..Len(delivered'[leader]) : order'[i] = Published(m)
      BY <3>1, LeaderSteady DEF Applied
    <3> QED
      BY <3>1, <3>2, LeaderSteady DEF Known, Applied, Published
  <2> QED
    BY <2>1, <2>2
<1>2. ASSUME NEW m, Finished(m)
      PROVE  Finished(m)'
  <2>1. /\ leader # Nil
        /\ \E i \in 1..Len(delivered[leader]) : order[i].op = "ack" /\ order[i].msg = m
    BY <1>2 DEF Finished, AckApplied
  <2>2. \E i \in 1..Len(delivered'[leader]) : order'[i].op = "ack" /\ order'[i].msg = m
    BY <2>1, LeaderSteady
  <2> QED
    BY <2>1, <2>2, LeaderSteady DEF Finished, AckApplied
<1> QED
  BY <1>1, <1>2

-----------------------------------------------------------------------------
\* The leader stays first, and the log stays in order.

\* No follower applies what the leader has not.
LEMMA AppliedByLeaderStep ==
    ASSUME QueueInv, [Next]_vars
    PROVE  AppliedByLeader'
<1> USE DEF QueueInv
<1>1. /\ Len(order) \in Nat /\ Len(order') \in Nat /\ Len(order) <= Len(order')
      /\ \A p \in Node : Applied(p) \in Nat
  BY OrderGrows DEF Applied, TypeOK, Log!TypeOK
<1>2. leader = Nil \/ leader \in Node
  BY DEF TypeOK, Log!TypeOK
<1>3. ASSUME leader' = leader, delivered' = delivered
      PROVE  AppliedByLeader'
  <2> SUFFICES ASSUME NEW p \in Node
               PROVE  /\ Applied(p)' <= Len(order')
                      /\ IF leader = Nil THEN Applied(p)' = 0
                                         ELSE Applied(p)' <= Applied(leader)
    BY <1>3 DEF AppliedByLeader, Applied
  <2>1. Applied(p)' = Applied(p)
    BY <1>3 DEF Applied
  <2> QED
    BY <1>1, <2>1 DEF AppliedByLeader
<1>4. ASSUME NEW n \in Node, Elect(n)
      PROVE  AppliedByLeader'
  <2>1. leader = Nil /\ leader' = n /\ delivered' = delivered /\ order' = order
    BY <1>4 DEF Elect, Log!Elect
  <2>2. \A p \in Node : Applied(p) = 0 /\ Applied(p)' = 0
    BY <2>1 DEF AppliedByLeader, Applied
  <2>3. Len(delivered'[n]) = 0
    BY <2>2 DEF Applied
  <2> QED
    BY <1>1, <2>1, <2>2, <2>3, QueueAssumption DEF AppliedByLeader, Applied
<1>5. ASSUME NEW n \in Node, HandleCommit(n)
      PROVE  AppliedByLeader'
  <2> DEFINE i == Applied(n) + 1
  <2>1. /\ leader \in Node /\ leader # Nil /\ leader' = leader /\ order' = order
        /\ i \in 1..Len(order)
        /\ Applied(n)' = i
        /\ \A p \in Node : p # n => Applied(p)' = Applied(p)
        /\ n # leader => i <= Applied(leader)
    BY <1>5, DeliverEffect
  <2> HIDE DEF i
  <2>2. ASSUME NEW p \in Node
        PROVE  Applied(p)' <= Len(order) /\ Applied(p)' <= Len(delivered'[leader])
    <3>1. CASE n = leader
      <4>1. Len(delivered'[leader]) = i
        BY <2>1, <3>1 DEF Applied
      <4>2. CASE p = n
        BY <1>1, <2>1, <4>1, <4>2
      <4>3. CASE p # n
        <5>1. Applied(p) <= Applied(n)
          BY <2>1, <3>1 DEF AppliedByLeader
        <5> QED
          BY <1>1, <2>1, <4>1, <4>3, <5>1 DEF i
      <4> QED
        BY <4>2, <4>3
    <3>2. CASE n # leader
      <4>1. Len(delivered'[leader]) = Applied(leader)
        BY <2>1, <3>2 DEF Applied
      <4>2. CASE p = n
        BY <1>1, <2>1, <3>2, <4>1, <4>2
      <4>3. CASE p # n
        BY <1>1, <2>1, <4>1, <4>3 DEF AppliedByLeader
      <4> QED
        BY <4>2, <4>3
    <3> QED
      BY <3>1, <3>2
  <2> QED
    BY <2>1, <2>2 DEF AppliedByLeader, Applied
<1>6. ASSUME NEW n \in Node, Restart(n)
      PROVE  AppliedByLeader'
  <2>1. /\ leader # Nil /\ n # leader /\ leader' = leader /\ order' = order
        /\ delivered' = [delivered EXCEPT ![n] = <<>>]
    BY <1>6 DEF Restart, Log!Rejoin
  <2>2. Applied(n)' = 0 /\ \A p \in Node : p # n => Applied(p)' = Applied(p)
    BY <2>1, EmptySeq DEF Applied, TypeOK, Log!TypeOK
  <2>3. leader \in Node /\ Len(delivered'[leader]) = Applied(leader)
    BY <1>2, <2>1, <2>2 DEF Applied
  <2>4. ASSUME NEW p \in Node
        PROVE  Applied(p)' <= Len(order) /\ Applied(p)' <= Applied(leader)
    <3>1. CASE p = n
      BY <1>1, <2>2, <2>3, <3>1
    <3>2. CASE p # n
      BY <2>1, <2>2, <3>2 DEF AppliedByLeader
    <3> QED
      BY <3>1, <3>2
  <2> QED
    BY <2>1, <2>3, <2>4 DEF AppliedByLeader, Applied
<1>7. ASSUME NEW m \in Msg, Publish(m) \/ \E c \in AckCall : Acknowledge(m, c)
      PROVE  leader' = leader /\ delivered' = delivered
  BY <1>7 DEF Publish, Acknowledge, Log!Propose
<1> QED
  BY <1>3, <1>4, <1>5, <1>6, <1>7, LogStep

\* An entry e is appended that acknowledges only what is known.
LEMMA AppendStep ==
    ASSUME QueueInv, NEW e \in Command, Log!Propose(e),
           e.op = "ack" => Identified(e.msg)
    PROVE  EntriesOnce' /\ AcksFollow'
<1> USE DEF QueueInv
<1> DEFINE z == Len(order)
<1>1. /\ leader # Nil /\ leader \in Node
      /\ z \in Nat /\ Len(order') = z + 1
      /\ order'[z + 1] = e
      /\ \A i \in 1..z : order'[i] = order[i] /\ order[i] # e
  BY ProposeEffect
<1>2. \A i \in 1..(z + 1) : i \in 1..z \/ i = z + 1
  BY <1>1
<1>3. EntriesOnce'
  BY <1>1, <1>2 DEF EntriesOnce
<1>4. ASSUME NEW j \in 1..(z + 1), NEW m \in Msg \ OldMsg,
             order'[j].op = "ack", order'[j].msg = m
      PROVE  \E i \in 1..(j - 1) : order'[i] = Published(m)
  <2>1. CASE j \in 1..z
    <3>1. PICK i \in 1..(j - 1) : order[i] = Published(m)
      BY <1>1, <1>4, <2>1 DEF AcksFollow
    <3>2. i \in 1..z
      BY <1>1, <2>1
    <3> QED
      BY <1>1, <3>1, <3>2
  <2>2. CASE j = z + 1
    <3>1. PICK i \in DOMAIN order : order[i] = Published(m)
      BY <1>1, <1>4, <2>2 DEF Identified
    <3>2. DOMAIN order = 1..z
      BY DEF TypeOK, Log!TypeOK
    <3>3. i \in 1..z /\ i \in 1..(j - 1)
      BY <1>1, <2>2, <3>2
    <3> QED
      BY <1>1, <3>1, <3>3
  <2> QED
    BY <1>2, <2>1, <2>2
<1>5. AcksFollow'
  BY <1>1, <1>4 DEF AcksFollow, Published
<1> QED
  BY <1>3, <1>5

\* publish appends a message once, acknowledge only what was published.
LEMMA OrderStep ==
    ASSUME QueueInv, [Next]_vars
    PROVE  EntriesOnce' /\ AcksFollow'
<1> USE DEF QueueInv
<1>1. ASSUME order' = order
      PROVE  EntriesOnce' /\ AcksFollow'
  BY <1>1 DEF EntriesOnce, AcksFollow, Published
<1>2. ASSUME NEW n \in Node, Elect(n) \/ HandleCommit(n) \/ Restart(n)
      PROVE  order' = order
  BY <1>2 DEF Elect, HandleCommit, Restart, Log!Elect, Log!Deliver, Log!Rejoin
<1>3. ASSUME NEW m \in Msg, Publish(m)
      PROVE  EntriesOnce' /\ AcksFollow'
  <2>1. Published(m) \in Command /\ Published(m).op # "ack"
    BY CommandForms
  <2>2. Log!Propose(Published(m))
    BY <1>3 DEF Publish
  <2> QED
    BY <2>1, <2>2, AppendStep
<1>4. ASSUME NEW m \in Msg, NEW c \in AckCall, Acknowledge(m, c)
      PROVE  EntriesOnce' /\ AcksFollow'
  <2>1. Acked(m, c) \in Command /\ Acked(m, c).msg = m
    BY CommandForms
  <2>2. Log!Propose(Acked(m, c)) /\ Identified(m)
    BY <1>4 DEF Acknowledge
  <2> QED
    BY <2>1, <2>2, AppendStep
<1> QED
  BY <1>1, <1>2, <1>3, <1>4, LogStep

-----------------------------------------------------------------------------
\* The copies of a node.  In each step a node keeps its copies up to the flag
\* saved, applies an entry, adds what it found in Redis, or starts again.

\* A node that acknowledged m has applied its publish.
LEMMA AckedWasPublished ==
    ASSUME QueueInv, NEW n \in Node, NEW m \in Msg \ OldMsg, AckApplied(n, m)
    PROVE  \E i \in 1..Applied(n) : order[i] = Published(m)
<1> USE DEF QueueInv
<1>1. PICK j \in 1..Applied(n) : order[j].op = "ack" /\ order[j].msg = m
  BY DEF AckApplied, Applied
<1>2. /\ Applied(n) \in Nat /\ Applied(n) <= Len(order) /\ Len(order) \in Nat
  BY DEF AppliedByLeader, Applied, TypeOK, Log!TypeOK
<1>3. j \in 1..Len(order)
  BY <1>2
<1>4. PICK i \in 1..(j - 1) : order[i] = Published(m)
  BY <1>1, <1>3 DEF AcksFollow
<1>5. i \in 1..Applied(n)
  BY <1>2
<1> QED
  BY <1>4, <1>5

\* The copies in a partition and their fields.
LEMMA CopyTypes ==
    ASSUME TypeOK, NEW n \in Node
    PROVE  /\ Len(partition[n]) \in Nat /\ Applied(n) \in Nat
           /\ DOMAIN partition[n] = 1..Len(partition[n])
           /\ \A i \in 1..Len(partition[n]) :
                 /\ partition[n][i] \in Copy
                 /\ partition[n][i].msg \in Msg /\ partition[n][i].at \in Nat
                 /\ partition[n][i].acked \in BOOLEAN
                 /\ partition[n][i].saved \in BOOLEAN
<1>1. partition[n] \in Seq(Copy)
  BY DEF TypeOK
<1>2. \A i \in 1..Len(partition[n]) : partition[n][i] \in Copy
  BY <1>1, ElementOfSeq
<1> QED
  BY <1>1, <1>2, LenProperties DEF TypeOK, Log!TypeOK, Copy, Applied

\* CopiesFit in the next state, said of values.
LEMMA FitNext ==
    ASSUME NEW n \in Node,
           \A i \in 1..Len(partition'[n]) : \E m, k, acked :
               /\ m = partition'[n][i].msg /\ k = partition'[n][i].at
               /\ acked = partition'[n][i].acked
               /\ CopyFits(n, m, k, acked)'
    PROVE  CopiesFit(n)'
<1>1. SUFFICES ASSUME NEW i \in 1..Len(partition'[n])
               PROVE  CopyFits(n, partition[n][i].msg, partition[n][i].at,
                               partition[n][i].acked)'
  BY Zenon DEF CopiesFit
<1>2. PICK m, k, acked :
        /\ m = partition'[n][i].msg /\ k = partition'[n][i].at
        /\ acked = partition'[n][i].acked
        /\ CopyFits(n, m, k, acked)'
  BY Zenon
<1>3. /\ Known(m)'
      /\ k # 0 => k <= Applied(n)' /\ order'[k] = Published(m)
      /\ acked => AckApplied(n, m)'
      /\ m \notin OldMsg /\ AckApplied(n, m)' => acked
  BY <1>2, Zenon DEF CopyFits, Published
<1>4. Known(partition[n][i].msg)'
  BY <1>2, <1>3, Zenon DEF Known, Applied, Published
<1>5. AckApplied(n, m)' <=> AckApplied(n, partition[n][i].msg)'
  BY <1>2, Zenon DEF AckApplied
<1> QED
  BY <1>2, <1>3, <1>4, <1>5, Zenon DEF CopyFits, Published

\* A copy that fits still does when its node applies nothing.
LEMMA FitStays ==
    ASSUME QueueInv, [Next]_vars, NEW n \in Node, delivered'[n] = delivered[n],
           NEW m, NEW k \in Nat, NEW acked, CopyFits(n, m, k, acked)
    PROVE  CopyFits(n, m, k, acked)'
<1>1. /\ Applied(n) \in Nat /\ Applied(n)' = Applied(n) /\ Applied(n) <= Len(order)
      /\ Len(order) \in Nat
  BY DEF QueueInv, AppliedByLeader, Applied, TypeOK, Log!TypeOK
<1>2. \A i \in 1..Applied(n) : order'[i] = order[i]
  BY <1>1, OrderGrows DEF QueueInv
<1>3. AckApplied(n, m)' <=> AckApplied(n, m)
  BY <1>1, <1>2 DEF AckApplied, Applied
<1>4. Known(m)'
  BY KnownStays DEF CopyFits
<1>5. k # 0 => k <= Applied(n) /\ order'[k] = Published(m)
  BY <1>1, <1>2 DEF CopyFits
<1> QED
  BY <1>1, <1>3, <1>4, <1>5 DEF CopyFits, Published

\* Copies that keep message, place and acknowledgement stay explained.
LEMMA CopiesKept ==
    ASSUME QueueInv, [Next]_vars, NEW n \in Node,
           delivered'[n] = delivered[n],
           Len(partition'[n]) = Len(partition[n]),
           \A i \in 1..Len(partition[n]) :
               /\ partition'[n][i].msg = partition[n][i].msg
               /\ partition'[n][i].at = partition[n][i].at
               /\ partition'[n][i].acked = partition[n][i].acked
    PROVE  CopiesAt(n)'
<1>1. /\ Applied(n) \in Nat /\ Applied(n)' = Applied(n) /\ Applied(n) <= Len(order)
      /\ Len(order) \in Nat /\ CopiesAt(n)
  BY DEF QueueInv, AppliedByLeader, Applied, TypeOK, Log!TypeOK
<1>2. \A i \in 1..Applied(n) : order'[i] = order[i]
  BY <1>1, OrderGrows DEF QueueInv
<1>3. CopiesFit(n)'
  <2>1. ASSUME NEW i \in 1..Len(partition[n]), NEW m, NEW k, NEW acked,
               m = partition[n][i].msg, k = partition[n][i].at,
               acked = partition[n][i].acked
        PROVE  CopyFits(n, m, k, acked)'
    <3>1. CopyFits(n, m, k, acked)
      BY <1>1, <2>1 DEF CopiesAt, CopiesFit
    <3>2. k \in Nat
      BY <2>1, CopyTypes DEF QueueInv
    <3> QED
      BY <3>1, <3>2, FitStays
  <2> QED
    BY <2>1, FitNext
<1>4. NoneMissing(n)'
  BY <1>1, <1>2, SMTT(30) DEF CopiesAt, NoneMissing
<1>5. InPlace(n)'
  BY <1>1, SMTT(30) DEF CopiesAt, InPlace
<1> QED
  BY <1>3, <1>4, <1>5 DEF CopiesAt

\* What the commit of an entry does to the copies of the node.
LEMMA CommitEffect ==
    ASSUME TypeOK, NEW n \in Node, HandleCommit(n), NEW i, i = Applied(n) + 1,
           NEW m, m = order[i].msg
    PROVE  /\ m \in Msg
           /\ \/ /\ order[i] = Published(m) /\ order[i].op = "publish"
                 /\ partition' = [partition EXCEPT ![n] = Append(partition[n],
                       [msg |-> m, acked |-> FALSE, at |-> i, saved |-> Attached(n)])]
                 /\ tasks' = Scheduled(n, m, "persist")
              \/ /\ order[i].op = "ack"
                 /\ partition' = [partition EXCEPT ![n] = MarkAcked(partition[n], m)]
                 /\ tasks' = Scheduled(n, m, "delete")
           /\ UNCHANGED <<redis, store, consumed>>
<1>1. order[i] \in Command
  BY DeliverEffect
<1>2. m \in Msg /\ (order[i].op = "publish" <=> order[i] = Published(m))
  BY <1>1, EntryForms
<1> QED
  BY <1>2 DEF HandleCommit, Applied

\* What a node has applied is known, or finished, at the leader.
LEMMA PublishKnown ==
    ASSUME QueueInv, [Next]_vars, NEW n \in Node, HandleCommit(n),
           NEW i, i = Applied(n) + 1
    PROVE  /\ \A m : order[i] = Published(m) => Known(m)'
           /\ \A m : order[i].op = "ack" /\ order[i].msg = m => Finished(m)'
<1> USE DEF QueueInv
<1>1. /\ leader \in Node /\ leader # Nil
      /\ i \in Nat /\ i \in 1..Len(order)
      /\ leader' = leader /\ order' = order
      /\ Applied(n)' = i
  BY DeliverEffect
<1>2. Applied(n)' <= Applied(leader)'
  BY <1>1, AppliedByLeaderStep DEF AppliedByLeader, Applied
<1>3. Len(delivered'[leader]) \in Nat /\ i <= Len(delivered'[leader])
  BY <1>1, <1>2, LeaderSteady DEF Applied
<1>4. i \in 1..Len(delivered'[leader])
  BY <1>1, <1>3
<1>5. \A m : order[i] = Published(m) => Known(m)'
  BY <1>1, <1>4 DEF Known, Applied, Published
<1>6. \A m : order[i].op = "ack" /\ order[i].msg = m => Finished(m)'
  BY <1>1, <1>4 DEF Finished, AckApplied
<1> QED
  BY <1>5, <1>6

\* An acknowledgement that some node applied, the leader has applied.
LEMMA AppliedIsFinished ==
    ASSUME QueueInv, NEW n \in Node, NEW m, AckApplied(n, m)
    PROVE  Finished(m)
<1> USE DEF QueueInv
<1>1. PICK i \in 1..Applied(n) : order[i].op = "ack" /\ order[i].msg = m
  BY DEF AckApplied, Applied
<1>2. /\ Applied(n) \in Nat /\ leader \in Node \cup {Nil}
      /\ leader \in Node => Applied(leader) \in Nat
  BY DEF Applied, TypeOK, Log!TypeOK
<1>3. leader # Nil /\ Applied(n) <= Applied(leader)
  BY <1>1, <1>2 DEF AppliedByLeader
<1>4. i \in 1..Len(delivered[leader])
  BY <1>2, <1>3 DEF Applied
<1> QED
  BY <1>1, <1>3, <1>4 DEF Finished, AckApplied

\* The commit of a publish adds the one copy that explains it.
LEMMA CopiesPublished ==
    ASSUME QueueInv, [Next]_vars, NEW n \in Node, HandleCommit(n),
           NEW i, i = Applied(n) + 1, NEW m \in Msg, order[i] = Published(m),
           NEW saved \in BOOLEAN,
           partition' = [partition EXCEPT ![n] = Append(partition[n],
               [msg |-> m, acked |-> FALSE, at |-> i, saved |-> saved])]
    PROVE  CopiesAt(n)'
<1> USE DEF QueueInv
<1> DEFINE p == partition[n]
           L == Len(p)
           new == [msg |-> m, acked |-> FALSE, at |-> i, saved |-> saved]
           q == Append(p, new)
<1>1. /\ leader \in Node /\ leader # Nil
      /\ i \in Nat /\ i \in 1..Len(order) /\ Len(order) \in Nat
      /\ leader' = leader /\ order' = order
      /\ Applied(n)' = i
      /\ Applied(n) \in Nat
  BY DeliverEffect, CopyTypes
<1>2. /\ L \in Nat /\ p \in Seq(Copy) /\ new \in Copy
      /\ \A j \in 1..L : p[j].at \in Nat
  BY <1>1, CopyTypes DEF TypeOK, Copy
<1>3. new.msg = m /\ new.acked = FALSE /\ new.at = i
  OBVIOUS
<1>4. CopiesFit(n) /\ NoneMissing(n) /\ InPlace(n)
  BY DEF CopiesAt
<1> HIDE DEF new
<1>5. /\ Len(q) = L + 1 /\ q[L + 1] = new
      /\ \A j \in 1..L : q[j] = p[j]
      /\ \A j \in 1..(L + 1) : j \in 1..L \/ j = L + 1
  BY <1>2
<1>6. partition'[n] = q
  BY DEF TypeOK, new
<1> HIDE DEF q
<1>7. /\ order[i].op = "publish" /\ order[i].msg = m
      /\ \A h \in 1..i : h \in 1..Applied(n) \/ h = i
      /\ \A h \in 1..Applied(n) : h \in 1..i
  BY <1>1, CommandForms
<1>8. \A x : AckApplied(n, x)' <=> AckApplied(n, x)
  BY <1>1, <1>7 DEF AckApplied, Applied
<1>9. Known(m)'
  BY PublishKnown
<1>10. CopyFits(n, m, i, FALSE)'
  <2>1. ASSUME m \notin OldMsg
        PROVE  ~AckApplied(n, m)
    <3> SUFFICES ASSUME AckApplied(n, m)
                 PROVE  FALSE
      OBVIOUS
    <3>1. PICK j \in 1..Applied(n) : order[j] = Published(m)
      BY <2>1, AckedWasPublished
    <3>2. j \in 1..Len(order) /\ j # i
      BY <1>1
    <3> QED
      BY <1>1, <3>1, <3>2 DEF EntriesOnce
  <2>2. i <= Applied(n)' /\ order'[i] = Published(m)'
    BY <1>1 DEF Published
  <2> QED
    BY <1>8, <1>9, <2>1, <2>2 DEF CopyFits
<1>11. ASSUME NEW x, NEW k \in Nat, NEW acked, CopyFits(n, x, k, acked)
       PROVE  CopyFits(n, x, k, acked)'
  <2>1. Known(x)'
    BY <1>11, KnownStays DEF CopyFits
  <2>2. k # 0 => k <= Applied(n)' /\ order'[k] = Published(x)'
    BY <1>1, <1>11 DEF CopyFits, Published
  <2> QED
    BY <1>8, <1>11, <2>1, <2>2 DEF CopyFits
<1>12. CopiesFit(n)'
  <2>1. ASSUME NEW j \in 1..(L + 1)
        PROVE  \E x, k, acked : /\ x = q[j].msg /\ k = q[j].at /\ acked = q[j].acked
                                /\ CopyFits(n, x, k, acked)'
    <3>1. CASE j = L + 1
      BY <1>3, <1>5, <1>10, <3>1
    <3>2. CASE j \in 1..L
      <4>1. CopyFits(n, p[j].msg, p[j].at, p[j].acked)
        BY <1>4, <3>2 DEF CopiesFit
      <4> PICK x, k, acked : x = p[j].msg /\ k = p[j].at /\ acked = p[j].acked
        OBVIOUS
      <4>2. CopyFits(n, x, k, acked) /\ k \in Nat
        BY <1>2, <3>2, <4>1
      <4> QED
        BY <1>5, <1>11, <3>2, <4>2
    <3> QED
      BY <1>5, <3>1, <3>2
  <2> QED
    BY <1>5, <1>6, <2>1, FitNext
<1>13. NoneMissing(n)'
  <2>1. ASSUME NEW k \in 1..i, order[k].op = "publish"
        PROVE  \E j \in 1..(L + 1) : q[j].at = k /\ q[j].msg = order[k].msg
    <3>1. CASE k = i
      <4>1. L + 1 \in 1..(L + 1)
        BY <1>2
      <4> QED
        BY <1>3, <1>5, <1>7, <3>1, <4>1
    <3>2. CASE k \in 1..Applied(n)
      <4>1. PICK j \in 1..L : p[j].at = k /\ p[j].msg = order[k].msg
        BY <1>4, <2>1, <3>2 DEF NoneMissing
      <4>2. j \in 1..(L + 1)
        BY <1>2
      <4> QED
        BY <1>5, <4>1, <4>2
    <3> QED
      BY <1>7, <3>1, <3>2
  <2> QED
    BY <1>1, <1>5, <1>6, <2>1, SMTT(30) DEF NoneMissing
<1>14. InPlace(n)'
  <2>1. ASSUME NEW j \in 1..(L + 1), NEW h \in 1..(j - 1)
        PROVE  IF q[j].at = 0 THEN q[h].msg # q[j].msg ELSE q[h].at < q[j].at
    <3>1. h \in 1..L /\ q[h] = p[h]
      BY <1>2, <1>5
    <3>2. CASE j \in 1..L
      BY <1>4, <1>5, <3>1, <3>2 DEF InPlace
    <3>3. CASE j = L + 1
      <4>1. p[h].at \in Nat /\ (p[h].at # 0 => p[h].at <= Applied(n))
        BY <1>2, <1>4, <3>1 DEF CopiesFit, CopyFits
      <4>2. q[j].at = i
        BY <1>3, <1>5, <3>3
      <4> QED
        BY <1>1, <3>1, <4>1, <4>2, SMTT(30)
    <3> QED
      BY <1>5, <3>2, <3>3
  <2> QED
    BY <1>5, <1>6, <2>1 DEF InPlace
<1> QED
  BY <1>12, <1>13, <1>14 DEF CopiesAt

\* The commit of an acknowledgement marks what it explains.
LEMMA CopiesMarked ==
    ASSUME QueueInv, [Next]_vars, NEW n \in Node, HandleCommit(n),
           NEW i, i = Applied(n) + 1, NEW m, m = order[i].msg, order[i].op = "ack",
           partition' = [partition EXCEPT ![n] = MarkAcked(partition[n], m)]
    PROVE  CopiesAt(n)'
<1> USE DEF QueueInv
<1> DEFINE p == partition[n]
           L == Len(p)
           q == MarkAcked(p, m)
<1>1. /\ i \in Nat /\ i \in 1..Len(order) /\ order' = order /\ Applied(n)' = i
      /\ Applied(n) \in Nat
  BY DeliverEffect, CopyTypes
<1>2. /\ L \in Nat /\ p \in Seq(Copy)
      /\ \A j \in 1..L : p[j].at \in Nat
  BY CopyTypes DEF TypeOK
<1>3. /\ Len(q) = L
      /\ \A j \in 1..L : /\ q[j].msg = p[j].msg /\ q[j].at = p[j].at
                         /\ q[j].acked <=> p[j].acked \/ p[j].msg = m
  BY <1>2, MarkAckedEffect
<1> HIDE DEF q
<1>4. partition'[n] = q
  BY DEF TypeOK, q
<1>5. CopiesFit(n) /\ NoneMissing(n) /\ InPlace(n)
  BY DEF CopiesAt
<1>6. /\ \A h \in 1..i : h \in 1..Applied(n) \/ h = i
      /\ \A h \in 1..Applied(n) : h \in 1..i
      /\ i \in 1..i
  BY <1>1
<1>7. \A x : AckApplied(n, x)' <=> AckApplied(n, x) \/ x = m
  BY <1>1, <1>6 DEF AckApplied, Applied
<1>8. CopiesFit(n)'
  <2>1. ASSUME NEW j \in 1..L, NEW x, NEW k, NEW acked,
               x = p[j].msg, k = p[j].at, acked = q[j].acked
        PROVE  CopyFits(n, x, k, acked)'
    <3>1. CopyFits(n, x, k, p[j].acked) /\ k \in Nat
      BY <1>2, <1>5, <2>1 DEF CopiesFit
    <3>2. Known(x)'
      BY <3>1, KnownStays DEF CopyFits
    <3>3. k # 0 => k <= Applied(n)' /\ order'[k] = Published(x)'
      BY <1>1, <3>1 DEF CopyFits, Published
    <3>4. acked <=> p[j].acked \/ x = m
      BY <1>3, <2>1
    <3>5. /\ acked => AckApplied(n, x)'
          /\ x \notin OldMsg /\ AckApplied(n, x)' => acked
      BY <1>7, <3>1, <3>4, Zenon DEF CopyFits
    <3> QED
      BY <3>2, <3>3, <3>5 DEF CopyFits
  <2> QED
    BY <1>3, <1>4, <2>1, FitNext
<1>9. NoneMissing(n)'
  <2>1. ASSUME NEW k \in 1..i, order[k].op = "publish"
        PROVE  \E j \in 1..L : q[j].at = k /\ q[j].msg = order[k].msg
    BY <1>3, <1>5, <1>6, <2>1 DEF NoneMissing
  <2> QED
    BY <1>1, <1>3, <1>4, <2>1 DEF NoneMissing
<1>10. InPlace(n)'
  <2>1. ASSUME NEW j \in 1..L, NEW h \in 1..(j - 1)
        PROVE  IF q[j].at = 0 THEN q[h].msg # q[j].msg ELSE q[h].at < q[j].at
    <3>1. h \in 1..L
      BY <1>2
    <3> QED
      BY <1>3, <1>5, <3>1 DEF InPlace
  <2> QED
    BY <1>3, <1>4, <2>1 DEF InPlace
<1> QED
  BY <1>8, <1>9, <1>10 DEF CopiesAt

\* Recovery from Redis brings back no copy that is there already.
LEMMA CopiesLoaded ==
    ASSUME QueueInv, [Next]_vars, NEW n \in Node, Load(n)
    PROVE  CopiesAt(n)'
<1> USE DEF QueueInv
<1> DEFINE p == partition[n]
           q == partition'[n]
           L == Len(p)
           M == Len(q)
<1>1. /\ L \in Nat /\ M \in Nat /\ L <= M
      /\ \A j \in 1..L : q[j] = p[j]
      /\ \A j \in (L + 1)..M :
            /\ q[j].msg \in NotYetKnown(n) /\ ~q[j].acked /\ q[j].at = 0
            /\ \A h \in (L + 1)..(j - 1) : q[h].msg # q[j].msg
  BY LoadEffect
<1>2. /\ delivered'[n] = delivered[n] /\ order' = order
      /\ Applied(n) \in Nat /\ Applied(n)' = Applied(n)
  BY DEF Load, logVars, Applied, TypeOK, Log!TypeOK
<1>3. CopiesFit(n) /\ NoneMissing(n) /\ InPlace(n)
  BY DEF CopiesAt
<1>4. /\ \A j \in 1..M : j \in 1..L \/ j \in (L + 1)..M
      /\ \A j \in 1..L : j \in 1..M
      /\ \A j \in 1..L : p[j].at \in Nat
  BY <1>1, CopyTypes
<1>5. \A x \in NotYetKnown(n) : /\ x \in Msg /\ x \in redis[n].found
                                /\ \A j \in 1..L : p[j].msg # x
  BY CopyTypes DEF NotYetKnown, TypeOK, Redis
<1>6. \A j \in (L + 1)..M : q[j].acked = FALSE
  <2>1. \A j \in 1..M : q[j].acked \in BOOLEAN
    <3>1. q \in Seq(Copy)
      BY LoadEffect
    <3>2. \A j \in 1..M : q[j] \in Copy
      BY <3>1, ElementOfSeq
    <3> QED
      BY <3>2 DEF Copy
  <2>2. \A j \in (L + 1)..M : j \in 1..M
    BY <1>1
  <2> QED
    BY <1>1, <2>1, <2>2
<1> HIDE DEF p, q, L, M
<1>7. ASSUME NEW x \in NotYetKnown(n)
      PROVE  CopyFits(n, x, 0, FALSE)
  <2>1. Known(x)
    BY <1>5, <1>7 DEF OnlyKnown
  <2>2. ASSUME x \notin OldMsg, AckApplied(n, x)
        PROVE  FALSE
    <3>1. PICK j \in 1..Applied(n) : order[j] = Published(x)
      BY <1>5, <1>7, <2>2, AckedWasPublished
    <3>2. order[j].op = "publish" /\ order[j].msg = x
      BY <1>5, <1>7, <3>1, CommandForms
    <3>3. PICK h \in 1..L : p[h].msg = x
      BY <1>3, <3>2 DEF NoneMissing, L, p
    <3> QED
      BY <1>5, <1>7, <3>3
  <2> QED
    BY <2>1, <2>2 DEF CopyFits
<1>8. CopiesFit(n)'
  <2>1. ASSUME NEW j \in 1..M, NEW x, NEW k, NEW acked,
               x = q[j].msg, k = q[j].at, acked = q[j].acked
        PROVE  CopyFits(n, x, k, acked)'
    <3>1. CASE j \in 1..L
      <4>1. CopyFits(n, x, k, acked) /\ k \in Nat
        BY <1>1, <1>3, <1>4, <2>1, <3>1 DEF CopiesFit, L, p
      <4> QED
        BY <1>2, <4>1, FitStays
    <3>2. CASE j \in (L + 1)..M
      <4>1. x \in NotYetKnown(n) /\ k = 0 /\ acked = FALSE
        BY <1>1, <1>6, <2>1, <3>2
      <4>2. CopyFits(n, x, k, acked)
        BY <1>7, <4>1
      <4> QED
        BY <1>2, <4>1, <4>2, FitStays
    <3> QED
      BY <1>4, <3>1, <3>2
  <2> QED
    BY <2>1, FitNext DEF M, q
<1>9. NoneMissing(n)'
  <2>1. ASSUME NEW k \in 1..Applied(n), order[k].op = "publish"
        PROVE  \E j \in 1..M : q[j].at = k /\ q[j].msg = order[k].msg
    <3>1. PICK j \in 1..L : p[j].at = k /\ p[j].msg = order[k].msg
      BY <1>3, <2>1 DEF NoneMissing, L, p
    <3> QED
      BY <1>1, <1>4, <3>1
  <2> QED
    BY <1>2, <2>1 DEF NoneMissing, M, q
<1>10. InPlace(n)'
  <2>1. ASSUME NEW j \in 1..M, NEW h \in 1..(j - 1)
        PROVE  IF q[j].at = 0 THEN q[h].msg # q[j].msg ELSE q[h].at < q[j].at
    <3>1. CASE j \in 1..L
      <4>1. h \in 1..L
        BY <1>1, <3>1
      <4>2. IF p[j].at = 0 THEN p[h].msg # p[j].msg ELSE p[h].at < p[j].at
        BY <1>3, <3>1 DEF InPlace, L, p
      <4> QED
        BY <1>1, <3>1, <4>1, <4>2
    <3>2. CASE j \in (L + 1)..M
      <4>1. q[j].at = 0 /\ q[j].msg \in NotYetKnown(n)
        BY <1>1, <3>2
      <4>2. h \in 1..L \/ h \in (L + 1)..(j - 1)
        BY <1>1, <3>2
      <4>3. q[h].msg # q[j].msg
        BY <1>1, <1>5, <3>2, <4>1, <4>2
      <4> QED
        BY <4>1, <4>3
    <3> QED
      BY <1>4, <3>1, <3>2
  <2> QED
    BY <2>1 DEF InPlace, M, q
<1> QED
  BY <1>8, <1>9, <1>10 DEF CopiesAt

\* Every operation leaves the copies on a node explained by its log.
LEMMA CopiesStep ==
    ASSUME QueueInv, [Next]_vars, NEW n \in Node
    PROVE  CopiesAt(n)'
<1> USE DEF QueueInv
<1>1. ASSUME delivered'[n] = delivered[n], partition'[n] = partition[n]
      PROVE  CopiesAt(n)'
  BY <1>1, CopiesKept
<1>2. ASSUME NEW p \in Node, HandleCommit(p)
      PROVE  CopiesAt(n)'
  <2> DEFINE i == Applied(p) + 1
             m == order[i].msg
  <2>1. CASE n # p
    <3>1. delivered'[n] = delivered[n]
      BY <1>2, <2>1 DEF HandleCommit, Log!Deliver, TypeOK, Log!TypeOK
    <3>2. partition'[n] = partition[n]
      BY <1>2, <2>1 DEF HandleCommit, TypeOK
    <3> QED
      BY <1>1, <3>1, <3>2
  <2>2. CASE n = p
    <3> PICK k, x : k = i /\ x = m
      OBVIOUS
    <3>1. x \in Msg
      BY <1>2, CommitEffect
    <3>2. \/ /\ order[k] = Published(x)
             /\ partition' = [partition EXCEPT ![p] = Append(partition[p],
                   [msg |-> x, acked |-> FALSE, at |-> k, saved |-> Attached(p)])]
          \/ /\ order[k].op = "ack"
             /\ partition' = [partition EXCEPT ![p] = MarkAcked(partition[p], x)]
      BY <1>2, CommitEffect
    <3>3. Attached(p) \in BOOLEAN
      BY DEF Attached
    <3> QED
      BY <1>2, <2>2, <3>1, <3>2, <3>3, CopiesPublished, CopiesMarked
  <2> QED
    BY <2>1, <2>2
<1>3. ASSUME NEW p \in Node, Load(p)
      PROVE  CopiesAt(n)'
  <2>1. CASE n # p
    BY <1>1, <1>3, <2>1, LoadEffect DEF Load, logVars
  <2>2. CASE n = p
    BY <1>3, <2>2, CopiesLoaded
  <2> QED
    BY <2>1, <2>2
<1>4. ASSUME NEW p \in Node, Restart(p)
      PROVE  CopiesAt(n)'
  <2>1. CASE n # p
    BY <1>1, <1>4, <2>1 DEF Restart, Log!Rejoin, TypeOK, Log!TypeOK
  <2>2. CASE n = p
    <3>1. partition'[n] = <<>> /\ delivered'[n] = <<>>
      BY <1>4, <2>2 DEF Restart, Log!Rejoin, TypeOK, Log!TypeOK
    <3>2. Len(partition'[n]) = 0 /\ Applied(n)' = 0
      BY <3>1, EmptySeq DEF Applied
    <3> QED
      BY <3>2 DEF CopiesAt, CopiesFit, NoneMissing, InPlace
  <2> QED
    BY <2>1, <2>2
<1>5. ASSUME NEW p \in Node, NEW m \in Msg, NEW kind, Fail(p, m, kind)
      PROVE  CopiesAt(n)'
  <2>1. /\ partition' = [partition EXCEPT ![p] = Unsaved(partition[p], m)]
        /\ delivered' = delivered
    BY <1>5 DEF Fail, Unsaved, logVars
  <2>2. CASE n # p
    BY <1>1, <2>1, <2>2 DEF TypeOK
  <2>3. CASE n = p
    <3>1. partition'[n] = Unsaved(partition[n], m) /\ partition[n] \in Seq(Copy)
      BY <2>1, <2>3 DEF TypeOK
    <3> QED
      BY <2>1, <3>1, UnsavedEffect, CopiesKept
  <2> QED
    BY <2>2, <2>3
<1>6. ASSUME UNCHANGED <<delivered, partition>>
      PROVE  CopiesAt(n)'
  BY <1>1, <1>6
<1>7. CASE \E p \in Node : \/ Elect(p) \/ HandleCommit(p) \/ Restart(p)
                           \/ Attach(p) \/ Answer(p) \/ AnswerLost(p) \/ Load(p)
  BY <1>2, <1>3, <1>4, <1>6, <1>7 DEF Elect, Log!Elect, Attach, Answer, AnswerLost,
                                      logVars
<1>8. CASE \E m \in Msg : Publish(m) \/ \E c \in AckCall : Acknowledge(m, c)
  BY <1>6, <1>8 DEF Publish, Acknowledge, Log!Propose
<1>9. CASE \E p \in Node, b \in 1..MaxBatch : Consume(p, b)
  BY <1>6, <1>9 DEF Consume, logVars
<1>10. CASE \E p \in Node, m \in Msg :
             \/ BeginPersist(p, m)
             \/ \E kind \in Sent : Land(p, m, kind) \/ Fail(p, m, kind)
  BY <1>5, <1>6, <1>10 DEF BeginPersist, Land, logVars
<1>11. CASE \E m \in Msg, kind \in Sent : Land(Nil, m, kind)
  BY <1>6, <1>11 DEF Land, logVars
<1>12. CASE UNCHANGED vars
  BY <1>6, <1>12 DEF vars
<1> QED
  BY <1>7, <1>8, <1>9, <1>10, <1>11, <1>12 DEF Next

-----------------------------------------------------------------------------
\* Redis, the tasks and what was handed out.

\* Two tasks are the same only if they agree in all three.
LEMMA TriplesDiffer ==
    ASSUME NEW n, NEW m, NEW k, NEW p, NEW x, NEW h
    PROVE  <<n, m, k>> = <<p, x, h>> <=> n = p /\ m = x /\ k = h
OBVIOUS

\* A task that is new in this step, of a node or left by a dead process.
LEMMA NewTask ==
    ASSUME QueueInv, [Next]_vars, NEW n \in Node \cup {Nil}, NEW m \in Msg,
           NEW kind \in {"persist"} \cup Sent,
           tasks'[<<n, m, kind>>] > 0, ~(tasks[<<n, m, kind>>] > 0)
    PROVE  IF kind \in {"persist", "set"} THEN Known(m)' ELSE Finished(m)'
<1> USE DEF QueueInv
<1> DEFINE t == <<n, m, kind>>
           Goal == IF kind \in {"persist", "set"} THEN Known(m)' ELSE Finished(m)'
<1>1. t \in Task /\ tasks[t] \in Nat
  BY TaskTypes DEF TypeOK
<1>2. /\ Known(m) => Known(m)'
      /\ Finished(m) => Finished(m)'
  BY KnownStays
<1>3. ASSUME n \in Node, NEW j \in 1..Len(partition[n]), partition[n][j].msg = m
      PROVE  /\ Known(m)
             /\ partition[n][j].acked => Finished(m)
  <2>1. CopyFits(n, m, partition[n][j].at, partition[n][j].acked)
    BY <1>3 DEF CopiesAt, CopiesFit
  <2> QED
    BY <1>3, <2>1, AppliedIsFinished DEF CopyFits
<1>4. ASSUME tasks' = tasks
      PROVE  Goal
  BY <1>4
<1>5. ASSUME NEW p \in Node, HandleCommit(p)
      PROVE  Goal
  <2> PICK i, x : i = Applied(p) + 1 /\ x = order[i].msg
    OBVIOUS
  <2>1. /\ x \in Msg
        /\ \/ order[i] = Published(x) /\ tasks' = Scheduled(p, x, "persist")
           \/ order[i].op = "ack" /\ tasks' = Scheduled(p, x, "delete")
    BY <1>5, CommitEffect
  <2>2. /\ order[i] = Published(x) => Known(x)'
        /\ order[i].op = "ack" => Finished(x)'
    BY <1>5, PublishKnown
  <2>3. CASE order[i] = Published(x) /\ tasks' = Scheduled(p, x, "persist")
    <3>1. t = <<p, x, "persist">>
      BY <1>1, <2>1, <2>3, ScheduledEffect
    <3> QED
      BY <2>2, <2>3, <3>1, TriplesDiffer
  <2>4. CASE order[i].op = "ack" /\ tasks' = Scheduled(p, x, "delete")
    <3>1. t = <<p, x, "delete">>
      BY <1>1, <2>1, <2>4, ScheduledEffect
    <3> QED
      BY <2>2, <2>4, <3>1, TriplesDiffer
  <2> QED
    BY <2>1, <2>3, <2>4
<1>6. ASSUME NEW p \in Node, Restart(p)
      PROVE  Goal
  <2>1. kind \in Sent /\ tasks[<<p, m, kind>>] > 0
    BY <1>6, RestartTasks
  <2> QED
    BY <1>2, <2>1 DEF OnlyKnown, TakenByAck, Sent
<1>7. ASSUME NEW p \in Node, NEW b, Consume(p, b)
      PROVE  Goal
  <2>1. tasks'[<<n, m, kind>>] # tasks[<<n, m, kind>>]
    OBVIOUS
  <2>2. kind = "persist"
    <3>1. \A z \in Sent :
             tasks'[<<n, m, z>>] = tasks[<<n, m, z>>]
      BY <1>7, ConsumeEffect
    <3>2. kind \notin Sent
      BY <2>1, <3>1, Zenon
    <3> QED
      BY <3>2
  <2>3. n \in Node /\ \E j \in 1..Len(partition[n]) : partition[n][j].msg = m
    BY <1>7, <2>1, <2>2, ConsumeEffect
  <2> QED
    BY <1>2, <1>3, <2>2, <2>3
<1>8. ASSUME NEW p \in Node, NEW x \in Msg, BeginPersist(p, x)
      PROVE  Goal
  <2>1. t = <<p, x, Setting(p, x)>>
    BY <1>1, <1>8, BeginEffect
  <2>2. p = n /\ x = m /\ kind = Setting(n, m)
    BY <2>1, TriplesDiffer
  <2>3. Known(m)
    BY <1>8, <2>2, BeginEffect DEF OnlyKnown
  <2>4. CASE kind = "set"
    BY <1>2, <2>3, <2>4
  <2>5. CASE kind = "setAcked"
    <3>1. \E j \in DOMAIN partition[n] : partition[n][j].msg = m /\ partition[n][j].acked
      BY <2>2, <2>5 DEF Setting
    <3>2. Finished(m)
      BY <1>3, <2>2, <3>1, CopyTypes
    <3> QED
      BY <1>2, <2>5, <3>2
  <2> QED
    BY <2>2, <2>4, <2>5 DEF Setting
<1>9. ASSUME NEW p \in Node \cup {Nil}, NEW x \in Msg, NEW k \in Sent,
             Land(p, x, k) \/ Fail(p, x, k)
      PROVE  FALSE
  <2>1. <<p, x, k>> \in Task /\ tasks[<<p, x, k>>] > 0
        /\ tasks' = [tasks EXCEPT ![<<p, x, k>>] = @ - 1]
    BY <1>9, TaskTypes DEF Land, Fail
  <2> QED
    BY <1>1, <2>1, TaskEnds
<1>10. CASE \E p \in Node : \/ Elect(p) \/ HandleCommit(p) \/ Restart(p)
                            \/ Attach(p) \/ Answer(p) \/ AnswerLost(p) \/ Load(p)
  BY <1>4, <1>5, <1>6, <1>10 DEF Elect, Attach, Answer, AnswerLost, Load
<1>11. CASE \E x \in Msg : Publish(x) \/ \E c \in AckCall : Acknowledge(x, c)
  BY <1>4, <1>11 DEF Publish, Acknowledge
<1>12. CASE UNCHANGED vars
  BY <1>4, <1>12 DEF vars
<1> QED
  BY <1>7, <1>8, <1>9, <1>10, <1>11, <1>12 DEF Next

\* Redis changes a message only to what the cluster knows of it.
LEMMA StoreChange ==
    ASSUME QueueInv, [Next]_vars, NEW m \in Msg, store'[m] # store[m]
    PROVE  IF store'[m] = "unacked" THEN Known(m) ELSE Finished(m)
<1> USE DEF QueueInv
<1>1. PICK p \in Node \cup {Nil}, x \in Msg, k \in Sent : Land(p, x, k)
  BY DEF Next, vars, Elect, HandleCommit, Restart, Attach, Answer, AnswerLost, Load,
         Publish, Acknowledge, Consume, BeginPersist, Fail
<1>2. x = m /\ tasks[<<p, m, k>>] > 0 /\ store'[m] = Written[k]
  BY <1>1 DEF Land, TypeOK
<1>3. CASE k = "set"
  <2>1. Written[k] = "unacked" /\ Known(m)
    BY <1>2, <1>3 DEF OnlyKnown, Written
  <2> QED
    BY <1>2, <2>1
<1>4. CASE k # "set"
  <2>1. Written[k] # "unacked"
    BY <1>4 DEF Written, Sent
  <2>2. Finished(m)
    BY <1>2, <1>4 DEF TakenByAck, Sent
  <2> QED
    BY <1>2, <2>1, <2>2
<1> QED
  BY <1>3, <1>4

\* What a node holds as Redis' answer is what Redis had.
LEMMA FoundChange ==
    ASSUME QueueInv, [Next]_vars, NEW n \in Node, NEW m \in redis'[n].found
    PROVE  m \in redis[n].found \/ (store[m] = "unacked" /\ store' = store)
<1> USE DEF QueueInv
<1>1. redis \in [Node -> Redis]
  BY DEF TypeOK
<1>2. ASSUME NEW p \in Node, Attach(p) \/ AnswerLost(p)
      PROVE  m \in redis[n].found
  BY <1>1, <1>2 DEF Attach, AnswerLost, Redis
<1>3. ASSUME NEW p \in Node, Answer(p)
      PROVE  m \in redis[n].found \/ (store[m] = "unacked" /\ store' = store)
  BY <1>1, <1>3 DEF Answer
<1>4. ASSUME NEW p \in Node, Load(p) \/ Restart(p)
      PROVE  m \in redis[n].found
  BY <1>1, <1>4 DEF Load, Restart, NoRedis
<1>5. ASSUME redis' = redis
      PROVE  m \in redis[n].found
  BY <1>5
<1>6. CASE \E p \in Node : \/ Elect(p) \/ HandleCommit(p) \/ Restart(p)
                           \/ Attach(p) \/ Answer(p) \/ AnswerLost(p) \/ Load(p)
  BY <1>2, <1>3, <1>4, <1>5, <1>6 DEF Elect, HandleCommit
<1>7. CASE \E x \in Msg : Publish(x) \/ \E c \in AckCall : Acknowledge(x, c)
  BY <1>5, <1>7 DEF Publish, Acknowledge
<1>8. CASE \E p \in Node, b \in 1..MaxBatch : Consume(p, b)
  BY <1>5, <1>8 DEF Consume
<1>9. CASE \E p \in Node, x \in Msg :
             \/ BeginPersist(p, x)
             \/ \E kind \in Sent : Land(p, x, kind) \/ Fail(p, x, kind)
  BY <1>5, <1>9 DEF BeginPersist, Land, Fail
<1>10. CASE \E x \in Msg, kind \in Sent : Land(Nil, x, kind)
  BY <1>5, <1>10 DEF Land
<1>11. CASE UNCHANGED vars
  BY <1>5, <1>11 DEF vars
<1> QED
  BY <1>6, <1>7, <1>8, <1>9, <1>10, <1>11 DEF Next

\* Every operation leaves Redis and the tasks with messages of the log.
LEMMA OnlyKnownStep ==
    ASSUME QueueInv, [Next]_vars
    PROVE  OnlyKnown'
<1> USE DEF QueueInv
<1> SUFFICES ASSUME NEW m \in Msg
             PROVE  /\ store'[m] = "unacked" => Known(m)'
                    /\ \A n \in Node : m \in redis'[n].found => Known(m)'
                    /\ \A o \in Node \cup {Nil} :
                          /\ tasks'[<<o, m, "persist">>] > 0 => Known(m)'
                          /\ tasks'[<<o, m, "set">>] > 0 => Known(m)'
  BY Zenon DEF OnlyKnown
<1>1. Known(m) => Known(m)'
  BY KnownStays
<1>2. store'[m] = "unacked" => Known(m)'
  BY <1>1, StoreChange DEF OnlyKnown
<1>3. ASSUME NEW n \in Node
      PROVE  m \in redis'[n].found => Known(m)'
  BY <1>1, FoundChange DEF OnlyKnown
<1>4. ASSUME NEW o \in Node \cup {Nil}, NEW kind \in {"persist", "set"},
             tasks'[<<o, m, kind>>] > 0
      PROVE  Known(m)'
  <2>1. CASE tasks[<<o, m, kind>>] > 0
    BY <1>1, <2>1 DEF OnlyKnown
  <2>2. CASE ~(tasks[<<o, m, kind>>] > 0)
    BY <1>4, <2>2, NewTask DEF Sent
  <2> QED
    BY <2>1, <2>2
<1> QED
  BY <1>2, <1>3, <1>4

\* Only acknowledged messages are deleted or marked in Redis.
LEMMA TakenByAckStep ==
    ASSUME QueueInv, [Next]_vars
    PROVE  TakenByAck'
<1> USE DEF QueueInv
<1> SUFFICES ASSUME NEW m \in Msg
             PROVE  /\ \A n \in Node : m \in redis'[n].found =>
                          store'[m] = "unacked" \/ Finished(m)'
                    /\ \A o \in Node \cup {Nil} :
                          /\ tasks'[<<o, m, "setAcked">>] > 0 => Finished(m)'
                          /\ tasks'[<<o, m, "delete">>] > 0 => Finished(m)'
  BY Zenon DEF TakenByAck
<1>1. Finished(m) => Finished(m)'
  BY KnownStays
<1>2. ASSUME NEW o \in Node \cup {Nil}, NEW kind \in {"setAcked", "delete"},
             tasks'[<<o, m, kind>>] > 0
      PROVE  Finished(m)'
  <2>1. CASE tasks[<<o, m, kind>>] > 0
    BY <1>1, <2>1 DEF TakenByAck
  <2>2. CASE ~(tasks[<<o, m, kind>>] > 0)
    BY <1>2, <2>2, NewTask DEF Sent
  <2> QED
    BY <2>1, <2>2
<1>3. ASSUME NEW n \in Node, m \in redis'[n].found
      PROVE  store'[m] = "unacked" \/ Finished(m)'
  <2>1. store[m] = "unacked" \/ Finished(m)
    BY <1>3, FoundChange DEF TakenByAck
  <2> QED
    BY <1>1, <2>1, StoreChange
<1> QED
  BY <1>2, <1>3

\* Redis has m, will have it from a task of node n, or need not.
Kept(n, m) ==
    \/ store[m] = "unacked"
    \/ tasks[<<n, m, "persist">>] > 0
    \/ tasks[<<n, m, "set">>] > 0
    \/ Finished(m)

\* What is in Redis or on its way stays so unless the node dies or a command fails.
LEMMA KeptStays ==
    ASSUME QueueInv, [Next]_vars, NEW n \in Node, NEW m \in Msg, Kept(n, m),
           ~Restart(n), \A kind \in Sent : ~Fail(n, m, kind)
    PROVE  Kept(n, m)'
<1> USE DEF QueueInv
<1>1. CASE Finished(m)
  BY <1>1, KnownStays DEF Kept
<1>2. CASE store[m] = "unacked"
  BY <1>1, <1>2, StoreChange DEF Kept
<1> DEFINE a == <<n, m, "persist">>
           b == <<n, m, "set">>
<1>3. a \in Task /\ b \in Task /\ a # b /\ tasks \in [Task -> Nat]
  BY TaskTypes DEF TypeOK, Sent
<1>4. ASSUME NEW t \in {a, b}, tasks[t] > 0
      PROVE  tasks'[t] > 0 \/ Kept(n, m)'
  <2>1. ASSUME \A u \in Task : tasks[u] <= tasks'[u], tasks' \in [Task -> Nat]
        PROVE  tasks'[t] > 0
    BY <1>3, <1>4, <2>1
  <2>2. ASSUME tasks' = tasks
        PROVE  tasks'[t] > 0
    BY <1>4, <2>2
  <2>3. ASSUME NEW p \in Node, HandleCommit(p)
        PROVE  tasks'[t] > 0
    <3> PICK i, x : i = Applied(p) + 1 /\ x = order[i].msg
      OBVIOUS
    <3>1. /\ x \in Msg
          /\ \E kind \in {"persist", "delete"} : tasks' = Scheduled(p, x, kind)
      BY <2>3, CommitEffect
    <3>2. PICK kind \in {"persist", "delete"} : tasks' = Scheduled(p, x, kind)
      BY <3>1
    <3>3. /\ Scheduled(p, x, kind) \in [Task -> Nat]
          /\ \A u \in Task : tasks[u] <= Scheduled(p, x, kind)[u]
      BY <3>1, ScheduledEffect
    <3> QED
      BY <2>1, <3>2, <3>3
  <2>4. ASSUME NEW p \in Node, Restart(p)
        PROVE  tasks'[t] > 0
    <3>1. tasks'[a] = tasks[a] /\ tasks'[b] = tasks[b]
      BY <2>4, RestartTasks DEF Sent
    <3> QED
      BY <1>4, <3>1
  <2>5. ASSUME NEW p \in Node, NEW d, Consume(p, d)
        PROVE  tasks'[t] > 0
    BY <2>1, <2>5, ConsumeEffect
  <2>6. ASSUME NEW p \in Node, NEW x \in Msg, BeginPersist(p, x)
        PROVE  tasks'[t] > 0 \/ Kept(n, m)'
    <3>1. CASE t # <<p, x, "persist">>
      <4>1. tasks[t] <= tasks'[t] /\ tasks'[t] \in Nat
        BY <1>3, <2>6, <3>1, BeginEffect
      <4> QED
        BY <1>3, <1>4, <4>1
    <3>2. CASE t = <<p, x, "persist">>
      <4>1. p = n /\ x = m
        BY <1>4, <3>2, TriplesDiffer
      <4>2. CASE Setting(n, m) = "set"
        BY <2>6, <4>1, <4>2, BeginEffect DEF Kept
      <4>3. CASE Setting(n, m) # "set"
        <5>1. PICK j \in 1..Len(partition[n]) :
                partition[n][j].msg = m /\ partition[n][j].acked
          BY <4>3, CopyTypes DEF Setting
        <5>2. CopyFits(n, m, partition[n][j].at, partition[n][j].acked)
          BY <5>1 DEF CopiesAt, CopiesFit
        <5>3. Finished(m)
          BY <5>1, <5>2, AppliedIsFinished DEF CopyFits
        <5> QED
          BY <5>3, KnownStays DEF Kept
      <4> QED
        BY <4>2, <4>3
    <3> QED
      BY <3>1, <3>2
  <2>7. ASSUME NEW p \in Node \cup {Nil}, NEW x \in Msg, NEW k \in Sent,
               Land(p, x, k) \/ (p \in Node /\ Fail(p, x, k))
        PROVE  tasks'[t] > 0 \/ Kept(n, m)'
    <3>1. <<p, x, k>> \in Task /\ tasks[<<p, x, k>>] > 0
          /\ tasks' = [tasks EXCEPT ![<<p, x, k>>] = @ - 1]
      BY <2>7, TaskTypes DEF Land, Fail
    <3>2. CASE t # <<p, x, k>>
      <4>1. tasks'[t] = tasks[t]
        BY <1>3, <3>1, <3>2, TaskEnds
      <4> QED
        BY <1>4, <4>1
    <3>3. CASE t = <<p, x, k>>
      <4>1. p = n /\ x = m /\ k = "set"
        BY <1>4, <3>3, TriplesDiffer DEF Sent
      <4>2. Land(n, m, "set")
        BY <2>7, <4>1
      <4>3. store'[m] = "unacked"
        BY <4>2 DEF Land, TypeOK, Written
      <4> QED
        BY <4>3 DEF Kept
    <3> QED
      BY <3>2, <3>3
  <2>8. CASE \E p \in Node : \/ Elect(p) \/ HandleCommit(p) \/ Restart(p)
                             \/ Attach(p) \/ Answer(p) \/ AnswerLost(p) \/ Load(p)
    BY <2>2, <2>3, <2>4, <2>8 DEF Elect, Attach, Answer, AnswerLost, Load
  <2>9. CASE \E x \in Msg : Publish(x) \/ \E c \in AckCall : Acknowledge(x, c)
    BY <2>2, <2>9 DEF Publish, Acknowledge
  <2>10. CASE UNCHANGED vars
    BY <2>2, <2>10 DEF vars
  <2> QED
    BY <2>5, <2>6, <2>7, <2>8, <2>9, <2>10 DEF Next
<1>5. CASE tasks[a] > 0
  BY <1>4, <1>5 DEF Kept
<1>6. CASE tasks[b] > 0
  BY <1>4, <1>6 DEF Kept
<1> QED
  BY <1>1, <1>2, <1>5, <1>6 DEF Kept

\* A copy Redis is to have was so before, or is new.
LEMMA SavedCopies ==
    ASSUME QueueInv, [Next]_vars, NEW n \in Node, NEW i \in 1..Len(partition'[n]),
           partition'[n][i].saved, NEW m, m = partition'[n][i].msg
    PROVE  \/ Kept(n, m)'
           \/ /\ \E j \in 1..Len(partition[n]) :
                    partition[n][j].saved /\ partition[n][j].msg = m
              /\ ~Restart(n)
              /\ \A kind \in Sent : ~Fail(n, m, kind)
<1> USE DEF QueueInv
<1> DEFINE Old == \E j \in 1..Len(partition[n]) :
                     partition[n][j].saved /\ partition[n][j].msg = m
<1>1. Old \/ Kept(n, m)'
  <2>1. ASSUME partition'[n] = partition[n]
        PROVE  Old
    BY <2>1
  <2>2. ASSUME NEW p \in Node, HandleCommit(p)
        PROVE  Old \/ Kept(n, m)'
    <3>1. CASE n # p
      BY <2>1, <2>2, <3>1 DEF HandleCommit, TypeOK
    <3>2. CASE n = p
      <4> PICK k, x : k = Applied(p) + 1 /\ x = order[k].msg
        OBVIOUS
      <4>1. x \in Msg /\ k \in Nat
        BY <2>2, CommitEffect, DeliverEffect
      <4>2. CASE /\ partition' = [partition EXCEPT ![n] = Append(partition[n],
                       [msg |-> x, acked |-> FALSE, at |-> k, saved |-> Attached(n)])]
                 /\ tasks' = Scheduled(n, x, "persist")
        <5> DEFINE new == [msg |-> x, acked |-> FALSE, at |-> k, saved |-> Attached(n)]
        <5>1. new \in Copy /\ partition[n] \in Seq(Copy)
          BY <4>1 DEF TypeOK, Copy, Attached
        <5>2. partition'[n] = Append(partition[n], new)
          BY <4>2 DEF TypeOK
        <5>3. new.saved = Attached(n) /\ new.msg = x
          OBVIOUS
        <5> HIDE DEF new
        <5>4. \/ i \in 1..Len(partition[n]) /\ partition'[n][i] = partition[n][i]
              \/ partition'[n][i] = new
          BY <5>1, <5>2
        <5>5. CASE partition'[n][i] = new
          <6>1. Attached(n) /\ m = x
            BY <5>3, <5>5
          <6>2. Scheduled(n, x, "persist")[<<n, x, "persist">>] > 0
            BY <4>1, <6>1, ScheduledEffect
          <6> QED
            BY <4>2, <6>1, <6>2 DEF Kept
        <5> QED
          BY <5>4, <5>5
      <4>3. CASE partition' = [partition EXCEPT ![n] = MarkAcked(partition[n], x)]
        <5>1. partition'[n] = MarkAcked(partition[n], x) /\ partition[n] \in Seq(Copy)
          BY <4>3 DEF TypeOK
        <5> QED
          BY <5>1, MarkAckedEffect
      <4> QED
        BY <2>2, <3>2, <4>2, <4>3, CommitEffect
    <3> QED
      BY <3>1, <3>2
  <2>3. ASSUME NEW p \in Node, Load(p)
        PROVE  Old \/ Kept(n, m)'
    <3>1. CASE n # p
      BY <2>1, <2>3, <3>1, LoadEffect
    <3>2. CASE n = p /\ i \in 1..Len(partition[n])
      BY <2>3, <3>2, LoadEffect
    <3>3. CASE n = p /\ i \in (Len(partition[n]) + 1)..Len(partition'[n])
      <4>1. m \in NotYetKnown(n)
        BY <2>3, <3>3, LoadEffect
      <4>2. m \in redis[n].found /\ m \in Msg
        BY <4>1 DEF NotYetKnown, TypeOK, Redis
      <4>3. Kept(n, m)
        BY <4>2 DEF TakenByAck, Kept
      <4>4. ~Restart(n) /\ \A kind \in Sent : ~Fail(n, m, kind)
        <5>1. redis'[n].phase = "attached" /\ redis[n].phase = "answered"
          BY <2>3, <3>3 DEF Load, TypeOK
        <5> QED
          BY <5>1 DEF Restart, Fail, NoRedis, TypeOK
      <4> QED
        BY <4>2, <4>3, <4>4, KeptStays
    <3> QED
      BY <2>3, <3>1, <3>2, <3>3, LoadEffect
  <2>4. ASSUME NEW p \in Node, Restart(p)
        PROVE  Old
    <3>1. CASE n # p
      BY <2>1, <2>4, <3>1 DEF Restart, TypeOK
    <3>2. CASE n = p
      <4>1. partition'[n] = <<>> /\ Len(partition'[n]) = 0
        BY <2>4, <3>2, EmptySeq DEF Restart, TypeOK
      <4> QED
        BY <4>1
    <3> QED
      BY <3>1, <3>2
  <2>5. ASSUME NEW p \in Node, NEW x \in Msg, NEW kind, Fail(p, x, kind)
        PROVE  Old
    <3>1. partition' = [partition EXCEPT ![p] = Unsaved(partition[p], x)]
      BY <2>5 DEF Fail, Unsaved
    <3>2. CASE n # p
      BY <2>1, <3>1, <3>2 DEF TypeOK
    <3>3. CASE n = p
      <4>1. partition'[n] = Unsaved(partition[n], x) /\ partition[n] \in Seq(Copy)
        BY <3>1, <3>3 DEF TypeOK
      <4> QED
        BY <4>1, UnsavedEffect
    <3> QED
      BY <3>2, <3>3
  <2>6. ASSUME partition' = partition
        PROVE  Old
    BY <2>1, <2>6
  <2>7. CASE \E p \in Node : \/ Elect(p) \/ HandleCommit(p) \/ Restart(p)
                             \/ Attach(p) \/ Answer(p) \/ AnswerLost(p) \/ Load(p)
    BY <2>2, <2>3, <2>4, <2>6, <2>7 DEF Elect, Attach, Answer, AnswerLost
  <2>8. CASE \E x \in Msg : Publish(x) \/ \E c \in AckCall : Acknowledge(x, c)
    BY <2>6, <2>8 DEF Publish, Acknowledge
  <2>9. CASE \E p \in Node, b \in 1..MaxBatch : Consume(p, b)
    BY <2>6, <2>9 DEF Consume
  <2>10. CASE \E p \in Node, x \in Msg :
               \/ BeginPersist(p, x)
               \/ \E kind \in Sent : Land(p, x, kind) \/ Fail(p, x, kind)
    BY <2>5, <2>6, <2>10 DEF BeginPersist, Land
  <2>11. CASE \E x \in Msg, kind \in Sent : Land(Nil, x, kind)
    BY <2>6, <2>11 DEF Land
  <2>12. CASE UNCHANGED vars
    BY <2>6, <2>12 DEF vars
  <2> QED
    BY <2>7, <2>8, <2>9, <2>10, <2>11, <2>12 DEF Next
<1>2. ~Restart(n)
  <2> SUFFICES ASSUME Restart(n)
               PROVE  FALSE
    OBVIOUS
  <2>1. partition'[n] = <<>> /\ Len(partition'[n]) = 0
    BY EmptySeq DEF Restart, TypeOK
  <2> QED
    BY <2>1
<1>3. ASSUME NEW kind \in Sent, Fail(n, m, kind)
      PROVE  FALSE
  <2>1. partition'[n] = Unsaved(partition[n], m) /\ partition[n] \in Seq(Copy)
    BY <1>3 DEF Fail, Unsaved, TypeOK
  <2> QED
    BY <2>1, UnsavedEffect
<1> QED
  BY <1>1, <1>2, <1>3

\* Every operation keeps what a node takes to be saved saved or on its way.
LEMMA DurableStep ==
    ASSUME QueueInv, [Next]_vars
    PROVE  Durable'
<1> USE DEF QueueInv
<1>1. ASSUME NEW n \in Node, NEW i \in 1..Len(partition'[n]), NEW m,
             m = partition'[n][i].msg, partition'[n][i].saved
      PROVE  Kept(n, m)'
  <2>1. m \in Msg
    <3>1. partition'[n] \in Seq(Copy)
      BY TypeStep DEF TypeOK
    <3>2. partition'[n][i] \in Copy
      BY <3>1, ElementOfSeq
    <3> QED
      BY <1>1, <3>2 DEF Copy
  <2>2. ASSUME NEW j \in 1..Len(partition[n]), partition[n][j].saved,
               partition[n][j].msg = m
        PROVE  Kept(n, m)
    BY <2>2 DEF Durable, Kept, Finished
  <2> QED
    BY <1>1, <2>1, <2>2, SavedCopies, KeptStays
<1>2. SUFFICES ASSUME NEW n \in Node, NEW i \in 1..Len(partition'[n]),
                      partition'[n][i].saved
               PROVE  Kept(n, partition[n][i].msg)'
  BY DEF Durable, Kept, Finished
<1>3. PICK m : m = partition'[n][i].msg
  OBVIOUS
<1>4. Kept(n, m)'
  BY <1>1, <1>2, <1>3
<1> QED
  BY <1>3, <1>4, Zenon DEF Kept, Finished, AckApplied

-----------------------------------------------------------------------------
\* At the start there are no messages, no tasks and no entries.
LEMMA QueueInvInit == Init => QueueInv
<1> SUFFICES ASSUME Init
             PROVE  QueueInv
  OBVIOUS
<1>1. /\ order = <<>> /\ Len(order) = 0
      /\ \A n \in Node : /\ delivered[n] = <<>> /\ Len(delivered[n]) = 0
                         /\ partition[n] = <<>> /\ Len(partition[n]) = 0
  BY DEF Init, Log!Init
<1>2. TypeOK
  <2>1. <<>> \in Seq(Copy) /\ <<>> \in Seq(Command)
    BY EmptySeq
  <2>2. redis \in [Node -> Redis]
    BY DEF Init, NoRedis, Redis
  <2>3. store \in [Msg -> {"absent", "unacked", "acked"}]
    BY DEF Init
  <2>4. Log!TypeOK
    BY <2>1 DEF Init, Log!Init, Log!TypeOK
  <2> QED
    BY <2>1, <2>2, <2>3, <2>4 DEF Init, TypeOK
<1>3. AppliedByLeader
  <2>1. leader = Nil \/ leader \in Node
    BY <1>2 DEF TypeOK, Log!TypeOK
  <2> QED
    BY <1>1, <2>1 DEF AppliedByLeader, Applied
<1>4. EntriesOnce /\ AcksFollow
  BY <1>1 DEF EntriesOnce, AcksFollow
<1>5. ASSUME NEW n \in Node
      PROVE  CopiesAt(n)
  BY <1>1 DEF CopiesAt, CopiesFit, NoneMissing, InPlace, Applied
<1>6. OnlyKnown /\ TakenByAck
  <2>1. ASSUME NEW m \in Msg
        PROVE  store[m] = "unacked" => Known(m)
    BY DEF Init, Known
  <2>2. ASSUME NEW m \in Msg, NEW o \in Node \cup {Nil},
               NEW kind \in {"persist"} \cup Sent
        PROVE  ~(tasks[<<o, m, kind>>] > 0)
    <3>1. <<o, m, kind>> \in Task
      BY TaskTypes
    <3> QED
      BY <3>1 DEF Init
  <2>3. \A m \in Msg, n \in Node : m \notin redis[n].found
    BY DEF Init, NoRedis
  <2> QED
    BY <2>1, <2>2, <2>3 DEF OnlyKnown, TakenByAck, Sent
<1>7. Durable
  BY <1>1 DEF Durable
<1> QED
  BY <1>2, <1>3, <1>4, <1>5, <1>6, <1>7 DEF QueueInv

\* Every operation of the queue keeps the invariant.
LEMMA QueueInvStep == QueueInv /\ [Next]_vars => QueueInv'
<1> SUFFICES ASSUME QueueInv, [Next]_vars
             PROVE  QueueInv'
  OBVIOUS
<1>1. TypeOK'
  BY TypeStep DEF QueueInv
<1>2. \A n \in Node : CopiesAt(n)'
  BY CopiesStep
<1> QED
  BY <1>1, <1>2, AppliedByLeaderStep, OrderStep, OnlyKnownStep, TakenByAckStep,
     DurableStep DEF QueueInv

\* The invariant of the queue holds throughout.
LEMMA QueueInvHolds == Spec => []QueueInv
BY QueueInvInit, QueueInvStep, PTL DEF Spec

-----------------------------------------------------------------------------
\* The partitions, the clients of Redis and the tasks keep their types.
THEOREM QueueTypeCorrect == Spec => []TypeOK
<1>1. QueueInv => TypeOK
  BY DEF QueueInv
<1> QED
  BY <1>1, QueueInvHolds, PTL

\* A node offers a message of this cluster until it applies an acknowledgement,
\* and never after (_handle_commit, _load_persisted_messages).
THEOREM AckedAlwaysStaysAcked == Spec => []AckedStaysAcked
<1>1. QueueInv => AckedStaysAcked
  <2> SUFFICES ASSUME QueueInv, NEW n \in Node, NEW i \in 1..Len(partition[n]),
                      partition[n][i].msg \notin OldMsg
               PROVE  partition[n][i].acked <=> AckApplied(n, partition[n][i].msg)
    BY Zenon DEF AckedStaysAcked
  <2>1. CopyFits(n, partition[n][i].msg, partition[n][i].at, partition[n][i].acked)
    BY DEF QueueInv, CopiesAt, CopiesFit
  <2> QED
    BY <2>1, Zenon DEF CopyFits
<1> QED
  BY <1>1, QueueInvHolds, PTL

\* A node has one copy of each publish it has applied, in the order of the log,
\* and what it recovers from Redis doubles none of them.
THEOREM CopiesAlwaysExplained == Spec => []CopiesAreExplained
<1>1. QueueInv => CopiesAreExplained
  BY DEF QueueInv, CopiesAt, NoneMissing, InPlace, CopiesAreExplained, Applied
<1> QED
  BY <1>1, QueueInvHolds, PTL

\* What a node believes is in Redis is there or on its way, until the leader
\* has applied an acknowledgement.
THEOREM AlwaysDurable == Spec => []Durable
<1>1. QueueInv => Durable
  BY DEF QueueInv
<1> QED
  BY <1>1, QueueInvHolds, PTL

\* No late command of any node takes an unacknowledged message out of Redis.
THEOREM StoreAlwaysKeepsUnacked == Spec => StoreKeepsUnacked
<1> DEFINE A == \A m \in Msg : store[m] = "unacked" /\ store'[m] # "unacked"
                                  => leader # Nil /\ AckApplied(leader, m)
<1>1. QueueInv /\ [Next]_vars => A
  BY StoreChange DEF Finished
<1>2. Spec => [][A]_vars
  BY <1>1, QueueInvHolds, PTL DEF Spec
<1> QED
  BY <1>2 DEF StoreKeepsUnacked
=============================================================================
