----------------------------- MODULE CacheProofs -----------------------------
(***************************************************************************)
(* Theorems about Cache, for every set of nodes, keys and requests and     *)
(* every size of the cache.                                                *)
(***************************************************************************)
EXTENDS Cache, SequenceTheorems, TLAPS

\* How many entries node n has applied.
Applied(n) == Len(delivered[n])

\* A node applies entries the leader has appended.
AppliedAppended ==
    \A n \in Node : /\ Applied(n) <= Len(order)
                    /\ leader = Nil => Applied(n) = 0

\* No entry is appended twice.
EntriesOnce == \A i, j \in 1..Len(order) : order[i] = order[j] => i = j

\* An entry is appended by a request that has begun, a put by a put.
EntriesRequested ==
    \A i \in 1..Len(order) :
        /\ request[order[i].req] # NoRequest
        /\ order[i].op = "put" => order[i].req \in PutRequest

\* A valid block holds the value of a put that has begun.
BlocksRequested ==
    \A n \in Node, k \in Key :
        cache[n][k].valid => request[cache[n][k].value] # NoRequest

\* The history of a request is written when it stores, or has invalidated.
Progress ==
    \A r \in Request : request[r] # NoRequest =>
        /\ leader # Nil
        /\ request[r].phase \in {"acquiring", "broadcasting", "replicating"} =>
              r \in PutRequest /\ request[r].target = Nil /\ request[r].stored = 0
        /\ request[r].phase \in {"acquiring", "broadcasting", "replicating",
                                 "invalidating"} => request[r].ended = 0
        /\ request[r].phase = "invalidating" => request[r].target \in Key

-----------------------------------------------------------------------------
\* Facts about the operators of the model

\* The entries put and handle_invalidation append are commands.
LEMMA EntryType ==
    ASSUME NEW op \in {"acquire", "invalidateAll", "put", "invalidate"},
           NEW r \in Request, NEW k \in Key
    PROVE  /\ Entry(op, r, k) \in Command
           /\ Entry(op, r, k).op = op /\ Entry(op, r, k).req = r
           /\ Entry(op, r, k).key = k
BY DEF Entry, Command

\* A command is what its fields say.
LEMMA CommandForm ==
    ASSUME NEW e \in Command
    PROVE  /\ e.op \in {"acquire", "invalidateAll", "put", "invalidate"}
           /\ e.req \in Request /\ e.key \in Key
           /\ e = Entry(e.op, e.req, e.key)
BY DEF Entry, Command

\* Blocks, valid and invalidated, and the lack of one.
LEMMA BlockForms ==
    /\ NoBlock \notin Block /\ NoBlock.valid = FALSE
    /\ \A b \in Block : /\ b.value \in PutRequest /\ b.valid \in BOOLEAN
                        /\ [b EXCEPT !.valid = FALSE] \in Block
                        /\ [b EXCEPT !.valid = FALSE].valid = FALSE
                        /\ [b EXCEPT !.valid = FALSE].value = b.value
    /\ \A r \in PutRequest : /\ [value |-> r, valid |-> TRUE] \in Block
                             /\ [value |-> r, valid |-> TRUE].value = r
                             /\ [value |-> r, valid |-> TRUE].valid = TRUE
<1>1. NoBlock \notin Block
  <2>1. DOMAIN NoBlock = {"valid"} /\ \A b \in Block : "value" \in DOMAIN b
    BY DEF NoBlock, Block
  <2> QED
    BY <2>1
<1>2. NoBlock.valid = FALSE
  BY DEF NoBlock
<1>3. \A b \in Block : /\ b.value \in PutRequest /\ b.valid \in BOOLEAN
                       /\ [b EXCEPT !.valid = FALSE] \in Block
                       /\ [b EXCEPT !.valid = FALSE].valid = FALSE
                       /\ [b EXCEPT !.valid = FALSE].value = b.value
  BY DEF Block
<1>4. \A r \in PutRequest : /\ [value |-> r, valid |-> TRUE] \in Block
                            /\ [value |-> r, valid |-> TRUE].value = r
                            /\ [value |-> r, valid |-> TRUE].valid = TRUE
  BY DEF Block
<1> QED
  BY <1>1, <1>2, <1>3, <1>4

\* Requests under way, and the lack of one.
LEMMA RequestForms ==
    /\ NoRequest \notin Running /\ NoRequest.phase = "idle"
    /\ \A q \in Running : /\ q.key \in Key /\ q.target \in Key \cup {Nil}
                          /\ q.stored \in Nat /\ q.ended \in Nat
<1>1. NoRequest.phase = "idle" /\ \A q \in Running : q.phase # "idle"
  BY DEF NoRequest, Running
<1> QED
  BY <1>1 DEF Running

\* The order of access stays an order of keys.
LEMMA TouchedType ==
    ASSUME TypeOK, NEW k \in Key
    PROVE  Touched(k) \in Seq(Key)
<1> DEFINE i == Rank(recent, k)
<1>1. /\ recent \in Seq(Key) /\ Len(recent) \in Nat
      /\ DOMAIN recent = 1..Len(recent)
      /\ \A j \in 1..Len(recent) : recent[j] \in Key
  BY LenProperties, ElementOfSeq DEF TypeOK
<1>2. i = 0 \/ i \in 1..Len(recent)
  BY <1>1 DEF Rank
<1> HIDE DEF i
<1>3. CASE i = 0
  BY <1>1, <1>3 DEF Touched, i
<1>4. CASE i \in 1..Len(recent)
  <2>1. /\ i - 1 \in Int /\ i + 1 \in Int /\ Len(recent) \in Int
        /\ \A j \in 1..(i - 1) : j \in 1..Len(recent)
        /\ \A j \in (i + 1)..Len(recent) : j \in 1..Len(recent)
    BY <1>1, <1>4
  <2>2. SubSeq(recent, 1, i - 1) \in Seq(Key)
    BY <1>1, <2>1, SubSeqProperties
  <2>3. SubSeq(recent, i + 1, Len(recent)) \in Seq(Key)
    BY <1>1, <2>1, SubSeqProperties
  <2> DEFINE a == SubSeq(recent, 1, i - 1)
             b == SubSeq(recent, i + 1, Len(recent))
  <2>4. a \in Seq(Key) /\ b \in Seq(Key) /\ <<k>> \in Seq(Key)
    BY <2>2, <2>3
  <2> HIDE DEF a, b
  <2>5. (a \o b) \o <<k>> \in Seq(Key)
    BY <2>4, ConcatProperties
  <2>6. i # 0
    BY <1>1, <1>4
  <2> QED
    BY <2>5, <2>6 DEF Touched, i, a, b
<1> QED
  BY <1>2, <1>3, <1>4

\* One block of one node changes.
LEMMA BlockUpdate ==
    ASSUME TypeOK, NEW n \in Node, NEW k \in Key, NEW b \in Block \cup {NoBlock},
           cache' = [cache EXCEPT ![n][k] = b]
    PROVE  /\ cache' \in [Node -> [Key -> Block \cup {NoBlock}]]
           /\ cache'[n][k] = b
           /\ \A p \in Node, j \in Key :
                 p # n \/ j # k => cache'[p][j] = cache[p][j]
<1>1. cache \in [Node -> [Key -> Block \cup {NoBlock}]]
  BY DEF TypeOK
<1>2. [cache[n] EXCEPT ![k] = b] \in [Key -> Block \cup {NoBlock}]
  BY <1>1
<1>3. cache' = [cache EXCEPT ![n] = [cache[n] EXCEPT ![k] = b]]
  BY <1>1
<1> QED
  BY <1>1, <1>2, <1>3

\* One request changes.
LEMMA RequestUpdate ==
    ASSUME TypeOK, NEW r \in Request, NEW q \in Running,
           request' = [request EXCEPT ![r] = q]
    PROVE  /\ request' \in [Request -> Running \cup {NoRequest}]
           /\ request'[r] = q
           /\ \A s \in Request : s # r => request'[s] = request[s]
BY DEF TypeOK

\* append_entry puts one new command at the end of the order.
LEMMA ProposeEffect ==
    ASSUME TypeOK, NEW e \in Command, Log!Propose(e)
    PROVE  /\ leader # Nil /\ leader \in Node
           /\ order' \in Seq(Command)
           /\ Len(order) \in Nat /\ Len(order') = Len(order) + 1
           /\ order'[Len(order) + 1] = e
           /\ \A i \in 1..Len(order) : order'[i] = order[i] /\ order[i] # e
           /\ leader' = leader /\ delivered' = delivered
BY DEF TypeOK, Log!TypeOK, Log!Propose

\* A node applies one more entry.
LEMMA DeliverEffect ==
    ASSUME TypeOK, NEW n \in Node, HandleCommit(n), NEW i, i = Applied(n) + 1
    PROVE  /\ leader \in Node /\ leader # Nil
           /\ i \in Nat /\ i \in 1..Len(order) /\ Len(order) \in Nat
           /\ Applied(n) \in Nat
           /\ order[i] \in Command
           /\ leader' = leader /\ order' = order
           /\ delivered' \in [Node -> Seq(Command)]
           /\ Applied(n)' = i
           /\ \A p \in Node : p # n => delivered'[p] = delivered[p]
<1> DEFINE d == SubSeq(order, 1, i)
<1>1. /\ leader # Nil /\ leader \in Node
      /\ leader' = leader /\ order' = order
      /\ delivered' = [delivered EXCEPT ![n] = d]
      /\ i <= Len(order)
  BY DEF HandleCommit, Log!Deliver, Applied, TypeOK, Log!TypeOK
<1>2. i \in Nat /\ i \in 1..Len(order) /\ Len(order) \in Nat /\ Applied(n) \in Nat
      /\ \A j \in 1..i : order[j] \in Command
  BY <1>1 DEF Applied, TypeOK, Log!TypeOK
<1>3. d \in Seq(Command) /\ Len(d) = i
  BY <1>2, SubSeqProperties
<1> HIDE DEF d
<1>4. delivered' \in [Node -> Seq(Command)] /\ delivered'[n] = d
      /\ \A p \in Node : p # n => delivered'[p] = delivered[p]
  BY <1>1, <1>3 DEF TypeOK, Log!TypeOK
<1>5. order[i] \in Command
  BY <1>2
<1>6. Applied(n)' = i
  BY <1>3, <1>4 DEF Applied
<1> QED
  BY <1>1, <1>2, <1>4, <1>5, <1>6

-----------------------------------------------------------------------------
\* What the actions do, in terms of single blocks and requests.

\* put begins with the entry that acquires the key.
LEMMA PutEffect ==
    ASSUME TypeOK, NEW r \in PutRequest, NEW k \in Key, Put(r, k)
    PROVE  /\ Entry("acquire", r, k) \in Command
           /\ Log!Propose(Entry("acquire", r, k))
           /\ \E q \in Running :
                 /\ request' = [request EXCEPT ![r] = q]
                 /\ q.phase = "acquiring" /\ q.target = Nil
                 /\ q.stored = 0 /\ q.ended = 0
           /\ request[r] = NoRequest
           /\ cache' = cache /\ recent' = recent
<1> DEFINE q == [phase |-> "acquiring", key |-> k, target |-> Nil,
                 stored |-> 0, ended |-> 0]
<1>1. q \in Running /\ q.phase = "acquiring" /\ q.target = Nil
      /\ q.stored = 0 /\ q.ended = 0
  BY DEF Running
<1>2. Entry("acquire", r, k) \in Command
  BY EntryType DEF Request
<1> QED
  BY <1>1, <1>2 DEF Put

\* put goes on to the entry that invalidates elsewhere, and to the one that
\* replicates.
LEMMA AdvanceEffect ==
    ASSUME TypeOK, NEW r \in Request, BroadcastInvalidation(r) \/ Replicate(r)
    PROVE  /\ request[r] \in Running
           /\ request[r].phase \in {"acquiring", "broadcasting"}
           /\ \E op \in {"invalidateAll", "put"} :
                 /\ Entry(op, r, request[r].key) \in Command
                 /\ Log!Propose(Entry(op, r, request[r].key))
           /\ \E q \in Running :
                 /\ request' = [request EXCEPT ![r] = q]
                 /\ q.phase \in {"broadcasting", "replicating"}
                 /\ q.key = request[r].key /\ q.target = request[r].target
                 /\ q.stored = request[r].stored /\ q.ended = request[r].ended
           /\ cache' = cache /\ recent' = recent
<1>1. PICK to \in {"broadcasting", "replicating"}, op \in {"invalidateAll", "put"} :
        /\ request[r].phase \in {"acquiring", "broadcasting"}
        /\ request' = [request EXCEPT ![r].phase = to]
        /\ Log!Propose(Entry(op, r, request[r].key))
        /\ UNCHANGED <<cache, recent>>
  BY DEF BroadcastInvalidation, Replicate, Advance
<1>2. request[r] \in Running
  BY <1>1, RequestForms DEF TypeOK
<1> DEFINE q == [request[r] EXCEPT !.phase = to]
<1>3. /\ q \in Running /\ q.phase = to /\ q.key = request[r].key
      /\ q.target = request[r].target
      /\ q.stored = request[r].stored /\ q.ended = request[r].ended
  BY <1>2 DEF Running
<1>4. request' = [request EXCEPT ![r] = q]
  BY <1>1
<1>5. Entry(op, r, request[r].key) \in Command
  BY <1>2, EntryType, RequestForms
<1> HIDE DEF q
<1> QED
  BY <1>1, <1>2, <1>3, <1>4, <1>5

\* put ends when its next entry is refused.
LEMMA PutRefusedEffect ==
    ASSUME TypeOK, NEW r \in Request, PutRefused(r)
    PROVE  /\ request[r] \in Running
           /\ request[r].phase \in {"acquiring", "broadcasting"}
           /\ \E q \in Running :
                 /\ request' = [request EXCEPT ![r] = q]
                 /\ q.phase = "done" /\ q.target = request[r].target
                 /\ q.stored = request[r].stored /\ q.ended = request[r].ended
           /\ UNCHANGED <<leader, order, delivered, cache, recent>>
<1>1. /\ request[r].phase \in {"acquiring", "broadcasting"}
      /\ request' = [request EXCEPT ![r].phase = "done"]
      /\ UNCHANGED <<leader, order, delivered, cache, recent>>
  BY DEF PutRefused, logVars
<1>2. request[r] \in Running
  BY <1>1, RequestForms DEF TypeOK
<1> DEFINE q == [request[r] EXCEPT !.phase = "done"]
<1>3. /\ q \in Running /\ q.phase = "done" /\ q.target = request[r].target
      /\ q.stored = request[r].stored /\ q.ended = request[r].ended
  BY <1>2 DEF Running
<1>4. request' = [request EXCEPT ![r] = q]
  BY <1>1
<1> HIDE DEF q
<1> QED
  BY <1>1, <1>2, <1>3, <1>4

\* The leader's block for j once request r has stored its own for k.
Stored(r, k, j) ==
    IF j = k THEN [value |-> r, valid |-> TRUE] ELSE cache[leader][j]

\* Request r stores its block and is q then: there is room for the block, or the
\* entry that invalidates the victim is appended or refused.
NothingEvicted(r, q, victim) ==
    victim = Nil /\ q.phase = "done" /\ q.ended = request[r].ended /\ order' = order

EvictionAppended(r, q, victim) ==
    /\ victim \in Key /\ q.phase = "invalidating" /\ q.ended = request[r].ended
    /\ Entry("invalidate", r, victim) \in Command
    /\ Log!Propose(Entry("invalidate", r, victim))

EvictionRefused(r, k, q, victim) ==
    /\ victim \in Key /\ q.phase = "done" /\ order' = order
    /\ q.ended = IF Stored(r, k, victim).valid THEN Applied(leader) ELSE 0

\* put stores its block, and may invalidate another or the same (victim).
StoreOutcome(r, k, q, victim) ==
    /\ request' = [request EXCEPT ![r] = q]
    /\ q.target = victim
    /\ q.stored = IF Superseded(r, k) THEN Applied(leader) ELSE 0
    /\ victim # Nil => Stored(r, k, victim) \in Block
    /\ \/ NothingEvicted(r, q, victim) \/ EvictionAppended(r, q, victim)
       \/ EvictionRefused(r, k, q, victim)
    /\ \A n \in Node, j \in Key :
          cache'[n][j] =
             IF n # leader THEN cache[n][j]
             ELSE IF j = victim THEN [Stored(r, k, j) EXCEPT !.valid = FALSE]
             ELSE Stored(r, k, j)

\* put ends by storing its block on the leader, after an eviction if need be.
LEMMA StoreEffect ==
    ASSUME TypeOK, Progress, NEW r \in Request, Store(r), NEW k, k = request[r].key
    PROVE  /\ leader \in Node /\ leader # Nil /\ leader' = leader
           /\ r \in PutRequest /\ k \in Key
           /\ request[r] \in Running /\ request[r].phase = "replicating"
           /\ cache' \in [Node -> [Key -> Block \cup {NoBlock}]]
           /\ recent' \in Seq(Key)
           /\ delivered' = delivered
           /\ \E q \in Running, victim \in Key \cup {Nil} :
                 StoreOutcome(r, k, q, victim)
<1> DEFINE applied == IF Superseded(r, k) THEN Applied(leader) ELSE 0
           blocks == [cache[leader] EXCEPT ![k] = [value |-> r, valid |-> TRUE]]
           ended(victim) == IF blocks[victim].valid THEN Applied(leader) ELSE 0
<1>1. request[r].phase = "replicating" /\ recent' = Touched(k)
  BY DEF Store
<1>2. request[r] \in Running /\ request[r] # NoRequest
  BY <1>1, RequestForms DEF TypeOK
<1>3. /\ leader # Nil /\ leader \in Node /\ k \in Key /\ r \in PutRequest
      /\ request[r].target = Nil /\ request[r].stored = 0
  BY <1>1, <1>2, RequestForms DEF Progress, TypeOK, Log!TypeOK
<1>4. applied \in Nat /\ \A victim : ended(victim) \in Nat
  BY <1>3 DEF Applied, TypeOK, Log!TypeOK
<1>5. cache \in [Node -> [Key -> Block \cup {NoBlock}]]
  BY DEF TypeOK
<1>6. /\ blocks \in [Key -> Block \cup {NoBlock}]
      /\ \A j \in Key : blocks[j] = Stored(r, k, j)
  BY <1>3, <1>5, BlockForms DEF Stored
<1>7. \/ /\ cache' = [cache EXCEPT ![leader] = blocks]
         /\ request' = [request EXCEPT ![r].phase = "done", ![r].stored = applied]
         /\ UNCHANGED logVars
      \/ \E victim \in Victims(blocks, recent') :
            /\ cache' = [cache EXCEPT ![leader] = [blocks EXCEPT ![victim].valid = FALSE]]
            /\ \/ /\ request' = [request EXCEPT ![r].phase = "invalidating",
                                                ![r].target = victim,
                                                ![r].stored = applied]
                  /\ Log!Propose(Entry("invalidate", r, victim))
               \/ /\ request' = [request EXCEPT ![r].phase = "done",
                                                ![r].target = victim,
                                                ![r].stored = applied,
                                                ![r].ended = ended(victim)]
                  /\ UNCHANGED logVars
  BY ZenonT(60) DEF Store, Applied
<1> HIDE DEF applied, blocks, ended
<1>8. recent' \in Seq(Key)
  BY <1>1, <1>3, TouchedType
<1>9. CASE /\ cache' = [cache EXCEPT ![leader] = blocks]
           /\ request' = [request EXCEPT ![r].phase = "done", ![r].stored = applied]
           /\ UNCHANGED logVars
  <2> DEFINE q == [request[r] EXCEPT !.phase = "done", !.stored = applied]
  <2>1. /\ q \in Running /\ q.phase = "done" /\ q.target = Nil
        /\ q.stored = applied /\ q.ended = request[r].ended
    BY <1>2, <1>3, <1>4 DEF Running
  <2>2. request' = [request EXCEPT ![r] = q]
    BY <1>9
  <2>3. /\ cache' \in [Node -> [Key -> Block \cup {NoBlock}]]
        /\ \A n \in Node, j \in Key :
              cache'[n][j] = IF n # leader THEN cache[n][j] ELSE Stored(r, k, j)
    BY <1>3, <1>5, <1>6, <1>9
  <2>4. leader' = leader /\ order' = order /\ delivered' = delivered
    BY <1>9 DEF logVars
  <2>5. \A j \in Key : j # Nil
    BY CacheAssumption
  <2> HIDE DEF q
  <2>6. StoreOutcome(r, k, q, Nil)
    <3>1. \A n \in Node, j \in Key :
             cache'[n][j] =
                IF n # leader THEN cache[n][j]
                ELSE IF j = Nil THEN [Stored(r, k, j) EXCEPT !.valid = FALSE]
                ELSE Stored(r, k, j)
      BY <2>3, <2>5
    <3> QED
      BY <2>1, <2>2, <2>4, <3>1, Zenon DEF StoreOutcome, NothingEvicted, applied
  <2> QED
    BY <1>1, <1>2, <1>3, <1>8, <2>1, <2>3, <2>4, <2>6
<1>10. ASSUME NEW victim \in Victims(blocks, recent'),
              cache' = [cache EXCEPT ![leader] = [blocks EXCEPT ![victim].valid = FALSE]],
              \/ /\ request' = [request EXCEPT ![r].phase = "invalidating",
                                               ![r].target = victim,
                                               ![r].stored = applied]
                 /\ Log!Propose(Entry("invalidate", r, victim))
              \/ /\ request' = [request EXCEPT ![r].phase = "done",
                                               ![r].target = victim,
                                               ![r].stored = applied,
                                               ![r].ended = ended(victim)]
                 /\ UNCHANGED logVars
       PROVE  /\ leader' = leader /\ delivered' = delivered
              /\ cache' \in [Node -> [Key -> Block \cup {NoBlock}]]
              /\ \E q \in Running : StoreOutcome(r, k, q, victim)
              /\ victim \in Key
  <2>1. victim \in Key /\ blocks[victim] # NoBlock /\ victim # Nil
    BY CacheAssumption DEF Victims, Keys
  <2>2. blocks[victim] \in Block /\ blocks[victim] = Stored(r, k, victim)
    BY <1>6, <2>1
  <2> DEFINE b == [blocks[victim] EXCEPT !.valid = FALSE]
             after == [blocks EXCEPT ![victim] = b]
  <2>3. b \in Block
    BY <2>2, BlockForms
  <2>4. /\ after \in [Key -> Block \cup {NoBlock}]
        /\ \A j \in Key : after[j] = IF j = victim
                                     THEN [Stored(r, k, j) EXCEPT !.valid = FALSE]
                                     ELSE Stored(r, k, j)
    <3> HIDE DEF b
    <3>1. /\ after \in [Key -> Block \cup {NoBlock}]
          /\ \A j \in Key : after[j] = IF j = victim THEN b ELSE blocks[j]
      BY <1>6, <2>1, <2>3
    <3> QED
      BY <1>6, <2>2, <3>1 DEF b
  <2>5. cache' = [cache EXCEPT ![leader] = after]
    BY <1>10
  <2> HIDE DEF after, b
  <2>6. /\ cache' \in [Node -> [Key -> Block \cup {NoBlock}]]
        /\ \A n \in Node, j \in Key :
              cache'[n][j] = IF n # leader THEN cache[n][j] ELSE after[j]
    BY <1>3, <1>5, <2>4, <2>5
  <2>7. \A n \in Node, j \in Key :
            cache'[n][j] =
               IF n # leader THEN cache[n][j]
               ELSE IF j = victim THEN [Stored(r, k, j) EXCEPT !.valid = FALSE]
               ELSE Stored(r, k, j)
    BY <2>4, <2>6
  <2>8. CASE /\ request' = [request EXCEPT ![r].phase = "invalidating",
                                           ![r].target = victim,
                                           ![r].stored = applied]
             /\ Log!Propose(Entry("invalidate", r, victim))
    <3> DEFINE q == [request[r] EXCEPT !.phase = "invalidating", !.target = victim,
                                       !.stored = applied]
    <3>1. /\ q \in Running /\ q.phase = "invalidating" /\ q.target = victim
          /\ q.stored = applied /\ q.ended = request[r].ended
      BY <1>2, <1>4, <2>1 DEF Running
    <3>2. request' = [request EXCEPT ![r] = q]
      BY <2>8
    <3> HIDE DEF q
    <3>3. Entry("invalidate", r, victim) \in Command
      BY <2>1, EntryType
    <3>4. leader' = leader /\ delivered' = delivered
      BY <2>8, <3>3, ProposeEffect
    <3>5. EvictionAppended(r, q, victim)
      BY <2>1, <2>8, <3>1, <3>3 DEF EvictionAppended
    <3>6. StoreOutcome(r, k, q, victim)
      BY <2>2, <2>7, <3>1, <3>2, <3>5, Zenon DEF StoreOutcome, applied
    <3> QED
      BY <2>1, <2>6, <3>1, <3>4, <3>6, Zenon
  <2>9. CASE /\ request' = [request EXCEPT ![r].phase = "done",
                                           ![r].target = victim,
                                           ![r].stored = applied,
                                           ![r].ended = ended(victim)]
             /\ UNCHANGED logVars
    <3> PICK e \in Nat : e = ended(victim)
      BY <1>4
    <3> DEFINE q == [request[r] EXCEPT !.phase = "done", !.target = victim,
                                       !.stored = applied, !.ended = e]
    <3>1. /\ q \in Running /\ q.phase = "done" /\ q.target = victim
          /\ q.stored = applied /\ q.ended = e
      BY <1>2, <1>4, <2>1 DEF Running
    <3>2. request' = [request EXCEPT ![r] = q]
      BY <2>9
    <3> HIDE DEF q
    <3>3. leader' = leader /\ delivered' = delivered /\ order' = order
      BY <2>9 DEF logVars
    <3>4. e = IF Stored(r, k, victim).valid THEN Applied(leader) ELSE 0
      BY <2>2 DEF ended
    <3>5. EvictionRefused(r, k, q, victim)
      BY <2>1, <3>1, <3>3, <3>4 DEF EvictionRefused
    <3>6. StoreOutcome(r, k, q, victim)
      BY <2>2, <2>7, <3>1, <3>2, <3>5, Zenon DEF StoreOutcome, applied
    <3> QED
      BY <2>1, <2>6, <3>1, <3>3, <3>6, Zenon
  <2> QED
    BY <1>10, <2>8, <2>9
<1> QED
  BY <1>1, <1>2, <1>3, <1>7, <1>8, <1>9, <1>10

\* handle_invalidation ends by deleting the key on the leader.
LEMMA InvalidateDoneEffect ==
    ASSUME TypeOK, Progress, NEW r \in Request, InvalidateDone(r),
           NEW k, k = request[r].target
    PROVE  /\ leader \in Node /\ k \in Key
           /\ request[r] \in Running /\ request[r].phase = "invalidating"
           /\ cache' = [cache EXCEPT ![leader][k] = NoBlock]
           /\ \E q \in Running :
                 /\ request' = [request EXCEPT ![r] = q]
                 /\ q.phase \in {"done", "raised"}
                 /\ q.target = k /\ q.stored = request[r].stored
                 /\ q.ended = IF cache[leader][k].valid THEN Applied(leader) ELSE 0
           /\ UNCHANGED <<leader, order, delivered, recent>>
<1>1. request[r].phase = "invalidating"
  BY DEF InvalidateDone
<1>2. request[r] \in Running /\ request[r] # NoRequest
  BY <1>1, RequestForms DEF TypeOK
<1>3. leader \in Node /\ k \in Key
  BY <1>1, <1>2 DEF Progress, TypeOK, Log!TypeOK
<1> DEFINE phase == IF cache[leader][k] = NoBlock THEN "raised" ELSE "done"
           ended == IF cache[leader][k].valid THEN Applied(leader) ELSE 0
           q == [request[r] EXCEPT !.phase = phase, !.ended = ended]
<1>4. phase \in {"done", "raised"} /\ ended \in Nat
  BY <1>3 DEF Applied, TypeOK, Log!TypeOK
<1>5. request' = [request EXCEPT ![r] = q]
  BY DEF InvalidateDone, Applied
<1> HIDE DEF phase, ended
<1>6. /\ q \in Running /\ q.phase = phase /\ q.target = k
      /\ q.stored = request[r].stored /\ q.ended = ended
  BY <1>2, <1>4 DEF Running
<1> HIDE DEF q
<1>7. /\ cache' = [cache EXCEPT ![leader][k] = NoBlock]
      /\ UNCHANGED <<leader, order, delivered, recent>>
  BY DEF InvalidateDone, logVars
<1> QED
  BY <1>1, <1>2, <1>3, <1>4, <1>5, <1>6, <1>7 DEF ended

\* get finds an expired block, marks it and invalidates it.
LEMMA GetExpiredEffect ==
    ASSUME TypeOK, NEW r \in GetRequest, NEW k \in Key, GetExpired(r, k)
    PROVE  /\ leader \in Node /\ leader # Nil
           /\ request[r] = NoRequest
           /\ cache[leader][k] \in Block
           /\ cache' = [cache EXCEPT ![leader][k] =
                           [cache[leader][k] EXCEPT !.valid = FALSE]]
           /\ \E q \in Running :
                 /\ request' = [request EXCEPT ![r] = q]
                 /\ q.phase = "invalidating" /\ q.target = k
                 /\ q.stored = 0 /\ q.ended = 0
           /\ Entry("invalidate", r, k) \in Command
           /\ Log!Propose(Entry("invalidate", r, k))
           /\ recent' = recent
<1>1. leader \in Node
  BY DEF GetExpired, TypeOK, Log!TypeOK
<1>2. cache[leader][k] \in Block \cup {NoBlock} /\ cache[leader][k].valid
  BY <1>1 DEF TypeOK, GetExpired, MayExpire
<1>3. cache[leader][k] \in Block
  BY <1>2, BlockForms
<1> DEFINE q == [phase |-> "invalidating", key |-> k, target |-> k,
                 stored |-> 0, ended |-> 0]
<1>4. /\ q \in Running /\ q.phase = "invalidating" /\ q.target = k
      /\ q.stored = 0 /\ q.ended = 0
  BY DEF Running
<1>5. request' = [request EXCEPT ![r] = q]
  BY DEF GetExpired
<1> HIDE DEF q
<1>6. Entry("invalidate", r, k) \in Command
  BY EntryType DEF Request
<1>7. cache' = [cache EXCEPT ![leader][k] = [cache[leader][k] EXCEPT !.valid = FALSE]]
  BY <1>1 DEF GetExpired, TypeOK
<1> QED
  BY <1>1, <1>3, <1>4, <1>5, <1>6, <1>7 DEF GetExpired

\* get finds an expired block and marks it, and the entry is refused.
LEMMA GetExpiredRefusedEffect ==
    ASSUME TypeOK, NEW r \in GetRequest, NEW k \in Key, GetExpiredRefused(r, k)
    PROVE  /\ leader \in Node /\ leader # Nil
           /\ request[r] = NoRequest
           /\ cache[leader][k] \in Block
           /\ cache' = [cache EXCEPT ![leader][k] =
                           [cache[leader][k] EXCEPT !.valid = FALSE]]
           /\ \E q \in Running :
                 /\ request' = [request EXCEPT ![r] = q]
                 /\ q.phase = "done" /\ q.target = k
                 /\ q.stored = 0 /\ q.ended = Applied(leader)
           /\ UNCHANGED <<leader, order, delivered, recent>>
<1>1. leader \in Node
  BY DEF GetExpiredRefused, TypeOK, Log!TypeOK
<1>2. cache[leader][k] \in Block \cup {NoBlock} /\ cache[leader][k].valid
  BY <1>1 DEF TypeOK, GetExpiredRefused, MayExpire
<1>3. cache[leader][k] \in Block
  BY <1>2, BlockForms
<1> PICK a \in Nat : a = Applied(leader)
  BY <1>1 DEF Applied, TypeOK, Log!TypeOK
<1> DEFINE q == [phase |-> "done", key |-> k, target |-> k,
                 stored |-> 0, ended |-> a]
<1>4. /\ q \in Running /\ q.phase = "done" /\ q.target = k
      /\ q.stored = 0 /\ q.ended = Applied(leader)
  BY DEF Running
<1>5. request' = [request EXCEPT ![r] = q]
  BY DEF GetExpiredRefused, Applied
<1> HIDE DEF q
<1>6. cache' = [cache EXCEPT ![leader][k] = [cache[leader][k] EXCEPT !.valid = FALSE]]
  BY <1>1 DEF GetExpiredRefused, TypeOK
<1>7. /\ leader # Nil /\ request[r] = NoRequest
      /\ UNCHANGED <<leader, order, delivered, recent>>
  BY DEF GetExpiredRefused, logVars
<1> QED
  BY <1>1, <1>3, <1>4, <1>5, <1>6, <1>7

\* A follower marks a block as old, or any node drops one that is.
LEMMA LocalEffect ==
    ASSUME TypeOK, NEW n \in Node, NEW k \in Key,
           \/ GetInvalid(n, k) \/ HandleInvalidation(n, k)
           \/ GetExpiredElsewhere(n, k)
    PROVE  /\ \E b \in Block \cup {NoBlock} :
                 /\ cache' = [cache EXCEPT ![n][k] = b]
                 /\ ~b.valid
                 /\ b # NoBlock => cache[n][k] # NoBlock /\ b.value = cache[n][k].value
           /\ n = leader => ~cache[n][k].valid
           /\ UNCHANGED <<leader, order, delivered, recent, request>>
<1>1. CASE DropInvalid(n, k)
  BY <1>1, BlockForms DEF DropInvalid, logVars
<1>2. CASE GetExpiredElsewhere(n, k)
  <2>1. cache[n][k] \in Block \cup {NoBlock} /\ cache[n][k].valid
    BY <1>2 DEF TypeOK, GetExpiredElsewhere, MayExpire
  <2>2. cache[n][k] \in Block
    BY <2>1, BlockForms
  <2> DEFINE b == [cache[n][k] EXCEPT !.valid = FALSE]
  <2>3. b \in Block /\ b.valid = FALSE /\ b.value = cache[n][k].value
    BY <2>2, BlockForms
  <2>4. cache' = [cache EXCEPT ![n][k] = b]
    BY <1>2 DEF GetExpiredElsewhere, TypeOK
  <2>5. n # leader /\ UNCHANGED <<leader, order, delivered, recent, request>>
    BY <1>2 DEF GetExpiredElsewhere, logVars
  <2> HIDE DEF b
  <2> QED
    BY <2>2, <2>3, <2>4, <2>5, BlockForms
<1> QED
  BY <1>1, <1>2 DEF GetInvalid, HandleInvalidation

\* A node applies entry e.
LEMMA CommitEffect ==
    ASSUME TypeOK, EntriesRequested, NEW n \in Node, HandleCommit(n),
           NEW i, i = Applied(n) + 1, NEW e, e = order[i]
    PROVE  /\ e \in Command
           /\ cache' \in [Node -> [Key -> Block \cup {NoBlock}]]
           /\ \A p \in Node, j \in Key :
                 cache'[p][j] =
                    IF p # n \/ j # e.key \/ ~Heeds(n, e) THEN cache[p][j]
                    ELSE IF e.op = "put" THEN [value |-> e.req, valid |-> TRUE]
                    ELSE NoBlock
           /\ e.op = "put" => e.req \in PutRequest
           /\ UNCHANGED <<recent, request>>
<1>1. e \in Command /\ i \in 1..Len(order)
  BY DeliverEffect
<1>2. e.key \in Key /\ (e.op = "put" => e.req \in PutRequest)
  BY <1>1, CommandForm DEF EntriesRequested
<1> DEFINE b == IF e.op = "put" THEN [value |-> e.req, valid |-> TRUE] ELSE NoBlock
<1>3. b \in Block \cup {NoBlock}
  BY <1>2, BlockForms
<1>4. /\ cache' = IF ~Heeds(n, e) THEN cache ELSE [cache EXCEPT ![n][e.key] = b]
      /\ UNCHANGED <<recent, request>>
  BY DEF HandleCommit, Applied
<1> HIDE DEF b
<1>5. CASE Heeds(n, e)
  <2>1. cache' = [cache EXCEPT ![n][e.key] = b]
    BY <1>4, <1>5
  <2> PICK k \in Key, c \in Block \cup {NoBlock} : k = e.key /\ c = b
    BY <1>2, <1>3
  <2>2. cache' = [cache EXCEPT ![n][k] = c]
    BY <2>1
  <2>3. cache' \in [Node -> [Key -> Block \cup {NoBlock}]]
    BY <2>2, BlockUpdate
  <2>4. cache'[n][k] = c
    BY <2>2 DEF TypeOK
  <2>5. \A p \in Node, j \in Key : (p # n \/ j # k) => cache'[p][j] = cache[p][j]
    BY <2>2, BlockUpdate
  <2> QED
    BY <1>1, <1>2, <1>4, <1>5, <2>3, <2>4, <2>5 DEF b
<1>6. CASE ~Heeds(n, e)
  BY <1>1, <1>2, <1>4, <1>6 DEF TypeOK
<1> QED
  BY <1>5, <1>6

-----------------------------------------------------------------------------
\* Types

\* No operation leaves the log outside its type.
LEMMA LogTypeStep ==
    ASSUME TypeOK, Progress, [Next]_vars
    PROVE  Log!TypeOK'
<1>1. ASSUME NEW e \in Command, Log!Propose(e)
      PROVE  Log!TypeOK'
  BY <1>1, ProposeEffect DEF TypeOK, Log!TypeOK
<1>2. ASSUME NEW n \in Node, Elect(n)
      PROVE  Log!TypeOK'
  BY <1>2 DEF Elect, Log!Elect, TypeOK, Log!TypeOK
<1>3. ASSUME NEW n \in Node, HandleCommit(n)
      PROVE  Log!TypeOK'
  BY <1>3, DeliverEffect DEF TypeOK, Log!TypeOK
<1>4. ASSUME NEW n \in Node, Restart(n)
      PROVE  Log!TypeOK'
  BY <1>4, EmptySeq DEF Restart, Log!Rejoin, TypeOK, Log!TypeOK
<1>5. ASSUME UNCHANGED logVars
      PROVE  Log!TypeOK'
  BY <1>5 DEF logVars, TypeOK, Log!TypeOK
<1>6. CASE \E n \in Node : Elect(n) \/ HandleCommit(n) \/ Restart(n)
  BY <1>2, <1>3, <1>4, <1>6
<1>7. CASE \E r \in PutRequest, k \in Key : Put(r, k)
  BY <1>1, <1>7, PutEffect
<1>8. CASE \E r \in GetRequest, k \in Key : GetExpired(r, k)
  BY <1>1, <1>8, GetExpiredEffect
<1>9. ASSUME NEW r \in Request, BroadcastInvalidation(r) \/ Replicate(r)
      PROVE  Log!TypeOK'
  BY <1>1, <1>9, AdvanceEffect
<1>10. ASSUME NEW r \in Request, Store(r)
       PROVE  Log!TypeOK'
  <2> PICK k : k = request[r].key
    OBVIOUS
  <2>1. /\ leader' = leader /\ delivered' = delivered
        /\ \E q \in Running, victim \in Key \cup {Nil} : StoreOutcome(r, k, q, victim)
    BY <1>10, StoreEffect
  <2>2. \/ order' = order
        \/ \E victim : /\ Entry("invalidate", r, victim) \in Command
                       /\ Log!Propose(Entry("invalidate", r, victim))
    BY <2>1 DEF StoreOutcome, NothingEvicted, EvictionAppended, EvictionRefused
  <2> QED
    BY <1>1, <1>5, <2>1, <2>2 DEF logVars
<1>11. CASE \E r \in Request : InvalidateDone(r) \/ PutRefused(r)
  BY <1>5, <1>11 DEF InvalidateDone, PutRefused
<1>12. CASE \E k \in Key : GetHit(k)
  BY <1>5, <1>12 DEF GetHit
<1>13. CASE \E n \in Node, k \in Key :
               GetInvalid(n, k) \/ HandleInvalidation(n, k) \/ GetExpiredElsewhere(n, k)
  BY <1>5, <1>13
     DEF GetInvalid, HandleInvalidation, DropInvalid, GetExpiredElsewhere
<1>14. CASE \E r \in GetRequest, k \in Key : GetExpiredRefused(r, k)
  BY <1>5, <1>14 DEF GetExpiredRefused
<1>15. CASE UNCHANGED vars
  BY <1>5, <1>15 DEF vars, logVars
<1> QED
  BY <1>6, <1>7, <1>8, <1>9, <1>10, <1>11, <1>12, <1>13, <1>14, <1>15 DEF Next

\* No operation leaves a variable outside its type.
LEMMA TypeStep ==
    ASSUME TypeOK, Progress, EntriesRequested, [Next]_vars
    PROVE  TypeOK'
<1> DEFINE CacheType == cache \in [Node -> [Key -> Block \cup {NoBlock}]]
           RequestType == request \in [Request -> Running \cup {NoRequest}]
           RecentType == recent \in Seq(Key)
<1>1. CacheType /\ RequestType /\ RecentType
  BY DEF TypeOK
<1>2. CacheType' /\ RequestType' /\ RecentType' => TypeOK'
  BY LogTypeStep DEF TypeOK
<1> HIDE DEF CacheType, RequestType, RecentType
<1>3. UNCHANGED cache => CacheType'
  BY <1>1 DEF CacheType
<1>4. UNCHANGED request => RequestType'
  BY <1>1 DEF RequestType
<1>5. UNCHANGED recent => RecentType'
  BY <1>1 DEF RecentType
<1>6. ASSUME NEW r \in Request, NEW q \in Running, request' = [request EXCEPT ![r] = q]
      PROVE  RequestType'
  BY <1>6, RequestUpdate DEF RequestType
<1>7. ASSUME NEW n \in Node, NEW k \in Key, NEW b \in Block \cup {NoBlock},
             cache' = [cache EXCEPT ![n][k] = b]
      PROVE  CacheType'
  BY <1>7, BlockUpdate DEF CacheType
<1>8. ASSUME NEW n \in Node, HandleCommit(n)
      PROVE  TypeOK'
  <2> PICK i, e : i = Applied(n) + 1 /\ e = order[i]
    OBVIOUS
  <2>1. CacheType' /\ UNCHANGED <<recent, request>>
    BY <1>8, CommitEffect DEF CacheType
  <2> QED
    BY <1>2, <1>4, <1>5, <2>1
<1>9. ASSUME NEW n \in Node, Elect(n)
      PROVE  TypeOK'
  BY <1>2, <1>3, <1>4, <1>5, <1>9 DEF Elect
<1>10. ASSUME NEW n \in Node, Restart(n)
       PROVE  TypeOK'
  <2>1. CacheType'
    BY <1>1, <1>10 DEF Restart, CacheType
  <2> QED
    BY <1>2, <1>4, <1>5, <1>10, <2>1 DEF Restart
<1>11. ASSUME NEW r \in PutRequest, NEW k \in Key, Put(r, k)
       PROVE  TypeOK'
  <2>1. r \in Request
    BY DEF Request
  <2> QED
    BY <1>2, <1>3, <1>5, <1>6, <1>11, <2>1, PutEffect
<1>12. ASSUME NEW r \in GetRequest, NEW k \in Key, GetExpired(r, k)
       PROVE  TypeOK'
  <2>1. r \in Request
    BY DEF Request
  <2> PICK n \in Node, b \in Block \cup {NoBlock} :
          n = leader /\ b = [cache[leader][k] EXCEPT !.valid = FALSE]
    BY <1>12, GetExpiredEffect, BlockForms
  <2>2. cache' = [cache EXCEPT ![n][k] = b]
    BY <1>12, GetExpiredEffect
  <2>3. CacheType'
    BY <1>7, <2>2
  <2> QED
    BY <1>2, <1>5, <1>6, <1>12, <2>1, <2>3, GetExpiredEffect
<1>13. ASSUME NEW r \in Request, BroadcastInvalidation(r) \/ Replicate(r)
       PROVE  TypeOK'
  BY <1>2, <1>3, <1>5, <1>6, <1>13, AdvanceEffect
<1>14. ASSUME NEW r \in Request, Store(r)
       PROVE  TypeOK'
  <2> PICK k : k = request[r].key
    OBVIOUS
  <2>1. /\ CacheType' /\ RecentType'
        /\ \E q \in Running, victim \in Key \cup {Nil} : StoreOutcome(r, k, q, victim)
    BY <1>14, StoreEffect DEF CacheType, RecentType
  <2>2. RequestType'
    BY <1>6, <2>1 DEF StoreOutcome
  <2> QED
    BY <1>2, <2>1, <2>2
<1>15. ASSUME NEW r \in Request, InvalidateDone(r)
       PROVE  TypeOK'
  <2> PICK k : k = request[r].target
    OBVIOUS
  <2>1. /\ leader \in Node /\ k \in Key
        /\ cache' = [cache EXCEPT ![leader][k] = NoBlock]
        /\ \E q \in Running : request' = [request EXCEPT ![r] = q]
        /\ UNCHANGED recent
    BY <1>15, InvalidateDoneEffect
  <2> QED
    BY <1>2, <1>5, <1>6, <1>7, <2>1
<1>16. ASSUME NEW k \in Key, GetHit(k)
       PROVE  TypeOK'
  <2>1. RecentType'
    BY <1>16, TouchedType DEF GetHit, RecentType
  <2> QED
    BY <1>2, <1>3, <1>4, <1>16, <2>1 DEF GetHit
<1>17. ASSUME NEW n \in Node, NEW k \in Key,
              GetInvalid(n, k) \/ HandleInvalidation(n, k) \/ GetExpiredElsewhere(n, k)
       PROVE  TypeOK'
  <2>1. CacheType' /\ UNCHANGED <<recent, request>>
    BY <1>7, <1>17, LocalEffect
  <2> QED
    BY <1>2, <1>4, <1>5, <2>1
<1>18. ASSUME NEW r \in Request, PutRefused(r)
       PROVE  TypeOK'
  BY <1>2, <1>3, <1>5, <1>6, <1>18, PutRefusedEffect
<1>19. ASSUME NEW r \in GetRequest, NEW k \in Key, GetExpiredRefused(r, k)
       PROVE  TypeOK'
  <2>1. r \in Request
    BY DEF Request
  <2> PICK n \in Node, b \in Block \cup {NoBlock} :
          n = leader /\ b = [cache[leader][k] EXCEPT !.valid = FALSE]
    BY <1>19, GetExpiredRefusedEffect, BlockForms
  <2>2. cache' = [cache EXCEPT ![n][k] = b]
    BY <1>19, GetExpiredRefusedEffect
  <2>3. CacheType'
    BY <1>7, <2>2
  <2> QED
    BY <1>2, <1>5, <1>6, <1>19, <2>1, <2>3, GetExpiredRefusedEffect
<1>20. CASE UNCHANGED vars
  BY <1>2, <1>3, <1>4, <1>5, <1>20 DEF vars
<1> QED
  BY <1>8, <1>9, <1>10, <1>11, <1>12, <1>13, <1>14, <1>15, <1>16, <1>17, <1>18, <1>19,
     <1>20 DEF Next

-----------------------------------------------------------------------------
\* The log and the requests

\* Every step leaves what is appended, and adds at most one entry, for a request
\* that has begun; only Elect gives a leader.
Appended(e) ==
    /\ e \in Command
    /\ Log!Propose(e)
    /\ request'[e.req] # NoRequest
    /\ e.op = "put" => e.req \in PutRequest

\* An operation appends one command or none.
LEMMA OrderStep ==
    ASSUME TypeOK, Progress, [Next]_vars
    PROVE  order' = order \/ \E e \in Command : Appended(e)
<1>1. ASSUME NEW r \in PutRequest, NEW k \in Key, Put(r, k)
      PROVE  \E e \in Command : Appended(e)
  <2> DEFINE e == Entry("acquire", r, k)
  <2>1. r \in Request
    BY DEF Request
  <2>2. e \in Command /\ e.req = r /\ e.op = "acquire" /\ Log!Propose(e)
    BY <1>1, <2>1, EntryType, PutEffect
  <2>3. request'[r] # NoRequest
    BY <1>1, <2>1, PutEffect, RequestUpdate, RequestForms
  <2> HIDE DEF e
  <2> QED
    BY <2>2, <2>3 DEF Appended
<1>2. ASSUME NEW r \in GetRequest, NEW k \in Key, GetExpired(r, k)
      PROVE  \E e \in Command : Appended(e)
  <2> DEFINE e == Entry("invalidate", r, k)
  <2>1. r \in Request
    BY DEF Request
  <2>2. e \in Command /\ e.req = r /\ e.op = "invalidate" /\ Log!Propose(e)
    BY <1>2, <2>1, EntryType, GetExpiredEffect
  <2>3. request'[r] # NoRequest
    BY <1>2, <2>1, GetExpiredEffect, RequestUpdate, RequestForms
  <2> HIDE DEF e
  <2> QED
    BY <2>2, <2>3 DEF Appended
<1>3. ASSUME NEW r \in Request, BroadcastInvalidation(r) \/ Replicate(r)
      PROVE  \E e \in Command : Appended(e)
  <2>1. /\ request[r] \in Running /\ request[r].key \in Key
        /\ request[r].phase \in {"acquiring", "broadcasting"}
    BY <1>3, AdvanceEffect, RequestForms
  <2>2. r \in PutRequest
    BY <2>1, RequestForms DEF Progress
  <2> PICK k \in Key : k = request[r].key
    BY <2>1
  <2>3. PICK op \in {"invalidateAll", "put"} : Log!Propose(Entry(op, r, k))
    BY <1>3, AdvanceEffect
  <2> DEFINE e == Entry(op, r, k)
  <2>4. e \in Command /\ e.req = r
    BY EntryType
  <2>5. request'[r] # NoRequest
    BY <1>3, AdvanceEffect, RequestUpdate, RequestForms
  <2> HIDE DEF e
  <2>6. Log!Propose(e)
    BY <2>3 DEF e
  <2> QED
    BY <2>2, <2>4, <2>5, <2>6 DEF Appended
<1>4. ASSUME NEW r \in Request, Store(r)
      PROVE  order' = order \/ \E e \in Command : Appended(e)
  <2> PICK k : k = request[r].key
    OBVIOUS
  <2>1. PICK q \in Running, victim \in Key \cup {Nil} : StoreOutcome(r, k, q, victim)
    BY <1>4, StoreEffect
  <2>2. CASE NothingEvicted(r, q, victim) \/ EvictionRefused(r, k, q, victim)
    BY <2>2 DEF NothingEvicted, EvictionRefused
  <2>3. CASE EvictionAppended(r, q, victim)
    <3> DEFINE e == Entry("invalidate", r, victim)
    <3>1. e \in Command /\ e.req = r /\ e.op = "invalidate" /\ Log!Propose(e)
      BY <2>3, EntryType DEF EvictionAppended
    <3>2. request'[r] # NoRequest
      BY <2>1, RequestUpdate, RequestForms DEF StoreOutcome
    <3> HIDE DEF e
    <3> QED
      BY <3>1, <3>2 DEF Appended
  <2> QED
    BY <2>1, <2>2, <2>3 DEF StoreOutcome
<1>5. ASSUME NEW n \in Node, Elect(n) \/ HandleCommit(n) \/ Restart(n)
      PROVE  order' = order
  BY <1>5 DEF Elect, HandleCommit, Restart, Log!Elect, Log!Deliver, Log!Rejoin
<1>6. ASSUME UNCHANGED logVars
      PROVE  order' = order
  BY <1>6 DEF logVars
<1>7. ASSUME NEW r \in Request, InvalidateDone(r) \/ PutRefused(r)
      PROVE  order' = order
  BY <1>6, <1>7 DEF InvalidateDone, PutRefused
<1>8. ASSUME NEW k \in Key, GetHit(k)
      PROVE  order' = order
  BY <1>6, <1>8 DEF GetHit
<1>9. ASSUME NEW n \in Node, NEW k \in Key,
             GetInvalid(n, k) \/ HandleInvalidation(n, k) \/ GetExpiredElsewhere(n, k)
      PROVE  order' = order
  BY <1>6, <1>9 DEF GetInvalid, HandleInvalidation, DropInvalid, GetExpiredElsewhere
<1>10. ASSUME NEW r \in GetRequest, NEW k \in Key, GetExpiredRefused(r, k)
       PROVE  order' = order
  BY <1>6, <1>10 DEF GetExpiredRefused
<1>11. CASE UNCHANGED vars
  BY <1>11 DEF vars
<1> QED
  BY <1>1, <1>2, <1>3, <1>4, <1>5, <1>7, <1>8, <1>9, <1>10, <1>11 DEF Next

\* A request that has begun keeps its target once it has one, and its history
\* once that is written.
RequestKeeps(r) ==
    request[r] # NoRequest =>
        /\ request'[r] # NoRequest
        /\ request'[r].stored >= request[r].stored
        /\ request'[r].ended >= request[r].ended
        /\ request[r].target \in Key => request'[r].target = request[r].target

\* So far as its own record goes, r keeps to Progress.
Orderly(r, q) ==
    /\ q.phase \in {"acquiring", "broadcasting", "replicating"} =>
          r \in PutRequest /\ q.target = Nil /\ q.stored = 0
    /\ q.phase \in {"acquiring", "broadcasting", "replicating", "invalidating"} =>
          q.ended = 0
    /\ q.phase = "invalidating" => q.target \in Key

\* A step that moves one request on keeps what is known of all.
LEMMA OneRequest ==
    ASSUME TypeOK, NEW r \in Request, NEW q \in Running,
           request' = [request EXCEPT ![r] = q],
           Orderly(r, q),
           request[r] # NoRequest =>
              /\ q.stored >= request[r].stored /\ q.ended >= request[r].ended
              /\ request[r].target \in Key => q.target = request[r].target
    PROVE  /\ \A s \in Request : RequestKeeps(s)
           /\ \A s \in Request : request'[s] # NoRequest =>
                 s = r \/ request[s] # NoRequest
           /\ \A s \in Request : (request[s] # NoRequest => Orderly(s, request[s]))
                                 => (request'[s] # NoRequest => Orderly(s, request'[s]))
<1>1. /\ request'[r] = q /\ \A s \in Request : s # r => request'[s] = request[s]
      /\ request \in [Request -> Running \cup {NoRequest}]
      /\ q # NoRequest
  BY RequestUpdate, RequestForms DEF TypeOK
<1>2. ASSUME NEW s \in Request
      PROVE  RequestKeeps(s)
  <2>1. CASE s = r
    BY <1>1, <2>1 DEF RequestKeeps
  <2>2. CASE s # r
    BY <1>1, <2>2, RequestForms DEF RequestKeeps
  <2> QED
    BY <2>1, <2>2
<1>3. ASSUME NEW s \in Request, request[s] # NoRequest => Orderly(s, request[s]),
             request'[s] # NoRequest
      PROVE  Orderly(s, request'[s])
  <2>1. CASE s = r
    BY <1>1, <2>1
  <2>2. CASE s # r
    BY <1>1, <1>3, <2>2
  <2> QED
    BY <2>1, <2>2
<1> QED
  BY <1>1, <1>2, <1>3

\* Requests move forward only, and keep the key they are about.
LEMMA RequestStep ==
    ASSUME TypeOK, Progress, EntriesRequested, [Next]_vars
    PROVE  Progress' /\ \A s \in Request : RequestKeeps(s)
<1> DEFINE Kept == \A s \in Request : RequestKeeps(s)
<1>1. \A s \in Request : request[s] # NoRequest => leader # Nil /\ Orderly(s, request[s])
  BY DEF Progress, Orderly
<1>2. ASSUME leader # Nil => leader' # Nil,
             \A s \in Request : request'[s] # NoRequest =>
                request[s] # NoRequest \/ leader' # Nil,
             \A s \in Request : request'[s] # NoRequest => Orderly(s, request'[s])
      PROVE  Progress'
  BY <1>1, <1>2 DEF Progress, Orderly
<1>3. \A s \in Request : request[s] # NoRequest =>
         request[s].stored \in Nat /\ request[s].ended \in Nat
  BY RequestForms DEF TypeOK
<1>4. ASSUME UNCHANGED request, leader # Nil => leader' # Nil
      PROVE  Progress' /\ Kept
  BY <1>1, <1>2, <1>3, <1>4 DEF RequestKeeps
<1>5. ASSUME NEW r \in Request, NEW q \in Running,
             request' = [request EXCEPT ![r] = q], Orderly(r, q),
             leader # Nil, leader' = leader,
             request[r] # NoRequest =>
                /\ q.stored >= request[r].stored /\ q.ended >= request[r].ended
                /\ request[r].target \in Key => q.target = request[r].target
      PROVE  Progress' /\ Kept
  <2>1. Kept /\ \A s \in Request : request'[s] # NoRequest => Orderly(s, request'[s])
    BY <1>1, <1>5, OneRequest
  <2> QED
    BY <1>2, <1>5, <2>1
<1>6. ASSUME NEW r \in PutRequest, NEW k \in Key, Put(r, k)
      PROVE  Progress' /\ Kept
  <2>1. r \in Request
    BY DEF Request
  <2>2. PICK q \in Running :
           /\ request' = [request EXCEPT ![r] = q]
           /\ q.phase = "acquiring" /\ q.target = Nil
           /\ q.stored = 0 /\ q.ended = 0
    BY <1>6, <2>1, PutEffect
  <2>3. leader # Nil /\ leader' = leader /\ request[r] = NoRequest
    BY <1>6, <2>1, PutEffect, ProposeEffect
  <2>4. Orderly(r, q)
    BY <2>2 DEF Orderly
  <2> QED
    BY <1>5, <2>1, <2>2, <2>3, <2>4
<1>7. ASSUME NEW r \in GetRequest, NEW k \in Key, GetExpired(r, k)
      PROVE  Progress' /\ Kept
  <2>1. r \in Request
    BY DEF Request
  <2>2. PICK q \in Running :
           /\ request' = [request EXCEPT ![r] = q]
           /\ q.phase = "invalidating" /\ q.target = k
           /\ q.stored = 0 /\ q.ended = 0
    BY <1>7, <2>1, GetExpiredEffect
  <2>3. leader # Nil /\ leader' = leader /\ request[r] = NoRequest
    BY <1>7, <2>1, GetExpiredEffect, ProposeEffect
  <2>4. Orderly(r, q)
    BY <2>2 DEF Orderly
  <2> QED
    BY <1>5, <2>1, <2>2, <2>3, <2>4
<1>8. ASSUME NEW r \in Request, BroadcastInvalidation(r) \/ Replicate(r)
      PROVE  Progress' /\ Kept
  <2>1. /\ request[r] \in Running
        /\ request[r].phase \in {"acquiring", "broadcasting"}
        /\ leader # Nil /\ leader' = leader
    BY <1>8, AdvanceEffect, ProposeEffect
  <2>2. PICK q \in Running :
           /\ request' = [request EXCEPT ![r] = q]
           /\ q.phase \in {"broadcasting", "replicating"}
           /\ q.key = request[r].key /\ q.target = request[r].target
           /\ q.stored = request[r].stored /\ q.ended = request[r].ended
    BY <1>8, AdvanceEffect
  <2>3. r \in PutRequest /\ q.target = Nil /\ q.stored = 0 /\ q.ended = 0
    BY <1>1, <2>1, <2>2, RequestForms DEF Orderly
  <2>4. Orderly(r, q)
    BY <2>2, <2>3 DEF Orderly
  <2>5. /\ q.stored >= request[r].stored /\ q.ended >= request[r].ended
        /\ request[r].target \in Key => q.target = request[r].target
    BY <2>1, <2>2, RequestForms
  <2> QED
    BY <1>5, <2>1, <2>2, <2>4, <2>5
<1>9. ASSUME NEW r \in Request, Store(r)
      PROVE  Progress' /\ Kept
  <2> PICK k : k = request[r].key
    OBVIOUS
  <2>1. /\ leader \in Node /\ leader # Nil /\ leader' = leader
        /\ request[r] \in Running /\ request[r].phase = "replicating"
    BY <1>9, StoreEffect
  <2>2. /\ request[r].target = Nil /\ request[r].stored = 0 /\ request[r].ended = 0
        /\ Nil \notin Key
    BY <2>1, RequestForms, CacheAssumption DEF Progress
  <2>3. PICK q \in Running, victim \in Key \cup {Nil} : StoreOutcome(r, k, q, victim)
    BY <1>9, StoreEffect
  <2>4. /\ request' = [request EXCEPT ![r] = q]
        /\ q.target = victim /\ q.ended \in Nat /\ q.stored \in Nat
    BY <2>2, <2>3, RequestForms DEF StoreOutcome
  <2>5. Orderly(r, q)
    <3>1. CASE NothingEvicted(r, q, victim) \/ EvictionRefused(r, k, q, victim)
      BY <3>1 DEF NothingEvicted, EvictionRefused, Orderly
    <3>2. CASE EvictionAppended(r, q, victim)
      BY <2>2, <2>4, <3>2 DEF EvictionAppended, Orderly
    <3> QED
      BY <2>3, <3>1, <3>2 DEF StoreOutcome
  <2>6. /\ q.stored >= request[r].stored /\ q.ended >= request[r].ended
        /\ request[r].target \notin Key
    BY <2>2, <2>4
  <2> QED
    BY <1>5, <2>1, <2>4, <2>5, <2>6
<1>10. ASSUME NEW r \in Request, InvalidateDone(r)
       PROVE  Progress' /\ Kept
  <2> PICK k : k = request[r].target
    OBVIOUS
  <2>1. /\ leader \in Node /\ k \in Key /\ leader' = leader
        /\ request[r] \in Running /\ request[r].phase = "invalidating"
    BY <1>10, InvalidateDoneEffect
  <2>2. leader # Nil /\ request[r].ended = 0
    BY <2>1, RequestForms DEF Progress
  <2>3. PICK q \in Running :
           /\ request' = [request EXCEPT ![r] = q]
           /\ q.phase \in {"done", "raised"}
           /\ q.target = k /\ q.stored = request[r].stored
    BY <1>10, InvalidateDoneEffect
  <2>4. q.ended >= 0 /\ q.stored >= request[r].stored
    BY <2>1, <2>3, RequestForms
  <2>5. Orderly(r, q)
    BY <2>3 DEF Orderly
  <2> QED
    BY <1>5, <2>1, <2>2, <2>3, <2>4, <2>5
<1>11. ASSUME NEW n \in Node, HandleCommit(n)
       PROVE  Progress' /\ Kept
  <2> PICK i : i = Applied(n) + 1
    OBVIOUS
  <2>1. UNCHANGED request /\ leader' = leader
    BY <1>11, DeliverEffect DEF HandleCommit
  <2> QED
    BY <1>4, <2>1
<1>12. ASSUME NEW n \in Node, Elect(n) \/ Restart(n)
       PROVE  Progress' /\ Kept
  BY <1>4, <1>12 DEF Elect, Restart, Log!Elect, Log!Rejoin
<1>13. ASSUME NEW k \in Key, GetHit(k)
       PROVE  Progress' /\ Kept
  BY <1>4, <1>13 DEF GetHit, logVars
<1>14. ASSUME NEW n \in Node, NEW k \in Key,
              GetInvalid(n, k) \/ HandleInvalidation(n, k) \/ GetExpiredElsewhere(n, k)
       PROVE  Progress' /\ Kept
  BY <1>4, <1>14, LocalEffect
<1>15. ASSUME NEW r \in Request, PutRefused(r)
       PROVE  Progress' /\ Kept
  <2>1. /\ request[r] \in Running
        /\ request[r].phase \in {"acquiring", "broadcasting"}
        /\ leader' = leader
    BY <1>15, PutRefusedEffect
  <2>2. PICK q \in Running :
           /\ request' = [request EXCEPT ![r] = q]
           /\ q.phase = "done" /\ q.target = request[r].target
           /\ q.stored = request[r].stored /\ q.ended = request[r].ended
    BY <1>15, PutRefusedEffect
  <2>3. leader # Nil
    BY <1>1, <2>1, RequestForms
  <2>4. Orderly(r, q)
    BY <2>2 DEF Orderly
  <2>5. /\ q.stored >= request[r].stored /\ q.ended >= request[r].ended
        /\ request[r].target \in Key => q.target = request[r].target
    BY <2>1, <2>2, RequestForms
  <2> QED
    BY <1>5, <2>1, <2>2, <2>3, <2>4, <2>5
<1>16. ASSUME NEW r \in GetRequest, NEW k \in Key, GetExpiredRefused(r, k)
       PROVE  Progress' /\ Kept
  <2>1. r \in Request
    BY DEF Request
  <2>2. PICK q \in Running : request' = [request EXCEPT ![r] = q] /\ q.phase = "done"
    BY <1>16, <2>1, GetExpiredRefusedEffect
  <2>3. leader # Nil /\ leader' = leader /\ request[r] = NoRequest
    BY <1>16, <2>1, GetExpiredRefusedEffect
  <2>4. Orderly(r, q)
    BY <2>2 DEF Orderly
  <2> QED
    BY <1>5, <2>1, <2>2, <2>3, <2>4
<1>17. CASE UNCHANGED vars
  BY <1>4, <1>17 DEF vars
<1> QED
  BY <1>6, <1>7, <1>8, <1>9, <1>10, <1>11, <1>12, <1>13, <1>14, <1>15, <1>16, <1>17
     DEF Next

\* Every entry belongs to a request that appended it, and no two are the same.
LEMMA EntriesStep ==
    ASSUME TypeOK, Progress, EntriesRequested, EntriesOnce, [Next]_vars
    PROVE  EntriesRequested' /\ EntriesOnce'
<1>1. \A s \in Request : RequestKeeps(s)
  BY RequestStep
<1>2. Len(order) \in Nat /\ \A i \in 1..Len(order) : order[i] \in Command
  BY DEF TypeOK, Log!TypeOK
<1>3. \A i \in 1..Len(order) : order[i].req \in Request
  BY <1>2, CommandForm
<1>4. CASE order' = order
  <2>1. EntriesOnce'
    BY <1>4 DEF EntriesOnce
  <2>2. EntriesRequested'
    BY <1>1, <1>3, <1>4 DEF EntriesRequested, RequestKeeps
  <2> QED
    BY <2>1, <2>2
<1>5. ASSUME NEW e \in Command, Appended(e)
      PROVE  EntriesRequested' /\ EntriesOnce'
  <2> DEFINE z == Len(order)
  <2>1. /\ z \in Nat /\ Len(order') = z + 1
        /\ order'[z + 1] = e
        /\ \A i \in 1..z : order'[i] = order[i] /\ order[i] # e
    BY <1>5, ProposeEffect DEF Appended
  <2>2. \A i \in 1..(z + 1) : i \in 1..z \/ i = z + 1
    BY <2>1
  <2>3. EntriesOnce'
    BY <2>1, <2>2 DEF EntriesOnce
  <2>4. ASSUME NEW i \in 1..(z + 1)
        PROVE  /\ request'[order'[i].req] # NoRequest
               /\ order'[i].op = "put" => order'[i].req \in PutRequest
    <3>1. CASE i \in 1..z
      BY <1>1, <1>3, <2>1, <3>1 DEF EntriesRequested, RequestKeeps
    <3>2. CASE i = z + 1
      BY <1>5, <2>1, <3>2 DEF Appended
    <3> QED
      BY <2>2, <3>1, <3>2
  <2>5. EntriesRequested'
    BY <2>1, <2>4 DEF EntriesRequested
  <2> QED
    BY <2>3, <2>5
<1> QED
  BY <1>4, <1>5, OrderStep

-----------------------------------------------------------------------------
\* The value that was put last

\* IsLatest of the first len entries of o, at the leader or not.
Latest(o, len, leads, k, r, first) ==
    \E i \in 1..len :
        /\ o[i].op = "put" /\ o[i].key = k /\ o[i].req = r
        /\ \A j \in (i + 1)..len :
              \/ o[j].key # k \/ o[j].op = "acquire"
              \/ o[j].op = "invalidateAll" /\ leads
              \/ j <= first

\* The latest value a node applied is a matter of the order and of how far it is.
LEMMA LatestOf ==
    \A n \in Node, k \in Key : \A r, first :
        IsLatest(n, k, r, first)
        <=> Latest(order, Applied(n), n = leader, k, r, first)
BY Zenon DEF IsLatest, Latest, Applied

\* Entries past the first len do not matter, nor does forgiving more of them.
LEMMA LatestStays ==
    ASSUME NEW o, NEW p, NEW len \in Nat, NEW leads, NEW k, NEW r,
           NEW first \in Nat, NEW later \in Nat, first <= later,
           \A i \in 1..len : p[i] = o[i],
           Latest(o, len, leads, k, r, first)
    PROVE  Latest(p, len, leads, k, r, later)
<1>1. PICK i \in 1..len :
        /\ o[i].op = "put" /\ o[i].key = k /\ o[i].req = r
        /\ \A j \in (i + 1)..len :
              \/ o[j].key # k \/ o[j].op = "acquire"
              \/ o[j].op = "invalidateAll" /\ leads
              \/ j <= first
  BY DEF Latest
<1>2. \A j \in (i + 1)..len : j \in 1..len /\ (j <= first => j <= later)
  OBVIOUS
<1> QED
  BY <1>1, <1>2 DEF Latest

\* Nor does an entry that the node does not heed for k.
LEMMA LatestNext ==
    ASSUME NEW o, NEW len \in Nat, NEW leads, NEW k, NEW r, NEW first \in Nat,
           \/ o[len + 1].key # k \/ o[len + 1].op = "acquire"
           \/ o[len + 1].op = "invalidateAll" /\ leads,
           Latest(o, len, leads, k, r, first)
    PROVE  Latest(o, len + 1, leads, k, r, first)
<1>1. PICK i \in 1..len :
        /\ o[i].op = "put" /\ o[i].key = k /\ o[i].req = r
        /\ \A j \in (i + 1)..len :
              \/ o[j].key # k \/ o[j].op = "acquire"
              \/ o[j].op = "invalidateAll" /\ leads
              \/ j <= first
  BY DEF Latest
<1>2. i \in 1..(len + 1)
      /\ \A j \in (i + 1)..(len + 1) : j \in (i + 1)..len \/ j = len + 1
  OBVIOUS
<1> QED
  BY <1>1, <1>2 DEF Latest

\* A put that was applied last is the latest value.
LEMMA LatestPut ==
    ASSUME NEW o, NEW len \in Nat, NEW leads, NEW k, NEW r, NEW first,
           o[len + 1].op = "put", o[len + 1].key = k, o[len + 1].req = r
    PROVE  Latest(o, len + 1, leads, k, r, first)
<1>1. len + 1 \in 1..(len + 1) /\ \A j \in ((len + 1) + 1)..(len + 1) : FALSE
  OBVIOUS
<1> QED
  BY <1>1 DEF Latest

\* The next entry and the ones before it: one step of a node through the log.
LEMMA LatestHeeds ==
    ASSUME NEW n \in Node, NEW e \in Command, NEW k \in Key
    PROVE  ~(e.key = k /\ Heeds(n, e))
           <=> \/ e.key # k \/ e.op = "acquire"
               \/ e.op = "invalidateAll" /\ n = leader
BY CommandForm DEF Heeds

\* What a step that neither applies entries nor gives a leader leaves as it is.
LogKept ==
    /\ leader' = leader /\ delivered' = delivered
    /\ Len(order) <= Len(order')
    /\ \A i \in 1..Len(order) : order'[i] = order[i]

\* An entry that is appended is applied by nobody yet.
LEMMA ProposeKeeps ==
    ASSUME TypeOK, NEW e \in Command, Log!Propose(e)
    PROVE  LogKept
BY ProposeEffect DEF LogKept

\* What is latest on a node changes only with what it applies.
LEMMA KeptLatest ==
    ASSUME TypeOK, AppliedAppended, LogKept, NEW n \in Node, NEW k \in Key, NEW r,
           NEW first \in Nat, NEW later \in Nat, first <= later
    PROVE  /\ Applied(n)' = Applied(n) /\ Applied(n) \in Nat
           /\ Latest(order, Applied(n), n = leader, k, r, first)
              => Latest(order', Applied(n), n = leader, k, r, later)
           /\ Latest(order', Applied(n), n = leader, k, r, first)
              => Latest(order, Applied(n), n = leader, k, r, later)
<1>1. Applied(n) \in Nat /\ Applied(n) <= Len(order) /\ Len(order) \in Nat
  BY DEF AppliedAppended, Applied, TypeOK, Log!TypeOK
<1>2. \A i \in 1..Applied(n) : order'[i] = order[i]
  BY <1>1 DEF LogKept
<1>3. Applied(n)' = Applied(n)
  BY DEF Applied, LogKept
<1> QED
  BY <1>1, <1>2, <1>3, LatestStays

\* An invalidation explains why the leader lacks the value of entry i for k.
Excused(k, i) ==
    \E r \in Request :
        /\ request[r] # NoRequest
        /\ request[r].target = k
        /\ \/ request[r].ended >= i
           \/ \E j \in 1..Len(order) : /\ order[j] = Entry("invalidate", r, k)
                                       /\ j > Applied(leader)

\* A step that keeps the log, adds no value, and has an excuse for each value
\* that it takes from the leader.
Quiet ==
    /\ LogKept
    /\ \A n \in Node, k \in Key :
          cache'[n][k] = cache[n][k] \/ cache'[n][k].valid = FALSE
    /\ leader # Nil =>
          \A k \in Key : \A i \in 1..Applied(leader) :
              cache[leader][k].valid => cache'[leader][k].valid \/ Excused(k, i)'

\* An invalidation that has been appended excuses what its key may lose.
LEMMA ExcuseProposed ==
    ASSUME TypeOK, AppliedAppended, NEW r \in Request, NEW k \in Key, NEW q \in Running,
           Log!Propose(Entry("invalidate", r, k)),
           request' = [request EXCEPT ![r] = q], q.target = k, NEW i
    PROVE  Excused(k, i)'
<1>1. Entry("invalidate", r, k) \in Command
  BY EntryType
<1>2. /\ leader \in Node /\ leader' = leader /\ delivered' = delivered
      /\ Len(order) \in Nat /\ Len(order') = Len(order) + 1
      /\ order'[Len(order) + 1] = Entry("invalidate", r, k)
  BY <1>1, ProposeEffect
<1>3. Applied(leader)' = Applied(leader) /\ Applied(leader) \in Nat
      /\ Applied(leader) <= Len(order)
  BY <1>2 DEF Applied, AppliedAppended, TypeOK, Log!TypeOK
<1>4. Len(order') \in 1..Len(order') /\ Len(order') > Applied(leader)'
      /\ order'[Len(order')] = Entry("invalidate", r, k)
  BY <1>2, <1>3
<1>5. request'[r] = q /\ q # NoRequest
  BY RequestUpdate, RequestForms
<1> QED
  BY <1>4, <1>5 DEF Excused

\* The operations by what they do to blocks and to what is applied.
LEMMA QuietStep ==
    ASSUME TypeOK, AppliedAppended, Progress, [Next]_vars
    PROVE  \/ Quiet
           \/ \E n \in Node : HandleCommit(n) \/ Elect(n) \/ Restart(n)
           \/ \E r \in Request : Store(r)
<1>1. /\ LogKept /\ UNCHANGED cache => Quiet
      /\ UNCHANGED logVars => LogKept
  <2>1. LogKept /\ UNCHANGED cache => Quiet
    BY DEF Quiet
  <2>2. UNCHANGED logVars => LogKept
    BY DEF logVars, LogKept, TypeOK, Log!TypeOK
  <2> QED
    BY <2>1, <2>2
<1>2. CASE \E r \in PutRequest, k \in Key : Put(r, k)
  <2>1. PICK r \in PutRequest, k \in Key : Put(r, k)
    BY <1>2
  <2>2. /\ Entry("acquire", r, k) \in Command /\ Log!Propose(Entry("acquire", r, k))
        /\ cache' = cache
    BY <2>1, PutEffect DEF Request
  <2> QED
    BY <1>1, <2>2, ProposeKeeps
<1>3. ASSUME NEW r \in GetRequest, NEW k \in Key, GetExpired(r, k)
      PROVE  Quiet
  <2>1. r \in Request
    BY DEF Request
  <2>2. /\ leader \in Node /\ cache[leader][k] \in Block
        /\ Entry("invalidate", r, k) \in Command
        /\ Log!Propose(Entry("invalidate", r, k))
    BY <1>3, <2>1, GetExpiredEffect
  <2>3. LogKept
    BY <2>2, ProposeKeeps
  <2> PICK l \in Node, b \in Block \cup {NoBlock} :
          l = leader /\ b = [cache[leader][k] EXCEPT !.valid = FALSE]
    BY <2>2, BlockForms
  <2>4. b.valid = FALSE /\ cache' = [cache EXCEPT ![l][k] = b]
    BY <1>3, <2>1, <2>2, GetExpiredEffect, BlockForms
  <2>5. /\ cache'[l][k] = b
        /\ \A p \in Node, j \in Key : (p # l \/ j # k) => cache'[p][j] = cache[p][j]
    BY <2>4 DEF TypeOK
  <2>6. ASSUME NEW i
        PROVE  Excused(k, i)'
    BY <1>3, <2>1, <2>2, GetExpiredEffect, ExcuseProposed
  <2>7. \A n \in Node, j \in Key :
           cache'[n][j] = cache[n][j] \/ cache'[n][j].valid = FALSE
    BY <2>4, <2>5
  <2>8. \A j \in Key : \A i \in 1..Applied(leader) :
           cache[leader][j].valid => cache'[leader][j].valid \/ Excused(j, i)'
    <3> SUFFICES ASSUME NEW j \in Key, NEW i \in 1..Applied(leader)
                 PROVE  cache[leader][j].valid => cache'[leader][j].valid \/ Excused(j, i)'
      OBVIOUS
    <3>1. CASE j = k
      BY <2>6, <3>1
    <3>2. CASE j # k
      BY <2>5, <3>2
    <3> QED
      BY <3>1, <3>2
  <2> QED
    BY <2>3, <2>7, <2>8 DEF Quiet
<1>4. ASSUME NEW r \in Request, BroadcastInvalidation(r) \/ Replicate(r)
      PROVE  Quiet
  <2>1. LogKept /\ cache' = cache
    BY <1>4, AdvanceEffect, ProposeKeeps
  <2> QED
    BY <1>1, <2>1
<1>5. ASSUME NEW r \in Request, InvalidateDone(r)
      PROVE  Quiet
  <2> PICK k : k = request[r].target
    OBVIOUS
  <2>1. /\ leader \in Node /\ k \in Key
        /\ cache' = [cache EXCEPT ![leader][k] = NoBlock]
        /\ UNCHANGED <<leader, order, delivered>>
    BY <1>5, InvalidateDoneEffect
  <2>2. PICK q \in Running :
           /\ request' = [request EXCEPT ![r] = q]
           /\ q.target = k
           /\ q.ended = IF cache[leader][k].valid THEN Applied(leader) ELSE 0
    BY <1>5, InvalidateDoneEffect
  <2>3. LogKept
    BY <1>1, <2>1 DEF logVars
  <2>4. /\ cache'[leader][k] = NoBlock /\ NoBlock.valid = FALSE
        /\ \A p \in Node, j \in Key : (p # leader \/ j # k) => cache'[p][j] = cache[p][j]
    BY <2>1, BlockForms DEF TypeOK
  <2>5. request'[r] = q /\ q # NoRequest
    BY <2>2, RequestUpdate, RequestForms
  <2>6. ASSUME NEW i \in 1..Applied(leader), cache[leader][k].valid
        PROVE  Excused(k, i)'
    <3>1. request'[r].ended = Applied(leader) /\ Applied(leader) \in Nat
      BY <2>1, <2>2, <2>5, <2>6 DEF Applied, TypeOK, Log!TypeOK
    <3>2. request'[r].ended >= i /\ request'[r].target = k /\ request'[r] # NoRequest
      BY <2>2, <2>5, <3>1
    <3> QED
      BY <3>2 DEF Excused
  <2>7. \A n \in Node, j \in Key :
           cache'[n][j] = cache[n][j] \/ cache'[n][j].valid = FALSE
    BY <2>4
  <2>8. \A j \in Key : \A i \in 1..Applied(leader) :
           cache[leader][j].valid => cache'[leader][j].valid \/ Excused(j, i)'
    <3> SUFFICES ASSUME NEW j \in Key, NEW i \in 1..Applied(leader)
                 PROVE  cache[leader][j].valid => cache'[leader][j].valid \/ Excused(j, i)'
      OBVIOUS
    <3>1. CASE j = k
      BY <2>6, <3>1
    <3>2. CASE j # k
      BY <2>1, <2>4, <3>2
    <3> QED
      BY <3>1, <3>2
  <2> QED
    BY <2>3, <2>7, <2>8 DEF Quiet
<1>6. ASSUME NEW k \in Key, GetHit(k)
      PROVE  Quiet
  BY <1>1, <1>6 DEF GetHit
<1>7. ASSUME NEW n \in Node, NEW k \in Key,
             GetInvalid(n, k) \/ HandleInvalidation(n, k) \/ GetExpiredElsewhere(n, k)
      PROVE  Quiet
  <2>1. PICK b \in Block \cup {NoBlock} : cache' = [cache EXCEPT ![n][k] = b] /\ ~b.valid
    BY <1>7, LocalEffect
  <2>2. /\ n = leader => ~cache[n][k].valid
        /\ UNCHANGED <<leader, order, delivered>>
    BY <1>7, LocalEffect
  <2>3. LogKept
    BY <1>1, <2>2 DEF logVars
  <2>4. b.valid = FALSE
    BY <2>1, BlockForms
  <2>5. /\ cache'[n][k] = b
        /\ \A p \in Node, j \in Key : (p # n \/ j # k) => cache'[p][j] = cache[p][j]
    BY <2>1 DEF TypeOK
  <2>6. leader # Nil => leader \in Node
    BY DEF TypeOK, Log!TypeOK
  <2> QED
    BY <2>2, <2>3, <2>4, <2>5, <2>6 DEF Quiet
<1>8. ASSUME NEW r \in Request, PutRefused(r)
      PROVE  Quiet
  BY <1>1, <1>8 DEF PutRefused
<1>9. ASSUME NEW r \in GetRequest, NEW k \in Key, GetExpiredRefused(r, k)
      PROVE  Quiet
  <2>1. r \in Request
    BY DEF Request
  <2>2. /\ leader \in Node /\ cache[leader][k] \in Block
        /\ UNCHANGED <<leader, order, delivered>>
    BY <1>9, <2>1, GetExpiredRefusedEffect
  <2>3. LogKept
    BY <1>1, <2>2 DEF logVars
  <2> PICK l \in Node, b \in Block \cup {NoBlock} :
          l = leader /\ b = [cache[leader][k] EXCEPT !.valid = FALSE]
    BY <2>2, BlockForms
  <2>4. b.valid = FALSE /\ cache' = [cache EXCEPT ![l][k] = b]
    BY <1>9, <2>1, <2>2, GetExpiredRefusedEffect, BlockForms
  <2>5. /\ cache'[l][k] = b
        /\ \A p \in Node, j \in Key : (p # l \/ j # k) => cache'[p][j] = cache[p][j]
    BY <2>4 DEF TypeOK
  <2>6. PICK q \in Running :
           /\ request' = [request EXCEPT ![r] = q]
           /\ q.target = k /\ q.ended = Applied(leader)
    BY <1>9, <2>1, GetExpiredRefusedEffect
  <2>7. ASSUME NEW i \in 1..Applied(leader)
        PROVE  Excused(k, i)'
    <3>1. request'[r] = q /\ q # NoRequest
      BY <2>1, <2>6, RequestUpdate, RequestForms
    <3>2. Applied(leader) \in Nat
      BY <2>2 DEF Applied, TypeOK, Log!TypeOK
    <3>3. request'[r].ended >= i /\ request'[r].target = k /\ request'[r] # NoRequest
      BY <2>6, <3>1, <3>2
    <3> QED
      BY <2>1, <3>3 DEF Excused
  <2>8. \A n \in Node, j \in Key :
           cache'[n][j] = cache[n][j] \/ cache'[n][j].valid = FALSE
    BY <2>4, <2>5
  <2>9. \A j \in Key : \A i \in 1..Applied(leader) :
           cache[leader][j].valid => cache'[leader][j].valid \/ Excused(j, i)'
    <3> SUFFICES ASSUME NEW j \in Key, NEW i \in 1..Applied(leader)
                 PROVE  cache[leader][j].valid => cache'[leader][j].valid \/ Excused(j, i)'
      OBVIOUS
    <3>1. CASE j = k
      BY <2>7, <3>1
    <3>2. CASE j # k
      BY <2>5, <3>2
    <3> QED
      BY <3>1, <3>2
  <2> QED
    BY <2>3, <2>8, <2>9 DEF Quiet
<1>10. CASE UNCHANGED vars
  BY <1>1, <1>10 DEF vars, logVars
<1> QED
  BY <1>2, <1>3, <1>4, <1>5, <1>6, <1>7, <1>8, <1>9, <1>10 DEF Next

-----------------------------------------------------------------------------
\* What the actions that are not quiet do

\* An election changes nothing of the cache.
LEMMA ElectEffect ==
    ASSUME TypeOK, AppliedAppended, NEW n \in Node, Elect(n)
    PROVE  /\ leader = Nil /\ leader' = n
           /\ UNCHANGED <<order, delivered, cache, recent, request>>
           /\ \A p \in Node : Applied(p) = 0 /\ Applied(p)' = 0
BY DEF Elect, Log!Elect, AppliedAppended, Applied

\* A follower that restarts has an empty cache and has applied nothing.
LEMMA RestartEffect ==
    ASSUME TypeOK, NEW n \in Node, Restart(n)
    PROVE  /\ leader # Nil /\ n # leader /\ leader' = leader
           /\ UNCHANGED <<order, recent, request>>
           /\ Applied(n)' = 0
           /\ \A k \in Key : cache'[n][k] = NoBlock
           /\ \A p \in Node : p # n => /\ cache'[p] = cache[p]
                                       /\ Applied(p)' = Applied(p)
BY DEF Restart, Log!Rejoin, Applied, TypeOK, Log!TypeOK

\* put stores on the leader only.
LEMMA StoreKeeps ==
    ASSUME TypeOK, Progress, NEW r \in Request, Store(r)
    PROVE  /\ LogKept
           /\ \A n \in Node, j \in Key : n # leader => cache'[n][j] = cache[n][j]
<1> PICK k : k = request[r].key
  OBVIOUS
<1>1. /\ leader \in Node /\ leader' = leader /\ delivered' = delivered
      /\ \E q \in Running, victim \in Key \cup {Nil} : StoreOutcome(r, k, q, victim)
  BY StoreEffect
<1>2. \/ order' = order
      \/ \E victim : /\ Entry("invalidate", r, victim) \in Command
                     /\ Log!Propose(Entry("invalidate", r, victim))
  BY <1>1 DEF StoreOutcome, NothingEvicted, EvictionAppended, EvictionRefused
<1>3. LogKept
  BY <1>1, <1>2, ProposeKeeps DEF LogKept, TypeOK, Log!TypeOK
<1>4. \A n \in Node, j \in Key : n # leader => cache'[n][j] = cache[n][j]
  BY <1>1 DEF StoreOutcome
<1> QED
  BY <1>3, <1>4

\* What a node has applied stays within what was appended.
LEMMA AppliedStep ==
    ASSUME TypeOK, Progress, AppliedAppended, [Next]_vars
    PROVE  AppliedAppended'
<1>1. \A n \in Node : Applied(n) \in Nat
  BY DEF Applied, TypeOK, Log!TypeOK
<1>2. ASSUME LogKept
      PROVE  AppliedAppended'
  BY <1>1, <1>2 DEF LogKept, AppliedAppended, Applied, TypeOK, Log!TypeOK
<1>3. ASSUME NEW n \in Node, HandleCommit(n)
      PROVE  AppliedAppended'
  <2> PICK i : i = Applied(n) + 1
    OBVIOUS
  <2>1. /\ leader # Nil /\ leader' = leader /\ order' = order
        /\ i \in 1..Len(order) /\ Applied(n)' = i
        /\ \A p \in Node : p # n => Applied(p)' = Applied(p)
    BY <1>3, DeliverEffect DEF Applied
  <2> QED
    BY <1>1, <2>1 DEF AppliedAppended
<1>4. ASSUME NEW n \in Node, Elect(n)
      PROVE  AppliedAppended'
  BY <1>4, ElectEffect, CacheAssumption DEF AppliedAppended
<1>5. ASSUME NEW n \in Node, Restart(n)
      PROVE  AppliedAppended'
  BY <1>1, <1>5, RestartEffect DEF AppliedAppended, TypeOK, Log!TypeOK
<1> QED
  BY <1>2, <1>3, <1>4, <1>5, QuietStep, StoreKeeps DEF Quiet

-----------------------------------------------------------------------------
\* Followers

\* Every operation leaves followers with what they applied last.
LEMMA FollowersStep ==
    ASSUME TypeOK, Progress, AppliedAppended, EntriesRequested, FollowersServeLog,
           [Next]_vars
    PROVE  FollowersServeLog'
<1> SUFFICES ASSUME NEW n \in Node, NEW k \in Key, n # leader', cache'[n][k].valid
             PROVE  Latest(order', Applied(n)', n = leader', k, cache'[n][k].value, 0)
  BY ZenonT(60) DEF FollowersServeLog, IsLatest, Latest, Applied
<1> PICK r : r = cache'[n][k].value
  OBVIOUS
<1>1. n # leader /\ cache[n][k].valid
      => Latest(order, Applied(n), n = leader, k, cache[n][k].value, 0)
  BY LatestOf DEF FollowersServeLog
<1>2. ASSUME LogKept, cache'[n][k] = cache[n][k] \/ cache'[n][k].valid = FALSE
      PROVE  Latest(order', Applied(n)', n = leader', k, r, 0)
  <2>1. leader' = leader /\ cache'[n][k] = cache[n][k]
    BY <1>2 DEF LogKept
  <2>2. Latest(order, Applied(n), n = leader, k, r, 0)
    BY <1>1, <2>1
  <2>3. Applied(n)' = Applied(n)
        /\ Latest(order', Applied(n), n = leader, k, r, 0)
    BY <1>2, <2>2, KeptLatest
  <2> QED
    BY <2>1, <2>3
<1>3. ASSUME NEW p \in Node, HandleCommit(p)
      PROVE  Latest(order', Applied(n)', n = leader', k, r, 0)
  <2> PICK i, e : i = Applied(p) + 1 /\ e = order[i]
    OBVIOUS
  <2>1. /\ leader' = leader /\ order' = order /\ e \in Command
        /\ Applied(p)' = i /\ Applied(p) \in Nat
        /\ p # n => Applied(n)' = Applied(n)
    BY <1>3, DeliverEffect DEF Applied
  <2>2. cache'[n][k] =
           IF n # p \/ k # e.key \/ ~Heeds(p, e) THEN cache[n][k]
           ELSE IF e.op = "put" THEN [value |-> e.req, valid |-> TRUE]
           ELSE NoBlock
    BY <1>3, CommitEffect
  <2>3. CASE n # p
    BY <1>1, <2>1, <2>2, <2>3
  <2>4. CASE n = p /\ ~(e.key = k /\ Heeds(n, e))
    <3>1. Latest(order, Applied(n), n = leader, k, r, 0)
      BY <1>1, <2>1, <2>2, <2>4
    <3>2. \/ e.key # k \/ e.op = "acquire"
          \/ e.op = "invalidateAll" /\ n = leader
      BY <2>1, <2>4, LatestHeeds
    <3>3. Latest(order, Applied(n) + 1, n = leader, k, r, 0)
      BY <2>1, <2>4, <3>1, <3>2, LatestNext
    <3> QED
      BY <2>1, <2>4, <3>3
  <2>5. CASE n = p /\ e.key = k /\ Heeds(n, e)
    <3>1. e.op = "put" /\ r = e.req
      BY <2>2, <2>5, BlockForms
    <3>2. Latest(order, Applied(n) + 1, n = leader, k, r, 0)
      BY <2>1, <2>5, <3>1, LatestPut
    <3> QED
      BY <2>1, <2>5, <3>2
  <2> QED
    BY <2>3, <2>4, <2>5
<1>4. ASSUME NEW p \in Node, Elect(p)
      PROVE  FALSE
  <2>1. n # leader /\ Applied(n) = 0 /\ cache'[n][k] = cache[n][k]
    BY <1>4, ElectEffect, CacheAssumption
  <2>2. Latest(order, 0, n = leader, k, r, 0)
    BY <1>1, <2>1
  <2> QED
    BY <2>2 DEF Latest
<1>5. ASSUME NEW p \in Node, Restart(p)
      PROVE  Latest(order', Applied(n)', n = leader', k, r, 0)
  <2>1. n # p
    BY <1>5, RestartEffect, BlockForms
  <2>2. cache'[n][k] = cache[n][k] /\ Applied(n)' = Applied(n)
        /\ order' = order /\ leader' = leader
    BY <1>5, <2>1, RestartEffect
  <2> QED
    BY <1>1, <2>2
<1>6. Quiet \/ (\E s \in Request : Store(s))
      => Latest(order', Applied(n)', n = leader', k, r, 0)
  <2>1. CASE Quiet
    BY <1>2, <2>1 DEF Quiet
  <2>2. CASE \E s \in Request : Store(s)
    <3>1. LogKept /\ (n # leader => cache'[n][k] = cache[n][k])
      BY <2>2, StoreKeeps
    <3> QED
      BY <1>2, <3>1 DEF LogKept
  <2> QED
    BY <2>1, <2>2
<1>7. Latest(order', Applied(n)', n = leader', k, r, 0)
  BY <1>3, <1>4, <1>5, <1>6, QuietStep
<1> QED
  BY <1>7

\* Every block comes from a put that was appended.
LEMMA BlocksStep ==
    ASSUME TypeOK, Progress, AppliedAppended, EntriesRequested, BlocksRequested,
           [Next]_vars
    PROVE  BlocksRequested'
<1>1. \A s \in Request : RequestKeeps(s)
  BY RequestStep
<1> SUFFICES ASSUME NEW n \in Node, NEW k \in Key, cache'[n][k].valid
             PROVE  request'[cache'[n][k].value] # NoRequest
  BY DEF BlocksRequested
<1>2. cache[n][k].valid => /\ request[cache[n][k].value] # NoRequest
                           /\ cache[n][k].value \in Request
  <2>1. cache[n][k] \in Block \cup {NoBlock}
    BY DEF TypeOK
  <2>2. cache[n][k].valid => cache[n][k].value \in PutRequest
    BY <2>1, BlockForms
  <2> QED
    BY <2>2 DEF BlocksRequested, Request
<1>3. ASSUME cache'[n][k] = cache[n][k] \/ cache'[n][k].valid = FALSE
      PROVE  request'[cache'[n][k].value] # NoRequest
  BY <1>1, <1>2, <1>3 DEF RequestKeeps
<1>4. ASSUME NEW p \in Node, HandleCommit(p)
      PROVE  request'[cache'[n][k].value] # NoRequest
  <2> PICK i, e : i = Applied(p) + 1 /\ e = order[i]
    OBVIOUS
  <2>1. i \in 1..Len(order) /\ e \in Command
    BY <1>4, DeliverEffect
  <2>2. /\ cache'[n][k] =
              IF n # p \/ k # e.key \/ ~Heeds(p, e) THEN cache[n][k]
              ELSE IF e.op = "put" THEN [value |-> e.req, valid |-> TRUE]
              ELSE NoBlock
        /\ request' = request
    BY <1>4, CommitEffect
  <2>3. e.req \in Request /\ request[e.req] # NoRequest
    BY <2>1, CommandForm DEF EntriesRequested
  <2>4. \/ cache'[n][k] = cache[n][k]
        \/ cache'[n][k].valid = FALSE
        \/ cache'[n][k].value = e.req
    BY <2>2, BlockForms
  <2> QED
    BY <1>3, <2>2, <2>3, <2>4
<1>5. ASSUME NEW p \in Node, Elect(p)
      PROVE  request'[cache'[n][k].value] # NoRequest
  BY <1>3, <1>5, ElectEffect
<1>6. ASSUME NEW p \in Node, Restart(p)
      PROVE  request'[cache'[n][k].value] # NoRequest
  <2>1. cache'[n][k] = cache[n][k] \/ cache'[n][k].valid = FALSE
    BY <1>6, RestartEffect, BlockForms
  <2> QED
    BY <1>3, <2>1
<1>7. ASSUME NEW r \in Request, Store(r)
      PROVE  request'[cache'[n][k].value] # NoRequest
  <2> PICK j : j = request[r].key
    OBVIOUS
  <2>1. PICK q \in Running, victim \in Key \cup {Nil} : StoreOutcome(r, j, q, victim)
    BY <1>7, StoreEffect
  <2>2. request'[r] = q /\ q # NoRequest
    BY <2>1, RequestUpdate, RequestForms DEF StoreOutcome
  <2>3. r \in PutRequest
    BY <1>7, StoreEffect
  <2>4. CASE n # leader \/ (k # j /\ k # victim)
    <3>1. cache'[n][k] = IF n # leader THEN cache[n][k]
                         ELSE IF k = victim THEN [Stored(r, j, k) EXCEPT !.valid = FALSE]
                         ELSE Stored(r, j, k)
      BY <2>1 DEF StoreOutcome
    <3>2. cache'[n][k] = cache[n][k]
      BY <2>4, <3>1 DEF Stored
    <3> QED
      BY <1>3, <3>2
  <2>5. CASE n = leader /\ k = victim
    <3>1. Nil \notin Key /\ victim # Nil
      BY <2>5, CacheAssumption
    <3>2. Stored(r, j, k) \in Block
      BY <2>1, <2>5, <3>1 DEF StoreOutcome
    <3>3. cache'[n][k] = [Stored(r, j, k) EXCEPT !.valid = FALSE]
      BY <2>1, <2>5 DEF StoreOutcome
    <3>4. cache'[n][k].valid = FALSE
      BY <3>2, <3>3, BlockForms
    <3> QED
      BY <1>3, <3>4
  <2>6. CASE n = leader /\ k # victim /\ k = j
    <3>1. cache'[n][k] = [value |-> r, valid |-> TRUE]
      BY <2>1, <2>6 DEF StoreOutcome, Stored
    <3> QED
      BY <2>2, <2>3, <3>1, BlockForms
  <2> QED
    BY <2>4, <2>5, <2>6
<1>8. CASE Quiet
  BY <1>3, <1>8 DEF Quiet
<1> QED
  BY <1>4, <1>5, <1>6, <1>7, <1>8, QuietStep

-----------------------------------------------------------------------------
\* The leader

\* What the leader serves for k is as StaleOnlyByLateStore has it.
FreshOrLate(o, len, leads, k, r, first) ==
    \/ Latest(o, len, leads, k, r, first)
    \/ \A i \in 1..len : o[i] # Entry("put", r, k)

\* The put of r for k has just stored its block.
LEMMA StoreFresh ==
    ASSUME TypeOK, AppliedAppended, leader \in Node, LogKept,
           NEW r, NEW k \in Key, NEW first,
           first = IF Superseded(r, k) THEN Applied(leader) ELSE 0
    PROVE  FreshOrLate(order', Applied(leader), TRUE, k, r, first)
<1> DEFINE a == Applied(leader)
<1>1. /\ a \in Nat /\ a <= Len(order) /\ Len(order) \in Nat
      /\ a = Len(delivered[leader])
      /\ \A i \in 1..a : order[i] \in Command
  BY DEF AppliedAppended, Applied, TypeOK, Log!TypeOK
<1>2. \A i \in 1..a : order'[i] = order[i]
  BY <1>1 DEF LogKept
<1>3. Superseded(r, k) <=>
         \E i, j \in 1..a : /\ i < j /\ order[i] = Entry("put", r, k)
                            /\ order[j].key = k /\ order[j].op \in {"put", "invalidate"}
  BY <1>1 DEF Superseded
<1> HIDE DEF a
<1>4. ASSUME NEW i \in 1..a, order[i] = Entry("put", r, k)
      PROVE  Latest(order', a, TRUE, k, r, first)
  <2>1. order'[i].op = "put" /\ order'[i].key = k /\ order'[i].req = r
    BY <1>2, <1>4 DEF Entry
  <2>2. ASSUME NEW j \in (i + 1)..a
        PROVE  \/ order'[j].key # k \/ order'[j].op = "acquire"
               \/ order'[j].op = "invalidateAll" /\ TRUE
               \/ j <= first
    <3>1. j \in 1..a /\ i < j /\ j <= a
      BY <1>1
    <3>2. CASE Superseded(r, k)
      BY <3>1, <3>2 DEF a
    <3>3. CASE ~Superseded(r, k)
      <4>1. order[j].key # k \/ order[j].op \notin {"put", "invalidate"}
        BY <1>3, <1>4, <3>1, <3>3
      <4>2. order[j].op \in {"acquire", "invalidateAll", "put", "invalidate"}
        BY <1>1, <3>1, CommandForm
      <4> QED
        BY <1>2, <3>1, <4>1, <4>2
    <3> QED
      BY <3>2, <3>3
  <2> QED
    BY <2>1, <2>2 DEF Latest
<1> QED
  BY <1>2, <1>4 DEF FreshOrLate, a

\* StaleOnlyByLateStore and LostOnlyByInvalidation, said of values.
FreshBlocks ==
    \A l \in Node, k \in Key, r \in PutRequest, first \in Nat :
        /\ l = leader
        /\ cache[l][k].valid
        /\ r = cache[l][k].value
        /\ first = request[r].stored
        => FreshOrLate(order, Applied(l), TRUE, k, r, first)

ExcusedLosses ==
    \A l \in Node, k \in Key, r \in Request : \A i \in 1..Applied(l) :
        /\ l = leader
        /\ order[i] = Entry("put", r, k)
        /\ Latest(order, Applied(l), TRUE, k, r, 0)
        /\ cache[l][k].valid = FALSE
        => Excused(k, i)

\* Every operation keeps the leader's blocks fresh, or stored late by their own put.
LEMMA FreshStep ==
    ASSUME TypeOK, Progress, AppliedAppended, EntriesRequested, BlocksRequested,
           FreshBlocks, [Next]_vars
    PROVE  FreshBlocks'
<1> SUFFICES ASSUME NEW l \in Node, NEW k \in Key, NEW r \in PutRequest,
                    NEW first \in Nat,
                    l = leader', cache'[l][k].valid, r = cache'[l][k].value,
                    first = request'[r].stored
             PROVE  FreshOrLate(order', Applied(l)', TRUE, k, r, first)
  BY DEF FreshBlocks
<1>1. r \in Request /\ RequestKeeps(r)
  BY RequestStep DEF Request
<1>2. /\ Applied(l) \in Nat /\ Applied(l) <= Len(order) /\ Len(order) \in Nat
      /\ \A i \in 1..Applied(l) : order[i] \in Command
  BY DEF AppliedAppended, Applied, TypeOK, Log!TypeOK
\* The block is the one from before.
<1>3. ASSUME l = leader, cache'[l][k] = cache[l][k]
      PROVE  \E old \in Nat : old <= first /\ FreshOrLate(order, Applied(l), TRUE, k, r, old)
  <2>1. request[r] # NoRequest
    BY <1>3 DEF BlocksRequested
  <2>2. request[r].stored \in Nat /\ request[r].stored <= first
    BY <1>1, <2>1, RequestForms DEF RequestKeeps, TypeOK
  <2> PICK old \in Nat : old = request[r].stored
    BY <2>2
  <2>3. FreshOrLate(order, Applied(l), TRUE, k, r, old)
    BY <1>3 DEF FreshBlocks
  <2> QED
    BY <2>2, <2>3
<1>4. ASSUME l = leader, cache'[l][k] = cache[l][k],
             Applied(l)' = Applied(l),
             \A i \in 1..Applied(l) : order'[i] = order[i]
      PROVE  FreshOrLate(order', Applied(l)', TRUE, k, r, first)
  <2>1. PICK old \in Nat :
           old <= first /\ FreshOrLate(order, Applied(l), TRUE, k, r, old)
    BY <1>3, <1>4
  <2>2. CASE Latest(order, Applied(l), TRUE, k, r, old)
    <3>1. Latest(order', Applied(l), TRUE, k, r, first)
      BY <1>2, <1>4, <2>1, <2>2, LatestStays
    <3> QED
      BY <1>4, <3>1 DEF FreshOrLate
  <2>3. CASE \A i \in 1..Applied(l) : order[i] # Entry("put", r, k)
    BY <1>4, <2>3 DEF FreshOrLate
  <2> QED
    BY <2>1, <2>2, <2>3 DEF FreshOrLate
<1>5. ASSUME LogKept
      PROVE  /\ l = leader /\ Applied(l)' = Applied(l)
             /\ \A i \in 1..Applied(l) : order'[i] = order[i]
  BY <1>2, <1>5 DEF LogKept, Applied
<1>6. CASE Quiet
  BY <1>4, <1>5, <1>6 DEF Quiet
<1>7. ASSUME NEW p \in Node, Elect(p)
      PROVE  FreshOrLate(order', Applied(l)', TRUE, k, r, first)
  <2>1. Applied(l)' = 0
    BY <1>7, ElectEffect
  <2> QED
    BY <2>1 DEF FreshOrLate
<1>8. ASSUME NEW p \in Node, Restart(p)
      PROVE  FreshOrLate(order', Applied(l)', TRUE, k, r, first)
  <2>1. /\ l = leader /\ cache'[l] = cache[l] /\ order' = order
        /\ Applied(l)' = Applied(l)
    BY <1>8, RestartEffect
  <2> QED
    BY <1>4, <2>1
<1>9. ASSUME NEW s \in Request, Store(s)
      PROVE  FreshOrLate(order', Applied(l)', TRUE, k, r, first)
  <2> PICK j : j = request[s].key
    OBVIOUS
  <2>1. /\ s \in PutRequest /\ j \in Key
        /\ \E q \in Running, victim \in Key \cup {Nil} : StoreOutcome(s, j, q, victim)
    BY <1>9, StoreEffect
  <2>2. PICK q \in Running, victim \in Key \cup {Nil} : StoreOutcome(s, j, q, victim)
    BY <2>1
  <2>3. LogKept
    BY <1>9, StoreKeeps
  <2>4. cache'[l][k] = IF k = victim THEN [Stored(s, j, k) EXCEPT !.valid = FALSE]
                       ELSE Stored(s, j, k)
    BY <1>5, <2>2, <2>3 DEF StoreOutcome
  <2>5. k # victim
    <3> SUFFICES ASSUME k = victim
                 PROVE  FALSE
      OBVIOUS
    <3>1. Stored(s, j, k) \in Block
      BY <2>2, CacheAssumption DEF StoreOutcome
    <3> QED
      BY <2>4, <3>1, BlockForms
  <2>6. CASE k = j
    <3>1. r = s
      BY <2>1, <2>4, <2>5, <2>6, BlockForms DEF Stored
    <3>2. request'[s] = q /\ q.stored = IF Superseded(s, j) THEN Applied(leader) ELSE 0
      BY <2>2, RequestUpdate DEF StoreOutcome
    <3>3. first = IF Superseded(s, j) THEN Applied(leader) ELSE 0
      BY <3>1, <3>2
    <3>4. FreshOrLate(order', Applied(leader), TRUE, j, s, first)
      BY <1>5, <2>1, <2>3, <3>3, StoreFresh
    <3> QED
      BY <1>5, <2>3, <2>6, <3>1, <3>4
  <2>7. CASE k # j
    <3>1. cache'[l][k] = cache[l][k]
      BY <1>5, <2>3, <2>4, <2>5, <2>7 DEF Stored
    <3> QED
      BY <1>4, <1>5, <2>3, <3>1
  <2> QED
    BY <2>6, <2>7
<1>10. ASSUME NEW p \in Node, HandleCommit(p)
       PROVE  FreshOrLate(order', Applied(l)', TRUE, k, r, first)
  <2> PICK i, e : i = Applied(p) + 1 /\ e = order[i]
    OBVIOUS
  <2>1. /\ leader' = leader /\ order' = order /\ e \in Command
        /\ Applied(p)' = i /\ Applied(p) \in Nat
        /\ p # l => Applied(l)' = Applied(l)
    BY <1>10, DeliverEffect DEF Applied
  <2>2. cache'[l][k] =
           IF l # p \/ k # e.key \/ ~Heeds(p, e) THEN cache[l][k]
           ELSE IF e.op = "put" THEN [value |-> e.req, valid |-> TRUE]
           ELSE NoBlock
    BY <1>10, CommitEffect
  <2>3. CASE l # p
    BY <1>4, <2>1, <2>2, <2>3
  <2>4. CASE l = p /\ ~(e.key = k /\ Heeds(l, e))
    <3>1. cache'[l][k] = cache[l][k]
      BY <2>2, <2>4
    <3>2. PICK old \in Nat :
             old <= first /\ FreshOrLate(order, Applied(l), TRUE, k, r, old)
      BY <1>3, <2>1, <3>1
    <3>3. \/ e.key # k \/ e.op = "acquire"
          \/ e.op = "invalidateAll" /\ l = leader
      BY <2>1, <2>4, LatestHeeds
    <3>4. CASE Latest(order, Applied(l), TRUE, k, r, old)
      <4>1. Latest(order, Applied(l), TRUE, k, r, first)
        BY <1>2, <3>2, <3>4, LatestStays
      <4>2. Latest(order, Applied(l) + 1, TRUE, k, r, first)
        BY <1>2, <2>4, <3>3, <4>1, LatestNext
      <4> QED
        BY <2>1, <2>4, <4>2 DEF FreshOrLate
    <3>5. CASE \A h \in 1..Applied(l) : order[h] # Entry("put", r, k)
      <4>1. e # Entry("put", r, k)
        BY <3>3, EntryType, <1>1
      <4>2. \A h \in 1..i : h \in 1..Applied(l) \/ h = i
        BY <2>1, <2>4
      <4>3. \A h \in 1..i : order[h] # Entry("put", r, k)
        BY <3>5, <4>1, <4>2
      <4> QED
        BY <2>1, <2>4, <4>3 DEF FreshOrLate
    <3> QED
      BY <3>2, <3>4, <3>5 DEF FreshOrLate
  <2>5. CASE l = p /\ e.key = k /\ Heeds(l, e)
    <3>1. e.op = "put" /\ r = e.req
      BY <2>2, <2>5, BlockForms
    <3>2. Latest(order, Applied(l) + 1, TRUE, k, r, first)
      BY <2>1, <2>5, <3>1, LatestPut
    <3> QED
      BY <2>1, <2>5, <3>2 DEF FreshOrLate
  <2> QED
    BY <2>3, <2>4, <2>5
<1> QED
  BY <1>6, <1>7, <1>8, <1>9, <1>10, QuietStep

\* An excuse holds until the leader has applied its invalidation.
LEMMA ExcuseKeeps ==
    ASSUME TypeOK, TypeOK', \A s \in Request : RequestKeeps(s),
           NEW k \in Key, NEW i \in Nat, Excused(k, i),
           leader' = leader, Len(order) <= Len(order'),
           \A j \in 1..Len(order) : order'[j] = order[j],
           \A j \in 1..Len(order), s \in Request :
              j > Applied(leader) /\ order[j] = Entry("invalidate", s, k)
              => j > Applied(leader)'
    PROVE  Excused(k, i)'
<1>1. PICK r \in Request :
        /\ request[r] # NoRequest
        /\ request[r].target = k
        /\ \/ request[r].ended >= i
           \/ \E j \in 1..Len(order) : /\ order[j] = Entry("invalidate", r, k)
                                       /\ j > Applied(leader)
  BY DEF Excused
<1>2. /\ request'[r] # NoRequest /\ request'[r].target = k
      /\ request'[r].ended >= request[r].ended
  BY <1>1 DEF RequestKeeps
<1>3. /\ request[r].ended \in Nat /\ request'[r].ended \in Nat
      /\ Len(order) \in Nat
  <2>1. request[r] \in Running /\ request'[r] \in Running
    BY <1>1, <1>2 DEF TypeOK
  <2> QED
    BY <2>1, RequestForms DEF TypeOK, Log!TypeOK
<1>4. CASE request[r].ended >= i
  BY <1>1, <1>2, <1>3, <1>4 DEF Excused
<1>5. CASE \E j \in 1..Len(order) : /\ order[j] = Entry("invalidate", r, k)
                                    /\ j > Applied(leader)
  <2>1. PICK j \in 1..Len(order) : /\ order[j] = Entry("invalidate", r, k)
                                   /\ j > Applied(leader)
    BY <1>5
  <2>2. j \in 1..Len(order') /\ order'[j] = Entry("invalidate", r, k)
        /\ j > Applied(leader)'
    <3>1. Len(order') \in Nat
      BY DEF TypeOK, Log!TypeOK
    <3> QED
      BY <1>3, <2>1, <3>1
  <2> QED
    BY <1>1, <1>2, <2>2 DEF Excused
<1> QED
  BY <1>1, <1>4, <1>5

\* The other way round: what is latest after one more entry was so before, unless
\* it is that entry.
LEMMA LatestBefore ==
    ASSUME NEW o, NEW len \in Nat, NEW k, NEW r, NEW i \in 1..len,
           o[i].op = "put", o[i].key = k, o[i].req = r,
           \A j \in 1..(len + 1) :
              o[j].op = "put" /\ o[j].key = k /\ o[j].req = r => j = i,
           Latest(o, len + 1, TRUE, k, r, 0)
    PROVE  Latest(o, len, TRUE, k, r, 0)
<1>1. PICK h \in 1..(len + 1) :
        /\ o[h].op = "put" /\ o[h].key = k /\ o[h].req = r
        /\ \A j \in (h + 1)..(len + 1) :
              \/ o[j].key # k \/ o[j].op = "acquire"
              \/ o[j].op = "invalidateAll" /\ TRUE
              \/ j <= 0
  BY DEF Latest
<1>2. h = i
  BY <1>1
<1>3. \A j \in (i + 1)..len : j \in (i + 1)..(len + 1)
  OBVIOUS
<1> QED
  BY <1>1, <1>2, <1>3 DEF Latest

\* Every operation keeps the losses of the leader excused by an invalidation.
LEMMA LossStep ==
    ASSUME TypeOK, TypeOK', Progress, AppliedAppended, EntriesRequested, EntriesOnce,
           ExcusedLosses, [Next]_vars
    PROVE  ExcusedLosses'
<1> SUFFICES ASSUME NEW l \in Node, NEW k \in Key, NEW r \in Request,
                    NEW i \in 1..Applied(l)',
                    l = leader', order'[i] = Entry("put", r, k),
                    Latest(order', Applied(l)', TRUE, k, r, 0),
                    cache'[l][k].valid = FALSE
             PROVE  Excused(k, i)'
  BY DEF ExcusedLosses
<1>1. \A s \in Request : RequestKeeps(s)
  BY RequestStep
<1>2. /\ Applied(l) \in Nat /\ Applied(l) <= Len(order) /\ Len(order) \in Nat
      /\ Applied(l)' \in Nat /\ i \in Nat
      /\ cache[l][k].valid \in BOOLEAN
  <2>1. cache[l][k] \in Block \cup {NoBlock}
    BY DEF TypeOK
  <2>2. cache[l][k].valid \in BOOLEAN
    BY <2>1, BlockForms
  <2> QED
    BY <2>2 DEF AppliedAppended, Applied, TypeOK, Log!TypeOK
\* The leader lacked the value before.
<1>3. ASSUME l = leader, i \in 1..Applied(l), order[i] = Entry("put", r, k),
             Latest(order, Applied(l), TRUE, k, r, 0), cache[l][k].valid = FALSE
      PROVE  Excused(k, i)
  BY <1>3 DEF ExcusedLosses
<1>4. ASSUME LogKept
      PROVE  /\ l = leader /\ Applied(l)' = Applied(l)
             /\ i \in 1..Applied(l) /\ order[i] = Entry("put", r, k)
             /\ Latest(order, Applied(l), TRUE, k, r, 0)
  <2>1. /\ l = leader /\ Applied(l)' = Applied(l)
        /\ \A j \in 1..Applied(l) : order[j] = order'[j]
    BY <1>2, <1>4 DEF LogKept, Applied
  <2> PICK a \in Nat : a = Applied(l)
    BY <1>2
  <2>2. Latest(order', a, TRUE, k, r, 0) /\ \A j \in 1..a : order[j] = order'[j]
    BY <2>1
  <2>3. Latest(order, a, TRUE, k, r, 0)
    <3>1. 0 \in Nat /\ 0 <= 0
      OBVIOUS
    <3> QED
      BY <2>2, <3>1, LatestStays, Zenon
  <2> QED
    BY <2>1, <2>3
<1>5. ASSUME LogKept, cache[l][k].valid = FALSE
      PROVE  Excused(k, i)'
  <2>1. Excused(k, i)
    BY <1>3, <1>4, <1>5
  <2>2. /\ leader' = leader /\ Len(order) <= Len(order')
        /\ \A j \in 1..Len(order) : order'[j] = order[j]
        /\ Applied(leader)' = Applied(leader)
    BY <1>4, <1>5 DEF LogKept, Applied
  <2> QED
    BY <1>1, <1>2, <2>1, <2>2, ExcuseKeeps
<1>6. CASE Quiet
  <2>1. CASE cache[l][k].valid = FALSE
    BY <1>5, <1>6, <2>1 DEF Quiet
  <2>2. CASE cache[l][k].valid
    <3>1. l = leader /\ leader # Nil /\ i \in 1..Applied(leader)
      BY <1>4, <1>6, CacheAssumption DEF Quiet
    <3>2. cache'[leader][k].valid \/ Excused(k, i)'
      BY <1>6, <2>2, <3>1 DEF Quiet
    <3> QED
      BY <3>1, <3>2
  <2> QED
    BY <1>2, <2>1, <2>2
<1>7. ASSUME NEW p \in Node, Elect(p)
      PROVE  Excused(k, i)'
  <2>1. Applied(l)' = 0
    BY <1>7, ElectEffect
  <2> QED
    BY <2>1
<1>8. ASSUME NEW p \in Node, Restart(p)
      PROVE  Excused(k, i)'
  <2>1. /\ l = leader /\ leader' = leader /\ cache'[l] = cache[l] /\ order' = order
        /\ Applied(l)' = Applied(l)
    BY <1>8, RestartEffect
  <2>2. Excused(k, i)
    BY <1>3, <2>1
  <2> QED
    BY <1>1, <1>2, <2>1, <2>2, ExcuseKeeps
<1>9. ASSUME NEW s \in Request, Store(s)
      PROVE  Excused(k, i)'
  <2> PICK j : j = request[s].key
    OBVIOUS
  <2>1. /\ s \in PutRequest /\ j \in Key
        /\ \E q \in Running, victim \in Key \cup {Nil} : StoreOutcome(s, j, q, victim)
    BY <1>9, StoreEffect
  <2>2. PICK q \in Running, victim \in Key \cup {Nil} : StoreOutcome(s, j, q, victim)
    BY <2>1
  <2>3. LogKept
    BY <1>9, StoreKeeps
  <2>4. cache'[l][k] = IF k = victim THEN [Stored(s, j, k) EXCEPT !.valid = FALSE]
                       ELSE Stored(s, j, k)
    BY <1>4, <2>2, <2>3 DEF StoreOutcome
  <2>5. CASE k = victim
    <3>1. /\ victim # Nil /\ request' = [request EXCEPT ![s] = q] /\ q.target = k
          /\ request'[s] = q /\ q # NoRequest
      BY <2>2, <2>5, CacheAssumption, RequestUpdate, RequestForms DEF StoreOutcome
    <3>2. CASE EvictionAppended(s, q, victim)
      BY <2>5, <3>1, <3>2, ExcuseProposed DEF EvictionAppended
    <3>3. CASE EvictionRefused(s, j, q, victim) /\ Stored(s, j, k).valid
      <4>1. q.ended = Applied(l) /\ i \in 1..Applied(l)
        BY <1>4, <2>3, <2>5, <3>3 DEF EvictionRefused
      <4>2. q.ended >= i
        BY <1>2, <4>1
      <4> QED
        BY <3>1, <4>2 DEF Excused
    <3>4. CASE ~Stored(s, j, k).valid
      <4>1. k # j
        BY <2>1, <3>4, BlockForms DEF Stored
      <4>2. cache[l][k].valid = FALSE
        BY <1>2, <1>4, <2>3, <3>4, <4>1 DEF Stored
      <4> QED
        BY <1>5, <2>3, <4>2
    <3> QED
      BY <2>2, <3>1, <3>2, <3>3, <3>4 DEF StoreOutcome, NothingEvicted
  <2>6. CASE k # victim /\ k = j
    BY <2>1, <2>4, <2>6, BlockForms DEF Stored
  <2>7. CASE k # victim /\ k # j
    <3>1. cache'[l][k] = cache[l][k]
      BY <1>4, <2>3, <2>4, <2>7 DEF Stored
    <3> QED
      BY <1>5, <2>3, <3>1
  <2> QED
    BY <2>5, <2>6, <2>7
<1>10. ASSUME NEW p \in Node, HandleCommit(p)
       PROVE  Excused(k, i)'
  <2> PICK z, e : z = Applied(p) + 1 /\ e = order[z]
    OBVIOUS
  <2>1. /\ leader' = leader /\ order' = order /\ e \in Command
        /\ Applied(p)' = z /\ Applied(p) \in Nat /\ z \in 1..Len(order)
        /\ p # l => Applied(l)' = Applied(l)
    BY <1>10, DeliverEffect DEF Applied
  <2>2. cache'[l][k] =
           IF l # p \/ k # e.key \/ ~Heeds(p, e) THEN cache[l][k]
           ELSE IF e.op = "put" THEN [value |-> e.req, valid |-> TRUE]
           ELSE NoBlock
    BY <1>10, CommitEffect
  <2>3. CASE l # p
    <3>1. Excused(k, i)
      BY <1>3, <2>1, <2>2, <2>3
    <3> QED
      BY <1>1, <1>2, <2>1, <2>3, <3>1, ExcuseKeeps
  <2>4. CASE l = p
    <3>1. i # z
      <4> SUFFICES ASSUME i = z
                   PROVE  FALSE
        OBVIOUS
      <4>1. e.op = "put" /\ e.key = k /\ e.req = r
        BY <2>1, EntryType
      <4>2. e.req \in PutRequest
        BY <2>1, <4>1 DEF EntriesRequested
      <4> QED
        BY <2>2, <2>4, <4>1, <4>2, BlockForms DEF Heeds
    <3>2. i \in 1..Applied(l) /\ z = Applied(l) + 1
      BY <1>2, <2>1, <2>4, <3>1
    <3>3. order[i].op = "put" /\ order[i].key = k /\ order[i].req = r
      BY <2>1, EntryType
    <3>4. \A j \in 1..(Applied(l) + 1) :
             order[j].op = "put" /\ order[j].key = k /\ order[j].req = r => j = i
      <4>1. \A j \in 1..Len(order) : order[j] \in Command
        BY DEF TypeOK, Log!TypeOK
      <4> SUFFICES ASSUME NEW j \in 1..(Applied(l) + 1), order[j].op = "put",
                          order[j].key = k, order[j].req = r
                   PROVE  j = i
        OBVIOUS
      <4>2. j \in 1..Len(order) /\ i \in 1..Len(order)
        BY <1>2, <2>1, <3>2
      <4>3. order[j] = Entry("put", r, k)
        BY <4>1, <4>2, CommandForm
      <4> QED
        BY <2>1, <4>2, <4>3 DEF EntriesOnce
    <3>5. Latest(order, Applied(l) + 1, TRUE, k, r, 0)
      BY <2>1, <2>4
    <3> PICK a \in Nat : a = Applied(l)
      BY <1>2
    <3>6. /\ Latest(order, Applied(l), TRUE, k, r, 0)
          /\ e.key # k \/ e.op \in {"acquire", "invalidateAll"}
      <4>1. /\ i \in 1..a /\ z = a + 1
            /\ \A j \in 1..(a + 1) :
                  order[j].op = "put" /\ order[j].key = k /\ order[j].req = r => j = i
            /\ Latest(order, a + 1, TRUE, k, r, 0)
        BY <3>2, <3>4, <3>5
      <4> PICK o : o = order
        OBVIOUS
      <4>2. /\ o[i].op = "put" /\ o[i].key = k /\ o[i].req = r
            /\ Latest(o, a + 1, TRUE, k, r, 0)
        BY <3>3, <4>1
      <4>3. \A j \in 1..(a + 1) :
               o[j].op = "put" /\ o[j].key = k /\ o[j].req = r => j = i
        BY <4>1
      <4>4. Latest(o, a, TRUE, k, r, 0)
        BY <4>1, <4>2, <4>3, LatestBefore
      <4>5. e = o[a + 1]
        BY <4>1
      <4>6. e.key = k => e.op \in {"acquire", "invalidateAll"}
        <5>1. PICK h \in 1..(a + 1) :
                /\ o[h].op = "put" /\ o[h].key = k /\ o[h].req = r
                /\ \A j \in (h + 1)..(a + 1) :
                      \/ o[j].key # k \/ o[j].op = "acquire"
                      \/ o[j].op = "invalidateAll" /\ TRUE
                      \/ j <= 0
          BY <4>2 DEF Latest
        <5>2. h = i
          BY <4>3, <5>1
        <5>3. a + 1 \in (i + 1)..(a + 1) /\ ~(a + 1 <= 0)
          BY <4>1
        <5> QED
          BY <4>5, <5>1, <5>2, <5>3
      <4> QED
        BY <4>1, <4>4, <4>6
    <3>7. cache'[l][k] = cache[l][k]
      BY <2>1, <2>2, <2>4, <3>6 DEF Heeds
    <3>8. Excused(k, i)
      BY <1>3, <2>1, <3>2, <3>6, <3>7
    <3>9. \A j \in 1..Len(order), s \in Request :
             j > Applied(leader) /\ order[j] = Entry("invalidate", s, k)
             => j > Applied(leader)'
      <4> SUFFICES ASSUME NEW j \in 1..Len(order), NEW s \in Request,
                          j > Applied(leader), order[j] = Entry("invalidate", s, k)
                   PROVE  j > Applied(leader)'
        OBVIOUS
      <4>1. order[j].op = "invalidate" /\ order[j].key = k
        BY EntryType
      <4>2. j # z
        BY <3>6, <4>1
      <4> QED
        BY <1>2, <2>1, <2>4, <3>2, <4>2
    <3> QED
      BY <1>1, <1>2, <2>1, <3>8, <3>9, ExcuseKeeps
  <2> QED
    BY <2>3, <2>4
<1> QED
  BY <1>6, <1>7, <1>8, <1>9, <1>10, QuietStep

-----------------------------------------------------------------------------
\* The inductive invariant

CacheInv ==
    /\ TypeOK
    /\ AppliedAppended
    /\ EntriesOnce
    /\ EntriesRequested
    /\ BlocksRequested
    /\ Progress
    /\ FollowersServeLog
    /\ FreshBlocks
    /\ ExcusedLosses

\* At the start there are no blocks, no requests and no entries.
LEMMA CacheInvInit ==
    ASSUME Init
    PROVE  CacheInv
<1>1. /\ leader \in Node \cup {Nil} /\ order = <<>> /\ Len(order) = 0
      /\ \A n \in Node : delivered[n] = <<>> /\ Applied(n) = 0
      /\ delivered \in [Node -> Seq(Command)] /\ order \in Seq(Command)
  <2>1. /\ leader \in Node \cup {Nil} /\ order = <<>>
        /\ delivered = [n \in Node |-> <<>>]
    BY DEF Init, Log!Init
  <2>2. <<>> \in Seq(Command) /\ Len(<<>>) = 0
    BY EmptySeq
  <2> QED
    BY <2>1, <2>2 DEF Applied
<1>2. /\ \A n \in Node, k \in Key : cache[n][k] = NoBlock /\ cache[n][k].valid = FALSE
      /\ cache \in [Node -> [Key -> Block \cup {NoBlock}]]
  BY BlockForms DEF Init
<1>3. /\ \A r \in Request : request[r] = NoRequest
      /\ request \in [Request -> Running \cup {NoRequest}]
  BY DEF Init
<1>4. recent \in Seq(Key)
  BY EmptySeq DEF Init
<1>5. TypeOK
  BY <1>1, <1>2, <1>3, <1>4 DEF TypeOK, Log!TypeOK
<1>6. AppliedAppended /\ EntriesOnce /\ EntriesRequested
  BY <1>1 DEF AppliedAppended, EntriesOnce, EntriesRequested
<1>7. BlocksRequested /\ Progress /\ FollowersServeLog
  BY <1>2, <1>3 DEF BlocksRequested, Progress, FollowersServeLog
<1>8. FreshBlocks
  BY <1>2 DEF FreshBlocks
<1>9. ExcusedLosses
  BY <1>1 DEF ExcusedLosses
<1> QED
  BY <1>5, <1>6, <1>7, <1>8, <1>9 DEF CacheInv

\* Every operation of the cache keeps the invariant.
LEMMA CacheInvStep ==
    ASSUME CacheInv, [Next]_vars
    PROVE  CacheInv'
<1> USE DEF CacheInv
<1>1. TypeOK'
  BY TypeStep
<1>2. Progress' /\ EntriesRequested' /\ EntriesOnce'
  BY RequestStep, EntriesStep
<1>3. AppliedAppended' /\ BlocksRequested' /\ FollowersServeLog'
  BY AppliedStep, BlocksStep, FollowersStep
<1>4. FreshBlocks' /\ ExcusedLosses'
  BY <1>1, FreshStep, LossStep
<1> QED
  BY <1>1, <1>2, <1>3, <1>4

\* CacheInv is inductive.
LEMMA CacheInvHolds == Spec => []CacheInv
<1>1. Init => CacheInv
  BY CacheInvInit
<1>2. CacheInv /\ [Next]_vars => CacheInv'
  BY CacheInvStep
<1> QED
  BY <1>1, <1>2, PTL DEF Spec

-----------------------------------------------------------------------------
\* The theorems

\* The log, the blocks, the access times and the requests keep their types.
THEOREM CacheTypeCorrect == Spec => []TypeOK
<1>1. CacheInv => TypeOK
  BY DEF CacheInv
<1> QED
  BY <1>1, CacheInvHolds, PTL

\* A follower that serves a key serves the value put last in what it has applied
\* of the log, after whatever expired and however often it was restarted.
THEOREM FollowersAlwaysServeLog == Spec => []FollowersServeLog
<1>1. CacheInv => FollowersServeLog
  BY DEF CacheInv
<1> QED
  BY <1>1, CacheInvHolds, PTL

\* The leader serves something older only because put stored it late.
THEOREM AlwaysStaleOnlyByLateStore == Spec => []StaleOnlyByLateStore
<1>1. ASSUME CacheInv, leader # Nil, NEW k \in Key, cache[leader][k].valid
      PROVE  \/ IsLatest(leader, k, cache[leader][k].value,
                         request[cache[leader][k].value].stored)
             \/ \A i \in 1..Len(delivered[leader]) :
                   order[i] # Entry("put", cache[leader][k].value, k)
  <2> USE DEF CacheInv
  <2>1. leader \in Node /\ cache[leader][k] \in Block \cup {NoBlock}
    BY <1>1 DEF TypeOK, Log!TypeOK
  <2>2. cache[leader][k].value \in PutRequest
    BY <1>1, <2>1, BlockForms
  <2> PICK l \in Node, r \in PutRequest : l = leader /\ r = cache[leader][k].value
    BY <2>1, <2>2
  <2>3. request[r] # NoRequest /\ r \in Request
    BY <1>1, <2>1 DEF BlocksRequested, Request
  <2>4. request[r].stored \in Nat
    BY <1>1, <2>3, RequestForms DEF TypeOK
  <2> PICK first \in Nat : first = request[r].stored
    BY <2>4
  <2>5. FreshOrLate(order, Applied(l), TRUE, k, r, first)
    BY <1>1 DEF FreshBlocks
  <2>6. Latest(order, Applied(l), TRUE, k, r, first) <=> IsLatest(l, k, r, first)
    BY LatestOf
  <2> QED
    BY <2>5, <2>6 DEF FreshOrLate, Applied
<1>2. CacheInv => StaleOnlyByLateStore
  BY <1>1, Zenon DEF StaleOnlyByLateStore
<1> QED
  BY <1>2, CacheInvHolds, PTL

\* The leader lacks a value of the log only because of an invalidation of its key:
\* one under way, one that ended, or one whose entry append_entry refused when the
\* block was marked already (_invalidate_block).
THEOREM AlwaysLostOnlyByInvalidation == Spec => []LostOnlyByInvalidation
<1>1. ASSUME CacheInv, leader # Nil, NEW k \in Key,
             NEW i \in 1..Len(delivered[leader]),
             order[i].op = "put", order[i].key = k,
             IsLatest(leader, k, order[i].req, 0), ~cache[leader][k].valid
      PROVE  Excused(k, i)
  <2> USE DEF CacheInv
  <2>1. leader \in Node /\ cache[leader][k] \in Block \cup {NoBlock}
    BY <1>1 DEF TypeOK, Log!TypeOK
  <2>2. cache[leader][k].valid = FALSE
    BY <1>1, <2>1, BlockForms
  <2>3. i \in 1..Len(order) /\ i \in 1..Applied(leader)
    BY <1>1, <2>1 DEF AppliedAppended, Applied, TypeOK, Log!TypeOK
  <2>4. order[i] \in Command
    BY <1>1, <2>3 DEF TypeOK, Log!TypeOK
  <2>5. order[i].req \in Request /\ order[i] = Entry("put", order[i].req, k)
    BY <1>1, <2>4, CommandForm
  <2> PICK l \in Node, r \in Request : l = leader /\ r = order[i].req
    BY <2>1, <2>5
  <2>6. Latest(order, Applied(l), l = leader, k, r, 0)
    BY <1>1, LatestOf
  <2>7. Latest(order, Applied(l), TRUE, k, r, 0)
    BY <2>6
  <2> QED
    BY <1>1, <2>2, <2>3, <2>5, <2>7 DEF ExcusedLosses
<1>2. CacheInv => LostOnlyByInvalidation
  BY <1>1, Zenon DEF LostOnlyByInvalidation, Excused, Applied
<1> QED
  BY <1>2, CacheInvHolds, PTL
==============================================================================
