--------------------------- MODULE NodeLocalProofs ---------------------------
(***************************************************************************)
(* Theorems about what nodes do without the log: about AuditLog, for every *)
(* set of processes that share the files and every number of records, and  *)
(* about HashRing, for every circle and every set of servers.              *)
(***************************************************************************)
EXTENDS MCNodeLocal, WaitGraphProofs, FiniteSetTheorems, SequenceTheorems,
        WellFoundedInduction, TLAPS

\* Sequence s can be had from t by leaving elements out.
Embeds(s, t) ==
    \E f \in [1..Len(s) -> 1..Len(t)] :
        \A i \in 1..Len(s) : /\ s[i] = t[f[i]]
                             /\ \A j \in 1..(i - 1) : f[j] < f[i]

\* The hash, what a process is about to make of it, and what it has ready to
\* write are all had from the log by leaving records out.
HashesEmbed ==
    /\ Embeds(hashFile, logFile)
    /\ \A p \in Process :
          /\ writer[p].phase = "hashed" =>
                \E s \in Seq(Record) : /\ writer[p].digest = Append(s, writer[p].record)
                                       /\ Embeds(s, logFile)
          /\ writer[p].phase \in {"logged", "truncated"} =>
                Embeds(writer[p].digest, logFile)

\* As long as nothing went wrong one process at most writes, and the hash is
\* that of the log until its record is logged.
WholeUntilDisturbed ==
    ~disturbed =>
        /\ \A p, q \in Process : Writing(p) /\ Writing(q) => p = q
        /\ (\A p \in Process : ~Writing(p)) => hashFile = logFile
        /\ \A p \in Process :
              /\ writer[p].phase = "hashed" =>
                    /\ hashFile = logFile
                    /\ writer[p].digest = Append(logFile, writer[p].record)
              /\ writer[p].phase \in {"logged", "truncated"} =>
                    writer[p].digest = logFile

\* A record that has yet to be logged is none of those in the log.
RecordsAreNew ==
    /\ \A i \in 1..Len(logFile) : logFile[i] <= made
    /\ \A p \in Process : writer[p] # Idle => writer[p].record <= made
    /\ \A p, q \in Process :
          /\ p # q /\ writer[p] # Idle /\ writer[q] # Idle
          => writer[p].record # writer[q].record
    /\ \A p \in Process :
          writer[p].phase \in {"begun", "hashed"} => ~Holds(logFile, writer[p].record)

-----------------------------------------------------------------------------
\* Facts about the operators of the model

\* The function that says which elements are kept.
LEMMA EmbedsBy ==
    ASSUME NEW s, NEW t, NEW m, NEW n, m = Len(s), n = Len(t),
           NEW f \in [1..m -> 1..n],
           \A i \in 1..m : s[i] = t[f[i]] /\ \A j \in 1..(i - 1) : f[j] < f[i]
    PROVE  Embeds(s, t)
BY Zenon DEF Embeds

\* An empty hash covers nothing.
LEMMA EmptyEmbeds ==
    ASSUME NEW t \in Seq(Record)
    PROVE  Embeds(<<>>, t)
<1> DEFINE f == [i \in 1..0 |-> 1]
<1>1. Len(<<>>) = 0
  OBVIOUS
<1>2. f \in [1..0 -> 1..Len(t)]
  OBVIOUS
<1>3. \A i \in 1..0 : FALSE
  OBVIOUS
<1> HIDE DEF f
<1> QED
  BY <1>1, <1>2, <1>3, EmbedsBy

\* A longer log has what a shorter had.
LEMMA EmbedsLonger ==
    ASSUME NEW s \in Seq(Record), NEW t \in Seq(Record), NEW r \in Record,
           Embeds(s, t)
    PROVE  Embeds(s, Append(t, r))
<1>1. PICK f \in [1..Len(s) -> 1..Len(t)] :
        \A i \in 1..Len(s) : s[i] = t[f[i]] /\ \A j \in 1..(i - 1) : f[j] < f[i]
  BY DEF Embeds
<1>2. /\ Len(Append(t, r)) = Len(t) + 1 /\ Len(t) \in Nat
      /\ \A i \in 1..Len(t) : Append(t, r)[i] = t[i]
  OBVIOUS
<1>3. f \in [1..Len(s) -> 1..Len(Append(t, r))]
  BY <1>2
<1>4. \A i \in 1..Len(s) : s[i] = Append(t, r)[f[i]] /\ \A j \in 1..(i - 1) : f[j] < f[i]
  <2>1. ASSUME NEW i \in 1..Len(s)
        PROVE  s[i] = Append(t, r)[f[i]]
    BY <1>1, <1>2
  <2> QED
    BY <1>1, <2>1
<1> QED
  BY <1>3, <1>4, Zenon DEF Embeds

\* A record appended to both is had too.
LEMMA EmbedsBoth ==
    ASSUME NEW s \in Seq(Record), NEW t \in Seq(Record), NEW r \in Record,
           Embeds(s, t)
    PROVE  Embeds(Append(s, r), Append(t, r))
<1> DEFINE m == Len(s)
           n == Len(t)
<1>1. PICK f \in [1..m -> 1..n] :
        \A i \in 1..m : s[i] = t[f[i]] /\ \A j \in 1..(i - 1) : f[j] < f[i]
  BY DEF Embeds
<1>2. /\ m \in Nat /\ n \in Nat
      /\ Len(Append(s, r)) = m + 1 /\ Len(Append(t, r)) = n + 1
      /\ Append(s, r)[m + 1] = r /\ Append(t, r)[n + 1] = r
      /\ \A i \in 1..m : Append(s, r)[i] = s[i]
      /\ \A i \in 1..n : Append(t, r)[i] = t[i]
  OBVIOUS
<1> DEFINE g == [i \in 1..(m + 1) |-> IF i = m + 1 THEN n + 1 ELSE f[i]]
<1> HIDE DEF m, n
<1>3. g \in [1..(m + 1) -> 1..(n + 1)]
  BY <1>2
<1>4. ASSUME NEW i \in 1..(m + 1)
      PROVE  /\ Append(s, r)[i] = Append(t, r)[g[i]]
             /\ \A j \in 1..(i - 1) : g[j] < g[i]
  <2>1. CASE i = m + 1
    <3>1. \A j \in 1..m : f[j] \in 1..n /\ g[j] = f[j]
      BY <1>2
    <3>2. g[i] = n + 1
      BY <2>1
    <3>3. Append(s, r)[i] = Append(t, r)[g[i]]
      BY <1>2, <2>1, <3>2
    <3>4. \A j \in 1..(i - 1) : j \in 1..m
      BY <1>2, <2>1
    <3>5. \A j \in 1..(i - 1) : g[j] < g[i]
      BY <1>2, <3>1, <3>2, <3>4
    <3> QED
      BY <3>3, <3>5
  <2>2. CASE i \in 1..m
    <3>1. g[i] = f[i] /\ f[i] \in 1..n
      BY <1>2, <2>2
    <3>2. \A j \in 1..(i - 1) : j \in 1..m /\ g[j] = f[j]
      BY <1>2, <2>2
    <3>3. Append(s, r)[i] = Append(t, r)[g[i]]
      BY <1>1, <1>2, <2>2, <3>1
    <3> QED
      BY <1>1, <2>2, <3>1, <3>2, <3>3
  <2>3. i = m + 1 \/ i \in 1..m
    BY <1>2
  <2> QED
    BY <2>1, <2>2, <2>3
<1> HIDE DEF g
<1>5. g \in [1..Len(Append(s, r)) -> 1..Len(Append(t, r))]
  BY <1>2, <1>3
<1>6. \A i \in 1..Len(Append(s, r)) :
         Append(s, r)[i] = Append(t, r)[g[i]] /\ \A j \in 1..(i - 1) : g[j] < g[i]
  <2>1. \A i \in 1..(m + 1) :
         Append(s, r)[i] = Append(t, r)[g[i]] /\ \A j \in 1..(i - 1) : g[j] < g[i]
    BY <1>4, Zenon
  <2> QED
    BY <1>2, <2>1, Zenon
<1> QED
  BY <1>5, <1>6, Zenon DEF Embeds

\* Membership in a sequence that has grown.
LEMMA ContainsAppend ==
    ASSUME NEW s \in Seq(Record), NEW r \in Record, NEW x
    PROVE  Holds(Append(s, r), x) <=> Holds(s, x) \/ x = r
<1>1. /\ Len(Append(s, r)) = Len(s) + 1 /\ Len(s) \in Nat
      /\ Append(s, r)[Len(s) + 1] = r
      /\ \A i \in 1..Len(s) : Append(s, r)[i] = s[i]
  OBVIOUS
<1>2. \A i \in 1..(Len(s) + 1) : i \in 1..Len(s) \/ i = Len(s) + 1
  BY <1>1
<1>3. Len(s) + 1 \in 1..(Len(s) + 1) /\ \A i \in 1..Len(s) : i \in 1..(Len(s) + 1)
  BY <1>1
<1> QED
  BY <1>1, <1>2, <1>3 DEF Holds

\* A process that records has a record and a digest, one that does not has none.
LEMMA WriterForms ==
    ASSUME AuditTypeOK, NEW p \in Process
    PROVE  /\ writer[p] # Idle <=> writer[p].phase # "idle"
           /\ writer[p].phase # "idle" =>
                 writer[p] \in Writer /\ writer[p].record \in Record
                    /\ writer[p].digest \in Seq(Record)
BY DEF AuditTypeOK, Writer, Idle

\* A new record is one of Record.
LEMMA NextRecord ==
    ASSUME AuditTypeOK, made < MaxRecords
    PROVE  made + 1 \in Record /\ made + 1 \in 0..MaxRecords
BY AuditAssumption DEF AuditTypeOK, Record

-----------------------------------------------------------------------------
\* No access to the files leaves a variable outside its type.
LEMMA AuditTypeStep ==
    ASSUME AuditTypeOK, [AuditNext]_auditVars
    PROVE  AuditTypeOK'
<1> USE DEF AuditTypeOK
<1>1. ASSUME NEW p \in Process, RecordAudit(p)
      PROVE  AuditTypeOK'
  <2>1. [phase |-> "begun", record |-> made + 1, digest |-> <<>>] \in Writer
    BY <1>1, NextRecord DEF RecordAudit, Writer
  <2> QED
    BY <1>1, <2>1, NextRecord DEF RecordAudit
<1>2. ASSUME NEW p \in Process, ReadHash(p)
      PROVE  AuditTypeOK'
  <2>1. writer[p] \in Writer /\ writer[p].record \in Record
    BY <1>2, WriterForms DEF ReadHash
  <2>2. Append(hashFile, writer[p].record) \in Seq(Record)
    BY <2>1
  <2> QED
    BY <1>2, <2>1, <2>2 DEF ReadHash, Writer
<1>3. ASSUME NEW p \in Process, AppendToLog(p)
      PROVE  AuditTypeOK'
  <2>1. writer[p] \in Writer /\ writer[p].record \in Record
    BY <1>3, WriterForms DEF AppendToLog
  <2>2. [writer[p] EXCEPT !.phase = "logged"] \in Writer
    BY <2>1 DEF Writer
  <2>3. Append(logFile, writer[p].record) \in Seq(Record)
    BY <2>1
  <2> QED
    BY <1>3, <2>2, <2>3 DEF AppendToLog
<1>4. ASSUME NEW p \in Process, TruncateHash(p) \/ WriteHash(p) \/ Crash(p)
      PROVE  AuditTypeOK'
  <2>1. writer[p] \in Writer /\ writer[p].digest \in Seq(Record)
    BY <1>4, WriterForms DEF TruncateHash, WriteHash, Crash
  <2>2. <<>> \in Seq(Record)
    OBVIOUS
  <2>3. CASE TruncateHash(p)
    <3>1. [writer[p] EXCEPT !.phase = "truncated"] \in Writer
      BY <2>1 DEF Writer
    <3> QED
      BY <2>2, <2>3, <3>1 DEF TruncateHash
  <2>4. CASE WriteHash(p)
    BY <2>1, <2>4 DEF WriteHash
  <2>5. CASE Crash(p)
    BY <2>5 DEF Crash
  <2> QED
    BY <1>4, <2>3, <2>4, <2>5
<1>5. CASE UNCHANGED auditVars
  BY <1>5 DEF auditVars
<1> QED
  BY <1>1, <1>2, <1>3, <1>4, <1>5 DEF AuditNext

\* Every variable of the audit log keeps its type.
THEOREM AuditTypeCorrect == AuditSpec => []AuditTypeOK
<1>1. ASSUME AuditInit
      PROVE  AuditTypeOK
  <2>1. <<>> \in Seq(Record) /\ 0 \in 0..MaxRecords
    BY AuditAssumption
  <2>2. writer \in [Process -> Writer \cup {Idle}] /\ disturbed \in BOOLEAN
    BY <1>1 DEF AuditInit
  <2> QED
    BY <1>1, <2>1, <2>2 DEF AuditInit, AuditTypeOK
<1> QED
  BY <1>1, AuditTypeStep, PTL DEF AuditSpec

-----------------------------------------------------------------------------
\* The processes other than p are where they were.
OthersStay(p) == \A q \in Process : q # p => writer'[q] = writer[q]

\* A step of one process leaves the calls of the others where they are.
LEMMA StepsOfOne ==
    ASSUME AuditTypeOK, NEW p \in Process,
           \/ RecordAudit(p) \/ ReadHash(p) \/ AppendToLog(p)
           \/ TruncateHash(p) \/ WriteHash(p) \/ Crash(p)
    PROVE  OthersStay(p)
BY DEF AuditTypeOK, OthersStay, RecordAudit, ReadHash, AppendToLog, TruncateHash,
       WriteHash, Crash

\* Every access to the files keeps the hashes drawn from the log.
LEMMA EmbedStep ==
    ASSUME AuditTypeOK, HashesEmbed, [AuditNext]_auditVars
    PROVE  HashesEmbed'
<1> USE DEF HashesEmbed
<1>1. ASSUME NEW p \in Process, RecordAudit(p) \/ Crash(p)
      PROVE  HashesEmbed'
  <2>1. OthersStay(p) /\ UNCHANGED <<logFile, hashFile>>
    BY <1>1, StepsOfOne DEF RecordAudit, Crash
  <2>2. writer'[p].phase \in {"begun", "idle"}
    BY <1>1 DEF RecordAudit, Crash, AuditTypeOK, Idle
  <2> QED
    BY <2>1, <2>2 DEF OthersStay
<1>2. ASSUME NEW p \in Process, ReadHash(p)
      PROVE  HashesEmbed'
  <2>1. OthersStay(p) /\ UNCHANGED <<logFile, hashFile>>
    BY <1>2, StepsOfOne DEF ReadHash
  <2>2. /\ writer'[p].phase = "hashed"
        /\ writer'[p].digest = Append(hashFile, writer'[p].record)
    BY <1>2, WriterForms DEF ReadHash, AuditTypeOK, Writer
  <2> QED
    BY <2>1, <2>2 DEF OthersStay, AuditTypeOK
<1>3. ASSUME NEW p \in Process, AppendToLog(p)
      PROVE  HashesEmbed'
  <2>1. OthersStay(p) /\ hashFile' = hashFile
    BY <1>3, StepsOfOne DEF AppendToLog
  <2>2. writer[p].record \in Record /\ logFile' = Append(logFile, writer[p].record)
    BY <1>3, WriterForms DEF AppendToLog
  <2>3. \A s \in Seq(Record) : Embeds(s, logFile) => Embeds(s, logFile')
    BY <2>2, EmbedsLonger DEF AuditTypeOK
  <2>4. writer'[p].phase = "logged" /\ writer'[p].digest = writer[p].digest
    BY <1>3, WriterForms DEF AppendToLog, AuditTypeOK, Writer
  <2>5. Embeds(writer[p].digest, logFile')
    BY <1>3, <2>2, EmbedsBoth DEF AppendToLog, AuditTypeOK
  <2>6. \A q \in Process : writer[q].phase # "idle" => writer[q].digest \in Seq(Record)
    BY WriterForms
  <2>7. Embeds(hashFile, logFile)'
    BY <2>1, <2>3 DEF AuditTypeOK
  <2>8. ASSUME NEW q \in Process
        PROVE  /\ writer'[q].phase = "hashed" =>
                     \E s \in Seq(Record) :
                        /\ writer'[q].digest = Append(s, writer'[q].record)
                        /\ Embeds(s, logFile')
               /\ writer'[q].phase \in {"logged", "truncated"} =>
                     Embeds(writer'[q].digest, logFile')
    <3>1. CASE q = p
      BY <2>4, <2>5, <3>1
    <3>2. CASE q # p
      BY <2>1, <2>3, <2>6, <3>2 DEF OthersStay
    <3> QED
      BY <3>1, <3>2
  <2> QED
    BY <2>7, <2>8
<1>4. ASSUME NEW p \in Process, TruncateHash(p)
      PROVE  HashesEmbed'
  <2>1. OthersStay(p) /\ logFile' = logFile /\ hashFile' = <<>>
    BY <1>4, StepsOfOne DEF TruncateHash
  <2>2. writer'[p].phase = "truncated" /\ writer'[p].digest = writer[p].digest
    BY <1>4, WriterForms DEF TruncateHash, AuditTypeOK, Writer
  <2>3. Embeds(hashFile', logFile')
    BY <2>1, EmptyEmbeds DEF AuditTypeOK
  <2> QED
    BY <1>4, <2>1, <2>2, <2>3 DEF OthersStay, TruncateHash
<1>5. ASSUME NEW p \in Process, WriteHash(p)
      PROVE  HashesEmbed'
  <2>1. OthersStay(p) /\ logFile' = logFile /\ hashFile' = writer[p].digest
    BY <1>5, StepsOfOne DEF WriteHash
  <2>2. writer'[p].phase = "idle"
    BY <1>5 DEF WriteHash, AuditTypeOK, Idle
  <2> QED
    BY <1>5, <2>1, <2>2 DEF OthersStay, WriteHash
<1>6. CASE UNCHANGED auditVars
  BY <1>6 DEF auditVars
<1> QED
  BY <1>1, <1>2, <1>3, <1>4, <1>5, <1>6 DEF AuditNext

\* The hash covers records of the log only, in its order, whatever happens.
THEOREM CoveredIsAlwaysLogged == AuditSpec => []CoveredIsLogged
<1>1. ASSUME AuditInit
      PROVE  HashesEmbed
  <2>1. <<>> \in Seq(Record)
    OBVIOUS
  <2>2. Embeds(hashFile, logFile)
    BY <1>1, <2>1, EmptyEmbeds DEF AuditInit
  <2>3. \A p \in Process : writer[p].phase = "idle"
    BY <1>1 DEF AuditInit, Idle
  <2> QED
    BY <2>2, <2>3 DEF HashesEmbed
<1>2. HashesEmbed => CoveredIsLogged
  BY DEF HashesEmbed, Embeds, CoveredIsLogged
<1> QED
  BY <1>1, <1>2, EmbedStep, AuditTypeCorrect, PTL DEF AuditSpec

-----------------------------------------------------------------------------
\* Every access to the files keeps an undisturbed chain whole.
LEMMA WholeStep ==
    ASSUME AuditTypeOK, WholeUntilDisturbed, [AuditNext]_auditVars
    PROVE  WholeUntilDisturbed'
<1> USE DEF WholeUntilDisturbed
<1>1. ASSUME NEW p \in Process, RecordAudit(p)
      PROVE  WholeUntilDisturbed'
  <2>1. OthersStay(p) /\ UNCHANGED <<logFile, hashFile, disturbed>>
    BY <1>1, StepsOfOne DEF RecordAudit
  <2>2. writer[p].phase = "idle" /\ writer'[p].phase = "begun"
    BY <1>1 DEF RecordAudit, AuditTypeOK, Idle
  <2>3. \A q \in Process : Writing(q)' <=> Writing(q)
    BY <2>1, <2>2 DEF Writing, OthersStay
  <2> QED
    BY <2>1, <2>2, <2>3 DEF OthersStay
<1>2. ASSUME NEW p \in Process, ReadHash(p), ~disturbed'
      PROVE  WholeUntilDisturbed'
  <2>1. OthersStay(p) /\ UNCHANGED <<logFile, hashFile>>
    BY <1>2, StepsOfOne DEF ReadHash
  <2>2. ~disturbed /\ \A q \in Process : ~Writing(q)
    BY <1>2 DEF ReadHash
  <2>3. /\ writer'[p].phase = "hashed"
        /\ writer'[p].digest = Append(hashFile, writer'[p].record)
    BY <1>2, WriterForms DEF ReadHash, AuditTypeOK, Writer
  <2>4. \A q \in Process : Writing(q)' <=> q = p
    BY <2>1, <2>2, <2>3 DEF Writing, OthersStay
  <2> QED
    BY <2>1, <2>2, <2>3, <2>4 DEF Writing
<1>3. ASSUME NEW p \in Process, AppendToLog(p) \/ TruncateHash(p), ~disturbed'
      PROVE  WholeUntilDisturbed'
  <2>1. OthersStay(p) /\ ~disturbed
    BY <1>3, StepsOfOne DEF AppendToLog, TruncateHash
  <2>2. /\ Writing(p) /\ writer'[p].phase \in {"logged", "truncated"}
        /\ writer'[p].digest = writer[p].digest
    BY <1>3, WriterForms DEF AppendToLog, TruncateHash, AuditTypeOK, Writer, Writing
  <2>3. writer'[p].digest = logFile'
    BY <1>3, <2>1, <2>2 DEF AppendToLog, TruncateHash
  <2>4. \A q \in Process : Writing(q)' <=> q = p
    BY <2>1, <2>2 DEF Writing, OthersStay
  <2> QED
    BY <2>2, <2>3, <2>4 DEF Writing
<1>4. ASSUME NEW p \in Process, WriteHash(p) \/ Crash(p), ~disturbed'
      PROVE  WholeUntilDisturbed'
  <2>1. OthersStay(p) /\ ~disturbed /\ logFile' = logFile
    <3>1. logFile' = logFile /\ OthersStay(p)
      BY <1>4, StepsOfOne DEF WriteHash, Crash
    <3>2. ~disturbed
      BY <1>4, Zenon DEF WriteHash, Crash
    <3> QED
      BY <3>1, <3>2
  <2>2. writer'[p].phase = "idle" /\ writer[p].phase # "idle"
    BY <1>4, WriterForms DEF WriteHash, Crash, AuditTypeOK, Idle
  <2>3. CASE Writing(p)
    <3>1. hashFile' = logFile
      <4>1. CASE WriteHash(p)
        BY <2>1, <4>1 DEF WriteHash
      <4>2. CASE Crash(p)
        <5>1. writer[p].phase \notin {"logged", "truncated"}
          BY <1>4, <4>2, Zenon DEF Crash
        <5> QED
          BY <2>1, <2>3, <4>2, <5>1 DEF Crash, Writing
      <4> QED
        BY <1>4, <4>1, <4>2
    <3>2. \A q \in Process : ~Writing(q)'
      BY <2>1, <2>2, <2>3 DEF Writing, OthersStay
    <3> QED
      BY <2>1, <3>1, <3>2 DEF Writing
  <2>4. CASE ~Writing(p)
    <3>1. hashFile' = hashFile
      BY <1>4, <2>4 DEF WriteHash, Crash, Writing
    <3>2. \A q \in Process : Writing(q)' <=> Writing(q)
      BY <2>1, <2>2, <2>4 DEF Writing, OthersStay
    <3> QED
      BY <2>1, <2>2, <3>1, <3>2 DEF OthersStay
  <2> QED
    BY <2>3, <2>4
<1>5. CASE UNCHANGED auditVars
  BY <1>5 DEF auditVars, Writing
<1>6. CASE disturbed'
  BY <1>6
<1> QED
  BY <1>1, <1>2, <1>3, <1>4, <1>5, <1>6 DEF AuditNext

\* If no process died in the wrong place and no two wrote at once, the chain
\* verifies between the calls.
THEOREM DamageAlwaysHasCause == AuditSpec => []DamageHasCause
<1>1. AuditInit => WholeUntilDisturbed
  BY DEF AuditInit, WholeUntilDisturbed, Idle, Writing
<1>2. WholeUntilDisturbed => DamageHasCause
  BY DEF WholeUntilDisturbed, DamageHasCause, VerifyAuditChain
<1> QED
  BY <1>1, <1>2, WholeStep, AuditTypeCorrect, PTL DEF AuditSpec

-----------------------------------------------------------------------------
\* The records under way are new to the log, whoever writes or dies.
LEMMA NewStep ==
    ASSUME AuditTypeOK, RecordsAreNew, [AuditNext]_auditVars
    PROVE  RecordsAreNew'
<1> USE DEF RecordsAreNew
<1>0. made \in Nat /\ \A i \in 1..Len(logFile) : logFile[i] \in Nat
  <2>1. made \in Nat
    BY AuditAssumption DEF AuditTypeOK
  <2>2. \A i \in 1..Len(logFile) : logFile[i] \in Record
    BY DEF AuditTypeOK
  <2>3. \A r \in Record : r \in Nat
    BY AuditAssumption DEF Record
  <2> QED
    BY <2>1, <2>2, <2>3
<1>1. ASSUME NEW p \in Process, RecordAudit(p)
      PROVE  RecordsAreNew'
  <2>1. OthersStay(p) /\ logFile' = logFile /\ made' = made + 1
    BY <1>1, StepsOfOne DEF RecordAudit
  <2>2. writer'[p].record = made + 1
    BY <1>1 DEF RecordAudit, AuditTypeOK
  <2>3. \A q \in Process : writer[q] # Idle =>
           writer[q].record \in Nat /\ writer[q].record # made + 1
    BY <1>0, WriterForms DEF Record
  <2>4. ~Holds(logFile, made + 1)
    BY <1>0 DEF Holds
  <2>5. \A i \in 1..Len(logFile') : logFile'[i] <= made'
    BY <1>0, <2>1
  <2>6. \A q \in Process : writer'[q] # Idle => writer'[q].record <= made'
    BY <1>0, <2>1, <2>2, <2>3 DEF OthersStay
  <2>7. \A q \in Process : writer'[q].phase \in {"begun", "hashed"} =>
           ~Holds(logFile', writer'[q].record)
    BY <2>1, <2>2, <2>4 DEF OthersStay
  <2>8. ASSUME NEW q \in Process, NEW s \in Process, q # s,
               writer'[q] # Idle, writer'[s] # Idle
        PROVE  writer'[q].record # writer'[s].record
    BY <2>1, <2>2, <2>3, <2>8 DEF OthersStay
  <2> QED
    BY <2>5, <2>6, <2>7, <2>8
<1>2. ASSUME NEW p \in Process, ReadHash(p) \/ TruncateHash(p)
      PROVE  RecordsAreNew'
  <2>1. OthersStay(p) /\ UNCHANGED <<made, logFile>>
    BY <1>2, StepsOfOne DEF ReadHash, TruncateHash
  <2>2. /\ writer[p] # Idle /\ writer'[p].record = writer[p].record
        /\ writer'[p].phase = "hashed" => writer[p].phase = "begun"
        /\ writer'[p].phase # "begun"
    BY <1>2, WriterForms DEF ReadHash, TruncateHash, AuditTypeOK, Writer
  <2>3. \A q \in Process : writer'[q] # Idle =>
           writer[q] # Idle /\ writer'[q].record = writer[q].record
    BY <2>1, <2>2 DEF OthersStay
  <2>4. \A q \in Process : writer'[q].phase \in {"begun", "hashed"} =>
           /\ writer[q].phase \in {"begun", "hashed"}
           /\ writer'[q].record = writer[q].record
    BY <2>1, <2>2 DEF OthersStay
  <2> QED
    BY <2>1, <2>3, <2>4
<1>3. ASSUME NEW p \in Process, AppendToLog(p)
      PROVE  RecordsAreNew'
  <2> DEFINE r == writer[p].record
  <2>1. OthersStay(p) /\ made' = made /\ logFile' = Append(logFile, r)
    BY <1>3, StepsOfOne DEF AppendToLog
  <2>2. /\ writer[p] # Idle /\ writer'[p].record = r /\ r \in Record
        /\ writer'[p].phase = "logged"
    BY <1>3, WriterForms DEF AppendToLog, AuditTypeOK, Writer
  <2> HIDE DEF r
  <2>3. \A q \in Process : writer'[q] # Idle =>
           writer[q] # Idle /\ writer'[q].record = writer[q].record
    BY <2>1, <2>2 DEF OthersStay, r
  <2>4. \A i \in 1..Len(logFile') : logFile'[i] <= made'
    <3>1. /\ Len(logFile') = Len(logFile) + 1 /\ Len(logFile) \in Nat
          /\ logFile'[Len(logFile) + 1] = r
          /\ \A i \in 1..Len(logFile) : logFile'[i] = logFile[i]
      BY <2>1, <2>2 DEF AuditTypeOK
    <3>2. r <= made
      BY <2>2 DEF r
    <3> QED
      BY <2>1, <3>1, <3>2
  <2>5. ASSUME NEW q \in Process, writer'[q].phase \in {"begun", "hashed"}
        PROVE  ~Holds(logFile', writer'[q].record)
    <3>1. q # p /\ writer'[q] = writer[q] /\ writer[q] # Idle
      BY <2>1, <2>2, <2>5 DEF OthersStay, Idle
    <3>2. writer[q].record # r /\ ~Holds(logFile, writer[q].record)
      BY <2>2, <2>5, <3>1 DEF r
    <3> QED
      BY <2>1, <2>2, <3>1, <3>2, ContainsAppend DEF AuditTypeOK
  <2>6. \A q, s \in Process : q # s /\ writer'[q] # Idle /\ writer'[s] # Idle =>
           writer'[q].record # writer'[s].record
    BY <2>3
  <2>7. \A q \in Process : writer'[q] # Idle => writer'[q].record <= made'
    BY <2>1, <2>3
  <2> QED
    BY <2>4, <2>5, <2>6, <2>7
<1>4. ASSUME NEW p \in Process, WriteHash(p) \/ Crash(p)
      PROVE  RecordsAreNew'
  <2>1. OthersStay(p) /\ UNCHANGED <<made, logFile>>
    BY <1>4, StepsOfOne DEF WriteHash, Crash
  <2>2. writer'[p] = Idle
    BY <1>4 DEF WriteHash, Crash, AuditTypeOK
  <2>3. \A q \in Process : writer'[q] # Idle \/ writer'[q].phase # "idle" =>
           q # p /\ writer'[q] = writer[q]
    BY <2>1, <2>2 DEF OthersStay, Idle
  <2> QED
    BY <2>1, <2>3
<1>5. CASE UNCHANGED auditVars
  BY <1>5 DEF auditVars
<1> QED
  BY <1>1, <1>2, <1>3, <1>4, <1>5 DEF AuditNext

\* No access to the files makes a hash cover what one left out.
LEMMA GapStep ==
    ASSUME AuditTypeOK, RecordsAreNew, [AuditNext]_auditVars,
           NEW r \in Record, LeftOut(r)
    PROVE  LeftOut(r)'
<1> USE DEF LeftOut
<1>1. ASSUME NEW p \in Process, OthersStay(p), Holds(logFile', r),
             ~Holds(hashFile', r),
             writer'[p] # Idle => ~Holds(writer'[p].digest, r)
      PROVE  LeftOut(r)'
  BY <1>1 DEF OthersStay, Holds
<1>2. ~Holds(<<>>, r)
  BY DEF Holds
<1>3. ASSUME NEW p \in Process, RecordAudit(p)
      PROVE  LeftOut(r)'
  <2>1. OthersStay(p) /\ UNCHANGED <<logFile, hashFile>>
    BY <1>3, StepsOfOne DEF RecordAudit
  <2>2. writer'[p].digest = <<>>
    BY <1>3 DEF RecordAudit, AuditTypeOK
  <2> QED
    BY <1>1, <1>2, <2>1, <2>2
<1>4. ASSUME NEW p \in Process, ReadHash(p)
      PROVE  LeftOut(r)'
  <2>1. OthersStay(p) /\ UNCHANGED <<logFile, hashFile>>
    BY <1>4, StepsOfOne DEF ReadHash
  <2>2. /\ writer'[p].digest = Append(hashFile, writer[p].record)
        /\ writer[p].record \in Record
    BY <1>4, WriterForms DEF ReadHash, AuditTypeOK, Writer
  <2>3. writer[p].record # r
    BY <1>4 DEF ReadHash, RecordsAreNew
  <2>4. ~Holds(writer'[p].digest, r)
    BY <2>2, <2>3, ContainsAppend DEF AuditTypeOK
  <2> QED
    BY <1>1, <2>1, <2>4
<1>5. ASSUME NEW p \in Process, AppendToLog(p)
      PROVE  LeftOut(r)'
  <2>1. OthersStay(p) /\ hashFile' = hashFile
    BY <1>5, StepsOfOne DEF AppendToLog
  <2>2. /\ writer[p] # Idle /\ writer'[p].digest = writer[p].digest
        /\ writer[p].record \in Record /\ logFile' = Append(logFile, writer[p].record)
    BY <1>5, WriterForms DEF AppendToLog, AuditTypeOK, Writer
  <2>3. Holds(logFile', r)
    BY <2>2, ContainsAppend DEF AuditTypeOK
  <2> QED
    BY <1>1, <2>1, <2>2, <2>3
<1>6. ASSUME NEW p \in Process, TruncateHash(p)
      PROVE  LeftOut(r)'
  <2>1. OthersStay(p) /\ logFile' = logFile /\ hashFile' = <<>>
    BY <1>6, StepsOfOne DEF TruncateHash
  <2>2. writer[p] # Idle /\ writer'[p].digest = writer[p].digest
    BY <1>6, WriterForms DEF TruncateHash, AuditTypeOK, Writer
  <2> QED
    BY <1>1, <1>2, <2>1, <2>2
<1>7. ASSUME NEW p \in Process, WriteHash(p) \/ Crash(p)
      PROVE  LeftOut(r)'
  <2>1. OthersStay(p) /\ logFile' = logFile /\ writer'[p] = Idle
    BY <1>7, StepsOfOne DEF WriteHash, Crash, AuditTypeOK
  <2>2. ~Holds(hashFile', r)
    BY <1>7, WriterForms DEF WriteHash, Crash
  <2> QED
    BY <1>1, <2>1, <2>2
<1>8. CASE UNCHANGED auditVars
  BY <1>8 DEF auditVars, Holds
<1> QED
  BY <1>3, <1>4, <1>5, <1>6, <1>7, <1>8 DEF AuditNext

\* What a hash left out no later hash covers.
THEOREM GapsAlwaysStay == AuditSpec => GapsStay
<1>1. AuditInit => RecordsAreNew
  BY DEF AuditInit, RecordsAreNew, Idle
<1>2. AuditTypeOK /\ RecordsAreNew /\ [AuditNext]_auditVars
        => [\A r \in Record : LeftOut(r) => LeftOut(r)']_auditVars
  BY GapStep
<1> QED
  BY <1>1, <1>2, NewStep, AuditTypeCorrect, PTL DEF AuditSpec, GapsStay

-----------------------------------------------------------------------------
(***************************************************************************)
(* The hash ring.  What makes a key stay is that a server's points are its *)
(* own, and that the ring is always the one its servers make: add_node and *)
(* remove_node leave no point behind and take none that is another's.      *)
(***************************************************************************)

RingInv ==
    /\ place \in [Server -> SUBSET Point]
    /\ \A s, t \in Server : s # t => place[s] \cap place[t] = {}
    /\ nodes \subseteq Server
    /\ ring = BuildRing(nodes)

\* The point get_node takes for a key, if D are the points in use.
Chosen(D, k) == Lowest(IF {x \in D : k <= x} # {} THEN {x \in D : k <= x} ELSE D)

\* bisect finds a point, and no other is lower.
LEMMA LowestIs ==
    ASSUME NEW S \in SUBSET Nat, S # {}
    PROVE  /\ Lowest(S) \in S
           /\ \A y \in S : Lowest(S) <= y
           /\ \A x \in S : (\A y \in S : x <= y) => x = Lowest(S)
<1>1. \E x \in S : \A y \in S : ~(<<y, x>> \in OpToRel(<, Nat))
  BY NatLessThanWellFounded, WFMin
<1>2. \A a, b \in Nat : a < b => <<a, b>> \in OpToRel(<, Nat)
  BY SMT DEF OpToRel
<1>3. \A a, b \in S : ~(a < b) => b <= a
  OBVIOUS
<1>4. \E x \in S : \A y \in S : x <= y
  BY <1>1, <1>2, <1>3, Zenon
<1>5. Lowest(S) \in S /\ \A y \in S : Lowest(S) <= y
  BY <1>4, Zenon DEF Lowest
<1>6. ASSUME NEW x \in S, \A y \in S : x <= y PROVE x = Lowest(S)
  <2>1. x <= Lowest(S) /\ Lowest(S) <= x /\ x \in Nat /\ Lowest(S) \in Nat
    BY <1>5, <1>6
  <2> QED BY <2>1
<1> QED BY <1>5, <1>6

\* Points that come or go change the choice for a key only if one of them is
\* chosen.
LEMMA ChosenStays ==
    ASSUME NEW E \in SUBSET Nat, NEW D \in SUBSET E, D # {}, NEW k \in Nat,
           Chosen(E, k) \in D
    PROVE  Chosen(D, k) = Chosen(E, k)
<1> DEFINE late(T) == {x \in T : k <= x}
           c == Chosen(E, k)
<1>1. CASE late(E) # {}
  <2>1. c = Lowest(late(E)) /\ late(E) \in SUBSET Nat
    BY <1>1 DEF Chosen
  <2>2. c \in late(E) /\ \A y \in late(E) : c <= y
    BY <1>1, <2>1, LowestIs
  <2>3. c \in late(D) /\ late(D) \subseteq late(E) /\ late(D) \in SUBSET Nat
    BY <2>2
  <2>4. Chosen(D, k) = Lowest(late(D))
    BY <2>3 DEF Chosen
  <2> HIDE DEF c, late
  <2> QED BY <2>2, <2>3, <2>4, LowestIs DEF c
<1>2. CASE late(E) = {}
  <2>1. c = Lowest(E) /\ late(D) = {}
    BY <1>2 DEF Chosen
  <2>2. Chosen(D, k) = Lowest(D)
    BY <2>1 DEF Chosen
  <2>3. \A y \in E : c <= y
    BY <2>1, LowestIs
  <2>4. D \in SUBSET Nat /\ c \in D /\ \A y \in D : c <= y
    BY <2>3
  <2> HIDE DEF c
  <2> QED BY <2>2, <2>4, LowestIs DEF c
<1> QED BY <1>1, <1>2

\* The ring of the servers S whose points are p, and the node of a key on a ring.
RingOf(p, S) == [x \in UNION {p[s] : s \in S} |-> CHOOSE s \in S : x \in p[s]]
NodeOn(r, k) == r[Chosen(DOMAIN r, k)]

\* Where the points of a ring are, and whose.
LEMMA RingPoints ==
    ASSUME NEW p \in [Server -> SUBSET Point],
           \A s, t \in Server : s # t => p[s] \cap p[t] = {},
           NEW S \in SUBSET Server
    PROVE  LET r == RingOf(p, S)
           IN  /\ DOMAIN r = UNION {p[s] : s \in S} /\ DOMAIN r \in SUBSET Point
               /\ \A s \in S : \A x \in p[s] : r[x] = s
               /\ r \in [DOMAIN r -> Server]
               /\ r # <<>> => DOMAIN r # {}
<1> DEFINE D == UNION {p[s] : s \in S}
           r == [x \in D |-> CHOOSE s \in S : x \in p[s]]
<1>1. D \in SUBSET Point
  OBVIOUS
<1>2. ASSUME NEW s \in S, NEW x \in p[s] PROVE x \in D /\ r[x] = s
  <2>1. x \in D
    OBVIOUS
  <2>2. \A t \in S : x \in p[t] => t = s
    OBVIOUS
  <2>3. (CHOOSE t \in S : x \in p[t]) = s
    BY <2>2
  <2> QED BY <2>1, <2>3
<1>3. \A x \in D : \E s \in S : x \in p[s] /\ s \in Server
  OBVIOUS
<1>4. \A x \in D : r[x] \in Server
  <2> HIDE DEF D, r
  <2> QED BY <1>2, <1>3
<1>5. r # <<>> => D # {}
  <2> SUFFICES ASSUME D = {} PROVE r = <<>>
    OBVIOUS
  <2> QED OBVIOUS
<1>6. RingOf(p, S) = r
  BY DEF RingOf
<1>7. DOMAIN r = D /\ r \in [D -> Server]
  BY <1>4
<1> HIDE DEF r, D
<1> QED BY <1>1, <1>2, <1>5, <1>6, <1>7 DEF D

\* The node of a key is the server that has the point chosen for it.
LEMMA NodeOfKey ==
    ASSUME NEW p \in [Server -> SUBSET Point],
           \A s, t \in Server : s # t => p[s] \cap p[t] = {},
           NEW S \in SUBSET Server, NEW k \in Point, RingOf(p, S) # <<>>
    PROVE  LET r == RingOf(p, S)
           IN  /\ DOMAIN r \in SUBSET Nat /\ Chosen(DOMAIN r, k) \in DOMAIN r
               /\ NodeOn(r, k) \in S /\ Chosen(DOMAIN r, k) \in p[NodeOn(r, k)]
<1> DEFINE r == RingOf(p, S)
           D == DOMAIN r
           late == {x \in D : k <= x}
<1>1. /\ D = UNION {p[s] : s \in S} /\ D \in SUBSET Point /\ D # {}
      /\ \A s \in S : \A x \in p[s] : r[x] = s
  BY ZenonT(60), RingPoints
<1> HIDE DEF r, D
<1>2. D \in SUBSET Nat /\ late \in SUBSET Nat /\ late \subseteq D
  BY <1>1 DEF Point
<1>3. Chosen(D, k) \in D
  <2>1. CASE late # {}
    BY <1>2, <2>1, LowestIs DEF Chosen
  <2>2. CASE late = {}
    BY <1>1, <1>2, <2>2, LowestIs DEF Chosen
  <2> QED BY <2>1, <2>2
<1>4. PICK s \in S : Chosen(D, k) \in p[s]
  BY <1>1, <1>3
<1>5. NodeOn(r, k) = s
  BY <1>1, <1>4 DEF NodeOn, D
<1> QED BY <1>2, <1>3, <1>4, <1>5 DEF r, D

\* Of two rings with the same points for the same servers, the smaller names
\* the node the larger does, if it has that node.
LEMMA SmallerRing ==
    ASSUME NEW p \in [Server -> SUBSET Point],
           \A s, t \in Server : s # t => p[s] \cap p[t] = {},
           NEW T \in SUBSET Server, NEW S \in SUBSET T, NEW k \in Point,
           RingOf(p, S) # <<>>, RingOf(p, T) # <<>>, NodeOn(RingOf(p, T), k) \in S
    PROVE  NodeOn(RingOf(p, S), k) = NodeOn(RingOf(p, T), k)
<1> DEFINE r == RingOf(p, S)
           q == RingOf(p, T)
           c == Chosen(DOMAIN q, k)
<1>1. S \in SUBSET Server
  OBVIOUS
<1>2. /\ DOMAIN r = UNION {p[s] : s \in S} /\ DOMAIN r # {}
      /\ \A s \in S : \A x \in p[s] : r[x] = s
  BY ZenonT(60), <1>1, RingPoints
<1>3. DOMAIN q = UNION {p[s] : s \in T}
  BY RingPoints
<1>4. /\ DOMAIN q \in SUBSET Nat /\ c \in DOMAIN q
      /\ NodeOn(q, k) \in T /\ c \in p[NodeOn(q, k)]
  BY NodeOfKey
<1> HIDE DEF r, q, c
<1>5. c \in DOMAIN r /\ DOMAIN r \in SUBSET DOMAIN q /\ r[c] = NodeOn(q, k)
  BY <1>2, <1>3, <1>4 DEF q
<1>6. Chosen(DOMAIN r, k) = c
  <2>1. k \in Nat
    BY DEF Point
  <2> QED BY ZenonT(60), <1>2, <1>4, <1>5, <2>1, ChosenStays DEF c
<1> QED BY <1>5, <1>6 DEF NodeOn, r, q

\* add_node and remove_node rebuild the ring from the servers there are.
LEMMA RingStep == ASSUME RingInv, [RingNext]_ringVars PROVE RingInv'
<1>1. ASSUME NEW s \in Server, AddNode(s) PROVE RingInv'
  BY <1>1 DEF AddNode, RingInv, BuildRing
<1>2. ASSUME NEW s \in Server, RemoveNode(s) PROVE RingInv'
  BY <1>2 DEF RemoveNode, RingInv, BuildRing
<1>3. CASE UNCHANGED ringVars
  BY <1>3 DEF ringVars, RingInv, BuildRing
<1> QED BY <1>1, <1>2, <1>3 DEF RingNext, RecoverFromFailure

\* The ring is always the one its servers make.
LEMMA RingAlways == RingSpec => []RingInv
<1>1. RingInit => RingInv
  BY DEF RingInit, RingInv
<1>2. RingInv /\ [RingNext]_ringVars => RingInv'
  BY RingStep
<1> QED BY <1>1, <1>2, PTL DEF RingSpec

\* The points in use are those of the servers there are, and each belongs to one of
\* them, however often servers are added and fail (add_node, remove_node,
\* recover_from_failure).
THEOREM RingTypeCorrect == RingSpec => []RingTypeOK
<1>1. RingInv => RingTypeOK
  <2> SUFFICES ASSUME RingInv
               PROVE  ring \in [UNION {place[s] : s \in nodes} -> nodes]
    BY DEF RingInv, RingTypeOK
  <2>1. ring = BuildRing(nodes)
    BY DEF RingInv
  <2>2. ASSUME NEW x \in UNION {place[s] : s \in nodes}
        PROVE  (CHOOSE s \in nodes : x \in place[s]) \in nodes
    <3>1. \E s \in nodes : x \in place[s]
      BY <2>2
    <3> QED BY <3>1
  <2> QED BY <2>1, <2>2 DEF BuildRing
<1> QED BY <1>1, RingAlways, PTL

\* On every circle and with any servers, a key changes its node only if that
\* node left or the new one came (add_node, remove_node): no server takes a key
\* from another because a third one came or failed.
THEOREM KeysAlwaysStay == RingSpec => KeysStay
<1>1. ASSUME RingInv, RingInv', [RingNext]_ringVars, NEW k \in Point,
             ring # <<>>, ring' # <<>>, GetNode(k)' # GetNode(k)
      PROVE  GetNode(k) \notin nodes' \/ GetNode(k)' \notin nodes
  <2>1. /\ ring = RingOf(place, nodes) /\ ring' = RingOf(place', nodes')
        /\ GetNode(k) = NodeOn(ring, k) /\ GetNode(k)' = NodeOn(ring', k)
    BY <1>1 DEF RingInv, BuildRing, RingOf, GetNode, NodeOn, From, Chosen
  <2>2. /\ place' = place
        /\ nodes \subseteq nodes' \/ nodes' \subseteq nodes
    BY <1>1 DEF RingNext, RecoverFromFailure, AddNode, RemoveNode, ringVars
  <2>3. /\ place \in [Server -> SUBSET Point]
        /\ \A s, t \in Server : s # t => place[s] \cap place[t] = {}
        /\ nodes \in SUBSET Server /\ nodes' \in SUBSET Server
    BY <1>1 DEF RingInv
  <2>4. ASSUME nodes \subseteq nodes', GetNode(k)' \in nodes PROVE FALSE
    BY <1>1, <2>1, <2>2, <2>3, <2>4, SmallerRing
  <2>5. ASSUME nodes' \subseteq nodes, GetNode(k) \in nodes' PROVE FALSE
    BY <1>1, <2>1, <2>2, <2>3, <2>5, SmallerRing
  <2> QED BY <2>2, <2>4, <2>5
<1>2. RingInv /\ RingInv' /\ [RingNext]_ringVars =>
        [\A k \in Point :
            ring # <<>> /\ ring' # <<>> /\ GetNode(k)' # GetNode(k)
              => GetNode(k) \notin nodes' \/ GetNode(k)' \notin nodes]_ringVars
  BY <1>1
<1> QED BY <1>2, RingAlways, PTL DEF RingSpec, KeysStay

-----------------------------------------------------------------------------
(***************************************************************************)
(* get_replicas.  The points of a ring in order; what a walk along them    *)
(* meets first; the loop over the walk as a function of how far it has     *)
(* come; and what holds of the servers found after each round.  Where an   *)
(* induction is due, a least counterexample is refuted instead.            *)
(***************************************************************************)

\* How many of the numbers in S are at most x: the place of x in their order.
Rank(S, x) == Cardinality({y \in S : y <= x})

\* Ranks count upwards.
LEMMA RankGrows ==
    ASSUME NEW S \in SUBSET Nat, IsFiniteSet(S), NEW x \in S
    PROVE  /\ Rank(S, x) \in 1..Cardinality(S)
           /\ \A z \in S : x < z => Rank(S, x) < Rank(S, z)
<1> DEFINE upTo(z) == {y \in S : y <= z}
<1>1. ASSUME NEW z \in S
      PROVE  /\ IsFiniteSet(upTo(z)) /\ Cardinality(upTo(z)) \in Nat
             /\ Cardinality(upTo(z)) <= Cardinality(S) /\ z \in upTo(z)
             /\ Rank(S, z) = Cardinality(upTo(z))
  <2>1. upTo(z) \in SUBSET S /\ z \in upTo(z)
    OBVIOUS
  <2>2. Rank(S, z) = Cardinality(upTo(z))
    BY DEF Rank
  <2> HIDE DEF upTo
  <2> QED BY <2>1, <2>2, FS_Subset, FS_CardinalityType
<1>2. ASSUME NEW z \in S, x < z PROVE Rank(S, x) < Rank(S, z)
  <2>1. upTo(x) \in SUBSET upTo(z) /\ z \in upTo(z) /\ z \notin upTo(x)
    <3>1. x \in Nat /\ z \in Nat /\ S \in SUBSET Nat
      OBVIOUS
    <3>2. \A y \in S : y <= x => y <= z
      BY <1>2, <3>1
    <3>3. ~(z <= x) /\ z <= z
      BY <1>2, <3>1
    <3> QED BY <3>2, <3>3, Zenon
  <2> HIDE DEF upTo
  <2>2. upTo(x) # upTo(z)
    BY <2>1
  <2>3. IsFiniteSet(upTo(z))
    BY <1>1
  <2>4. Cardinality(upTo(x)) <= Cardinality(upTo(z)) /\ Cardinality(upTo(x)) # Cardinality(upTo(z))
    BY <2>1, <2>2, <2>3, FS_Subset, Zenon
  <2> QED BY <1>1, <1>2, <2>4
<1>3. Rank(S, x) # 0
  <2> HIDE DEF upTo
  <2> QED BY <1>1, FS_EmptySet
<1>4. Cardinality(S) \in Nat
  BY FS_CardinalityType
<1> HIDE DEF upTo
<1> QED BY <1>1, <1>2, <1>3, <1>4

\* sorted: every number once, in ascending order.
LEMMA SortedIs ==
    ASSUME NEW S \in SUBSET Nat, IsFiniteSet(S)
    PROVE  /\ Sorted(S) \in Seq(S) /\ Len(Sorted(S)) = Cardinality(S)
           /\ \A i, j \in 1..Cardinality(S) : i < j => Sorted(S)[i] < Sorted(S)[j]
           /\ \A x \in S : \E i \in 1..Cardinality(S) : Sorted(S)[i] = x
<1> DEFINE n == Cardinality(S)
           f == [x \in S |-> Rank(S, x)]
<1>1. n \in Nat /\ IsFiniteSet(1..n) /\ Cardinality(1..n) = n
  BY FS_CardinalityType, FS_Interval
<1>2. \A x \in S : Rank(S, x) \in 1..n
  BY RankGrows
<1>3. \A x, z \in S : Rank(S, x) = Rank(S, z) => x = z
  <2> SUFFICES ASSUME NEW x \in S, NEW z \in S, Rank(S, x) = Rank(S, z) PROVE x = z
    OBVIOUS
  <2>1. ~(x < z) /\ ~(z < x)
    BY <1>1, <1>2, RankGrows
  <2> QED BY <2>1
<1>4. f \in Surjection(S, 1..n)
  <2>1. f \in Injection(S, 1..n)
    BY <1>2, <1>3 DEF Injection, IsInjective
  <2> HIDE DEF f, n
  <2> QED BY <1>1, <2>1, FS_Injection DEF n
<1>5. \A i \in 1..n : \E x \in S : Rank(S, x) = i
  BY <1>4 DEF Surjection
<1>6. ASSUME NEW i \in 1..n
      PROVE  Sorted(S)[i] \in S /\ Rank(S, Sorted(S)[i]) = i
  <2>1. Sorted(S)[i] = CHOOSE x \in S : Rank(S, x) = i
    BY DEF Sorted, Rank
  <2> QED BY <1>5, <2>1
<1>7. Sorted(S) \in [1..n -> S]
  <2>1. Sorted(S) = [i \in 1..n |-> CHOOSE x \in S : Rank(S, x) = i]
    BY DEF Sorted, Rank
  <2>2. \A i \in 1..n : (CHOOSE x \in S : Rank(S, x) = i) \in S
    BY <1>5
  <2> QED BY <2>1, <2>2
<1>8. Sorted(S) \in Seq(S) /\ Len(Sorted(S)) = n
  <2> HIDE DEF n
  <2> QED BY <1>1, <1>7
<1>9. ASSUME NEW i \in 1..n, NEW j \in 1..n, i < j PROVE Sorted(S)[i] < Sorted(S)[j]
  <2>1. Sorted(S)[j] < Sorted(S)[i] => Rank(S, Sorted(S)[j]) < Rank(S, Sorted(S)[i])
    BY <1>6, RankGrows
  <2>2. Sorted(S)[i] # Sorted(S)[j] /\ ~(Sorted(S)[j] < Sorted(S)[i])
    BY <1>1, <1>6, <1>9, <2>1
  <2>3. Sorted(S)[i] \in Nat /\ Sorted(S)[j] \in Nat
    BY <1>6
  <2> QED BY <2>2, <2>3
<1>10. ASSUME NEW x \in S PROVE \E i \in 1..n : Sorted(S)[i] = x
  BY <1>2, <1>3, <1>6
<1> QED BY <1>8, <1>9, <1>10
\* How far clockwise from k a point is.
Ahead(k, x) == (x + Points - k) % Points

\* Points from k on come first, those before it once the circle is round.
LEMMA AheadIs ==
    ASSUME NEW k \in Point, NEW x \in Point
    PROVE  /\ Ahead(k, x) = IF k <= x THEN x - k ELSE x + Points - k
           /\ Ahead(k, x) \in Nat
<1>1. /\ Points \in Nat \ {0} /\ k \in 0..(Points - 1) /\ x \in 0..(Points - 1)
  BY RingAssumption DEF Point
<1>2. \A n \in Nat \ {0} : \A a \in 0..(n - 1) : a % n = a /\ (a + n) % n = a
  OBVIOUS
<1>3. CASE k <= x
  <2>1. x - k \in 0..(Points - 1) /\ x + Points - k = (x - k) + Points
    BY <1>1, <1>3
  <2>2. (x + Points - k) % Points = x - k
    BY <1>1, <1>2, <2>1
  <2> QED BY <1>3, <2>1, <2>2 DEF Ahead
<1>4. CASE ~(k <= x)
  <2>1. x + Points - k \in 0..(Points - 1)
    BY <1>1, <1>4
  <2>2. (x + Points - k) % Points = x + Points - k
    BY <1>1, <1>2, <2>1
  <2> QED BY <1>4, <2>1, <2>2 DEF Ahead
<1> QED BY <1>3, <1>4

\* Nearer, for two points on a circle.
LEMMA NearerIs ==
    ASSUME NEW k \in Point, NEW x \in Point, NEW y \in Point
    PROVE  /\ Ahead(k, x) = Ahead(k, y) => x = y
           /\ Ahead(k, x) < Ahead(k, y) => \/ k <= x /\ ~(k <= y)
                                           \/ x < y /\ (k <= x <=> k <= y)
           /\ k <= x /\ (~(k <= y) \/ x <= y) => Ahead(k, x) <= Ahead(k, y)
           /\ ~(k <= x) /\ ~(k <= y) /\ x <= y => Ahead(k, x) <= Ahead(k, y)
<1>1. /\ Points \in Nat \ {0} /\ k \in 0..(Points - 1) /\ x \in 0..(Points - 1)
      /\ y \in 0..(Points - 1)
  BY RingAssumption DEF Point
<1>2. Ahead(k, x) = IF k <= x THEN x - k ELSE x + Points - k
  BY AheadIs
<1>3. Ahead(k, y) = IF k <= y THEN y - k ELSE y + Points - k
  BY AheadIs
<1> QED BY <1>1, <1>2, <1>3

\* One sequence after the other.
LEMMA ConcatIs ==
    ASSUME NEW T, NEW s \in Seq(T), NEW t \in Seq(T), NEW m, NEW n, m = Len(s), n = Len(t)
    PROVE  /\ s \o t \in Seq(T) /\ Len(s \o t) = m + n
           /\ \A i \in 1..m : (s \o t)[i] = s[i]
           /\ \A i \in 1..n : (s \o t)[m + i] = t[i]
OBVIOUS

\* The walk of get_replicas meets every point, and any point only after those
\* that are nearer to the key.
LEMMA WalkIs ==
    ASSUME DOMAIN ring \in SUBSET Point, NEW k \in Point
    PROVE  /\ Walk(k) \in Seq(DOMAIN ring)
           /\ \A x \in DOMAIN ring : \E i \in 1..Len(Walk(k)) : Walk(k)[i] = x
           /\ \A j \in 1..Len(Walk(k)), x \in DOMAIN ring :
                 Ahead(k, x) < Ahead(k, Walk(k)[j])
                     => \E i \in 1..(j - 1) : Walk(k)[i] = x
<1> DEFINE D == DOMAIN ring
           w == Walk(k)
           a == Sorted(From(k))
           b == Sorted(D)
           m == Len(a)
           n == Len(b)
<1>1. /\ D \in SUBSET Nat /\ IsFiniteSet(D) /\ D \in SUBSET Point
      /\ From(k) \in SUBSET Nat /\ From(k) \in SUBSET D /\ IsFiniteSet(From(k))
  <2>1. Points - 1 \in Int /\ 0 \in Int /\ Point \in SUBSET Nat
    BY RingAssumption DEF Point
  <2>2. IsFiniteSet(Point)
    BY <2>1, FS_Interval DEF Point
  <2>3. From(k) \in SUBSET D
    BY DEF From
  <2> QED BY <2>1, <2>2, <2>3, FS_Subset
<1>2. /\ a \in Seq(From(k)) /\ m \in Nat /\ m = Len(a) /\ \A i \in 1..m : a[i] \in From(k)
      /\ \A i, j \in 1..m : i < j => a[i] < a[j]
      /\ \A x \in From(k) : \E i \in 1..m : a[i] = x
  BY <1>1, SortedIs, FS_CardinalityType
<1>3. /\ b \in Seq(D) /\ n \in Nat /\ n = Len(b) /\ \A i \in 1..n : b[i] \in D
      /\ \A i, j \in 1..n : i < j => b[i] < b[j]
      /\ \A x \in D : \E i \in 1..n : b[i] = x
  <2> HIDE DEF D
  <2>1. Cardinality(D) \in Nat
    BY <1>1, FS_CardinalityType
  <2> QED BY <1>1, <2>1, SortedIs
<1>4. a \in Seq(D)
  BY <1>1, <1>2
<1>5. w = a \o a \o b
  BY DEF Walk
<1>6. \A x \in D : x \in From(k) <=> k <= x
  BY DEF From
<1> HIDE DEF D, w, a, b, m, n
<1>7. /\ w \in Seq(D) /\ Len(w) = m + m + n
      /\ \A i \in 1..m : w[i] = a[i] /\ w[m + i] = a[i]
      /\ \A i \in 1..n : w[m + m + i] = b[i]
  <2>1. a \o a \in Seq(D) /\ Len(a \o a) = m + m
        /\ \A i \in 1..m : (a \o a)[i] = a[i] /\ (a \o a)[m + i] = a[i]
    BY <1>2, <1>4, ConcatIs
  <2> DEFINE c == a \o a
  <2>2. c \in Seq(D) /\ Len(c) = m + m
    BY <2>1
  <2>3. \A i \in 1..m : c[i] = a[i] /\ c[m + i] = a[i]
    BY <2>1
  <2>4. w = c \o b
    BY <1>5
  <2> HIDE DEF c
  <2>5. /\ w \in Seq(D) /\ Len(w) = m + m + n
        /\ \A i \in 1..(m + m) : w[i] = c[i]
        /\ \A i \in 1..n : w[m + m + i] = b[i]
    <3>1. /\ c \o b \in Seq(D) /\ Len(c \o b) = Len(c) + n
          /\ \A i \in 1..Len(c) : (c \o b)[i] = c[i]
          /\ \A i \in 1..n : (c \o b)[Len(c) + i] = b[i]
      BY <1>3, <2>2, ConcatIs
    <3> QED BY <2>2, <2>4, <3>1
  <2>6. \A i \in 1..m : i \in 1..(m + m) /\ m + i \in 1..(m + m)
    BY <1>2
  <2> QED BY <2>3, <2>5, <2>6
<1>8. ASSUME NEW x \in D PROVE \E i \in 1..Len(w) : w[i] = x
  <2>1. PICK i \in 1..n : b[i] = x
    BY <1>3
  <2>2. m + m + i \in 1..Len(w)
    BY <1>2, <1>3, <1>7
  <2> QED BY <1>7, <2>1, <2>2
<1>9. ASSUME NEW j \in 1..Len(w), NEW x \in D, Ahead(k, x) < Ahead(k, w[j])
      PROVE  \E i \in 1..(j - 1) : w[i] = x
  <2>1. w[j] \in D /\ w[j] \in Point /\ x \in Point /\ x \in Nat
    <3>1. w[j] \in D
      BY <1>7
    <3> QED BY <1>1, <3>1
  <2>2. \/ k <= x /\ ~(k <= w[j])
        \/ x < w[j] /\ (k <= x <=> k <= w[j])
    BY <1>9, <2>1, NearerIs
  <2>3. ASSUME NEW p \in 1..m, a[p] = w[j] PROVE \E i \in 1..(p - 1) : w[i] = x
    <3>1. a[p] \in From(k)
      BY <1>2, <2>3
    <3>2. x \in From(k) /\ x < a[p]
      BY <1>6, <2>1, <2>2, <2>3, <3>1
    <3>3. PICK i \in 1..m : a[i] = x
      BY <1>2, <3>2
    <3>4. a[p] \in Nat /\ (p < i => a[p] < a[i])
      BY <1>1, <1>2, <3>1
    <3>5. ~(p < i) /\ p # i
      BY <2>1, <3>2, <3>3, <3>4
    <3>6. i \in 1..(p - 1)
      BY <1>2, <3>5
    <3> QED BY <1>7, <3>3, <3>6
  <2>4. CASE j <= m
    <3>1. j \in 1..m /\ a[j] = w[j]
      BY <1>2, <1>7, <2>4
    <3> QED BY <2>3, <3>1
  <2>5. CASE m < j /\ j <= m + m
    <3>1. j - m \in 1..m /\ m + (j - m) = j
      BY <1>2, <1>7, <2>5
    <3>2. a[j - m] = w[j]
      BY <1>7, <3>1
    <3>3. PICK i \in 1..(j - m - 1) : w[i] = x
      BY <2>3, <3>1, <3>2
    <3>4. i \in 1..(j - 1)
      BY <1>2, <3>1
    <3> QED BY <3>3, <3>4
  <2>6. CASE m + m < j
    <3>1. j - m - m \in 1..n /\ m + m + (j - m - m) = j
      BY <1>2, <1>3, <1>7, <2>6
    <3> DEFINE p == j - m - m
    <3>2. p \in 1..n /\ b[p] = w[j] /\ m + m + p = j
      BY <1>7, <3>1
    <3> HIDE DEF p
    <3>3. CASE k <= x
      <4>1. PICK i \in 1..m : a[i] = x
        BY <1>2, <1>6, <3>3
      <4>2. i \in 1..(j - 1) /\ w[i] = x
        BY <1>2, <1>7, <2>6, <4>1
      <4> QED BY <4>2
    <3>4. CASE ~(k <= x)
      <4>1. x < b[p]
        BY <2>2, <3>2, <3>4
      <4>2. PICK i \in 1..n : b[i] = x
        BY <1>3
      <4>3. b[p] \in Nat /\ (p < i => b[p] < b[i])
        BY <1>1, <1>3, <3>2
      <4>4. ~(p < i) /\ p # i
        BY <2>1, <4>1, <4>2, <4>3
      <4>5. m + m + i \in 1..(j - 1)
        BY <1>2, <1>3, <3>2, <4>4, <4>2
      <4> QED BY <1>7, <4>2, <4>5
    <3> QED BY <3>3, <3>4
  <2>7. j \in Int
    BY <1>2, <1>3, <1>7
  <2> QED BY <1>2, <2>4, <2>5, <2>6, <2>7
<1> QED BY <1>7, <1>8, <1>9 DEF D, w

\* One round of the loop of get_replicas: the server at point x is taken unless
\* there are enough or it is among them.
After(count, found, x) ==
    IF Len(found) >= count \/ ring[x] \in ToSet(found) THEN found
    ELSE Append(found, ring[x])

\* The fold as a function of the set of places visited, which it leaves in
\* descending order.
FoldOver(g, w, count, P) ==
    g = [s \in SUBSET P |->
            IF s = {} THEN <<>>
            ELSE After(count, g[s \ {Max(s)}], w[Max(s)])]

\* Of finitely many places there is a last one.
LEMMA LastPlace ==
    ASSUME NEW n \in Nat, NEW s \in SUBSET (1..n), s # {}
    PROVE  Max(s) \in s /\ \A y \in s : y <= Max(s)
<1> DEFINE T == {n - y : y \in s}
           x == n - Lowest(T)
<1>1. T \in SUBSET Nat /\ T # {}
  <2>1. \A y \in s : y \in 1..n
    OBVIOUS
  <2>2. \A y \in s : n - y \in Nat
    BY <2>1
  <2> QED BY <2>2
<1>2. Lowest(T) \in T /\ \A t \in T : Lowest(T) <= t
  <2> HIDE DEF T
  <2> QED BY <1>1, LowestIs
<1>3. \A y \in s : n - y \in T
  OBVIOUS
<1>4. PICK z \in s : Lowest(T) = n - z
  BY <1>2
<1>5. ASSUME NEW y \in s PROVE z >= y /\ y <= z
  <2>1. Lowest(T) <= n - y
    BY <1>2, <1>3
  <2>2. y \in Int /\ z \in Int /\ n \in Int /\ n - z <= n - y
    BY <1>4, <2>1
  <2> QED BY <2>2
<1>6. \E m \in s : \A y \in s : m >= y
  BY <1>5
<1>7. Max(s) \in s /\ \A y \in s : Max(s) >= y
  <2> DEFINE P(m) == m \in s /\ \A y \in s : m >= y
  <2>1. Max(s) = CHOOSE m \in s : \A y \in s : m >= y
    BY DEF Max
  <2> QED BY <1>6, <2>1
<1> QED BY <1>7

\* The fold is defined whatever the number of places.
LEMMA FoldExists ==
    ASSUME NEW w, NEW count, NEW n \in Nat
    PROVE  \E g : FoldOver(g, w, count, 1..n)
<1> DEFINE bad == {m \in Nat : ~\E g : FoldOver(g, w, count, 1..m)}
<1>1. \E g : FoldOver(g, w, count, 1..0)
  <2> DEFINE g == [s \in SUBSET (1..0) |-> <<>>]
  <2>1. \A s \in SUBSET (1..0) : s = {}
    OBVIOUS
  <2>2. FoldOver(g, w, count, 1..0)
    BY <2>1 DEF FoldOver
  <2> QED BY <2>2
<1>2. ASSUME NEW m \in Nat, NEW g, FoldOver(g, w, count, 1..m)
      PROVE  \E h : FoldOver(h, w, count, 1..(m + 1))
  <2> DEFINE N == 1..(m + 1)
             h == [s \in SUBSET N |->
                      IF s = {} THEN <<>>
                      ELSE After(count, g[s \ {Max(s)}], w[Max(s)])]
  <2>1. \A s \in SUBSET (1..m) : g[s] = h[s]
    <3>1. \A s \in SUBSET (1..m) : g[s] = IF s = {} THEN <<>>
                                   ELSE After(count, g[s \ {Max(s)}], w[Max(s)])
      BY <1>2 DEF FoldOver
    <3>2. \A s \in SUBSET (1..m) : s \in SUBSET N
      OBVIOUS
    <3> QED BY <3>1, <3>2
  <2>2. ASSUME NEW s \in SUBSET N, s # {} PROVE s \ {Max(s)} \in SUBSET (1..m)
    <3>1. Max(s) \in s /\ \A y \in s : y <= Max(s)
      BY <2>2, LastPlace, m + 1 \in Nat
    <3>2. ASSUME NEW y \in s, y # Max(s) PROVE y \in 1..m
      <4>1. y \in 1..(m + 1) /\ Max(s) \in 1..(m + 1) /\ y <= Max(s)
        BY <3>1
      <4> QED BY <3>2, <4>1
    <3> QED BY <3>2
  <2>3. \A s \in SUBSET N : h[s] = IF s = {} THEN <<>>
                                   ELSE After(count, h[s \ {Max(s)}], w[Max(s)])
    <3> SUFFICES ASSUME NEW s \in SUBSET N
                 PROVE  h[s] = IF s = {} THEN <<>>
                               ELSE After(count, h[s \ {Max(s)}], w[Max(s)])
      OBVIOUS
    <3>1. h[s] = IF s = {} THEN <<>> ELSE After(count, g[s \ {Max(s)}], w[Max(s)])
      OBVIOUS
    <3>2. s # {} => g[s \ {Max(s)}] = h[s \ {Max(s)}]
      BY <2>1, <2>2
    <3> HIDE DEF h
    <3> QED BY <3>1, <3>2
  <2>4. h = [s \in SUBSET N |-> h[s]]
    OBVIOUS
  <2> HIDE DEF h
  <2>5. h = [s \in SUBSET N |-> IF s = {} THEN <<>>
                                ELSE After(count, h[s \ {Max(s)}], w[Max(s)])]
    BY <2>3, <2>4
  <2>6. FoldOver(h, w, count, N)
    BY <2>5 DEF FoldOver
  <2> QED BY <2>6
<1>3. ASSUME bad # {} PROVE FALSE
  <2>1. bad \in SUBSET Nat
    OBVIOUS
  <2>2. Lowest(bad) \in bad /\ \A m \in bad : Lowest(bad) <= m
    <3> HIDE DEF bad
    <3> QED BY <1>3, <2>1, LowestIs
  <2>3. Lowest(bad) # 0
    BY <1>1, <2>2
  <2>4. Lowest(bad) - 1 \in Nat /\ Lowest(bad) - 1 + 1 = Lowest(bad)
        /\ ~(Lowest(bad) <= Lowest(bad) - 1)
    <3>1. Lowest(bad) \in Nat
      BY <2>1, <2>2
    <3> QED BY <2>3, <3>1
  <2>5. Lowest(bad) - 1 \notin bad
    BY <2>2, <2>4
  <2>6. PICK g : FoldOver(g, w, count, 1..(Lowest(bad) - 1))
    BY <2>4, <2>5
  <2>7. \E h : FoldOver(h, w, count, 1..Lowest(bad))
    BY <1>2, <2>4, <2>6
  <2> QED BY <2>2, <2>7
<1> QED BY <1>3

\* f says what the loop of get_replicas has found after each point of a walk.
IsLoop(f, w, count, n) ==
    f[0] = <<>> /\ \A i \in 1..n : f[i] = After(count, f[i - 1], w[i])

\* get_replicas is such a loop.
LEMMA ReplicasLoop ==
    ASSUME NEW k, NEW count, NEW n \in Nat, DOMAIN Walk(k) = 1..n
    PROVE  \E f : IsLoop(f, Walk(k), count, n) /\ f[n] = GetReplicas(k, count)
<1> DEFINE w == Walk(k)
           g == CHOOSE g : FoldOver(g, w, count, 1..n)
           f == [i \in 0..n |-> g[1..i]]
<1>1. FoldOver(g, w, count, 1..n)
  <2> HIDE DEF w
  <2> QED BY FoldExists
<1>2. GetReplicas(k, count) = g[1..n]
  BY Zenon DEF GetReplicas, FoldLeft, MapThenFoldSet, FoldOver, After
<1> HIDE DEF g, w
<1>3. \A s \in SUBSET (1..n) : g[s] = IF s = {} THEN <<>>
                               ELSE After(count, g[s \ {Max(s)}], w[Max(s)])
  BY <1>1 DEF FoldOver
<1>4. f[0] = <<>> /\ f[n] = g[1..n]
  <2>1. 1..0 = {} /\ 1..0 \in SUBSET (1..n) /\ 0 \in 0..n /\ n \in 0..n
    OBVIOUS
  <2> QED BY <1>3, <2>1
<1>5. ASSUME NEW i \in 1..n PROVE f[i] = After(count, f[i - 1], w[i])
  <2>1. 1..i \in SUBSET (1..n) /\ 1..i # {} /\ i \in 0..n /\ i - 1 \in 0..n /\ i \in Nat
    <3>1. i \in Nat /\ 1 <= i /\ i <= n /\ i \in 1..i
      OBVIOUS
    <3>2. \A y \in 1..i : y \in 1..n
      BY <3>1
    <3>3. i \in 0..n /\ i - 1 \in 0..n
      BY <3>1
    <3>4. 1..i # {}
      BY <3>1
    <3> QED BY <3>1, <3>2, <3>3, <3>4
  <2>2. Max(1..i) = i
    <3>1. Max(1..i) \in 1..i /\ \A y \in 1..i : y <= Max(1..i)
      BY <2>1, LastPlace
    <3> QED BY <2>1, <3>1
  <2>3. (1..i) \ {i} = 1..(i - 1)
    <3>1. \A y : y \in (1..i) \ {i} <=> y \in 1..(i - 1)
      BY <2>1
    <3> QED BY <3>1
  <2>4. g[1..i] = After(count, g[1..(i - 1)], w[i])
    BY <1>3, <2>1, <2>2, <2>3
  <2> QED BY <2>1, <2>4
<1> HIDE DEF f
<1>6. IsLoop(f, w, count, n)
  BY <1>4, <1>5 DEF IsLoop
<1> QED BY <1>2, <1>4, <1>6 DEF w

\* Servers that could be asked for replicas are finitely many and have points
\* of their own; the ring is made of them.
RingOwned ==
    /\ RingInv
    /\ \A s \in Server : place[s] # {}

\* A server is as near to a key as the nearest of its points.
LEMMA DistanceIs ==
    ASSUME RingOwned, NEW k \in Point
    PROVE  /\ \A s \in nodes : /\ Distance(k, s) \in Nat
                               /\ \E x \in place[s] : Distance(k, s) = Ahead(k, x)
                               /\ \A x \in place[s] : Distance(k, s) <= Ahead(k, x)
           /\ \A s, t \in nodes : Distance(k, s) = Distance(k, t) => s = t
<1>1. ASSUME NEW s \in nodes
      PROVE  /\ Distance(k, s) \in Nat
             /\ \E x \in place[s] : Distance(k, s) = Ahead(k, x)
             /\ \A x \in place[s] : Distance(k, s) <= Ahead(k, x)
  <2> DEFINE T == {Ahead(k, x) : x \in place[s]}
  <2>1. place[s] \in SUBSET Point /\ place[s] # {}
    BY DEF RingOwned, RingInv
  <2>2. T \in SUBSET Nat /\ T # {}
    BY <2>1, AheadIs
  <2>3. Distance(k, s) = Lowest(T)
    BY DEF Distance, Ahead
  <2>4. Lowest(T) \in T /\ \A y \in T : Lowest(T) <= y
    <3> HIDE DEF T
    <3> QED BY <2>2, LowestIs
  <2>5. \A x \in place[s] : Ahead(k, x) \in T
    OBVIOUS
  <2>6. \E x \in place[s] : Lowest(T) = Ahead(k, x)
    BY <2>4
  <2>7. Lowest(T) \in Nat
    BY <2>2, <2>4
  <2> HIDE DEF T
  <2> QED BY <2>3, <2>4, <2>5, <2>6, <2>7
<1>2. ASSUME NEW s \in nodes, NEW t \in nodes, Distance(k, s) = Distance(k, t)
      PROVE  s = t
  <2>1. PICK x \in place[s] : Distance(k, s) = Ahead(k, x)
    BY <1>1
  <2>2. PICK y \in place[t] : Distance(k, t) = Ahead(k, y)
    BY <1>1
  <2>3. /\ x \in Point /\ y \in Point /\ s \in Server /\ t \in Server
        /\ (s # t => place[s] \cap place[t] = {})
    BY DEF RingOwned, RingInv
  <2>4. x = y
    BY <1>2, <2>1, <2>2, <2>3, NearerIs
  <2> QED BY <2>3, <2>4
<1> QED BY <1>1, <1>2

\* What holds of the servers found after i points: they are in the order of
\* their distance, none is left out that is nearer, and as long as there are too
\* few, they are all the servers met.
FoundInv(k, count, i, found) ==
    /\ found \in Seq(nodes) /\ Len(found) <= count
    /\ \A p, q \in 1..Len(found) : p < q => Distance(k, found[p]) < Distance(k, found[q])
    /\ \A p \in 1..Len(found), t \in nodes :
          Distance(k, t) < Distance(k, found[p]) => \E q \in 1..Len(found) : found[q] = t
    /\ Len(found) < count =>
          \A j \in 1..i : \E q \in 1..Len(found) : found[q] = ring[Walk(k)[j]]

\* The same with the number of servers found.
LEMMA FoundIs ==
    ASSUME NEW k, NEW count, NEW i, NEW found, NEW n, n = Len(found),
           found \in Seq(nodes), n <= count,
           \A p, q \in 1..n : p < q => Distance(k, found[p]) < Distance(k, found[q]),
           \A p \in 1..n, t \in nodes :
              Distance(k, t) < Distance(k, found[p]) => \E q \in 1..n : found[q] = t,
           \A j \in 1..i : \E q \in 1..n : found[q] = ring[Walk(k)[j]]
    PROVE  FoundInv(k, count, i, found)
BY Zenon DEF FoundInv

\* A round of the loop keeps it.
LEMMA ReplicaStep ==
    ASSUME RingOwned, NEW k \in Point, NEW count \in Nat, NEW i \in 1..Len(Walk(k)),
           NEW found, FoundInv(k, count, i - 1, found)
    PROVE  FoundInv(k, count, i, After(count, found, Walk(k)[i]))
<1> DEFINE x == Walk(k)[i]
           s == ring[x]
           n == Len(found)
           more == Append(found, s)
<1>1. /\ found \in Seq(nodes) /\ n \in Nat /\ n <= count
      /\ \A p \in 1..n : found[p] \in nodes
      /\ \A p, q \in 1..n : p < q => Distance(k, found[p]) < Distance(k, found[q])
      /\ \A p \in 1..n, t \in nodes :
            Distance(k, t) < Distance(k, found[p]) => \E q \in 1..n : found[q] = t
      /\ n < count => \A j \in 1..(i - 1) : \E q \in 1..n : found[q] = ring[Walk(k)[j]]
  BY DEF FoundInv
<1>2. /\ DOMAIN ring \in SUBSET Point
      /\ \A t \in nodes : \A y \in place[t] : y \in DOMAIN ring /\ ring[y] = t
      /\ \A y \in DOMAIN ring : ring[y] \in nodes /\ y \in place[ring[y]]
  <2>1. ring = RingOf(place, nodes)
    BY DEF RingOwned, RingInv, BuildRing, RingOf
  <2>2. /\ DOMAIN ring = UNION {place[t] : t \in nodes} /\ DOMAIN ring \in SUBSET Point
        /\ \A t \in nodes : \A y \in place[t] : ring[y] = t
    <3>1. /\ place \in [Server -> SUBSET Point] /\ nodes \in SUBSET Server
          /\ \A u, t \in Server : u # t => place[u] \cap place[t] = {}
      BY DEF RingOwned, RingInv
    <3>2. LET r == RingOf(place, nodes)
          IN  /\ DOMAIN r = UNION {place[t] : t \in nodes} /\ DOMAIN r \in SUBSET Point
              /\ \A t \in nodes : \A y \in place[t] : r[y] = t
      BY ZenonT(60), <3>1, RingPoints
    <3> QED BY <2>1, <3>2
  <2> QED BY <2>2
<1>3. /\ x \in DOMAIN ring
      /\ \A y \in DOMAIN ring :
            Ahead(k, y) < Ahead(k, x) => \E j \in 1..(i - 1) : Walk(k)[j] = y
  <2>1. Walk(k) \in Seq(DOMAIN ring)
    BY <1>2, WalkIs
  <2>2. x \in DOMAIN ring
    BY <2>1
  <2>3. \A j \in 1..Len(Walk(k)), y \in DOMAIN ring :
            Ahead(k, y) < Ahead(k, Walk(k)[j]) => \E h \in 1..(j - 1) : Walk(k)[h] = y
    BY <1>2, WalkIs
  <2> QED BY <2>2, <2>3
<1>4. s \in nodes /\ x \in place[s]
  BY <1>2, <1>3
<1>5. (i - 1) \in Int /\ i \in Int /\ \A j \in 1..i : j = i \/ j \in 1..(i - 1)
  OBVIOUS
<1>6. \A t \in nodes : Distance(k, t) \in Nat
  BY DistanceIs
<1>7. CASE n >= count
  <2>1. After(count, found, x) = found
    BY <1>7 DEF After
  <2>2. ~(n < count) /\ n = Len(found)
    BY <1>1, <1>7
  <2> HIDE DEF n
  <2>3. FoundInv(k, count, i, found)
    BY Zenon, <2>2 DEF FoundInv
  <2> QED BY <2>1, <2>3 DEF x
<1>8. CASE ~(n >= count) /\ \E q \in 1..n : found[q] = s
  <2>1. After(count, found, x) = found
    <3>1. DOMAIN found = 1..n
      BY <1>1
    <3>2. s \in ToSet(found)
      BY Zenon, <1>8, <3>1 DEF ToSet
    <3> QED BY <3>2 DEF After
  <2>2. \A j \in 1..i : \E q \in 1..n : found[q] = ring[Walk(k)[j]]
    BY <1>1, <1>5, <1>8
  <2> HIDE DEF x, s, n
  <2>3. n = Len(found) /\ FoundInv(k, count, i, found)
    BY Zenon, <1>1, <2>2, FoundIs DEF n
  <2> QED BY <2>1, <2>3 DEF x
<1>9. CASE ~(n >= count) /\ ~\E q \in 1..n : found[q] = s
  <2>1. After(count, found, x) = more
    <3>1. DOMAIN found = 1..n
      BY <1>1
    <3>2. s \notin ToSet(found)
      BY Zenon, <1>9, <3>1 DEF ToSet
    <3> QED BY <1>9, <3>2 DEF After
  <2>2. /\ more \in Seq(nodes) /\ Len(more) = n + 1 /\ more[n + 1] = s
        /\ \A p \in 1..n : more[p] = found[p]
    BY <1>1, <1>4
  <2>3. \A p \in 1..(n + 1) : p = n + 1 \/ p \in 1..n
    BY <1>1
  <2>4. \A p \in 1..n : p \in 1..(n + 1)
    BY <1>1
  <2>5. n < count /\ n + 1 <= count /\ n + 1 \in 1..(n + 1)
    BY <1>1, <1>9
  <2>6. ASSUME NEW t \in nodes, Distance(k, t) < Distance(k, s)
        PROVE  \E q \in 1..n : found[q] = t
    <3>1. PICK y \in place[t] : Distance(k, t) = Ahead(k, y)
      BY DistanceIs
    <3>2. Distance(k, s) <= Ahead(k, x)
      BY <1>4, DistanceIs
    <3>3. y \in DOMAIN ring /\ ring[y] = t /\ y \in Point /\ x \in Point
      BY <1>2, <1>3
    <3>4. Ahead(k, y) < Ahead(k, x)
      BY SMTT(30), <1>4, <1>6, <2>6, <3>1, <3>2, <3>3, AheadIs
    <3>5. PICK j \in 1..(i - 1) : Walk(k)[j] = y
      BY <1>3, <3>3, <3>4
    <3> QED BY <1>1, <2>5, <3>3, <3>5
  <2>7. ASSUME NEW p \in 1..n PROVE Distance(k, found[p]) < Distance(k, s)
    <3>1. found[p] \in nodes /\ found[p] # s
      BY <1>1, <1>9
    <3>2. Distance(k, found[p]) # Distance(k, s)
      BY <1>4, <3>1, DistanceIs
    <3>3. ~(Distance(k, s) < Distance(k, found[p]))
      BY <1>1, <1>4, <1>9
    <3> QED BY <1>4, <1>6, <3>1, <3>2, <3>3
  <2> HIDE DEF x, s, n, more
  <2>8. ASSUME NEW p \in 1..(n + 1), NEW q \in 1..(n + 1), p < q
        PROVE  Distance(k, more[p]) < Distance(k, more[q])
    <3>1. p \in 1..n
      BY <1>1, <2>8
    <3> QED BY <1>1, <2>2, <2>3, <2>7, <2>8, <3>1
  <2>9. ASSUME NEW p \in 1..(n + 1), NEW t \in nodes,
               Distance(k, t) < Distance(k, more[p])
        PROVE  \E q \in 1..(n + 1) : more[q] = t
    <3>1. \E q \in 1..n : found[q] = t
      BY <1>1, <2>2, <2>3, <2>6, <2>9
    <3> QED BY <2>2, <2>4, <3>1
  <2>10. ASSUME NEW j \in 1..i PROVE \E q \in 1..(n + 1) : more[q] = ring[Walk(k)[j]]
    <3>1. CASE j = i
      BY <2>2, <2>5, <3>1 DEF s, x
    <3>2. CASE j \in 1..(i - 1)
      BY <1>1, <2>2, <2>4, <2>5, <3>2
    <3> QED BY <1>5, <3>1, <3>2
  <2>11. FoundInv(k, count, i, more)
    BY Zenon, <2>2, <2>5, <2>8, <2>9, <2>10, FoundIs
  <2> QED BY <2>1, <2>11 DEF x
<1> QED BY <1>7, <1>8, <1>9

\* What get_replicas returns, once all rounds are done.
LEMMA FoundAlways ==
    ASSUME RingOwned, NEW k \in Point, NEW count \in Nat
    PROVE  FoundInv(k, count, Len(Walk(k)), GetReplicas(k, count))
<1> DEFINE n == Len(Walk(k))
<1>1. n \in Nat /\ DOMAIN Walk(k) = 1..n
  <2>1. DOMAIN ring \in SUBSET Point
    <3>1. ring = RingOf(place, nodes)
      BY DEF RingOwned, RingInv, BuildRing, RingOf
    <3>2. /\ place \in [Server -> SUBSET Point] /\ nodes \in SUBSET Server
          /\ \A u, t \in Server : u # t => place[u] \cap place[t] = {}
      BY DEF RingOwned, RingInv
    <3> QED BY ZenonT(60), <3>1, <3>2, RingPoints
  <2>2. Walk(k) \in Seq(DOMAIN ring)
    BY <2>1, WalkIs
  <2> QED BY <2>2
<1>2. PICK f : IsLoop(f, Walk(k), count, n) /\ f[n] = GetReplicas(k, count)
  <2> HIDE DEF n
  <2> QED BY <1>1, ReplicasLoop
<1>3. f[0] = <<>> /\ \A i \in 1..n : f[i] = After(count, f[i - 1], Walk(k)[i])
  BY <1>2 DEF IsLoop
<1> DEFINE bad == {i \in 0..n : ~FoundInv(k, count, i, f[i])}
<1>4. 0 \notin bad
  <2>1. FoundInv(k, count, 0, <<>>)
    <3>1. <<>> \in Seq(nodes) /\ Len(<<>>) = 0 /\ 0 <= count /\ 1..0 = {}
      OBVIOUS
    <3> QED BY <3>1 DEF FoundInv
  <2> QED BY <1>3, <2>1
<1>5. ASSUME NEW i \in 1..n, i - 1 \notin bad PROVE i \notin bad
  <2>1. i - 1 \in 0..n /\ i \in 0..n
    BY <1>1
  <2>2. FoundInv(k, count, i - 1, f[i - 1])
    BY <1>5, <2>1
  <2>3. FoundInv(k, count, i, After(count, f[i - 1], Walk(k)[i]))
    BY <2>2, ReplicaStep
  <2> QED BY <1>3, <2>3
<1>6. ASSUME bad # {} PROVE FALSE
  <2>1. bad \in SUBSET Nat /\ bad \in SUBSET (0..n)
    BY <1>1
  <2> HIDE DEF bad
  <2> DEFINE m == Lowest(bad)
  <2>2. m \in bad /\ \A i \in bad : m <= i
    BY <1>6, <2>1, LowestIs
  <2> HIDE DEF m
  <2>3. m \in 0..n /\ m # 0
    BY <1>4, <2>1, <2>2
  <2>4. m \in 1..n /\ m - 1 \in Int /\ ~(m <= m - 1)
    BY <1>1, <2>3
  <2> QED BY <1>5, <2>2, <2>4
<1>7. n \in 0..n
  BY <1>1
<1> QED BY <1>2, <1>6, <1>7

\* The point get_node takes is the nearest.
LEMMA ChosenNearest ==
    ASSUME NEW D \in SUBSET Point, D # {}, NEW k \in Point
    PROVE  /\ Chosen(D, k) \in D
           /\ \A x \in D : Ahead(k, Chosen(D, k)) <= Ahead(k, x)
<1> DEFINE late == {x \in D : k <= x}
<1>1. D \in SUBSET Nat /\ late \in SUBSET Nat /\ late \in SUBSET D
  <2>1. Point \in SUBSET Nat
    BY RingAssumption DEF Point
  <2>2. late \in SUBSET D
    OBVIOUS
  <2> HIDE DEF late
  <2> QED BY <2>1, <2>2
<1>2. Chosen(D, k) = Lowest(IF late # {} THEN late ELSE D)
  BY DEF Chosen
<1>3. \A x \in D : x \in late <=> k <= x
  OBVIOUS
<1> HIDE DEF late
<1>4. CASE late # {}
  <2>1. Lowest(late) \in late /\ \A x \in late : Lowest(late) <= x
    BY <1>1, <1>4, LowestIs
  <2>2. Lowest(late) \in D /\ k <= Lowest(late)
    BY <1>1, <1>3, <2>1
  <2>3. ASSUME NEW x \in D PROVE Ahead(k, Lowest(late)) <= Ahead(k, x)
    <3>1. ~(k <= x) \/ Lowest(late) <= x
      BY <1>3, <2>1
    <3> QED BY <2>2, <3>1, NearerIs
  <2> QED BY <1>2, <1>4, <2>2, <2>3
<1>5. CASE late = {}
  <2>1. Lowest(D) \in D /\ \A x \in D : Lowest(D) <= x
    BY <1>1, LowestIs
  <2>2. ASSUME NEW x \in D PROVE Ahead(k, Lowest(D)) <= Ahead(k, x)
    <3>1. ~(k <= Lowest(D)) /\ ~(k <= x) /\ Lowest(D) <= x
      BY <1>3, <1>5, <2>1
    <3> QED BY <2>1, <3>1, NearerIs
  <2> QED BY <1>2, <1>5, <2>1, <2>2
<1> QED BY <1>4, <1>5

\* In a ring that is made of its servers the replicas are the nearest.
LEMMA NearestFound == ASSUME RingOwned PROVE ReplicasAreNearest
<1>1. /\ place \in [Server -> SUBSET Point] /\ nodes \in SUBSET Server
      /\ \A u, t \in Server : u # t => place[u] \cap place[t] = {}
      /\ \A s \in nodes : place[s] # {}
      /\ ring = RingOf(place, nodes)
  BY DEF RingOwned, RingInv, BuildRing, RingOf
<1>2. /\ DOMAIN ring \in SUBSET Point
      /\ \A t \in nodes : \A y \in place[t] : y \in DOMAIN ring /\ ring[y] = t
      /\ \A y \in DOMAIN ring : ring[y] \in nodes /\ y \in place[ring[y]]
  <2>1. LET r == RingOf(place, nodes)
        IN  /\ DOMAIN r = UNION {place[t] : t \in nodes} /\ DOMAIN r \in SUBSET Point
            /\ \A t \in nodes : \A y \in place[t] : r[y] = t
    BY ZenonT(60), <1>1, RingPoints
  <2>2. /\ DOMAIN ring = UNION {place[t] : t \in nodes} /\ DOMAIN ring \in SUBSET Point
        /\ \A t \in nodes : \A y \in place[t] : ring[y] = t
    BY <1>1, <2>1
  <2> QED BY <2>2
<1>3. Cardinality(Server) \in Nat /\ IsFiniteSet(nodes) /\ Cardinality(nodes) \in Nat
  BY <1>1, RingAssumption, FS_CardinalityType, FS_Subset
<1> SUFFICES ASSUME NEW k \in Point, NEW count \in 0..Cardinality(Server)
             PROVE  LET found == GetReplicas(k, count)
                        chosen == ToSet(found)
                    IN
                    /\ Len(found) = IF count < Cardinality(nodes) THEN count
                                    ELSE Cardinality(nodes)
                    /\ chosen \subseteq nodes
                    /\ \A i, j \in DOMAIN found :
                          i < j => Distance(k, found[i]) < Distance(k, found[j])
                    /\ \A s \in chosen, t \in nodes \ chosen :
                          Distance(k, s) < Distance(k, t)
                    /\ found # <<>> => found[1] = GetNode(k)
  BY DEF ReplicasAreNearest
<1> DEFINE found == GetReplicas(k, count)
           n == Len(found)
           chosen == ToSet(found)
<1>4. count \in Nat
  BY <1>3
<1>5. FoundInv(k, count, Len(Walk(k)), found)
  BY <1>4, FoundAlways
<1> HIDE DEF found
<1>6. /\ found \in Seq(nodes) /\ n \in Nat /\ n <= count /\ DOMAIN found = 1..n
      /\ \A p \in 1..n : found[p] \in nodes
      /\ \A p, q \in 1..n : p < q => Distance(k, found[p]) < Distance(k, found[q])
      /\ \A p \in 1..n, t \in nodes :
            Distance(k, t) < Distance(k, found[p]) => \E q \in 1..n : found[q] = t
      /\ n < count => \A j \in 1..Len(Walk(k)) :
                          \E q \in 1..n : found[q] = ring[Walk(k)[j]]
  BY <1>5 DEF FoundInv
<1>7. /\ \A t \in nodes : Distance(k, t) \in Nat
      /\ \A s, t \in nodes : Distance(k, s) = Distance(k, t) => s = t
  BY DistanceIs
<1>8. /\ chosen \in SUBSET nodes
      /\ \A t : t \in chosen <=> \E q \in 1..n : found[q] = t
  BY <1>6 DEF ToSet
<1> HIDE DEF n, chosen
<1>9. \A p, q \in 1..n : found[p] = found[q] => p = q
  <2> SUFFICES ASSUME NEW p \in 1..n, NEW q \in 1..n, found[p] = found[q], p # q
               PROVE  FALSE
    OBVIOUS
  <2>1. Distance(k, found[p]) \in Nat /\ Distance(k, found[p]) = Distance(k, found[q])
    BY <1>6, <1>7
  <2>2. p < q \/ q < p
    BY <1>6
  <2>3. /\ p < q => Distance(k, found[p]) < Distance(k, found[q])
        /\ q < p => Distance(k, found[q]) < Distance(k, found[p])
    BY <1>6
  <2> QED BY <2>1, <2>2, <2>3
<1>10. Cardinality(chosen) = n /\ IsFiniteSet(chosen) /\ n <= Cardinality(nodes)
  <2>1. found \in [1..n -> chosen]
    BY <1>6, <1>8
  <2>2. found \in Bijection(1..n, chosen)
    BY <1>8, <1>9, <2>1 DEF Bijection, Injection, Surjection, IsInjective
  <2>3. ExistsBijection(1..n, chosen)
    BY <2>2 DEF ExistsBijection
  <2>4. Cardinality(chosen) = n
    BY <1>6, <2>3, FS_CountingElements
  <2> QED BY <1>3, <1>8, <2>4, FS_Subset
<1>11. n < count => nodes \in SUBSET chosen
  <2> SUFFICES ASSUME n < count, NEW t \in nodes PROVE t \in chosen
    OBVIOUS
  <2>1. PICK y \in place[t] : y \in DOMAIN ring /\ ring[y] = t
    BY <1>1, <1>2
  <2>2. PICK j \in 1..Len(Walk(k)) : Walk(k)[j] = y
    BY <1>2, <2>1, WalkIs
  <2> QED BY <1>6, <1>8, <2>1, <2>2
<1>12. n = IF count < Cardinality(nodes) THEN count ELSE Cardinality(nodes)
  <2>1. CASE n < count
    <3>1. chosen = nodes
      BY <1>8, <1>11, <2>1
    <3> QED BY <1>3, <1>4, <1>6, <1>10, <2>1, <3>1
  <2>2. CASE n = count
    BY <1>3, <1>4, <1>10, <2>2
  <2> QED BY <1>4, <1>6, <2>1, <2>2
<1>13. ASSUME NEW s \in chosen, NEW t \in nodes \ chosen
       PROVE  Distance(k, s) < Distance(k, t)
  <2>1. PICK p \in 1..n : found[p] = s
    BY <1>8
  <2>2. ~(Distance(k, t) < Distance(k, s))
    BY <1>6, <1>8, <2>1
  <2>3. s \in nodes /\ s # t
    BY <1>8
  <2> QED BY <1>7, <2>2, <2>3
<1>14. ASSUME found # <<>> PROVE found[1] = GetNode(k)
  <2>1. 1 \in 1..n /\ found[1] \in nodes /\ found[1] \in chosen
    BY <1>6, <1>8, <1>14 DEF n
  <2> DEFINE c == Chosen(DOMAIN ring, k)
             g == ring[c]
  <2>2. GetNode(k) = g
    BY DEF GetNode, From, Chosen
  <2>3. DOMAIN ring # {}
    BY <1>1, <1>2, <2>1
  <2>4. c \in DOMAIN ring /\ \A x \in DOMAIN ring : Ahead(k, c) <= Ahead(k, x)
    BY <1>2, <2>3, ChosenNearest
  <2> HIDE DEF c
  <2>5. g \in nodes /\ c \in place[g] /\ c \in Point
    BY <1>2, <2>4
  <2> HIDE DEF g
  <2>6. Distance(k, g) <= Distance(k, found[1])
    <3>1. Distance(k, g) <= Ahead(k, c)
      BY <2>5, DistanceIs
    <3>2. PICK x \in place[found[1]] : Distance(k, found[1]) = Ahead(k, x)
      BY <2>1, DistanceIs
    <3>3. x \in DOMAIN ring /\ x \in Point
      BY <1>2, <2>1, <3>2
    <3>4. Ahead(k, c) <= Ahead(k, x) /\ Ahead(k, c) \in Nat /\ Ahead(k, x) \in Nat
      BY <2>4, <2>5, <3>3, AheadIs
    <3> QED BY <1>7, <2>1, <2>5, <3>1, <3>2, <3>4
  <2>7. CASE g \in chosen
    <3>1. PICK q \in 1..n : found[q] = g
      BY <1>8, <2>7
    <3>2. q # 1 => Distance(k, found[1]) < Distance(k, g)
      <4>1. q # 1 => 1 < q
        BY <1>6
      <4> QED BY <1>6, <2>1, <3>1, <4>1
    <3>3. q = 1
      BY <1>7, <2>1, <2>5, <2>6, <3>2
    <3> QED BY <2>2, <3>1, <3>3
  <2>8. CASE g \notin chosen
    BY <1>7, <1>13, <2>1, <2>5, <2>6, <2>8
  <2> QED BY <2>7, <2>8
<1> QED BY <1>6, <1>8, <1>12, <1>13, <1>14 DEF found, n, chosen

\* On every circle and with any servers, the replicas of a key are the servers
\* nearest to it clockwise, the nearest first, each once (get_replicas): the walk
\* twice round the circle and once more over all points leaves nobody out.
THEOREM ReplicasAlwaysNearest == RingSpec => []ReplicasAreNearest
<1>1. RingInit => RingOwned
  <2> SUFFICES ASSUME RingInit, NEW s \in Server PROVE place[s] # {}
    BY DEF RingInit, RingInv, RingOwned
  <2>1. Cardinality(place[s]) = Virtual
    BY DEF RingInit
  <2> QED BY <2>1, RingAssumption, FS_EmptySet
<1>2. RingOwned /\ [RingNext]_ringVars => RingOwned'
  <2>1. ASSUME RingNext PROVE place' = place
    BY <2>1 DEF RingNext, RecoverFromFailure, AddNode, RemoveNode
  <2>2. [RingNext]_ringVars => place' = place
    BY <2>1 DEF ringVars
  <2> QED BY <2>2, RingStep DEF RingOwned
<1> QED BY <1>1, <1>2, NearestFound, PTL DEF RingSpec

-----------------------------------------------------------------------------
\* What nodes do without the log, side by side.
THEOREM NodeLocalTypeCorrect == Spec => []TypeOK
<1>1. Init => AuditInit /\ RingInit /\ GraphInit
  BY DEF Init
<1>2. [Next]_<<auditVars, ringVars, graphVars>> =>
        [AuditNext]_auditVars /\ [RingNext]_ringVars /\ [GraphNext]_graphVars
  BY DEF Next
<1>3. Spec => AuditSpec /\ RingSpec /\ GraphSpec
  BY <1>1, <1>2, PTL DEF Spec, AuditSpec, RingSpec, GraphSpec
<1>4. AuditTypeOK /\ RingTypeOK /\ GraphTypeOK => TypeOK
  BY DEF TypeOK
<1> QED BY <1>3, <1>4, AuditTypeCorrect, RingTypeCorrect, WaitGraphTypeCorrect, PTL
=============================================================================
