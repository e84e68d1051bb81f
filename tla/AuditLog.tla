------------------------------- MODULE AuditLog -------------------------------
(***************************************************************************)
(* The audit files of BonusSecurityService, src/src/bonus/features.py: a   *)
(* log of records and a file with one hash, which chains the records.      *)
(* Processes that run beside each other with the default configuration     *)
(* share both files (docs/deployment.md, "Run Multiple Nodes Locally").    *)
(*                                                                         *)
(* A hash is modelled by the sequence of the records that went into it, a  *)
(* missing or an empty file by the empty sequence.                         *)
(***************************************************************************)
EXTENDS Naturals, Sequences

CONSTANTS
    Process,
    MaxRecords      \* bound: how many calls of record_audit there are

ASSUME AuditAssumption == MaxRecords \in Nat

VARIABLES
    made,       \* the number of records made so far: the next one's name
    logFile,    \* the records in the log
    hashFile,   \* the records in the hash
    writer,     \* per process, where its call of record_audit stands
    disturbed   \* history: a process died with the files half written, or two
                \* wrote at once
auditVars == <<made, logFile, hashFile, writer, disturbed>>

Record == 1..MaxRecords

Idle == [phase |-> "idle"]
\* "begun", "hashed", "logged", "truncated": what the call has done last; digest
\* is the new hash, as far as it is known.
Writer ==
    [phase : {"begun", "hashed", "logged", "truncated"},
     record : Record, digest : Seq(Record)]

AuditTypeOK ==
    /\ made \in 0..MaxRecords
    /\ logFile \in Seq(Record) /\ hashFile \in Seq(Record)
    /\ writer \in [Process -> Writer \cup {Idle}]
    /\ disturbed \in BOOLEAN

AuditInit ==
    /\ made = 0 /\ logFile = <<>> /\ hashFile = <<>>
    /\ writer = [p \in Process |-> Idle]
    /\ disturbed = FALSE

-----------------------------------------------------------------------------
RecordAudit(p) ==
    /\ writer[p] = Idle
    /\ made < MaxRecords
    /\ made' = made + 1
    /\ writer' = [writer EXCEPT ![p] =
          [phase |-> "begun", record |-> made + 1, digest |-> <<>>]]
    /\ UNCHANGED <<logFile, hashFile, disturbed>>

\* A process has read the hash and has not yet written it.
Writing(p) == writer[p].phase \in {"hashed", "logged", "truncated"}

\* Variant: the chain is computed anew from the log.
ReadLog(p) ==
    /\ writer[p].phase = "begun"
    /\ writer' = [writer EXCEPT ![p].phase = "hashed",
                                ![p].digest = Append(logFile, writer[p].record)]
    /\ disturbed' = (disturbed \/ \E q \in Process : Writing(q))
    /\ UNCHANGED <<made, logFile, hashFile>>

\* The hash so far is read, and the new one computed.
ReadHash(p) ==
    /\ writer[p].phase = "begun"
    /\ writer' = [writer EXCEPT ![p].phase = "hashed",
                                ![p].digest = Append(hashFile, writer[p].record)]
    /\ disturbed' = (disturbed \/ \E q \in Process : Writing(q))
    /\ UNCHANGED <<made, logFile, hashFile>>

\* Variant: the hash is written before the log.
HashFirst(p) ==
    /\ writer[p].phase = "hashed"
    /\ hashFile' = writer[p].digest
    /\ writer' = [writer EXCEPT ![p].phase = "logged"]
    /\ UNCHANGED <<made, logFile, disturbed>>

AppendToLog(p) ==
    /\ writer[p].phase = "hashed"
    /\ logFile' = Append(logFile, writer[p].record)
    /\ writer' = [writer EXCEPT ![p].phase = "logged"]
    /\ UNCHANGED <<made, hashFile, disturbed>>

\* write_text opens the file, which empties it, and then writes.
TruncateHash(p) ==
    /\ writer[p].phase = "logged"
    /\ hashFile' = <<>>
    /\ writer' = [writer EXCEPT ![p].phase = "truncated"]
    /\ UNCHANGED <<made, logFile, disturbed>>

\* Variant: the hash covers the new record only.
WriteRecordHash(p) ==
    /\ writer[p].phase = "truncated"
    /\ hashFile' = <<writer[p].record>>
    /\ writer' = [writer EXCEPT ![p] = Idle]
    /\ UNCHANGED <<made, logFile, disturbed>>

WriteHash(p) ==
    /\ writer[p].phase = "truncated"
    /\ hashFile' = writer[p].digest
    /\ writer' = [writer EXCEPT ![p] = Idle]
    /\ UNCHANGED <<made, logFile, disturbed>>

\* The process dies; a new one begins with the files as they are.
Crash(p) ==
    /\ writer[p] # Idle
    /\ writer' = [writer EXCEPT ![p] = Idle]
    /\ disturbed' = (disturbed \/ writer[p].phase \in {"logged", "truncated"})
    /\ UNCHANGED <<made, logFile, hashFile>>

AuditNext ==
    \E p \in Process :
        \/ RecordAudit(p) \/ ReadHash(p) \/ AppendToLog(p)
        \/ TruncateHash(p) \/ WriteHash(p) \/ Crash(p)

AuditSpec == AuditInit /\ [][AuditNext]_auditVars

\* Without a log or a hash there is nothing to verify.
VerifyAuditChain == logFile # <<>> /\ hashFile = logFile

-----------------------------------------------------------------------------
\* Properties

Holds(s, r) == \E i \in 1..Len(s) : s[i] = r

\* The hash covers records of the log only, in the order of the log, whatever
\* processes write to the files and wherever they die (_record_hash).
CoveredIsLogged ==
    \E f \in [1..Len(hashFile) -> 1..Len(logFile)] :
        \A i \in 1..Len(hashFile) :
            /\ hashFile[i] = logFile[f[i]]
            /\ \A j \in 1..(i - 1) : f[j] < f[i]

\* Between two calls the chain verifies, unless a process died after it wrote
\* to the log and before it wrote the hash, or two wrote at once.
DamageHasCause ==
    (\A p \in Process : ~Writing(p)) /\ logFile # <<>> /\ ~disturbed
        => VerifyAuditChain

\* A record of the log that no hash covers, written or about to be.
LeftOut(r) ==
    /\ Holds(logFile, r) /\ ~Holds(hashFile, r)
    /\ \A p \in Process : writer[p] # Idle => ~Holds(writer[p].digest, r)

\* No later record hides a gap: what a hash left out no later hash covers, so
\* the chain does not verify from then on (_record_hash, verify_audit_chain).
GapsStay == [][\A r \in Record : LeftOut(r) => LeftOut(r)']_auditVars
=============================================================================
