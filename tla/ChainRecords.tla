---------------------------- MODULE ChainRecords ----------------------------
(***************************************************************************)
(* The records of the audit chain (src/types.ts, the ChainRecord union) as *)
(* the writer, the restart path and the verifiers see them.                *)
(*                                                                         *)
(* SHA-256 is abstracted by record identity: every record written carries  *)
(* a distinct number, hashRecord returns it, and "genesis" is the number   *)
(* no record has.  Two records with the same hash are then the same        *)
(* record, which is what collision resistance gives the code.  Fields that *)
(* no chain operation reads (timestamps, tool names, digests, parties) are *)
(* left out; so is the attestation, which is present on every record a     *)
(* writer emits.                                                           *)
(***************************************************************************)
EXTENDS Integers, Sequences

genesis   == 0      \* the literal "genesis" that starts a chain
Undefined == -1     \* a field the record does not have
NoHash    == -2     \* the digest of octets that are no record: no field equals it

ChainRecordTypes == {"audit", "tool_drift", "checkpoint", "chain_break"}

\* A line that is not JSON: what a torn append leaves behind.
TornLine == [type |-> "torn", hash |-> NoHash, previousHash |-> Undefined,
             priorHead |-> Undefined, sequence |-> 0, recordCount |-> 0]

ChainRecord ==
    [type : ChainRecordTypes, hash : Nat \ {genesis},
     previousHash : Nat \cup {Undefined}, priorHead : Nat \cup {Undefined},
     sequence : Nat, recordCount : Nat]

Line == ChainRecord \cup {TornLine}

AuditRecord(h, prev) ==
    [type |-> "audit", hash |-> h, previousHash |-> prev,
     priorHead |-> Undefined, sequence |-> 0, recordCount |-> 0]

ToolDriftRecord(h, prev, detectedAt) ==
    [type |-> "tool_drift", hash |-> h, previousHash |-> prev,
     priorHead |-> Undefined, sequence |-> 0, recordCount |-> detectedAt]

CheckpointRecord(h, prev, seq, count) ==
    [type |-> "checkpoint", hash |-> h, previousHash |-> prev,
     priorHead |-> Undefined, sequence |-> seq, recordCount |-> count]

\* priorHead is left out of the JSON when the chain had no head yet.
ChainBreakRecord(h, lastHash) ==
    [type |-> "chain_break", hash |-> h, previousHash |-> Undefined,
     priorHead |-> IF lastHash # genesis THEN lastHash ELSE Undefined,
     sequence |-> 0, recordCount |-> 0]

isCheckpoint(r) == r.type = "checkpoint"
isChainBreak(r) == r.type = "chain_break"
Parses(line)    == line.type # "torn"

hashRecord(r) == r.hash

=============================================================================
