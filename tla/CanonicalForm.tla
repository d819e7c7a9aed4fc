---------------------------- MODULE CanonicalForm ----------------------------
(***************************************************************************)
(* What a signature covers: the canonical forms of records in              *)
(* src/src/attestation/signer.ts.  A record is a function from the fields  *)
(* it has.  The canonical form of a value is a parameter, which            *)
(* CanonicalValues gives.                                                  *)
(***************************************************************************)
EXTENDS JsonValues

CONSTANTS
    canonicalizeValue(_),   \* canonicalizeValue()
    Canonicalizable(_)      \* it does not throw

Field(record, f) == IF f \in DOMAIN record THEN record[f] ELSE Undefined

Absent(record, f) == Field(record, f) \in {Undefined, Null}

\* JSON.stringify writes null for undefined in an array.
Pair(record, f) == <<f, IF Absent(record, f) THEN Null ELSE record[f]>>

Pairs(record, fields) == [i \in DOMAIN fields |-> Pair(record, fields[i])]

\* Mutant: fields that not every record has are not signed.
MutantIfPresent(record, f, value) == <<>>

IfPresent(record, f, value) == IF Absent(record, f) THEN <<>> ELSE << <<f, value>> >>

canonicalizeRecord(record) ==
    LET plain(f) == IfPresent(record, f, Field(record, f)) IN
    Pairs(record, <<"id", "timestamp", "method", "toolName", "namespace", "upstream",
                    "principal", "durationMs", "success", "errorCode">>)
    \o plain("decisionContextDigest")
    \o Pairs(record, <<"previousHash">>)
    \o plain("extensionsDigest")
    \o IfPresent(record, "aiInvocation", canonicalizeValue(Field(record, "aiInvocation")))
    \o plain("parties")

canonicalizeCheckpoint(record) ==
    Pairs(record, <<"id", "type", "timestamp", "sequence", "recordCount", "previousHash">>)
    \o IfPresent(record, "parties", Field(record, "parties"))

canonicalizeChainBreak(record) ==
    Pairs(record, <<"id", "type", "timestamp", "reason", "priorHead", "priorSequence",
                    "priorRecordCount">>)

canonicalizeToolDrift(record) ==
    Pairs(record, <<"id", "type", "timestamp", "toolName", "namespace",
                    "previousDefinitionDigest", "newDefinitionDigest",
                    "detectedAtRecord", "previousHash">>)

\* isToolDrift, isChainBreak, isCheckpoint; every other type is taken for a call.
Kind(record) ==
    LET type == Field(record, "type") IN
    IF type \in {Text("tool_drift"), Text("chain_break"), Text("checkpoint")}
    THEN type[2] ELSE "call"

canonicalize(record) ==
    CASE Kind(record) = "tool_drift"  -> canonicalizeToolDrift(record)
      [] Kind(record) = "chain_break" -> canonicalizeChainBreak(record)
      [] Kind(record) = "checkpoint"  -> canonicalizeCheckpoint(record)
      [] OTHER -> canonicalizeRecord(record)

\* The fields assertWellFormedString reads: it throws when one is missing.
Required(kind) ==
    CASE kind = "tool_drift"  -> {"id", "timestamp", "toolName", "namespace", "previousHash",
                                  "previousDefinitionDigest", "newDefinitionDigest"}
      [] kind = "chain_break" -> {"id", "timestamp", "reason"}
      [] kind = "checkpoint"  -> {"id", "timestamp", "previousHash"}
      [] OTHER -> {"id", "timestamp", "method"}

\* Those it reads when they are there.
Checked(kind) ==
    CASE kind = "chain_break" -> {"priorHead"}
      [] kind = "call" -> {"toolName", "namespace", "upstream", "principal", "previousHash",
                           "decisionContextDigest", "extensionsDigest"}
      [] OTHER -> {}

\* canonicalize() does not throw.
Signable(record) ==
    LET kind == Kind(record) IN
    /\ \A f \in Required(kind) : ~Absent(record, f)
    /\ \A f \in Required(kind) \cup Checked(kind) : Field(record, f) # Lone
    /\ kind = "call" => Canonicalizable(Field(record, "aiInvocation"))

=============================================================================
