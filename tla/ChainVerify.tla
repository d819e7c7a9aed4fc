----------------------------- MODULE ChainVerify -----------------------------
(***************************************************************************)
(* The verifiers of src/attestation/verify.ts as operators on a sequence   *)
(* of lines.  A verifier that returns a list of errors is the set of line  *)
(* numbers it reports.  hashLine (the stored octets) and hashRecord (the   *)
(* parsed record written again) agree on a record that parses, because     *)
(* JSON.stringify keeps insertion order; both are the record's identity.   *)
(***************************************************************************)
EXTENDS ChainRecords, FiniteSets, FiniteSetsExt

hashLine(line) == hashRecord(line)

-----------------------------------------------------------------------------
(* verifyAuditLog(path, signer, {verifyChain: true})                       *)

\* What the signer says of a line's attestation.
Attestations == {"valid", "mismatch", "missing"}

\* Mutant: the previous hash advances over valid lines only.
MutantAdvances(lines, sig, j) == Parses(lines[j]) /\ sig[j] = "valid"

\* Unparseable and unattested lines `continue' before previousHash moves.
Advances(lines, sig, j) == Parses(lines[j]) /\ sig[j] # "missing"

ExpectedPrevHash(lines, sig, i) ==
    LET passed == {j \in 1..(i - 1) : Advances(lines, sig, j)}
    IN  IF passed = {} THEN genesis ELSE hashLine(lines[Max(passed)])

verifyAuditLog(lines, sig) ==
    {i \in DOMAIN lines :
        \/ ~Parses(lines[i])
        \/ sig[i] # "valid"
        \/ lines[i].previousHash = Undefined
        \/ lines[i].previousHash # ExpectedPrevHash(lines, sig, i)}

-----------------------------------------------------------------------------
(* verifyChainLines(lines); verifyChain(records) is the same on records    *)

LinkOK(lines, i) ==
    IF isChainBreak(lines[i]) THEN i = 1
    ELSE lines[i].previousHash = IF i = 1 THEN genesis ELSE hashLine(lines[i - 1])

verifyChainLines(lines) ==
    {i \in DOMAIN lines : ~Parses(lines[i]) \/ ~LinkOK(lines, i)}

verifyChain(records) == {i \in DOMAIN records : ~LinkOK(records, i)}

-----------------------------------------------------------------------------
(* verifyCompleteness(records, externalCheckpoint, {mode})                 *)

Checkpoints(records) == {i \in DOMAIN records : isCheckpoint(records[i])}
Breaks(records)      == {i \in DOMAIN records : isChainBreak(records[i])}

\* Mutant: checkpoints are counted as records.
MutantNonCheckpoints(records, from, to) == Cardinality(from..to)

NonCheckpoints(records, from, to) ==
    Cardinality({j \in from..to : ~isCheckpoint(records[j])})

\* i and j are neighbouring checkpoints with no chain_break between them.
AdjacentCheckpoints(records, i, j) ==
    /\ i < j /\ {i, j} \subseteq Checkpoints(records)
    /\ (i + 1)..(j - 1) \cap (Checkpoints(records) \cup Breaks(records)) = {}

Regresses(prev, next) == next.sequence <= prev.sequence

checkSequenceRegression(records) ==
    \E i, j \in Checkpoints(records) :
        AdjacentCheckpoints(records, i, j) /\ Regresses(records[i], records[j])

\* The checkpoint list is cleared at each chain_break, so that only the
\* checkpoints of the last segment are left when the checks start.
SegmentStart(records) == Max({0} \cup Breaks(records)) + 1

SegmentCheckpoints(records) ==
    {i \in Checkpoints(records) : i >= SegmentStart(records)}

\* The first checkpoint of the segment against the records before it.
AnchorWrong(records) ==
    /\ SegmentCheckpoints(records) # {}
    /\ LET first == Min(SegmentCheckpoints(records))
       IN  NonCheckpoints(records, SegmentStart(records), first - 1)
              # records[first].recordCount

DeltaWrong(records) ==
    \E i, j \in SegmentCheckpoints(records) :
        /\ AdjacentCheckpoints(records, i, j)
        /\ NonCheckpoints(records, i + 1, j - 1)
              # records[j].recordCount - records[i].recordCount

verifyAdjacentDeltas(records, mode) ==
    (mode = "strict" /\ AnchorWrong(records)) \/ DeltaWrong(records)

Truncated(code) == [truncated |-> TRUE, failureCode |-> code, absolute |-> FALSE]
Complete(absolute) ==
    [truncated |-> FALSE, failureCode |-> "none", absolute |-> absolute]

\* Mutant: any checkpoint with the same count will do.
MutantMatchesExternal(r, external) ==
    isCheckpoint(r) /\ r.recordCount = external.recordCount

MatchesExternal(r, external) ==
    /\ isCheckpoint(r)
    /\ r.previousHash = external.previousHash
    /\ r.sequence = external.sequence
    /\ r.recordCount = external.recordCount

verifyCompleteness(records, external, mode) ==
    LET found == {i \in DOMAIN records : MatchesExternal(records[i], external)}
        descends == \E i \in Checkpoints(records) : records[i].sequence > external.sequence
    IN  IF found = {}
        THEN IF ~descends THEN Truncated("head_missing")
             ELSE IF mode = "relative" /\ verifyAdjacentDeltas(records, mode)
                  THEN Truncated("count_mismatch")
                  ELSE Complete(FALSE)
        ELSE IF checkSequenceRegression(records) THEN Truncated("sequence_regression")
        ELSE IF \/ /\ mode = "strict"
                   /\ NonCheckpoints(records, 1, Min(found) - 1) # records[Min(found)].recordCount
                \/ verifyAdjacentDeltas(records, mode)
             THEN Truncated("count_mismatch")
             ELSE Complete(mode = "strict")

=============================================================================
