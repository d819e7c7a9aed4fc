----------------------------- MODULE AuditTrail -----------------------------
(***************************************************************************)
(* The writer (AuditLog) and the verifiers (ChainVerify) together: what a  *)
(* verifier says, at any moment, of the lines the writer has left on disk. *)
(* The rotated files and the log are read as one sequence of lines, which  *)
(* is how a consumer of a rotated log has to read them.                    *)
(***************************************************************************)
EXTENDS AuditLog, ChainVerify

\* A signer that finds every attestation valid.
Valid(l) == [i \in DOMAIN l |-> "valid"]

\* No chain_break stands before line k.
Unbroken(k) == \A i \in Breaks(lines) : i > k

\* What an undisturbed process has written is accepted at every moment,
\* whatever writes, renames and state saves have failed: verifyChainLines
\* objects to nothing but a chain_break inside the log, verifyAuditLog to
\* nothing but a chain_break (it has no previousHash), and each checkpoint
\* ever written still stands as an external anchor, in strict mode up to the
\* first chain_break (writer and verifier count alike).
HonestLogVerifies ==
    /\ verifyChainLines(lines) = Breaks(lines) \ {1}
    /\ verifyAuditLog(lines, Valid(lines)) = Breaks(lines)
    /\ \A k \in Checkpoints(lines) :
          /\ ~verifyCompleteness(lines, lines[k], "relative").truncated
          /\ Unbroken(Len(lines)) =>
                ~verifyCompleteness(lines, lines[k], "strict").truncated

\* A log cut before a checkpoint the consumer holds is reported, at every
\* cut and for every checkpoint up to the first chain_break (README.md:160):
\* no other checkpoint left in the prefix can stand in for the one that is
\* gone.
TruncationDetected ==
    \A k \in Checkpoints(lines) : Unbroken(k) =>
        \A n \in 0..(k - 1), mode \in {"strict", "relative"} :
            verifyCompleteness(SubSeq(lines, 1, n), lines[k], mode).truncated

\* Damage to an intact log with no chain_break in it is reported at its place
\* and nowhere else: lost lines (unless they were the last) at the line that
\* closed the gap, by both chain verifiers; an unreadable line at itself and at
\* its successor, whose predecessor is gone; a signature that fails at its own
\* line only.
DamageLocated == Unbroken(Len(lines)) =>
    /\ \A lo, hi \in DOMAIN lines : lo <= hi =>
          LET rest == SubSeq(lines, 1, lo - 1) \o SubSeq(lines, hi + 1, Len(lines))
              gap  == IF hi < Len(lines) THEN {lo} ELSE {}
          IN  verifyChainLines(rest) = gap /\ verifyAuditLog(rest, Valid(rest)) = gap
    /\ \A i \in DOMAIN lines :
          LET unreadable == [lines EXCEPT ![i] = TornLine]
              around     == {i, i + 1} \cap DOMAIN lines
          IN  /\ verifyChainLines(unreadable) = around
              /\ verifyAuditLog(unreadable, Valid(lines)) = around
              /\ verifyAuditLog(lines, [Valid(lines) EXCEPT ![i] = "mismatch"]) = {i}

\* Between two awaits of a call the counters may be ahead of the file; with
\* no call under way they are exactly what the lines since the last
\* chain_break say (writeRecord, writeCheckpoint, emitChainBreak).
CountersMatchLog ==
    LET start == SegmentStart(lines)
    IN  (proc = "up" /\ ~Busy) =>
          /\ totalRecordCount = NonCheckpoints(lines, start, Len(lines))
          /\ \A k \in Checkpoints(lines) : k >= start =>
                /\ lines[k].sequence <= checkpointSequence
                /\ lines[k].recordCount = NonCheckpoints(lines, start, k - 1)

\* The calls that resolved, and where the record of call c is.
Acknowledged == {c \in Calls : pc[c] = "resolved"}
Place(c) == {i \in DOMAIN lines : hashRecord(lines[i]) = written[c]}

\* The records of the calls that resolved lie in the log in the order the
\* calls were made, none of them twice: no failed or crashed neighbour, no
\* restart and no rotation reorders or repeats one (record, writeQueue).
AcknowledgedInOrder ==
    /\ \A c \in Acknowledged : Cardinality(Place(c)) <= 1
    /\ \A c, d \in Acknowledged :
          c < d => \A i \in Place(c), j \in Place(d) : i < j

\* The record of a call that resolved is in the log, unless it was glued to
\* the fragment of a torn append; each such line costs one record at most,
\* and there are no more such lines than calls that failed or were cut.
LossBounded ==
    LET lost      == {c \in Acknowledged : Place(c) = {}}
        fragments == {i \in DOMAIN lines : ~Parses(lines[i])}
        failed    == {c \in Calls : pc[c] \in {"rejected", "lost"}}
    IN  /\ Cardinality(lost) <= Cardinality(fragments)
        /\ Cardinality(fragments) <= Cardinality(failed)

\* init() takes back every log the process has left behind itself, and refuses
\* only what it can not read: the state file and the first record of the log
\* agree whenever it starts.
RestartAccepted == proc = "refused" => StateCorrupt \/ HeadCorrupt

\* Every call made settles unless the process ends first: a call that fails
\* does not hold up the calls queued behind it.
CallsSettle == \A c \in Calls : pc[c] = "queued" ~> pc[c] \in Settled

\* The abstract ledger of which the files are the contents.
Ledger == INSTANCE HashLedger WITH ledger <- lines

\* The writer implements the ledger: whatever the queue, the rotations and
\* the failed operations, lines are only added, one at a time, each linked to
\* the one before, each checkpoint with the count of its segment.
ImplementsLedger == Ledger!Spec

\* Across clean restarts, refused starts and forced breaks too, every line
\* added is linked to the one before (the counts are not kept: see below).
ImplementsLinkedLedger == Ledger!LinkedSpec

-----------------------------------------------------------------------------
(* What the documentation promises and the code does not keep.  README.md,  *)
(* section 3, says how each is violated.                                   *)

\* docs/SECURITY-DESIGN.md:133: totalRecordCount is the number of
\* non-checkpoint records written.  A restart keeps it ("base+delta resume",
\* audit-log.ts:293), so that the next checkpoint claims the right count.
RestartKeepsCount ==
    (proc = "up" /\ ~Busy) => totalRecordCount = NonCheckpoints(lines, 1, Len(lines))

\* docs/SECURITY-DESIGN.md:132: checkpointSequence is a monotonically
\* increasing counter: no two checkpoints of one segment are out of order.
SequenceMonotone == ~checkSequenceRegression(lines)

\* README.md:158: records are hash-chained across crash recovery.  Leaving out
\* the fragments a torn append left, each record follows the one before it.
ReadableLinked ==
    LET records == SelectSeq(lines, Parses)
    IN  \A i \in 2..Len(records) : Follows(records[i], records[i - 1])

\* README.md:367, no false positive after a legitimate chain break: each
\* checkpoint of a log with signed breaks stands as an external anchor.
BreakAccepted ==
    \A k \in Checkpoints(lines) :
        ~verifyCompleteness(lines, lines[k], "strict").truncated

\* README.md:160, truncation is detected for any log, chain breaks or not.
EveryTruncationDetected ==
    \A k \in Checkpoints(lines) : \A n \in 0..(k - 1) :
        verifyCompleteness(SubSeq(lines, 1, n), lines[k], "strict").truncated

=============================================================================
