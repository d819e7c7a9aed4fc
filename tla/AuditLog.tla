------------------------------ MODULE AuditLog ------------------------------
(***************************************************************************)
(* The gateway's audit log writer: class AuditLog of                       *)
(* src/attestation/audit-log.ts, together with the two files it owns (the  *)
(* JSONL log with its rotated predecessors, and .state.json).              *)
(*                                                                         *)
(* Every public method appends a closure to the promise chain              *)
(* `writeQueue', so a call starts when all calls made before it have       *)
(* settled.  Calls are therefore numbered in the order they are made and   *)
(* pc[c] is the point of call c between two awaits.  Call 0 stands for the *)
(* chain_break that init() itself writes when it is forced.                *)
(*                                                                         *)
(* Sizes are counted in lines, not bytes.  The bytes of a line matter in   *)
(* one way only: an append may leave a torn last line (no newline), which  *)
(* the next append is glued to.                                            *)
(***************************************************************************)
EXTENDS ChainRecords, FiniteSets, FiniteSetsExt

CONSTANTS
    MaxCalls,         \* bound: calls made over the whole behaviour
    MaxBoots,         \* bound: times init() runs
    RotateAfter,      \* rotateAfterBytes, in lines
    Trigger,          \* checkpointConfig.trigger, or "off" when not enabled
    IntervalRecords,  \* checkpointConfig.intervalRecords
    TailLines,        \* whole lines in the 8192 bytes init() reads back; 0
                      \* stands for a last record longer than that
    Ops,              \* the operations the owner of the log calls
    Forcing,          \* values of opts.forceNewChain passed to init()
    Faults            \* the environment faults that may happen

AllOps == {"record", "tool_drift", "checkpoint", "break"}

\* "write"   : sign() or appendFile() rejects and leaves no octet behind
\* "torn"    : an append stops part way, in a rejected call or in a crash
\* "rename"  : the rename of rotate() rejects
\* "persist" : writing or renaming the state file rejects
\* "crash"   : the process may end in the middle of a call
\* "damage"  : the state file becomes unparseable while the process is down
AllFaults == {"write", "torn", "rename", "persist", "crash", "damage"}

ASSUME ConstantsAssumption ==
    /\ MaxCalls \in Nat /\ MaxBoots \in Nat
    /\ RotateAfter \in Nat \ {0}
    /\ Trigger \in {"off", "records", "time", "whichever_first"}
    /\ IntervalRecords \in Nat \ {0}
    /\ TailLines \in Nat
    /\ Ops \subseteq AllOps
    /\ Forcing \subseteq BOOLEAN
    /\ Faults \subseteq AllFaults

Boot  == 0                \* the chain_break written by init()
Calls == 1..MaxCalls
Slots == {Boot} \cup Calls

Settled   == {"resolved", "rejected", "lost"}
Appending == {"append_record", "append_checkpoint", "append_break"}
InFlight  == Appending \cup {"rename", "persist", "persist_chain"}
Points    == {"new", "queued"} \cup InFlight \cup Settled

VARIABLES
    \* The disk.
    lines,        \* every line of the rotated files and the log, in order
    fileStart,    \* index in lines where the current log file starts
    torn,         \* the current log file does not end in a newline
    stateFile,    \* .state.json
    \* The fields of the AuditLog object.
    lastHash, currentSize, recordsSinceCheckpoint, checkpointSequence,
    totalRecordCount, rotationBoundaryHash,
    \* Control.
    proc,         \* "down", "starting" (init is writing a break), "up", "refused"
    op,           \* op[c]: the method call c invoked
    pc,           \* pc[c]: where call c is
    draft,        \* draft[c]: the record call c is signing or appending
    written,      \* written[c]: hash of the record call c will resolve with
    nextHash,     \* the next unused record identity
    boots         \* how often init() has run

disk    == <<lines, fileStart, torn, stateFile>>
counters == <<recordsSinceCheckpoint, checkpointSequence, totalRecordCount>>
memory  == <<lastHash, currentSize, rotationBoundaryHash, counters>>
control == <<proc, op, pc, draft, written, nextHash, boots>>
vars    == <<disk, memory, control>>

NoState == [status |-> "absent", lastHash |-> genesis,
            rotationBoundaryHash |-> genesis, checkpointSequence |-> 0,
            totalRecordCount |-> 0]

CorruptState == [status |-> "corrupt", lastHash |-> genesis,
                 rotationBoundaryHash |-> genesis, checkpointSequence |-> 0,
                 totalRecordCount |-> 0]

Init ==
    /\ lines = <<>> /\ fileStart = 1 /\ torn = FALSE /\ stateFile = NoState
    /\ lastHash = genesis /\ currentSize = 0 /\ rotationBoundaryHash = genesis
    /\ recordsSinceCheckpoint = 0 /\ checkpointSequence = 0
    /\ totalRecordCount = 0
    /\ proc = "down"
    /\ op = [c \in Calls |-> "none"]
    /\ pc = [c \in Slots |-> IF c = Boot THEN "resolved" ELSE "new"]
    /\ draft = [c \in Slots |-> TornLine]
    /\ written = [c \in Slots |-> genesis]
    /\ nextHash = 1 /\ boots = 0

-----------------------------------------------------------------------------
(* The queue: record(), recordToolDrift(), emitCheckpoint(), forceNewChain() *)

Enqueue(c, o) ==
    /\ proc = "up" /\ pc[c] = "new"
    /\ \A d \in Calls : d < c => pc[d] # "new"
    /\ op' = [op EXCEPT ![c] = o]
    /\ pc' = [pc EXCEPT ![c] = "queued"]
    /\ UNCHANGED <<disk, memory, proc, draft, written, nextHash, boots>>

\* Mutant: the closure runs at once instead of after the promise chain.
MutantPredecessorsSettled(c) == pc[c] \in Points

\* Mutant: without the try/catch one rejection leaves the chain rejected.
MutantPoisonedQueue(c) == \A d \in Slots : d < c => pc[d] = "resolved"

\* writeQueue.then(...): the closure of c runs once those before it settled.
PredecessorsSettled(c) == \A d \in Slots : d < c => pc[d] \in Settled

Ready(c) == proc = "up" /\ pc[c] = "queued" /\ PredecessorsSettled(c)

\* A record is built with the fields as they are now, then signed (awaited).
Draft(c, r, point) ==
    /\ draft' = [draft EXCEPT ![c] = r]
    /\ nextHash' = nextHash + 1
    /\ pc' = [pc EXCEPT ![c] = point]

StartRecord(c) ==
    /\ Ready(c) /\ op[c] = "record"
    /\ Draft(c, AuditRecord(nextHash, lastHash), "append_record")
    /\ UNCHANGED <<disk, memory, proc, op, written, boots>>

\* Mutant: the index of the preceding record instead of the count.
MutantDetectedAt == totalRecordCount - 1

DetectedAt == totalRecordCount

StartToolDrift(c) ==
    /\ Ready(c) /\ op[c] = "tool_drift"
    /\ Draft(c, ToolDriftRecord(nextHash, lastHash, DetectedAt), "append_record")
    /\ UNCHANGED <<disk, memory, proc, op, written, boots>>

\* Mutant: the checkpoint is numbered by the one before it.
MutantNextSequence == checkpointSequence

NextSequence == checkpointSequence + 1

\* Mutant: the count since the last checkpoint instead of the total.
MutantBeginCheckpoint(c, head, count) ==
    /\ checkpointSequence' = NextSequence
    /\ Draft(c, CheckpointRecord(nextHash, head, NextSequence, recordsSinceCheckpoint),
             "append_checkpoint")

\* writeCheckpoint() up to its first await: the sequence number is taken
\* before anything is signed or written.
BeginCheckpoint(c, head, count) ==
    /\ checkpointSequence' = NextSequence
    /\ Draft(c, CheckpointRecord(nextHash, head, NextSequence, count),
             "append_checkpoint")

StartCheckpoint(c) ==
    /\ Ready(c) /\ op[c] = "checkpoint"
    /\ BeginCheckpoint(c, lastHash, totalRecordCount)
    /\ UNCHANGED <<disk, lastHash, currentSize, rotationBoundaryHash,
                   recordsSinceCheckpoint, totalRecordCount,
                   proc, op, written, boots>>

StartBreak(c) ==
    /\ Ready(c) /\ op[c] = "break"
    /\ Draft(c, ChainBreakRecord(nextHash, lastHash), "append_break")
    /\ UNCHANGED <<disk, memory, proc, op, written, boots>>

-----------------------------------------------------------------------------
(* appendFile                                                              *)

\* Mutant: writeFile, which truncates the file first.
MutantAppendLine(r) == lines' = Append(SubSeq(lines, 1, fileStart - 1), r)

\* The octets of r go to the end of the file: after a torn line they make
\* one unreadable line with it.
AppendLine(r) ==
    lines' = IF torn THEN [lines EXCEPT ![Len(lines)] = TornLine]
                     ELSE Append(lines, r)

shouldEmitCheckpoint(since, timeHit) ==
    LET recordsHit == since >= IntervalRecords
    IN  \/ Trigger = "records" /\ recordsHit
        \/ Trigger = "time" /\ timeHit
        \/ Trigger = "whichever_first" /\ (recordsHit \/ timeHit)

\* After the last append of writeRecord/writeToolDrift: rotate, or resolve.
AfterAppends(size) == IF size >= RotateAfter THEN "rename" ELSE "resolved"

\* Mutant: the head of the chain does not move over the record just written.
MutantHeadAfter(r) == lastHash

\* this.lastHash = hashRecord(...)
HeadAfter(r) == hashRecord(r)

AppendRecord(c) ==
    /\ pc[c] = "append_record"
    /\ AppendLine(draft[c]) /\ torn' = FALSE
    /\ currentSize' = currentSize + 1
    /\ lastHash' = HeadAfter(draft[c])
    /\ totalRecordCount' = totalRecordCount + 1
    /\ recordsSinceCheckpoint' = recordsSinceCheckpoint + 1
    /\ written' = [written EXCEPT ![c] = hashRecord(draft[c])]
    /\ \E timeHit \in BOOLEAN :
          \/ /\ shouldEmitCheckpoint(recordsSinceCheckpoint', timeHit)
             /\ BeginCheckpoint(c, lastHash', totalRecordCount')
          \/ /\ ~shouldEmitCheckpoint(recordsSinceCheckpoint', timeHit)
             /\ pc' = [pc EXCEPT ![c] = AfterAppends(currentSize')]
             /\ UNCHANGED <<checkpointSequence, draft, nextHash>>
    /\ UNCHANGED <<fileStart, stateFile, rotationBoundaryHash, proc, op, boots>>

\* emitCheckpoint() resolves here; an automatic checkpoint returns to
\* writeRecord, which may still rotate.
AppendCheckpoint(c) ==
    /\ pc[c] = "append_checkpoint"
    /\ AppendLine(draft[c]) /\ torn' = FALSE
    /\ currentSize' = currentSize + 1
    /\ lastHash' = HeadAfter(draft[c])
    /\ recordsSinceCheckpoint' = 0
    /\ IF op[c] = "checkpoint"
       THEN /\ written' = [written EXCEPT ![c] = hashRecord(draft[c])]
            /\ pc' = [pc EXCEPT ![c] = "resolved"]
       ELSE /\ pc' = [pc EXCEPT ![c] = AfterAppends(currentSize')]
            /\ UNCHANGED written
    /\ UNCHANGED <<fileStart, stateFile, rotationBoundaryHash,
                   checkpointSequence, totalRecordCount,
                   proc, op, draft, nextHash, boots>>

AppendBreak(c) ==
    /\ pc[c] = "append_break"
    /\ AppendLine(draft[c]) /\ torn' = FALSE
    /\ currentSize' = currentSize + 1
    /\ lastHash' = HeadAfter(draft[c])
    /\ recordsSinceCheckpoint' = 0 /\ checkpointSequence' = 0
    /\ totalRecordCount' = 0
    /\ written' = [written EXCEPT ![c] = hashRecord(draft[c])]
    /\ pc' = [pc EXCEPT ![c] = "persist_chain"]
    /\ UNCHANGED <<fileStart, stateFile, rotationBoundaryHash,
                   proc, op, draft, nextHash, boots>>

\* A rejected sign or append rejects the call and leaves every field as it
\* is; when it is the break of init(), init() throws and the process exits.
Reject(c) ==
    /\ pc' = [pc EXCEPT ![c] = "rejected"]
    /\ proc' = IF c = Boot THEN "refused" ELSE proc

WriteFails(c) ==
    /\ "write" \in Faults /\ pc[c] \in Appending
    /\ Reject(c)
    /\ UNCHANGED <<disk, memory, op, draft, written, nextHash, boots>>

\* What a torn append of r leaves: a fragment, or all of r but its newline.
TornAppend(r) ==
    /\ "torn" \in Faults
    /\ \E fragment \in {TornLine, r} : AppendLine(fragment)
    /\ torn' = TRUE

WriteTorn(c) ==
    /\ pc[c] \in Appending
    /\ TornAppend(draft[c])
    /\ Reject(c)
    /\ UNCHANGED <<fileStart, stateFile, memory, op, draft, written, nextHash, boots>>

-----------------------------------------------------------------------------
(* rotate(), persistState(), persistChainState()                           *)

\* Mutant: every file starts a chain of its own.
MutantHeadAfterRotation == genesis

\* "Resetting to genesis would allow truncation-via-rotation."
HeadAfterRotation == lastHash

\* rename(this.path, rotatedPath); a failure is swallowed and the log goes on.
Rename(c) ==
    /\ pc[c] = "rename"
    /\ fileStart' = Len(lines) + 1 /\ torn' = FALSE
    /\ currentSize' = 0 /\ lastHash' = HeadAfterRotation
    /\ pc' = [pc EXCEPT ![c] = "persist"]
    /\ UNCHANGED <<lines, stateFile, rotationBoundaryHash, counters,
                   proc, op, draft, written, nextHash, boots>>

RenameFails(c) ==
    /\ "rename" \in Faults /\ pc[c] = "rename"
    /\ pc' = [pc EXCEPT ![c] = "resolved"]
    /\ UNCHANGED <<disk, memory, proc, op, draft, written, nextHash, boots>>

StateOf(boundary) ==
    [status |-> "ok", lastHash |-> lastHash, rotationBoundaryHash |-> boundary,
     checkpointSequence |-> checkpointSequence,
     totalRecordCount |-> totalRecordCount]

\* Mutant: rotation keeps the boundary of the file it has just closed.
MutantRotationBoundary == rotationBoundaryHash

\* The boundary persistState() writes.  The field of the object keeps its value.
RotationBoundary == lastHash

\* The temporary file is never read, so writing it and renaming it over the
\* state file is one step.
PersistState(c) ==
    /\ pc[c] = "persist"
    /\ stateFile' = StateOf(RotationBoundary)
    /\ pc' = [pc EXCEPT ![c] = "resolved"]
    /\ UNCHANGED <<lines, fileStart, torn, memory,
                   proc, op, draft, written, nextHash, boots>>

\* rotate() swallows the error: the call resolves, the state file is stale.
PersistStateFails(c) ==
    /\ "persist" \in Faults /\ pc[c] = "persist"
    /\ pc' = [pc EXCEPT ![c] = "resolved"]
    /\ UNCHANGED <<disk, memory, proc, op, draft, written, nextHash, boots>>

PersistChainState(c) ==
    /\ pc[c] = "persist_chain"
    /\ stateFile' = StateOf(rotationBoundaryHash)
    /\ pc' = [pc EXCEPT ![c] = "resolved"]
    /\ proc' = IF c = Boot THEN "up" ELSE proc
    /\ UNCHANGED <<lines, fileStart, torn, memory,
                   op, draft, written, nextHash, boots>>

PersistChainStateFails(c) ==
    /\ "persist" \in Faults /\ pc[c] = "persist_chain"
    /\ Reject(c)
    /\ UNCHANGED <<disk, memory, op, draft, written, nextHash, boots>>

-----------------------------------------------------------------------------
(* The end of the process, and init()                                      *)

Busy == \E c \in Slots : pc[c] = "queued" \/ pc[c] \in InFlight

\* The process ends: memory and queue are gone.  Only a crash cuts a call
\* short; an append under way then landed, did not, or is torn.
Stop ==
    /\ proc \in {"starting", "up"}
    /\ Busy => "crash" \in Faults
    /\ \/ UNCHANGED <<lines, torn>>
       \/ \E c \in Slots :
             /\ pc[c] \in Appending
             /\ \/ AppendLine(draft[c]) /\ torn' = FALSE
                \/ TornAppend(draft[c])
    /\ proc' = "down"
    /\ pc' = [c \in DOMAIN pc |-> IF pc[c] = "queued" \/ pc[c] \in InFlight
                                  THEN "lost" ELSE pc[c]]
    /\ lastHash' = genesis /\ currentSize' = 0 /\ rotationBoundaryHash' = genesis
    /\ recordsSinceCheckpoint' = 0 /\ checkpointSequence' = 0
    /\ totalRecordCount' = 0
    /\ UNCHANGED <<fileStart, stateFile, op, draft, written, nextHash, boots>>

DamageState ==
    /\ "damage" \in Faults /\ proc = "down" /\ stateFile.status = "ok"
    /\ stateFile' = CorruptState
    /\ UNCHANGED <<lines, fileStart, torn, memory, control>>

\* recoverState(): the fields of a parseable state file, or the initial ones.
Recovered == IF stateFile.status = "ok" THEN stateFile ELSE NoState

LogIsEmpty   == fileStart > Len(lines)
StateCorrupt == stateFile.status = "corrupt"
HeadCorrupt  == ~LogIsEmpty /\ ~Parses(lines[fileStart])

\* What the first record of the log says precedes it.
FirstRecordPrevHash ==
    IF isChainBreak(lines[fileStart]) THEN lines[fileStart].priorHead
                                      ELSE lines[fileStart].previousHash

Inconsistent ==
    /\ ~LogIsEmpty /\ stateFile.status = "ok"
    /\ FirstRecordPrevHash # Undefined
    /\ FirstRecordPrevHash # stateFile.rotationBoundaryHash

\* The readable lines among the last TailLines of the log.
Tail8K == {i \in fileStart..Len(lines) : i > Len(lines) - TailLines /\ Parses(lines[i])}
ReadsTail == ~LogIsEmpty /\ ~StateCorrupt /\ ~HeadCorrupt

\* Mutant: resume from the state file's head even when the log goes on.
MutantRecoveredHead == Recovered.lastHash

RecoveredHead ==
    IF ReadsTail /\ Tail8K # {} THEN hashRecord(lines[Max(Tail8K)])
                                ELSE Recovered.lastHash

RecoveredSequence ==
    LET seen == {lines[i].sequence : i \in {j \in Tail8K : isCheckpoint(lines[j])}}
    IN  Max({Recovered.checkpointSequence} \cup IF ReadsTail THEN seen ELSE {})

\* Without a state file every readable line of the tail counts, checkpoints
\* too; with one the state file's count is taken as it is.
RecoveredCount ==
    IF ReadsTail /\ stateFile.status = "absent" THEN Cardinality(Tail8K)
                                                ELSE Recovered.totalRecordCount

\* The fields after recoverState() and the reading of the log.
RecoverMemory ==
    /\ lastHash' = RecoveredHead
    /\ rotationBoundaryHash' = Recovered.rotationBoundaryHash
    /\ checkpointSequence' = RecoveredSequence
    /\ totalRecordCount' = RecoveredCount
    /\ recordsSinceCheckpoint' = 0
    /\ currentSize' = IF StateCorrupt \/ LogIsEmpty THEN 0 ELSE Len(lines) - fileStart + 1

MustRefuse == StateCorrupt \/ HeadCorrupt \/ Inconsistent

InitRuns == boots < MaxBoots /\ boots' = boots + 1

Resume ==
    /\ proc = "down" /\ Forcing # {} /\ ~MustRefuse
    /\ InitRuns
    /\ RecoverMemory
    /\ proc' = "up" /\ pc' = [pc EXCEPT ![Boot] = "resolved"]
    /\ UNCHANGED <<disk, op, draft, written, nextHash>>

\* init() throws; the process exits and may be started again.
Refuse ==
    /\ proc = "down" /\ FALSE \in Forcing /\ MustRefuse
    /\ InitRuns
    /\ proc' = "refused"
    /\ UNCHANGED <<disk, memory, op, pc, draft, written, nextHash>>

\* opts.forceNewChain: emitChainBreak() instead of the throw.
StartForced ==
    /\ proc \in {"down", "refused"} /\ TRUE \in Forcing /\ MustRefuse
    /\ InitRuns
    /\ RecoverMemory
    /\ proc' = "starting"
    /\ Draft(Boot, ChainBreakRecord(nextHash, lastHash'), "append_break")
    /\ UNCHANGED <<disk, op, written>>

-----------------------------------------------------------------------------

Step(c) ==
    \/ AppendRecord(c) \/ AppendCheckpoint(c) \/ AppendBreak(c)
    \/ WriteFails(c) \/ WriteTorn(c)
    \/ Rename(c) \/ RenameFails(c)
    \/ PersistState(c) \/ PersistStateFails(c)
    \/ PersistChainState(c) \/ PersistChainStateFails(c)

Start(c) == StartRecord(c) \/ StartToolDrift(c) \/ StartCheckpoint(c) \/ StartBreak(c)

Call(c) == Start(c) \/ \E o \in Ops : Enqueue(c, o)

Environment == Stop \/ DamageState
Boots == Resume \/ Refuse \/ StartForced

\* The bound on calls is used up, or init() refused: nothing is left to do.
Finished ==
    /\ ~Busy
    /\ proc = "up" => \A c \in Calls : pc[c] # "new"
    /\ proc = "down" => boots = MaxBoots \/ Forcing = {}
    /\ UNCHANGED vars

Next ==
    \/ \E c \in Slots : Step(c)
    \/ \E c \in Calls : Call(c)
    \/ Environment \/ Boots \/ Finished

Spec == Init /\ [][Next]_vars

\* The event loop runs every continuation that is ready, and every file
\* operation that was started ends, one way or the other.
Fairness ==
    /\ \A c \in Slots : WF_vars(Step(c))
    /\ \A c \in Calls : WF_vars(Start(c))

FairSpec == Spec /\ Fairness

-----------------------------------------------------------------------------

State ==
    [status : {"ok"}, lastHash : Nat, rotationBoundaryHash : Nat,
     checkpointSequence : Nat, totalRecordCount : Nat]
    \cup {NoState, CorruptState}

\* Every variable has the type of the field or file it stands for, and a call
\* that is about to append has a record to append.
TypeOK ==
    /\ lines \in Seq(Line) /\ fileStart \in 1..(Len(lines) + 1)
    /\ torn \in BOOLEAN /\ (torn => fileStart <= Len(lines))
    /\ stateFile \in State
    /\ lastHash \in Nat /\ rotationBoundaryHash \in Nat /\ currentSize \in Nat
    /\ recordsSinceCheckpoint \in Nat /\ checkpointSequence \in Nat
    /\ totalRecordCount \in Nat
    /\ proc \in {"down", "starting", "up", "refused"}
    /\ op \in [Calls -> AllOps \cup {"none"}]
    /\ pc \in [Slots -> Points]
    /\ draft \in [Slots -> Line]
    /\ \A c \in Slots : pc[c] \in Appending => draft[c] \in ChainRecord
    /\ written \in [Slots -> Nat]
    /\ nextHash \in Nat \ {genesis} /\ boots \in Nat

\* r follows p in the chain: it names p as its predecessor, or it is a
\* chain_break, which starts a new chain.
Follows(r, p) == isChainBreak(r) \/ r.previousHash = hashRecord(p)

\* In the current log file every record follows the record on the line before
\* it, whatever calls were queued at once, failed half way or were cut by a
\* crash, and however often the log was reopened (writeRecord,
\* writeCheckpoint, the tail scan of init).  Rotated files were the current
\* file once.  An unreadable line is no record, and nothing is said of what
\* comes right after one.
FileLinked ==
    \A i \in (fileStart + 1)..Len(lines) :
        Parses(lines[i]) /\ Parses(lines[i - 1]) => Follows(lines[i], lines[i - 1])

\* The same across file boundaries: from the first line of the first rotated
\* file on, one unbroken chain (rotate, persistState, init).
ChainLinked ==
    /\ \A i \in 2..Len(lines) : Follows(lines[i], lines[i - 1])
    /\ lines # <<>> => isChainBreak(lines[1]) \/ lines[1].previousHash = genesis

-----------------------------------------------------------------------------
(* Why the links hold: the inductive invariants of AuditLogProofs          *)

\* One call at a time is between its start and its end, and those before it
\* are over; only init() writes while the process is starting.
OneInFlight ==
    /\ \A c \in Calls : pc[c] \in InFlight =>
          proc = "up" /\ \A d \in Slots : d < c => pc[d] \in Settled
    /\ pc[Boot] \in Settled \cup {"append_break", "persist_chain"}
    /\ pc[Boot] \in InFlight <=> proc = "starting"

\* Without torn appends every line is a record.
NothingTorn == ~torn /\ \A i \in DOMAIN lines : Parses(lines[i])

\* The head in memory is the last line of the log file, unless that is a
\* fragment or the next append will make it one.
HeadIsLast ==
    ~LogIsEmpty /\ ~torn /\ Parses(lines[Len(lines)]) =>
        lastHash = hashRecord(lines[Len(lines)])

\* The running process knows the last line of the file it appends to.
HeadTracksFile == proc = "up" \/ pc[Boot] = "persist_chain" => HeadIsLast

\* What a call is about to append names the head as its predecessor.
DraftsLinked ==
    \A c \in Slots :
        /\ pc[c] \in {"append_record", "append_checkpoint"} =>
              draft[c].previousHash = lastHash
        /\ pc[c] = "append_break" => isChainBreak(draft[c])

LinkInv == OneInFlight /\ HeadTracksFile /\ DraftsLinked /\ FileLinked

ChainHead == IF lines = <<>> THEN genesis ELSE hashRecord(lines[Len(lines)])

\* Across rotations too, and when the log file is gone the state file knows
\* the head, except while rotate() is about to write it.
HeadTracksChain ==
    /\ proc = "up" \/ pc[Boot] = "persist_chain" => lastHash = ChainHead
    /\ LogIsEmpty => \/ StateCorrupt \/ Recovered.lastHash = ChainHead
                     \/ \E c \in Calls : pc[c] = "persist"

ChainInv == LinkInv /\ NothingTorn /\ HeadTracksChain /\ ChainLinked

=============================================================================
