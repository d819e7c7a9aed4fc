--------------------------- MODULE AuditLogProofs ---------------------------
(***************************************************************************)
(* Theorems about the writer, for every value of the constants: types;     *)
(* calls are serialised whatever fails; inside each file every record      *)
(* follows the one before it, if that can be read; and across files too,   *)
(* when the head survives in the state file, so when the process ends      *)
(* between calls only and the state file of a rotation gets written.       *)
(* ChainInv adds to LinkInv that the head, in memory or in the state file, *)
(* is the last line of all files together.                                 *)
(***************************************************************************)
EXTENDS AuditLog, OperatorLemmas

-----------------------------------------------------------------------------
(* Types of the records and of an append                                   *)

\* Each of the four constructors makes a well-formed record.
LEMMA RecordTypes ==
    ASSUME NEW h \in Nat \ {genesis}, NEW prev \in Nat, NEW seq \in Nat, NEW n \in Nat
    PROVE  /\ AuditRecord(h, prev) \in ChainRecord
           /\ ToolDriftRecord(h, prev, n) \in ChainRecord
           /\ CheckpointRecord(h, prev, seq, n) \in ChainRecord
           /\ ChainBreakRecord(h, prev) \in ChainRecord
  BY DEF ChainRecord, ChainRecordTypes, AuditRecord, ToolDriftRecord,
         CheckpointRecord, ChainBreakRecord, genesis, Undefined

\* A line that JSON.parse accepts is a record, not a fragment.
LEMMA ParsedIsRecord ==
    ASSUME NEW r \in Line, Parses(r)
    PROVE  r \in ChainRecord
  BY DEF Line, TornLine, Parses

\* A record has a hash, is readable and is a line of the file.
LEMMA RecordHash ==
    ASSUME NEW r \in ChainRecord
    PROVE  hashRecord(r) \in Nat \ {genesis} /\ Parses(r) /\ r \in Line
  BY DEF ChainRecord, ChainRecordTypes, hashRecord, Parses, Line

\* Appending to the file keeps it a sequence of lines and never shortens it.
LEMMA AppendLineType ==
    ASSUME TypeOK, NEW r \in Line, AppendLine(r)
    PROVE  /\ lines' \in Seq(Line)
           /\ Len(lines') = IF torn THEN Len(lines) ELSE Len(lines) + 1
           /\ \A i \in 1..(Len(lines') - 1) : lines'[i] = lines[i]
           /\ lines'[Len(lines')] = IF torn THEN TornLine ELSE r
<1>1. TornLine \in Line  BY DEF Line
<1>2. CASE torn
  <2>1. lines' = [lines EXCEPT ![Len(lines)] = TornLine]  BY <1>2 DEF AppendLine
  <2>2. Len(lines) \in 1..Len(lines) /\ lines \in Seq(Line)  BY <1>2 DEF TypeOK
  <2> QED BY <1>1, <1>2, <2>1, <2>2, ExceptSeq
<1>3. CASE ~torn
  <2>1. lines' = Append(lines, r)  BY <1>3 DEF AppendLine
  <2>2. lines \in Seq(Line)  BY DEF TypeOK
  <2> QED BY <1>3, <2>1, <2>2, AppendProperties
<1> QED BY <1>2, <1>3 DEF TypeOK

-----------------------------------------------------------------------------
(* The values init() recovers have the types of the fields                 *)

\* The lines among the last 8192 bytes are a finite set of line numbers, so
\* that a last one exists when there is any (the backwards loop of init()).
LEMMA TailFinite ==
    ASSUME TypeOK
    PROVE  Tail8K \in SUBSET Int /\ IsFiniteSet(Tail8K)
<1>1. fileStart \in Int /\ Len(lines) \in Int  BY DEF TypeOK
<1>2. IsFiniteSet(fileStart..Len(lines))  BY <1>1, FS_Interval
<1>3. Tail8K \subseteq fileStart..Len(lines)  BY DEF Tail8K
<1>4. IsFiniteSet(Tail8K)  BY <1>2, <1>3, FS_Subset
<1> QED BY <1>1, <1>3, <1>4

\* What recoverState() leaves in the fields has their types, whether there is
\* no state file, a good one or a damaged one.
LEMMA RecoveredFields ==
    ASSUME TypeOK
    PROVE  /\ Recovered.lastHash \in Nat /\ Recovered.rotationBoundaryHash \in Nat
           /\ Recovered.checkpointSequence \in Nat
           /\ Recovered.totalRecordCount \in Nat
  BY DEF TypeOK, Recovered, State, NoState, CorruptState, genesis

\* The head init() finds, in the tail or in the state file, is a hash.
LEMMA RecoveredHeadType == TypeOK => RecoveredHead \in Nat
<1> SUFFICES ASSUME TypeOK PROVE RecoveredHead \in Nat  OBVIOUS
<1>1. CASE ReadsTail /\ Tail8K # {}
  <2>1. Max(Tail8K) \in Tail8K  BY <1>1, TailFinite, MaxIsGreatest
  <2> DEFINE m == Max(Tail8K)
  <2>2. m \in DOMAIN lines /\ Parses(lines[m])
    BY <2>1 DEF TypeOK, Tail8K
  <2>3. lines[m] \in Line  BY <2>2 DEF TypeOK
  <2>4. hashRecord(lines[m]) \in Nat  BY <2>2, <2>3, ParsedIsRecord, RecordHash
  <2> QED BY <1>1, <2>4 DEF RecoveredHead
<1>2. CASE ~(ReadsTail /\ Tail8K # {})
  BY <1>2, RecoveredFields DEF RecoveredHead
<1> QED BY <1>1, <1>2

\* The checkpoint sequence init() finds is a natural number: the greatest of
\* the one in the state file and those seen in the tail.
LEMMA RecoveredSequenceType == TypeOK => RecoveredSequence \in Nat
<1> SUFFICES ASSUME TypeOK PROVE RecoveredSequence \in Nat  OBVIOUS
<1> DEFINE at   == {j \in Tail8K : isCheckpoint(lines[j])}
           seen == {lines[i].sequence : i \in at}
           all  == {Recovered.checkpointSequence} \cup IF ReadsTail THEN seen ELSE {}
<1>1. IsFiniteSet(at)  BY TailFinite, FS_Subset
<1>2. IsFiniteSet(seen)
  <2> HIDE DEF at
  <2> DEFINE f == [i \in at |-> lines[i].sequence]
  <2>1. f \in Surjection(at, seen)  BY DEF Surjection
  <2> QED BY <1>1, <2>1, FS_Surjection
<1>3. seen \subseteq Nat
  <2>1. ASSUME NEW i \in at PROVE lines[i].sequence \in Nat
    <3>1. i \in DOMAIN lines /\ Parses(lines[i])  BY <2>1 DEF TypeOK, Tail8K
    <3>2. lines[i] \in Line  BY <3>1 DEF TypeOK
    <3>3. lines[i] \in ChainRecord  BY <3>1, <3>2, ParsedIsRecord
    <3> QED BY <3>3 DEF ChainRecord
  <2> QED BY <2>1
<1>4. IsFiniteSet(all)
  <2> HIDE DEF seen
  <2>1. IsFiniteSet({}) /\ IsFiniteSet({Recovered.checkpointSequence})
    BY FS_EmptySet, FS_Singleton
  <2> QED BY <1>2, <2>1, FS_Union
<1>5. all # {} /\ all \subseteq Nat
  BY <1>3, RecoveredFields
<1>6. Max(all) \in all
  <2> HIDE DEF all
  <2> QED BY <1>4, <1>5, MaxIsGreatest
<1>7. RecoveredSequence = Max(all)  BY DEF RecoveredSequence
<1> QED BY <1>5, <1>6, <1>7

\* So is the count, from the state file or from the lines.
LEMMA RecoveredCountType == TypeOK => RecoveredCount \in Nat
  BY TailFinite, FS_CardinalityType, RecoveredFields DEF RecoveredCount

-----------------------------------------------------------------------------
(* Every action keeps the types                                            *)

\* An appended record moves the head to a hash and keeps the file well typed.
LEMMA AppendKeepsTypes ==
    ASSUME TypeOK, NEW c \in Slots, pc[c] \in Appending,
           AppendLine(draft[c]), torn' = FALSE, UNCHANGED fileStart
    PROVE  /\ lines' \in Seq(Line) /\ fileStart' \in 1..(Len(lines') + 1)
           /\ torn' \in BOOLEAN /\ (torn' => fileStart' <= Len(lines'))
           /\ HeadAfter(draft[c]) \in Nat /\ hashRecord(draft[c]) \in Nat
<1>1. draft[c] \in ChainRecord  BY DEF TypeOK
<1>2. draft[c] \in Line /\ hashRecord(draft[c]) \in Nat  BY <1>1, RecordHash
<1>3. lines' \in Seq(Line) /\ Len(lines') >= Len(lines)
  BY <1>2, AppendLineType DEF TypeOK
<1>4. fileStart' \in 1..(Len(lines') + 1)  BY <1>3 DEF TypeOK
<1> QED BY <1>2, <1>3, <1>4 DEF HeadAfter

\* So does a torn append.
LEMMA TornKeepsTypes ==
    ASSUME TypeOK, NEW c \in Slots, pc[c] \in Appending,
           TornAppend(draft[c]), UNCHANGED fileStart
    PROVE  /\ lines' \in Seq(Line) /\ fileStart' \in 1..(Len(lines') + 1)
           /\ torn' \in BOOLEAN /\ (torn' => fileStart' <= Len(lines'))
<1>1. draft[c] \in ChainRecord  BY DEF TypeOK
<1>2. PICK r \in {TornLine, draft[c]} : AppendLine(r)  BY DEF TornAppend
<1>3. r \in Line  BY <1>1, <1>2, RecordHash DEF Line
<1>4. lines' \in Seq(Line) /\ Len(lines') = IF torn THEN Len(lines) ELSE Len(lines) + 1
  BY <1>2, <1>3, AppendLineType
<1> QED BY <1>4 DEF TypeOK, TornAppend

\* Taking a record to an append point keeps pc, draft and nextHash well typed.
LEMMA DraftKeepsTypes ==
    ASSUME TypeOK, NEW c \in Slots, NEW r \in ChainRecord,
           NEW point \in Appending, Draft(c, r, point)
    PROVE  /\ pc' \in [Slots -> Points] /\ draft' \in [Slots -> Line]
           /\ \A d \in Slots : pc'[d] \in Appending => draft'[d] \in ChainRecord
           /\ nextHash' \in Nat \ {genesis}
<1>1. point \in Points /\ r \in Line  BY RecordHash DEF Points, InFlight
<1> QED BY <1>1 DEF TypeOK, Draft, genesis

\* Moving call c to a point where it appends nothing.
LEMMA MoveKeepsTypes ==
    ASSUME TypeOK, NEW c \in Slots, NEW point \in Points \ Appending,
           pc' = [pc EXCEPT ![c] = point], UNCHANGED draft
    PROVE  /\ pc' \in [Slots -> Points] /\ draft' \in [Slots -> Line]
           /\ \A d \in Slots : pc'[d] \in Appending => draft'[d] \in ChainRecord
  BY DEF TypeOK

\* A call that goes on to rename, persist or settle is about to append nothing.
LEMMA OtherPoints ==
    /\ {"queued", "rename", "persist", "persist_chain", "resolved", "rejected", "lost"}
         \subseteq Points \ Appending
    /\ \A size \in Nat : AfterAppends(size) \in Points \ Appending
  BY DEF Points, InFlight, Appending, Settled, AfterAppends

\* What persistState() and persistChainState() write is a state file.
LEMMA StateOfType ==
    ASSUME TypeOK, NEW boundary \in Nat
    PROVE  StateOf(boundary) \in State
  BY DEF TypeOK, StateOf, State

\* Every action keeps the types: one step per action of Next.
LEMMA TypeStep == TypeOK /\ [Next]_vars => TypeOK'
<1> SUFFICES ASSUME TypeOK, [Next]_vars PROVE TypeOK'
  OBVIOUS
<1> USE DEF vars, disk, memory, counters, control
<1>1. ASSUME NEW c \in Calls, NEW o \in Ops, Enqueue(c, o) PROVE TypeOK'
  <2>1. c \in Slots /\ o \in AllOps \cup {"none"}
    BY ConstantsAssumption DEF Slots
  <2> QED BY <1>1, <2>1, MoveKeepsTypes, OtherPoints DEF Enqueue, TypeOK
<1>2. ASSUME NEW c \in Calls, StartRecord(c) PROVE TypeOK'
  <2>1. AuditRecord(nextHash, lastHash) \in ChainRecord /\ c \in Slots
    BY RecordTypes DEF TypeOK, Slots
  <2> QED BY <1>2, <2>1, DraftKeepsTypes DEF StartRecord, TypeOK, Appending
<1>3. ASSUME NEW c \in Calls, StartToolDrift(c) PROVE TypeOK'
  <2>1. ToolDriftRecord(nextHash, lastHash, DetectedAt) \in ChainRecord /\ c \in Slots
    BY RecordTypes DEF TypeOK, Slots, DetectedAt
  <2> QED BY <1>3, <2>1, DraftKeepsTypes DEF StartToolDrift, TypeOK, Appending
<1>4. ASSUME NEW c \in Calls, StartCheckpoint(c) PROVE TypeOK'
  <2>1. NextSequence \in Nat /\ c \in Slots  BY DEF TypeOK, NextSequence, Slots
  <2>2. CheckpointRecord(nextHash, lastHash, NextSequence, totalRecordCount) \in ChainRecord
    BY <2>1, RecordTypes DEF TypeOK
  <2> QED BY <1>4, <2>1, <2>2, DraftKeepsTypes
          DEF StartCheckpoint, BeginCheckpoint, TypeOK, Appending
<1>5. ASSUME NEW c \in Calls, StartBreak(c) PROVE TypeOK'
  <2>1. ChainBreakRecord(nextHash, lastHash) \in ChainRecord /\ c \in Slots
    BY RecordTypes DEF TypeOK, Slots
  <2> QED BY <1>5, <2>1, DraftKeepsTypes DEF StartBreak, TypeOK, Appending
<1>6. ASSUME NEW c \in Slots, AppendRecord(c) PROVE TypeOK'
  <2>1. pc[c] \in Appending  BY <1>6 DEF AppendRecord, Appending
  <2>2. AppendLine(draft[c]) /\ torn' = FALSE /\ UNCHANGED fileStart
    BY <1>6 DEF AppendRecord
  <2>3. /\ lines' \in Seq(Line) /\ fileStart' \in 1..(Len(lines') + 1)
        /\ torn' \in BOOLEAN /\ (torn' => fileStart' <= Len(lines'))
        /\ HeadAfter(draft[c]) \in Nat /\ hashRecord(draft[c]) \in Nat
    BY <2>1, <2>2, AppendKeepsTypes
  <2>4. /\ currentSize' \in Nat /\ lastHash' \in Nat /\ totalRecordCount' \in Nat
        /\ recordsSinceCheckpoint' \in Nat /\ written' \in [Slots -> Nat]
        /\ stateFile' \in State /\ rotationBoundaryHash' \in Nat
        /\ proc' \in {"down", "starting", "up", "refused"}
        /\ op' \in [Calls -> AllOps \cup {"none"}] /\ boots' \in Nat
    BY <1>6, <2>3 DEF AppendRecord, TypeOK
  <2>5. CASE BeginCheckpoint(c, lastHash', totalRecordCount')
    <3>1. NextSequence \in Nat  BY DEF TypeOK, NextSequence
    <3>2. CheckpointRecord(nextHash, lastHash', NextSequence, totalRecordCount') \in ChainRecord
      BY <2>4, <3>1, RecordTypes DEF TypeOK
    <3> QED BY <2>3, <2>4, <2>5, <3>1, <3>2, DraftKeepsTypes
            DEF BeginCheckpoint, TypeOK, Appending
  <2>6. CASE /\ pc' = [pc EXCEPT ![c] = AfterAppends(currentSize')]
             /\ UNCHANGED <<checkpointSequence, draft, nextHash>>
    <3>1. AfterAppends(currentSize') \in Points \ Appending  BY <2>4, OtherPoints
    <3> QED BY <2>3, <2>4, <2>6, <3>1, MoveKeepsTypes DEF TypeOK
  <2> QED BY <1>6, <2>5, <2>6 DEF AppendRecord
<1>7. ASSUME NEW c \in Slots, AppendCheckpoint(c) PROVE TypeOK'
  <2>1. pc[c] \in Appending  BY <1>7 DEF AppendCheckpoint, Appending
  <2>2. AppendLine(draft[c]) /\ torn' = FALSE /\ UNCHANGED fileStart
    BY <1>7 DEF AppendCheckpoint
  <2>3. /\ lines' \in Seq(Line) /\ fileStart' \in 1..(Len(lines') + 1)
        /\ torn' \in BOOLEAN /\ (torn' => fileStart' <= Len(lines'))
        /\ HeadAfter(draft[c]) \in Nat /\ hashRecord(draft[c]) \in Nat
    BY <2>1, <2>2, AppendKeepsTypes
  <2>4. currentSize' \in Nat /\ written' \in [Slots -> Nat]
    <3>1. \/ written' = [written EXCEPT ![c] = hashRecord(draft[c])]
          \/ written' = written
      BY <1>7 DEF AppendCheckpoint
    <3>2. currentSize' \in Nat /\ written \in [Slots -> Nat]
      BY <1>7 DEF AppendCheckpoint, TypeOK
    <3> QED BY <2>3, <3>1, <3>2
  <2>5. \E point \in Points \ Appending : pc' = [pc EXCEPT ![c] = point]
    BY <1>7, <2>4, OtherPoints DEF AppendCheckpoint
  <2> QED BY <1>7, <2>3, <2>4, <2>5, MoveKeepsTypes DEF AppendCheckpoint, TypeOK
<1>8. ASSUME NEW c \in Slots, AppendBreak(c) PROVE TypeOK'
  <2>1. pc[c] \in Appending  BY <1>8 DEF AppendBreak, Appending
  <2>2. AppendLine(draft[c]) /\ torn' = FALSE /\ UNCHANGED fileStart
    BY <1>8 DEF AppendBreak
  <2>3. /\ lines' \in Seq(Line) /\ fileStart' \in 1..(Len(lines') + 1)
        /\ torn' \in BOOLEAN /\ (torn' => fileStart' <= Len(lines'))
        /\ HeadAfter(draft[c]) \in Nat /\ hashRecord(draft[c]) \in Nat
    BY <2>1, <2>2, AppendKeepsTypes
  <2> QED BY <1>8, <2>3, MoveKeepsTypes, OtherPoints DEF AppendBreak, TypeOK
<1>9. ASSUME NEW c \in Slots, WriteFails(c) PROVE TypeOK'
  BY <1>9, MoveKeepsTypes, OtherPoints DEF WriteFails, Reject, TypeOK
<1>10. ASSUME NEW c \in Slots, WriteTorn(c) PROVE TypeOK'
  <2>1. /\ lines' \in Seq(Line) /\ fileStart' \in 1..(Len(lines') + 1)
        /\ torn' \in BOOLEAN /\ (torn' => fileStart' <= Len(lines'))
    BY <1>10, TornKeepsTypes DEF WriteTorn
  <2> QED BY <1>10, <2>1, MoveKeepsTypes, OtherPoints DEF WriteTorn, Reject, TypeOK
<1>11. ASSUME NEW c \in Slots, Rename(c) PROVE TypeOK'
  <2>1. fileStart' \in 1..(Len(lines') + 1)  BY <1>11 DEF Rename, TypeOK
  <2> QED BY <1>11, <2>1, MoveKeepsTypes, OtherPoints DEF Rename, HeadAfterRotation, TypeOK
<1>12. ASSUME NEW c \in Slots, RenameFails(c) PROVE TypeOK'
  BY <1>12, MoveKeepsTypes, OtherPoints DEF RenameFails, TypeOK
<1>13. ASSUME NEW c \in Slots, PersistState(c) PROVE TypeOK'
  <2>1. StateOf(RotationBoundary) \in State
    BY StateOfType DEF TypeOK, RotationBoundary
  <2> QED BY <1>13, <2>1, MoveKeepsTypes, OtherPoints DEF PersistState, TypeOK
<1>14. ASSUME NEW c \in Slots, PersistStateFails(c) PROVE TypeOK'
  BY <1>14, MoveKeepsTypes, OtherPoints DEF PersistStateFails, TypeOK
<1>15. ASSUME NEW c \in Slots, PersistChainState(c) PROVE TypeOK'
  <2>1. StateOf(rotationBoundaryHash) \in State  BY StateOfType DEF TypeOK
  <2> QED BY <1>15, <2>1, MoveKeepsTypes, OtherPoints DEF PersistChainState, TypeOK
<1>16. ASSUME NEW c \in Slots, PersistChainStateFails(c) PROVE TypeOK'
  BY <1>16, MoveKeepsTypes, OtherPoints DEF PersistChainStateFails, Reject, TypeOK
<1>17. CASE Stop
  <2>1. /\ lines' \in Seq(Line) /\ fileStart' \in 1..(Len(lines') + 1)
        /\ torn' \in BOOLEAN /\ (torn' => fileStart' <= Len(lines'))
    <3>1. CASE UNCHANGED <<lines, torn>>  BY <1>17, <3>1 DEF Stop, TypeOK
    <3>2. ASSUME NEW c \in Slots, pc[c] \in Appending,
                 (AppendLine(draft[c]) /\ torn' = FALSE) \/ TornAppend(draft[c])
          PROVE  /\ lines' \in Seq(Line) /\ fileStart' \in 1..(Len(lines') + 1)
                 /\ torn' \in BOOLEAN /\ (torn' => fileStart' <= Len(lines'))
      BY <1>17, <3>2, AppendKeepsTypes, TornKeepsTypes DEF Stop
    <3> QED BY <1>17, <3>1, <3>2 DEF Stop
  <2>2. /\ pc' \in [Slots -> Points]
        /\ \A d \in Slots : pc'[d] \in Appending => draft'[d] \in ChainRecord
    <3>1. \A d \in Slots : pc'[d] = IF pc[d] = "queued" \/ pc[d] \in InFlight
                                    THEN "lost" ELSE pc[d]
      BY <1>17 DEF Stop, TypeOK
    <3>2. DOMAIN pc' = Slots /\ pc' = [c \in DOMAIN pc' |-> pc'[c]]
      BY <1>17 DEF Stop, TypeOK
    <3>3. \A d \in Slots : pc'[d] \in Points \ Appending
      BY <3>1, OtherPoints DEF TypeOK, InFlight
    <3> QED BY <3>2, <3>3
  <2> QED BY <1>17, <2>1, <2>2 DEF Stop, TypeOK, genesis
<1>18. CASE DamageState
  BY <1>18 DEF DamageState, TypeOK, State
<1>19. ASSUME RecoverMemory
       PROVE  /\ lastHash' \in Nat /\ rotationBoundaryHash' \in Nat
              /\ checkpointSequence' \in Nat /\ totalRecordCount' \in Nat
              /\ recordsSinceCheckpoint' \in Nat /\ currentSize' \in Nat
  <2>1. currentSize' \in Nat
    BY <1>19 DEF RecoverMemory, LogIsEmpty, TypeOK
  <2> QED BY <1>19, <2>1, RecoveredHeadType, RecoveredSequenceType,
             RecoveredCountType, RecoveredFields DEF RecoverMemory
<1>20. CASE Resume
  <2>1. Boot \in Slots /\ "resolved" \in Points \ Appending  BY OtherPoints DEF Slots
  <2>2. pc' = [pc EXCEPT ![Boot] = "resolved"] /\ UNCHANGED draft /\ proc' = "up"
    BY <1>20 DEF Resume
  <2>3. /\ pc' \in [Slots -> Points] /\ draft' \in [Slots -> Line]
        /\ \A d \in Slots : pc'[d] \in Appending => draft'[d] \in ChainRecord
    BY <2>1, <2>2, MoveKeepsTypes
  <2>4. /\ UNCHANGED <<lines, fileStart, torn, stateFile, op, written, nextHash>>
        /\ boots' \in Nat
    BY <1>20 DEF Resume, InitRuns, TypeOK, disk
  <2>5. /\ lastHash' \in Nat /\ rotationBoundaryHash' \in Nat
        /\ checkpointSequence' \in Nat /\ totalRecordCount' \in Nat
        /\ recordsSinceCheckpoint' \in Nat /\ currentSize' \in Nat
    BY <1>19, <1>20 DEF Resume
  <2> QED BY <2>2, <2>3, <2>4, <2>5 DEF TypeOK
<1>21. CASE Refuse
  BY <1>21 DEF Refuse, InitRuns, TypeOK
<1>22. CASE StartForced
  <2>1. Boot \in Slots /\ lastHash' \in Nat  BY <1>19, <1>22 DEF Slots, StartForced
  <2>2. ChainBreakRecord(nextHash, lastHash') \in ChainRecord
    BY <2>1, RecordTypes DEF TypeOK
  <2>3. /\ pc' \in [Slots -> Points] /\ draft' \in [Slots -> Line]
        /\ \A d \in Slots : pc'[d] \in Appending => draft'[d] \in ChainRecord
        /\ nextHash' \in Nat \ {genesis}
    <3>1. Draft(Boot, ChainBreakRecord(nextHash, lastHash'), "append_break")
          /\ "append_break" \in Appending
      BY <1>22 DEF StartForced, Appending
    <3> QED BY <2>1, <2>2, <3>1, DraftKeepsTypes
  <2> QED BY <1>19, <1>22, <2>3 DEF StartForced, InitRuns, TypeOK
<1>23. CASE UNCHANGED vars
  BY <1>23 DEF TypeOK
<1> QED BY <1>1, <1>2, <1>3, <1>4, <1>5, <1>6, <1>7, <1>8, <1>9, <1>10, <1>11,
           <1>12, <1>13, <1>14, <1>15, <1>16, <1>17, <1>18, <1>20, <1>21,
           <1>22, <1>23
        DEF Next, Step, Call, Start, Environment, Boots, Finished

\* Type correctness, whatever the environment does: in particular a call that
\* is about to append always has a well-formed record at hand, and init()
\* recovers a proper hash and counters from any file it accepts.
THEOREM TypeCorrect == Spec => []TypeOK
<1>1. Init => TypeOK
  <2> SUFFICES ASSUME Init PROVE TypeOK  OBVIOUS
  <2>1. lines \in Seq(Line) /\ Len(lines) = 0  BY DEF Init
  <2>2. pc \in [Slots -> Points] /\ \A c \in Slots : pc[c] \notin Appending
    BY DEF Init, Points, Settled, Appending
  <2>3. TornLine \in Line /\ NoState \in State  BY DEF Line, State
  <2>4. /\ draft \in [Slots -> Line] /\ written \in [Slots -> Nat]
        /\ op \in [Calls -> AllOps \cup {"none"}]
    BY <2>3 DEF Init, genesis
  <2>5. fileStart \in 1..(Len(lines) + 1) /\ (torn => fileStart <= Len(lines))
    BY <2>1 DEF Init
  <2>6. /\ lastHash \in Nat /\ rotationBoundaryHash \in Nat /\ currentSize \in Nat
        /\ recordsSinceCheckpoint \in Nat /\ checkpointSequence \in Nat
        /\ totalRecordCount \in Nat /\ nextHash \in Nat \ {genesis} /\ boots \in Nat
    BY SMT DEF Init, genesis
  <2>7. proc \in {"down", "starting", "up", "refused"} /\ torn \in BOOLEAN
    BY DEF Init
  <2>8. stateFile \in State  BY <2>3 DEF Init
  <2> QED BY <2>1, <2>2, <2>4, <2>5, <2>6, <2>7, <2>8 DEF TypeOK
<1> QED BY <1>1, TypeStep, PTL DEF Spec

-----------------------------------------------------------------------------
(* One call in flight                                                      *)

\* A call is the break of init() or one of the owner's calls.
LEMMA SlotCases == \A c \in Slots : c = Boot \/ c \in Calls
  BY DEF Slots

\* How the points of a call divide.
LEMMA PointFacts ==
    /\ {"append_record", "append_checkpoint", "append_break"} = Appending
    /\ Appending \subseteq InFlight
    /\ {"rename", "persist", "persist_chain"} \subseteq InFlight
    /\ {"rename", "persist", "persist_chain", "queued", "new"} \cap (Appending \cup Settled) = {}
    /\ {"queued", "new"} \cap InFlight = {}
    /\ {"resolved", "rejected", "lost"} = Settled
    /\ Settled \cap InFlight = {}
    /\ Boot \in Slots /\ Calls \subseteq Slots /\ Boot \notin Calls
  BY ConstantsAssumption DEF Appending, InFlight, Settled, Slots, Calls, Boot

\* At most one call is in flight.
LEMMA InFlightUnique ==
    ASSUME OneInFlight, NEW c \in Slots, pc[c] \in InFlight,
           NEW d \in Slots, pc[d] \in InFlight
    PROVE  c = d
<1>1. InFlight \cap Settled = {}  BY DEF InFlight, Appending, Settled
<1>2. CASE c = Boot \/ d = Boot
  <2>1. proc = "starting"  BY <1>2 DEF OneInFlight
  <2>2. \A e \in Calls : pc[e] \notin InFlight  BY <2>1 DEF OneInFlight
  <2> QED BY <1>2, <2>2, SlotCases
<1>3. CASE c \in Calls /\ d \in Calls
  <2>1. \A e \in Slots : e < c \/ e < d => pc[e] \in Settled  BY <1>3 DEF OneInFlight
  <2>2. ~(c < d) /\ ~(d < c)  BY <1>1, <2>1
  <2> QED BY <1>3, <2>2, ConstantsAssumption DEF Calls
<1> QED BY <1>2, <1>3, SlotCases

\* Nothing is in flight when a call may start.
LEMMA ReadyAlone ==
    ASSUME OneInFlight, NEW c \in Calls, Ready(c)
    PROVE  \A d \in Slots : pc[d] \notin InFlight
<1> SUFFICES ASSUME NEW d \in Slots, pc[d] \in InFlight PROVE FALSE
  OBVIOUS
<1>1. InFlight \cap Settled = {} /\ "queued" \notin Settled \cup InFlight
  BY DEF InFlight, Appending, Settled
<1>2. pc[c] = "queued" /\ (\A e \in Slots : e < c => pc[e] \in Settled) /\ c \in Slots
  BY DEF Ready, PredecessorsSettled, Slots
<1>3. ~(d < c) /\ d # c  BY <1>1, <1>2
<1>4. d \in Calls  BY <1>3, SlotCases, ConstantsAssumption DEF Boot, Calls
<1>5. c < d  BY <1>3, <1>4, ConstantsAssumption DEF Calls
<1> QED BY <1>1, <1>2, <1>4, <1>5 DEF OneInFlight

\* A call in flight that moves on, or settles, leaves the others where they are.
LEMMA MoveOn ==
    ASSUME TypeOK, OneInFlight, NEW c \in Slots, pc[c] \in InFlight,
           NEW point \in InFlight \cup Settled,
           pc' = [pc EXCEPT ![c] = point],
           c \in Calls => proc' = proc,
           c = Boot => /\ point \in Settled \cup {"persist_chain"}
                       /\ point \in InFlight <=> proc' = "starting"
    PROVE  /\ OneInFlight'
           /\ \A d \in Slots : d # c => pc'[d] \notin InFlight
           /\ pc'[c] = point
<1>1. pc'[c] = point /\ \A d \in Slots : d # c => pc'[d] = pc[d]  BY DEF TypeOK
<1>2. \A d \in Slots : d # c => pc'[d] \notin InFlight  BY <1>1, InFlightUnique
<1>3. CASE c = Boot
  <2>1. \A d \in Calls : pc'[d] \notin InFlight
    BY <1>2, <1>3, ConstantsAssumption DEF Calls, Boot, Slots
  <2> QED BY <1>1, <1>2, <1>3, <2>1 DEF OneInFlight
<1>4. CASE c \in Calls
  <2>1. c # Boot /\ Boot \in Slots  BY <1>4, ConstantsAssumption DEF Calls, Boot, Slots
  <2>2. proc' = proc /\ proc = "up" /\ \A d \in Slots : d < c => pc[d] \in Settled
    BY <1>4 DEF OneInFlight
  <2>3. \A d \in Slots : d < c => pc'[d] \in Settled
    BY <1>1, <1>4, <2>2, ConstantsAssumption DEF Calls
  <2>4. \A d \in Calls : pc'[d] \in InFlight => d = c  BY <1>2 DEF Slots
  <2> QED BY <1>1, <1>2, <2>1, <2>2, <2>3, <2>4 DEF OneInFlight
<1> QED BY <1>3, <1>4, SlotCases

\* So does a call that starts.
LEMMA StartOn ==
    ASSUME TypeOK, OneInFlight, NEW c \in Calls, Ready(c),
           NEW point \in Appending,
           pc' = [pc EXCEPT ![c] = point], UNCHANGED proc
    PROVE  /\ OneInFlight'
           /\ \A d \in Slots : d # c => pc'[d] \notin InFlight
           /\ pc'[c] = point
<1>1. c # Boot /\ c \in Slots /\ Boot \in Slots
  BY ConstantsAssumption DEF Calls, Boot, Slots
<1>2. pc'[c] = point /\ \A d \in Slots : d # c => pc'[d] = pc[d]  BY <1>1 DEF TypeOK
<1>3. \A d \in Slots : pc[d] \notin InFlight  BY ReadyAlone
<1>4. \A d \in Slots : d < c => pc'[d] \in Settled
  BY <1>1, <1>2, ConstantsAssumption DEF Ready, PredecessorsSettled, Calls
<1>5. proc = "up"  BY DEF Ready
<1>6. \A d \in Calls : d # c => pc'[d] \notin InFlight  BY <1>2, <1>3 DEF Slots
<1> QED BY <1>1, <1>2, <1>3, <1>4, <1>5, <1>6 DEF OneInFlight

\* Each step of a call takes it from one point in flight to another, or settles it.
LEMMA StepIsSerial ==
    ASSUME TypeOK, OneInFlight, NEW c \in Slots, Step(c)
    PROVE  OneInFlight'
<1>0. /\ c = Boot => pc[c] \in {"append_break", "persist_chain"} \cup Settled
      /\ pc[Boot] \in InFlight <=> proc = "starting"
  BY DEF OneInFlight
<1>1. CASE AppendRecord(c) \/ AppendCheckpoint(c)
  <2>1. pc[c] \in Appending /\ c # Boot /\ UNCHANGED proc
    BY <1>0, <1>1, PointFacts DEF AppendRecord, AppendCheckpoint
  <2>2. \E point \in {"append_checkpoint", "rename", "resolved"} :
           pc' = [pc EXCEPT ![c] = point]
    BY <1>1 DEF AppendRecord, AppendCheckpoint, BeginCheckpoint, Draft, AfterAppends
  <2> QED BY <2>1, <2>2, MoveOn, PointFacts
<1>2. CASE AppendBreak(c)
  <2>1. /\ pc[c] \in Appending /\ UNCHANGED proc
        /\ pc' = [pc EXCEPT ![c] = "persist_chain"]
    BY <1>2, PointFacts DEF AppendBreak
  <2> QED BY <1>0, <2>1, MoveOn, PointFacts
<1>3. CASE WriteFails(c) \/ WriteTorn(c) \/ PersistChainStateFails(c)
  <2>1. pc[c] \in InFlight /\ Reject(c)
    BY <1>3, PointFacts DEF WriteFails, WriteTorn, PersistChainStateFails
  <2>2. /\ pc' = [pc EXCEPT ![c] = "rejected"]
        /\ c \in Calls => proc' = proc
        /\ c = Boot => proc' = "refused"
    BY <2>1, PointFacts DEF Reject
  <2> QED BY <2>1, <2>2, MoveOn, PointFacts
<1>4. CASE Rename(c) \/ RenameFails(c) \/ PersistState(c) \/ PersistStateFails(c)
  <2>1. pc[c] \in {"rename", "persist"} /\ c # Boot /\ UNCHANGED proc
    BY <1>0, <1>4, PointFacts
    DEF Rename, RenameFails, PersistState, PersistStateFails
  <2>2. \E point \in {"persist", "resolved"} : pc' = [pc EXCEPT ![c] = point]
    BY <1>4 DEF Rename, RenameFails, PersistState, PersistStateFails
  <2> QED BY <2>1, <2>2, MoveOn, PointFacts
<1>5. CASE PersistChainState(c)
  <2>1. /\ pc[c] = "persist_chain" /\ pc' = [pc EXCEPT ![c] = "resolved"]
        /\ proc' = IF c = Boot THEN "up" ELSE proc
    BY <1>5 DEF PersistChainState
  <2>2. c \in Calls => proc' = proc  BY <2>1, PointFacts
  <2> QED BY <2>1, <2>2, MoveOn, PointFacts
<1> QED BY <1>1, <1>2, <1>3, <1>4, <1>5 DEF Step

\* A call that is made waits; one that starts has no other in flight.
LEMMA CallIsSerial ==
    ASSUME TypeOK, OneInFlight, NEW c \in Calls, Call(c)
    PROVE  OneInFlight'
<1>1. ASSUME NEW o \in Ops, Enqueue(c, o) PROVE OneInFlight'
  <2>1. pc[c] = "new" /\ pc' = [pc EXCEPT ![c] = "queued"] /\ UNCHANGED proc
    BY <1>1 DEF Enqueue
  <2>2. pc'[c] = "queued" /\ \A d \in Slots : d # c => pc'[d] = pc[d]
    BY <2>1, PointFacts DEF TypeOK
  <2> QED BY <2>1, <2>2, PointFacts DEF OneInFlight
<1>2. CASE Start(c)
  <2>1. Ready(c) /\ UNCHANGED proc /\ \E point \in Appending : pc' = [pc EXCEPT ![c] = point]
    BY <1>2, PointFacts DEF Start, StartRecord, StartToolDrift, StartCheckpoint,
       StartBreak, BeginCheckpoint, Draft
  <2> QED BY <2>1, StartOn
<1> QED BY <1>1, <1>2 DEF Call

\* After a stop no call is queued or in flight any more.
LEMMA StopSettles ==
    ASSUME TypeOK, OneInFlight, Stop
    PROVE  /\ \A c \in Slots : pc'[c] \notin InFlight
           /\ pc'[Boot] \in Settled
<1>1. \A c \in Slots : pc'[c] = IF pc[c] = "queued" \/ pc[c] \in InFlight
                                THEN "lost" ELSE pc[c]
  BY DEF Stop, TypeOK
<1>2. pc[Boot] \in Settled \cup InFlight  BY PointFacts DEF OneInFlight
<1> QED BY <1>1, <1>2, PointFacts

\* The start of the process has at most its own break in flight.
LEMMA BootIsSerial ==
    ASSUME TypeOK, OneInFlight, Boots \/ DamageState
    PROVE  OneInFlight'
<1>1. proc \in {"down", "refused"}
  BY DEF Boots, Resume, Refuse, StartForced, DamageState
<1>2. \A c \in Slots : pc[c] \notin InFlight
  BY <1>1, PointFacts, SlotCases DEF OneInFlight
<1>3. pc[Boot] \in Settled  BY <1>2, PointFacts DEF OneInFlight
<1>4. \/ UNCHANGED pc /\ proc' # "starting"
      \/ pc' = [pc EXCEPT ![Boot] = "resolved"] /\ proc' = "up"
      \/ pc' = [pc EXCEPT ![Boot] = "append_break"] /\ proc' = "starting"
  BY <1>1 DEF Boots, Resume, Refuse, StartForced, DamageState, Draft, control
<1>5. \A c \in Calls : pc'[c] = pc[c] /\ c \in Slots  BY <1>4, PointFacts DEF TypeOK
<1>6. UNCHANGED pc \/ pc'[Boot] \in {"resolved", "append_break"}
  BY <1>4, PointFacts DEF TypeOK
<1> QED BY <1>2, <1>3, <1>4, <1>5, <1>6, PointFacts DEF OneInFlight, TypeOK

\* OneInFlight is inductive.
LEMMA SerialStep ==
    ASSUME TypeOK, OneInFlight, [Next]_vars
    PROVE  OneInFlight'
<1>1. CASE UNCHANGED vars  BY <1>1 DEF vars, control, OneInFlight
<1>2. CASE Stop
  <2>1. proc' = "down"  BY <1>2 DEF Stop
  <2> QED BY <1>2, <2>1, StopSettles, PointFacts DEF OneInFlight
<1>3. CASE Next /\ ~Stop
  BY <1>1, <1>3, StepIsSerial, CallIsSerial, BootIsSerial DEF Next, Environment, Finished
<1> QED BY <1>1, <1>2, <1>3

\* OneInFlight holds before anything is written.
LEMMA SerialInit == Init => OneInFlight
<1> SUFFICES ASSUME Init PROVE OneInFlight  OBVIOUS
<1>1. proc = "down" /\ \A c \in Slots : pc[c] = IF c = Boot THEN "resolved" ELSE "new"
  BY DEF Init
<1> QED BY <1>1, PointFacts DEF OneInFlight

\* Calls are serialised, whatever fails: from the first await of a call to its
\* last no other call moves, the calls before it are over, and init() writes
\* its break before the first of them (writeQueue, init).
THEOREM CallsAreSerial == Spec => []OneInFlight
<1>1. Init => OneInFlight  BY SerialInit
<1>2. TypeOK /\ OneInFlight /\ [Next]_vars => OneInFlight'  BY SerialStep
<1> QED BY <1>1, <1>2, TypeCorrect, PTL DEF Spec

-----------------------------------------------------------------------------
(* What one append does to a file without torn lines                       *)

\* With no torn line at the end, an append adds exactly one line, readable if
\* the record is, and leaves the others.
LEMMA CleanAppend ==
    ASSUME TypeOK, NothingTorn, NEW r \in ChainRecord, AppendLine(r), torn' = FALSE
    PROVE  /\ lines' \in Seq(Line) /\ Len(lines') = Len(lines) + 1
           /\ \A i \in 1..Len(lines) : lines'[i] = lines[i]
           /\ lines'[Len(lines')] = r
           /\ NothingTorn'
<1>1. lines \in Seq(Line) /\ r \in Line /\ Parses(r)  BY RecordHash DEF TypeOK
<1>2. lines' = Append(lines, r)  BY DEF AppendLine, NothingTorn
<1>3. /\ lines' \in Seq(Line) /\ Len(lines') = Len(lines) + 1
      /\ \A i \in 1..Len(lines) : lines'[i] = lines[i]
      /\ lines'[Len(lines')] = r
  BY <1>1, <1>2, AppendProperties
<1>4. \A i \in 1..Len(lines') : Parses(lines'[i])
  BY <1>1, <1>3 DEF NothingTorn
<1> QED BY <1>3, <1>4 DEF NothingTorn

\* The record a call appends follows the last line of the file, if that is a
\* whole record.
LEMMA DraftFollows ==
    ASSUME TypeOK, LinkInv, NEW c \in Slots, pc[c] \in Appending, ~LogIsEmpty,
           ~torn, Parses(lines[Len(lines)])
    PROVE  Follows(draft[c], lines[Len(lines)])
<1>1. CASE pc[c] = "append_break"
  BY <1>1 DEF LinkInv, DraftsLinked, Follows
<1>2. CASE pc[c] \in {"append_record", "append_checkpoint"}
  <2>1. c \in Calls  BY <1>2, SlotCases DEF LinkInv, OneInFlight, Settled
  <2>2. proc = "up"  BY <1>2, <2>1 DEF LinkInv, OneInFlight, InFlight, Appending
  <2>3. HeadIsLast  BY <2>2 DEF LinkInv, HeadTracksFile
  <2> QED BY <1>2, <2>3 DEF LinkInv, HeadIsLast, DraftsLinked, Follows
<1> QED BY <1>1, <1>2 DEF Appending

\* An append by a call in flight, whole or torn, keeps the links inside each
\* file: it adds the call's record, or a line that can not be read.
LEMMA AppendLinks ==
    ASSUME TypeOK, LinkInv, NEW c \in Slots, pc[c] \in Appending,
           NEW r \in {draft[c], TornLine}, AppendLine(r), UNCHANGED fileStart
    PROVE  FileLinked' /\ lines'[Len(lines')] \in {draft[c], TornLine}
<1>1. /\ draft[c] \in ChainRecord /\ Len(lines) \in Nat /\ torn \in BOOLEAN
      /\ fileStart \in 1..(Len(lines) + 1) /\ (torn => fileStart <= Len(lines))
  BY DEF TypeOK
<1>2. r \in Line /\ ~Parses(TornLine)  BY <1>1 DEF Line, Parses, TornLine
<1>3. /\ Len(lines') = IF torn THEN Len(lines) ELSE Len(lines) + 1
      /\ \A i \in 1..(Len(lines') - 1) : lines'[i] = lines[i]
      /\ lines'[Len(lines')] = IF torn THEN TornLine ELSE r
  BY <1>2, AppendLineType
<1>4. ASSUME NEW i \in (fileStart' + 1)..Len(lines'), Parses(lines'[i]), Parses(lines'[i - 1])
      PROVE  Follows(lines'[i], lines'[i - 1])
  <2>1. CASE i < Len(lines')
    <3>1. /\ i \in (fileStart + 1)..Len(lines)
          /\ i \in 1..(Len(lines') - 1) /\ i - 1 \in 1..(Len(lines') - 1)
      BY <1>1, <1>3, <1>4, <2>1
    <3>2. lines'[i] = lines[i] /\ lines'[i - 1] = lines[i - 1]  BY <1>3, <3>1
    <3> QED BY <1>4, <3>1, <3>2 DEF LinkInv, FileLinked
  <2>2. CASE i = Len(lines')
    <3>1. ~torn /\ r = draft[c] /\ lines'[i] = draft[c]
      BY <1>1, <1>2, <1>3, <1>4, <2>2
    <3>2. i - 1 = Len(lines) /\ ~LogIsEmpty /\ Len(lines) \in 1..(Len(lines') - 1)
      BY <1>1, <1>3, <1>4, <2>2, <3>1 DEF LogIsEmpty
    <3>3. lines'[i - 1] = lines[Len(lines)]  BY <1>3, <3>2
    <3> QED BY <1>4, <3>1, <3>2, <3>3, DraftFollows
  <2> QED BY <1>1, <1>3, <1>4, <2>1, <2>2
<1> QED BY <1>1, <1>3, <1>4 DEF FileLinked

\* After an append the head is the line just written, or that is a fragment.
LEMMA HeadAfterAppend ==
    ASSUME NEW c \in Slots, lastHash' = HeadAfter(draft[c]),
           lines'[Len(lines')] \in {draft[c], TornLine}
    PROVE  HeadIsLast'
<1>1. ~Parses(TornLine)  BY DEF Parses, TornLine
<1> QED BY <1>1 DEF HeadIsLast, HeadAfter

\* init() takes the hash of the last line as the head when that is a record.
LEMMA TailIsLast ==
    ASSUME TypeOK, ~LogIsEmpty, ~StateCorrupt, ~HeadCorrupt,
           Parses(lines[Len(lines)]), TailLines # 0
    PROVE  RecoveredHead = hashRecord(lines[Len(lines)])
<1>1. Len(lines) \in Nat /\ fileStart \in 1..Len(lines)
  BY DEF TypeOK, LogIsEmpty
<1>2. Len(lines) \in Tail8K /\ \A i \in Tail8K : i <= Len(lines)
  BY <1>1, ConstantsAssumption DEF Tail8K
<1>3. Max(Tail8K) = Len(lines)
  BY <1>1, <1>2, TailFinite, MaxIsGreatest
<1> QED BY <1>2, <1>3 DEF RecoveredHead, ReadsTail

-----------------------------------------------------------------------------
(* Every action keeps LinkInv                                              *)

\* Starting a call whose draft names the head (or is a break).
LEMMA StartKeepsLinks ==
    ASSUME TypeOK, LinkInv, NEW c \in Calls, Ready(c), NEW r,
           NEW point \in Appending, Draft(c, r, point),
           point = "append_break" => isChainBreak(r),
           point # "append_break" => r.previousHash = lastHash,
           UNCHANGED <<disk, lastHash, proc>>
    PROVE  LinkInv'
<1>1. /\ OneInFlight' /\ pc'[c] = point
      /\ \A d \in Slots : d # c => pc'[d] \notin InFlight
  BY StartOn DEF LinkInv, Draft
<1>2. draft'[c] = r /\ c \in Slots  BY PointFacts DEF Draft, TypeOK
<1>3. DraftsLinked'  BY <1>1, <1>2, PointFacts DEF DraftsLinked
<1>4. FileLinked'  BY DEF LinkInv, FileLinked, disk
<1>5. HeadTracksFile'
  <2>1. proc = "up" /\ UNCHANGED <<lines, fileStart, torn, lastHash>>  BY DEF Ready, disk
  <2> QED BY <2>1 DEF LinkInv, HeadTracksFile, HeadIsLast, LogIsEmpty
<1> QED BY <1>1, <1>3, <1>4, <1>5 DEF LinkInv

\* A call in flight that writes nothing and settles or moves to a later point.
LEMMA MoveKeepsLinks ==
    ASSUME TypeOK, LinkInv, NEW c \in Slots, pc[c] \in InFlight,
           NEW point \in (InFlight \ Appending) \cup Settled,
           pc' = [pc EXCEPT ![c] = point],
           c \in Calls => proc' = proc,
           c = Boot => point \in Settled /\ proc' # "starting",
           proc' = "up" => HeadIsLast, point = "persist_chain" => proc' = "up",
           UNCHANGED <<lines, fileStart, torn, lastHash>>
    PROVE  LinkInv'
<1>1. /\ OneInFlight' /\ pc'[c] = point
      /\ \A d \in Slots : d # c => pc'[d] \notin InFlight
  BY MoveOn, PointFacts DEF LinkInv
<1>2. DraftsLinked'  BY <1>1, PointFacts DEF DraftsLinked
<1>3. FileLinked'  BY DEF LinkInv, FileLinked
<1>4. HeadIsLast' <=> HeadIsLast  BY DEF HeadIsLast, LogIsEmpty
<1>5. HeadTracksFile'  BY <1>1, <1>4, PointFacts DEF HeadTracksFile
<1> QED BY <1>1, <1>2, <1>3, <1>5 DEF LinkInv

\* An append that leaves c at a point whose draft, if any, names the new head.
LEMMA AppendKeepsLinks ==
    ASSUME TypeOK, LinkInv, NEW c \in Slots, pc[c] \in Appending,
           AppendLine(draft[c]), torn' = FALSE, UNCHANGED <<fileStart, proc>>,
           lastHash' = HeadAfter(draft[c]),
           NEW point \in (InFlight \ {"append_break"}) \cup Settled,
           pc' = [pc EXCEPT ![c] = point],
           c = Boot => point = "persist_chain",
           point \in Appending => draft'[c].previousHash = lastHash'
    PROVE  LinkInv'
<1>1. /\ OneInFlight' /\ pc'[c] = point
      /\ \A d \in Slots : d # c => pc'[d] \notin InFlight
  BY MoveOn, PointFacts DEF LinkInv, OneInFlight
<1>2. DraftsLinked'  BY <1>1, PointFacts DEF DraftsLinked
<1>3. FileLinked' /\ lines'[Len(lines')] \in {draft[c], TornLine}  BY AppendLinks
<1>4. HeadTracksFile'  BY <1>3, HeadAfterAppend DEF HeadTracksFile
<1> QED BY <1>1, <1>2, <1>3, <1>4 DEF LinkInv

\* A state with nothing in flight and a process that is not up.
LEMMA StoppedKeepsLinks ==
    ASSUME NEW p \in {"down", "refused"}, proc' = p,
           \A c \in Calls : pc'[c] \notin InFlight,
           pc'[Boot] \in Settled, FileLinked'
    PROVE  LinkInv'
<1>1. \A c \in Slots : pc'[c] \notin InFlight  BY PointFacts, SlotCases
<1>2. OneInFlight'  BY <1>1, PointFacts DEF OneInFlight
<1>3. HeadTracksFile'  BY PointFacts DEF HeadTracksFile
<1>4. DraftsLinked'  BY <1>1, PointFacts DEF DraftsLinked
<1> QED BY <1>2, <1>3, <1>4 DEF LinkInv

\* A step of a call that is under way: each append extends the chain, and every
\* other step leaves the head and the file.
LEMMA StepKeepsLinks ==
    ASSUME TypeOK, LinkInv, NEW c \in Slots, Step(c)
    PROVE  LinkInv'
<1> USE DEF disk, memory, counters
<1>0. /\ c = Boot => pc[c] \in {"append_break", "persist_chain"} \cup Settled
      /\ c \in Calls /\ pc[c] \in InFlight => proc = "up"
  BY DEF LinkInv, OneInFlight
<1>1. CASE AppendRecord(c)
  <2>1. pc[c] = "append_record" /\ c # Boot  BY <1>0, <1>1, PointFacts DEF AppendRecord
  <2>2. \E point \in {"append_checkpoint", "rename", "resolved"} :
           /\ pc' = [pc EXCEPT ![c] = point]
           /\ point \in Appending => draft'[c].previousHash = lastHash'
    <3>1. CASE BeginCheckpoint(c, lastHash', totalRecordCount')
      BY <3>1 DEF BeginCheckpoint, Draft, CheckpointRecord, TypeOK
    <3>2. CASE pc' = [pc EXCEPT ![c] = AfterAppends(currentSize')]
      BY <3>2, PointFacts DEF AfterAppends
    <3> QED BY <1>1, <3>1, <3>2 DEF AppendRecord
  <2> QED BY <1>1, <2>1, <2>2, AppendKeepsLinks, PointFacts DEF AppendRecord
<1>2. CASE AppendCheckpoint(c)
  <2>1. pc[c] = "append_checkpoint" /\ c # Boot
    BY <1>0, <1>2, PointFacts DEF AppendCheckpoint
  <2>2. \E point \in {"rename", "resolved"} : pc' = [pc EXCEPT ![c] = point]
    BY <1>2 DEF AppendCheckpoint, AfterAppends
  <2> QED BY <1>2, <2>1, <2>2, AppendKeepsLinks, PointFacts DEF AppendCheckpoint
<1>3. CASE AppendBreak(c)
  <2>1. pc[c] \in Appending /\ "persist_chain" \in InFlight \ {"append_break"}
        /\ "persist_chain" \notin Appending
    BY <1>3, PointFacts DEF AppendBreak
  <2> QED BY <1>3, <2>1, AppendKeepsLinks DEF AppendBreak
<1>4. CASE WriteFails(c) \/ PersistChainStateFails(c)
  <2>1. pc[c] \in InFlight /\ Reject(c) /\ UNCHANGED <<lines, fileStart, torn, lastHash>>
    BY <1>4, PointFacts DEF WriteFails, PersistChainStateFails
  <2>2. proc' = "up" => proc = "up"  BY <2>1 DEF Reject
  <2>3. c = Boot => proc' = "refused"  BY <2>1 DEF Reject
  <2>4. c \in Calls => proc' = proc  BY <2>1, PointFacts DEF Reject
  <2>5. proc' = "up" => HeadIsLast  BY <2>2 DEF LinkInv, HeadTracksFile
  <2>6. "rejected" \in Settled /\ "rejected" # "persist_chain"  BY PointFacts
  <2> QED BY <2>1, <2>3, <2>4, <2>5, <2>6, MoveKeepsLinks DEF Reject
<1>5. CASE WriteTorn(c)
  <2>1. /\ pc[c] \in Appending /\ pc[c] \in InFlight /\ Reject(c) /\ torn' = TRUE
        /\ UNCHANGED fileStart /\ \E r \in {draft[c], TornLine} : AppendLine(r)
    BY <1>5, PointFacts DEF WriteTorn, TornAppend
  <2>2. FileLinked'  BY <2>1, AppendLinks
  <2>3. HeadTracksFile'  BY <2>1 DEF HeadTracksFile, HeadIsLast
  <2>4. /\ OneInFlight' /\ pc'[c] = "rejected"
        /\ \A d \in Slots : d # c => pc'[d] \notin InFlight
    <3>1. /\ pc' = [pc EXCEPT ![c] = "rejected"] /\ "rejected" \in Settled \ InFlight
      BY <2>1, PointFacts DEF Reject
    <3>2. c \in Calls => proc' = proc  BY <2>1, PointFacts DEF Reject
    <3>3. c = Boot => proc' # "starting"  BY <2>1 DEF Reject
    <3> QED BY <2>1, <3>1, <3>2, <3>3, MoveOn DEF LinkInv
  <2>5. DraftsLinked'  BY <2>4, PointFacts DEF DraftsLinked
  <2> QED BY <2>2, <2>3, <2>4, <2>5 DEF LinkInv
<1>6. CASE Rename(c)
  <2>1. pc[c] = "rename" /\ c # Boot /\ c \in Calls  BY <1>0, <1>6, PointFacts, SlotCases DEF Rename
  <2>2. /\ OneInFlight' /\ pc'[c] = "persist"
        /\ \A d \in Slots : d # c => pc'[d] \notin InFlight
    <3>1. pc[c] \in InFlight /\ "persist" \in InFlight  BY <2>1, PointFacts
    <3>2. pc' = [pc EXCEPT ![c] = "persist"] /\ proc' = proc  BY <1>6 DEF Rename
    <3> QED BY <2>1, <3>1, <3>2, MoveOn DEF LinkInv, TypeOK
  <2>3. DraftsLinked'  BY <2>2, PointFacts DEF DraftsLinked
  <2>4. Len(lines) \in Nat /\ UNCHANGED lines /\ fileStart' = Len(lines) + 1
    BY <1>6 DEF Rename, TypeOK
  <2>5. FileLinked' /\ HeadTracksFile'
    BY <2>4 DEF FileLinked, HeadTracksFile, HeadIsLast, LogIsEmpty
  <2> QED BY <2>2, <2>3, <2>5 DEF LinkInv
<1>7. CASE RenameFails(c) \/ PersistState(c) \/ PersistStateFails(c)
  <2>1. pc[c] \in {"rename", "persist"} /\ c # Boot /\ c \in Calls
    BY <1>0, <1>7, PointFacts, SlotCases DEF RenameFails, PersistState, PersistStateFails
  <2>2. /\ pc' = [pc EXCEPT ![c] = "resolved"]
        /\ UNCHANGED <<lines, fileStart, torn, lastHash, proc>>
    BY <1>7 DEF RenameFails, PersistState, PersistStateFails
  <2>3. HeadIsLast  BY <1>0, <2>1, PointFacts DEF LinkInv, HeadTracksFile
  <2> QED BY <2>1, <2>2, <2>3, MoveKeepsLinks, PointFacts
<1>8. CASE PersistChainState(c)
  <2>1. pc[c] = "persist_chain"  BY <1>8 DEF PersistChainState
  <2>2. HeadIsLast
    BY <1>0, <2>1, PointFacts, SlotCases DEF LinkInv, HeadTracksFile
  <2>3. /\ pc' = [pc EXCEPT ![c] = "resolved"]
        /\ UNCHANGED <<lines, fileStart, torn, lastHash>>
        /\ proc' = IF c = Boot THEN "up" ELSE proc
    BY <1>8 DEF PersistChainState
  <2> QED BY <2>1, <2>2, <2>3, MoveKeepsLinks, PointFacts
<1> QED BY <1>1, <1>2, <1>3, <1>4, <1>5, <1>6, <1>7, <1>8 DEF Step

\* Making a call, and starting one: the draft takes the head of the chain.
LEMMA CallKeepsLinks ==
    ASSUME TypeOK, LinkInv, NEW c \in Calls, Call(c)
    PROVE  LinkInv'
<1> USE DEF disk, memory, counters
<1>1. ASSUME NEW o \in Ops, Enqueue(c, o) PROVE LinkInv'
  <2>1. pc[c] = "new" /\ pc' = [pc EXCEPT ![c] = "queued"] /\ proc = "up"
        /\ UNCHANGED <<lines, fileStart, torn, lastHash, proc, draft>>
    BY <1>1 DEF Enqueue
  <2>2. pc'[c] = "queued" /\ \A d \in Slots : d # c => pc'[d] = pc[d]
    BY <2>1, PointFacts DEF TypeOK
  <2>3. OneInFlight'
    BY <2>1, <2>2, PointFacts DEF LinkInv, OneInFlight
  <2>4. DraftsLinked'
    BY <2>1, <2>2, PointFacts DEF LinkInv, DraftsLinked
  <2>5. FileLinked' /\ HeadTracksFile'
    BY <2>1, <2>2 DEF LinkInv, FileLinked, HeadTracksFile, HeadIsLast, LogIsEmpty
  <2> QED BY <2>3, <2>4, <2>5 DEF LinkInv
<1>2. CASE StartRecord(c)
  BY <1>2, StartKeepsLinks, PointFacts DEF StartRecord, AuditRecord
<1>3. CASE StartToolDrift(c)
  BY <1>3, StartKeepsLinks, PointFacts DEF StartToolDrift, ToolDriftRecord
<1>4. CASE StartCheckpoint(c)
  BY <1>4, StartKeepsLinks, PointFacts DEF StartCheckpoint, BeginCheckpoint, CheckpointRecord
<1>5. CASE StartBreak(c)
  BY <1>5, StartKeepsLinks, PointFacts DEF StartBreak, ChainBreakRecord, isChainBreak
<1> QED BY <1>1, <1>2, <1>3, <1>4, <1>5 DEF Call, Start

\* A stop leaves the file as it is, a crash may leave an append on it, whole or
\* torn.
LEMMA StopKeepsLinks ==
    ASSUME TypeOK, LinkInv, Stop
    PROVE  LinkInv'
<1>1. FileLinked'
  <2>1. CASE UNCHANGED <<lines, torn>>
    BY <2>1 DEF Stop, LinkInv, FileLinked
  <2>2. ASSUME NEW c \in Slots, pc[c] \in Appending,
               NEW r \in {draft[c], TornLine}, AppendLine(r)
        PROVE  FileLinked'
    BY <2>2, AppendLinks DEF Stop
  <2> QED BY <2>1, <2>2 DEF Stop, TornAppend
<1>2. proc' = "down"  BY DEF Stop
<1> QED BY <1>1, <1>2, StopSettles, StoppedKeepsLinks, PointFacts DEF LinkInv

\* init() takes up the head of the file, refuses, or starts with a break.
LEMMA BootsKeepLinks ==
    ASSUME TailLines # 0, TypeOK, LinkInv, Boots \/ DamageState
    PROVE  LinkInv'
<1> USE DEF disk, memory, counters, control
<1>1. proc \in {"down", "refused"}
  BY DEF Boots, Resume, Refuse, StartForced, DamageState
<1>2. \A c \in Slots : pc[c] \notin InFlight
  BY <1>1, PointFacts, SlotCases DEF LinkInv, OneInFlight
<1>3. pc[Boot] \in Settled  BY <1>2, PointFacts DEF LinkInv, OneInFlight
<1>4. FileLinked' /\ UNCHANGED <<lines, fileStart, torn>>
  <2>1. UNCHANGED <<lines, fileStart, torn>>
    BY DEF Boots, Resume, Refuse, StartForced, DamageState
  <2> QED BY <2>1 DEF LinkInv, FileLinked
<1>5. CASE Resume
  <2>1. pc' = [pc EXCEPT ![Boot] = "resolved"] /\ proc' = "up" /\ lastHash' = RecoveredHead
    BY <1>5 DEF Resume, RecoverMemory
  <2>2. \A c \in Slots : pc'[c] = IF c = Boot THEN "resolved" ELSE pc[c]
    BY <2>1 DEF TypeOK
  <2>3. \A c \in Slots : pc'[c] \notin InFlight  BY <1>2, <2>2, PointFacts
  <2>4. OneInFlight'  BY <2>1, <2>2, <2>3, PointFacts DEF OneInFlight
  <2>5. DraftsLinked'  BY <2>3, PointFacts DEF DraftsLinked
  <2>6. HeadTracksFile'
    <3>1. ~LogIsEmpty /\ Parses(lines[Len(lines)]) =>
             RecoveredHead = hashRecord(lines[Len(lines)])
      BY <1>5, TailIsLast DEF Resume, MustRefuse
    <3> QED BY <1>4, <2>1, <3>1 DEF HeadTracksFile, HeadIsLast, LogIsEmpty
  <2> QED BY <1>4, <2>4, <2>5, <2>6 DEF LinkInv
<1>6. CASE Refuse
  <2>1. proc' = "refused" /\ UNCHANGED pc  BY <1>6 DEF Refuse
  <2> QED BY <1>2, <1>3, <1>4, <2>1, StoppedKeepsLinks, PointFacts
<1>7. CASE StartForced
  <2>1. /\ proc' = "starting" /\ pc' = [pc EXCEPT ![Boot] = "append_break"]
        /\ draft' = [draft EXCEPT ![Boot] = ChainBreakRecord(nextHash, lastHash')]
    BY <1>7 DEF StartForced, Draft
  <2>2. /\ \A c \in Slots : pc'[c] = IF c = Boot THEN "append_break" ELSE pc[c]
        /\ isChainBreak(draft'[Boot])
    BY <2>1, PointFacts DEF TypeOK, ChainBreakRecord, isChainBreak
  <2>3. OneInFlight'  BY <1>2, <2>1, <2>2, PointFacts DEF OneInFlight
  <2>4. DraftsLinked'  BY <1>2, <2>2, PointFacts DEF DraftsLinked
  <2>5. HeadTracksFile'  BY <2>1, <2>2, PointFacts DEF HeadTracksFile
  <2> QED BY <1>4, <2>3, <2>4, <2>5 DEF LinkInv
<1>8. CASE DamageState
  <2>1. proc' = "down" /\ UNCHANGED pc  BY <1>8 DEF DamageState
  <2> QED BY <1>2, <1>3, <1>4, <2>1, StoppedKeepsLinks, PointFacts
<1> QED BY <1>5, <1>6, <1>7, <1>8 DEF Boots

\* LinkInv is inductive.
LEMMA LinkStep ==
    ASSUME TailLines # 0, TypeOK, LinkInv, [Next]_vars
    PROVE  LinkInv'
<1>1. CASE UNCHANGED vars
  BY <1>1 DEF vars, disk, memory, counters, control, LinkInv, OneInFlight,
     HeadTracksFile, HeadIsLast, LogIsEmpty, DraftsLinked, FileLinked
<1>2. CASE Next
  BY <1>1, <1>2, StepKeepsLinks, CallKeepsLinks, StopKeepsLinks, BootsKeepLinks
  DEF Next, Environment, Finished
<1> QED BY <1>1, <1>2

\* LinkInv holds before anything is written.
LEMMA LinkInit == Init => LinkInv
<1> SUFFICES ASSUME Init PROVE LinkInv  OBVIOUS
<1>1. lines = <<>> /\ Len(lines) = 0 /\ fileStart = 1 /\ proc = "down"
  BY DEF Init
<1>2. \A c \in Slots : pc[c] = IF c = Boot THEN "resolved" ELSE "new"
  BY DEF Init
<1>3. OneInFlight /\ DraftsLinked
  BY <1>1, <1>2, PointFacts DEF OneInFlight, DraftsLinked
<1>4. FileLinked /\ HeadTracksFile
  BY <1>1, <1>2, PointFacts DEF FileLinked, HeadTracksFile
<1> QED BY <1>3, <1>4 DEF LinkInv

\* Inside a log file the chain never breaks between two readable lines without
\* a chain_break record, unless the last record outgrows the tail init() reads:
\* for any number of calls queued at once, any mixture of failing and torn
\* writes, failing renames and state saves, crashes between any two awaits,
\* restarts from a stale or damaged state file, and forced starts.
THEOREM FilesStayLinked ==
    ASSUME TailLines # 0
    PROVE  Spec => []FileLinked
<1>1. Init => LinkInv  BY LinkInit
<1>2. TypeOK /\ LinkInv /\ [Next]_vars => LinkInv'  BY LinkStep
<1>3. LinkInv => FileLinked  BY DEF LinkInv
<1> QED BY <1>1, <1>2, <1>3, TypeCorrect, PTL DEF Spec

-----------------------------------------------------------------------------
(* The chain across files                                                  *)

\* The process ends between calls, the state file of a rotation gets written
\* and records fit the tail that init() reads.
Orderly == Faults \subseteq {"write", "rename", "damage"} /\ TailLines # 0

\* Lines stay records while no append is torn.
LEMMA NothingTears ==
    ASSUME "torn" \notin Faults, TypeOK, NothingTorn, [Next]_vars
    PROVE  NothingTorn'
<1> USE DEF disk, memory, counters, control
<1>1. CASE UNCHANGED <<lines, torn>>  BY <1>1 DEF NothingTorn
<1>2. ASSUME NEW c \in Slots, pc[c] \in Appending, AppendLine(draft[c]), torn' = FALSE
      PROVE  NothingTorn'
  BY <1>2, CleanAppend DEF TypeOK
<1>3. ASSUME UNCHANGED lines, torn' = FALSE PROVE NothingTorn'
  BY <1>3 DEF NothingTorn
<1>4. ASSUME NEW c \in Slots, Step(c) PROVE NothingTorn'
  <2>1. CASE AppendRecord(c) \/ AppendCheckpoint(c) \/ AppendBreak(c)
    <3>1. pc[c] \in Appending /\ AppendLine(draft[c]) /\ torn' = FALSE
      BY <2>1, PointFacts DEF AppendRecord, AppendCheckpoint, AppendBreak
    <3> QED BY <1>2, <3>1
  <2>2. CASE Rename(c)  BY <1>3, <2>2 DEF Rename
  <2>3. CASE WriteTorn(c)  BY <2>3 DEF WriteTorn, TornAppend
  <2>4. CASE \/ WriteFails(c) \/ RenameFails(c) \/ PersistState(c) \/ PersistStateFails(c)
             \/ PersistChainState(c) \/ PersistChainStateFails(c)
    BY <1>1, <2>4 DEF WriteFails, RenameFails, PersistState, PersistStateFails,
       PersistChainState, PersistChainStateFails
  <2> QED BY <1>4, <2>1, <2>2, <2>3, <2>4 DEF Step
<1>5. ASSUME NEW c \in Calls, Call(c) PROVE NothingTorn'
  BY <1>1, <1>5 DEF Call, Start, StartRecord, StartToolDrift, StartCheckpoint, StartBreak,
     Enqueue
<1>6. CASE Stop  BY <1>1, <1>2, <1>6 DEF Stop, TornAppend
<1>7. CASE DamageState \/ Boots
  BY <1>1, <1>7 DEF DamageState, Boots, Resume, Refuse, StartForced
<1>8. CASE UNCHANGED vars  BY <1>1, <1>8 DEF vars
<1> QED BY <1>4, <1>5, <1>6, <1>7, <1>8 DEF Next, Environment, Finished

\* The line an append adds follows the last line of the files, which is also
\* what the chain's head is afterwards.
LEMMA AppendExtendsChain ==
    ASSUME TypeOK, ChainInv, NEW c \in Slots, pc[c] \in Appending,
           AppendLine(draft[c]), torn' = FALSE
    PROVE  ChainLinked' /\ lines' # <<>> /\ ChainHead' = hashRecord(draft[c])
<1>1. draft[c] \in ChainRecord /\ NothingTorn /\ Len(lines) \in Nat
  BY DEF TypeOK, ChainInv, LinkInv
<1>2. /\ lines' \in Seq(Line) /\ Len(lines') = Len(lines) + 1 /\ Len(lines) \in Nat
      /\ \A i \in 1..Len(lines) : lines'[i] = lines[i]
      /\ lines'[Len(lines')] = draft[c]
  BY <1>1, CleanAppend
<1>3. lines' # <<>> /\ ChainHead' = hashRecord(draft[c])
  BY <1>2 DEF ChainHead
<1>4. isChainBreak(draft[c]) \/ draft[c].previousHash = ChainHead
  <2>1. CASE pc[c] = "append_break"
    BY <2>1 DEF ChainInv, LinkInv, DraftsLinked
  <2>2. CASE pc[c] # "append_break"
    <3>1. pc[c] \in {"append_record", "append_checkpoint"}  BY <2>2, PointFacts
    <3>2. c \in Calls /\ proc = "up"
      BY <3>1, PointFacts, SlotCases DEF ChainInv, LinkInv, OneInFlight
    <3> QED BY <3>1, <3>2 DEF ChainInv, LinkInv, DraftsLinked, HeadTracksChain
  <2> QED BY <2>1, <2>2
<1>5. \A i \in 2..Len(lines') : Follows(lines'[i], lines'[i - 1])
  <2> SUFFICES ASSUME NEW i \in 2..Len(lines') PROVE Follows(lines'[i], lines'[i - 1])
    OBVIOUS
  <2>1. CASE i <= Len(lines)
    BY <1>2, <2>1 DEF ChainInv, ChainLinked
  <2>2. CASE i = Len(lines) + 1
    <3>1. lines # <<>> /\ lines'[i - 1] = lines[Len(lines)] /\ lines'[i] = draft[c]
      BY <1>2, <2>2
    <3> QED BY <1>4, <3>1 DEF ChainHead, Follows
  <2> QED BY <1>2, <2>1, <2>2
<1>6. isChainBreak(lines'[1]) \/ lines'[1].previousHash = genesis
  <2>1. CASE lines = <<>>  BY <1>2, <1>4, <2>1 DEF ChainHead
  <2>2. CASE lines # <<>>
    <3>1. 1 \in 1..Len(lines)  BY <1>2, <2>2, EmptySeq DEF TypeOK
    <3> QED BY <1>2, <2>2, <3>1 DEF ChainInv, ChainLinked
  <2> QED BY <2>1, <2>2
<1> QED BY <1>3, <1>5, <1>6 DEF ChainLinked

\* An append makes the new line the head of the process and of the files.
LEMMA AppendKeepsChain ==
    ASSUME TypeOK, ChainInv, LinkInv', NothingTorn', NEW c \in Slots, pc[c] \in Appending,
           AppendLine(draft[c]), torn' = FALSE, UNCHANGED fileStart,
           lastHash' = HeadAfter(draft[c])
    PROVE  ChainInv'
<1>1. ChainLinked' /\ lines' # <<>> /\ ChainHead' = lastHash'
  BY AppendExtendsChain DEF HeadAfter
<1>2. Len(lines') = Len(lines) + 1  BY CleanAppend DEF ChainInv, TypeOK
<1>3. ~LogIsEmpty'  BY <1>2 DEF LogIsEmpty, TypeOK
<1> QED BY <1>1, <1>3 DEF ChainInv, HeadTracksChain

\* Steps that leave the log alone keep the links.
LEMMA SameLines ==
    ASSUME ChainInv, UNCHANGED lines
    PROVE  ChainLinked' /\ ChainHead' = ChainHead
BY DEF ChainInv, ChainLinked, ChainHead

\* A step of a call: appends and the two state saves move the head, in memory
\* and in the state file, to the last line; the rest leaves both alone.
LEMMA StepKeepsChain ==
    ASSUME Orderly, TypeOK, ChainInv, LinkInv', NothingTorn', NEW c \in Slots, Step(c)
    PROVE  ChainInv'
<1> USE DEF disk, memory, counters
<1>0. /\ c = Boot => pc[c] \in {"append_break", "persist_chain"} \cup Settled
      /\ c \in Calls /\ pc[c] \in InFlight => proc = "up"
      /\ proc = "up" \/ pc[Boot] = "persist_chain" => lastHash = ChainHead
  BY DEF ChainInv, LinkInv, OneInFlight, HeadTracksChain
<1>1. CASE AppendRecord(c) \/ AppendCheckpoint(c) \/ AppendBreak(c)
  <2>1. /\ pc[c] \in Appending /\ AppendLine(draft[c]) /\ torn' = FALSE
        /\ UNCHANGED fileStart /\ lastHash' = HeadAfter(draft[c])
    BY <1>1, PointFacts DEF AppendRecord, AppendCheckpoint, AppendBreak
  <2> QED BY <2>1, AppendKeepsChain
<1>2. CASE WriteFails(c)
  <2>1. /\ pc[c] \in Appending /\ UNCHANGED <<lines, fileStart, stateFile, lastHash>>
        /\ pc' = [pc EXCEPT ![c] = "rejected"] /\ (proc' = "up" => proc = "up")
    BY <1>2 DEF WriteFails, Reject
  <2>2. pc'[c] = "rejected" /\ \A d \in Slots : d # c => pc'[d] = pc[d]
    BY <2>1 DEF TypeOK
  <2>3. \A d \in Slots : pc'[d] = "persist_chain" => pc[d] = "persist_chain"
    BY <2>2
  <2>4. \A d \in Slots : pc[d] = "persist" => pc'[d] = "persist"
    BY <2>1, <2>2, PointFacts
  <2> QED BY <2>1, <2>3, <2>4, SameLines, PointFacts
          DEF ChainInv, HeadTracksChain, LogIsEmpty, StateCorrupt, Recovered
<1>3. CASE WriteTorn(c) \/ PersistStateFails(c) \/ PersistChainStateFails(c)
  BY <1>3 DEF WriteTorn, TornAppend, PersistStateFails, PersistChainStateFails, Orderly
<1>4. CASE Rename(c)
  <2>1. /\ pc[c] = "rename" /\ c \in Calls /\ UNCHANGED <<lines, stateFile, proc>>
        /\ pc' = [pc EXCEPT ![c] = "persist"] /\ lastHash' = lastHash
    BY <1>0, <1>4, PointFacts, SlotCases DEF Rename, HeadAfterRotation
  <2>2. pc'[c] = "persist" /\ proc = "up"  BY <1>0, <2>1, PointFacts DEF TypeOK
  <2> QED BY <1>0, <2>1, <2>2, SameLines DEF ChainInv, HeadTracksChain
<1>5. CASE RenameFails(c)
  <2>1. /\ pc[c] = "rename" /\ c \in Calls
        /\ UNCHANGED <<lines, fileStart, stateFile, lastHash, proc>>
        /\ pc' = [pc EXCEPT ![c] = "resolved"]
    BY <1>0, <1>5, PointFacts, SlotCases DEF RenameFails
  <2>2. proc = "up"  BY <1>0, <2>1, PointFacts
  <2>3. \A d \in Slots : pc[d] = "persist" => pc'[d] = "persist"
    BY <2>1 DEF TypeOK
  <2> QED BY <1>0, <2>1, <2>2, <2>3, SameLines, PointFacts
          DEF ChainInv, HeadTracksChain, LogIsEmpty, StateCorrupt, Recovered
<1>6. CASE PersistState(c) \/ PersistChainState(c)
  <2>1. /\ UNCHANGED <<lines, fileStart, lastHash>>
        /\ stateFile'.status = "ok" /\ stateFile'.lastHash = lastHash
    BY <1>6 DEF PersistState, PersistChainState, StateOf
  <2>2. proc = "up" \/ pc[Boot] = "persist_chain"
    BY <1>0, <1>6, PointFacts, SlotCases DEF PersistState, PersistChainState
  <2>3. lastHash = ChainHead  BY <1>0, <2>2
  <2>4. Recovered'.lastHash = ChainHead  BY <2>1, <2>3 DEF Recovered
  <2> QED BY <2>1, <2>3, <2>4, SameLines DEF ChainInv, HeadTracksChain
<1> QED BY <1>1, <1>2, <1>3, <1>4, <1>5, <1>6 DEF Step

\* Making or starting a call touches neither the files nor the head.
LEMMA CallKeepsChain ==
    ASSUME TypeOK, ChainInv, LinkInv', NothingTorn', NEW c \in Calls, Call(c)
    PROVE  ChainInv'
<1>1. /\ UNCHANGED <<lines, fileStart, stateFile, lastHash, proc>> /\ proc = "up"
      /\ pc[c] \in {"new", "queued"} /\ \E point \in Points : pc' = [pc EXCEPT ![c] = point]
  BY PointFacts DEF Call, Enqueue, Start, StartRecord, StartToolDrift, StartCheckpoint,
     StartBreak, BeginCheckpoint, Draft, Ready, disk, memory, counters, Points,
     InFlight
<1>2. \A d \in Slots : pc[d] = "persist" => pc'[d] = "persist"
  BY <1>1 DEF TypeOK
<1> QED BY <1>1, <1>2, SameLines, PointFacts
        DEF ChainInv, HeadTracksChain, LogIsEmpty, StateCorrupt, Recovered

\* The process ends with no call under way, so that nothing is on its way to
\* the files; a start takes the head from the last line or the state file.
LEMMA OutsideKeepsChain ==
    ASSUME Orderly, TypeOK, ChainInv, LinkInv', NothingTorn', Stop \/ DamageState \/ Boots
    PROVE  ChainInv'
<1> USE DEF disk, memory, counters, control
<1>1. CASE Stop
  <2>1. ~Busy  BY <1>1 DEF Stop, Orderly
  <2>2. \A c \in Slots : pc[c] \notin InFlight  BY <2>1 DEF Busy
  <2>3. UNCHANGED <<lines, fileStart, stateFile>> /\ proc' = "down"
    BY <1>1, <2>2, PointFacts DEF Stop
  <2>4. \A c \in Slots : pc'[c] \notin InFlight  BY <1>1, StopSettles DEF ChainInv, LinkInv
  <2> QED BY <2>2, <2>3, <2>4, SameLines, PointFacts
          DEF ChainInv, HeadTracksChain, LogIsEmpty, StateCorrupt, Recovered
<1>2. CASE DamageState
  <2>1. stateFile'.status = "corrupt" /\ UNCHANGED <<lines, lastHash, proc, pc>>
    BY <1>2 DEF DamageState, CorruptState
  <2> QED BY <2>1, SameLines DEF ChainInv, HeadTracksChain, StateCorrupt
<1>3. CASE Boots
  <2>1. proc \in {"down", "refused"}  BY <1>3 DEF Boots, Resume, Refuse, StartForced
  <2>2. \A c \in Slots : pc[c] \notin InFlight
    BY <2>1, PointFacts, SlotCases DEF ChainInv, LinkInv, OneInFlight
  <2>3. UNCHANGED <<lines, fileStart, stateFile>>
    BY <1>3 DEF Boots, Resume, Refuse, StartForced
  <2>4. LogIsEmpty => StateCorrupt \/ Recovered.lastHash = ChainHead
    BY <2>2, PointFacts DEF ChainInv, HeadTracksChain
  <2>5. CASE Resume
    <3>1. ~StateCorrupt /\ lastHash' = RecoveredHead
      BY <2>5 DEF Resume, MustRefuse, RecoverMemory
    <3>2. CASE LogIsEmpty
      BY <2>3, <2>4, <3>1, <3>2, SameLines
      DEF RecoveredHead, ReadsTail, ChainInv, HeadTracksChain, LogIsEmpty, StateCorrupt, Recovered
    <3>3. CASE ~LogIsEmpty
      <4>1. RecoveredHead = hashRecord(lines[Len(lines)])
        <5>1. Len(lines) \in DOMAIN lines /\ fileStart \in DOMAIN lines
          BY <3>3 DEF TypeOK, LogIsEmpty
        <5>2. Parses(lines[Len(lines)]) /\ ~HeadCorrupt
          BY <5>1 DEF ChainInv, NothingTorn, HeadCorrupt
        <5> QED BY <3>1, <3>3, <5>2, TailIsLast DEF Orderly
      <4>2. lines # <<>>  BY <3>3, EmptySeq DEF LogIsEmpty, TypeOK
      <4> QED BY <2>3, <3>1, <3>3, <4>1, <4>2, SameLines
              DEF ChainHead, ChainInv, HeadTracksChain, LogIsEmpty
    <3> QED BY <3>2, <3>3
  <2>6. CASE Refuse \/ StartForced
    <3>1. proc' # "up" /\ pc'[Boot] # "persist_chain"
      BY <2>2, <2>6, PointFacts DEF Refuse, StartForced, Draft, TypeOK
    <3> QED BY <2>3, <2>4, <3>1, SameLines
            DEF ChainInv, HeadTracksChain, LogIsEmpty, StateCorrupt, Recovered
  <2> QED BY <1>3, <2>5, <2>6 DEF Boots
<1> QED BY <1>1, <1>2, <1>3

\* ChainInv is inductive.
LEMMA ChainStep ==
    ASSUME Orderly, TypeOK, ChainInv, [Next]_vars
    PROVE  ChainInv'
<1>1. LinkInv' /\ NothingTorn'  BY LinkStep, NothingTears DEF Orderly, ChainInv
<1>2. CASE UNCHANGED vars
  BY <1>1, <1>2, SameLines DEF vars, disk, memory, counters, control, ChainInv,
     HeadTracksChain, LogIsEmpty, StateCorrupt, Recovered
<1>3. CASE Next
  BY <1>1, <1>2, <1>3, StepKeepsChain, CallKeepsChain, OutsideKeepsChain
  DEF Next, Environment, Finished
<1> QED BY <1>2, <1>3

\* ChainInv holds before anything is written.
LEMMA ChainInit == Init => ChainInv
<1> SUFFICES ASSUME Init PROVE ChainInv  OBVIOUS
<1>1. LinkInv /\ NothingTorn  BY LinkInit DEF Init, NothingTorn
<1>2. lines = <<>> /\ stateFile = NoState /\ proc = "down" /\ pc[Boot] # "persist_chain"
    BY PointFacts DEF Init
<1>3. HeadTracksChain
    BY <1>2 DEF HeadTracksChain, ChainHead, Recovered, NoState
<1>4. ChainLinked  BY <1>2 DEF ChainLinked
<1> QED BY <1>1, <1>3, <1>4 DEF ChainInv

\* From the first line of the first rotated file to the last line of the log
\* there is one unbroken chain, across every rotation, failed write, failed
\* rename and restart, as long as the process ends between calls, the state
\* file of a rotation gets written, and records fit the tail init() reads
\* (rotate, persistState, init).
THEOREM ChainStaysLinked ==
    ASSUME Orderly
    PROVE  Spec => []ChainLinked
<1>1. Init => ChainInv  BY ChainInit
<1>2. TypeOK /\ ChainInv /\ [Next]_vars => ChainInv'  BY ChainStep
<1>3. ChainInv => ChainLinked  BY DEF ChainInv
<1> QED BY <1>1, <1>2, <1>3, TypeCorrect, PTL DEF Spec

=============================================================================
