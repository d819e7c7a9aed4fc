-------------------------- MODULE AuditTrailProofs --------------------------
(***************************************************************************)
(* Theorems about the writer and the verifiers together.                   *)
(*                                                                         *)
(* Whatever happens: the records of resolved calls lie in the order of the *)
(* calls (hashes are handed out in the order of the drafts), and a record  *)
(* that is lost is paid for by a fragment, a fragment by a call that did   *)
(* not resolve.  Between crashes: the files implement the ledger of linked *)
(* records.  While no chain_break is written and the state file is saved:  *)
(* init() takes back every log.                                            *)
(*                                                                         *)
(* In one run of the process: RunInv says that each line is linked and     *)
(* counted as the writer means it, that the counters are those of the      *)
(* lines, and that the record in flight is what belongs on the next line.  *)
(* The files then implement the whole ledger, and what the verifiers say   *)
(* of them follows from lemmas about any sound log, with no state in them. *)
(***************************************************************************)
EXTENDS AuditTrail, AuditLogProofs

-----------------------------------------------------------------------------
(* The refinement of the ledger                                            *)

\* Every hash on disk has been handed out, and the record a call is about to
\* append is not there yet.
HashesFresh ==
    /\ \A i \in DOMAIN lines : hashRecord(lines[i]) < nextHash
    /\ \A c \in Slots : pc[c] \in Appending =>
          /\ hashRecord(draft[c]) < nextHash
          /\ \A i \in DOMAIN lines : hashRecord(lines[i]) # hashRecord(draft[c])

LedgerInv == ChainInv /\ HashesFresh

\* A drafted record has the next hash, and no other call has one.
LEMMA DraftIsFresh ==
    ASSUME TypeOK, \A i \in DOMAIN lines : hashRecord(lines[i]) < nextHash,
           UNCHANGED lines, NEW c \in Slots, NEW r, r.hash = nextHash,
           draft' = [draft EXCEPT ![c] = r], nextHash' = nextHash + 1,
           \A d \in Slots : d # c => pc'[d] \notin Appending
    PROVE  HashesFresh'
<1>1. nextHash \in Nat /\ nextHash' \in Nat  BY DEF TypeOK
<1>2. draft'[c] = r  BY DEF TypeOK
<1>3. \A i \in DOMAIN lines : hashRecord(lines[i]) \in Int
  BY DEF TypeOK, hashRecord, Line, ChainRecord, TornLine, NoHash
<1> QED BY <1>1, <1>2, <1>3 DEF HashesFresh, hashRecord

\* An append moves the one record in flight to the disk; a checkpoint that is
\* due right after it has a hash of its own.
LEMMA AppendIsFresh ==
    ASSUME TypeOK, NothingTorn, HashesFresh, NEW c \in Slots, pc[c] \in Appending,
           AppendLine(draft[c]), torn' = FALSE, nextHash' \in {nextHash, nextHash + 1},
           \A d \in Slots : d # c => pc'[d] \notin Appending,
           pc'[c] \in Appending => draft'[c].hash = nextHash /\ nextHash' = nextHash + 1
    PROVE  HashesFresh'
<1>1. draft[c] \in ChainRecord /\ nextHash \in Nat /\ Len(lines) \in Nat  BY DEF TypeOK
<1>2. /\ lines' \in Seq(Line) /\ Len(lines') = Len(lines) + 1
      /\ \A i \in 1..Len(lines) : lines'[i] = lines[i]
      /\ lines'[Len(lines')] = draft[c]
  BY <1>1, CleanAppend
<1>3. \A i \in DOMAIN lines' : hashRecord(lines'[i]) < nextHash
  <2> SUFFICES ASSUME NEW i \in DOMAIN lines' PROVE hashRecord(lines'[i]) < nextHash
    OBVIOUS
  <2>1. i \in 1..Len(lines) \/ i = Len(lines')  BY <1>1, <1>2
  <2> QED BY <1>2, <2>1, SMTT(20) DEF HashesFresh, TypeOK
<1>4. \A i \in DOMAIN lines' : hashRecord(lines'[i]) \in Int
  BY <1>2 DEF hashRecord, Line, ChainRecord, TornLine, NoHash
<1> QED BY <1>1, <1>3, <1>4 DEF HashesFresh, hashRecord

\* Steps that draft and write nothing.
LEMMA QuietIsFresh ==
    ASSUME HashesFresh, UNCHANGED <<lines, draft, nextHash>>,
           \A c \in Slots : pc'[c] \in Appending => pc[c] \in Appending
    PROVE  HashesFresh'
BY DEF HashesFresh

\* Each step of a call keeps the hashes apart.
LEMMA StepIsFresh ==
    ASSUME Orderly, TypeOK, LedgerInv, OneInFlight', NEW c \in Slots, Step(c)
    PROVE  HashesFresh'
<1>1. pc[c] \in InFlight /\ \A d \in Slots : d # c => pc[d] \notin InFlight
  <2>1. pc[c] \in InFlight
    BY PointFacts DEF Step, AppendRecord, AppendCheckpoint, AppendBreak, WriteFails,
       WriteTorn, Rename, RenameFails, PersistState, PersistStateFails,
       PersistChainState, PersistChainStateFails
  <2> QED BY <2>1, InFlightUnique DEF LedgerInv, ChainInv, LinkInv
<1>2. \E point \in Points : pc' = [pc EXCEPT ![c] = point]
  BY PointFacts
  DEF Step, AppendRecord, AppendCheckpoint, AppendBreak, WriteFails,
      WriteTorn, Rename, RenameFails, PersistState, PersistStateFails,
      PersistChainState, PersistChainStateFails, BeginCheckpoint, Draft, Reject,
      AfterAppends, Points
<1>3. \A d \in Slots : d # c => pc'[d] = pc[d] /\ pc'[d] \notin Appending
  BY <1>1, <1>2, PointFacts DEF TypeOK
<1>4. NothingTorn /\ HashesFresh  BY DEF LedgerInv, ChainInv, LinkInv
<1>5. CASE AppendRecord(c)
  <2>1. /\ pc[c] \in Appending /\ AppendLine(draft[c]) /\ torn' = FALSE
    BY <1>5, PointFacts DEF AppendRecord
  <2>2. CASE BeginCheckpoint(c, lastHash', totalRecordCount')
    <3>1. draft'[c].hash = nextHash /\ nextHash' = nextHash + 1
      BY <2>2 DEF BeginCheckpoint, Draft, CheckpointRecord, TypeOK
    <3> QED BY <1>3, <1>4, <2>1, <3>1, AppendIsFresh
  <2>3. CASE pc' = [pc EXCEPT ![c] = AfterAppends(currentSize')] /\ UNCHANGED nextHash
    <3>1. pc'[c] \notin Appending  BY <2>3, PointFacts DEF AfterAppends, TypeOK
    <3> QED BY <1>3, <1>4, <2>1, <2>3, <3>1, AppendIsFresh
  <2> QED BY <1>5, <2>2, <2>3 DEF AppendRecord
<1>6. CASE AppendCheckpoint(c) \/ AppendBreak(c)
  <2>1. /\ pc[c] \in Appending /\ AppendLine(draft[c]) /\ torn' = FALSE
        /\ UNCHANGED nextHash
    BY <1>6, PointFacts DEF AppendCheckpoint, AppendBreak
  <2>2. pc'[c] \notin Appending
    BY <1>6, PointFacts DEF AppendCheckpoint, AppendBreak, AfterAppends, TypeOK
  <2> QED BY <1>3, <1>4, <2>1, <2>2, AppendIsFresh
<1>7. CASE WriteTorn(c) \/ PersistStateFails(c) \/ PersistChainStateFails(c)
  BY <1>7 DEF WriteTorn, TornAppend, PersistStateFails, PersistChainStateFails, Orderly
<1>8. CASE WriteFails(c) \/ Rename(c) \/ RenameFails(c) \/ PersistState(c) \/ PersistChainState(c)
  <2>1. UNCHANGED <<lines, draft, nextHash>>
    BY <1>8 DEF WriteFails, Rename, RenameFails, PersistState, PersistChainState, disk
  <2>2. pc'[c] \notin Appending
    BY <1>8, PointFacts
    DEF WriteFails, Reject, Rename, RenameFails, PersistState, PersistChainState, TypeOK
  <2> QED BY <1>3, <1>4, <2>1, <2>2, QuietIsFresh
<1> QED BY <1>5, <1>6, <1>7, <1>8 DEF Step

\* So do calls, starts and the end of the process.
LEMMA OtherIsFresh ==
    ASSUME Orderly, TypeOK, LedgerInv,
           Stop \/ DamageState \/ Boots \/ \E c \in Calls : Call(c)
    PROVE  HashesFresh'
<1> USE DEF disk, memory, counters, control
<1>0. OneInFlight /\ HashesFresh  BY DEF LedgerInv, ChainInv, LinkInv
<1>1. CASE Stop
  <2>1. \A c \in Slots : pc[c] \notin InFlight  BY <1>1 DEF Stop, Orderly, Busy
  <2>2. UNCHANGED <<lines, draft, nextHash>>  BY <1>1, <2>1, PointFacts DEF Stop
  <2>3. \A c \in Slots : pc'[c] \notin Appending  BY <1>0, <1>1, StopSettles, PointFacts
  <2> QED BY <1>0, <2>2, <2>3, QuietIsFresh
<1>2. CASE DamageState \/ Resume \/ Refuse
  <2>1. UNCHANGED <<lines, draft, nextHash>>  BY <1>2 DEF DamageState, Resume, Refuse
  <2>2. UNCHANGED pc \/ pc' = [pc EXCEPT ![Boot] = "resolved"]
    BY <1>2 DEF DamageState, Resume, Refuse
  <2>3. \A c \in Slots : pc'[c] \in Appending => pc[c] \in Appending
    BY <2>2, PointFacts DEF TypeOK
  <2> QED BY <1>0, <2>1, <2>3, QuietIsFresh
<1>3. CASE StartForced
  <2>1. proc \in {"down", "refused"}  BY <1>3 DEF StartForced
  <2>2. \A c \in Slots : pc[c] \notin InFlight
    BY <1>0, <2>1, PointFacts, SlotCases DEF OneInFlight
  <2>3. /\ UNCHANGED lines /\ nextHash' = nextHash + 1
        /\ pc' = [pc EXCEPT ![Boot] = "append_break"]
        /\ draft' = [draft EXCEPT ![Boot] = ChainBreakRecord(nextHash, lastHash')]
    BY <1>3 DEF StartForced, Draft
  <2>4. \A d \in Slots : d # Boot => pc'[d] \notin Appending
    BY <2>2, <2>3, PointFacts DEF TypeOK
  <2>5. ChainBreakRecord(nextHash, lastHash').hash = nextHash  BY DEF ChainBreakRecord
  <2> QED BY <1>0, <2>3, <2>4, <2>5, DraftIsFresh, PointFacts DEF HashesFresh
<1>4. ASSUME NEW c \in Calls, Start(c) PROVE HashesFresh'
  <2>1. Ready(c) /\ UNCHANGED lines /\ c \in Slots
    BY <1>4, PointFacts DEF Start, StartRecord, StartToolDrift, StartCheckpoint, StartBreak
  <2>2. \A d \in Slots : pc[d] \notin InFlight  BY <1>0, <2>1, ReadyAlone
  <2>3. \E r, point : r.hash = nextHash /\ Draft(c, r, point)
    BY <1>4 DEF Start, StartRecord, StartToolDrift, StartCheckpoint, StartBreak,
       BeginCheckpoint, AuditRecord, ToolDriftRecord, CheckpointRecord, ChainBreakRecord
  <2>4. \A d \in Slots : d # c => pc'[d] \notin Appending
    BY <2>2, <2>3, PointFacts DEF Draft, TypeOK
  <2> QED BY <1>0, <2>1, <2>3, <2>4, DraftIsFresh DEF Draft, HashesFresh
<1>5. ASSUME NEW c \in Calls, NEW o \in Ops, Enqueue(c, o) PROVE HashesFresh'
  <2>1. UNCHANGED <<lines, draft, nextHash>> /\ pc' = [pc EXCEPT ![c] = "queued"]
    BY <1>5 DEF Enqueue
  <2>2. \A d \in Slots : pc'[d] \in Appending => pc[d] \in Appending
    BY <2>1, PointFacts DEF TypeOK
  <2> QED BY <1>0, <2>1, <2>2, QuietIsFresh
<1> QED BY <1>1, <1>2, <1>3, <1>4, <1>5 DEF Boots, Call

\* LedgerInv is inductive.
LEMMA LedgerStep ==
    ASSUME Orderly, TypeOK, LedgerInv, [Next]_vars
    PROVE  LedgerInv'
<1>1. ChainInv'  BY ChainStep DEF LedgerInv
<1>2. OneInFlight'  BY <1>1 DEF ChainInv, LinkInv
<1>3. CASE UNCHANGED vars
  BY <1>1, <1>3, QuietIsFresh DEF vars, disk, control, LedgerInv
<1>4. CASE Next
  BY <1>1, <1>2, <1>3, <1>4, StepIsFresh, OtherIsFresh
  DEF Next, Environment, Finished, LedgerInv
<1> QED BY <1>3, <1>4

\* An append of the writer is an append of the ledger.
LEMMA AppendEntersLedger ==
    ASSUME TypeOK, LedgerInv, NEW c \in Slots, pc[c] \in Appending,
           AppendLine(draft[c]), torn' = FALSE
    PROVE  Ledger!AppendLinked
<1>1. draft[c] \in ChainRecord /\ Len(lines) \in Nat /\ lines \in Seq(Line)
  BY DEF TypeOK
<1>2. /\ lines' \in Seq(Line) /\ Len(lines') = Len(lines) + 1
      /\ \A i \in 1..Len(lines) : lines'[i] = lines[i]
      /\ lines'[Len(lines')] = draft[c]
  BY <1>1, CleanAppend DEF LedgerInv, ChainInv, LinkInv
<1>3. SubSeq(lines', 1, Len(lines)) = lines
  <2>1. lines' = Append(lines, draft[c])
    BY DEF AppendLine, LedgerInv, ChainInv, LinkInv, NothingTorn
  <2>2. draft[c] \in Line  BY <1>1 DEF Line
  <2> QED BY <1>1, <2>1, <2>2, AppendProperties
<1>4. Ledger!Grows  BY <1>2, <1>3 DEF Ledger!Grows
<1>5. Ledger!Fresh(lines, draft[c])
  BY DEF Ledger!Fresh, LedgerInv, HashesFresh, hashRecord, Ledger!hashRecord
<1>6. Parses(draft[c])  BY <1>1, RecordHash DEF Parses
<1>7. isChainBreak(draft[c]) \/ draft[c].previousHash = Ledger!ChainHead(lines)
  <2>1. ChainHead = Ledger!ChainHead(lines)  BY DEF ChainHead, Ledger!ChainHead, genesis, Ledger!genesis,
         hashRecord, Ledger!hashRecord
  <2>2. CASE pc[c] = "append_break"
    BY <2>2 DEF LedgerInv, ChainInv, LinkInv, DraftsLinked
  <2>3. CASE pc[c] # "append_break"
    <3>1. pc[c] \in {"append_record", "append_checkpoint"}  BY <2>3, PointFacts
    <3>2. c \in Calls /\ proc = "up"
      BY <3>1, PointFacts, SlotCases DEF LedgerInv, ChainInv, LinkInv, OneInFlight
    <3> QED BY <2>1, <3>1, <3>2
            DEF LedgerInv, ChainInv, LinkInv, DraftsLinked, HeadTracksChain
  <2> QED BY <2>2, <2>3
<1> QED BY <1>2, <1>4, <1>5, <1>6, <1>7
    DEF Ledger!AppendLinked, Ledger!Newest, Ledger!Linked, Parses, Ledger!Parses,
        isChainBreak, Ledger!isChainBreak

\* Every step of the writer appends to the ledger or leaves it alone.
LEMMA StepsMap ==
    ASSUME Orderly, TypeOK, LedgerInv, [Next]_vars
    PROVE  Ledger!AppendLinked \/ UNCHANGED lines
<1> USE DEF disk, memory, counters, control
<1>1. CASE UNCHANGED vars  BY <1>1 DEF vars
<1>2. ASSUME NEW c \in Slots, Step(c) PROVE Ledger!AppendLinked \/ UNCHANGED lines
  <2>1. CASE AppendRecord(c) \/ AppendCheckpoint(c) \/ AppendBreak(c)
    <3>1. pc[c] \in Appending /\ AppendLine(draft[c]) /\ torn' = FALSE
      BY <2>1, PointFacts DEF AppendRecord, AppendCheckpoint, AppendBreak
    <3> QED BY <3>1, AppendEntersLedger
  <2>2. CASE WriteTorn(c)  BY <2>2 DEF WriteTorn, TornAppend, Orderly
  <2>3. CASE ~(AppendRecord(c) \/ AppendCheckpoint(c) \/ AppendBreak(c) \/ WriteTorn(c))
    BY <1>2, <2>3 DEF Step, WriteFails, Rename, RenameFails, PersistState,
       PersistStateFails, PersistChainState, PersistChainStateFails
  <2> QED BY <2>1, <2>2, <2>3
<1>3. ASSUME NEW c \in Calls, Call(c) PROVE UNCHANGED lines
  BY <1>3 DEF Call, Enqueue, Start, StartRecord, StartToolDrift, StartCheckpoint, StartBreak
<1>4. CASE Stop
  <2>1. \A c \in Slots : pc[c] \notin InFlight  BY <1>4 DEF Stop, Orderly, Busy
  <2> QED BY <1>4, <2>1, PointFacts DEF Stop
<1>5. CASE DamageState \/ Boots
  BY <1>5 DEF DamageState, Boots, Resume, Refuse, StartForced
<1> QED BY <1>1, <1>2, <1>3, <1>4, <1>5 DEF Next, Environment, Finished

\* The writer implements the ledger of linked records: in every behaviour in
\* which the process ends between calls, the state file of a rotation gets
\* written and records fit the tail init() reads, the files grow by one new
\* record at a time, linked to the one before, and change in no other way.
THEOREM WriterImplementsLedger ==
    ASSUME Orderly
    PROVE  Spec => ImplementsLinkedLedger
<1>1. Init => LedgerInv
  <2> SUFFICES ASSUME Init PROVE LedgerInv  OBVIOUS
  <2>1. ChainInv  BY ChainInit
  <2>2. HashesFresh
    <3>1. lines = <<>> /\ \A c \in Slots : pc[c] \in {"resolved", "new"}  BY DEF Init
    <3> QED BY <3>1, PointFacts DEF HashesFresh
  <2> QED BY <2>1, <2>2 DEF LedgerInv
<1>2. TypeOK /\ LedgerInv /\ [Next]_vars => LedgerInv'  BY LedgerStep
<1>3. Init => Ledger!Init  BY DEF Init, Ledger!Init
<1>4. TypeOK /\ LedgerInv /\ [Next]_vars => [Ledger!AppendLinked]_lines  BY StepsMap
<1> QED BY <1>1, <1>2, <1>3, <1>4, TypeCorrect, PTL
        DEF Spec, ImplementsLinkedLedger, Ledger!LinkedSpec

-----------------------------------------------------------------------------
(* The calls that resolved                                                 *)

\* The record call c was made for has been appended, as far as c knows.
Recorded(c) ==
    \/ pc[c] \in {"rename", "persist", "persist_chain", "resolved"}
    \/ pc[c] = "append_checkpoint" /\ op[c] # "checkpoint"

\* Records lie on disk in the order they were drafted.
LinesInOrder ==
    /\ \A i \in DOMAIN lines : hashRecord(lines[i]) < nextHash
    /\ \A i, j \in DOMAIN lines : i < j /\ Parses(lines[i]) /\ Parses(lines[j])
                                    => hashRecord(lines[i]) < hashRecord(lines[j])

\* What a call is about to append is newer than anything written.
DraftNewest ==
    \A c \in Slots : pc[c] \in Appending =>
        /\ hashRecord(draft[c]) < nextHash
        /\ \A i \in DOMAIN lines : hashRecord(lines[i]) < hashRecord(draft[c])
        /\ \A d \in Calls : Recorded(d) => written[d] < hashRecord(draft[c])

\* The calls that were recorded were so in the order they were made.
WrittenInOrder ==
    /\ \A c \in Calls : Recorded(c) => written[c] \in 1..(nextHash - 1)
    /\ \A c, d \in Calls : c < d /\ Recorded(c) /\ Recorded(d) => written[c] < written[d]

\* A call resolves after the calls made before it have settled.
ResolvedInOrder ==
    \A c, d \in Calls : c < d /\ pc[d] = "resolved" => pc[c] \in Settled

OrderInv ==
    OneInFlight /\ LinesInOrder /\ DraftNewest /\ WrittenInOrder /\ ResolvedInOrder

\* The hash of a line tells a record from a fragment.
LEMMA LineHash ==
    ASSUME NEW r \in Line
    PROVE  /\ hashRecord(r) \in Int
           /\ Parses(r) => hashRecord(r) \in Nat \ {0}
           /\ ~Parses(r) => r = TornLine /\ hashRecord(r) = -2
<1>1. CASE r \in ChainRecord
  BY <1>1, RecordHash DEF genesis
<1>2. CASE r = TornLine
  BY <1>2 DEF TornLine, NoHash, hashRecord, Parses
<1> QED BY <1>1, <1>2 DEF Line

\* A step of a call moves that call only, and the call was in flight.
LEMMA StepMoves ==
    ASSUME TypeOK, OneInFlight, NEW c \in Slots, Step(c)
    PROVE  /\ pc[c] \in InFlight /\ pc'[c] \in InFlight \cup Settled
           /\ \A d \in Slots : d # c => pc[d] \notin InFlight /\ pc'[d] = pc[d]
<1>1. pc[c] \in InFlight
  BY PointFacts DEF Step, AppendRecord, AppendCheckpoint, AppendBreak, WriteFails,
     WriteTorn, Rename, RenameFails, PersistState, PersistStateFails,
     PersistChainState, PersistChainStateFails
<1>2. \A d \in Slots : d # c => pc[d] \notin InFlight  BY <1>1, InFlightUnique
<1>3. \E point \in InFlight \cup Settled : pc' = [pc EXCEPT ![c] = point]
  BY PointFacts
  DEF Step, AppendRecord, AppendCheckpoint, AppendBreak, WriteFails,
      WriteTorn, Rename, RenameFails, PersistState, PersistStateFails,
      PersistChainState, PersistChainStateFails, BeginCheckpoint, Draft, Reject,
      AfterAppends
<1>4. pc'[c] \in InFlight \cup Settled /\ \A d \in Slots : d # c => pc'[d] = pc[d]
  BY <1>3 DEF TypeOK
<1> QED BY <1>1, <1>2, <1>4

\* Making a call queues it; starting one drafts a record with the next hash.
LEMMA CallMoves ==
    ASSUME TypeOK, OneInFlight, NEW c \in Calls, Call(c)
    PROVE  /\ pc[c] \in {"new", "queued"}
           /\ \A d \in Slots : d # c => pc'[d] = pc[d]
           /\ UNCHANGED <<lines, torn, written>>
           /\ \/ pc'[c] = "queued" /\ UNCHANGED <<draft, nextHash>>
              \/ /\ pc'[c] \in Appending /\ op'[c] = op[c]
                 /\ \A d \in Slots : pc[d] \notin InFlight
                 /\ nextHash' = nextHash + 1 /\ draft'[c].hash = nextHash
                 /\ \A d \in Slots : d # c => draft'[d] = draft[d]
           /\ \A d \in Calls : d # c => op'[d] = op[d]
<1> USE DEF disk
<1>1. ASSUME NEW o \in Ops, Enqueue(c, o)
      PROVE  /\ pc[c] = "new" /\ pc'[c] = "queued" /\ UNCHANGED <<lines, torn, written, draft, nextHash>>
             /\ \A d \in Slots : d # c => pc'[d] = pc[d]
             /\ \A d \in Calls : d # c => op'[d] = op[d]
  BY <1>1, PointFacts DEF Enqueue, TypeOK
<1>2. CASE Start(c)
  <2>1. Ready(c) /\ UNCHANGED <<lines, torn, written, op>> /\ c \in Slots
    BY <1>2, PointFacts DEF Start, StartRecord, StartToolDrift, StartCheckpoint, StartBreak
  <2>2. \A d \in Slots : pc[d] \notin InFlight  BY <2>1, ReadyAlone
  <2>3. PICK r, point : r.hash = nextHash /\ Draft(c, r, point)
    BY <1>2 DEF Start, StartRecord, StartToolDrift, StartCheckpoint, StartBreak,
       BeginCheckpoint, AuditRecord, ToolDriftRecord, CheckpointRecord, ChainBreakRecord
  <2>4. pc'[c] = point /\ draft'[c] = r /\ nextHash' = nextHash + 1
        /\ \A d \in Slots : d # c => pc'[d] = pc[d] /\ draft'[d] = draft[d]
    BY <2>1, <2>3 DEF Draft, TypeOK
  <2>5. pc'[c] \in Appending
    <3>1. \E p \in Appending : pc' = [pc EXCEPT ![c] = p]
      BY <1>2, PointFacts DEF Start, StartRecord, StartToolDrift, StartCheckpoint,
         StartBreak, BeginCheckpoint, Draft
    <3> QED BY <2>1, <3>1 DEF TypeOK
  <2> QED BY <2>1, <2>2, <2>3, <2>4, <2>5 DEF Ready
<1> QED BY <1>1, <1>2 DEF Call

\* A call that has settled stays as it is.
LEMMA SettledStays ==
    ASSUME TypeOK, OneInFlight, [Next]_vars, NEW c \in Calls, pc[c] \in Settled
    PROVE  pc'[c] = pc[c]
<1>0. c \in Slots /\ c # Boot /\ pc[c] \notin InFlight /\ pc[c] \notin {"new", "queued"}
  BY PointFacts
<1>1. ASSUME NEW d \in Slots, Step(d) PROVE pc'[c] = pc[c]
  BY <1>0, <1>1, StepMoves
<1>2. ASSUME NEW d \in Calls, Call(d) PROVE pc'[c] = pc[c]
  BY <1>0, <1>2, CallMoves
<1>3. CASE Stop  BY <1>0, <1>3 DEF Stop, TypeOK
<1>4. CASE DamageState \/ Boots
  BY <1>0, <1>4 DEF DamageState, Boots, Resume, Refuse, StartForced, Draft, control, TypeOK
<1>5. CASE UNCHANGED vars  BY <1>5 DEF vars, control
<1> QED BY <1>1, <1>2, <1>3, <1>4, <1>5 DEF Next, Environment, Finished

\* A call that resolves is the only one in flight, so that those made before
\* it have settled, and stay so.
LEMMA QueueStep ==
    ASSUME TypeOK, OneInFlight, ResolvedInOrder, [Next]_vars
    PROVE  ResolvedInOrder'
<1> SUFFICES ASSUME NEW c \in Calls, NEW d \in Calls, c < d, pc'[d] = "resolved"
             PROVE  pc'[c] \in Settled
  BY DEF ResolvedInOrder
<1>1. SUFFICES pc[c] \in Settled  BY SettledStays
<1>2. CASE pc[d] = "resolved"  BY <1>2 DEF ResolvedInOrder
<1>3. CASE pc[d] # "resolved"
  <2>1. pc[d] \in InFlight
    <3>1. ASSUME NEW e \in Slots, Step(e) PROVE pc[d] \in InFlight
      BY <1>3, <3>1, StepMoves, PointFacts
    <3>2. ASSUME NEW e \in Calls, Call(e) PROVE FALSE
      <4>1. pc'[e] \in {"queued"} \cup Appending  BY <3>2, CallMoves
      <4>2. d # e => pc'[d] = pc[d]  BY <3>2, CallMoves, PointFacts
      <4> QED BY <1>3, <4>1, <4>2, PointFacts
    <3>3. CASE Stop  BY <1>3, <3>3, PointFacts DEF Stop, TypeOK
    <3>4. CASE DamageState \/ Boots
      BY <1>3, <3>4, PointFacts
      DEF DamageState, Boots, Resume, Refuse, StartForced, Draft, control, TypeOK
    <3>5. CASE UNCHANGED vars  BY <1>3, <3>5 DEF vars, control
    <3> QED BY <3>1, <3>2, <3>3, <3>4, <3>5 DEF Next, Environment, Finished
  <2> QED BY <2>1, PointFacts DEF OneInFlight
<1> QED BY <1>2, <1>3

\* An append of a record newer than all lines keeps the lines in order, glued
\* to a fragment or not; the lines already there stay, but for a torn last one.
LEMMA AppendOrders ==
    ASSUME TypeOK, LinesInOrder, NEW r \in Line, AppendLine(r),
           hashRecord(r) < nextHash, nextHash' \in {nextHash, nextHash + 1},
           Parses(r) => \A i \in DOMAIN lines : hashRecord(lines[i]) < hashRecord(r)
    PROVE  /\ LinesInOrder'
           /\ \A i \in DOMAIN lines' :
                 hashRecord(lines'[i]) \in Int /\ hashRecord(lines'[i]) < nextHash
<1>0. Len(lines) \in Nat /\ nextHash \in Nat \ {0} /\ lines \in Seq(Line)
      /\ (torn => Len(lines) \in 1..Len(lines)) /\ torn \in BOOLEAN
  BY DEF TypeOK, genesis
<1>1. /\ lines' \in Seq(Line)
      /\ Len(lines') = IF torn THEN Len(lines) ELSE Len(lines) + 1
      /\ \A i \in 1..(Len(lines') - 1) : lines'[i] = lines[i]
      /\ lines'[Len(lines')] = IF torn THEN TornLine ELSE r
  BY AppendLineType
<1> DEFINE n == Len(lines')
<1>2. n \in Nat \ {0} /\ n - 1 <= Len(lines) /\ DOMAIN lines' = 1..n /\ DOMAIN lines = 1..Len(lines)
  BY <1>0, <1>1
<1>3. \A i \in DOMAIN lines' : lines'[i] \in Line  BY <1>1
<1>4. \A i \in 1..(n - 1) : i \in DOMAIN lines /\ lines'[i] = lines[i]
  BY <1>0, <1>1, <1>2
<1>5. Parses(lines'[n]) => ~torn /\ lines'[n] = r
  BY <1>1 DEF Parses, TornLine
<1>6. hashRecord(lines'[n]) < nextHash
  <2>1. hashRecord(TornLine) = -2  BY DEF TornLine, NoHash, hashRecord
  <2> QED BY <1>0, <1>1, <2>1
<1>7. \A i \in DOMAIN lines' : hashRecord(lines'[i]) \in Int  BY <1>3, LineHash
<1>8. \A i \in DOMAIN lines' : hashRecord(lines'[i]) < nextHash
  <2> SUFFICES ASSUME NEW i \in DOMAIN lines' PROVE hashRecord(lines'[i]) < nextHash
    OBVIOUS
  <2>1. i = n \/ i \in 1..(n - 1)  BY <1>2
  <2> QED BY <1>4, <1>6, <2>1 DEF LinesInOrder
<1>9. ASSUME NEW i \in DOMAIN lines', NEW j \in DOMAIN lines', i < j,
             Parses(lines'[i]), Parses(lines'[j])
      PROVE  hashRecord(lines'[i]) < hashRecord(lines'[j])
  <2>1. i \in 1..(n - 1)  BY <1>2, <1>9
  <2>2. CASE j = n
    <3>1. lines'[j] = r /\ Parses(r)  BY <1>5, <1>9, <2>2
    <3>2. i \in DOMAIN lines /\ lines'[i] = lines[i]  BY <1>4, <2>1
    <3> QED BY <3>1, <3>2
  <2>3. CASE j # n
    <3>1. j \in 1..(n - 1)  BY <1>2, <2>3
    <3>2. /\ i \in DOMAIN lines /\ lines'[i] = lines[i]
          /\ j \in DOMAIN lines /\ lines'[j] = lines[j]
      BY <1>4, <2>1, <3>1
    <3> QED BY <1>9, <3>2 DEF LinesInOrder
  <2> QED BY <2>2, <2>3
<1>10. \A i \in DOMAIN lines' : hashRecord(lines'[i]) < nextHash'
  BY <1>0, <1>7, <1>8
<1> QED BY <1>7, <1>8, <1>9, <1>10 DEF LinesInOrder

\* What the steps of the system do to the files and to the records on their
\* way there, of which there are three kinds: the record in flight is appended
\* (or torn, which ends its call), a record is drafted, or neither.
Appends(c) ==
    /\ pc[c] \in Appending
    /\ \/ AppendLine(draft[c]) /\ torn' = FALSE
       \/ TornAppend(draft[c]) /\ pc'[c] \in {"rejected", "lost"}
    /\ \/ UNCHANGED nextHash /\ pc'[c] \notin Appending
       \/ nextHash' = nextHash + 1 /\ draft'[c].hash = nextHash
    /\ \A d \in Slots : d # c => pc'[d] \notin Appending
    /\ \A d \in Calls : d # c /\ Recorded(d)' => Recorded(d) /\ written'[d] = written[d]
    /\ c \in Calls /\ Recorded(c)' => \/ written'[c] = hashRecord(draft[c])
                                      \/ Recorded(c) /\ written'[c] = written[c]

Drafts(c) ==
    /\ UNCHANGED <<lines, torn, written>>
    /\ nextHash' = nextHash + 1 /\ draft'[c].hash = nextHash
    /\ \A d \in Slots : d # c => pc'[d] \notin Appending
    /\ \A d \in Calls : Recorded(d)' => Recorded(d)

Quiet ==
    /\ UNCHANGED <<lines, draft, nextHash, written>> /\ torn' \in {torn, FALSE}
    /\ \A d \in Slots : pc'[d] \in Appending => pc[d] \in Appending
    /\ \A d \in Calls : Recorded(d)' => Recorded(d)

Kinds == Quiet \/ \E c \in Slots : Appends(c) \/ Drafts(c)

\* Steps that write, draft and record nothing.
LEMMA QuietKeepsOrder ==
    ASSUME OrderInv, Quiet
    PROVE  LinesInOrder' /\ DraftNewest' /\ WrittenInOrder'
<1> USE DEF Quiet
<1>1. LinesInOrder'  BY DEF OrderInv, LinesInOrder
<1>2. DraftNewest'  BY DEF OrderInv, DraftNewest
<1>3. WrittenInOrder'  BY DEF OrderInv, WrittenInOrder
<1> QED BY <1>1, <1>2, <1>3

\* A record drafted with the next hash is newer than all that is written.
LEMMA DraftKeepsOrder ==
    ASSUME TypeOK, OrderInv, NEW c \in Slots, Drafts(c)
    PROVE  LinesInOrder' /\ DraftNewest' /\ WrittenInOrder'
<1> USE DEF Drafts
<1>1. nextHash \in Nat  BY DEF TypeOK
<1>2. \A i \in DOMAIN lines : hashRecord(lines[i]) \in Int /\ hashRecord(lines[i]) < nextHash
  BY LineHash DEF TypeOK, OrderInv, LinesInOrder
<1>3. \A d \in Calls : Recorded(d) => written[d] \in 1..(nextHash - 1)
  BY DEF OrderInv, WrittenInOrder
<1>4. LinesInOrder'  BY <1>1, <1>2 DEF OrderInv, LinesInOrder
<1>5. DraftNewest'
  <2> SUFFICES ASSUME NEW d \in Slots, pc'[d] \in Appending
               PROVE  /\ hashRecord(draft'[d]) < nextHash'
                      /\ \A i \in DOMAIN lines' : hashRecord(lines'[i]) < hashRecord(draft'[d])
                      /\ \A e \in Calls : Recorded(e)' => written'[e] < hashRecord(draft'[d])
    BY DEF DraftNewest
  <2>1. d = c  OBVIOUS
  <2>2. hashRecord(draft'[d]) = nextHash  BY <2>1 DEF hashRecord
  <2> QED BY <1>1, <1>2, <1>3, <2>2
<1>6. WrittenInOrder'
  <2>1. \A d \in Calls : Recorded(d)' => written'[d] \in 1..(nextHash' - 1)
    BY <1>1, <1>3
  <2> QED BY <2>1 DEF OrderInv, WrittenInOrder
<1> QED BY <1>4, <1>5, <1>6

\* No call made after one in flight has been recorded.
LEMMA LaterNotRecorded ==
    ASSUME OneInFlight, ResolvedInOrder, NEW c \in Calls, pc[c] \in InFlight,
           NEW d \in Calls, Recorded(d)
    PROVE  d = c \/ d < c
<1>1. c \in Int /\ d \in Int  BY ConstantsAssumption DEF Calls
<1>2. CASE pc[d] = "resolved"
  BY <1>1, <1>2, PointFacts DEF ResolvedInOrder
<1>3. CASE pc[d] # "resolved"
  <2>1. pc[d] \in InFlight  BY <1>3, PointFacts DEF Recorded
  <2> QED BY <2>1, InFlightUnique, PointFacts
<1> QED BY <1>2, <1>3

\* The record in flight goes to the file, or a fragment of it; if the call is
\* recorded by that it is so under the hash of that record.
LEMMA AppendKeepsOrder ==
    ASSUME TypeOK, OrderInv, NEW c \in Slots, Appends(c)
    PROVE  LinesInOrder' /\ DraftNewest' /\ WrittenInOrder'
<1>0. PICK r \in {draft[c], TornLine} : AppendLine(r)  BY DEF Appends, TornAppend
<1> USE DEF Appends
<1> DEFINE h == hashRecord(draft[c])
<1>1. nextHash \in Nat \ {0} /\ nextHash' \in {nextHash, nextHash + 1}
  BY DEF TypeOK, genesis
<1>2. draft[c] \in ChainRecord  BY DEF TypeOK
<1>3. h \in Nat \ {0} /\ draft[c] \in Line  BY <1>2, RecordHash DEF genesis
<1>4. /\ h < nextHash
      /\ \A i \in DOMAIN lines : hashRecord(lines[i]) < h
      /\ \A d \in Calls : Recorded(d) => written[d] < h
  BY DEF OrderInv, DraftNewest
<1>5. r \in Line /\ hashRecord(r) < nextHash
      /\ (Parses(r) => \A i \in DOMAIN lines : hashRecord(lines[i]) < hashRecord(r))
  BY <1>0, <1>1, <1>3, <1>4 DEF Line, TornLine, NoHash, hashRecord, Parses
<1>6. /\ LinesInOrder'
      /\ \A i \in DOMAIN lines' :
            hashRecord(lines'[i]) \in Int /\ hashRecord(lines'[i]) < nextHash
  BY <1>0, <1>1, <1>5, AppendOrders DEF OrderInv
<1>7. \A d \in Calls : Recorded(d) => written[d] \in 1..(nextHash - 1)
  BY DEF OrderInv, WrittenInOrder
<1>8. \A d \in Calls : Recorded(d)' => \/ d = c /\ written'[d] = h
                                       \/ Recorded(d) /\ written'[d] = written[d]
  BY PointFacts
<1> HIDE DEF h
<1>9. \A d \in Calls : Recorded(d)' => written'[d] \in 1..(nextHash - 1)
  BY <1>1, <1>3, <1>4, <1>7, <1>8
<1>10. DraftNewest'
  <2> SUFFICES ASSUME NEW d \in Slots, pc'[d] \in Appending
               PROVE  /\ hashRecord(draft'[d]) < nextHash'
                      /\ \A i \in DOMAIN lines' : hashRecord(lines'[i]) < hashRecord(draft'[d])
                      /\ \A e \in Calls : Recorded(e)' => written'[e] < hashRecord(draft'[d])
    BY DEF DraftNewest
  <2>1. d = c  OBVIOUS
  <2>2. hashRecord(draft'[d]) = nextHash /\ nextHash' = nextHash + 1
    BY <2>1 DEF hashRecord
  <2> QED BY <1>1, <1>6, <1>9, <2>2
<1>11. WrittenInOrder'
  <2>1. \A d \in Calls : Recorded(d)' => written'[d] \in 1..(nextHash' - 1)
    BY <1>1, <1>9
  <2>2. ASSUME NEW d \in Calls, NEW e \in Calls, d < e, Recorded(d)', Recorded(e)'
        PROVE  written'[d] < written'[e]
    <3>1. CASE Recorded(d) /\ written'[d] = written[d] /\ Recorded(e) /\ written'[e] = written[e]
      BY <2>2, <3>1 DEF OrderInv, WrittenInOrder
    <3>2. CASE e = c /\ written'[e] = h
      <4>1. d # c  BY <2>2, <3>2, ConstantsAssumption DEF Calls
      <4>2. Recorded(d) /\ written'[d] = written[d]  BY <1>8, <2>2, <4>1
      <4> QED BY <1>4, <3>2, <4>2
    <3>3. CASE d = c /\ written'[d] = h
      <4>1. e # c /\ ~(e < c) /\ c \in Calls  BY <2>2, <3>3, ConstantsAssumption DEF Calls
      <4>2. Recorded(e)  BY <1>8, <2>2, <4>1
      <4>3. pc[c] \in InFlight  BY PointFacts
      <4> QED BY <4>1, <4>2, <4>3, LaterNotRecorded DEF OrderInv
    <3> QED BY <1>8, <2>2, <3>1, <3>2, <3>3
  <2> QED BY <2>1, <2>2 DEF WrittenInOrder
<1> QED BY <1>6, <1>10, <1>11

\* Each step of a call is of one of the kinds.
LEMMA StepKinds ==
    ASSUME TypeOK, OneInFlight, NEW c \in Slots, Step(c)
    PROVE  Quiet \/ Appends(c)
<1>1. /\ pc[c] \in InFlight /\ pc'[c] \in InFlight \cup Settled
      /\ \A d \in Slots : d # c => pc[d] \notin InFlight /\ pc'[d] = pc[d]
  BY StepMoves
<1>2. \A d \in Slots : d # c => pc'[d] \notin Appending  BY <1>1, PointFacts
<1>3. UNCHANGED op
  BY DEF Step, AppendRecord, AppendCheckpoint, AppendBreak, WriteFails,
     WriteTorn, Rename, RenameFails, PersistState, PersistStateFails,
     PersistChainState, PersistChainStateFails
<1>4. \A d \in Calls : d # c /\ Recorded(d)' => Recorded(d) /\ written'[d] = written[d]
  <2>1. \A d \in Slots : d # c => written'[d] = written[d]
    BY DEF Step, AppendRecord, AppendCheckpoint, AppendBreak, WriteFails,
       WriteTorn, Rename, RenameFails, PersistState, PersistStateFails,
       PersistChainState, PersistChainStateFails, TypeOK
  <2> QED BY <1>1, <1>3, <2>1, PointFacts DEF Recorded
<1>5. CASE AppendRecord(c)
  <2>1. /\ pc[c] \in Appending /\ AppendLine(draft[c]) /\ torn' = FALSE
        /\ written' = [written EXCEPT ![c] = hashRecord(draft[c])]
    BY <1>5, PointFacts DEF AppendRecord
  <2>2. \/ UNCHANGED nextHash /\ pc'[c] \notin Appending
        \/ nextHash' = nextHash + 1 /\ draft'[c].hash = nextHash
    <3>1. CASE BeginCheckpoint(c, lastHash', totalRecordCount')
      BY <3>1 DEF BeginCheckpoint, Draft, CheckpointRecord, TypeOK
    <3>2. CASE pc' = [pc EXCEPT ![c] = AfterAppends(currentSize')] /\ UNCHANGED nextHash
      BY <3>2, PointFacts DEF AfterAppends, TypeOK
    <3> QED BY <1>5, <3>1, <3>2 DEF AppendRecord
  <2>3. written'[c] = hashRecord(draft[c])
    BY <2>1 DEF TypeOK
  <2> QED BY <1>2, <1>4, <2>1, <2>2, <2>3 DEF Appends
<1>6. CASE AppendCheckpoint(c)
  <2>1. pc[c] \in Appending /\ AppendLine(draft[c]) /\ torn' = FALSE /\ UNCHANGED nextHash
    BY <1>6, PointFacts DEF AppendCheckpoint
  <2>2. pc'[c] \notin Appending
    BY <1>6, PointFacts DEF AppendCheckpoint, AfterAppends, TypeOK
  <2>3. \/ written'[c] = hashRecord(draft[c])
        \/ Recorded(c) /\ written'[c] = written[c]
    BY <1>6 DEF AppendCheckpoint, Recorded, TypeOK
  <2> QED BY <1>2, <1>4, <2>1, <2>2, <2>3 DEF Appends
<1>7. CASE AppendBreak(c)
  <2>1. /\ pc[c] \in Appending /\ AppendLine(draft[c]) /\ torn' = FALSE /\ UNCHANGED nextHash
        /\ written' = [written EXCEPT ![c] = hashRecord(draft[c])]
        /\ pc'[c] \notin Appending
    BY <1>7, PointFacts DEF AppendBreak, TypeOK
  <2>2. written'[c] = hashRecord(draft[c])  BY <2>1 DEF TypeOK
  <2> QED BY <1>2, <1>4, <2>1, <2>2 DEF Appends
<1>8. CASE WriteTorn(c)
  <2>1. /\ pc[c] \in Appending /\ UNCHANGED <<nextHash, written>> /\ pc'[c] = "rejected"
    BY <1>8 DEF WriteTorn, Reject, TypeOK
  <2>2. TornAppend(draft[c])  BY <1>8 DEF WriteTorn
  <2>3. pc'[c] \notin Appending /\ ~Recorded(c)'  BY <2>1, PointFacts DEF Recorded
  <2> QED BY <1>2, <1>4, <2>1, <2>2, <2>3 DEF Appends
<1>9. CASE \/ WriteFails(c) \/ Rename(c) \/ RenameFails(c) \/ PersistState(c)
           \/ PersistStateFails(c) \/ PersistChainState(c) \/ PersistChainStateFails(c)
  <2>1. UNCHANGED <<lines, draft, nextHash, written>> /\ torn' \in {torn, FALSE}
    BY <1>9 DEF WriteFails, Rename, RenameFails, PersistState, PersistStateFails,
       PersistChainState, PersistChainStateFails, disk
  <2>2. pc'[c] \notin Appending /\ (pc'[c] = "rejected" \/ Recorded(c))
    BY <1>9, PointFacts
    DEF WriteFails, Reject, Rename, RenameFails, PersistState, PersistStateFails,
        PersistChainState, PersistChainStateFails, TypeOK, Recorded
  <2>3. Recorded(c)' => Recorded(c)  BY <2>2, PointFacts DEF Recorded
  <2>4. \A d \in Calls : Recorded(d)' => Recorded(d)  BY <1>4, <2>3
  <2>5. \A d \in Slots : pc'[d] \in Appending => pc[d] \in Appending  BY <1>2, <2>2
  <2> QED BY <2>1, <2>4, <2>5 DEF Quiet
<1> QED BY <1>5, <1>6, <1>7, <1>8, <1>9 DEF Step

\* So do calls that are made or start, a stop, and the start of the process.
LEMMA OtherKinds ==
    ASSUME TypeOK, OneInFlight, Stop \/ DamageState \/ Boots \/ \E c \in Calls : Call(c)
    PROVE  Kinds
<1> USE DEF disk, memory, counters, control
<1>1. ASSUME NEW c \in Calls, Call(c)
      PROVE  Kinds
  <2>1. /\ pc[c] \in {"new", "queued"}
        /\ \A d \in Slots : d # c => pc'[d] = pc[d]
        /\ UNCHANGED <<lines, torn, written>>
        /\ \A d \in Calls : d # c => op'[d] = op[d]
    BY <1>1, CallMoves
  <2>2. \A d \in Calls : d # c /\ Recorded(d)' => Recorded(d)
    BY <2>1, PointFacts DEF Recorded
  <2>3. CASE pc'[c] = "queued" /\ UNCHANGED <<draft, nextHash>>
    <3>1. ~Recorded(c)' /\ pc'[c] \notin Appending  BY <2>3, PointFacts DEF Recorded
    <3>2. \A d \in Calls : Recorded(d)' => Recorded(d)  BY <2>2, <3>1
    <3>3. \A d \in Slots : pc'[d] \in Appending => pc[d] \in Appending  BY <2>1, <3>1
    <3> QED BY <2>1, <2>3, <3>2, <3>3 DEF Quiet, Kinds
  <2>4. CASE /\ pc'[c] \in Appending /\ op'[c] = op[c]
             /\ \A d \in Slots : pc[d] \notin InFlight
             /\ nextHash' = nextHash + 1 /\ draft'[c].hash = nextHash
    <3>1. \A d \in Slots : d # c => pc'[d] \notin Appending  BY <2>1, <2>4, PointFacts
    <3>2. ~Recorded(c)'
      <4>1. Start(c)
        <5>1. ASSUME NEW o \in Ops, Enqueue(c, o) PROVE FALSE
          <6>1. pc'[c] = "queued"  BY <5>1, PointFacts DEF Enqueue, TypeOK
          <6> QED BY <2>4, <6>1, PointFacts
        <5> QED BY <1>1, <5>1 DEF Call
      <4>2. pc'[c] = "append_checkpoint" => op'[c] = "checkpoint"
        BY <4>1, PointFacts DEF Start, StartRecord, StartToolDrift, StartCheckpoint,
           StartBreak, BeginCheckpoint, Draft, TypeOK
      <4> QED BY <2>4, <4>2, PointFacts DEF Recorded
    <3>3. \A d \in Calls : Recorded(d)' => Recorded(d)  BY <2>2, <3>2
    <3> QED BY <2>1, <2>4, <3>1, <3>3, PointFacts DEF Drafts, Kinds
  <2> QED BY <1>1, <2>3, <2>4, CallMoves
<1>2. CASE Stop
  <2>1. /\ \A d \in Slots : pc'[d] = IF pc[d] = "queued" \/ pc[d] \in InFlight
                                     THEN "lost" ELSE pc[d]
        /\ UNCHANGED <<op, draft, written, nextHash>>
    BY <1>2 DEF Stop, TypeOK
  <2>2. \A d \in Slots : pc'[d] \notin Appending  BY <2>1, PointFacts
  <2>3. \A d \in Calls : Recorded(d)' => Recorded(d)  BY <2>1, PointFacts DEF Recorded
  <2>4. CASE UNCHANGED <<lines, torn>>
    BY <2>1, <2>2, <2>3, <2>4 DEF Quiet, Kinds
  <2>5. ASSUME NEW c \in Slots, pc[c] \in Appending,
               (AppendLine(draft[c]) /\ torn' = FALSE) \/ TornAppend(draft[c])
        PROVE  Kinds
    <3>1. pc'[c] = "lost" /\ ~Recorded(c)'  BY <2>1, <2>5, PointFacts DEF Recorded
    <3> QED BY <2>1, <2>2, <2>3, <2>5, <3>1 DEF Appends, Kinds
  <2> QED BY <1>2, <2>4, <2>5 DEF Stop
<1>3. CASE DamageState \/ Resume \/ Refuse
  <2>1. UNCHANGED <<lines, torn, draft, nextHash, written, op>>
    BY <1>3 DEF DamageState, Resume, Refuse
  <2>2. UNCHANGED pc \/ pc' = [pc EXCEPT ![Boot] = "resolved"]
    BY <1>3 DEF DamageState, Resume, Refuse
  <2>3. \A d \in Slots : pc'[d] \in Appending => pc[d] \in Appending
    BY <2>2, PointFacts DEF TypeOK
  <2>4. \A d \in Calls : pc'[d] = pc[d]  BY <2>2, PointFacts DEF TypeOK
  <2> QED BY <2>1, <2>3, <2>4 DEF Recorded, Quiet, Kinds
<1>4. CASE StartForced
  <2>1. proc \in {"down", "refused"}  BY <1>4 DEF StartForced
  <2>2. \A d \in Slots : pc[d] \notin InFlight
    BY <2>1, PointFacts, SlotCases DEF OneInFlight
  <2>3. /\ UNCHANGED <<lines, torn, written, op>> /\ nextHash' = nextHash + 1
        /\ pc' = [pc EXCEPT ![Boot] = "append_break"]
        /\ draft' = [draft EXCEPT ![Boot] = ChainBreakRecord(nextHash, lastHash')]
    BY <1>4 DEF StartForced, Draft
  <2>4. \A d \in Slots : d # Boot => pc'[d] = pc[d]  BY <2>3 DEF TypeOK
  <2>5. \A d \in Slots : d # Boot => pc'[d] \notin Appending  BY <2>2, <2>4, PointFacts
  <2>6. draft'[Boot].hash = nextHash  BY <2>3, PointFacts DEF TypeOK, ChainBreakRecord
  <2>7. \A d \in Calls : Recorded(d)' => Recorded(d)
    BY <2>3, <2>4, PointFacts DEF Recorded
  <2> QED BY <2>3, <2>5, <2>6, <2>7, PointFacts DEF Drafts, Kinds
<1> QED BY <1>1, <1>2, <1>3, <1>4 DEF Boots

\* Every step is of one of the kinds.
LEMMA StepHasKind ==
    ASSUME TypeOK, OneInFlight, [Next]_vars
    PROVE  Kinds
<1>1. CASE UNCHANGED vars  BY <1>1 DEF vars, disk, control, Kinds, Quiet, Recorded
<1>2. CASE Next
  BY <1>1, <1>2, StepKinds, OtherKinds DEF Next, Environment, Finished, Kinds
<1> QED BY <1>1, <1>2

\* OrderInv is inductive.
LEMMA OrderStep ==
    ASSUME TypeOK, OrderInv, [Next]_vars
    PROVE  OrderInv'
<1>1. OneInFlight' /\ ResolvedInOrder'  BY SerialStep, QueueStep DEF OrderInv
<1>2. Kinds  BY StepHasKind DEF OrderInv
<1> QED BY <1>1, <1>2, QuietKeepsOrder, DraftKeepsOrder, AppendKeepsOrder DEF OrderInv, Kinds

\* OrderInv holds before anything is written.
LEMMA OrderInit == Init => OrderInv
<1> SUFFICES ASSUME Init PROVE OrderInv  OBVIOUS
<1>1. lines = <<>> /\ \A c \in Slots : pc[c] = IF c = Boot THEN "resolved" ELSE "new"
  BY DEF Init
<1>2. \A c \in Calls : pc[c] = "new"  BY <1>1, PointFacts
<1>3. \A c \in Slots : pc[c] \notin Appending  BY <1>1, PointFacts
<1>4. \A c \in Calls : ~Recorded(c)  BY <1>2 DEF Recorded
<1>5. LinesInOrder /\ DraftNewest /\ WrittenInOrder /\ ResolvedInOrder
  BY <1>1, <1>2, <1>3, <1>4 DEF LinesInOrder, DraftNewest, WrittenInOrder, ResolvedInOrder
<1> QED BY <1>5, SerialInit DEF OrderInv

\* The records of two recorded calls lie in the order of the calls, and each
\* at one place at most.
LEMMA PlacesInOrder ==
    ASSUME TypeOK, OrderInv
    PROVE  AcknowledgedInOrder
<1>1. \A c \in Acknowledged : c \in Calls /\ Recorded(c) /\ written[c] \in Nat \ {0}
  <2> TAKE c \in Acknowledged
  <2>1. c \in Calls /\ Recorded(c)  BY DEF Acknowledged, Recorded
  <2>2. written[c] \in 1..(nextHash - 1) /\ nextHash \in Nat
    BY <2>1 DEF OrderInv, WrittenInOrder, TypeOK
  <2> QED BY <2>1, <2>2
<1>2. ASSUME NEW c \in Acknowledged, NEW i \in Place(c)
      PROVE  /\ i \in 1..Len(lines) /\ Parses(lines[i]) /\ hashRecord(lines[i]) = written[c]
             /\ hashRecord(lines[i]) \in Int
  <2>1. i \in DOMAIN lines /\ hashRecord(lines[i]) = written[c]  BY DEF Place
  <2>2. lines[i] \in Line /\ i \in 1..Len(lines)  BY <2>1 DEF TypeOK
  <2> QED BY <1>1, <2>1, <2>2, LineHash
<1>3. ASSUME NEW c \in Acknowledged, NEW d \in Acknowledged, written[c] <= written[d],
             NEW i \in Place(c), NEW j \in Place(d)
      PROVE  i <= j
  <2>1. SUFFICES ASSUME j < i PROVE FALSE  BY <1>2
  <2>2. hashRecord(lines[j]) < hashRecord(lines[i])
    BY <1>2, <2>1 DEF OrderInv, LinesInOrder, TypeOK
  <2> QED BY <1>2, <1>3, <2>2
<1>4. ASSUME NEW c \in Acknowledged PROVE Cardinality(Place(c)) <= 1
  <2>1. \A i, j \in Place(c) : i = j
    <3> SUFFICES ASSUME NEW i \in Place(c), NEW j \in Place(c) PROVE i = j  OBVIOUS
    <3>1. written[c] <= written[c]  BY <1>1
    <3>2. i <= j /\ j <= i  BY <1>3, <3>1
    <3> QED BY <1>2, <3>2
  <2>2. CASE Place(c) = {}  BY <2>2, FS_EmptySet
  <2>3. CASE Place(c) # {}
    <3>1. PICK i \in Place(c) : TRUE  BY <2>3
    <3>2. Place(c) = {i}  BY <2>1, <3>1
    <3>3. Cardinality({i}) = 1  BY FS_Singleton
    <3> QED BY <3>2, <3>3
  <2> QED BY <2>2, <2>3
<1>5. ASSUME NEW c \in Acknowledged, NEW d \in Acknowledged, c < d,
             NEW i \in Place(c), NEW j \in Place(d)
      PROVE  i < j
  <2>1. written[c] < written[d]  BY <1>1, <1>5 DEF OrderInv, WrittenInOrder
  <2>2. i <= j  BY <1>1, <1>3, <2>1
  <2>3. i # j  BY <1>2, <2>1, <1>1
  <2> QED BY <1>2, <2>2, <2>3
<1> QED BY <1>4, <1>5 DEF AcknowledgedInOrder

\* Whatever fails, tears, crashes or restarts, the records of the calls that
\* resolved lie in the files in the order the calls were made, none of them
\* twice (writeQueue): hashes are handed out in the order records are drafted,
\* which is the order in which calls run, and a file is only appended to.
THEOREM AcknowledgedStayInOrder == Spec => []AcknowledgedInOrder
<1>1. Init => OrderInv  BY OrderInit
<1>2. TypeOK /\ OrderInv /\ [Next]_vars => OrderInv'  BY OrderStep
<1>3. TypeOK /\ OrderInv => AcknowledgedInOrder  BY PlacesInOrder
<1> QED BY <1>1, <1>2, <1>3, TypeCorrect, PTL DEF Spec

-----------------------------------------------------------------------------
(* The records that were lost                                              *)

\* The calls whose record is gone, the fragments on disk, those of them
\* nothing can be glued to any more, the lines that are or may become
\* fragments, and the calls that failed.
Missing == {c \in Calls : Recorded(c) /\ Place(c) = {}}
Broken  == {i \in DOMAIN lines : ~Parses(lines[i])}
Sealed  == IF torn THEN Broken \ {Len(lines)} ELSE Broken
Suspect == IF torn THEN Broken \cup {Len(lines)} ELSE Broken
Failed  == {c \in Calls : pc[c] \in {"rejected", "lost"}}

\* A whole record without its newline, which the next append will destroy, is
\* that of a call that failed and not of one that was recorded.
TornIsNewer ==
    torn /\ Parses(lines[Len(lines)]) =>
        \A c \in Calls : Recorded(c) => written[c] < hashRecord(lines[Len(lines)])

LossInv ==
    /\ pc[Boot] \in Settled
    /\ TornIsNewer
    /\ Cardinality(Missing) <= Cardinality(Sealed)
    /\ Cardinality(Suspect) <= Cardinality(Failed)

\* A part of a finite set has at most as many elements.
LEMMA PartIsSmaller ==
    ASSUME NEW T, IsFiniteSet(T), NEW S \in SUBSET T
    PROVE  /\ IsFiniteSet(S) /\ Cardinality(S) \in Nat /\ Cardinality(T) \in Nat
           /\ Cardinality(S) <= Cardinality(T)
<1>1. IsFiniteSet(S) /\ Cardinality(S) <= Cardinality(T)  BY FS_Subset
<1> QED BY <1>1, FS_CardinalityType

\* One element more makes a set greater by one.
LEMMA OneMore ==
    ASSUME NEW S, IsFiniteSet(S), NEW x
    PROVE  /\ IsFiniteSet(S \cup {x})
           /\ Cardinality(S) \in Nat
           /\ x \notin S => Cardinality(S \cup {x}) = Cardinality(S) + 1
           /\ Cardinality(S \cup {x}) \in Nat
           /\ Cardinality(S \cup {x}) <= Cardinality(S) + 1
<1>1. IsFiniteSet(S \cup {x})
      /\ Cardinality(S \cup {x}) = IF x \in S THEN Cardinality(S) ELSE Cardinality(S) + 1
  BY FS_AddElement
<1>2. Cardinality(S) \in Nat  BY FS_CardinalityType
<1> QED BY <1>1, <1>2

\* Two sets of line numbers that agree below n agree but for n.
LEMMA SameBelow ==
    ASSUME NEW n \in Nat, NEW m \in Nat, n - 1 <= m, m <= n,
           NEW B \in SUBSET (1..m), NEW D \in SUBSET (1..n),
           \A i \in 1..(n - 1) : i \in D <=> i \in B
    PROVE  D \ {n} = B \ {n}
<1>1. ASSUME NEW i \in D, i # n PROVE i \in B
  BY <1>1
<1>2. ASSUME NEW i \in B, i # n PROVE i \in D
  BY <1>2
<1> QED BY <1>1, <1>2

\* All these sets are finite.
LEMMA LossFinite ==
    ASSUME TypeOK
    PROVE  /\ IsFiniteSet(Missing) /\ IsFiniteSet(Failed) /\ IsFiniteSet(Broken)
           /\ IsFiniteSet(Sealed) /\ IsFiniteSet(Suspect)
           /\ Broken \subseteq 1..Len(lines) /\ Len(lines) \in Nat
           /\ IsFiniteSet(Calls)
<1>1. Len(lines) \in Nat /\ Broken \subseteq 1..Len(lines)  BY DEF TypeOK, Broken
<1>2. IsFiniteSet(1..Len(lines)) /\ IsFiniteSet(Calls)
  BY <1>1, FS_Interval, ConstantsAssumption DEF Calls
<1>3. IsFiniteSet(Broken)  BY <1>1, <1>2, FS_Subset
<1>4. IsFiniteSet(Sealed)  BY <1>3, FS_Subset DEF Sealed
<1>5. IsFiniteSet(Suspect)  BY <1>3, OneMore DEF Suspect
<1>6. IsFiniteSet(Missing) /\ IsFiniteSet(Failed)  BY <1>2, FS_Subset DEF Missing, Failed
<1> QED BY <1>1, <1>2, <1>3, <1>4, <1>5, <1>6

\* Which lines an append makes fragments of: the torn line it is glued to, or
\* the line it leaves torn itself.
LEMMA AppendBreaks ==
    ASSUME TypeOK, NEW r \in Line, AppendLine(r)
    PROVE  /\ torn  => /\ Len(lines') = Len(lines) /\ Len(lines) \in 1..Len(lines)
                       /\ Broken' = Broken \cup {Len(lines)}
                       /\ ~Parses(lines'[Len(lines')])
           /\ ~torn => /\ Len(lines') = Len(lines) + 1 /\ Len(lines') \notin Broken
                       /\ Broken' = IF Parses(r) THEN Broken ELSE Broken \cup {Len(lines')}
                       /\ lines'[Len(lines')] = r
<1>0. Len(lines) \in Nat /\ (torn => Len(lines) \in 1..Len(lines)) /\ torn \in BOOLEAN
  BY DEF TypeOK
<1>1. /\ lines' \in Seq(Line)
      /\ Len(lines') = IF torn THEN Len(lines) ELSE Len(lines) + 1
      /\ \A i \in 1..(Len(lines') - 1) : lines'[i] = lines[i]
      /\ lines'[Len(lines')] = IF torn THEN TornLine ELSE r
  BY AppendLineType
<1> DEFINE n == Len(lines')
<1>2. /\ n \in Nat \ {0} /\ DOMAIN lines' = 1..n /\ DOMAIN lines = 1..Len(lines)
      /\ n - 1 <= Len(lines)
  BY <1>0, <1>1 DEF TypeOK
<1>3. \A i \in 1..(n - 1) : i \in Broken' <=> i \in Broken
  BY <1>0, <1>1, <1>2 DEF Broken
<1>4. n \in Broken' <=> ~Parses(lines'[n])  BY <1>2 DEF Broken
<1>5. Broken' \subseteq 1..n /\ Broken \subseteq 1..Len(lines)  BY <1>2 DEF Broken
<1>5b. Broken' \ {n} = Broken \ {n}
  <2>1. n - 1 <= Len(lines) /\ Len(lines) <= n  BY <1>0, <1>1
  <2> HIDE DEF n
  <2> QED BY <1>0, <1>2, <1>3, <1>5, <2>1, SameBelow
<1>6. CASE torn
  <2>1. n = Len(lines) /\ ~Parses(lines'[n])  BY <1>1, <1>6 DEF Parses, TornLine
  <2> HIDE DEF n
  <2>2. Broken' = Broken \cup {n}  BY <1>4, <1>5b, <2>1
  <2> QED BY <1>0, <1>6, <2>1, <2>2 DEF n
<1>7. CASE ~torn
  <2>1. n = Len(lines) + 1 /\ lines'[n] = r  BY <1>1, <1>7
  <2> HIDE DEF n
  <2>2. n \notin Broken  BY <1>0, <1>5, <2>1
  <2>3. Broken' = IF Parses(r) THEN Broken ELSE Broken \cup {n}
    BY <1>4, <1>5b, <2>1, <2>2
  <2> QED BY <1>7, <2>1, <2>2, <2>3 DEF n
<1> QED BY <1>6, <1>7

\* A record that is in the files stays there: what an append destroys, if
\* anything, is the record of a call that failed.
LEMMA PlaceStays ==
    ASSUME TypeOK, OrderInv, TornIsNewer, NEW r \in Line, AppendLine(r),
           NEW d \in Calls, Recorded(d), written'[d] = written[d], Place(d) # {}
    PROVE  Place(d)' # {}
<1>1. PICK i \in DOMAIN lines : hashRecord(lines[i]) = written[d]  BY DEF Place
<1>2. written[d] \in Nat \ {0}
  <2>1. written[d] \in 1..(nextHash - 1) /\ nextHash \in Nat
    BY DEF OrderInv, WrittenInOrder, TypeOK
  <2> QED BY <2>1
<1>3. lines[i] \in Line /\ i \in 1..Len(lines) /\ Len(lines) \in Nat  BY <1>1 DEF TypeOK
<1>4. Parses(lines[i]) /\ hashRecord(lines[i]) \in Int  BY <1>1, <1>2, <1>3, LineHash
<1>5. torn => i # Len(lines)
  BY <1>1, <1>2, <1>4 DEF TornIsNewer
<1>6. /\ lines' \in Seq(Line)
      /\ Len(lines') = IF torn THEN Len(lines) ELSE Len(lines) + 1
      /\ \A j \in 1..(Len(lines') - 1) : lines'[j] = lines[j]
  BY AppendLineType
<1>7. i \in 1..(Len(lines') - 1) /\ i \in DOMAIN lines'
  BY <1>3, <1>5, <1>6 DEF TypeOK
<1>8. hashRecord(lines'[i]) = written'[d]  BY <1>1, <1>6, <1>7
<1> QED BY <1>7, <1>8 DEF Place

\* An append costs at most one record, of the call that makes it, and only
\* when it is glued to a fragment, which is then sealed; a torn append costs
\* its call.
LEMMA AppendKeepsLoss ==
    ASSUME TypeOK, TypeOK', OrderInv, LossInv, NEW c \in Calls, Appends(c), Failed \subseteq Failed'
    PROVE  /\ TornIsNewer'
           /\ Cardinality(Missing') <= Cardinality(Sealed')
           /\ Cardinality(Suspect') <= Cardinality(Failed')
<1>0. c \in Slots /\ draft[c] \in ChainRecord /\ torn \in BOOLEAN
  BY PointFacts DEF Appends, TypeOK
<1>1. draft[c] \in Line /\ TornLine \in Line /\ Parses(draft[c])
  BY <1>0, RecordHash DEF Line
<1>2. /\ IsFiniteSet(Missing) /\ IsFiniteSet(Failed) /\ IsFiniteSet(Broken)
      /\ IsFiniteSet(Sealed) /\ IsFiniteSet(Suspect)
      /\ Broken \subseteq 1..Len(lines) /\ Len(lines) \in Nat
  BY LossFinite
<1>2b. IsFiniteSet(Missing') /\ IsFiniteSet(Failed') /\ IsFiniteSet(Sealed')
       /\ IsFiniteSet(Suspect')
  <2>1. IsFiniteSet(Calls)  BY LossFinite
  <2>2. IsFiniteSet(Missing') /\ IsFiniteSet(Failed')
    <3>1. Missing' \subseteq Calls /\ Failed' \subseteq Calls
      BY DEF Missing, Failed, Calls
    <3>2. IsFiniteSet(Missing')  BY <2>1, <3>1, PartIsSmaller
    <3>3. IsFiniteSet(Failed')  BY <2>1, <3>1, PartIsSmaller
    <3> QED BY <3>2, <3>3
  <2>3. Len(lines') \in Nat /\ Broken' \subseteq 1..Len(lines')
    <3>1. lines' \in Seq(Line)  BY DEF TypeOK
    <3> QED BY <3>1 DEF Broken
  <2>4. IsFiniteSet(1..Len(lines'))  BY <2>3, FS_Interval
  <2>5. IsFiniteSet(Broken')  BY <2>3, <2>4, FS_Subset
  <2>6. IsFiniteSet(Sealed')  BY <2>5, FS_Subset DEF Sealed
  <2>7. IsFiniteSet(Suspect')  BY <2>5, OneMore DEF Suspect
  <2> QED BY <2>2, <2>6, <2>7
<1>3. PICK r \in {draft[c], TornLine} :
          /\ AppendLine(r)
          /\ \/ torn' = FALSE /\ r = draft[c]
             \/ torn' = TRUE /\ pc'[c] \in {"rejected", "lost"}
  BY DEF Appends, TornAppend
<1>4. r \in Line  BY <1>1
<1>5. /\ torn  => /\ Len(lines') = Len(lines) /\ Len(lines) \in 1..Len(lines)
                  /\ Broken' = Broken \cup {Len(lines)}
                  /\ ~Parses(lines'[Len(lines')])
      /\ ~torn => /\ Len(lines') = Len(lines) + 1 /\ Len(lines') \notin Broken
                  /\ Broken' = IF Parses(r) THEN Broken ELSE Broken \cup {Len(lines')}
                  /\ lines'[Len(lines')] = r
  BY <1>3, <1>4, AppendBreaks
<1>6. \A d \in Missing' : d = c \/ d \in Missing
  <2> SUFFICES ASSUME NEW d \in Missing', d # c PROVE d \in Missing  OBVIOUS
  <2>1. d \in Calls /\ Recorded(d)' /\ Place(d)' = {}  BY DEF Missing
  <2>2. Recorded(d) /\ written'[d] = written[d]  BY <2>1 DEF Appends
  <2>3. Place(d) = {}  BY <1>3, <1>4, <2>1, <2>2, PlaceStays DEF LossInv
  <2> QED BY <2>1, <2>2, <2>3 DEF Missing
<1>7. pc'[c] \in {"rejected", "lost"} => ~Recorded(c)' /\ c \in Failed' /\ c \notin Failed
  BY PointFacts DEF Appends, Failed, Recorded
<1>8. Cardinality(Missing) <= Cardinality(Sealed) /\ Cardinality(Suspect) <= Cardinality(Failed)
  BY DEF LossInv
<1>9. TornIsNewer'
  <2> SUFFICES ASSUME torn', Parses(lines'[Len(lines')]), NEW d \in Calls, Recorded(d)'
               PROVE  written'[d] < hashRecord(lines'[Len(lines')])
    BY DEF TornIsNewer
  <2>1. ~torn /\ lines'[Len(lines')] = r /\ pc'[c] \in {"rejected", "lost"}
    BY <1>0, <1>3, <1>5
  <2>2. r = draft[c]  BY <1>3, <2>1 DEF Parses, TornLine
  <2>3. d # c  BY <1>7, <2>1
  <2>4. Recorded(d) /\ written'[d] = written[d] /\ pc[c] \in Appending  BY <2>3 DEF Appends
  <2> QED BY <1>0, <2>1, <2>2, <2>4 DEF OrderInv, DraftNewest
<1>10. CASE torn' = TRUE
  <2>1. Missing' \subseteq Missing  BY <1>3, <1>6, <1>7, <1>10 DEF Missing
  <2>2. Sealed' = Sealed
    <3>1. CASE torn
      BY <1>5, <1>10, <3>1 DEF Sealed
    <3>2. CASE ~torn
      BY <1>5, <1>10, <3>2 DEF Sealed
    <3> QED BY <3>1, <3>2
  <2>3. Cardinality(Missing') <= Cardinality(Missing) /\ Cardinality(Missing) \in Nat
        /\ Cardinality(Missing') \in Nat /\ Cardinality(Sealed) \in Nat
    BY <1>2, <2>1, PartIsSmaller, FS_CardinalityType
  <2>4. Cardinality(Suspect') <= Cardinality(Suspect) + 1
    <3>1. PICK x : Suspect' = Suspect \cup {x}
      <4>1. CASE torn  BY <1>5, <1>10, <4>1 DEF Suspect
      <4>2. CASE ~torn  BY <1>5, <1>10, <4>2 DEF Suspect
      <4> QED BY <4>1, <4>2
    <3> QED BY <1>2, <3>1, OneMore
  <2>5. Cardinality(Failed) + 1 <= Cardinality(Failed')
    <3>1. Failed \cup {c} \subseteq Failed' /\ c \notin Failed  BY <1>3, <1>7, <1>10
    <3>2. Cardinality(Failed \cup {c}) = Cardinality(Failed) + 1 /\ Cardinality(Failed) \in Nat
      BY <1>2, <3>1, OneMore
    <3>3. Cardinality(Failed \cup {c}) <= Cardinality(Failed')  BY <1>2b, <3>1, PartIsSmaller
    <3> QED BY <3>2, <3>3
  <2>6. /\ Cardinality(Suspect) \in Nat /\ Cardinality(Failed) \in Nat
        /\ Cardinality(Suspect') \in Nat /\ Cardinality(Failed') \in Nat
    BY <1>2, <1>2b, FS_CardinalityType
  <2> QED BY <1>8, <1>9, <2>2, <2>3, <2>4, <2>5, <2>6
<1>11. CASE torn' = FALSE
  <2>1. r = draft[c] /\ Parses(r)  BY <1>1, <1>3, <1>11
  <2>2. Suspect' = Suspect
    <3>1. CASE torn  BY <1>5, <1>11, <3>1 DEF Suspect
    <3>2. CASE ~torn  BY <1>5, <1>11, <2>1, <3>2 DEF Suspect
    <3> QED BY <3>1, <3>2
  <2>3. Cardinality(Suspect') <= Cardinality(Failed')
    <3>1. Cardinality(Failed) <= Cardinality(Failed') /\ Cardinality(Failed) \in Nat
          /\ Cardinality(Failed') \in Nat
      BY <1>2b, PartIsSmaller
    <3>2. Cardinality(Suspect) \in Nat  BY <1>2, FS_CardinalityType
    <3> QED BY <1>8, <2>2, <3>1, <3>2
  <2>4. CASE torn
    <3>1. Missing' \subseteq Missing \cup {c}  BY <1>6
    <3>2. Sealed' = Sealed \cup {Len(lines)} /\ Len(lines) \notin Sealed
      BY <1>5, <1>11, <2>4 DEF Sealed
    <3>3. /\ Cardinality(Missing \cup {c}) <= Cardinality(Missing) + 1
          /\ IsFiniteSet(Missing \cup {c}) /\ Cardinality(Missing) \in Nat
      BY <1>2, OneMore
    <3>4. Cardinality(Missing') <= Cardinality(Missing \cup {c})
          /\ Cardinality(Missing') \in Nat /\ Cardinality(Missing \cup {c}) \in Nat
      BY <3>1, <3>3, PartIsSmaller
    <3>5. Cardinality(Sealed') = Cardinality(Sealed) + 1 /\ Cardinality(Sealed) \in Nat
      BY <1>2, <3>2, OneMore
    <3> QED BY <1>8, <1>9, <2>3, <3>3, <3>4, <3>5
  <2>5. CASE ~torn
    <3>1. Sealed' = Sealed  BY <1>5, <1>11, <2>1, <2>5 DEF Sealed
    <3>2. Recorded(c)' => c \in Missing \/ Place(c)' # {}
      <4> SUFFICES ASSUME Recorded(c)', c \notin Missing PROVE Place(c)' # {}
        OBVIOUS
      <4>1. CASE written'[c] = hashRecord(draft[c])
        <5>1. lines'[Len(lines')] = draft[c]  BY <1>5, <2>1, <2>5
        <5>2. Len(lines') \in Nat /\ Len(lines') >= 1  BY <1>2, <1>5, <2>5
        <5>3. lines' \in Seq(Line)  BY DEF TypeOK
        <5>4. Len(lines') \in DOMAIN lines'  BY <5>2, <5>3
        <5> QED BY <4>1, <5>1, <5>4 DEF Place
      <4>2. CASE Recorded(c) /\ written'[c] = written[c]
        <5>1. Place(c) # {}  BY <4>2 DEF Missing
        <5> QED BY <1>3, <1>4, <4>2, <5>1, PlaceStays DEF LossInv
      <4> QED BY <4>1, <4>2 DEF Appends
    <3>3. Missing' \subseteq Missing  BY <1>6, <3>2 DEF Missing
    <3>4. Cardinality(Missing') <= Cardinality(Missing) /\ Cardinality(Missing) \in Nat
          /\ Cardinality(Missing') \in Nat /\ Cardinality(Sealed) \in Nat
      BY <1>2, <3>3, PartIsSmaller, FS_CardinalityType
    <3> QED BY <1>8, <1>9, <2>3, <3>1, <3>4
  <2> QED BY <2>4, <2>5
<1> QED BY <1>3, <1>10, <1>11

\* Steps that append nothing lose nothing; the rename that moves a torn file
\* out of the way seals its fragment.
LEMMA OthersKeepLoss ==
    ASSUME TypeOK, TypeOK', OrderInv, LossInv, Failed \subseteq Failed',
           Quiet \/ \E c \in Slots : Drafts(c)
    PROVE  /\ TornIsNewer'
           /\ Cardinality(Missing') <= Cardinality(Sealed')
           /\ Cardinality(Suspect') <= Cardinality(Failed')
<1>1. /\ UNCHANGED <<lines, written>> /\ torn' \in {torn, FALSE}
      /\ \A d \in Calls : Recorded(d)' => Recorded(d)
  BY DEF Quiet, Drafts
<1>2. TornIsNewer'  BY <1>1 DEF TornIsNewer, LossInv
<1>3. Missing' \subseteq Missing  BY <1>1 DEF Missing, Place
<1>4. Broken' = Broken /\ torn \in BOOLEAN  BY <1>1 DEF Broken, TypeOK
<1>5. /\ Sealed \subseteq Broken /\ Sealed' \subseteq Broken /\ Sealed \subseteq Sealed'
      /\ Suspect' \subseteq Suspect
  <2>1. CASE torn' = torn
    <3>1. Sealed' = Sealed /\ Suspect' = Suspect
      BY <1>1, <1>4, <2>1 DEF Sealed, Suspect
    <3>2. Sealed \subseteq Broken  BY DEF Sealed
    <3> QED BY <3>1, <3>2
  <2>2. CASE torn' = FALSE
    <3>1. Sealed' = Broken /\ Suspect' = Broken  BY <1>4, <2>2 DEF Sealed, Suspect
    <3>2. Sealed \subseteq Broken /\ Broken \subseteq Suspect  BY DEF Sealed, Suspect
    <3> QED BY <3>1, <3>2
  <2> QED BY <1>1, <2>1, <2>2
<1>7. /\ IsFiniteSet(Missing) /\ IsFiniteSet(Broken) /\ IsFiniteSet(Suspect)
      /\ IsFiniteSet(Calls)
  BY LossFinite
<1>8. IsFiniteSet(Sealed') /\ IsFiniteSet(Failed')
  BY <1>5, <1>7, FS_Subset DEF Failed
<1>9. /\ Cardinality(Missing') <= Cardinality(Missing)
      /\ Cardinality(Missing') \in Nat /\ Cardinality(Missing) \in Nat
  BY <1>3, <1>7, PartIsSmaller
<1>10. /\ Cardinality(Sealed) <= Cardinality(Sealed')
       /\ Cardinality(Sealed) \in Nat /\ Cardinality(Sealed') \in Nat
  BY <1>5, <1>8, PartIsSmaller
<1>11. /\ Cardinality(Suspect') <= Cardinality(Suspect)
       /\ Cardinality(Suspect') \in Nat /\ Cardinality(Suspect) \in Nat
  BY <1>5, <1>7, PartIsSmaller
<1>12. /\ Cardinality(Failed) <= Cardinality(Failed')
       /\ Cardinality(Failed) \in Nat /\ Cardinality(Failed') \in Nat
  BY <1>8, PartIsSmaller
<1> QED BY <1>2, <1>9, <1>10, <1>11, <1>12 DEF LossInv

\* LossInv is inductive when init() is not forced.
LEMMA LossStep ==
    ASSUME TRUE \notin Forcing, TypeOK, TypeOK', OrderInv, LossInv, [Next]_vars
    PROVE  LossInv'
<1>0. OneInFlight  BY DEF OrderInv
<1>1. pc[Boot] \notin InFlight  BY PointFacts DEF LossInv
<1>2. pc'[Boot] \in Settled
  <2>1. ASSUME NEW c \in Slots, Step(c) PROVE pc'[Boot] \in Settled
    BY <1>0, <1>1, <2>1, StepMoves, PointFacts DEF LossInv
  <2>2. ASSUME NEW c \in Calls, Call(c) PROVE pc'[Boot] \in Settled
    BY <1>0, <2>2, CallMoves, PointFacts DEF LossInv
  <2>3. CASE Stop  BY <1>0, <2>3, StopSettles
  <2>4. CASE DamageState \/ Boots
    BY <2>4, PointFacts DEF DamageState, Boots, Resume, Refuse, StartForced, control, TypeOK, LossInv
  <2>5. CASE UNCHANGED vars  BY <2>5 DEF vars, control, LossInv
  <2> QED BY <2>1, <2>2, <2>3, <2>4, <2>5 DEF Next, Environment, Finished
<1>3. Failed \subseteq Failed'
  <2> SUFFICES ASSUME NEW c \in Failed PROVE c \in Failed'  OBVIOUS
  <2>1. c \in Calls /\ pc[c] \in {"rejected", "lost"}  BY DEF Failed
  <2>2. pc'[c] = pc[c]  BY <1>0, <2>1, SettledStays, PointFacts
  <2> QED BY <2>1, <2>2 DEF Failed
<1>4. ASSUME NEW c \in Slots, Appends(c) PROVE c \in Calls
  BY <1>1, <1>4, SlotCases, PointFacts DEF Appends
<1>5. Kinds  BY <1>0, StepHasKind
<1>6. /\ TornIsNewer'
      /\ Cardinality(Missing') <= Cardinality(Sealed')
      /\ Cardinality(Suspect') <= Cardinality(Failed')
  BY <1>3, <1>4, <1>5, AppendKeepsLoss, OthersKeepLoss DEF Kinds
<1> QED BY <1>2, <1>6 DEF LossInv

\* LossInv holds before anything is written.
LEMMA LossInit == Init => LossInv
<1> SUFFICES ASSUME Init PROVE LossInv  OBVIOUS
<1>1. lines = <<>> /\ torn = FALSE /\ \A c \in Slots : pc[c] = IF c = Boot THEN "resolved" ELSE "new"
  BY DEF Init
<1>2. \A c \in Calls : pc[c] = "new"  BY <1>1, PointFacts
<1>3. Missing = {} /\ Failed = {} /\ Sealed = {} /\ Suspect = {}
  BY <1>1, <1>2 DEF Missing, Failed, Sealed, Suspect, Broken, Recorded
<1>4. Cardinality({}) = 0  BY FS_EmptySet
<1>5. pc[Boot] \in Settled /\ TornIsNewer  BY <1>1, PointFacts DEF TornIsNewer
<1> QED BY <1>3, <1>4, <1>5 DEF LossInv

\* What is lost is bounded, whatever fails, tears, crashes or restarts: a call
\* that resolved has its record in the files unless that was glued to the
\* fragment of a torn append, and there are no more fragments than calls that
\* failed.  init() is not forced, because its own chain_break may be torn too
\* and is none of the calls counted (appendFile, record, init).
THEOREM LossStaysBounded ==
    ASSUME TRUE \notin Forcing
    PROVE  Spec => []LossBounded
<1>1. Init => OrderInv /\ LossInv  BY OrderInit, LossInit
<1>2. TypeOK /\ TypeOK' /\ OrderInv /\ LossInv /\ [Next]_vars => OrderInv' /\ LossInv'
  BY OrderStep, LossStep
<1>3. TypeOK /\ LossInv => LossBounded
  <2> SUFFICES ASSUME TypeOK, LossInv PROVE LossBounded  OBVIOUS
  <2> DEFINE lost == {c \in Acknowledged : Place(c) = {}}
  <2>1. /\ IsFiniteSet(Missing) /\ IsFiniteSet(Failed) /\ IsFiniteSet(Broken)
        /\ IsFiniteSet(Sealed) /\ IsFiniteSet(Suspect)
    BY LossFinite
  <2>2. lost \subseteq Missing  BY DEF Missing, Acknowledged, Recorded
  <2>3. Sealed \subseteq Broken /\ Broken \subseteq Suspect  BY DEF Sealed, Suspect
  <2>4. Cardinality(lost) <= Cardinality(Missing) /\ Cardinality(lost) \in Nat
        /\ Cardinality(Missing) \in Nat
    BY <2>1, <2>2, PartIsSmaller
  <2>5. Cardinality(Sealed) <= Cardinality(Broken) /\ Cardinality(Sealed) \in Nat
        /\ Cardinality(Broken) \in Nat
    BY <2>1, <2>3, PartIsSmaller
  <2>6. Cardinality(Broken) <= Cardinality(Suspect) /\ Cardinality(Suspect) \in Nat
    BY <2>1, <2>3, PartIsSmaller
  <2>7. Cardinality(Failed) \in Nat  BY <2>1, FS_CardinalityType
  <2>8. Cardinality(lost) <= Cardinality(Broken) /\ Cardinality(Broken) <= Cardinality(Failed)
    <3> HIDE DEF lost
    <3> QED BY <2>4, <2>5, <2>6, <2>7 DEF LossInv
  <2> QED BY <2>8 DEF LossBounded, Broken, Failed
<1> QED BY <1>1, <1>2, <1>3, TypeCorrect, PTL DEF Spec

-----------------------------------------------------------------------------
(* What init() accepts                                                     *)

\* No chain_break is ever written and the state file of a rotation is, if the
\* process lives to write it.
StateSaved == "break" \notin Ops /\ TRUE \notin Forcing /\ "persist" \notin Faults

FirstAgrees ==
    ~LogIsEmpty /\ stateFile.status = "ok" =>
        FirstRecordPrevHash \in {Undefined, stateFile.rotationBoundaryHash}

\* While the log is empty the state file, if there is one, knows the head that
\* its first record will name, except between the two steps of rotate().
EmptyAgrees ==
    /\ stateFile.status = "ok" => stateFile.lastHash = stateFile.rotationBoundaryHash
    /\ proc = "up" /\ LogIsEmpty /\ stateFile.status = "ok" =>
          \/ lastHash = stateFile.rotationBoundaryHash
          \/ \E c \in Calls : pc[c] = "persist"

RestartInv ==
    /\ pc[Boot] \in Settled /\ \A c \in Calls : op[c] # "break"
    /\ \A c \in Calls : pc[c] \notin {"append_break", "persist_chain"}
    /\ \A c \in Calls : pc[c] \in Appending =>
          draft[c].previousHash = lastHash /\ ~isChainBreak(draft[c])
    /\ \A c \in Calls : pc[c] = "persist" => LogIsEmpty
    /\ FirstAgrees /\ EmptyAgrees /\ RestartAccepted

\* An append leaves the first line of the file what it is, or makes it; a torn
\* one may be destroyed by it.
LEMMA AppendKeepsFirst ==
    ASSUME TypeOK, NEW r \in Line, AppendLine(r), UNCHANGED fileStart
    PROVE  /\ ~LogIsEmpty'
           /\ ~LogIsEmpty => lines'[fileStart] \in {lines[fileStart], TornLine}
           /\ LogIsEmpty => lines'[fileStart] = r
<1>1. /\ fileStart \in Nat /\ Len(lines) \in Nat /\ fileStart <= Len(lines) + 1
      /\ fileStart >= 1 /\ torn \in BOOLEAN /\ (torn => fileStart <= Len(lines))
  BY DEF TypeOK
<1>2. /\ Len(lines') = IF torn THEN Len(lines) ELSE Len(lines) + 1
      /\ \A i \in 1..(Len(lines') - 1) : lines'[i] = lines[i]
      /\ lines'[Len(lines')] = IF torn THEN TornLine ELSE r
  BY AppendLineType
<1>3. fileStart \in 1..(Len(lines') - 1) \/ fileStart = Len(lines')
  BY <1>1, <1>2
<1>4. ~LogIsEmpty'  BY <1>1, <1>2 DEF LogIsEmpty
<1>5. ASSUME ~LogIsEmpty PROVE lines'[fileStart] \in {lines[fileStart], TornLine}
  BY <1>1, <1>2, <1>3, <1>5 DEF LogIsEmpty
<1>6. ASSUME LogIsEmpty PROVE lines'[fileStart] = r
  BY <1>1, <1>2, <1>3, <1>6 DEF LogIsEmpty
<1> QED BY <1>4, <1>5, <1>6

\* The first record a file gets names the head the state file has, so that
\* init() finds the two in agreement.
LEMMA AppendAgrees ==
    ASSUME TypeOK, OneInFlight, RestartInv, NEW c \in Calls, pc[c] \in Appending,
           NEW r \in {draft[c], TornLine}, AppendLine(r), UNCHANGED <<fileStart, stateFile>>
    PROVE  FirstAgrees' /\ ~LogIsEmpty'
<1>1. draft[c] \in Line /\ c \in Slots /\ pc[c] \in InFlight
  BY PointFacts DEF TypeOK
<1>2. r \in Line  BY <1>1 DEF Line
<1>3. /\ ~LogIsEmpty'
      /\ ~LogIsEmpty => lines'[fileStart] \in {lines[fileStart], TornLine}
      /\ LogIsEmpty => lines'[fileStart] = r
  BY <1>2, AppendKeepsFirst
<1>4. SUFFICES ASSUME stateFile.status = "ok"
               PROVE  FirstRecordPrevHash' \in {Undefined, stateFile.rotationBoundaryHash}
  BY <1>3 DEF FirstAgrees
<1>5. CASE lines'[fileStart] = TornLine
  BY <1>5 DEF FirstRecordPrevHash, TornLine, isChainBreak
<1>6. CASE ~LogIsEmpty /\ lines'[fileStart] = lines[fileStart]
  BY <1>4, <1>6 DEF RestartInv, FirstAgrees, FirstRecordPrevHash
<1>7. CASE LogIsEmpty /\ lines'[fileStart] = draft[c]
  <2>1. proc = "up"  BY <1>1 DEF OneInFlight
  <2>2. \A d \in Calls : pc[d] # "persist"
    <3> SUFFICES ASSUME NEW d \in Calls, pc[d] = "persist" PROVE FALSE  OBVIOUS
    <3>1. d = c  BY <1>1, InFlightUnique, PointFacts
    <3> QED BY <3>1, PointFacts
  <2>3. lastHash = stateFile.rotationBoundaryHash
    BY <1>4, <1>7, <2>1, <2>2 DEF RestartInv, EmptyAgrees
  <2>4. draft[c].previousHash = lastHash /\ ~isChainBreak(draft[c])  BY DEF RestartInv
  <2> QED BY <1>7, <2>3, <2>4 DEF FirstRecordPrevHash
<1> QED BY <1>3, <1>5, <1>6, <1>7

\* Each step of a call keeps the state file and the log in agreement.
LEMMA StepKeepsAgreement ==
    ASSUME StateSaved, TypeOK, OneInFlight, RestartInv, NEW c \in Slots, Step(c)
    PROVE  RestartInv'
<1> USE DEF disk, memory, counters
<1>1. /\ pc[c] \in InFlight /\ pc'[c] \in InFlight \cup Settled
      /\ \A d \in Slots : d # c => pc[d] \notin InFlight /\ pc'[d] = pc[d]
  BY StepMoves
<1>2. c \in Calls /\ c # Boot /\ proc = "up"
  <2>1. c # Boot  BY <1>1, PointFacts DEF RestartInv
  <2> QED BY <1>1, <2>1, SlotCases, PointFacts DEF OneInFlight
<1>3. UNCHANGED op /\ proc' # "refused"
  BY <1>2 DEF Step, AppendRecord, AppendCheckpoint, AppendBreak, WriteFails,
     WriteTorn, Rename, RenameFails, PersistState, PersistStateFails,
     PersistChainState, PersistChainStateFails, Reject
<1>4. /\ pc'[Boot] \in Settled /\ \A d \in Calls : op'[d] # "break"
      /\ RestartAccepted'
  BY <1>1, <1>2, <1>3, PointFacts DEF RestartInv, RestartAccepted
<1>5. \A d \in Calls : d # c => pc'[d] \notin InFlight  BY <1>1, PointFacts
<1>6. ~AppendBreak(c) /\ ~PersistChainState(c) /\ ~PersistChainStateFails(c)
      /\ ~PersistStateFails(c)
  BY <1>2 DEF RestartInv, AppendBreak, PersistChainState, PersistChainStateFails,
     PersistStateFails, StateSaved
<1>7. ASSUME pc[c] \in Appending, NEW r \in {draft[c], TornLine}, AppendLine(r),
             UNCHANGED <<fileStart, stateFile>>,
             pc'[c] \in {"append_checkpoint", "rename"} \cup Settled,
             pc'[c] = "append_checkpoint" => draft'[c].previousHash = lastHash'
                                             /\ ~isChainBreak(draft'[c])
      PROVE  RestartInv'
  <2>1. FirstAgrees' /\ ~LogIsEmpty'  BY <1>2, <1>7, AppendAgrees
  <2>2. EmptyAgrees'  BY <1>7, <2>1 DEF RestartInv, EmptyAgrees
  <2>3. \A d \in Calls : pc'[d] # "persist" /\ pc'[d] \notin {"append_break", "persist_chain"}
    BY <1>5, <1>7, PointFacts
  <2>4. \A d \in Calls : pc'[d] \in Appending =>
            draft'[d].previousHash = lastHash' /\ ~isChainBreak(draft'[d])
    BY <1>5, <1>7, PointFacts
  <2> QED BY <1>4, <2>1, <2>2, <2>3, <2>4 DEF RestartInv
<1>8. CASE AppendRecord(c)
  <2>1. /\ pc[c] \in Appending /\ AppendLine(draft[c]) /\ UNCHANGED <<fileStart, stateFile>>
    BY <1>8, PointFacts DEF AppendRecord
  <2>2. CASE BeginCheckpoint(c, lastHash', totalRecordCount')
    <3>1. pc'[c] = "append_checkpoint" /\ draft'[c].previousHash = lastHash'
          /\ ~isChainBreak(draft'[c])
      BY <2>2 DEF BeginCheckpoint, Draft, CheckpointRecord, isChainBreak, TypeOK
    <3> QED BY <1>7, <2>1, <3>1
  <2>3. CASE pc' = [pc EXCEPT ![c] = AfterAppends(currentSize')]
    <3>1. pc'[c] \in {"rename", "resolved"}  BY <2>3 DEF AfterAppends, TypeOK
    <3> QED BY <1>7, <2>1, <3>1, PointFacts
  <2> QED BY <1>8, <2>2, <2>3 DEF AppendRecord
<1>9. CASE AppendCheckpoint(c)
  <2>1. /\ pc[c] \in Appending /\ AppendLine(draft[c]) /\ UNCHANGED <<fileStart, stateFile>>
    BY <1>9, PointFacts DEF AppendCheckpoint
  <2>2. pc'[c] \in {"rename", "resolved"}
    BY <1>9 DEF AppendCheckpoint, AfterAppends, TypeOK
  <2> QED BY <1>7, <2>1, <2>2, PointFacts
<1>10. CASE WriteTorn(c)
  <2>1. /\ pc[c] \in Appending /\ UNCHANGED <<fileStart, stateFile>> /\ pc'[c] = "rejected"
    BY <1>10 DEF WriteTorn, Reject, TypeOK
  <2>2. PICK r \in {draft[c], TornLine} : AppendLine(r)  BY <1>10 DEF WriteTorn, TornAppend
  <2> QED BY <1>7, <2>1, <2>2, PointFacts
<1>11. CASE WriteFails(c) \/ RenameFails(c)
  <2>1. /\ UNCHANGED <<lines, fileStart, stateFile, lastHash, proc>> /\ pc[c] # "persist"
        /\ pc'[c] \in Settled
    BY <1>2, <1>11, PointFacts DEF WriteFails, RenameFails, Reject, TypeOK
  <2>2. FirstAgrees'  BY <2>1 DEF RestartInv, FirstAgrees, FirstRecordPrevHash, LogIsEmpty
  <2>3. \A d \in Calls : pc[d] # "persist"  BY <1>1, <2>1, PointFacts
  <2>4. EmptyAgrees'  BY <2>1, <2>3 DEF RestartInv, EmptyAgrees, LogIsEmpty
  <2>5. \A d \in Calls : pc'[d] \notin InFlight  BY <1>5, <2>1, PointFacts
  <2> QED BY <1>4, <2>2, <2>4, <2>5, PointFacts DEF RestartInv
<1>12. CASE Rename(c)
  <2>1. /\ pc'[c] = "persist" /\ UNCHANGED <<lines, stateFile>> /\ fileStart' = Len(lines) + 1
    BY <1>12 DEF Rename, TypeOK
  <2>2. LogIsEmpty'  BY <2>1 DEF LogIsEmpty, TypeOK
  <2>3. FirstAgrees'  BY <2>2 DEF FirstAgrees
  <2>4. EmptyAgrees'  BY <1>2, <2>1 DEF RestartInv, EmptyAgrees
  <2>5. \A d \in Calls : pc'[d] \notin Appending \cup {"append_break", "persist_chain"}
    BY <1>5, <2>1, PointFacts
  <2> QED BY <1>4, <2>2, <2>3, <2>4, <2>5 DEF RestartInv
<1>13. CASE PersistState(c)
  <2>1. /\ pc[c] = "persist" /\ pc'[c] = "resolved" /\ UNCHANGED <<lines, fileStart, lastHash>>
        /\ stateFile' = StateOf(lastHash)
    BY <1>13 DEF PersistState, RotationBoundary, TypeOK
  <2>2. LogIsEmpty'  BY <1>2, <2>1 DEF RestartInv, LogIsEmpty
  <2>3. FirstAgrees'  BY <2>2 DEF FirstAgrees
  <2>4. EmptyAgrees'  BY <2>1 DEF EmptyAgrees, StateOf
  <2>5. \A d \in Calls : pc'[d] \notin InFlight  BY <1>5, <2>1, PointFacts
  <2> QED BY <1>4, <2>2, <2>3, <2>4, <2>5, PointFacts DEF RestartInv
<1> QED BY <1>6, <1>8, <1>9, <1>10, <1>11, <1>12, <1>13 DEF Step

\* So do calls that are made or start.
LEMMA CallKeepsAgreement ==
    ASSUME StateSaved, TypeOK, OneInFlight, RestartInv, NEW c \in Calls, Call(c)
    PROVE  RestartInv'
<1> USE DEF disk, memory, counters
<1>1. /\ pc[c] \in {"new", "queued"}
      /\ \A d \in Slots : d # c => pc'[d] = pc[d]
      /\ \A d \in Calls : d # c => op'[d] = op[d]
  BY CallMoves
<1>2. proc = "up" /\ UNCHANGED <<lines, fileStart, stateFile, lastHash, proc>>
  BY DEF Call, Enqueue, Start, StartRecord, StartToolDrift, StartCheckpoint, StartBreak,
     Ready, BeginCheckpoint
<1>3. op'[c] # "break"
  BY DEF Call, Enqueue, Start, StartRecord, StartToolDrift, StartCheckpoint, StartBreak,
     RestartInv, StateSaved, TypeOK
<1>4. /\ pc'[c] \in {"queued", "append_record", "append_checkpoint"}
      /\ pc'[c] # "queued" => /\ \A d \in Slots : pc[d] \notin InFlight
                              /\ draft'[c].previousHash = lastHash
                              /\ ~isChainBreak(draft'[c])
  <2>1. c \in Slots  BY PointFacts
  <2>2. ASSUME NEW o \in Ops, Enqueue(c, o) PROVE pc'[c] = "queued"
    BY <2>1, <2>2 DEF Enqueue, TypeOK
  <2>3. ASSUME Start(c)
        PROVE  /\ pc'[c] \in {"append_record", "append_checkpoint"}
               /\ draft'[c].previousHash = lastHash /\ ~isChainBreak(draft'[c])
    <3>1. ~StartBreak(c)  BY DEF StartBreak, RestartInv
    <3>2. CASE StartRecord(c)
      BY <2>1, <3>2 DEF StartRecord, Draft, AuditRecord, isChainBreak, TypeOK
    <3>3. CASE StartToolDrift(c)
      BY <2>1, <3>3 DEF StartToolDrift, Draft, ToolDriftRecord, isChainBreak, TypeOK
    <3>4. CASE StartCheckpoint(c)
      BY <2>1, <3>4 DEF StartCheckpoint, BeginCheckpoint, Draft, CheckpointRecord,
         isChainBreak, TypeOK
    <3> QED BY <2>3, <3>1, <3>2, <3>3, <3>4 DEF Start
  <2>4. ASSUME Start(c) PROVE \A d \in Slots : pc[d] \notin InFlight
    <3>1. Ready(c)  BY <2>4 DEF Start, StartRecord, StartToolDrift, StartCheckpoint, StartBreak
    <3> QED BY <3>1, ReadyAlone
  <2> QED BY <2>2, <2>3, <2>4 DEF Call
<1>5. \A d \in Slots : d # c => draft'[d] = draft[d]
  BY DEF Call, Enqueue, Start, StartRecord, StartToolDrift, StartCheckpoint, StartBreak,
     BeginCheckpoint, Draft, TypeOK
<1>6. FirstAgrees'  BY <1>2 DEF RestartInv, FirstAgrees, FirstRecordPrevHash, LogIsEmpty
<1>7. \A d \in Calls : pc[d] = "persist" <=> pc'[d] = "persist"
  BY <1>1, <1>4, PointFacts
<1>8. EmptyAgrees'  BY <1>2, <1>7 DEF RestartInv, EmptyAgrees, LogIsEmpty
<1>9. \A d \in Calls : pc'[d] \in Appending =>
          draft'[d].previousHash = lastHash' /\ ~isChainBreak(draft'[d])
  BY <1>1, <1>2, <1>4, <1>5, PointFacts DEF RestartInv
<1>10. \A d \in Calls : pc'[d] \notin {"append_break", "persist_chain"}
  BY <1>1, <1>4, PointFacts DEF RestartInv
<1>11. \A d \in Calls : pc'[d] = "persist" => LogIsEmpty'
  BY <1>2, <1>7 DEF RestartInv, LogIsEmpty
<1>12. pc'[Boot] \in Settled /\ \A d \in Calls : op'[d] # "break"
  BY <1>1, <1>3, PointFacts DEF RestartInv
<1>13. RestartAccepted'  BY <1>2 DEF RestartAccepted
<1> QED BY <1>6, <1>8, <1>9, <1>10, <1>11, <1>12, <1>13 DEF RestartInv

\* A stop leaves what the next init() reads in agreement, wherever it comes;
\* init() takes up the head the state file has when the log is empty.
LEMMA OutsideKeepsAgreement ==
    ASSUME StateSaved, TypeOK, OneInFlight, RestartInv, Stop \/ DamageState \/ Boots
    PROVE  RestartInv'
<1> USE DEF disk, memory, counters, control
<1>1. CASE Stop
  <2>1. /\ \A c \in Slots : pc'[c] \notin InFlight
        /\ pc'[Boot] \in Settled
    BY <1>1, StopSettles
  <2>2. proc' = "down" /\ UNCHANGED <<fileStart, stateFile, op>>  BY <1>1 DEF Stop
  <2>3. \A c \in Calls : pc'[c] \notin InFlight  BY <2>1, PointFacts
  <2>4. FirstAgrees'
    <3>1. CASE UNCHANGED lines
      BY <2>2, <3>1 DEF RestartInv, FirstAgrees, FirstRecordPrevHash, LogIsEmpty
    <3>2. ASSUME NEW c \in Slots, pc[c] \in Appending, NEW r \in {draft[c], TornLine},
                 AppendLine(r)
          PROVE  FirstAgrees'
      <4>1. c \in Calls  BY <3>2, SlotCases, PointFacts DEF RestartInv
      <4> QED BY <2>2, <3>2, <4>1, AppendAgrees
    <3> QED BY <1>1, <3>1, <3>2 DEF Stop, TornAppend
  <2>5. EmptyAgrees'  BY <2>2 DEF RestartInv, EmptyAgrees
  <2>6. RestartAccepted'  BY <2>2 DEF RestartAccepted
  <2> QED BY <2>1, <2>2, <2>3, <2>4, <2>5, <2>6, PointFacts DEF RestartInv
<1>2. CASE DamageState
  <2>1. /\ stateFile'.status = "corrupt" /\ proc' = "down"
        /\ UNCHANGED <<lines, fileStart, lastHash, pc, op, draft>>
    BY <1>2 DEF DamageState, CorruptState
  <2>2. FirstAgrees' /\ EmptyAgrees' /\ RestartAccepted'
    BY <2>1 DEF FirstAgrees, EmptyAgrees, RestartAccepted
  <2> QED BY <2>1, <2>2 DEF RestartInv, LogIsEmpty
<1>3. CASE Refuse
  <2>1. /\ UNCHANGED <<lines, fileStart, stateFile, lastHash, pc, op, draft>>
        /\ proc' = "refused" /\ MustRefuse
    BY <1>3 DEF Refuse
  <2>2. FirstAgrees'  BY <2>1 DEF RestartInv, FirstAgrees, FirstRecordPrevHash, LogIsEmpty
  <2>3. EmptyAgrees'  BY <2>1 DEF RestartInv, EmptyAgrees
  <2>4. StateCorrupt \/ HeadCorrupt
    BY <2>1 DEF MustRefuse, Inconsistent, RestartInv, FirstAgrees
  <2>5. RestartAccepted'
    BY <2>1, <2>4 DEF RestartAccepted, StateCorrupt, HeadCorrupt, LogIsEmpty
  <2> QED BY <2>1, <2>2, <2>3, <2>5 DEF RestartInv, LogIsEmpty
<1>4. CASE Resume
  <2>1. /\ UNCHANGED <<lines, fileStart, stateFile, op, draft>>
        /\ proc = "down" /\ proc' = "up" /\ pc' = [pc EXCEPT ![Boot] = "resolved"]
        /\ lastHash' = RecoveredHead
    BY <1>4 DEF Resume, RecoverMemory
  <2>2. pc'[Boot] \in Settled /\ \A c \in Calls : pc'[c] = pc[c] /\ pc[c] \notin InFlight
    BY <2>1, PointFacts DEF TypeOK, OneInFlight
  <2>3. FirstAgrees'  BY <2>1 DEF RestartInv, FirstAgrees, FirstRecordPrevHash, LogIsEmpty
  <2>4. EmptyAgrees'
    <3>1. LogIsEmpty /\ stateFile.status = "ok" => lastHash' = stateFile.lastHash
      BY <2>1 DEF RecoveredHead, ReadsTail, Recovered
    <3> QED BY <2>1, <3>1 DEF RestartInv, EmptyAgrees, LogIsEmpty
  <2>5. RestartAccepted'  BY <2>1 DEF RestartAccepted
  <2> QED BY <2>1, <2>2, <2>3, <2>4, <2>5, PointFacts DEF RestartInv
<1>5. ~StartForced  BY DEF StartForced, StateSaved
<1> QED BY <1>1, <1>2, <1>3, <1>4, <1>5 DEF Boots

\* RestartInv is inductive.
LEMMA RestartStep ==
    ASSUME StateSaved, TypeOK, OneInFlight, RestartInv, [Next]_vars
    PROVE  RestartInv'
<1>1. CASE UNCHANGED vars
  BY <1>1 DEF vars, disk, memory, counters, control, RestartInv, FirstAgrees, EmptyAgrees,
     RestartAccepted, FirstRecordPrevHash, LogIsEmpty, StateCorrupt, HeadCorrupt
<1>2. CASE Next
  BY <1>1, <1>2, StepKeepsAgreement, CallKeepsAgreement, OutsideKeepsAgreement
  DEF Next, Environment, Finished
<1> QED BY <1>1, <1>2

\* RestartInv holds before anything is written.
LEMMA RestartInit == Init => RestartInv
<1> SUFFICES ASSUME Init PROVE RestartInv  OBVIOUS
<1>1. /\ stateFile = NoState /\ proc = "down" /\ \A c \in Calls : op[c] = "none"
      /\ \A c \in Slots : pc[c] = IF c = Boot THEN "resolved" ELSE "new"
  BY DEF Init
<1>2. pc[Boot] \in Settled /\ \A c \in Calls : pc[c] = "new"  BY <1>1, PointFacts
<1>3. FirstAgrees /\ EmptyAgrees /\ RestartAccepted
  BY <1>1 DEF FirstAgrees, EmptyAgrees, RestartAccepted, NoState
<1> QED BY <1>1, <1>2, <1>3, PointFacts DEF RestartInv

\* init() takes back every log the process left behind, wherever it was cut:
\* it refuses only a state file or a first line it can not read.  The state
\* file of a rotation has to be written when the process lives to write it,
\* and no chain_break may be: BreakThenRestart is what happens otherwise
\* (rotate, persistState, persistChainState, init).
THEOREM RestartsAreAccepted ==
    ASSUME StateSaved
    PROVE  Spec => []RestartAccepted
<1>1. Init => OneInFlight /\ RestartInv  BY SerialInit, RestartInit
<1>2. TypeOK /\ OneInFlight /\ RestartInv /\ [Next]_vars => OneInFlight' /\ RestartInv'
  BY SerialStep, RestartStep
<1>3. RestartInv => RestartAccepted  BY DEF RestartInv
<1> QED BY <1>1, <1>2, <1>3, TypeCorrect, PTL DEF Spec

-----------------------------------------------------------------------------
(* Sound logs                                                              *)

\* The lines before line k that belong to its segment, and those of them that
\* its count is about.
SegmentBefore(l, k) == {i \in 1..(k - 1) : \A j \in i..(k - 1) : ~isChainBreak(l[j])}
Others(l, k) == {i \in SegmentBefore(l, k) : ~isCheckpoint(l[i])}

\* The hash of the line before line k.
HashBefore(l, k) == IF k = 1 THEN genesis ELSE hashRecord(l[k - 1])

\* What the writer means r to be as line k: linked, and counted.
LinkedAt(l, k, r) == r.previousHash = IF isChainBreak(r) THEN Undefined ELSE HashBefore(l, k)

CountedAt(l, k, r) ==
    isCheckpoint(r) =>
        /\ r.recordCount = Cardinality(Others(l, k))
        /\ \A i \in SegmentBefore(l, k) : isCheckpoint(l[i]) => l[i].sequence < r.sequence

\* total and sequence are what the counters are to be after the lines of l.
Counts(l, total, sequence) ==
    /\ total = Cardinality(Others(l, Len(l) + 1))
    /\ \A i \in SegmentBefore(l, Len(l) + 1) : isCheckpoint(l[i]) => l[i].sequence <= sequence

SoundLines(l) == \A k \in DOMAIN l : LinkedAt(l, k, l[k]) /\ CountedAt(l, k, l[k])

\* A log of records only, none of them there twice.
Intact(l) ==
    /\ l \in Seq(Line) /\ \A i \in DOMAIN l : Parses(l[i])
    /\ \A i, j \in DOMAIN l : i < j => hashRecord(l[i]) < hashRecord(l[j])

\* l2 is l with one line more.
Extends(l2, l, r) ==
    /\ l2 \in Seq(Line) /\ Len(l2) = Len(l) + 1
    /\ \A i \in 1..Len(l) : l2[i] = l[i]
    /\ l2[Len(l2)] = r

\* Segments do not depend on what comes after them, and a line is added to the
\* last one or starts another.
LEMMA SegmentGrows ==
    ASSUME NEW l \in Seq(Line), NEW l2, NEW r, Extends(l2, l, r)
    PROVE  /\ \A k \in 1..(Len(l) + 1) : /\ SegmentBefore(l2, k) = SegmentBefore(l, k)
                                         /\ Others(l2, k) = Others(l, k)
                                         /\ HashBefore(l2, k) = HashBefore(l, k)
           /\ SegmentBefore(l2, Len(l2) + 1) =
                 IF isChainBreak(r) THEN {} ELSE SegmentBefore(l, Len(l) + 1) \cup {Len(l) + 1}
           /\ HashBefore(l2, Len(l2) + 1) = hashRecord(r)
<1>1. PICK n \in Nat : n = Len(l)  BY LenProperties
<1>2. Len(l2) = n + 1 /\ l2[n + 1] = r /\ \A i \in 1..n : l2[i] = l[i]
  BY <1>1 DEF Extends
<1>3. ASSUME NEW k \in 1..(n + 1)
      PROVE  /\ SegmentBefore(l2, k) = SegmentBefore(l, k)
             /\ Others(l2, k) = Others(l, k)
             /\ HashBefore(l2, k) = HashBefore(l, k)
  <2>1. \A i \in 1..(k - 1) : l2[i] = l[i]  BY <1>2
  <2>2. \A i \in 1..(k - 1) : \A j \in i..(k - 1) : j \in 1..(k - 1)  OBVIOUS
  <2>3. SegmentBefore(l2, k) = SegmentBefore(l, k)  BY <2>1, <2>2 DEF SegmentBefore
  <2>4. \A i \in SegmentBefore(l, k) : i \in 1..(k - 1)  BY DEF SegmentBefore
  <2>5. Others(l2, k) = Others(l, k)  BY <2>1, <2>3, <2>4 DEF Others
  <2>6. k # 1 => k - 1 \in 1..(k - 1)  OBVIOUS
  <2>7. HashBefore(l2, k) = HashBefore(l, k)  BY <2>1, <2>6 DEF HashBefore
  <2> QED BY <2>3, <2>5, <2>7
<1>4. ASSUME isChainBreak(r) PROVE SegmentBefore(l2, n + 2) = {}
  <2>1. \A i \in 1..(n + 2 - 1) : n + 1 \in i..(n + 2 - 1)  OBVIOUS
  <2> QED BY <1>2, <1>4, <2>1 DEF SegmentBefore
<1>5. ASSUME ~isChainBreak(r)
      PROVE  SegmentBefore(l2, n + 2) = SegmentBefore(l, n + 1) \cup {n + 1}
  <2>1. ASSUME NEW i \in 1..n
        PROVE  (\A j \in i..(n + 1) : ~isChainBreak(l2[j])) <=> \A j \in i..n : ~isChainBreak(l[j])
    BY <1>2, <1>5
  <2>2. SegmentBefore(l2, n + 2) = {i \in 1..(n + 1) : \A j \in i..(n + 1) : ~isChainBreak(l2[j])}
    BY DEF SegmentBefore
  <2>3. SegmentBefore(l, n + 1) = {i \in 1..n : \A j \in i..n : ~isChainBreak(l[j])}
    BY DEF SegmentBefore
  <2>4. \A j \in (n + 1)..(n + 1) : ~isChainBreak(l2[j])  BY <1>2, <1>5
  <2>5. \A i : i \in 1..(n + 1) <=> i \in 1..n \/ i = n + 1  OBVIOUS
  <2> QED BY <2>1, <2>2, <2>3, <2>4, <2>5
<1>6. HashBefore(l2, n + 2) = hashRecord(r)  BY <1>2 DEF HashBefore
<1>7. Len(l2) + 1 = n + 2  BY <1>2
<1> QED BY <1>1, <1>3, <1>4, <1>5, <1>6, <1>7

\* The lines of a segment are a finite set.
LEMMA SegmentFinite ==
    ASSUME NEW l, NEW k \in Nat
    PROVE  /\ SegmentBefore(l, k) \in SUBSET (1..(k - 1)) /\ Others(l, k) \in SUBSET (1..(k - 1))
           /\ IsFiniteSet(Others(l, k)) /\ Cardinality(Others(l, k)) \in Nat
<1>1. SegmentBefore(l, k) \in SUBSET (1..(k - 1)) /\ Others(l, k) \in SUBSET (1..(k - 1))
  BY DEF SegmentBefore, Others
<1>2. IsFiniteSet(1..(k - 1))  BY FS_Interval
<1>3. IsFiniteSet(Others(l, k))  BY <1>1, <1>2, FS_Subset
<1> QED BY <1>1, <1>3, FS_CardinalityType

\* Another sound line leaves a log sound.
LEMMA SoundGrows ==
    ASSUME NEW l \in Seq(Line), SoundLines(l), NEW l2, NEW r, Extends(l2, l, r),
           LinkedAt(l, Len(l) + 1, r), CountedAt(l, Len(l) + 1, r)
    PROVE  SoundLines(l2)
<1>1. PICK n \in Nat : n = Len(l)  BY LenProperties
<1>2. Len(l2) = n + 1 /\ l2[n + 1] = r /\ \A i \in 1..n : l2[i] = l[i]
  BY <1>1 DEF Extends
<1>3. DOMAIN l2 = 1..(n + 1) /\ DOMAIN l = 1..n  BY <1>1, <1>2 DEF Extends
<1>4. \A k \in 1..(n + 1) : /\ SegmentBefore(l2, k) = SegmentBefore(l, k)
                            /\ Others(l2, k) = Others(l, k)
                            /\ HashBefore(l2, k) = HashBefore(l, k)
  BY <1>1, SegmentGrows
<1>5. ASSUME NEW k \in 1..(n + 1), NEW e, LinkedAt(l, k, e), CountedAt(l, k, e)
      PROVE  LinkedAt(l2, k, e) /\ CountedAt(l2, k, e)
  <2>1. LinkedAt(l2, k, e)  BY <1>4, <1>5 DEF LinkedAt
  <2>2. \A i \in SegmentBefore(l, k) : l2[i] = l[i]  BY <1>2 DEF SegmentBefore
  <2>3. CountedAt(l2, k, e)  BY <1>4, <1>5, <2>2 DEF CountedAt
  <2> QED BY <2>1, <2>3
<1>6. ASSUME NEW k \in 1..n PROVE LinkedAt(l2, k, l2[k]) /\ CountedAt(l2, k, l2[k])
  <2>1. LinkedAt(l, k, l[k]) /\ CountedAt(l, k, l[k])  BY <1>3 DEF SoundLines
  <2> QED BY <1>2, <1>5, <2>1
<1>7. LinkedAt(l2, n + 1, l2[n + 1]) /\ CountedAt(l2, n + 1, l2[n + 1])
  BY <1>1, <1>2, <1>5
<1>8. \A k \in 1..(n + 1) : k \in 1..n \/ k = n + 1  OBVIOUS
<1> QED BY <1>3, <1>6, <1>7, <1>8 DEF SoundLines

\* How the counters have to move over another line.
LEMMA CountsGrow ==
    ASSUME NEW l \in Seq(Line), NEW l2, NEW r, Extends(l2, l, r),
           NEW total \in Nat, NEW sequence \in Nat, Counts(l, total, sequence)
    PROVE  /\ ~isChainBreak(r) /\ ~isCheckpoint(r) => Counts(l2, total + 1, sequence)
           /\ ~isChainBreak(r) /\ isCheckpoint(r) /\ r.sequence <= sequence
                 => Counts(l2, total, sequence)
           /\ isChainBreak(r) => Counts(l2, 0, 0)
<1>1. PICK n \in Nat : n = Len(l)  BY LenProperties
<1>2. Len(l2) = n + 1 /\ l2[n + 1] = r /\ \A i \in 1..n : l2[i] = l[i]
  BY <1>1 DEF Extends
<1> DEFINE S == SegmentBefore(l, n + 1)
           S2 == SegmentBefore(l2, n + 2)
           O == Others(l, n + 1)
           O2 == Others(l2, n + 2)
<1>3. S2 = IF isChainBreak(r) THEN {} ELSE S \cup {n + 1}
  <2>1. Len(l2) + 1 = n + 2  BY <1>2
  <2>2. SegmentBefore(l2, Len(l2) + 1) =
           IF isChainBreak(r) THEN {} ELSE SegmentBefore(l, Len(l) + 1) \cup {Len(l) + 1}
    BY SegmentGrows
  <2> QED BY <1>1, <2>1, <2>2
<1>4. \A i \in S : i \in 1..n /\ l2[i] = l[i]  BY <1>2 DEF SegmentBefore
<1>5. O2 = {i \in S2 : ~isCheckpoint(l2[i])} /\ O = {i \in S : ~isCheckpoint(l[i])}
  BY DEF Others
<1>6. /\ O \in SUBSET (1..n) /\ IsFiniteSet(O) /\ Cardinality(O) = total
      /\ \A i \in S : isCheckpoint(l[i]) => l[i].sequence <= sequence
  BY <1>1, SegmentFinite DEF Counts
<1>7. Counts(l2, total, sequence) <=> /\ total = Cardinality(O2)
                                      /\ \A i \in S2 : isCheckpoint(l2[i]) => l2[i].sequence <= sequence
  <2>1. Len(l2) + 1 = n + 2  BY <1>2
  <2> QED BY <2>1 DEF Counts
<1>8. Counts(l2, total + 1, sequence) <=> /\ total + 1 = Cardinality(O2)
                                      /\ \A i \in S2 : isCheckpoint(l2[i]) => l2[i].sequence <= sequence
  <2>1. Len(l2) + 1 = n + 2  BY <1>2
  <2> QED BY <2>1 DEF Counts
<1>9. Counts(l2, 0, 0) <=> /\ 0 = Cardinality(O2)
                           /\ \A i \in S2 : isCheckpoint(l2[i]) => l2[i].sequence <= 0
  <2>1. Len(l2) + 1 = n + 2  BY <1>2
  <2> QED BY <2>1 DEF Counts
<1> HIDE DEF S, S2, O, O2
<1>10. n + 1 \notin O  BY <1>6
<1>11. ASSUME ~isChainBreak(r), ~isCheckpoint(r) PROVE Counts(l2, total + 1, sequence)
  <2>1. O2 = O \cup {n + 1}  BY <1>2, <1>3, <1>4, <1>5, <1>11
  <2>2. Cardinality(O2) = total + 1  BY <1>6, <1>10, <2>1, FS_AddElement
  <2>3. \A i \in S2 : isCheckpoint(l2[i]) => l2[i].sequence <= sequence
    BY <1>2, <1>3, <1>4, <1>6, <1>11
  <2> QED BY <1>8, <2>2, <2>3
<1>12. ASSUME ~isChainBreak(r), isCheckpoint(r), r.sequence <= sequence
       PROVE  Counts(l2, total, sequence)
  <2>1. O2 = O  BY <1>2, <1>3, <1>4, <1>5, <1>12
  <2>2. \A i \in S2 : isCheckpoint(l2[i]) => l2[i].sequence <= sequence
    BY <1>2, <1>3, <1>4, <1>6, <1>12
  <2> QED BY <1>6, <1>7, <2>1, <2>2
<1>13. ASSUME isChainBreak(r) PROVE Counts(l2, 0, 0)
  <2>1. O2 = {} /\ S2 = {}  BY <1>3, <1>5, <1>13
  <2> QED BY <1>9, <2>1, FS_EmptySet
<1> QED BY <1>11, <1>12, <1>13

-----------------------------------------------------------------------------
(* One run of the process                                                  *)

\* The process runs once, and no append of it is torn.
OneRun == MaxBoots <= 1 /\ "torn" \notin Faults

HeadOf(l) == HashBefore(l, Len(l) + 1)

\* A call at this point is about to append what belongs there.
DraftSound(l, point, r) ==
    /\ LinkedAt(l, Len(l) + 1, r) /\ CountedAt(l, Len(l) + 1, r)
    /\ isChainBreak(r) => r.priorHead = IF l = <<>> THEN Undefined ELSE HeadOf(l)
    /\ isCheckpoint(r) <=> point = "append_checkpoint"
    /\ isChainBreak(r) <=> point = "append_break"

CountersInv ==
    lastHash = HeadOf(lines) /\ Counts(lines, totalRecordCount, checkpointSequence)

DraftsSound ==
    \A c \in Calls : pc[c] \in Appending =>
        /\ DraftSound(lines, pc[c], draft[c])
        /\ isCheckpoint(draft[c]) => draft[c].sequence <= checkpointSequence

RunInv ==
    /\ pc[Boot] \in Settled /\ NothingTorn
    /\ proc \in {"down", "up"} /\ boots \in 0..1
    /\ boots = 0 => proc = "down" /\ lines = <<>> /\ stateFile = NoState
    /\ SoundLines(lines) /\ DraftsSound
    /\ proc = "up" => CountersInv

\* The records of the writer are sound when they are built.
LEMMA BuiltSound ==
    ASSUME NEW l \in Seq(Line), \A i \in DOMAIN l : Parses(l[i]), NEW h,
           NEW total \in Nat, NEW sequence \in Nat, Counts(l, total, sequence)
    PROVE  /\ DraftSound(l, "append_record", AuditRecord(h, HeadOf(l)))
           /\ \A at : DraftSound(l, "append_record", ToolDriftRecord(h, HeadOf(l), at))
           /\ DraftSound(l, "append_checkpoint",
                         CheckpointRecord(h, HeadOf(l), sequence + 1, total))
           /\ DraftSound(l, "append_break", ChainBreakRecord(h, HeadOf(l)))
<1>1. DraftSound(l, "append_record", AuditRecord(h, HeadOf(l)))
  BY DEF DraftSound, AuditRecord, isChainBreak, isCheckpoint, LinkedAt, CountedAt, HeadOf
<1>2. ASSUME NEW at PROVE DraftSound(l, "append_record", ToolDriftRecord(h, HeadOf(l), at))
  BY DEF DraftSound, ToolDriftRecord, isChainBreak, isCheckpoint, LinkedAt, CountedAt, HeadOf
<1>3. DraftSound(l, "append_checkpoint",
                 CheckpointRecord(h, HeadOf(l), sequence + 1, total))
  <2> DEFINE r == CheckpointRecord(h, HeadOf(l), sequence + 1, total)
  <2>1. /\ isCheckpoint(r) /\ ~isChainBreak(r) /\ r.previousHash = HeadOf(l)
        /\ r.recordCount = total /\ r.sequence = sequence + 1
    BY DEF CheckpointRecord, isChainBreak, isCheckpoint
  <2> HIDE DEF r
  <2>2. ASSUME NEW i \in SegmentBefore(l, Len(l) + 1), isCheckpoint(l[i])
        PROVE  l[i].sequence < r.sequence
    <3>1. i \in 1..(Len(l) + 1 - 1)  BY DEF SegmentBefore
    <3>2. i \in DOMAIN l  BY <3>1
    <3>3. l[i] \in ChainRecord  BY <3>2, ParsedIsRecord
    <3>4. l[i].sequence \in Nat  BY <3>3 DEF ChainRecord
    <3>5. l[i].sequence <= sequence  BY <2>2 DEF Counts
    <3> QED BY <2>1, <3>4, <3>5
  <2>3. CountedAt(l, Len(l) + 1, r)  BY <2>1, <2>2 DEF CountedAt, Counts
  <2>4. LinkedAt(l, Len(l) + 1, r)  BY <2>1 DEF LinkedAt, HeadOf
  <2>5. DraftSound(l, "append_checkpoint", r)  BY <2>1, <2>3, <2>4 DEF DraftSound
  <2> QED BY <2>5 DEF r
<1>4. DraftSound(l, "append_break", ChainBreakRecord(h, HeadOf(l)))
  <2> DEFINE r == ChainBreakRecord(h, HeadOf(l))
  <2>1. /\ ~isCheckpoint(r) /\ isChainBreak(r) /\ r.previousHash = Undefined
        /\ r.priorHead = IF HeadOf(l) # genesis THEN HeadOf(l) ELSE Undefined
    BY DEF ChainBreakRecord, isChainBreak, isCheckpoint
  <2> HIDE DEF r
  <2>2. l = <<>> => HeadOf(l) = genesis  BY DEF HeadOf, HashBefore
  <2>3. ASSUME l # <<>> PROVE HeadOf(l) # genesis
    <3>1. Len(l) \in 1..Len(l) /\ Len(l) + 1 # 1 /\ Len(l) + 1 - 1 = Len(l)
      BY <2>3, EmptySeq, LenProperties
    <3>2. Len(l) \in DOMAIN l  BY <3>1
    <3>3. l[Len(l)] \in ChainRecord  BY <3>2, ParsedIsRecord
    <3> QED BY <3>1, <3>3, RecordHash DEF HeadOf, HashBefore
  <2>4. r.priorHead = IF l = <<>> THEN Undefined ELSE HeadOf(l)  BY <2>1, <2>2, <2>3
  <2>5. LinkedAt(l, Len(l) + 1, r) /\ CountedAt(l, Len(l) + 1, r)
    BY <2>1 DEF LinkedAt, CountedAt
  <2>6. DraftSound(l, "append_break", r)  BY <2>1, <2>4, <2>5 DEF DraftSound
  <2> QED BY <2>6 DEF r
<1> QED BY <1>1, <1>2, <1>3, <1>4

\* A whole append leaves the log sound.
LEMMA AppendSound ==
    ASSUME TypeOK, RunInv, NEW c \in Calls, pc[c] \in Appending,
           AppendLine(draft[c]), torn' = FALSE
    PROVE  /\ Extends(lines', lines, draft[c])
           /\ lines' # <<>> /\ NothingTorn' /\ SoundLines(lines')
           /\ HeadOf(lines') = hashRecord(draft[c])
<1>1. draft[c] \in ChainRecord /\ NothingTorn /\ lines \in Seq(Line)
  BY PointFacts DEF TypeOK, RunInv
<1>2. Extends(lines', lines, draft[c]) /\ NothingTorn'
  BY <1>1, CleanAppend DEF Extends
<1>3. lines' # <<>>
  BY <1>1, <1>2, LenProperties DEF Extends
<1>4. SoundLines(lines')
  BY <1>1, <1>2, SoundGrows DEF RunInv, DraftsSound, DraftSound
<1>5. HeadOf(lines') = hashRecord(draft[c])
  BY <1>1, <1>2, SegmentGrows DEF HeadOf
<1> QED BY <1>2, <1>3, <1>4, <1>5

\* A sequence number taken and not used yet leaves the counters right.
LEMMA CountsLater ==
    ASSUME NEW l \in Seq(Line), \A i \in DOMAIN l : Parses(l[i]),
           NEW total, NEW sequence \in Nat, Counts(l, total, sequence)
    PROVE  Counts(l, total, sequence + 1)
<1>1. PICK n \in Nat : n = Len(l)  BY LenProperties
<1>2. ASSUME NEW i \in SegmentBefore(l, n + 1), isCheckpoint(l[i])
      PROVE  l[i].sequence <= sequence + 1
  <2>1. i \in DOMAIN l  BY <1>1 DEF SegmentBefore
  <2>2. l[i] \in ChainRecord  BY <2>1, ParsedIsRecord
  <2>3. l[i].sequence \in Nat  BY <2>2 DEF ChainRecord
  <2>4. l[i].sequence <= sequence  BY <1>1, <1>2 DEF Counts
  <2> QED BY <2>3, <2>4
<1> QED BY <1>1, <1>2 DEF Counts

\* Each step of a call keeps a run's log sound and its counters right.
LEMMA StepKeepsRun ==
    ASSUME OneRun, TypeOK, OneInFlight, RunInv, NEW c \in Slots, Step(c)
    PROVE  RunInv'
<1> USE DEF disk, memory, counters
<1>1. /\ pc[c] \in InFlight /\ pc'[c] \in InFlight \cup Settled
      /\ \A d \in Slots : d # c => pc[d] \notin InFlight /\ pc'[d] = pc[d]
  BY StepMoves
<1>2. c \in Calls /\ c # Boot /\ proc = "up"
  <2>1. c # Boot  BY <1>1, PointFacts DEF RunInv
  <2> QED BY <1>1, <2>1, SlotCases, PointFacts DEF OneInFlight
<1>3. UNCHANGED <<proc, boots>>
  BY <1>2 DEF Step, AppendRecord, AppendCheckpoint, AppendBreak, WriteFails,
     WriteTorn, Rename, RenameFails, PersistState, PersistStateFails,
     PersistChainState, PersistChainStateFails, Reject
<1>4. /\ pc'[Boot] \in Settled /\ proc' = "up" /\ boots' \in 0..1 /\ boots' # 0
  BY <1>1, <1>2, <1>3, PointFacts DEF RunInv
<1>5. \A d \in Calls : d # c => pc'[d] \notin Appending  BY <1>1, PointFacts
<1>6. ASSUME NothingTorn', SoundLines(lines'), CountersInv',
             pc'[c] \in Appending =>
                /\ DraftSound(lines', pc'[c], draft'[c])
                /\ isCheckpoint(draft'[c]) => draft'[c].sequence <= checkpointSequence'
      PROVE  RunInv'
  <2>1. DraftsSound'  BY <1>5, <1>6 DEF DraftsSound
  <2> QED BY <1>4, <1>6, <2>1 DEF RunInv
<1>7. /\ lastHash = HeadOf(lines) /\ Counts(lines, totalRecordCount, checkpointSequence)
      /\ lines \in Seq(Line) /\ totalRecordCount \in Nat /\ checkpointSequence \in Nat
  BY <1>2 DEF RunInv, CountersInv, TypeOK
<1>8. ASSUME pc[c] \in Appending, AppendLine(draft[c]), torn' = FALSE
      PROVE  /\ Extends(lines', lines, draft[c])
             /\ lines' # <<>> /\ NothingTorn' /\ SoundLines(lines')
             /\ HeadOf(lines') = hashRecord(draft[c])
             /\ DraftSound(lines, pc[c], draft[c])
             /\ isCheckpoint(draft[c]) => draft[c].sequence <= checkpointSequence
  BY <1>2, <1>8, AppendSound DEF RunInv, DraftsSound
<1>9. CASE AppendRecord(c)
  <2>1. /\ pc[c] = "append_record" /\ AppendLine(draft[c]) /\ torn' = FALSE
        /\ lastHash' = hashRecord(draft[c]) /\ totalRecordCount' = totalRecordCount + 1
    BY <1>9 DEF AppendRecord, HeadAfter
  <2>2. ~isCheckpoint(draft[c]) /\ ~isChainBreak(draft[c])
    BY <1>8, <2>1, PointFacts DEF DraftSound
  <2>3. /\ Counts(lines', totalRecordCount + 1, checkpointSequence)
        /\ HeadOf(lines') = lastHash' /\ NothingTorn' /\ SoundLines(lines')
        /\ lines' \in Seq(Line)
    BY <1>7, <1>8, <2>1, <2>2, CountsGrow, PointFacts DEF Extends
  <2>4. CASE pc' = [pc EXCEPT ![c] = AfterAppends(currentSize')]
             /\ UNCHANGED checkpointSequence
    <3>1. pc'[c] \in {"rename", "resolved"}  BY <2>4 DEF AfterAppends, TypeOK
    <3>2. pc'[c] \notin Appending  BY <3>1, PointFacts
    <3>3. CountersInv'  BY <2>1, <2>3, <2>4 DEF CountersInv
    <3> QED BY <1>6, <2>3, <3>2, <3>3
  <2>5. CASE BeginCheckpoint(c, lastHash', totalRecordCount')
    <3>1. /\ checkpointSequence' = checkpointSequence + 1
          /\ pc'[c] = "append_checkpoint"
          /\ draft'[c] = CheckpointRecord(nextHash, lastHash', checkpointSequence + 1,
                                          totalRecordCount + 1)
      BY <2>1, <2>5 DEF BeginCheckpoint, Draft, NextSequence, TypeOK
    <3>2. draft'[c].sequence = checkpointSequence'  BY <3>1 DEF CheckpointRecord
    <3>3. DraftSound(lines', "append_checkpoint",
                     CheckpointRecord(nextHash, lastHash', checkpointSequence + 1,
                                      totalRecordCount + 1))
      <4>1. totalRecordCount + 1 \in Nat /\ \A i \in DOMAIN lines' : Parses(lines'[i])
        BY <1>7, <2>3 DEF NothingTorn
      <4> QED BY <1>7, <2>3, <4>1, BuiltSound
    <3>4. Counts(lines', totalRecordCount', checkpointSequence')
      BY <1>7, <2>1, <2>3, <3>1, CountsLater DEF NothingTorn
    <3>5. CountersInv'  BY <2>3, <3>4 DEF CountersInv
    <3> QED BY <1>6, <1>7, <2>3, <3>1, <3>2, <3>3, <3>5
  <2> QED BY <1>9, <2>4, <2>5 DEF AppendRecord
<1>10. CASE AppendCheckpoint(c)
  <2>1. /\ pc[c] = "append_checkpoint" /\ AppendLine(draft[c]) /\ torn' = FALSE
        /\ lastHash' = hashRecord(draft[c])
        /\ UNCHANGED <<totalRecordCount, checkpointSequence>>
    BY <1>10 DEF AppendCheckpoint, HeadAfter
  <2>2. /\ isCheckpoint(draft[c]) /\ ~isChainBreak(draft[c])
        /\ draft[c].sequence <= checkpointSequence
    BY <1>8, <2>1, PointFacts DEF DraftSound
  <2>3. /\ Counts(lines', totalRecordCount, checkpointSequence)
        /\ HeadOf(lines') = lastHash' /\ NothingTorn' /\ SoundLines(lines')
    BY <1>7, <1>8, <2>1, <2>2, CountsGrow, PointFacts
  <2>4. pc'[c] \in {"rename", "resolved"}
    BY <1>10 DEF AppendCheckpoint, AfterAppends, TypeOK
  <2>5. CountersInv'  BY <2>1, <2>3 DEF CountersInv
  <2> QED BY <1>6, <2>3, <2>4, <2>5, PointFacts
<1>11. CASE AppendBreak(c)
  <2>1. /\ pc[c] = "append_break" /\ AppendLine(draft[c]) /\ torn' = FALSE
        /\ lastHash' = hashRecord(draft[c])
        /\ totalRecordCount' = 0 /\ checkpointSequence' = 0
        /\ pc'[c] = "persist_chain"
    BY <1>11 DEF AppendBreak, HeadAfter, TypeOK
  <2>2. isChainBreak(draft[c])  BY <1>8, <2>1, PointFacts DEF DraftSound
  <2>3. /\ Counts(lines', 0, 0)
        /\ HeadOf(lines') = lastHash' /\ NothingTorn' /\ SoundLines(lines')
    BY <1>7, <1>8, <2>1, <2>2, CountsGrow, PointFacts
  <2>4. CountersInv'  BY <2>1, <2>3 DEF CountersInv
  <2> QED BY <1>6, <2>1, <2>3, <2>4, PointFacts
<1>12. CASE WriteFails(c) \/ Rename(c) \/ RenameFails(c) \/ PersistState(c)
            \/ PersistStateFails(c) \/ PersistChainState(c) \/ PersistChainStateFails(c)
  <2>1. /\ UNCHANGED <<lines, lastHash, totalRecordCount, checkpointSequence>>
        /\ torn' \in {torn, FALSE}
    BY <1>12 DEF WriteFails, Rename, RenameFails, PersistState, PersistStateFails,
       PersistChainState, PersistChainStateFails, Reject, HeadAfterRotation
  <2>2. pc'[c] \in {"rejected", "persist", "resolved"}
    <3>1. \E point \in {"rejected", "persist", "resolved"} : pc' = [pc EXCEPT ![c] = point]
      BY <1>12 DEF WriteFails, Rename, RenameFails, PersistState, PersistStateFails,
         PersistChainState, PersistChainStateFails, Reject
    <3>2. pc \in [Slots -> Points]  BY DEF TypeOK
    <3> QED BY <3>1, <3>2
  <2>3. NothingTorn'
    <3>1. CASE torn' = torn  BY <2>1, <3>1 DEF RunInv, NothingTorn
    <3>2. CASE torn' = FALSE  BY <2>1, <3>2 DEF RunInv, NothingTorn
    <3> QED BY <2>1, <3>1, <3>2
  <2>4. SoundLines(lines') /\ CountersInv'
    BY <1>2, <2>1 DEF RunInv, CountersInv
  <2> QED BY <1>6, <2>2, <2>3, <2>4, PointFacts
<1>13. ~WriteTorn(c)  BY DEF WriteTorn, TornAppend, OneRun
<1> QED BY <1>9, <1>10, <1>11, <1>12, <1>13 DEF Step

\* So do calls that are made or start.
LEMMA CallKeepsRun ==
    ASSUME OneRun, TypeOK, OneInFlight, RunInv, NEW c \in Calls, Call(c)
    PROVE  RunInv'
<1> USE DEF disk, memory, counters
<1>1. /\ pc[c] \in {"new", "queued"}
      /\ \A d \in Slots : d # c => pc'[d] = pc[d]
      /\ UNCHANGED <<lines, torn>>
      /\ \/ pc'[c] = "queued" /\ UNCHANGED <<draft, nextHash>>
         \/ pc'[c] \in Appending /\ \A d \in Slots : pc[d] \notin InFlight
  BY CallMoves
<1>2. proc = "up" /\ UNCHANGED <<stateFile, lastHash, totalRecordCount, proc, boots>>
  BY DEF Call, Enqueue, Start, StartRecord, StartToolDrift, StartCheckpoint, StartBreak,
     Ready, BeginCheckpoint
<1>3. /\ pc'[Boot] \in Settled /\ NothingTorn' /\ proc' = "up" /\ boots' \in 0..1 /\ boots' # 0
      /\ SoundLines(lines')
  BY <1>1, <1>2, PointFacts DEF RunInv, NothingTorn
<1>4. /\ lastHash = HeadOf(lines) /\ Counts(lines, totalRecordCount, checkpointSequence)
      /\ lines \in Seq(Line) /\ totalRecordCount \in Nat /\ checkpointSequence \in Nat
      /\ \A i \in DOMAIN lines : Parses(lines[i])
  BY <1>2 DEF RunInv, CountersInv, TypeOK, NothingTorn
<1>5. ASSUME CountersInv', pc'[c] \in Appending =>
                /\ DraftSound(lines, pc'[c], draft'[c])
                /\ isCheckpoint(draft'[c]) => draft'[c].sequence <= checkpointSequence',
             pc'[c] \notin Appending => UNCHANGED <<draft, checkpointSequence>>
      PROVE  RunInv'
  <2>1. \A d \in Calls : pc'[d] \in Appending =>
            /\ DraftSound(lines', pc'[d], draft'[d])
            /\ isCheckpoint(draft'[d]) => draft'[d].sequence <= checkpointSequence'
    <3> SUFFICES ASSUME NEW d \in Calls, pc'[d] \in Appending
                 PROVE  /\ DraftSound(lines, pc'[d], draft'[d])
                        /\ isCheckpoint(draft'[d]) => draft'[d].sequence <= checkpointSequence'
      BY <1>1
    <3>1. CASE d = c  BY <1>5, <3>1
    <3>2. CASE d # c
      <4>1. pc[d] \in Appending /\ pc'[d] = pc[d] /\ pc[d] \in InFlight
        BY <1>1, <3>2, PointFacts
      <4>2. pc'[c] \notin Appending  BY <1>1, <4>1, PointFacts
      <4> QED BY <1>5, <4>1, <4>2 DEF RunInv, DraftsSound
    <3> QED BY <3>1, <3>2
  <2> QED BY <1>3, <1>5, <2>1 DEF RunInv, DraftsSound
<1>6. CASE \E o \in Ops : Enqueue(c, o)
  <2>1. UNCHANGED <<draft, checkpointSequence>>  BY <1>6 DEF Enqueue
  <2>2. CountersInv'  BY <1>1, <1>2, <1>4, <2>1 DEF CountersInv
  <2>3. pc'[c] = "queued"
    <3>1. pc' = [pc EXCEPT ![c] = "queued"]  BY <1>6 DEF Enqueue
    <3> QED BY <3>1, PointFacts DEF TypeOK
  <2> QED BY <1>5, <2>1, <2>2, <2>3, PointFacts
<1>7. ASSUME NEW r, NEW point \in Appending, Draft(c, r, point), DraftSound(lines, point, r),
             isCheckpoint(r) => r.sequence <= checkpointSequence', CountersInv'
      PROVE  RunInv'
  <2>1. pc'[c] = point /\ draft'[c] = r  BY <1>7, PointFacts DEF Draft, TypeOK
  <2> QED BY <1>5, <1>7, <2>1
<1>8. CASE StartCheckpoint(c)
  <2>1. /\ checkpointSequence' = checkpointSequence + 1
        /\ Draft(c, CheckpointRecord(nextHash, lastHash, checkpointSequence + 1,
                                     totalRecordCount), "append_checkpoint")
    BY <1>8 DEF StartCheckpoint, BeginCheckpoint, NextSequence
  <2>2. DraftSound(lines, "append_checkpoint",
                   CheckpointRecord(nextHash, lastHash, checkpointSequence + 1, totalRecordCount))
    BY <1>4, BuiltSound
  <2>3. CheckpointRecord(nextHash, lastHash, checkpointSequence + 1, totalRecordCount).sequence
           <= checkpointSequence'
    BY <1>4, <2>1 DEF CheckpointRecord
  <2>4. CountersInv'  BY <1>1, <1>2, <1>4, <2>1, CountsLater DEF CountersInv
  <2> QED BY <1>7, <2>1, <2>2, <2>3, <2>4, PointFacts
<1>9. CASE StartRecord(c) \/ StartToolDrift(c) \/ StartBreak(c)
  <2>1. UNCHANGED checkpointSequence  BY <1>9 DEF StartRecord, StartToolDrift, StartBreak
  <2>2. CountersInv'  BY <1>1, <1>2, <1>4, <2>1 DEF CountersInv
  <2>3. CASE StartRecord(c)
    <3>1. /\ Draft(c, AuditRecord(nextHash, lastHash), "append_record")
          /\ ~isCheckpoint(AuditRecord(nextHash, lastHash))
      BY <2>3 DEF StartRecord, AuditRecord, isCheckpoint
    <3>2. DraftSound(lines, "append_record", AuditRecord(nextHash, lastHash))
      BY <1>4, BuiltSound
    <3> QED BY <1>7, <2>2, <3>1, <3>2, PointFacts
  <2>4. CASE StartToolDrift(c)
    <3>1. /\ Draft(c, ToolDriftRecord(nextHash, lastHash, DetectedAt), "append_record")
          /\ ~isCheckpoint(ToolDriftRecord(nextHash, lastHash, DetectedAt))
      BY <2>4 DEF StartToolDrift, ToolDriftRecord, isCheckpoint
    <3>2. DraftSound(lines, "append_record", ToolDriftRecord(nextHash, lastHash, DetectedAt))
      BY <1>4, BuiltSound
    <3> QED BY <1>7, <2>2, <3>1, <3>2, PointFacts
  <2>5. CASE StartBreak(c)
    <3>1. /\ Draft(c, ChainBreakRecord(nextHash, lastHash), "append_break")
          /\ ~isCheckpoint(ChainBreakRecord(nextHash, lastHash))
      BY <2>5 DEF StartBreak, ChainBreakRecord, isCheckpoint
    <3>2. DraftSound(lines, "append_break", ChainBreakRecord(nextHash, lastHash))
      BY <1>4, BuiltSound
    <3> QED BY <1>7, <2>2, <3>1, <3>2, PointFacts
  <2> QED BY <1>9, <2>3, <2>4, <2>5
<1> QED BY <1>6, <1>8, <1>9 DEF Call, Start

\* And so do the end of the process, in the middle of an append or not, damage
\* to the state file, and init(), which runs once, on nothing.
LEMMA OutsideKeepsRun ==
    ASSUME OneRun, TypeOK, OneInFlight, RunInv, Stop \/ DamageState \/ Boots
    PROVE  RunInv'
<1> USE DEF disk, memory, counters, control
<1>1. CASE Stop
  <2>1. /\ \A c \in Slots : pc'[c] \notin InFlight
        /\ pc'[Boot] \in Settled
    BY <1>1, StopSettles
  <2>2. proc' = "down" /\ proc = "up" /\ UNCHANGED boots  BY <1>1 DEF Stop, RunInv
  <2>3. DraftsSound'  BY <2>1, PointFacts DEF DraftsSound
  <2>4. NothingTorn' /\ SoundLines(lines')
    <3>1. CASE UNCHANGED <<lines, torn>>  BY <3>1 DEF RunInv, NothingTorn
    <3>2. ASSUME NEW c \in Slots, pc[c] \in Appending, AppendLine(draft[c]), torn' = FALSE
          PROVE  NothingTorn' /\ SoundLines(lines')
      <4>1. c \in Calls  BY <3>2, SlotCases, PointFacts DEF RunInv
      <4> QED BY <3>2, <4>1, AppendSound
    <3> QED BY <1>1, <3>1, <3>2 DEF Stop, TornAppend, OneRun
  <2> QED BY <2>1, <2>2, <2>3, <2>4 DEF RunInv
<1>2. CASE DamageState
  <2>1. /\ stateFile.status = "ok" /\ UNCHANGED <<lines, torn, proc, pc, draft, boots,
               lastHash, totalRecordCount, checkpointSequence>>
    BY <1>2 DEF DamageState
  <2>2. boots # 0  BY <2>1 DEF RunInv, NoState
  <2>3. DraftsSound'  BY <2>1 DEF RunInv, DraftsSound
  <2>4. proc' # "up"  BY <1>2 DEF DamageState
  <2> QED BY <2>1, <2>2, <2>3, <2>4 DEF RunInv, NothingTorn
<1>3. CASE Boots
  <2>1. InitRuns  BY <1>3 DEF Boots, Resume, Refuse, StartForced
  <2>2. boots = 0 /\ boots' = 1
    BY <2>1, ConstantsAssumption DEF InitRuns, OneRun, RunInv
  <2>3. proc = "down" /\ lines = <<>> /\ stateFile = NoState  BY <2>2 DEF RunInv
  <2>4. LogIsEmpty /\ ~StateCorrupt
    BY <2>3 DEF LogIsEmpty, StateCorrupt, NoState, TypeOK
  <2>5. ~MustRefuse
    BY <2>4 DEF MustRefuse, HeadCorrupt, Inconsistent
  <2>6. Resume  BY <1>3, <2>5 DEF Boots, Refuse, StartForced
  <2>7. /\ UNCHANGED <<lines, torn, draft>> /\ proc' = "up"
        /\ pc' = [pc EXCEPT ![Boot] = "resolved"]
        /\ lastHash' = RecoveredHead /\ totalRecordCount' = RecoveredCount
    BY <2>6 DEF Resume, RecoverMemory
  <2>8. RecoveredHead = genesis /\ RecoveredCount = 0
    BY <2>3, <2>4 DEF RecoveredHead, RecoveredCount, ReadsTail, Recovered, NoState
  <2>9. CountersInv'
    <3>1. lines' = <<>> /\ Len(lines') + 1 = 1  BY <2>3, <2>7
    <3>2. SegmentBefore(lines', 1) = {}  BY DEF SegmentBefore
    <3>3. Others(lines', 1) = {}  BY <3>2 DEF Others
    <3>4. HeadOf(lines') = genesis  BY <3>1 DEF HeadOf, HashBefore
    <3>5. Counts(lines', 0, checkpointSequence')
      BY <3>1, <3>2, <3>3, FS_EmptySet DEF Counts
    <3> QED BY <2>7, <2>8, <3>4, <3>5 DEF CountersInv
  <2>10. pc'[Boot] \in Settled /\ \A c \in Calls : pc'[c] = pc[c] /\ pc[c] \notin InFlight
    BY <2>3, <2>7, PointFacts DEF TypeOK, OneInFlight
  <2>11. DraftsSound'  BY <2>10, PointFacts DEF DraftsSound
  <2>12. NothingTorn' /\ SoundLines(lines')  BY <2>7 DEF RunInv, NothingTorn
  <2> QED BY <2>2, <2>7, <2>9, <2>10, <2>11, <2>12 DEF RunInv
<1> QED BY <1>1, <1>2, <1>3

\* RunInv is inductive.
LEMMA RunStep ==
    ASSUME OneRun, TypeOK, OneInFlight, RunInv, [Next]_vars
    PROVE  RunInv'
<1>1. CASE UNCHANGED vars
  BY <1>1 DEF vars, disk, memory, counters, control, RunInv, NothingTorn, CountersInv,
     DraftsSound
<1>2. CASE Next
  BY <1>1, <1>2, StepKeepsRun, CallKeepsRun, OutsideKeepsRun DEF Next, Environment, Finished
<1> QED BY <1>1, <1>2

\* RunInv holds before anything is written.
LEMMA RunInit == Init => RunInv
<1> SUFFICES ASSUME Init PROVE RunInv  OBVIOUS
<1>1. /\ lines = <<>> /\ torn = FALSE /\ stateFile = NoState /\ proc = "down" /\ boots = 0
      /\ \A c \in Slots : pc[c] = IF c = Boot THEN "resolved" ELSE "new"
  BY DEF Init
<1>2. pc[Boot] \in Settled /\ \A c \in Calls : pc[c] \notin Appending
  BY <1>1, PointFacts
<1>3. DraftsSound  BY <1>2 DEF DraftsSound
<1>4. NothingTorn /\ SoundLines(lines)  BY <1>1 DEF NothingTorn, SoundLines
<1> QED BY <1>1, <1>2, <1>3, <1>4 DEF RunInv

-----------------------------------------------------------------------------
(* The counters, and the whole ledger                                      *)

\* The lines since the last chain_break are one segment, of which the
\* verifiers' count is the writer's.
LEMMA SegmentIsRest ==
    ASSUME NEW l \in Seq(Line)
    PROVE  /\ SegmentStart(l) \in 1..(Len(l) + 1)
           /\ \A i \in Breaks(l) : i < SegmentStart(l)
           /\ \A k \in SegmentStart(l)..(Len(l) + 1) :
                 /\ SegmentBefore(l, k) = SegmentStart(l)..(k - 1)
                 /\ NonCheckpoints(l, SegmentStart(l), k - 1) = Cardinality(Others(l, k))
<1>1. PICK n \in Nat : n = Len(l)  BY LenProperties
<1>2. DOMAIN l = 1..n  BY <1>1
<1> DEFINE B == {0} \cup Breaks(l)
           m == Max(B)
<1>3. Breaks(l) = {i \in 1..n : isChainBreak(l[i])}  BY <1>2 DEF Breaks
<1>4. B \in SUBSET (0..n) /\ B # {}  BY <1>3
<1>5. IsFiniteSet(B)
  <2>1. IsFiniteSet(0..n)  BY FS_Interval
  <2> HIDE DEF B
  <2> QED BY <1>4, <2>1, FS_Subset
<1>6. m \in B /\ \A x \in B : m >= x
  <2>1. B \in SUBSET Int  BY <1>4
  <2> HIDE DEF B
  <2> QED BY <1>4, <1>5, <2>1, MaxIsGreatest
<1>7. SegmentStart(l) = m + 1  BY DEF SegmentStart
<1> HIDE DEF m
<1>8. m \in 0..n /\ (\A x \in 1..n : isChainBreak(l[x]) => m >= x)
      /\ (m \in 1..n => isChainBreak(l[m]))
  <2>1. m \in 0..n  BY <1>4, <1>6
  <2>2. ASSUME NEW x \in 1..n, isChainBreak(l[x]) PROVE m >= x  BY <1>3, <1>6, <2>2
  <2>3. ASSUME m \in 1..n PROVE isChainBreak(l[m])
    <3>1. m \in Breaks(l)  BY <1>6, <2>3
    <3> QED BY <1>3, <3>1
  <2> QED BY <2>1, <2>2, <2>3
<1>9. ASSUME NEW k \in (m + 1)..(n + 1) PROVE SegmentBefore(l, k) = (m + 1)..(k - 1)
  <2>1. ASSUME NEW i \in SegmentBefore(l, k) PROVE i \in (m + 1)..(k - 1)
    <3>1. i \in 1..(k - 1) /\ \A j \in i..(k - 1) : ~isChainBreak(l[j])  BY DEF SegmentBefore
    <3>2. ~(i <= m)
      <4> SUFFICES ASSUME i <= m PROVE FALSE  OBVIOUS
      <4>1. m \in i..(k - 1) /\ m \in 1..n  BY <1>8, <3>1
      <4> QED BY <1>8, <3>1, <4>1
    <3> QED BY <1>8, <3>1, <3>2
  <2>2. ASSUME NEW i \in (m + 1)..(k - 1) PROVE i \in SegmentBefore(l, k)
    <3>1. i \in 1..(k - 1)  BY <1>8
    <3>2. ASSUME NEW j \in i..(k - 1) PROVE ~isChainBreak(l[j])
      <4>1. j \in 1..n /\ ~(m >= j)  BY <1>8
      <4> QED BY <1>8, <4>1
    <3> QED BY <3>1, <3>2 DEF SegmentBefore
  <2> QED BY <2>1, <2>2
<1>10. ASSUME NEW k \in (m + 1)..(n + 1)
       PROVE  NonCheckpoints(l, m + 1, k - 1) = Cardinality(Others(l, k))
  <2>1. Others(l, k) = {j \in (m + 1)..(k - 1) : ~isCheckpoint(l[j])}
    BY <1>9 DEF Others
  <2> QED BY <2>1 DEF NonCheckpoints
<1>11. \A i \in Breaks(l) : i < m + 1  BY <1>3, <1>8
<1>12. m + 1 \in 1..(n + 1)  BY <1>8
<1> QED BY <1>1, <1>7, <1>9, <1>10, <1>11, <1>12

\* What the counters and the records of a sound log say agrees.
LEMMA CountersAgree ==
    ASSUME TypeOK, RunInv, proc = "up"
    PROVE  CountersMatchLog
<1>1. PICK n \in Nat : n = Len(lines)  BY LenProperties DEF TypeOK
<1>2. lines \in Seq(Line) /\ DOMAIN lines = 1..n  BY <1>1 DEF TypeOK
<1>3. PICK s : s = SegmentStart(lines)  OBVIOUS
<1>4. /\ s \in 1..(n + 1)
      /\ \A k \in s..(n + 1) :
            /\ SegmentBefore(lines, k) = s..(k - 1)
            /\ NonCheckpoints(lines, s, k - 1) = Cardinality(Others(lines, k))
  BY <1>1, <1>2, <1>3, SegmentIsRest
<1>5. Counts(lines, totalRecordCount, checkpointSequence) /\ SoundLines(lines)
  BY DEF RunInv, CountersInv
<1>6. totalRecordCount = NonCheckpoints(lines, s, n)
  <2>1. n + 1 \in s..(n + 1) /\ n + 1 - 1 = n  BY <1>4
  <2>2. NonCheckpoints(lines, s, n) = Cardinality(Others(lines, n + 1))  BY <1>4, <2>1
  <2> QED BY <1>1, <1>5, <2>2 DEF Counts
<1>7. ASSUME NEW k \in Checkpoints(lines), k >= s
      PROVE  /\ lines[k].sequence <= checkpointSequence
             /\ lines[k].recordCount = NonCheckpoints(lines, s, k - 1)
  <2>1. k \in 1..n /\ isCheckpoint(lines[k])  BY <1>2 DEF Checkpoints
  <2>2. k \in s..(n + 1) /\ n + 1 \in s..(n + 1) /\ k \in s..(n + 1 - 1)  BY <1>4, <1>7, <2>1
  <2>3. k \in SegmentBefore(lines, n + 1)  BY <1>4, <2>2
  <2>4. lines[k].sequence <= checkpointSequence  BY <1>1, <1>5, <2>1, <2>3 DEF Counts
  <2>5. lines[k].recordCount = Cardinality(Others(lines, k))
    BY <1>2, <1>5, <2>1 DEF SoundLines, CountedAt
  <2> QED BY <1>4, <2>2, <2>4, <2>5
<1> QED BY <1>1, <1>3, <1>6, <1>7 DEF CountersMatchLog

\* The counters of a process that runs once are what the lines since the last
\* chain_break say, whenever no call is under way, whatever was queued at once
\* and whatever writes, renames and state saves have failed.
THEOREM CountersFollowLog ==
    ASSUME OneRun
    PROVE  Spec => []CountersMatchLog
<1>1. Init => OneInFlight /\ RunInv  BY SerialInit, RunInit
<1>2. TypeOK /\ OneInFlight /\ RunInv /\ [Next]_vars => OneInFlight' /\ RunInv'
  BY SerialStep, RunStep
<1>3. TypeOK /\ RunInv => CountersMatchLog  BY CountersAgree DEF CountersMatchLog
<1> QED BY <1>1, <1>2, <1>3, TypeCorrect, PTL DEF Spec

\* A whole append enters the ledger, with its count.
LEMMA AppendEntersWhole ==
    ASSUME TypeOK, OrderInv, RunInv, NEW c \in Calls, pc[c] \in Appending,
           AppendLine(draft[c]), torn' = FALSE
    PROVE  Ledger!AppendEntry
<1> DEFINE r == draft[c]
           n == Len(lines)
<1>1. r \in ChainRecord /\ r \in Line /\ n \in Nat /\ lines \in Seq(Line) /\ c \in Slots
  BY PointFacts, RecordHash DEF TypeOK
<1>2. /\ lines' \in Seq(Line) /\ Len(lines') = n + 1 /\ lines'[Len(lines')] = r
  BY AppendSound DEF Extends
<1>3. SubSeq(lines', 1, n) = lines
  <2>1. lines' = Append(lines, r)  BY DEF AppendLine, RunInv, NothingTorn
  <2> QED BY <1>1, <2>1, AppendProperties
<1>4. Ledger!Grows  BY <1>2, <1>3 DEF Ledger!Grows
<1>5. DraftSound(lines, pc[c], r)  BY DEF RunInv, DraftsSound
<1> HIDE DEF r
<1>6. Ledger!Fresh(lines, r)
  <2>1. \A i \in DOMAIN lines : hashRecord(lines[i]) < hashRecord(r) /\ hashRecord(r) \in Nat
    BY <1>1, RecordHash DEF OrderInv, DraftNewest, r
  <2>2. \A i \in DOMAIN lines : hashRecord(lines[i]) \in Int
    BY <1>1, LineHash
  <2>3. \A i \in DOMAIN lines : hashRecord(lines[i]) # hashRecord(r)  BY <2>1, <2>2
  <2> QED BY <2>3 DEF Ledger!Fresh, hashRecord, Ledger!hashRecord
<1>7. Ledger!ChainHead(lines) = HeadOf(lines)
  <2>1. lines = <<>> <=> n + 1 = 1  BY <1>1, EmptySeq
  <2>2. n + 1 - 1 = n  BY <1>1
  <2> QED BY <2>1, <2>2 DEF HeadOf, HashBefore, Ledger!ChainHead, genesis, Ledger!genesis,
          hashRecord, Ledger!hashRecord
<1>8. Ledger!Linked(lines, r)
  <2>1. Parses(r)  BY <1>1, RecordHash
  <2>2. isChainBreak(r) \/ r.previousHash = HeadOf(lines)
    BY <1>5 DEF DraftSound, LinkedAt, HeadOf
  <2> QED BY <1>7, <2>1, <2>2 DEF Ledger!Linked, Parses, Ledger!Parses, isChainBreak,
          Ledger!isChainBreak
<1>9. Ledger!Segment(lines) = SegmentBefore(lines, n + 1)
  <2>1. DOMAIN lines = 1..n /\ n + 1 - 1 = n  BY <1>1
  <2> QED BY <2>1 DEF Ledger!Segment, SegmentBefore, isChainBreak, Ledger!isChainBreak
<1>10. Ledger!Counted(lines, r)
  <2>1. Others(lines, n + 1) = {i \in Ledger!Segment(lines) : ~isCheckpoint(lines[i])}
    BY <1>9 DEF Others
  <2>2. CountedAt(lines, n + 1, r)  BY <1>5 DEF DraftSound
  <2>3. ASSUME isCheckpoint(r)
        PROVE  /\ r.recordCount =
                    Cardinality({i \in Ledger!Segment(lines) : ~isCheckpoint(lines[i])})
               /\ \A i \in Ledger!Segment(lines) :
                     isCheckpoint(lines[i]) => lines[i].sequence < r.sequence
    BY <1>9, <2>1, <2>2, <2>3 DEF CountedAt
  <2>4. isChainBreak(r) =>
          r.priorHead = IF lines = <<>> THEN Undefined ELSE Ledger!ChainHead(lines)
    BY <1>5, <1>7 DEF DraftSound
  <2>5. /\ \A x : Ledger!isCheckpoint(x) <=> isCheckpoint(x)
        /\ \A x : Ledger!isChainBreak(x) <=> isChainBreak(x)
        /\ Ledger!Undefined = Undefined
    BY DEF isCheckpoint, Ledger!isCheckpoint, isChainBreak, Ledger!isChainBreak,
       Undefined, Ledger!Undefined
  <2>6. {i \in Ledger!Segment(lines) : ~isCheckpoint(lines[i])} =
           {i \in Ledger!Segment(lines) : ~Ledger!isCheckpoint(lines[i])}
    BY <2>5
  <2>7. ASSUME Ledger!isCheckpoint(r)
        PROVE  /\ r.recordCount =
                    Cardinality({i \in Ledger!Segment(lines) : ~Ledger!isCheckpoint(lines[i])})
               /\ \A i \in Ledger!Segment(lines) :
                     Ledger!isCheckpoint(lines[i]) => lines[i].sequence < r.sequence
    BY <2>3, <2>5, <2>6, <2>7
  <2>8. Ledger!isChainBreak(r) =>
          r.priorHead = IF lines = <<>> THEN Ledger!Undefined ELSE Ledger!ChainHead(lines)
    BY <2>4, <2>5
  <2>9. \A S : Ledger!Cardinality(S) = Cardinality(S)
    BY DEF Cardinality, Ledger!Cardinality
  <2> QED BY <2>7, <2>8, <2>9 DEF Ledger!Counted
<1> QED BY <1>2, <1>4, <1>6, <1>8, <1>10
    DEF Ledger!AppendEntry, Ledger!AppendLinked, Ledger!Newest, r

\* In one run every step appends to the whole ledger or leaves it alone: only
\* an append, finished by its call or left behind by a crash, writes to it.
LEMMA RunMaps ==
    ASSUME OneRun, TypeOK, OrderInv, RunInv, [Next]_vars
    PROVE  Ledger!AppendEntry \/ UNCHANGED lines
<1>1. Kinds  BY StepHasKind DEF OrderInv
<1>2. ASSUME NEW c \in Slots, Appends(c)
      PROVE  c \in Calls /\ pc[c] \in Appending /\ AppendLine(draft[c]) /\ torn' = FALSE
  <2>1. pc[c] \in Appending /\ AppendLine(draft[c]) /\ torn' = FALSE
    BY <1>2 DEF Appends, TornAppend, OneRun
  <2> QED BY <2>1, SlotCases, PointFacts DEF RunInv
<1> QED BY <1>1, <1>2, AppendEntersWhole DEF Kinds, Quiet, Drafts

\* The writer implements the whole ledger: in a run of the process, whatever
\* the queue, the rotations and the failed operations, and wherever a crash
\* ends it, one new record is added at a time, linked to the one before, each
\* checkpoint with the count of its segment and a sequence number of its own,
\* each chain_break with the head it leaves.
THEOREM WriterImplementsWholeLedger ==
    ASSUME OneRun
    PROVE  Spec => ImplementsLedger
<1>1. Init => OrderInv /\ RunInv  BY OrderInit, RunInit
<1>2. TypeOK /\ OrderInv /\ RunInv /\ [Next]_vars => OrderInv' /\ RunInv'
  BY OrderStep, RunStep DEF OrderInv
<1>3. Init => Ledger!Init  BY DEF Init, Ledger!Init
<1>4. TypeOK /\ OrderInv /\ RunInv /\ [Next]_vars => [Ledger!AppendEntry]_lines  BY RunMaps
<1> QED BY <1>1, <1>2, <1>3, <1>4, TypeCorrect, PTL DEF Spec, ImplementsLedger, Ledger!Spec

-----------------------------------------------------------------------------
(* What the verifiers say of a sound log                                   *)

\* A log that one run has left behind is sound and intact.
LEMMA RunIntact ==
    ASSUME TypeOK, OrderInv, RunInv
    PROVE  Intact(lines) /\ SoundLines(lines)
  BY DEF TypeOK, OrderInv, RunInv, LinesInOrder, NothingTorn, Intact

\* The records of an intact log.
LEMMA IntactRecords ==
    ASSUME NEW l, Intact(l), NEW i \in DOMAIN l
    PROVE  /\ l[i] \in ChainRecord /\ Parses(l[i]) /\ hashRecord(l[i]) \in Nat \ {genesis}
           /\ ~(isCheckpoint(l[i]) /\ isChainBreak(l[i]))
<1>1. l[i] \in ChainRecord /\ Parses(l[i])  BY ParsedIsRecord DEF Intact
<1> QED BY <1>1, RecordHash DEF isCheckpoint, isChainBreak

\* Earlier checkpoints of a segment have smaller sequence numbers.
LEMMA SequencesGrow ==
    ASSUME NEW l, Intact(l), SoundLines(l), NEW i \in Checkpoints(l), NEW j \in Checkpoints(l),
           i < j, \A x \in i..j : x \notin Breaks(l)
    PROVE  l[i].sequence < l[j].sequence /\ l[i].sequence \in Nat /\ l[j].sequence \in Nat
<1>1. PICK n \in Nat : n = Len(l)  BY LenProperties DEF Intact
<1>2. DOMAIN l = 1..n  BY <1>1 DEF Intact
<1>3. i \in 1..n /\ j \in 1..n /\ isCheckpoint(l[i]) /\ isCheckpoint(l[j])
  BY <1>2 DEF Checkpoints
<1>4. i \in SegmentBefore(l, j)
  <2>1. i \in 1..(j - 1)  BY <1>3
  <2>2. ASSUME NEW x \in i..(j - 1) PROVE ~isChainBreak(l[x])
    <3>1. x \in 1..n /\ x \in i..j  BY <1>3
    <3> QED BY <1>2, <3>1 DEF Breaks
  <2> QED BY <2>1, <2>2 DEF SegmentBefore
<1>5. CountedAt(l, j, l[j])  BY <1>2, <1>3 DEF SoundLines
<1>6. l[i] \in ChainRecord /\ l[j] \in ChainRecord  BY <1>2, <1>3, IntactRecords
<1> QED BY <1>3, <1>4, <1>5, <1>6 DEF CountedAt, ChainRecord

\* A log cut before a checkpoint of its first segment does not match it, and
\* what is left has no later one.
LEMMA CutsShow ==
    ASSUME NEW l, Intact(l), SoundLines(l), NEW k \in Checkpoints(l),
           \A i \in Breaks(l) : i > k, NEW n \in 0..(k - 1), NEW mode
    PROVE  verifyCompleteness(SubSeq(l, 1, n), l[k], mode).truncated
<1>1. PICK L \in Nat : L = Len(l)  BY LenProperties DEF Intact
<1>2. DOMAIN l = 1..L /\ l \in Seq(Line)  BY <1>1 DEF Intact
<1>3. k \in 1..L  BY <1>2 DEF Checkpoints
<1>4. PICK p : p = SubSeq(l, 1, n)  OBVIOUS
<1>5. Len(p) = n /\ p \in Seq(Line) /\ \A i \in 1..n : p[i] = l[i]
  BY <1>1, <1>2, <1>3, <1>4
<1>6. DOMAIN p = 1..n  BY <1>3, <1>5
<1>7. ASSUME NEW i \in DOMAIN p, isCheckpoint(p[i])
      PROVE  p[i].sequence < l[k].sequence /\ p[i].sequence \in Nat /\ l[k].sequence \in Nat
  <2>1. i \in 1..L /\ i < k /\ p[i] = l[i]  BY <1>3, <1>5, <1>6
  <2>2. i \in Checkpoints(l)  BY <1>2, <1>7, <2>1 DEF Checkpoints
  <2>3. \A x \in i..k : x \notin Breaks(l)  BY <1>3, <2>1
  <2> QED BY <2>1, <2>2, <2>3, SequencesGrow
<1>8. {i \in DOMAIN p : MatchesExternal(p[i], l[k])} = {}
  BY <1>7 DEF MatchesExternal
<1>9. ~\E i \in Checkpoints(p) : p[i].sequence > l[k].sequence
  BY <1>7 DEF Checkpoints
<1>10. verifyCompleteness(p, l[k], mode) = Truncated("head_missing")
  BY <1>8, <1>9 DEF verifyCompleteness
<1> QED BY <1>4, <1>10 DEF Truncated

\* A log that is cut before a checkpoint of its first segment is reported, for
\* every cut and every such checkpoint, whatever the run has been.
THEOREM TruncationIsDetected ==
    ASSUME OneRun
    PROVE  Spec => []TruncationDetected
<1>1. Init => OrderInv /\ RunInv  BY OrderInit, RunInit
<1>2. TypeOK /\ OrderInv /\ RunInv /\ [Next]_vars => OrderInv' /\ RunInv'
  BY OrderStep, RunStep DEF OrderInv
<1>3. TypeOK /\ OrderInv /\ RunInv => TruncationDetected
  BY RunIntact, CutsShow DEF TruncationDetected, Unbroken
<1> QED BY <1>1, <1>2, <1>3, TypeCorrect, PTL DEF Spec

\* What verifyAuditLog expects a line to name: the last line before it that
\* was read as a record.
LEMMA ExpectedIs ==
    ASSUME NEW l, NEW sig, NEW i \in Nat, NEW h \in 0..(i - 1),
           h # 0 => Advances(l, sig, h), \A j \in (h + 1)..(i - 1) : ~Advances(l, sig, j)
    PROVE  ExpectedPrevHash(l, sig, i) = IF h = 0 THEN genesis ELSE hashRecord(l[h])
<1>1. PICK passed : passed = {j \in 1..(i - 1) : Advances(l, sig, j)}  OBVIOUS
<1>2. ASSUME h = 0 PROVE passed = {}  BY <1>1, <1>2
<1>3. ASSUME h # 0 PROVE passed # {} /\ Max(passed) = h
  <2>1. h \in passed  BY <1>1, <1>3
  <2>2. passed \in SUBSET (1..(i - 1)) /\ passed \in SUBSET Int  BY <1>1
  <2>3. IsFiniteSet(passed)
    <3>1. IsFiniteSet(1..(i - 1))  BY FS_Interval
    <3> QED BY <2>2, <3>1, FS_Subset
  <2>4. Max(passed) \in passed /\ Max(passed) >= h  BY <2>1, <2>2, <2>3, MaxIsGreatest
  <2>5. Max(passed) \notin (h + 1)..(i - 1)  BY <1>1, <2>4
  <2>6. Max(passed) \in 1..(i - 1)  BY <2>2, <2>4
  <2> QED BY <2>1, <2>4, <2>5, <2>6
<1>4. ExpectedPrevHash(l, sig, i) =
         IF passed = {} THEN genesis ELSE hashRecord(l[Max(passed)])
  BY <1>1 DEF ExpectedPrevHash, hashLine
<1> QED BY <1>2, <1>3, <1>4

\* With nothing wrong on the lines before it, that is the line before.
LEMMA ExpectedIsBefore ==
    ASSUME NEW l, NEW sig, NEW i \in Nat \ {0}, i # 1 => Advances(l, sig, i - 1)
    PROVE  ExpectedPrevHash(l, sig, i) = HashBefore(l, i)
<1>1. i - 1 \in 0..(i - 1) /\ (i - 1) + 1 > i - 1  OBVIOUS
<1>2. \A j \in ((i - 1) + 1)..(i - 1) : ~Advances(l, sig, j)  OBVIOUS
<1>3. i - 1 # 0 => Advances(l, sig, i - 1)  OBVIOUS
<1>4. ExpectedPrevHash(l, sig, i) = IF i - 1 = 0 THEN genesis ELSE hashRecord(l[i - 1])
  BY <1>1, <1>2, <1>3, ExpectedIs
<1> QED BY <1>4 DEF HashBefore

\* What a line of a sound log names.
LEMMA NamesBefore ==
    ASSUME NEW l, Intact(l), SoundLines(l), NEW i \in DOMAIN l, ~isChainBreak(l[i])
    PROVE  l[i].previousHash = HashBefore(l, i) /\ HashBefore(l, i) \in Nat
<1>1. PICK n \in Nat : n = Len(l)  BY LenProperties DEF Intact
<1>2. DOMAIN l = 1..n  BY <1>1 DEF Intact
<1>3. i # 1 => i - 1 \in DOMAIN l  BY <1>2
<1>4. i # 1 => hashRecord(l[i - 1]) \in Nat  BY <1>3, IntactRecords
<1> QED BY <1>4 DEF SoundLines, LinkedAt, HashBefore, genesis

\* The chain verifiers object to chain breaks and to nothing else.
LEMMA LinksVerify ==
    ASSUME NEW l, Intact(l), SoundLines(l)
    PROVE  /\ verifyChainLines(l) = Breaks(l) \ {1}
           /\ verifyAuditLog(l, Valid(l)) = Breaks(l)
<1>1. PICK n \in Nat : n = Len(l)  BY LenProperties DEF Intact
<1>2. DOMAIN l = 1..n  BY <1>1 DEF Intact
<1>3. ASSUME NEW i \in 1..n PROVE i \in verifyChainLines(l) <=> i \in Breaks(l) \ {1}
  <2>1. Parses(l[i])  BY <1>2, IntactRecords
  <2>2. ASSUME ~isChainBreak(l[i]) PROVE LinkOK(l, i)
    BY <1>2, <2>2, NamesBefore DEF LinkOK, HashBefore, hashLine
  <2>3. ASSUME isChainBreak(l[i]) PROVE LinkOK(l, i) <=> i = 1
    BY <2>3 DEF LinkOK
  <2> QED BY <1>2, <2>1, <2>2, <2>3 DEF verifyChainLines, Breaks
<1>4. ASSUME NEW i \in 1..n PROVE i \in verifyAuditLog(l, Valid(l)) <=> i \in Breaks(l)
  <2>1. Parses(l[i]) /\ Valid(l)[i] = "valid"  BY <1>2, IntactRecords DEF Valid
  <2>2. ExpectedPrevHash(l, Valid(l), i) = HashBefore(l, i)
    <3>1. i # 1 => i - 1 \in DOMAIN l  BY <1>2
    <3>2. i # 1 => Advances(l, Valid(l), i - 1)  BY <3>1, IntactRecords DEF Advances, Valid
    <3> QED BY <3>2, ExpectedIsBefore
  <2>3. ASSUME ~isChainBreak(l[i])
        PROVE  l[i].previousHash # Undefined
               /\ l[i].previousHash = ExpectedPrevHash(l, Valid(l), i)
    BY <1>2, <2>2, <2>3, NamesBefore DEF Undefined
  <2>4. ASSUME isChainBreak(l[i]) PROVE l[i].previousHash = Undefined
    BY <1>2, <2>4 DEF SoundLines, LinkedAt
  <2> QED BY <1>2, <2>1, <2>3, <2>4 DEF verifyAuditLog, Breaks
<1>5. /\ verifyChainLines(l) \subseteq 1..n /\ verifyAuditLog(l, Valid(l)) \subseteq 1..n
      /\ Breaks(l) \subseteq 1..n
  BY <1>2 DEF verifyChainLines, verifyAuditLog, Breaks
<1> QED BY <1>3, <1>4, <1>5

\* The records between two neighbouring checkpoints of the last segment are
\* as many as the difference of their counts.
LEMMA DeltasRight ==
    ASSUME NEW l, Intact(l), SoundLines(l)
    PROVE  ~DeltaWrong(l)
<1>1. PICK n \in Nat : n = Len(l)  BY LenProperties DEF Intact
<1>2. DOMAIN l = 1..n /\ l \in Seq(Line)  BY <1>1 DEF Intact
<1>3. PICK s : s = SegmentStart(l)  OBVIOUS
<1>4. /\ s \in 1..(n + 1)
      /\ \A k \in s..(n + 1) : SegmentBefore(l, k) = s..(k - 1)
  BY <1>1, <1>2, <1>3, SegmentIsRest
<1>5. SUFFICES ASSUME NEW i \in SegmentCheckpoints(l), NEW j \in SegmentCheckpoints(l),
                      AdjacentCheckpoints(l, i, j)
               PROVE  NonCheckpoints(l, i + 1, j - 1) = l[j].recordCount - l[i].recordCount
  BY DEF DeltaWrong
<1>6. /\ i \in s..n /\ j \in s..n /\ isCheckpoint(l[i]) /\ isCheckpoint(l[j]) /\ i < j
      /\ i \in 1..n /\ j \in 1..n
  <2>1. i \in 1..n /\ j \in 1..n /\ i >= s /\ j >= s /\ isCheckpoint(l[i]) /\ isCheckpoint(l[j])
    BY <1>2, <1>3 DEF SegmentCheckpoints, Checkpoints
  <2>2. i < j  BY <1>5 DEF AdjacentCheckpoints
  <2> QED BY <1>4, <2>1, <2>2
<1> DEFINE A == Others(l, i)
           D == {x \in (i + 1)..(j - 1) : ~isCheckpoint(l[x])}
           B == Others(l, j)
<1>7. l[i].recordCount = Cardinality(A) /\ l[j].recordCount = Cardinality(B)
  BY <1>2, <1>6 DEF SoundLines, CountedAt
<1>8. A = {x \in s..(i - 1) : ~isCheckpoint(l[x])}
      /\ B = {x \in s..(j - 1) : ~isCheckpoint(l[x])}
  <2>1. i \in s..(n + 1) /\ j \in s..(n + 1)  BY <1>6
  <2> QED BY <1>4, <2>1 DEF Others
<1>9. B = A \cup D /\ A \cap D = {}
  <2>1. \A x : x \in s..(j - 1) <=> x \in s..(i - 1) \/ x = i \/ x \in (i + 1)..(j - 1)
    BY <1>4, <1>6
  <2>2. \A x \in s..(i - 1) : x \notin (i + 1)..(j - 1)  BY <1>4, <1>6
  <2> QED BY <1>6, <1>8, <2>1, <2>2
<1>10. IsFiniteSet(A) /\ IsFiniteSet(D) /\ Cardinality(A) \in Nat /\ Cardinality(D) \in Nat
  <2>1. IsFiniteSet(A) /\ Cardinality(A) \in Nat  BY <1>6, SegmentFinite
  <2>2. IsFiniteSet((i + 1)..(j - 1)) /\ D \in SUBSET ((i + 1)..(j - 1))  BY <1>6, FS_Interval
  <2>3. IsFiniteSet(D)  BY <2>2, FS_Subset
  <2> QED BY <2>1, <2>3, FS_CardinalityType
<1>11. NonCheckpoints(l, i + 1, j - 1) = Cardinality(D)  BY DEF NonCheckpoints
<1> HIDE DEF A, B, D
<1>12. Cardinality(B) = Cardinality(A) + Cardinality(D)
  <2>1. Cardinality(A \cup D) = Cardinality(A) + Cardinality(D) - Cardinality(A \cap D)
    BY <1>10, FS_Union
  <2>2. Cardinality(A \cap D) = 0  BY <1>9, FS_EmptySet
  <2> QED BY <1>9, <1>10, <2>1, <2>2
<1> QED BY <1>7, <1>10, <1>11, <1>12

\* So are those before the first of them.
LEMMA AnchorRight ==
    ASSUME NEW l, Intact(l), SoundLines(l)
    PROVE  ~AnchorWrong(l)
<1>1. PICK n \in Nat : n = Len(l)  BY LenProperties DEF Intact
<1>2. DOMAIN l = 1..n /\ l \in Seq(Line)  BY <1>1 DEF Intact
<1>3. PICK s : s = SegmentStart(l)  OBVIOUS
<1>4. /\ s \in 1..(n + 1)
      /\ \A k \in s..(n + 1) : NonCheckpoints(l, s, k - 1) = Cardinality(Others(l, k))
  BY <1>1, <1>2, <1>3, SegmentIsRest
<1>5. SUFFICES ASSUME SegmentCheckpoints(l) # {}
               PROVE  NonCheckpoints(l, s, Min(SegmentCheckpoints(l)) - 1)
                         = l[Min(SegmentCheckpoints(l))].recordCount
  BY <1>3 DEF AnchorWrong
<1>6. SegmentCheckpoints(l) \in SUBSET (1..n)
  BY <1>2 DEF SegmentCheckpoints, Checkpoints
<1>7. PICK first : first = Min(SegmentCheckpoints(l))  OBVIOUS
<1>8. first \in SegmentCheckpoints(l)
  <2>1. IsFiniteSet(SegmentCheckpoints(l))  BY <1>1, <1>6, PlacesFinite
  <2>2. SegmentCheckpoints(l) \in SUBSET Int  BY <1>6
  <2> QED BY <1>5, <1>7, <2>1, <2>2, MinIsLeast
<1>9. first \in 1..n /\ first >= s /\ isCheckpoint(l[first])
  BY <1>2, <1>3, <1>8 DEF SegmentCheckpoints, Checkpoints
<1>10. first \in s..(n + 1)  BY <1>4, <1>9
<1>11. l[first].recordCount = Cardinality(Others(l, first))
  BY <1>2, <1>9 DEF SoundLines, CountedAt
<1> QED BY <1>4, <1>7, <1>10, <1>11

\* Every checkpoint stands as an external anchor in relative mode, and in
\* strict mode while there is no chain_break.
LEMMA AnchorsStand ==
    ASSUME NEW l, Intact(l), SoundLines(l), NEW k \in Checkpoints(l)
    PROVE  /\ ~verifyCompleteness(l, l[k], "relative").truncated
           /\ Breaks(l) = {} => ~verifyCompleteness(l, l[k], "strict").truncated
<1>1. PICK n \in Nat : n = Len(l)  BY LenProperties DEF Intact
<1>2. DOMAIN l = 1..n /\ l \in Seq(Line)  BY <1>1 DEF Intact
<1>3. PICK found : found = {i \in DOMAIN l : MatchesExternal(l[i], l[k])}  OBVIOUS
<1>4. k \in found /\ found \in SUBSET (1..n)
  BY <1>2, <1>3 DEF Checkpoints, MatchesExternal
<1>5. ~checkSequenceRegression(l)
  <2> SUFFICES ASSUME NEW i \in Checkpoints(l), NEW j \in Checkpoints(l),
                      AdjacentCheckpoints(l, i, j)
               PROVE  ~Regresses(l[i], l[j])
    BY DEF checkSequenceRegression
  <2>1. i \in 1..n /\ j \in 1..n /\ isCheckpoint(l[i]) /\ isCheckpoint(l[j])
    BY <1>2 DEF Checkpoints
  <2>2. i < j /\ \A x \in (i + 1)..(j - 1) : x \notin Breaks(l)
    BY DEF AdjacentCheckpoints
  <2>3. i \notin Breaks(l) /\ j \notin Breaks(l)
    BY <1>2, <2>1, IntactRecords DEF Breaks
  <2>4. \A x \in i..j : x = i \/ x = j \/ x \in (i + 1)..(j - 1)  BY <2>1
  <2>5. \A x \in i..j : x \notin Breaks(l)  BY <2>2, <2>3, <2>4
  <2> QED BY <2>2, <2>5, SequencesGrow DEF Regresses
<1>6. \A mode : ~verifyAdjacentDeltas(l, mode)
  BY DeltasRight, AnchorRight DEF verifyAdjacentDeltas
<1>7. ASSUME Breaks(l) = {}
      PROVE  NonCheckpoints(l, 1, Min(found) - 1) = l[Min(found)].recordCount
  <2>1. PICK first : first = Min(found)  OBVIOUS
  <2>2. first \in found
    <3>1. IsFiniteSet(found)  BY <1>1, <1>4, PlacesFinite
    <3>2. found \in SUBSET Int /\ found # {}  BY <1>4
    <3> QED BY <2>1, <3>1, <3>2, MinIsLeast
  <2>3. first \in 1..n /\ isCheckpoint(l[first])
    BY <1>3, <1>4, <2>2 DEF MatchesExternal
  <2>4. Others(l, first) = {j \in 1..(first - 1) : ~isCheckpoint(l[j])}
    <3>1. ASSUME NEW i \in 1..(first - 1), NEW j \in i..(first - 1) PROVE ~isChainBreak(l[j])
      <4>1. j \in 1..n  BY <2>3
      <4> QED BY <1>2, <1>7, <4>1 DEF Breaks
    <3>2. SegmentBefore(l, first) = 1..(first - 1)  BY <3>1 DEF SegmentBefore
    <3> QED BY <3>2 DEF Others
  <2>5. l[first].recordCount = Cardinality(Others(l, first))
    BY <1>2, <2>3 DEF SoundLines, CountedAt
  <2> QED BY <2>1, <2>4, <2>5 DEF NonCheckpoints
<1>8. found # {}  BY <1>4
<1>9. verifyCompleteness(l, l[k], "relative") = Complete(FALSE)
  BY <1>3, <1>5, <1>6, <1>8 DEF verifyCompleteness
<1>10. ASSUME Breaks(l) = {} PROVE verifyCompleteness(l, l[k], "strict") = Complete(TRUE)
  BY <1>3, <1>5, <1>6, <1>7, <1>8, <1>10 DEF verifyCompleteness
<1> QED BY <1>9, <1>10 DEF Complete

\* What a run has written verifies at every moment: verifyChainLines objects
\* to nothing but a chain_break inside the log, verifyAuditLog to nothing but
\* a chain_break, and every checkpoint stands as an external anchor, whatever
\* writes, renames and state saves have failed and wherever a crash ended it.
THEOREM HonestLogsVerify ==
    ASSUME OneRun
    PROVE  Spec => []HonestLogVerifies
<1>1. Init => OrderInv /\ RunInv  BY OrderInit, RunInit
<1>2. TypeOK /\ OrderInv /\ RunInv /\ [Next]_vars => OrderInv' /\ RunInv'
  BY OrderStep, RunStep DEF OrderInv
<1>3. TypeOK /\ OrderInv /\ RunInv => HonestLogVerifies
  <2> SUFFICES ASSUME TypeOK, OrderInv, RunInv PROVE HonestLogVerifies  OBVIOUS
  <2>1. Intact(lines) /\ SoundLines(lines)  BY RunIntact
  <2>2. Unbroken(Len(lines)) => Breaks(lines) = {}
    <3>1. PICK n \in Nat : n = Len(lines)  BY LenProperties DEF TypeOK
    <3>2. Breaks(lines) \subseteq 1..n  BY <3>1 DEF Breaks, TypeOK
    <3> QED BY <3>1, <3>2 DEF Unbroken
  <2> QED BY <2>1, <2>2, LinksVerify, AnchorsStand DEF HonestLogVerifies
<1> QED BY <1>1, <1>2, <1>3, TypeCorrect, PTL DEF Spec

-----------------------------------------------------------------------------
(* Damage                                                                  *)

\* What one line of a sound log without breaks expects before it: its own hash
\* and no other, and nothing else has that hash.
LEMMA NamesOnlyBefore ==
    ASSUME NEW l, Intact(l), SoundLines(l), Breaks(l) = {}, NEW i \in DOMAIN l
    PROVE  /\ ~isChainBreak(l[i]) /\ Parses(l[i])
           /\ l[i].previousHash = HashBefore(l, i) /\ l[i].previousHash # Undefined
           /\ l[i].previousHash # hashRecord(TornLine)
           /\ i # 1 => /\ l[i].previousHash # genesis
                       /\ \A j \in 1..(i - 2) : l[i].previousHash # hashRecord(l[j])
<1>1. PICK n \in Nat : n = Len(l)  BY LenProperties DEF Intact
<1>2. DOMAIN l = 1..n  BY <1>1 DEF Intact
<1>3. ~isChainBreak(l[i]) /\ Parses(l[i])  BY IntactRecords DEF Breaks
<1>4. l[i].previousHash = HashBefore(l, i) /\ HashBefore(l, i) \in Nat  BY <1>3, NamesBefore
<1>5. ASSUME i # 1
      PROVE  /\ l[i].previousHash # genesis
             /\ \A j \in 1..(i - 2) : l[i].previousHash # hashRecord(l[j])
  <2>1. i - 1 \in 1..n  BY <1>2, <1>5
  <2>2. HashBefore(l, i) = hashRecord(l[i - 1]) /\ hashRecord(l[i - 1]) \in Nat \ {genesis}
    BY <1>2, <1>5, <2>1, IntactRecords DEF HashBefore
  <2>3. ASSUME NEW j \in 1..(i - 2) PROVE hashRecord(l[j]) # hashRecord(l[i - 1])
    <3>1. j \in 1..n /\ j < i - 1  BY <1>2, <2>1
    <3>2. hashRecord(l[j]) < hashRecord(l[i - 1])  BY <1>2, <2>1, <3>1 DEF Intact
    <3>3. hashRecord(l[j]) \in Nat  BY <1>2, <3>1, IntactRecords
    <3> QED BY <2>2, <3>2, <3>3
  <2> QED BY <1>4, <2>2, <2>3
<1>6. hashRecord(TornLine) = -2  BY DEF hashRecord, TornLine, NoHash
<1> QED BY <1>3, <1>4, <1>5, <1>6 DEF Undefined

\* The verdicts on records none of which is a chain_break: a line is reported
\* if it does not name the line before it.
LEMMA VerdictOnRecords ==
    ASSUME NEW m \in Seq(Line),
           \A i \in DOMAIN m : Parses(m[i]) /\ ~isChainBreak(m[i]) /\ m[i].previousHash # Undefined
    PROVE  LET misled == {i \in DOMAIN m : m[i].previousHash # HashBefore(m, i)}
           IN  verifyChainLines(m) = misled /\ verifyAuditLog(m, Valid(m)) = misled
<1>1. PICK n \in Nat : n = Len(m)  BY LenProperties
<1>2. DOMAIN m = 1..n  BY <1>1
<1>3. ASSUME NEW i \in 1..n
      PROVE  i \in verifyChainLines(m) <=> m[i].previousHash # HashBefore(m, i)
  BY <1>2 DEF verifyChainLines, LinkOK, HashBefore, hashLine
<1>4. ASSUME NEW i \in 1..n
      PROVE  i \in verifyAuditLog(m, Valid(m)) <=> m[i].previousHash # HashBefore(m, i)
  <2>1. ExpectedPrevHash(m, Valid(m), i) = HashBefore(m, i)
    <3>1. i # 1 => i - 1 \in DOMAIN m  BY <1>2
    <3>2. i # 1 => Advances(m, Valid(m), i - 1)  BY <3>1 DEF Advances, Valid
    <3> QED BY <3>2, ExpectedIsBefore
  <2>2. Valid(m)[i] = "valid"  BY <1>2 DEF Valid
  <2> QED BY <1>2, <2>1, <2>2 DEF verifyAuditLog
<1>5. verifyChainLines(m) \subseteq 1..n /\ verifyAuditLog(m, Valid(m)) \subseteq 1..n
  BY <1>2 DEF verifyChainLines, verifyAuditLog
<1>6. {i \in DOMAIN m : m[i].previousHash # HashBefore(m, i)} =
         {i \in 1..n : m[i].previousHash # HashBefore(m, i)}
  BY <1>2
<1> QED BY <1>3, <1>4, <1>5, <1>6

\* Lines that are gone are reported where the gap closes.
LEMMA GapFound ==
    ASSUME NEW l, Intact(l), SoundLines(l), Breaks(l) = {},
           NEW lo \in DOMAIN l, NEW hi \in DOMAIN l, lo <= hi
    PROVE  LET rest == SubSeq(l, 1, lo - 1) \o SubSeq(l, hi + 1, Len(l))
               gap  == IF hi < Len(l) THEN {lo} ELSE {}
           IN  verifyChainLines(rest) = gap /\ verifyAuditLog(rest, Valid(rest)) = gap
<1>1. PICK n \in Nat : n = Len(l)  BY LenProperties DEF Intact
<1>2. DOMAIN l = 1..n /\ l \in Seq(Line)  BY <1>1 DEF Intact
<1>3. lo \in 1..n /\ hi \in 1..n  BY <1>2
<1>4. PICK a, b, m : /\ a = SubSeq(l, 1, lo - 1) /\ b = SubSeq(l, hi + 1, n)
                     /\ m = a \o b
  OBVIOUS
<1>5. a \in Seq(Line) /\ Len(a) = lo - 1 /\ \A i \in 1..(lo - 1) : a[i] = l[i]
  <2>1. \A i \in 1..(lo - 1) : l[i] \in Line  BY <1>2, <1>3, ElementOfSeq
  <2>2. 1 \in Int /\ lo - 1 \in Int  BY <1>3
  <2>3. /\ a \in Seq(Line) /\ Len(a) = IF 1 <= lo - 1 THEN lo - 1 - 1 + 1 ELSE 0
        /\ \A i \in 1..(lo - 1 - 1 + 1) : a[i] = l[1 + i - 1]
    BY <1>4, <2>1, <2>2, SubSeqProperties
  <2> QED BY <1>3, <2>3
<1>6. b \in Seq(Line) /\ Len(b) = n - hi /\ \A i \in 1..(n - hi) : b[i] = l[hi + i]
  <2>1. \A i \in (hi + 1)..n : l[i] \in Line  BY <1>2, <1>3, ElementOfSeq
  <2>2. hi + 1 \in Int /\ n \in Int  BY <1>3
  <2>3. /\ b \in Seq(Line) /\ Len(b) = IF hi + 1 <= n THEN n - (hi + 1) + 1 ELSE 0
        /\ \A i \in 1..(n - (hi + 1) + 1) : b[i] = l[hi + 1 + i - 1]
    BY <1>4, <2>1, <2>2, SubSeqProperties
  <2> QED BY <1>3, <2>3
<1> DEFINE left == (lo - 1) + (n - hi)
           at(i) == IF i < lo THEN i ELSE i + (hi - lo + 1)
<1>7. /\ left \in Nat /\ left = Len(a) + Len(b) /\ lo - 1 <= left /\ (lo \in 1..left <=> hi < n)
      /\ \A i \in 1..left : i < lo => at(i) = i
      /\ \A i \in 1..left : ~(i < lo) => at(i) = i + (hi - lo + 1)
      /\ \A i \in 1..left : at(i) \in 1..n
  <2>1. Len(a) = lo - 1 /\ Len(b) = n - hi  BY <1>5, <1>6
  <2>2. left \in Nat /\ left = Len(a) + Len(b) /\ lo - 1 <= left /\ (lo \in 1..left <=> hi < n)
    BY <1>3, <2>1
  <2>3. ASSUME NEW i \in 1..left
        PROVE  /\ i < lo => at(i) = i /\ i \in 1..n
               /\ ~(i < lo) => at(i) = i + (hi - lo + 1) /\ i + (hi - lo + 1) \in 1..n
    BY <1>3
  <2> HIDE DEF left, at
  <2> QED BY <2>2, <2>3
<1> HIDE DEF left, at
<1>8. /\ m \in Seq(Line) /\ Len(m) = left /\ DOMAIN m = 1..left
      /\ \A i \in 1..left : m[i] = l[at(i)]
  <2>1. /\ a \o b \in Seq(Line) /\ Len(a \o b) = Len(a) + Len(b)
        /\ \A i \in 1..(Len(a) + Len(b)) :
              (a \o b)[i] = IF i <= Len(a) THEN a[i] ELSE b[i - Len(a)]
    BY <1>5, <1>6, ConcatProperties
  <2>2. m \in Seq(Line) /\ Len(m) = left /\ DOMAIN m = 1..left  BY <1>4, <1>7, <2>1
  <2>3. ASSUME NEW i \in 1..left PROVE m[i] = l[at(i)]
    <3>1. m[i] = IF i <= Len(a) THEN a[i] ELSE b[i - Len(a)]  BY <1>4, <1>7, <2>1
    <3>2. CASE i < lo
      <4>1. i \in 1..(lo - 1) /\ i <= Len(a)  BY <1>3, <1>5, <1>7, <3>2
      <4>2. a[i] = l[i]  BY <1>5, <4>1
      <4> QED BY <1>7, <3>1, <3>2, <4>1, <4>2
    <3>3. CASE ~(i < lo)
      <4>1. PICK j : j = i - (lo - 1)  OBVIOUS
      <4>2. Len(a) = lo - 1 /\ Len(b) = n - hi  BY <1>5, <1>6
      <4>3. i \in 1..((lo - 1) + (n - hi))  BY <1>7, <4>2
      <4>4. j \in 1..(n - hi) /\ ~(i <= lo - 1) /\ hi + j = i + (hi - lo + 1)
        BY <1>3, <3>3, <4>1, <4>3
      <4>5. ~(i <= Len(a)) /\ j = i - Len(a)  BY <4>1, <4>2, <4>4
      <4>6. m[i] = b[j] /\ b[j] = l[hi + j]  BY <1>6, <3>1, <4>4, <4>5
      <4> QED BY <1>7, <3>3, <4>4, <4>6
    <3> QED BY <3>2, <3>3
  <2> QED BY <2>2, <2>3
<1>9. ASSUME NEW i \in 1..left
      PROVE  Parses(m[i]) /\ ~isChainBreak(m[i]) /\ m[i].previousHash # Undefined
  <2>1. PICK j : j \in DOMAIN l /\ m[i] = l[j]  BY <1>2, <1>7, <1>8
  <2> QED BY <2>1, NamesOnlyBefore
<1>10. ASSUME NEW i \in 1..left PROVE m[i].previousHash # HashBefore(m, i) <=> i = lo
  <2>0. PICK j : j = at(i)  OBVIOUS
  <2>1. j \in 1..n /\ m[i] = l[j]  BY <1>7, <1>8, <2>0
  <2>2. /\ l[j].previousHash = HashBefore(l, j)
        /\ j # 1 => /\ l[j].previousHash # genesis
                    /\ \A k \in 1..(j - 2) : l[j].previousHash # hashRecord(l[k])
    BY <1>2, <2>1, NamesOnlyBefore
  <2>3. CASE i < lo
    <3>1. j = i  BY <1>7, <2>0, <2>3
    <3>2. i # 1 => i - 1 \in 1..left /\ i - 1 < lo  BY <1>3, <1>7, <2>3
    <3>3. i # 1 => m[i - 1] = l[i - 1]  BY <1>7, <1>8, <3>2
    <3>4. HashBefore(m, i) = HashBefore(l, j)  BY <3>1, <3>3 DEF HashBefore
    <3> QED BY <1>3, <2>1, <2>2, <2>3, <3>4
  <2>4. CASE i = lo
    <3>1. j = hi + 1 /\ j # 1  BY <1>3, <1>7, <2>0, <2>4
    <3>2. CASE i = 1
      <4>1. HashBefore(m, i) = genesis  BY <3>2 DEF HashBefore
      <4> QED BY <2>1, <2>2, <2>4, <3>1, <4>1
    <3>3. CASE i # 1
      <4>1. lo - 1 \in 1..left /\ lo - 1 < lo /\ lo - 1 \in 1..(j - 2)
        BY <1>3, <1>7, <2>4, <3>1, <3>3
      <4>2. m[lo - 1] = l[lo - 1]  BY <1>7, <1>8, <4>1
      <4>3. HashBefore(m, i) = hashRecord(l[lo - 1])  BY <2>4, <3>3, <4>2 DEF HashBefore
      <4> QED BY <2>1, <2>2, <2>4, <3>1, <4>1, <4>3
    <3> QED BY <3>2, <3>3
  <2>5. CASE i > lo
    <3>1. j = i + (hi - lo + 1) /\ j # 1 /\ i # 1  BY <1>3, <1>7, <2>0, <2>5
    <3>2. i - 1 \in 1..left /\ ~(i - 1 < lo) /\ (i - 1) + (hi - lo + 1) = j - 1
      BY <1>3, <1>7, <2>5, <3>1
    <3>3. m[i - 1] = l[j - 1]
      <4>1. m[i - 1] = l[at(i - 1)]  BY <1>8, <3>2
      <4>2. at(i - 1) = j - 1  BY <1>7, <3>2
      <4> QED BY <4>1, <4>2
    <3>4. HashBefore(m, i) = HashBefore(l, j)  BY <3>1, <3>3 DEF HashBefore
    <3> QED BY <1>3, <2>1, <2>2, <2>5, <3>4
  <2> QED BY <1>3, <2>3, <2>4, <2>5
<1>11. {i \in DOMAIN m : m[i].previousHash # HashBefore(m, i)} = IF hi < n THEN {lo} ELSE {}
  <2>1. {i \in DOMAIN m : m[i].previousHash # HashBefore(m, i)} = {i \in 1..left : i = lo}
    BY <1>8, <1>10
  <2> QED BY <1>7, <2>1
<1>12. /\ verifyChainLines(m) = IF hi < n THEN {lo} ELSE {}
       /\ verifyAuditLog(m, Valid(m)) = IF hi < n THEN {lo} ELSE {}
  <2>1. \A i \in DOMAIN m : Parses(m[i]) /\ ~isChainBreak(m[i]) /\ m[i].previousHash # Undefined
    BY <1>8, <1>9
  <2> QED BY <1>8, <1>11, <2>1, VerdictOnRecords
<1> QED BY <1>1, <1>4, <1>12

\* A line that can not be read is reported, and so is the one after it, which
\* names a record that is gone.
LEMMA UnreadableFound ==
    ASSUME NEW l, Intact(l), SoundLines(l), Breaks(l) = {}, NEW h \in DOMAIN l
    PROVE  LET unreadable == [l EXCEPT ![h] = TornLine]
               around     == {h, h + 1} \cap DOMAIN l
           IN  /\ verifyChainLines(unreadable) = around
               /\ verifyAuditLog(unreadable, Valid(l)) = around
<1>1. PICK n \in Nat : n = Len(l)  BY LenProperties DEF Intact
<1>2. DOMAIN l = 1..n /\ h \in 1..n  BY <1>1 DEF Intact
<1>3. PICK m : m = [l EXCEPT ![h] = TornLine]  OBVIOUS
<1>4. DOMAIN m = 1..n /\ m[h] = TornLine /\ \A i \in 1..n : i # h => m[i] = l[i]
  BY <1>2, <1>3
<1>5. /\ ~Parses(TornLine) /\ ~isChainBreak(TornLine)
  BY DEF Parses, isChainBreak, TornLine
<1>6. \A i \in 1..n :
         /\ ~isChainBreak(l[i]) /\ Parses(l[i])
         /\ l[i].previousHash = HashBefore(l, i) /\ l[i].previousHash # Undefined
         /\ l[i].previousHash # hashRecord(TornLine)
         /\ i # 1 => /\ l[i].previousHash # genesis
                     /\ \A j \in 1..(i - 2) : l[i].previousHash # hashRecord(l[j])
  BY <1>2, NamesOnlyBefore
<1>7. ASSUME NEW i \in 1..n PROVE i \in verifyChainLines(m) <=> i = h \/ i = h + 1
  <2>1. CASE i = h  BY <1>4, <1>5, <2>1 DEF verifyChainLines
  <2>2. CASE i = h + 1
    <3>1. m[i] = l[i] /\ i # 1 /\ m[i - 1] = TornLine  BY <1>2, <1>4, <2>2
    <3>2. ~LinkOK(m, i)  BY <1>6, <3>1 DEF LinkOK, hashLine
    <3> QED BY <1>4, <2>2, <3>2 DEF verifyChainLines
  <2>3. CASE i # h /\ i # h + 1
    <3>1. m[i] = l[i] /\ Parses(m[i])  BY <1>4, <1>6, <2>3
    <3>2. i # 1 => i - 1 \in 1..n /\ i - 1 # h  BY <1>2, <2>3
    <3>3. i # 1 => m[i - 1] = l[i - 1]  BY <1>4, <3>2
    <3>4. LinkOK(m, i)  BY <1>6, <3>1, <3>3 DEF LinkOK, HashBefore, hashLine
    <3> QED BY <1>4, <2>3, <3>1, <3>4 DEF verifyChainLines
  <2> QED BY <2>1, <2>2, <2>3
<1>8. \A j \in 1..n : Advances(m, Valid(l), j) <=> j # h
  BY <1>2, <1>4, <1>5, <1>6 DEF Advances, Valid
<1>9. ASSUME NEW i \in 1..n PROVE i \in verifyAuditLog(m, Valid(l)) <=> i = h \/ i = h + 1
  <2>1. Valid(l)[i] = "valid"  BY <1>2 DEF Valid
  <2>2. CASE i = h  BY <1>4, <1>5, <2>2 DEF verifyAuditLog
  <2>3. CASE i = h + 1
    <3>1. m[i] = l[i] /\ i # 1 /\ i \in Nat /\ h - 1 \in 0..(i - 1)  BY <1>2, <1>4, <2>3
    <3>2. h - 1 # 0 => Advances(m, Valid(l), h - 1)
      <4>1. h - 1 # 0 => h - 1 \in 1..n /\ h - 1 # h  BY <1>2
      <4> QED BY <1>8, <4>1
    <3>3. \A j \in ((h - 1) + 1)..(i - 1) : ~Advances(m, Valid(l), j)
      <4>1. \A j \in ((h - 1) + 1)..(i - 1) : j = h  BY <1>2, <2>3
      <4> QED BY <1>2, <1>8, <4>1
    <3>4. ExpectedPrevHash(m, Valid(l), i) =
             IF h - 1 = 0 THEN genesis ELSE hashRecord(m[h - 1])
      BY <3>1, <3>2, <3>3, ExpectedIs
    <3>5. h - 1 # 0 => h - 1 \in 1..n /\ h - 1 \in 1..(i - 2) /\ m[h - 1] = l[h - 1]
      BY <1>2, <1>4, <2>3
    <3>6. l[i].previousHash # ExpectedPrevHash(m, Valid(l), i)
      BY <1>6, <3>1, <3>4, <3>5
    <3> QED BY <1>4, <2>3, <3>1, <3>6 DEF verifyAuditLog
  <2>4. CASE i # h /\ i # h + 1
    <3>1. m[i] = l[i] /\ Parses(m[i])  BY <1>4, <1>6, <2>4
    <3>2. i # 1 => i - 1 \in 1..n /\ i - 1 # h  BY <1>2, <2>4
    <3>3. i # 1 => m[i - 1] = l[i - 1]  BY <1>4, <3>2
    <3>4. ExpectedPrevHash(m, Valid(l), i) = HashBefore(m, i)
      BY <1>8, <3>2, ExpectedIsBefore
    <3>5. HashBefore(m, i) = HashBefore(l, i)  BY <3>3 DEF HashBefore
    <3> QED BY <1>4, <1>6, <2>1, <2>4, <3>1, <3>4, <3>5 DEF verifyAuditLog
  <2> QED BY <2>2, <2>3, <2>4
<1>10. verifyChainLines(m) \subseteq 1..n /\ verifyAuditLog(m, Valid(l)) \subseteq 1..n
  BY <1>4 DEF verifyChainLines, verifyAuditLog
<1>11. \A i : i \in {h, h + 1} \cap DOMAIN l <=> i \in 1..n /\ (i = h \/ i = h + 1)
  BY <1>2
<1>12. /\ verifyChainLines(m) = {h, h + 1} \cap DOMAIN l
       /\ verifyAuditLog(m, Valid(l)) = {h, h + 1} \cap DOMAIN l
  BY <1>7, <1>9, <1>10, <1>11
<1> QED BY <1>3, <1>12

\* A signature that fails is reported at its own line, and the chain goes on
\* over that line.
LEMMA MismatchFound ==
    ASSUME NEW l, Intact(l), SoundLines(l), Breaks(l) = {}, NEW h \in DOMAIN l
    PROVE  verifyAuditLog(l, [Valid(l) EXCEPT ![h] = "mismatch"]) = {h}
<1>1. PICK n \in Nat : n = Len(l)  BY LenProperties DEF Intact
<1>2. DOMAIN l = 1..n /\ h \in 1..n  BY <1>1 DEF Intact
<1>3. PICK sig : sig = [Valid(l) EXCEPT ![h] = "mismatch"]  OBVIOUS
<1>4. sig[h] = "mismatch" /\ \A i \in 1..n : i # h => sig[i] = "valid"
  BY <1>2, <1>3 DEF Valid
<1>5. ASSUME NEW i \in 1..n PROVE i \in verifyAuditLog(l, sig) <=> i = h
  <2>1. /\ Parses(l[i]) /\ l[i].previousHash = HashBefore(l, i)
        /\ l[i].previousHash # Undefined
    BY <1>2, NamesOnlyBefore
  <2>2. i # 1 => i - 1 \in 1..n  OBVIOUS
  <2>3. \A j \in 1..n : Advances(l, sig, j)
    <3> SUFFICES ASSUME NEW j \in 1..n PROVE Advances(l, sig, j)  OBVIOUS
    <3>1. sig[j] # "missing"  BY <1>4
    <3>2. Parses(l[j])  BY <1>2, NamesOnlyBefore
    <3> QED BY <3>1, <3>2 DEF Advances
  <2>4. ExpectedPrevHash(l, sig, i) = HashBefore(l, i)
    BY <2>2, <2>3, ExpectedIsBefore
  <2> QED BY <1>2, <1>4, <2>1, <2>4 DEF verifyAuditLog
<1>6. verifyAuditLog(l, sig) \subseteq 1..n  BY <1>2 DEF verifyAuditLog
<1>7. verifyAuditLog(l, sig) = {h}  BY <1>2, <1>5, <1>6
<1> QED BY <1>3, <1>7

\* Damage to what a run without a chain_break has written is reported at its
\* place and nowhere else: lost lines where the gap closes, an unreadable line
\* at itself and at its successor, a bad signature at its own line.
THEOREM DamageIsLocated ==
    ASSUME OneRun
    PROVE  Spec => []DamageLocated
<1>1. Init => OrderInv /\ RunInv  BY OrderInit, RunInit
<1>2. TypeOK /\ OrderInv /\ RunInv /\ [Next]_vars => OrderInv' /\ RunInv'
  BY OrderStep, RunStep DEF OrderInv
<1>3. TypeOK /\ OrderInv /\ RunInv => DamageLocated
  <2> SUFFICES ASSUME TypeOK, OrderInv, RunInv, Unbroken(Len(lines)) PROVE DamageLocated
    BY DEF DamageLocated
  <2>1. Intact(lines) /\ SoundLines(lines)  BY RunIntact
  <2>2. Breaks(lines) = {}
    <3>1. PICK n \in Nat : n = Len(lines)  BY LenProperties DEF TypeOK
    <3>2. Breaks(lines) \subseteq 1..n  BY <3>1 DEF Breaks, TypeOK
    <3> QED BY <3>1, <3>2 DEF Unbroken
  <2> QED BY <2>1, <2>2, GapFound, UnreadableFound, MismatchFound DEF DamageLocated
<1> QED BY <1>1, <1>2, <1>3, TypeCorrect, PTL DEF Spec

=============================================================================
