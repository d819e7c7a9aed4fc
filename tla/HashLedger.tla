----------------------------- MODULE HashLedger -----------------------------
(***************************************************************************)
(* What the audit log promises, with no files, processes or queue: a       *)
(* ledger that only grows, one entry at a time.  An entry names the entry  *)
(* before it, or is a chain_break, which names the head it leaves behind   *)
(* and starts a new segment.  A checkpoint states how many other entries   *)
(* its segment holds so far, with a sequence number no earlier checkpoint  *)
(* of the segment reached.                                                 *)
(***************************************************************************)
EXTENDS ChainRecords, FiniteSets

VARIABLE ledger

Init == ledger = <<>>

ChainHead(l) == IF l = <<>> THEN genesis ELSE hashRecord(l[Len(l)])

\* An entry of its own: no other has its hash.
Fresh(l, r) == \A i \in DOMAIN l : hashRecord(l[i]) # hashRecord(r)

Linked(l, r) ==
    /\ Parses(r)
    /\ isChainBreak(r) \/ r.previousHash = ChainHead(l)

\* The positions after the last chain_break of l.
Segment(l) == {i \in DOMAIN l : \A j \in i..Len(l) : ~isChainBreak(l[j])}

Counted(l, r) ==
    /\ isCheckpoint(r) =>
          /\ r.recordCount = Cardinality({i \in Segment(l) : ~isCheckpoint(l[i])})
          /\ \A i \in Segment(l) : isCheckpoint(l[i]) => l[i].sequence < r.sequence
    /\ isChainBreak(r) =>
          r.priorHead = IF l = <<>> THEN Undefined ELSE ChainHead(l)

Grows == /\ Len(ledger') = Len(ledger) + 1
         /\ SubSeq(ledger', 1, Len(ledger)) = ledger

Newest == ledger'[Len(ledger')]

AppendLinked == Grows /\ Fresh(ledger, Newest) /\ Linked(ledger, Newest)

AppendEntry == AppendLinked /\ Counted(ledger, Newest)

\* The ledger with links only, and the whole promise.
LinkedSpec == Init /\ [][AppendLinked]_ledger
Spec == Init /\ [][AppendEntry]_ledger

=============================================================================
