---------------------------- MODULE AuditedCalls ----------------------------
(***************************************************************************)
(* What the gateway promises about the calls it serves, with no queue, no  *)
(* upstream and no catalog: records that are only ever added to, at most   *)
(* one for a call, and one answer to a call, which names the audit record  *)
(* exactly when there is one, and tells the outcome it tells.              *)
(***************************************************************************)
EXTENDS Sequences

CONSTANTS Calls, Outcomes

VARIABLES records, answer

NoAnswer == [audit |-> "none", outcome |-> "none"]

Answer(audit, o) == [audit |-> audit, outcome |-> o]

CallRecord(c, o) == [call |-> c, outcome |-> o]

Init ==
    /\ records = <<>>
    /\ answer = [c \in Calls |-> NoAnswer]

\* Neither recorded nor answered.
Open(c) ==
    /\ \A i \in DOMAIN records : records[i].call # c
    /\ answer[c] = NoAnswer

\* The record is written, and the call is answered with it unless the process
\* ends before that.
RecordCall(c, o) ==
    /\ Open(c)
    /\ records' = Append(records, CallRecord(c, o))
    /\ answer' \in {answer, [answer EXCEPT ![c] = Answer("recorded", o)]}

\* There is no record of a call whose answer names none.
AnswerUnrecorded(c, o) ==
    /\ Open(c)
    /\ answer' = [answer EXCEPT ![c] = Answer("unrecorded", o)]
    /\ UNCHANGED records

Next == \E c \in Calls, o \in Outcomes : RecordCall(c, o) \/ AnswerUnrecorded(c, o)

Spec == Init /\ [][Next]_<<records, answer>>

=============================================================================
