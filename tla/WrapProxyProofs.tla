--------------------------- MODULE WrapProxyProofs ---------------------------
(***************************************************************************)
(* Theorems about the wrap proxy, for every number of sessions and calls.  *)
(* Sessions at the same time, failed appends and exits at any point are    *)
(* allowed unless a theorem says otherwise.                                *)
(***************************************************************************)
EXTENDS WrapProxy, OperatorLemmas

-----------------------------------------------------------------------------
(* Types                                                                   *)

\* What a step is.
LEMMA NextCases ==
    ASSUME [Next]_vars
    PROVE  \/ UNCHANGED vars
           \/ \E s \in Sessions :
                 \/ Launch(s) \/ CreateKey(s) \/ AppendKey(s) \/ RestoreLastHash(s)
                 \/ ClientLine(s) \/ ServerResponse(s) \/ ServerRequest(s)
                 \/ SignEntry(s) \/ AppendEntry(s) \/ AppendFails(s) \/ Exit(s)
  BY DEF Next, Finished, Start, Handler, Write

\* A session is a number from 1 on, and the key of a session is not empty.
LEMMA SessionFacts ==
    /\ MaxCalls \in Nat /\ Sessions \subseteq Nat /\ Calls \subseteq Nat
    /\ Sessions \subseteq Keys /\ EmptyKey \in Keys
    /\ \A s \in Sessions : s # EmptyKey
  BY ConstantsAssumption DEF Sessions, Calls, Keys, EmptyKey

\* A signed entry is an entry.
LEMMA EntryType ==
    ASSUME NEW h \in Nat \ {genesis}, NEW prev \in Nat, NEW a \in Answer,
           NEW s \in Sessions, NEW k \in Keys
    PROVE  [record |-> AuditRecord(h, prev), answer |-> a, session |-> s, key |-> k] \in Entry
  BY DEF Entry, AuditRecord, ChainRecord, ChainRecordTypes, genesis, Undefined

\* The parts of an entry.
LEMMA EntryFacts ==
    ASSUME NEW e \in Entry
    PROVE  /\ e.answer \in Answer /\ e.session \in Sessions /\ e.key \in Keys
           /\ hashRecord(e.record) \in Nat \ {genesis}
  BY DEF Entry, ChainRecord, hashRecord

\* The hash a session starts with.
LEMMA RestoredHashType ==
    ASSUME log \in Seq(Entry)
    PROVE  RestoredHash \in Nat
<1>1. CASE log = <<>>  BY <1>1 DEF RestoredHash, genesis
<1>2. CASE log # <<>>
  <2>1. Len(log) \in 1..Len(log)  BY <1>2, EmptySeq
  <2>2. log[Len(log)] \in Entry  BY <2>1, ElementOfSeq
  <2> QED BY <1>2, <2>2, EntryFacts DEF RestoredHash, Last
<1> QED BY <1>1, <1>2

\* The key that is read is one of the file, unless the file has none.
LEMMA KeyInFileType ==
    ASSUME keyFile \in Seq(Sessions)
    PROVE  /\ KeyInFile \in Keys
           /\ KeyInFile # EmptyKey => \E i \in DOMAIN keyFile : keyFile[i] = KeyInFile
<1>1. CASE keyFile = <<>>  BY <1>1, SessionFacts DEF KeyInFile
<1>2. CASE keyFile # <<>>
  <2>1. 1 \in DOMAIN keyFile /\ Head(keyFile) = keyFile[1] /\ keyFile[1] \in Sessions
    BY <1>2, EmptySeq, HeadTailProperties
  <2> QED BY <1>2, <2>1, SessionFacts DEF KeyInFile
<1> QED BY <1>1, <1>2

\* Most steps leave the keys alone.
LEMMA KeysStay ==
    ASSUME TypeOK, UNCHANGED <<keyExists, keyFile, stage, secret>>
    PROVE  /\ keyExists' \in BOOLEAN /\ keyFile' \in Seq(Sessions)
           /\ stage' \in [Sessions -> Stages] /\ secret' \in [Sessions -> Keys]
           /\ \A t \in Sessions : KeyKept(t)'
<1>1. \A t \in Sessions : KeyKept(t) = KeyKept(t)'  BY DEF KeyKept
<1> QED BY <1>1 DEF TypeOK

\* The keys of the other sessions stay in the file when a key is appended.
LEMMA OthersKeepKeys ==
    ASSUME TypeOK, NEW s \in Sessions, NEW k \in Sessions,
           keyFile' = keyFile \/ keyFile' = Append(keyFile, k),
           NEW t \in Sessions, UNCHANGED stage[t], UNCHANGED secret[t]
    PROVE  KeyKept(t)'
<1>1. keyFile \in Seq(Sessions) /\ KeyKept(t)  BY DEF TypeOK
<1>2. \A i \in DOMAIN keyFile : i \in DOMAIN keyFile' /\ keyFile'[i] = keyFile[i]
  <2>1. \A i \in DOMAIN keyFile :
           i \in DOMAIN Append(keyFile, k) /\ Append(keyFile, k)[i] = keyFile[i]
    BY <1>1, AppendProperties
  <2> QED BY <2>1
<1> QED BY <1>1, <1>2 DEF KeyKept

\* A key that is appended is in the file.
LEMMA AppendedKey ==
    ASSUME keyFile \in Seq(Sessions), NEW k \in Sessions, keyFile' = WithKey(k)
    PROVE  /\ keyFile' \in Seq(Sessions) /\ keyFile' = Append(keyFile, k) /\ keyFile' # <<>>
           /\ \E i \in DOMAIN keyFile' : keyFile'[i] = k
<1>1. keyFile' = Append(keyFile, k)  BY DEF WithKey
<1>2. PICK n \in Nat : n = Len(keyFile)  BY LenProperties
<1>3. /\ keyFile' \in Seq(Sessions) /\ DOMAIN keyFile' = 1..(n + 1)
      /\ keyFile'[n + 1] = k /\ Len(keyFile') = n + 1
  BY <1>1, <1>2, AppendProperties
<1>4. n + 1 \in 1..(n + 1) /\ n + 1 # 0  OBVIOUS
<1>5. keyFile' # <<>>
  <2>1. Len(<<>>) = 0  OBVIOUS
  <2> QED BY <1>3, <1>4, <2>1
<1> QED BY <1>1, <1>3, <1>4, <1>5

\* The start of a session keeps the types.
LEMMA StartKeepsTypes ==
    ASSUME TypeOK, NEW s \in Sessions,
           Launch(s) \/ CreateKey(s) \/ AppendKey(s) \/ RestoreLastHash(s)
    PROVE  TypeOK'
<1> USE SessionFacts
<1>1. /\ stage \in [Sessions -> Stages] /\ secret \in [Sessions -> Keys]
      /\ keyFile \in Seq(Sessions)
  BY DEF TypeOK
<1>2. CASE Launch(s)
  <2>1. PICK k \in Keys, g \in {"generating", "restoring"} :
           /\ secret' = [secret EXCEPT ![s] = k] /\ stage' = [stage EXCEPT ![s] = g]
           /\ g = "generating" => k = s
           /\ g = "restoring" => k = KeyInFile
    BY <1>1, <1>2, KeyInFileType DEF Launch
  <2>2. stage' \in [Sessions -> Stages] /\ secret' \in [Sessions -> Keys]
    BY <1>1, <2>1 DEF Stages
  <2>3. UNCHANGED keyFile /\ UNCHANGED keyExists /\ UNCHANGED log  BY <1>2 DEF Launch, files
  <2>4. ASSUME NEW t \in Sessions PROVE KeyKept(t)'
    <3>1. CASE t = s  BY <1>1, <2>1, <2>3, <3>1, KeyInFileType DEF KeyKept
    <3>2. CASE t # s  BY <1>1, <2>1, <2>3, <3>2, OthersKeepKeys
    <3> QED BY <3>1, <3>2
  <2> QED BY <1>2, <2>2, <2>3, <2>4 DEF TypeOK, Launch, pipes
<1>3. CASE CreateKey(s)
  <2>1. stage' \in [Sessions -> Stages]  BY <1>1, <1>3 DEF CreateKey, Stages
  <2>2. ASSUME NEW t \in Sessions PROVE KeyKept(t)'
    <3>1. CASE t = s  BY <1>1, <1>3, <3>1 DEF TypeOK, KeyKept, CreateKey
    <3>2. CASE t # s  BY <1>1, <1>3, <3>2, OthersKeepKeys DEF CreateKey
    <3> QED BY <3>1, <3>2
  <2> QED BY <1>3, <2>1, <2>2 DEF TypeOK, CreateKey, pipes
<1>4. CASE AppendKey(s)
  <2>1. secret[s] = s  BY <1>4 DEF TypeOK, KeyKept, AppendKey
  <2>2. /\ keyFile' \in Seq(Sessions) /\ keyFile' = Append(keyFile, s)
        /\ \E i \in DOMAIN keyFile' : keyFile'[i] = s
    BY <1>1, <1>4, <2>1, AppendedKey DEF AppendKey
  <2>3. stage' \in [Sessions -> Stages]  BY <1>1, <1>4 DEF AppendKey, Stages
  <2>4. ASSUME NEW t \in Sessions PROVE KeyKept(t)'
    <3>1. CASE t = s  BY <1>1, <1>4, <2>1, <2>2, <3>1 DEF KeyKept, AppendKey
    <3>2. CASE t # s  BY <1>1, <1>4, <2>2, <3>2, OthersKeepKeys DEF AppendKey
    <3> QED BY <3>1, <3>2
  <2> QED BY <1>4, <2>2, <2>3, <2>4 DEF TypeOK, AppendKey, pipes
<1>5. CASE RestoreLastHash(s)
  <2>1. stage' \in [Sessions -> Stages]  BY <1>1, <1>5 DEF RestoreLastHash, Stages
  <2>2. ASSUME NEW t \in Sessions PROVE KeyKept(t)'
    <3>1. CASE t = s  BY <1>1, <1>5, <3>1 DEF TypeOK, KeyKept, RestoreLastHash, files
    <3>2. CASE t # s  BY <1>1, <1>5, <3>2, OthersKeepKeys DEF RestoreLastHash, files
    <3> QED BY <3>1, <3>2
  <2>3. lastHash' \in [Sessions -> Nat]
    BY <1>5, RestoredHashType DEF TypeOK, RestoreLastHash
  <2> QED BY <1>5, <2>1, <2>2, <2>3 DEF TypeOK, RestoreLastHash, files, pipes
<1> QED BY <1>2, <1>3, <1>4, <1>5

\* Taking a call from the Map keeps the types of the Map and the queue.
LEMMA TakePendingTypes ==
    ASSUME TypeOK, NEW s \in Sessions, NEW id, NEW success \in BOOLEAN,
           TakePending(s, id, success)
    PROVE  pending' \in [Sessions -> SUBSET Calls] /\ queue' \in [Sessions -> Seq(Answer)]
<1>1. CASE id \in pending[s]
  <2>1. [call |-> id, success |-> success] \in Answer  BY <1>1 DEF TypeOK, Answer
  <2>2. Append(queue[s], [call |-> id, success |-> success]) \in Seq(Answer)
    BY <2>1, AppendProperties DEF TypeOK
  <2>3. /\ pending' = [pending EXCEPT ![s] = @ \ {id}]
        /\ queue' = [queue EXCEPT ![s] = Append(@, [call |-> id, success |-> success])]
    BY <1>1 DEF TakePending, Enqueue
  <2> QED BY <2>2, <2>3 DEF TypeOK
<1>2. CASE id \notin pending[s]
  BY <1>2 DEF TypeOK, TakePending
<1> QED BY <1>1, <1>2

\* The line handlers keep the types.
LEMMA HandlersKeepTypes ==
    ASSUME TypeOK, NEW s \in Sessions, ClientLine(s) \/ ServerResponse(s) \/ ServerRequest(s)
    PROVE  TypeOK'
<1>1. CASE ClientLine(s)
  <2> DEFINE id == sent[s] + 1
  <2>1. id \in Calls /\ id \in 0..MaxCalls
    BY <1>1, SessionFacts DEF TypeOK, ClientLine, Calls
  <2>2. sent' \in [Sessions -> 0..MaxCalls]  BY <1>1, <2>1 DEF TypeOK, ClientLine
  <2>3. /\ pending' \in [Sessions -> SUBSET Calls]
        /\ unanswered' \in [Sessions -> SUBSET Calls]
    <3> HIDE DEF id
    <3>1. /\ pending' = [pending EXCEPT ![s] = @ \cup {id}]
          /\ unanswered' = [unanswered EXCEPT ![s] = @ \cup {id}]
      BY <1>1 DEF ClientLine, id
    <3> QED BY <2>1, <3>1 DEF TypeOK
  <2> QED BY <1>1, <2>2, <2>3, KeysStay DEF TypeOK, ClientLine, files
<1>2. CASE ServerResponse(s)
  <2>1. PICK id \in unanswered[s], success \in BOOLEAN :
           /\ unanswered' = [unanswered EXCEPT ![s] = @ \ {id}]
           /\ answered' = [answered EXCEPT ![s] =
                              Append(@, [call |-> id, success |-> success])]
           /\ TakePending(s, id, success)
    BY <1>2 DEF ServerResponse
  <2>2. [call |-> id, success |-> success] \in Answer  BY <2>1 DEF TypeOK, Answer
  <2>3. answered' \in [Sessions -> Seq(Answer)]
    <3>1. Append(answered[s], [call |-> id, success |-> success]) \in Seq(Answer)
      BY <2>2, AppendProperties DEF TypeOK
    <3> QED BY <2>1, <3>1 DEF TypeOK
  <2>4. unanswered' \in [Sessions -> SUBSET Calls]  BY <2>1 DEF TypeOK
  <2>5. pending' \in [Sessions -> SUBSET Calls] /\ queue' \in [Sessions -> Seq(Answer)]
    BY <2>1, TakePendingTypes
  <2> QED BY <1>2, <2>3, <2>4, <2>5, KeysStay DEF TypeOK, ServerResponse, files
<1>3. CASE ServerRequest(s)
  <2>1. pending' \in [Sessions -> SUBSET Calls] /\ queue' \in [Sessions -> Seq(Answer)]
    BY <1>3, TakePendingTypes DEF ServerRequest
  <2> QED BY <1>3, <2>1, KeysStay DEF TypeOK, ServerRequest, files, pipes
<1> QED BY <1>1, <1>2, <1>3

\* A process whose append has settled has none under way.
LEMMA NoneUnderWay ==
    ASSUME TypeOK, NEW s \in Sessions, appending' = [appending EXCEPT ![s] = <<>>]
    PROVE  appending' \in [Sessions -> Seq(Entry)]
<1>1. <<>> \in Seq(Entry)  OBVIOUS
<1>2. appending \in [Sessions -> Seq(Entry)]  BY DEF TypeOK
<1> QED BY <1>1, <1>2

\* The closures on writeQueue keep the types.
LEMMA WritesKeepTypes ==
    ASSUME TypeOK, NEW s \in Sessions, SignEntry(s) \/ AppendEntry(s) \/ AppendFails(s)
    PROVE  TypeOK'
<1>1. CASE SignEntry(s)
  <2>1. Head(queue[s]) \in Answer /\ Tail(queue[s]) \in Seq(Answer)
    BY <1>1, HeadTailProperties DEF TypeOK, SignEntry, QueueRuns
  <2>2. secret[s] \in Keys /\ lastHash[s] \in Nat /\ nextHash \in Nat \ {genesis}
    BY <1>1 DEF TypeOK, SignEntry
  <2>3. PICK e \in Entry : appending' = [appending EXCEPT ![s] = <<e>>]
    BY <1>1, <2>1, <2>2, EntryType DEF SignEntry
  <2>4. appending' \in [Sessions -> Seq(Entry)]  BY <2>3 DEF TypeOK
  <2>5. nextHash' \in Nat \ {genesis} /\ lastHash' \in [Sessions -> Nat]
    BY <1>1 DEF TypeOK, SignEntry, HeadAfterSign, genesis
  <2> QED BY <1>1, <2>1, <2>4, <2>5, KeysStay DEF TypeOK, SignEntry, files, pipes
<1>2. CASE AppendEntry(s)
  <2>1. log' \in Seq(Entry)  BY <1>2, ConcatProperties DEF TypeOK, AppendEntry
  <2>2. appending' \in [Sessions -> Seq(Entry)]  BY <1>2, NoneUnderWay DEF AppendEntry
  <2> QED BY <1>2, <2>1, <2>2, KeysStay DEF TypeOK, AppendEntry, pipes
<1>3. CASE AppendFails(s)
  <2>1. appending' \in [Sessions -> Seq(Entry)]  BY <1>3, NoneUnderWay DEF AppendFails
  <2> QED BY <1>3, <2>1, KeysStay DEF TypeOK, AppendFails, files, pipes
<1> QED BY <1>1, <1>2, <1>3

\* The end of a process keeps the types.
LEMMA ExitKeepsTypes ==
    ASSUME TypeOK, NEW s \in Sessions, Exit(s)
    PROVE  TypeOK'
<1>1. log' \in Seq(Entry)
  <2>1. log \in Seq(Entry) /\ appending[s] \in Seq(Entry)  BY DEF TypeOK
  <2>2. log' \in {log, log \o appending[s]}  BY DEF Exit
  <2> QED BY <2>1, <2>2, ConcatProperties
<1>2. /\ keyFile' \in Seq(Sessions) /\ keyExists' \in BOOLEAN
      /\ keyFile' = keyFile \/ keyFile' = Append(keyFile, s)
  <2>1. keyFile \in Seq(Sessions) /\ keyExists \in BOOLEAN  BY DEF TypeOK
  <2>2. CASE UNCHANGED keyFile
    BY <2>1, <2>2 DEF Exit
  <2>3. CASE stage[s] \in {"generating", "writing key"} /\ keyExists' = TRUE
             /\ keyFile' = WithKey(secret[s])
    <3>1. secret[s] = s  BY <2>3 DEF TypeOK, KeyKept
    <3> QED BY <2>1, <2>3, <3>1, AppendedKey
  <2> QED BY <2>2, <2>3 DEF Exit
<1>3. stage' \in [Sessions -> Stages] /\ \A t \in Sessions : KeyKept(t)'
  <2>1. stage' \in [Sessions -> Stages] /\ stage'[s] = "exited"  BY DEF TypeOK, Exit, Stages
  <2>2. ASSUME NEW t \in Sessions, t # s PROVE KeyKept(t)'
    <3>1. UNCHANGED stage[t] /\ UNCHANGED secret[t]  BY <2>2 DEF TypeOK, Exit
    <3> QED BY <1>2, <3>1, OthersKeepKeys
  <2> QED BY <2>1, <2>2 DEF KeyKept
<1>4. /\ pending' \in [Sessions -> SUBSET Calls] /\ queue' \in [Sessions -> Seq(Answer)]
      /\ appending' \in [Sessions -> Seq(Entry)]
  <2>1. <<>> \in Seq(Answer)  OBVIOUS
  <2>2. pending' \in [Sessions -> SUBSET Calls]  BY DEF TypeOK, Exit
  <2>3. queue \in [Sessions -> Seq(Answer)] /\ queue' = [queue EXCEPT ![s] = <<>>]
    BY DEF TypeOK, Exit
  <2> QED BY <2>1, <2>2, <2>3, NoneUnderWay DEF Exit
<1>5. /\ secret' \in [Sessions -> Keys] /\ lastHash' \in [Sessions -> Nat]
      /\ unanswered' \in [Sessions -> SUBSET Calls] /\ answered' \in [Sessions -> Seq(Answer)]
      /\ sent' \in [Sessions -> 0..MaxCalls] /\ nextHash' \in Nat \ {genesis}
  BY DEF TypeOK, Exit, pipes
<1> QED BY <1>1, <1>2, <1>3, <1>4, <1>5 DEF TypeOK

\* Every step keeps the types.
LEMMA TypeStep == TypeOK /\ [Next]_vars => TypeOK'
<1> SUFFICES ASSUME TypeOK, [Next]_vars PROVE TypeOK'  OBVIOUS
<1>1. CASE UNCHANGED vars
  BY <1>1, KeysStay DEF TypeOK, vars, files, process, pipes
<1> QED
  BY <1>1, NextCases, StartKeepsTypes, HandlersKeepTypes, WritesKeepTypes, ExitKeepsTypes

\* Every variable of every process has its type, and no session loses the key
\* it signs with, though several make one at the same time (ensureKey): it stays
\* in the file, unless the session found the file empty.
THEOREM TypeCorrect == Spec => []TypeOK
<1>1. Init => TypeOK
  <2> SUFFICES ASSUME Init PROVE TypeOK  OBVIOUS
  <2>1. 0 \in 0..MaxCalls  BY SessionFacts
  <2>2. \A s \in Sessions : KeyKept(s)  BY DEF Init, KeyKept
  <2>3. <<>> \in Seq(Entry) /\ <<>> \in Seq(Answer) /\ <<>> \in Seq(Sessions)  OBVIOUS
  <2>4. /\ stage \in [Sessions -> Stages] /\ secret \in [Sessions -> Keys]
        /\ keyExists \in BOOLEAN
    BY SessionFacts DEF Init, Stages
  <2>5. /\ queue \in [Sessions -> Seq(Answer)] /\ answered \in [Sessions -> Seq(Answer)]
        /\ appending \in [Sessions -> Seq(Entry)]
    BY <2>3 DEF Init
  <2>6. lastHash \in [Sessions -> Nat] /\ nextHash \in Nat \ {genesis}  BY DEF Init, genesis
  <2> QED BY <2>1, <2>2, <2>3, <2>4, <2>5, <2>6 DEF Init, TypeOK
<1> QED BY <1>1, TypeStep, PTL DEF Spec

-----------------------------------------------------------------------------
(* Answers, the queue, what is in appendFile and the log, as sequences      *)

\* The answers that wait are the latest ones, and what is in appendFile is the
\* answer before them.
Behind(waiting, writing, answers) ==
    /\ Len(waiting) + Len(writing) <= Len(answers)
    /\ \A i \in DOMAIN waiting : waiting[i] = answers[Len(answers) - Len(waiting) + i]
    /\ \A i \in DOMAIN writing : writing[i].answer = answers[Len(answers) - Len(waiting)]

\* One entry is of an earlier answer than the other.
Before(e, f, answers, count) ==
    \E j, l \in 1..count : j < l /\ e.answer = answers[j] /\ f.answer = answers[l]

\* The entries are those of some of the first answers, in the order of these.
Follows(entries, answers, count) ==
    /\ \A i \in DOMAIN entries : \E j \in 1..count : entries[i].answer = answers[j]
    /\ \A i, k \in DOMAIN entries : i < k => Before(entries[i], entries[k], answers, count)

\* The call of an answer is a number.
LEMMA CallsOfAnswers ==
    ASSUME NEW ans \in Seq(Answer)
    PROVE  \A j \in DOMAIN ans : ans[j].call \in Nat
<1>1. \A j \in DOMAIN ans : ans[j] \in Answer  OBVIOUS
<1> QED BY <1>1, SessionFacts DEF Answer

\* The places of a sequence.
LEMMA DomainCounts ==
    ASSUME NEW S, NEW x \in Seq(S), NEW n, n = Len(x)
    PROVE  DOMAIN x = 1..n
OBVIOUS

\* The same as Behind, with the lengths as numbers.
LEMMA BehindBy ==
    ASSUME NEW q, NEW w, NEW ans, NEW n, NEW m, NEW k, NEW d,
           Len(ans) = n, Len(q) = m, Len(w) = k, n - m = d,
           DOMAIN q = 1..m, DOMAIN w = 1..k,
           m + k <= n,
           \A i \in 1..m : q[i] = ans[d + i],
           \A i \in 1..k : w[i].answer = ans[d]
    PROVE  Behind(q, w, ans)
  BY Zenon DEF Behind

\* Nothing follows nothing.
LEMMA BehindNothing == Behind(<<>>, <<>>, <<>>)
<1>1. Len(<<>>) = 0 /\ DOMAIN <<>> = {} /\ 0 + 0 <= 0  OBVIOUS
<1> QED BY <1>1 DEF Behind

\* An answer comes last on the queue, too.
LEMMA BehindAnswered ==
    ASSUME NEW q \in Seq(Answer), NEW w \in Seq(Entry), NEW ans \in Seq(Answer),
           NEW a \in Answer, Behind(q, w, ans)
    PROVE  Behind(Append(q, a), w, Append(ans, a))
<1> PICK n \in Nat, m \in Nat, k \in Nat : n = Len(ans) /\ m = Len(q) /\ k = Len(w)
  BY LenProperties
<1>1. /\ m + k <= n
      /\ \A i \in 1..m : q[i] = ans[n - m + i]
      /\ \A i \in 1..k : w[i].answer = ans[n - m]
  <2>1. DOMAIN q = 1..m /\ DOMAIN w = 1..k  OBVIOUS
  <2> QED BY <2>1, Zenon DEF Behind
<1>2. /\ DOMAIN Append(q, a) = 1..(m + 1) /\ DOMAIN w = 1..k
      /\ (\A i \in 1..m : Append(q, a)[i] = q[i]) /\ Append(q, a)[m + 1] = a
      /\ (\A j \in 1..n : Append(ans, a)[j] = ans[j]) /\ Append(ans, a)[n + 1] = a
  BY AppendProperties
<1>3. Len(Append(q, a)) = m + 1 /\ Len(Append(ans, a)) = n + 1
  BY AppendProperties
<1> DEFINE p == Append(q, a)
           r == Append(ans, a)
<1> HIDE DEF p, r
<1> PICK x, y, d : x = n + 1 /\ y = m + 1 /\ d = n - m
  OBVIOUS
<1>4. Len(r) = x /\ Len(p) = y /\ Len(w) = k /\ x - y = d /\ DOMAIN p = 1..y /\ DOMAIN w = 1..k
  <2>1. x - y = d  OBVIOUS
  <2> QED BY <1>2, <1>3, <2>1 DEF p, r
<1>5. ASSUME NEW i \in 1..y PROVE p[i] = r[d + i]
  <2>1. CASE i \in 1..m
    <3>1. d + i \in 1..n /\ d + i = n - m + i  BY <1>1, <2>1
    <3> QED BY <1>1, <1>2, <2>1, <3>1 DEF p, r
  <2>2. CASE i = m + 1
    <3>1. d + i = n + 1  BY <2>2
    <3> QED BY <1>2, <2>2, <3>1 DEF p, r
  <2>3. i \in 1..m \/ i = m + 1  OBVIOUS
  <2> QED BY <2>1, <2>2, <2>3
<1>6. ASSUME NEW i \in 1..k PROVE w[i].answer = r[d]
  <2>1. d \in 1..n  BY <1>1
  <2> QED BY <1>1, <1>2, <2>1 DEF r
<1>7. y + k <= x  BY <1>1
<1>8. Behind(p, w, r)  BY <1>4, <1>5, <1>6, <1>7, BehindBy, Zenon
<1> QED BY <1>8 DEF p, r

\* The answer at the head of the queue is the one that is signed next.
LEMMA BehindSigned ==
    ASSUME NEW q \in Seq(Answer), NEW ans \in Seq(Answer), q # <<>>,
           NEW e \in Entry, e.answer = Head(q), Behind(q, <<>>, ans)
    PROVE  Behind(Tail(q), <<e>>, ans)
<1> PICK n \in Nat, m \in Nat : n = Len(ans) /\ m = Len(q)
  BY LenProperties
<1>1. m >= 1  BY EmptySeq
<1>2. m <= n /\ \A i \in 1..m : q[i] = ans[n - m + i]
  <2>1. Len(<<>>) = 0 /\ DOMAIN q = 1..m /\ m + 0 = m  OBVIOUS
  <2> QED BY <2>1, Zenon DEF Behind
<1>3. /\ DOMAIN Tail(q) = 1..(m - 1) /\ Len(Tail(q)) = m - 1
      /\ \A i \in 1..(m - 1) : Tail(q)[i] = q[i + 1]
  BY HeadTailProperties
<1>4. Head(q) = q[1]  BY <1>1
<1>5. n - (m - 1) = n - m + 1  OBVIOUS
<1>6. ASSUME NEW i \in 1..(m - 1) PROVE Tail(q)[i] = ans[n - m + 1 + i]
  <2>1. i + 1 \in 1..m /\ n - m + (i + 1) = n - m + 1 + i  OBVIOUS
  <2>2. q[i + 1] = ans[n - m + (i + 1)]  BY <1>2, <2>1
  <2> QED BY <1>3, <2>1, <2>2
<1>7. e.answer = ans[n - m + 1]  BY <1>1, <1>2, <1>4
<1>8. Len(<<e>>) = 1 /\ DOMAIN <<e>> = 1..1 /\ <<e>>[1] = e  OBVIOUS
<1>9. \A i \in 1..1 : <<e>>[i].answer = ans[n - m + 1]
  <2>1. \A i \in 1..1 : i = 1  OBVIOUS
  <2> QED BY <1>7, <1>8, <2>1
<1>10. m - 1 + 1 <= n  BY <1>2
<1>11. Len(ans) = n  OBVIOUS
<1> DEFINE p == Tail(q)
           w == <<e>>
<1>12. \A i \in 1..1 : w[i].answer = ans[n - m + 1]  BY <1>9
<1>13. Len(w) = 1 /\ DOMAIN w = 1..1  BY <1>8
<1> HIDE DEF p, w
<1>14. /\ Len(p) = m - 1 /\ DOMAIN p = 1..(m - 1)
       /\ \A i \in 1..(m - 1) : p[i] = ans[n - m + 1 + i]
  BY <1>3, <1>6, Zenon DEF p
<1>15. Behind(p, w, ans)
  <2> PICK x, d : x = m - 1 /\ d = n - m + 1  OBVIOUS
  <2>1. Len(p) = x /\ DOMAIN p = 1..x /\ \A i \in 1..x : p[i] = ans[d + i]
    BY <1>14, Zenon
  <2>2. n - x = d /\ x + 1 <= n  BY <1>5, <1>10, Zenon
  <2>3. \A i \in 1..1 : w[i].answer = ans[d]  BY <1>12, Zenon
  <2> QED BY <1>11, <1>13, <2>1, <2>2, <2>3, BehindBy, Zenon
<1> QED BY <1>15 DEF p, w

\* An entry that has been written, or lost, and a queue that is gone.
LEMMA BehindDone ==
    ASSUME NEW q \in Seq(Answer), NEW w \in Seq(Entry), NEW ans \in Seq(Answer),
           Behind(q, w, ans)
    PROVE  Behind(q, <<>>, ans) /\ Behind(<<>>, <<>>, ans)
<1> PICK n \in Nat, m \in Nat, k \in Nat : n = Len(ans) /\ m = Len(q) /\ k = Len(w)
  BY LenProperties
<1>1. m + k <= n /\ \A i \in DOMAIN q : q[i] = ans[n - m + i]
  BY DEF Behind
<1>2. Len(<<>>) = 0 /\ DOMAIN <<>> = {}  OBVIOUS
<1>3. m + 0 <= n /\ 0 + 0 <= n  BY <1>1
<1> QED BY <1>1, <1>2, <1>3 DEF Behind

\* Entries that follow some answers follow them when there are more.
LEMMA FollowsMore ==
    ASSUME NEW entries, NEW ans, NEW more, NEW w \in Int, NEW v \in Int, w <= v,
           \A j \in 1..w : more[j] = ans[j], Follows(entries, ans, w)
    PROVE  Follows(entries, more, v)
<1>1. \A j \in 1..w : j \in 1..v  OBVIOUS
<1>2. ASSUME NEW i \in DOMAIN entries
      PROVE  \E j \in 1..v : entries[i].answer = more[j]
  <2>1. PICK j \in 1..w : entries[i].answer = ans[j]  BY DEF Follows
  <2> QED BY <1>1, <2>1
<1>3. ASSUME NEW i \in DOMAIN entries, NEW k \in DOMAIN entries, i < k
      PROVE  Before(entries[i], entries[k], more, v)
  <2>1. PICK j \in 1..w, l \in 1..w :
            j < l /\ entries[i].answer = ans[j] /\ entries[k].answer = ans[l]
    BY <1>3 DEF Follows, Before
  <2> QED BY <1>1, <2>1 DEF Before
<1> QED BY <1>2, <1>3 DEF Follows

\* The entry of the next answer may be appended.
LEMMA FollowsAppended ==
    ASSUME NEW entries \in Seq(Entry), NEW ans, NEW w \in Nat, NEW e \in Entry,
           e.answer = ans[w + 1], Follows(entries, ans, w)
    PROVE  Follows(Append(entries, e), ans, w + 1)
<1> PICK o \in Nat : o = Len(entries)
  BY LenProperties
<1>1. /\ DOMAIN entries = 1..o /\ DOMAIN Append(entries, e) = 1..(o + 1)
      /\ (\A i \in 1..o : Append(entries, e)[i] = entries[i]) /\ Append(entries, e)[o + 1] = e
  BY AppendProperties
<1>2. \A i \in 1..(o + 1) : i \in 1..o \/ i = o + 1  OBVIOUS
<1>3. w + 1 \in 1..(w + 1) /\ \A j \in 1..w : j \in 1..(w + 1) /\ j < w + 1
  OBVIOUS
<1>4. \A i \in 1..o : \E j \in 1..w : entries[i].answer = ans[j]
  BY <1>1 DEF Follows
<1>5. ASSUME NEW i \in 1..(o + 1)
      PROVE  \E j \in 1..(w + 1) : Append(entries, e)[i].answer = ans[j]
  <2>1. CASE i \in 1..o  BY <1>1, <1>3, <1>4, <2>1
  <2>2. CASE i = o + 1  BY <1>1, <1>3, <2>2
  <2> QED BY <1>2, <2>1, <2>2
<1>6. \A i, k \in 1..o : i < k => Before(entries[i], entries[k], ans, w)
  BY <1>1 DEF Follows
<1>7. ASSUME NEW i \in 1..(o + 1), NEW k \in 1..(o + 1), i < k
      PROVE  Before(Append(entries, e)[i], Append(entries, e)[k], ans, w + 1)
  <2>1. i \in 1..o  BY <1>7
  <2>2. CASE k \in 1..o
    <3>1. Before(entries[i], entries[k], ans, w)  BY <1>6, <1>7, <2>1, <2>2
    <3> QED BY <1>1, <1>3, <2>1, <2>2, <3>1 DEF Before
  <2>3. CASE k = o + 1
    <3>1. PICK j \in 1..w : entries[i].answer = ans[j]  BY <1>4, <2>1
    <3> QED BY <1>1, <1>3, <2>1, <2>3, <3>1 DEF Before
  <2> QED BY <1>2, <2>2, <2>3
<1> QED BY <1>1, <1>5, <1>7 DEF Follows

-----------------------------------------------------------------------------
(* What a session has answered, queued, signed and logged                  *)

\* No id of the server's own numbering is the id of a call.
IdsApart == ServerIds \cap Calls = {}

\* How many answers have been taken from the queue, and how many of these are
\* done with: logged, or lost.
Taken(s)   == Len(answered[s]) - Len(queue[s])
Written(s) == Taken(s) - Len(appending[s])

\* One closure at a time, with an entry of its own session; before the
\* handlers are installed a session has done nothing, and when the process has
\* ended it has nothing under way.
OwnWork(s) ==
    /\ Len(appending[s]) <= 1
    /\ \A i \in DOMAIN appending[s] : appending[s][i].session = s
    /\ stage[s] # "running" => pending[s] = {} /\ queue[s] = <<>> /\ appending[s] = <<>>
    /\ stage[s] \notin {"running", "exited"} =>
          /\ sent[s] = 0 /\ unanswered[s] = {} /\ answered[s] = <<>>
          /\ OwnEntries(s) = <<>>

\* The Map holds the calls that wait, and a call is answered once.
AnsweredOnce(s) ==
    /\ stage[s] = "running" => pending[s] = unanswered[s]
    /\ \A c \in unanswered[s] : c <= sent[s]
    /\ \A j \in DOMAIN answered[s] :
          answered[s][j].call <= sent[s] /\ answered[s][j].call \notin unanswered[s]
    /\ \A j, l \in DOMAIN answered[s] :
          answered[s][j].call = answered[s][l].call => j = l

\* The queue has the latest answers, appendFile the one before them.
QueueFollows(s) == Behind(queue[s], appending[s], answered[s])

\* What is logged was answered and is done with, in the order of the log.
LogFollows(s) == Follows(OwnEntries(s), answered[s], Written(s))

SessionOrder(s) == OwnWork(s) /\ AnsweredOnce(s) /\ QueueFollows(s) /\ LogFollows(s)

OrderInv == \A s \in Sessions : SessionOrder(s)

\* All that the invariants of a session look at.
Session(s) ==
    <<stage[s], lastHash[s], pending[s], queue[s], appending[s], sent[s],
      unanswered[s], answered[s], OwnEntries(s)>>

\* The sequences of a session and their lengths.
LEMMA SessionTypes ==
    ASSUME TypeOK, NEW s \in Sessions
    PROVE  /\ queue[s] \in Seq(Answer) /\ answered[s] \in Seq(Answer)
           /\ appending[s] \in Seq(Entry) /\ OwnEntries(s) \in Seq(Entry)
           /\ Len(queue[s]) \in Nat /\ Len(answered[s]) \in Nat
           /\ Len(appending[s]) \in Nat /\ Len(OwnEntries(s)) \in Nat
           /\ pending[s] \subseteq Calls /\ unanswered[s] \subseteq Calls
           /\ sent[s] \in 0..MaxCalls
<1>1. log \in Seq(Entry)  BY DEF TypeOK
<1>2. OwnEntries(s) \in Seq(Entry)
  <2> DEFINE P == {i \in DOMAIN log : log[i].session = s}
  <2>1. P \in SUBSET (1..Len(log))  BY <1>1
  <2> HIDE DEF P
  <2>2. InOrder(log, P) \in Seq(Entry)  BY <1>1, <2>1, SelectType
  <2> QED BY <2>2 DEF OwnEntries, P
<1>3. /\ queue[s] \in Seq(Answer) /\ answered[s] \in Seq(Answer)
      /\ appending[s] \in Seq(Entry)
      /\ pending[s] \subseteq Calls /\ unanswered[s] \subseteq Calls
      /\ sent[s] \in 0..MaxCalls
  BY DEF TypeOK
<1> QED BY <1>2, <1>3, LenProperties

\* What a session has in appendFile.
LEMMA WorkTypes ==
    ASSUME TypeOK, NEW s \in Sessions, OwnWork(s)
    PROVE  \/ appending[s] = <<>>
           \/ \E e \in Entry : appending[s] = <<e>> /\ e.session = s /\ stage[s] = "running"
<1>0. PICK k \in Nat : k = Len(appending[s])
  BY SessionTypes
<1>1. appending[s] \in Seq(Entry) /\ DOMAIN appending[s] = 1..k
  BY <1>0, SessionTypes
<1>2. k <= 1  BY <1>0 DEF OwnWork
<1>3. CASE k = 0
  BY <1>0, <1>1, <1>3, EmptySeq
<1>4. CASE k = 1
  <2>0. Len(appending[s]) = 1  BY <1>0, <1>4
  <2>1. appending[s] = <<appending[s][1]>> /\ appending[s] # <<>>  BY <1>1, <2>0
  <2>2. appending[s][1] \in Entry  BY <1>1, <1>4, ElementOfSeq
  <2>3. appending[s][1].session = s /\ stage[s] = "running"
    BY <1>1, <1>4, <2>1 DEF OwnWork
  <2> QED BY <2>1, <2>2, <2>3
<1>5. k = 0 \/ k = 1  BY <1>2
<1> QED BY <1>3, <1>4, <1>5

\* The lengths, as numbers, and the two counts.
LEMMA Counts ==
    ASSUME TypeOK, NEW s \in Sessions
    PROVE  \E n, m, k \in Nat :
              /\ n = Len(answered[s]) /\ DOMAIN answered[s] = 1..n
              /\ m = Len(queue[s]) /\ DOMAIN queue[s] = 1..m
              /\ k = Len(appending[s]) /\ DOMAIN appending[s] = 1..k
              /\ Taken(s) = n - m /\ Written(s) = n - m - k
              /\ QueueFollows(s) => m + k <= n
<1> PICK n \in Nat, m \in Nat, k \in Nat :
       n = Len(answered[s]) /\ m = Len(queue[s]) /\ k = Len(appending[s])
  BY SessionTypes
<1>1. DOMAIN answered[s] = 1..n /\ DOMAIN queue[s] = 1..m /\ DOMAIN appending[s] = 1..k
  BY SessionTypes
<1>2. Taken(s) = n - m /\ Written(s) = n - m - k
  BY DEF Taken, Written
<1>3. QueueFollows(s) => m + k <= n
  BY DEF QueueFollows, Behind
<1> QED BY <1>1, <1>2, <1>3

\* The same after a step.
LEMMA CountsNext ==
    ASSUME TypeOK', NEW s \in Sessions
    PROVE  /\ answered'[s] \in Seq(Answer) /\ appending'[s] \in Seq(Entry)
           /\ \E n, m, k \in Nat :
                 /\ n = Len(answered'[s]) /\ DOMAIN answered'[s] = 1..n
                 /\ m = Len(queue'[s]) /\ k = Len(appending'[s])
                 /\ Taken(s)' = n - m /\ Written(s)' = n - m - k
<1>1. /\ queue'[s] \in Seq(Answer) /\ answered'[s] \in Seq(Answer)
      /\ appending'[s] \in Seq(Entry)
  BY DEF TypeOK
<1> PICK n \in Nat, m \in Nat, k \in Nat :
       n = Len(answered'[s]) /\ m = Len(queue'[s]) /\ k = Len(appending'[s])
  BY <1>1, LenProperties
<1>2. DOMAIN answered'[s] = 1..n  BY <1>1
<1>3. Taken(s)' = n - m /\ Written(s)' = n - m - k
  BY DEF Taken, Written
<1> QED BY <1>1, <1>2, <1>3

\* An entry that is appended is the last of its session, and no other
\* session's.
LEMMA OwnEntriesGrow ==
    ASSUME TypeOK, NEW s \in Sessions, NEW e \in Entry, e.session = s,
           log' = Append(log, e)
    PROVE  /\ OwnEntries(s)' = Append(OwnEntries(s), e)
           /\ \A t \in Sessions : t # s => OwnEntries(t)' = OwnEntries(t)
<1> DEFINE P(t) == {i \in DOMAIN log : log[i].session = t}
           Q(t) == {i \in DOMAIN log' : log'[i].session = t}
<1>1. log \in Seq(Entry)  BY DEF TypeOK
<1>2. /\ Len(log) \in Nat /\ DOMAIN log = 1..Len(log)
      /\ DOMAIN log' = 1..(Len(log) + 1)
      /\ \A i \in 1..Len(log) : log'[i] = log[i]
      /\ log'[Len(log) + 1] = e
  BY <1>1, AppendProperties, LenProperties
<1>3. \A t \in Sessions : P(t) \in SUBSET (1..Len(log))  BY <1>2
<1>4. Q(s) = P(s) \cup {Len(log) + 1}  BY <1>2
<1>5. \A t \in Sessions : t # s => Q(t) = P(t)  BY <1>2
<1>6. \A t \in Sessions : OwnEntries(t) = InOrder(log, P(t)) /\ OwnEntries(t)' = InOrder(log', Q(t))
  BY DEF OwnEntries
<1> HIDE DEF P, Q
<1>7. ASSUME NEW t \in Sessions
      PROVE  /\ InOrder(Append(log, e), P(t)) = InOrder(log, P(t))
             /\ InOrder(Append(log, e), P(t) \cup {Len(log) + 1}) = Append(InOrder(log, P(t)), e)
  <2>1. P(t) \in SUBSET (1..Len(log))  BY <1>3
  <2>2. GrowsBy(log, P(t), e)  BY <1>1, <2>1, SelectAppend
  <2> QED BY <2>2 DEF GrowsBy
<1>8. OwnEntries(s)' = Append(OwnEntries(s), e)  BY <1>4, <1>6, <1>7
<1>9. ASSUME NEW t \in Sessions, t # s PROVE OwnEntries(t)' = OwnEntries(t)
  BY <1>5, <1>6, <1>7, <1>9
<1> QED BY <1>8, <1>9

\* What a closure on writeQueue appends goes to the end of its session's
\* entries; without an append they stay as they are.
LEMMA OwnEntriesStep ==
    ASSUME TypeOK, NEW s \in Sessions, OwnWork(s), log' \in {log, log \o appending[s]}
    PROVE  /\ log' = log => \A t \in Sessions : OwnEntries(t)' = OwnEntries(t)
           /\ log' = log \o appending[s] =>
                 OwnEntries(s)' = OwnEntries(s) \o appending[s]
           /\ \A t \in Sessions : t # s => OwnEntries(t)' = OwnEntries(t)
<1>1. ASSUME log' = log PROVE \A t \in Sessions : OwnEntries(t)' = OwnEntries(t)
  BY <1>1 DEF OwnEntries
<1>2. log \in Seq(Entry) /\ appending[s] \in Seq(Entry) /\ Len(appending[s]) \in Nat
  BY SessionTypes DEF TypeOK
<1>3. CASE appending[s] = <<>>
  <2>1. log' = log  BY <1>2, <1>3, ConcatEmptySeq
  <2>2. OwnEntries(s) \o <<>> = OwnEntries(s)  BY SessionTypes, ConcatEmptySeq
  <2> QED BY <1>1, <1>3, <2>1, <2>2
<1>4. CASE appending[s] # <<>>
  <2>1. PICK e \in Entry : appending[s] = <<e>> /\ e.session = s
    BY <1>4, WorkTypes
  <2>4. log \o appending[s] = Append(log, e)  BY <1>2, <2>1, AppendIsConcat
  <2>5. OwnEntries(s) \o appending[s] = Append(OwnEntries(s), e)
    BY <2>1, SessionTypes, AppendIsConcat
  <2>6. CASE log' = log \o appending[s]
    BY <1>1, <2>1, <2>4, <2>5, <2>6, OwnEntriesGrow
  <2>7. CASE log' = log /\ log' # log \o appending[s]
    BY <1>1, <2>7
  <2> QED BY <2>6, <2>7
<1> QED BY <1>3, <1>4

\* A step of one session leaves the others as they are.
LEMMA OthersKeep ==
    ASSUME TypeOK, NEW s \in Sessions, OwnWork(s),
           \/ Launch(s) \/ CreateKey(s) \/ AppendKey(s) \/ RestoreLastHash(s)
           \/ ClientLine(s) \/ ServerResponse(s) \/ ServerRequest(s)
           \/ SignEntry(s) \/ AppendEntry(s) \/ AppendFails(s) \/ Exit(s)
    PROVE  \A t \in Sessions : t # s => UNCHANGED Session(t)
<1> SUFFICES ASSUME NEW t \in Sessions, t # s PROVE UNCHANGED Session(t)
  OBVIOUS
<1>1. log' \in {log, log \o appending[s]}
  BY DEF Launch, CreateKey, AppendKey, RestoreLastHash, ClientLine, ServerResponse,
         ServerRequest, SignEntry, AppendEntry, AppendFails, Exit, files
<1>2. OwnEntries(t)' = OwnEntries(t)  BY <1>1, OwnEntriesStep
<1>3. /\ UNCHANGED stage[t] /\ UNCHANGED lastHash[t] /\ UNCHANGED pending[t]
      /\ UNCHANGED queue[t] /\ UNCHANGED appending[t]
  <2>1. CASE Launch(s) \/ CreateKey(s) \/ AppendKey(s) \/ RestoreLastHash(s)
    BY <2>1 DEF TypeOK, Launch, CreateKey, AppendKey, RestoreLastHash
  <2>2. CASE ClientLine(s)
    BY <2>2 DEF TypeOK, ClientLine
  <2>3. CASE ServerResponse(s)
    BY <2>3 DEF TypeOK, ServerResponse, TakePending
  <2>4. CASE ServerRequest(s)
    BY <2>4 DEF TypeOK, ServerRequest, TakePending
  <2>5. CASE SignEntry(s)
    BY <2>5 DEF TypeOK, SignEntry
  <2>6. CASE AppendEntry(s) \/ AppendFails(s)
    BY <2>6 DEF TypeOK, AppendEntry, AppendFails
  <2>7. CASE Exit(s)
    BY <2>7 DEF TypeOK, Exit
  <2> QED BY <2>1, <2>2, <2>3, <2>4, <2>5, <2>6, <2>7
<1>4. UNCHANGED sent[t] /\ UNCHANGED unanswered[t] /\ UNCHANGED answered[t]
  <2>1. CASE UNCHANGED pipes
    BY <2>1 DEF pipes
  <2>2. CASE ClientLine(s)
    BY <2>2 DEF TypeOK, ClientLine
  <2>3. CASE ServerResponse(s)
    BY <2>3 DEF TypeOK, ServerResponse
  <2> QED
    BY <2>1, <2>2, <2>3 DEF Launch, CreateKey, AppendKey, RestoreLastHash, ServerRequest,
       SignEntry, AppendEntry, AppendFails, Exit
<1> QED BY <1>2, <1>3, <1>4 DEF Session

\* What the invariants say of a session stays true while it does nothing.
LEMMA IdleKeepsOrder ==
    ASSUME NEW s \in Sessions, UNCHANGED Session(s), SessionOrder(s)
    PROVE  SessionOrder(s)'
<1> USE DEF SessionOrder
<1>1. /\ UNCHANGED stage[s] /\ UNCHANGED pending[s] /\ UNCHANGED queue[s]
      /\ UNCHANGED appending[s] /\ UNCHANGED sent[s] /\ UNCHANGED unanswered[s]
      /\ UNCHANGED answered[s] /\ UNCHANGED OwnEntries(s)
  BY DEF Session
<1>2. OwnWork(s)' /\ AnsweredOnce(s)'  BY <1>1 DEF OwnWork, AnsweredOnce
<1>3. UNCHANGED Taken(s) /\ UNCHANGED Written(s)  BY <1>1 DEF Taken, Written
<1>4. QueueFollows(s)'  BY <1>1, <1>3 DEF QueueFollows
<1>5. LogFollows(s)'  BY <1>1, <1>3 DEF LogFollows
<1> QED BY <1>2, <1>4, <1>5

\* The start of a session keeps the order.
LEMMA StartKeepsOrder ==
    ASSUME TypeOK, NEW s \in Sessions, SessionOrder(s),
           Launch(s) \/ CreateKey(s) \/ AppendKey(s) \/ RestoreLastHash(s)
    PROVE  SessionOrder(s)'
<1>1. /\ stage[s] \notin {"running", "exited"} /\ stage'[s] \notin {"off", "exited"}
      /\ UNCHANGED <<log, pending, queue, appending, pipes>>
  BY DEF TypeOK, Launch, CreateKey, AppendKey, RestoreLastHash, files
<1>2. OwnEntries(s)' = OwnEntries(s)  BY <1>1 DEF OwnEntries
<1>3. /\ pending[s] = {} /\ queue[s] = <<>> /\ appending[s] = <<>> /\ sent[s] = 0
      /\ unanswered[s] = {} /\ answered[s] = <<>> /\ OwnEntries(s) = <<>>
  BY <1>1 DEF SessionOrder, OwnWork
<1>4. /\ pending'[s] = {} /\ queue'[s] = <<>> /\ appending'[s] = <<>> /\ sent'[s] = 0
      /\ unanswered'[s] = {} /\ answered'[s] = <<>> /\ OwnEntries(s)' = <<>>
  BY <1>1, <1>2, <1>3 DEF pipes
<1>5. SessionOrder(s)'
  <2>1. stage'[s] # "exited" /\ DOMAIN <<>> = {}  BY <1>1
  <2>2. OwnWork(s)' /\ AnsweredOnce(s)'  BY <1>4, <2>1 DEF OwnWork, AnsweredOnce
  <2>3. QueueFollows(s)'  BY <1>4, BehindNothing DEF QueueFollows
  <2>4. LogFollows(s)'  BY <1>4, <2>1 DEF LogFollows, Follows
  <2> QED BY <2>2, <2>3, <2>4 DEF SessionOrder
<1> QED BY <1>5

\* A call of the client keeps the order.
LEMMA ClientKeepsOrder ==
    ASSUME TypeOK, NEW s \in Sessions, SessionOrder(s), ClientLine(s)
    PROVE  SessionOrder(s)'
<1> DEFINE id == sent[s] + 1
<1>1. /\ stage[s] = "running" /\ UNCHANGED <<log, stage, queue, appending, answered>>
      /\ sent'[s] = id /\ pending'[s] = pending[s] \cup {id}
      /\ unanswered'[s] = unanswered[s] \cup {id}
  BY DEF TypeOK, ClientLine, files
<1>2. OwnEntries(s)' = OwnEntries(s)  BY <1>1 DEF OwnEntries
<1>3. Written(s)' = Written(s)  BY <1>1 DEF Taken, Written
<1>4. OwnWork(s)' /\ QueueFollows(s)' /\ LogFollows(s)'
  <2>1. OwnWork(s) /\ QueueFollows(s) /\ LogFollows(s)  BY DEF SessionOrder
  <2>2. OwnWork(s)'  BY <1>1, <1>2, <2>1 DEF OwnWork
  <2>3. QueueFollows(s)'  BY <1>1, <2>1 DEF QueueFollows
  <2>4. LogFollows(s)'  BY <1>1, <1>2, <1>3, <2>1 DEF LogFollows
  <2> QED BY <2>2, <2>3, <2>4
<1>5. AnsweredOnce(s)'
  <2>1. sent[s] \in Nat /\ unanswered[s] \subseteq Nat
    <3>1. sent[s] \in 0..MaxCalls /\ unanswered[s] \subseteq Calls  BY SessionTypes
    <3>2. 0..MaxCalls \subseteq Nat  BY SessionFacts
    <3> QED BY <3>1, <3>2, SessionFacts
  <2>2. \A j \in DOMAIN answered[s] : answered[s][j].call \in Nat
    BY SessionTypes, CallsOfAnswers
  <2>3. \A c \in unanswered'[s] : c <= sent'[s]
    BY <1>1, <2>1 DEF SessionOrder, AnsweredOnce
  <2>4. \A j \in DOMAIN answered[s] :
           answered[s][j].call <= sent'[s] /\ answered[s][j].call \notin unanswered'[s]
    BY <1>1, <2>1, <2>2 DEF SessionOrder, AnsweredOnce
  <2> QED BY <1>1, <2>3, <2>4 DEF SessionOrder, AnsweredOnce
<1> QED BY <1>4, <1>5 DEF SessionOrder

\* What an answer of the server does.
LEMMA ResponseEffect ==
    ASSUME TypeOK, TypeOK', NEW s \in Sessions, SessionOrder(s), ServerResponse(s)
    PROVE  /\ stage[s] = "running" /\ UNCHANGED <<log, stage, lastHash, appending, sent>>
           /\ Written(s)' = Written(s)
           /\ \E a \in Answer :
                 /\ a.call \in unanswered[s]
                 /\ unanswered'[s] = unanswered[s] \ {a.call}
                 /\ pending'[s] = pending[s] \ {a.call}
                 /\ answered'[s] = Append(answered[s], a)
                 /\ queue'[s] = Append(queue[s], a)
<1>1. PICK id \in unanswered[s], success \in BOOLEAN :
         /\ unanswered' = [unanswered EXCEPT ![s] = @ \ {id}]
         /\ answered' = [answered EXCEPT ![s] =
                            Append(@, [call |-> id, success |-> success])]
         /\ TakePending(s, id, success)
  BY DEF ServerResponse
<1>2. PICK a : a = [call |-> id, success |-> success]  OBVIOUS
<1>3. a \in Answer /\ a.call = id
  <2>1. id \in Calls  BY <1>1, SessionTypes
  <2> QED BY <1>2, <2>1 DEF Answer
<1>4. stage[s] = "running" /\ UNCHANGED <<log, stage, lastHash, appending, sent>>
  BY DEF ServerResponse, files
<1>5. /\ unanswered'[s] = unanswered[s] \ {id}
      /\ answered'[s] = Append(answered[s], a)
      /\ pending'[s] = pending[s] \ {id} /\ queue'[s] = Append(queue[s], a)
  <2>1. id \in pending[s]  BY <1>1, <1>4 DEF SessionOrder, AnsweredOnce
  <2>2. /\ pending' = [pending EXCEPT ![s] = @ \ {id}]
        /\ queue' = [queue EXCEPT ![s] = Append(@, a)]
    BY <1>1, <1>2, <2>1, Zenon DEF TakePending, Enqueue
  <2>3. answered' = [answered EXCEPT ![s] = Append(@, a)]  BY <1>1, <1>2, Zenon
  <2> QED BY <1>1, <2>2, <2>3 DEF TypeOK
<1>6. Written(s)' = Written(s)
  <2> PICK n \in Nat, m \in Nat, k \in Nat :
         /\ n = Len(answered[s]) /\ m = Len(queue[s]) /\ k = Len(appending[s])
         /\ Written(s) = n - m - k
    BY Counts
  <2> PICK x \in Nat, y \in Nat, z \in Nat :
         /\ x = Len(answered'[s]) /\ y = Len(queue'[s]) /\ z = Len(appending'[s])
         /\ Written(s)' = x - y - z
    BY CountsNext
  <2>1. answered[s] \in Seq(Answer) /\ queue[s] \in Seq(Answer)  BY SessionTypes
  <2>2. Len(Append(answered[s], a)) = n + 1 /\ Len(Append(queue[s], a)) = m + 1
    BY <1>3, <2>1, AppendProperties
  <2>3. x = n + 1 /\ y = m + 1 /\ z = k  BY <1>4, <1>5, <2>2
  <2> QED BY <2>3
<1> QED BY <1>1, <1>3, <1>4, <1>5, <1>6

\* An answer of the server keeps the order.
LEMMA ResponseKeepsOrder ==
    ASSUME TypeOK, TypeOK', NEW s \in Sessions, SessionOrder(s), ServerResponse(s)
    PROVE  SessionOrder(s)'
<1>1. PICK a \in Answer :
         /\ a.call \in unanswered[s]
         /\ unanswered'[s] = unanswered[s] \ {a.call}
         /\ pending'[s] = pending[s] \ {a.call}
         /\ answered'[s] = Append(answered[s], a)
         /\ queue'[s] = Append(queue[s], a)
  BY ResponseEffect
<1>2. /\ stage[s] = "running" /\ UNCHANGED <<log, stage, appending, sent>>
      /\ Written(s)' = Written(s)
  BY ResponseEffect
<1>3. /\ queue[s] \in Seq(Answer) /\ answered[s] \in Seq(Answer)
      /\ appending[s] \in Seq(Entry)
  BY SessionTypes
<1>4. PICK n \in Nat : n = Len(answered[s]) /\ Written(s) \in Int /\ Written(s) <= n
  BY Counts
<1>5. /\ (\A j \in 1..n : answered'[s][j] = answered[s][j]) /\ answered'[s][n + 1] = a
      /\ DOMAIN answered'[s] = 1..(n + 1) /\ DOMAIN answered[s] = 1..n
  BY <1>1, <1>3, <1>4, AppendProperties
<1>6. OwnEntries(s)' = OwnEntries(s)  BY <1>2 DEF OwnEntries
<1>7. OwnWork(s)'
  BY <1>2, <1>6 DEF SessionOrder, OwnWork
<1>8. AnsweredOnce(s)'
  <2>1. \A j \in 1..n : answered[s][j].call # a.call
    BY <1>1, <1>5 DEF SessionOrder, AnsweredOnce
  <2>2. \A j \in 1..(n + 1) : j \in 1..n \/ j = n + 1  OBVIOUS
  <2>3. a.call <= sent[s]  BY <1>1 DEF SessionOrder, AnsweredOnce
  <2>4. \A j \in 1..(n + 1) :
           answered'[s][j].call <= sent[s] /\ answered'[s][j].call \notin unanswered'[s]
    BY <1>1, <1>5, <2>2, <2>3 DEF SessionOrder, AnsweredOnce
  <2>5. \A j, l \in 1..(n + 1) : answered'[s][j].call = answered'[s][l].call => j = l
    <3> SUFFICES ASSUME NEW j \in 1..(n + 1), NEW l \in 1..(n + 1),
                        answered'[s][j].call = answered'[s][l].call
                 PROVE  j = l
      OBVIOUS
    <3>1. CASE j \in 1..n /\ l \in 1..n  BY <1>5, <3>1 DEF SessionOrder, AnsweredOnce
    <3>2. CASE j \in 1..n /\ l = n + 1  BY <1>5, <2>1, <3>2
    <3>3. CASE j = n + 1 /\ l \in 1..n  BY <1>5, <2>1, <3>3
    <3> QED BY <2>2, <3>1, <3>2, <3>3
  <2>6. pending'[s] = unanswered'[s] /\ \A c \in unanswered'[s] : c <= sent[s]
    BY <1>1, <1>2 DEF SessionOrder, AnsweredOnce
  <2> QED BY <1>2, <1>5, <2>4, <2>5, <2>6 DEF AnsweredOnce
<1>9. QueueFollows(s)'
  BY <1>1, <1>2, <1>3, BehindAnswered DEF SessionOrder, QueueFollows
<1>10. LogFollows(s)'
  <2>1. \A j \in 1..Written(s) : answered'[s][j] = answered[s][j]
    BY <1>4, <1>5
  <2> QED BY <1>2, <1>4, <1>6, <2>1, FollowsMore DEF SessionOrder, LogFollows
<1> QED BY <1>7, <1>8, <1>9, <1>10 DEF SessionOrder

\* A request of the server is no answer to a call.
LEMMA RequestKeepsOrder ==
    ASSUME TypeOK, IdsApart, NEW s \in Sessions, SessionOrder(s), ServerRequest(s)
    PROVE  UNCHANGED vars /\ SessionOrder(s)'
<1>1. PICK id \in ServerIds : TakePending(s, id, TRUE)  BY DEF ServerRequest
<1>2. id \notin pending[s]  BY <1>1, SessionTypes DEF IdsApart
<1>3. UNCHANGED vars
  BY <1>1, <1>2 DEF ServerRequest, TakePending, vars, files, process, pipes
<1>4. UNCHANGED Session(s)
  BY <1>3 DEF vars, files, process, pipes, Session, OwnEntries
<1> QED BY <1>3, <1>4, IdleKeepsOrder

\* What signing does.
LEMMA SignEffect ==
    ASSUME TypeOK, TypeOK', NEW s \in Sessions, SignEntry(s)
    PROVE  /\ stage[s] = "running" /\ appending[s] = <<>> /\ queue[s] # <<>>
           /\ UNCHANGED <<log, keyFile, stage, secret, pending, sent, unanswered, answered>>
           /\ queue'[s] = Tail(queue[s]) /\ lastHash'[s] = nextHash /\ nextHash' = nextHash + 1
           /\ Written(s)' = Written(s)
           /\ \E e \in Entry :
                 /\ appending'[s] = <<e>> /\ e.session = s /\ e.answer = Head(queue[s])
                 /\ e.record = AuditRecord(nextHash, lastHash[s]) /\ e.key = secret[s]
<1>1. /\ stage[s] = "running" /\ appending[s] = <<>> /\ queue[s] # <<>>
      /\ UNCHANGED <<log, keyFile, stage, secret, pending, sent, unanswered, answered>>
      /\ queue'[s] = Tail(queue[s]) /\ lastHash'[s] = nextHash /\ nextHash' = nextHash + 1
  BY DEF TypeOK, SignEntry, QueueRuns, HeadAfterSign, files, pipes
<1>2. PICK e : /\ appending'[s] = <<e>> /\ e.session = s /\ e.answer = Head(queue[s])
               /\ e.record = AuditRecord(nextHash, lastHash[s]) /\ e.key = secret[s]
  <2> DEFINE r == AuditRecord(nextHash, lastHash[s])
             f == [record |-> r, answer |-> Head(queue[s]), session |-> s, key |-> secret[s]]
  <2>1. /\ f.session = s /\ f.answer = Head(queue[s]) /\ f.record = r /\ f.key = secret[s]
    OBVIOUS
  <2>2. appending' = [appending EXCEPT ![s] = <<f>>]  BY DEF SignEntry
  <2> HIDE DEF f
  <2>3. appending'[s] = <<f>>  BY <2>2 DEF TypeOK
  <2> QED BY <2>1, <2>3, Zenon
<1>3. e \in Entry
  <2>1. <<e>> \in Seq(Entry)  BY <1>2, CountsNext
  <2> QED BY <2>1
<1>4. Written(s)' = Written(s)
  <2> PICK n \in Nat, m \in Nat, k \in Nat :
         /\ n = Len(answered[s]) /\ m = Len(queue[s]) /\ k = Len(appending[s])
         /\ Written(s) = n - m - k
    BY Counts
  <2> PICK x \in Nat, y \in Nat, z \in Nat :
         /\ x = Len(answered'[s]) /\ y = Len(queue'[s]) /\ z = Len(appending'[s])
         /\ Written(s)' = x - y - z
    BY CountsNext
  <2>1. Len(Tail(queue[s])) = m - 1
    BY <1>1, SessionTypes, HeadTailProperties
  <2>2. Len(<<e>>) = 1 /\ Len(<<>>) = 0  OBVIOUS
  <2>3. x = n /\ y = m - 1 /\ z = 1 /\ k = 0  BY <1>1, <1>2, <2>1, <2>2
  <2> QED BY <2>3
<1> QED BY <1>1, <1>2, <1>3, <1>4

\* Signing moves the oldest answer from the queue into appendFile.
LEMMA SignKeepsOrder ==
    ASSUME TypeOK, TypeOK', NEW s \in Sessions, SessionOrder(s), SignEntry(s)
    PROVE  SessionOrder(s)'
<1>1. /\ stage[s] = "running" /\ appending[s] = <<>> /\ queue[s] # <<>>
      /\ UNCHANGED <<log, stage, pending, sent, unanswered, answered>>
      /\ queue'[s] = Tail(queue[s]) /\ Written(s)' = Written(s)
  BY SignEffect
<1>2. PICK e \in Entry : appending'[s] = <<e>> /\ e.session = s /\ e.answer = Head(queue[s])
  BY SignEffect
<1>3. queue[s] \in Seq(Answer) /\ answered[s] \in Seq(Answer)
  BY SessionTypes
<1>4. OwnEntries(s)' = OwnEntries(s)  BY <1>1 DEF OwnEntries
<1>5. OwnWork(s)'
  <2>1. Len(<<e>>) <= 1 /\ DOMAIN <<e>> = 1..1 /\ <<e>>[1] = e  OBVIOUS
  <2> QED BY <1>1, <1>2, <1>4, <2>1 DEF SessionOrder, OwnWork
<1>6. AnsweredOnce(s)'
  BY <1>1 DEF SessionOrder, AnsweredOnce
<1>7. QueueFollows(s)'
  <2>1. Behind(queue[s], <<>>, answered[s])  BY <1>1 DEF SessionOrder, QueueFollows
  <2>2. Behind(Tail(queue[s]), <<e>>, answered[s])
    BY <1>1, <1>2, <1>3, <2>1, BehindSigned
  <2> QED BY <1>1, <1>2, <2>2 DEF QueueFollows
<1>8. LogFollows(s)'
  BY <1>1, <1>4 DEF SessionOrder, LogFollows
<1> QED BY <1>5, <1>6, <1>7, <1>8 DEF SessionOrder

\* The end of an appendFile, or of the process, keeps the order.
LEMMA WriteKeepsOrder ==
    ASSUME TypeOK, TypeOK', NEW s \in Sessions, SessionOrder(s),
           AppendEntry(s) \/ AppendFails(s) \/ Exit(s)
    PROVE  SessionOrder(s)'
<1>1. /\ UNCHANGED pipes /\ appending'[s] = <<>> /\ log' \in {log, log \o appending[s]}
      /\ \/ stage[s] = "running" /\ UNCHANGED <<stage, pending, queue>>
         \/ stage'[s] = "exited" /\ pending'[s] = {} /\ queue'[s] = <<>>
  <2>1. CASE AppendEntry(s)  BY <2>1 DEF TypeOK, AppendEntry
  <2>2. CASE AppendFails(s)  BY <2>2 DEF TypeOK, AppendFails, files
  <2>3. CASE Exit(s)
    <3>1. stage'[s] = "exited" /\ pending'[s] = {} /\ queue'[s] = <<>> /\ appending'[s] = <<>>
      BY <2>3 DEF TypeOK, Exit
    <3> QED BY <2>3, <3>1 DEF Exit
  <2> QED BY <2>1, <2>2, <2>3
<1>2. UNCHANGED <<sent, unanswered, answered>>  BY <1>1 DEF pipes
<1>3. OwnWork(s) /\ AnsweredOnce(s) /\ QueueFollows(s) /\ LogFollows(s)
  BY DEF SessionOrder
<1>4. OwnEntries(s)' \in {OwnEntries(s), OwnEntries(s) \o appending[s]}
  BY <1>1, <1>3, OwnEntriesStep
<1>5. OwnWork(s)'
  <2>1. DOMAIN <<>> = {} /\ Len(<<>>) <= 1  OBVIOUS
  <2> QED BY <1>1, <1>2, <1>3, <2>1 DEF OwnWork
<1>6. AnsweredOnce(s)'
  BY <1>1, <1>2, <1>3 DEF AnsweredOnce
<1>7. QueueFollows(s)'
  <2>1. Behind(queue[s], <<>>, answered[s]) /\ Behind(<<>>, <<>>, answered[s])
    BY <1>3, SessionTypes, BehindDone DEF QueueFollows
  <2>2. queue'[s] = queue[s] \/ queue'[s] = <<>>  BY <1>1
  <2> QED BY <1>1, <1>2, <2>1, <2>2 DEF QueueFollows
<1>8. LogFollows(s)'
  <2>1. PICK n \in Nat, m \in Nat, k \in Nat :
           /\ n = Len(answered[s]) /\ DOMAIN answered[s] = 1..n
           /\ m = Len(queue[s]) /\ k = Len(appending[s]) /\ DOMAIN appending[s] = 1..k
           /\ Written(s) = n - m - k /\ (QueueFollows(s) => m + k <= n)
    BY Counts
  <2>2. PICK x \in Nat, y \in Nat, z \in Nat :
           /\ x = Len(answered'[s]) /\ y = Len(queue'[s]) /\ z = Len(appending'[s])
           /\ Written(s)' = x - y - z
    BY CountsNext
  <2>3. x = n /\ z = 0 /\ (y = m \/ y = 0)
    <3>1. Len(<<>>) = 0  OBVIOUS
    <3>2. queue'[s] = queue[s] \/ queue'[s] = <<>>  BY <1>1
    <3> QED BY <1>1, <1>2, <2>1, <2>2, <3>1, <3>2
  <2>4. m + k <= n  BY <1>3, <2>1
  <2>5. PICK v, w : v = x - y - z /\ w = n - m - k  OBVIOUS
  <2>6. v \in Nat /\ w \in Nat /\ w <= v /\ w + k <= v  BY <2>3, <2>4, <2>5
  <2>7. Follows(OwnEntries(s), answered[s], w)  BY <1>3, <2>1, <2>5 DEF LogFollows
  <2>8. SUFFICES Follows(OwnEntries(s)', answered[s], v)
    BY <1>2, <2>2, <2>5 DEF LogFollows
  <2>9. CASE OwnEntries(s)' = OwnEntries(s)
    BY <2>6, <2>7, <2>9, FollowsMore
  <2>10. CASE OwnEntries(s)' = OwnEntries(s) \o appending[s] /\ appending[s] # <<>>
    <3>1. PICK e \in Entry : appending[s] = <<e>>  BY <1>3, <2>10, WorkTypes
    <3>2. k = 1
      <4>1. Len(<<e>>) = 1  OBVIOUS
      <4> QED BY <2>1, <3>1, <4>1
    <3>3. w + 1 = n - m  BY <2>5, <3>2
    <3>4. e.answer = answered[s][w + 1]
      <4>1. 1 \in DOMAIN appending[s] /\ appending[s][1] = e  BY <3>1
      <4>2. appending[s][1].answer = answered[s][Len(answered[s]) - Len(queue[s])]
        BY <1>3, <4>1, Zenon DEF QueueFollows, Behind
      <4> QED BY <2>1, <3>3, <4>1, <4>2
    <3>5. OwnEntries(s)' = Append(OwnEntries(s), e)
      BY <2>10, <3>1, SessionTypes, AppendIsConcat
    <3>6. Follows(Append(OwnEntries(s), e), answered[s], w + 1)
      BY <2>6, <2>7, <3>4, SessionTypes, FollowsAppended
    <3>7. PICK u \in Int : u = w + 1 /\ u <= v  BY <2>6, <3>2
    <3>8. Follows(Append(OwnEntries(s), e), answered[s], v)
      BY <2>6, <3>6, <3>7, FollowsMore
    <3> QED BY <3>5, <3>8
  <2>11. CASE OwnEntries(s)' = OwnEntries(s) \o appending[s] /\ appending[s] = <<>>
    <3>1. OwnEntries(s)' = OwnEntries(s)  BY <2>11, SessionTypes, ConcatEmptySeq
    <3> QED BY <2>9, <3>1
  <2> QED BY <1>4, <2>9, <2>10, <2>11
<1> QED BY <1>5, <1>6, <1>7, <1>8 DEF SessionOrder

\* Every step keeps the order of every session.
LEMMA OrderStep ==
    ASSUME IdsApart
    PROVE  TypeOK /\ OrderInv /\ [Next]_vars => OrderInv'
<1> SUFFICES ASSUME TypeOK, OrderInv, [Next]_vars PROVE OrderInv'
  OBVIOUS
<1>1. TypeOK'  BY TypeStep
<1>2. CASE UNCHANGED vars
  <2>1. \A t \in Sessions : UNCHANGED Session(t)
    BY <1>2 DEF vars, files, process, pipes, Session, OwnEntries
  <2> QED BY <2>1, IdleKeepsOrder DEF OrderInv
<1>3. ASSUME NEW s \in Sessions,
             \/ Launch(s) \/ CreateKey(s) \/ AppendKey(s) \/ RestoreLastHash(s)
             \/ ClientLine(s) \/ ServerResponse(s) \/ ServerRequest(s)
             \/ SignEntry(s) \/ AppendEntry(s) \/ AppendFails(s) \/ Exit(s)
      PROVE  OrderInv'
  <2>1. SessionOrder(s)  BY DEF OrderInv
  <2>2. SessionOrder(s)'
    BY <1>1, <1>3, <2>1, StartKeepsOrder, ClientKeepsOrder, ResponseKeepsOrder,
       RequestKeepsOrder, SignKeepsOrder, WriteKeepsOrder
  <2>3. \A t \in Sessions : t # s => UNCHANGED Session(t)
    BY <1>3, <2>1, OthersKeep DEF SessionOrder
  <2>4. \A t \in Sessions : t # s => SessionOrder(t)'
    BY <2>3, IdleKeepsOrder DEF OrderInv
  <2> QED BY <2>2, <2>4 DEF OrderInv
<1> QED BY <1>2, <1>3, NextCases

\* Before the first session the order is empty.
LEMMA OrderInit == Init => OrderInv
<1> SUFFICES ASSUME Init, NEW s \in Sessions PROVE SessionOrder(s)
  BY DEF OrderInv
<1>1. /\ stage[s] = "off" /\ pending[s] = {} /\ queue[s] = <<>> /\ appending[s] = <<>>
      /\ sent[s] = 0 /\ unanswered[s] = {} /\ answered[s] = <<>>
  BY DEF Init
<1>2. OwnEntries(s) = <<>>
  <2>1. {i \in DOMAIN log : log[i].session = s} = {}  BY DEF Init
  <2> QED BY <2>1, SelectNone DEF OwnEntries
<1>3. DOMAIN <<>> = {} /\ Len(<<>>) <= 1  OBVIOUS
<1>4. OwnWork(s) /\ AnsweredOnce(s)  BY <1>1, <1>2, <1>3 DEF OwnWork, AnsweredOnce
<1>5. QueueFollows(s)  BY <1>1, BehindNothing DEF QueueFollows
<1>6. LogFollows(s)  BY <1>2, <1>3 DEF LogFollows, Follows
<1> QED BY <1>4, <1>5, <1>6 DEF SessionOrder

\* Where the answer of an entry is, is the only place where it is.
LEMMA PlaceUnique ==
    ASSUME NEW s \in Sessions, AnsweredOnce(s), NEW e, NEW j \in Place(s, e)
    PROVE  Place(s, e) = {j}
  BY DEF AnsweredOnce, Place

\* In every session, with other sessions at the same time, failed appends and
\* exits at any point, each entry has one answer the client got, and entries
\* are in the order of these (writeQueue.then in the handler of the server's
\* lines), unless the server's own ids are taken for those of calls.
THEOREM EntriesInOrder ==
    ASSUME IdsApart
    PROVE  Spec => []LoggedInOrder
<1>1. Init => OrderInv  BY OrderInit
<1>2. TypeOK /\ OrderInv /\ [Next]_vars => OrderInv'  BY OrderStep
<1>3. TypeOK /\ OrderInv => LoggedInOrder
  <2> SUFFICES ASSUME TypeOK, OrderInv, NEW s \in Sessions
               PROVE  LET own == OwnEntries(s) IN
                        /\ \A i \in DOMAIN own : Cardinality(Place(s, own[i])) = 1
                        /\ \A i, k \in DOMAIN own :
                              i < k => \A j \in Place(s, own[i]), l \in Place(s, own[k]) : j < l
    BY DEF LoggedInOrder
  <2> DEFINE own == OwnEntries(s)
  <2>1. AnsweredOnce(s) /\ QueueFollows(s) /\ LogFollows(s)  BY DEF OrderInv, SessionOrder
  <2>2. \A j \in 1..Written(s) : j \in DOMAIN answered[s]
    BY Counts
  <2>3. ASSUME NEW i \in DOMAIN own PROVE Cardinality(Place(s, own[i])) = 1
    <3>1. PICK j \in 1..Written(s) : own[i].answer = answered[s][j]
      BY <2>1 DEF LogFollows, Follows
    <3>2. j \in Place(s, own[i])  BY <2>2, <3>1 DEF Place
    <3>3. Place(s, own[i]) = {j}  BY <2>1, <3>2, PlaceUnique
    <3> QED BY <3>3, FS_Singleton
  <2>4. ASSUME NEW i \in DOMAIN own, NEW k \in DOMAIN own, i < k,
               NEW j \in Place(s, own[i]), NEW l \in Place(s, own[k])
        PROVE  j < l
    <3>1. PICK h \in 1..Written(s), g \in 1..Written(s) :
              h < g /\ own[i].answer = answered[s][h] /\ own[k].answer = answered[s][g]
      BY <2>1, <2>4 DEF LogFollows, Follows, Before
    <3>2. h \in Place(s, own[i]) /\ g \in Place(s, own[k])  BY <2>2, <3>1 DEF Place
    <3>3. h = j /\ g = l  BY <2>1, <3>2, PlaceUnique
    <3> QED BY <3>1, <3>3
  <2> QED BY <2>3, <2>4
<1> QED BY <1>1, <1>2, <1>3, TypeCorrect, PTL DEF Spec

-----------------------------------------------------------------------------
(* The links inside a session                                              *)

\* What the entry in appendFile is linked to, or the next one will be.
Link(s) == IF appending[s] = <<>> THEN lastHash[s] ELSE appending[s][1].record.previousHash

\* The head is the entry in appendFile, if there is one; and when the last
\* answer that is done with has been logged, its entry is what comes next is
\* linked to.
HeadFollows(s) ==
    LET own == OwnEntries(s) IN
        stage[s] = "running" =>
            /\ \A i \in DOMAIN appending[s] : lastHash[s] = hashRecord(appending[s][i].record)
            /\ own # <<>> /\ Written(s) >= 1
               /\ own[Len(own)].answer = answered[s][Written(s)]
                  => Link(s) = hashRecord(own[Len(own)].record)

\* Entry f follows entry e if their answers follow one another.
LinkedPair(s, e, f) ==
    (\E j \in Place(s, e) : j + 1 \in Place(s, f))
        => f.record.previousHash = hashRecord(e.record)

PairsLinked(s) ==
    LET own == OwnEntries(s) IN \A i \in 2..Len(own) : LinkedPair(s, own[i - 1], own[i])

SessionLinks(s) == HeadFollows(s) /\ PairsLinked(s)

LinkInv == OrderInv /\ \A s \in Sessions : SessionLinks(s)

\* The links of a session stay while it does nothing.
LEMMA IdleKeepsLinks ==
    ASSUME NEW s \in Sessions, UNCHANGED Session(s), SessionLinks(s)
    PROVE  SessionLinks(s)'
<1>1. /\ UNCHANGED stage[s] /\ UNCHANGED lastHash[s] /\ UNCHANGED queue[s]
      /\ UNCHANGED appending[s] /\ UNCHANGED answered[s] /\ UNCHANGED OwnEntries(s)
  BY DEF Session
<1>2. UNCHANGED Written(s) /\ UNCHANGED Link(s)  BY <1>1 DEF Taken, Written, Link
<1>3. \A e, f : LinkedPair(s, e, f)' <=> LinkedPair(s, e, f)
  BY <1>1 DEF LinkedPair, Place
<1>4. HeadFollows(s)'  BY <1>1, <1>2 DEF SessionLinks, HeadFollows
<1>5. PairsLinked(s)'  BY <1>1, <1>3 DEF SessionLinks, PairsLinked
<1> QED BY <1>4, <1>5 DEF SessionLinks

LEMMA EarlierPlace ==
    ASSUME NEW n \in Nat, NEW m \in Nat, NEW k \in Nat, NEW j \in 1..(n - m - k)
    PROVE  j \in 1..n
OBVIOUS

\* New answers give an entry in the log no new place.
LEMMA PlacesKept ==
    ASSUME TypeOK, NEW s \in Sessions, SessionOrder(s), AnsweredOnce(s)',
           answered'[s] \in Seq(Answer), Len(answered[s]) <= Len(answered'[s]),
           \A j \in 1..Len(answered[s]) : answered'[s][j] = answered[s][j]
    PROVE  \A i \in DOMAIN OwnEntries(s) : \E j \in 1..Written(s) :
              /\ \A e : e = OwnEntries(s)[i] => Place(s, e) = {j} /\ Place(s, e)' = {j}
<1> SUFFICES ASSUME NEW i \in DOMAIN OwnEntries(s)
             PROVE  \E j \in 1..Written(s) :
                \A e : e = OwnEntries(s)[i] => Place(s, e) = {j} /\ Place(s, e)' = {j}
  OBVIOUS
<1>1. PICK j \in 1..Written(s) : OwnEntries(s)[i].answer = answered[s][j]
  BY DEF SessionOrder, LogFollows, Follows
<1>2. j \in 1..Len(answered[s]) /\ j \in DOMAIN answered[s] /\ j \in DOMAIN answered'[s]
  <2>1. PICK n \in Nat, m \in Nat, k \in Nat :
           n = Len(answered[s]) /\ m = Len(queue[s]) /\ k = Len(appending[s])
    BY SessionTypes
  <2>2. Written(s) = n - m - k  BY <2>1 DEF Taken, Written
  <2>3. DOMAIN answered[s] = 1..n
    <3>1. answered[s] \in Seq(Answer)  BY DEF TypeOK
    <3>2. DOMAIN answered[s] = 1..Len(answered[s])  BY <3>1, LenProperties
    <3> QED BY <2>1, <3>2, Zenon
  <2>4. j \in 1..n
    <3>1. j \in 1..(n - m - k)  BY <2>2, Zenon
    <3> QED BY <3>1, EarlierPlace, Zenon
  <2>5. PICK x \in Nat : x = Len(answered'[s]) /\ DOMAIN answered'[s] = 1..x
    BY LenProperties
  <2>6. j \in 1..x  BY <2>1, <2>4, <2>5
  <2> QED BY <2>1, <2>3, <2>4, <2>5, <2>6
<1>3. ASSUME NEW e, e = OwnEntries(s)[i] PROVE Place(s, e) = {j} /\ Place(s, e)' = {j}
  <2>1. j \in Place(s, e) /\ j \in Place(s, e)'  BY <1>1, <1>2, <1>3 DEF Place
  <2>2. Place(s, e) = {j}  BY <2>1, PlaceUnique DEF SessionOrder
  <2>3. Place(s, e)' = {j}  BY <2>1 DEF AnsweredOnce, Place
  <2> QED BY <2>2, <2>3
<1> QED BY <1>1, <1>3

\* The pairs in the log stay linked when there are new answers.
LEMMA OldPairsLinked ==
    ASSUME TypeOK, NEW s \in Sessions, SessionOrder(s), AnsweredOnce(s)', PairsLinked(s),
           answered'[s] \in Seq(Answer), Len(answered[s]) <= Len(answered'[s]),
           \A j \in 1..Len(answered[s]) : answered'[s][j] = answered[s][j]
    PROVE  \A i \in 2..Len(OwnEntries(s)) : \A e, f :
              e = OwnEntries(s)[i - 1] /\ f = OwnEntries(s)[i] => LinkedPair(s, e, f)'
<1> SUFFICES ASSUME NEW i \in 2..Len(OwnEntries(s)), NEW e, NEW f,
                    e = OwnEntries(s)[i - 1], f = OwnEntries(s)[i]
             PROVE  LinkedPair(s, e, f)'
  OBVIOUS
<1>1. i \in DOMAIN OwnEntries(s) /\ i - 1 \in DOMAIN OwnEntries(s)
  BY SessionTypes
<1>2. Place(s, e)' = Place(s, e) /\ Place(s, f)' = Place(s, f)
  BY <1>1, PlacesKept
<1>3. LinkedPair(s, e, f)  BY DEF PairsLinked
<1> QED BY <1>2, <1>3 DEF LinkedPair

\* A step that does not write to the log keeps the pairs.
LEMMA PairsKept ==
    ASSUME TypeOK, NEW s \in Sessions, SessionOrder(s), AnsweredOnce(s)', PairsLinked(s),
           answered'[s] \in Seq(Answer), Len(answered[s]) <= Len(answered'[s]),
           \A j \in 1..Len(answered[s]) : answered'[s][j] = answered[s][j],
           OwnEntries(s)' = OwnEntries(s)
    PROVE  PairsLinked(s)'
<1> SUFFICES ASSUME NEW i \in 2..Len(OwnEntries(s)')
             PROVE  LinkedPair(s, OwnEntries(s)[i - 1], OwnEntries(s)[i])'
  BY DEF PairsLinked
<1>1. i \in 2..Len(OwnEntries(s))  OBVIOUS
<1>2. PICK e, f : e = OwnEntries(s)[i - 1] /\ f = OwnEntries(s)[i]  OBVIOUS
<1>3. e = OwnEntries(s)'[i - 1] /\ f = OwnEntries(s)'[i]  BY <1>2
<1>4. LinkedPair(s, e, f)'  BY <1>1, <1>2, OldPairsLinked
<1> QED BY <1>3, <1>4 DEF LinkedPair, Place

\* Nor does an append break one: the entry in appendFile is linked to the last
\* entry when no answer lies between the two.
LEMMA PairAppended ==
    ASSUME TypeOK, TypeOK', NEW s \in Sessions, SessionOrder(s), AnsweredOnce(s)',
           SessionLinks(s), UNCHANGED answered,
           OwnEntries(s)' = OwnEntries(s) \o appending[s]
    PROVE  PairsLinked(s)'
<1> DEFINE own == OwnEntries(s)
<1>1. /\ own \in Seq(Entry) /\ answered[s] \in Seq(Answer)
      /\ OwnWork(s) /\ AnsweredOnce(s) /\ QueueFollows(s)
      /\ PairsLinked(s) /\ HeadFollows(s)
  BY SessionTypes DEF SessionOrder, SessionLinks
<1>2. CASE appending[s] = <<>>
  <2>1. OwnEntries(s)' = own  BY <1>1, <1>2, ConcatEmptySeq
  <2> QED BY <1>1, <2>1, PairsKept
<1>3. ASSUME NEW g \in Entry, appending[s] = <<g>>, stage[s] = "running"
      PROVE  PairsLinked(s)'
  <2>1. PICK n \in Nat : n = Len(own)  BY <1>1, LenProperties
  <2>2. OwnEntries(s)' = Append(own, g)  BY <1>1, <1>3, AppendIsConcat
  <2>3. /\ Len(OwnEntries(s)') = n + 1 /\ OwnEntries(s)'[n + 1] = g
        /\ \A i \in 1..n : OwnEntries(s)'[i] = own[i]
    BY <1>1, <2>1, <2>2, AppendProperties
  <2>4. Link(s) = g.record.previousHash
    BY <1>3 DEF Link
  <2>5. PICK a \in Nat, m \in Nat, k \in Nat :
           /\ a = Len(answered[s]) /\ DOMAIN answered[s] = 1..a
           /\ m = Len(queue[s]) /\ k = Len(appending[s])
           /\ Written(s) = a - m - k /\ m + k <= a
    BY <1>1, Counts
  <2>6. k = 1
    <3>1. Len(<<g>>) = 1  BY SMT
    <3> QED BY <1>3, <2>5, <3>1
  <2>7. PICK w : w = a - m - k  OBVIOUS
  <2>8. w \in Nat /\ w + 1 = a - m /\ w + 1 \in 1..a
    <3>1. m + k <= a  BY <2>5
    <3> QED BY <2>6, <2>7, <3>1
  <2>9. g.answer = answered[s][w + 1]
    <3>1. 1 \in DOMAIN appending[s] /\ appending[s][1] = g  BY <1>3
    <3>2. appending[s][1].answer = answered[s][Len(answered[s]) - Len(queue[s])]
      BY <1>1, <3>1, Zenon DEF QueueFollows, Behind
    <3> QED BY <2>5, <2>8, <3>1, <3>2
  <2>10. Place(s, g) = {w + 1}
    <3>1. w + 1 \in Place(s, g)  BY <2>5, <2>8, <2>9 DEF Place
    <3> QED BY <1>1, <3>1, PlaceUnique
  <2>11. ASSUME NEW e, n >= 1, e = own[n] PROVE LinkedPair(s, e, g)
    <3> SUFFICES ASSUME NEW j \in Place(s, e), j + 1 \in Place(s, g)
                 PROVE  g.record.previousHash = hashRecord(e.record)
      BY DEF LinkedPair
    <3>1. j = w /\ j \in 1..a /\ e.answer = answered[s][j]
      <4>1. j \in 1..a /\ e.answer = answered[s][j]  BY <2>5 DEF Place
      <4>2. j + 1 = w + 1  BY <2>10
      <4> QED BY <2>8, <4>1, <4>2
    <3>2. own # <<>>
      <4>1. Len(<<>>) = 0  OBVIOUS
      <4> QED BY <2>1, <2>11, <4>1
    <3>3. Written(s) = w /\ w >= 1 /\ own[Len(own)] = e
      <4>1. w >= 1  BY <3>1
      <4>2. Written(s) = w  BY <2>5, <2>7
      <4>3. own[Len(own)] = e  BY <2>1, <2>11
      <4> QED BY <4>1, <4>2, <4>3
    <3> QED BY <1>1, <1>3, <2>4, <3>1, <3>2, <3>3 DEF HeadFollows
  <2>12. ASSUME NEW i \in 2..(n + 1), NEW e, NEW f,
                e = OwnEntries(s)'[i - 1], f = OwnEntries(s)'[i]
         PROVE  LinkedPair(s, e, f)'
    <3>1. CASE i \in 2..n
      <4>1. i - 1 \in 1..n /\ i \in 1..n  BY <3>1
      <4>2. e = own[i - 1] /\ f = own[i]  BY <2>3, <2>12, <4>1
      <4>3. LinkedPair(s, e, f)  BY <1>1, <2>1, <3>1, <4>2 DEF PairsLinked
      <4> QED BY <4>3 DEF LinkedPair, Place
    <3>2. CASE i = n + 1
      <4>1. n >= 1 /\ i - 1 = n /\ n \in 1..n  BY <3>2
      <4>2. e = own[n] /\ f = g  BY <2>3, <2>12, <3>2, <4>1
      <4>3. LinkedPair(s, e, f)  BY <2>11, <4>1, <4>2
      <4> QED BY <4>3 DEF LinkedPair, Place
    <3>3. i \in 2..n \/ i = n + 1  OBVIOUS
    <3> QED BY <3>1, <3>2, <3>3
  <2>13. ASSUME NEW i \in 2..(n + 1)
         PROVE  LinkedPair(s, OwnEntries(s)[i - 1], OwnEntries(s)[i])'
    <3>1. PICK e, f : e = OwnEntries(s)'[i - 1] /\ f = OwnEntries(s)'[i]  OBVIOUS
    <3>2. LinkedPair(s, e, f)'  BY <2>12, <3>1
    <3> QED BY <3>1, <3>2 DEF LinkedPair, Place
  <2> QED BY <2>3, <2>13 DEF PairsLinked
<1> QED BY <1>1, <1>2, <1>3, WorkTypes

\* Every step keeps the links of the session that takes it.
LEMMA SessionKeepsLinks ==
    ASSUME TypeOK, TypeOK', IdsApart, NEW s \in Sessions,
           SessionOrder(s), SessionOrder(s)', SessionLinks(s),
           \/ Launch(s) \/ CreateKey(s) \/ AppendKey(s) \/ RestoreLastHash(s)
           \/ ClientLine(s) \/ ServerResponse(s) \/ ServerRequest(s)
           \/ SignEntry(s) \/ AppendEntry(s) \/ AppendFails(s) \/ Exit(s)
    PROVE  SessionLinks(s)'
<1>1. CASE Launch(s) \/ CreateKey(s) \/ AppendKey(s) \/ RestoreLastHash(s)
  <2>1. stage[s] \notin {"running", "exited"} /\ UNCHANGED <<log, appending, answered>>
    BY <1>1 DEF Launch, CreateKey, AppendKey, RestoreLastHash, files, pipes
  <2>2. OwnEntries(s) = <<>> /\ appending[s] = <<>>
    BY <2>1 DEF SessionOrder, OwnWork
  <2>3. OwnEntries(s)' = <<>>  BY <2>1, <2>2 DEF OwnEntries
  <2>4. DOMAIN <<>> = {} /\ Len(<<>>) = 0 /\ 2..0 = {}  OBVIOUS
  <2>5. appending'[s] = <<>>  BY <2>1, <2>2
  <2> QED BY <2>3, <2>4, <2>5 DEF SessionLinks, HeadFollows, PairsLinked
<1>2. CASE ClientLine(s) \/ ServerResponse(s)
  <2>1. UNCHANGED <<log, stage, lastHash, appending>>
    BY <1>2 DEF ClientLine, ServerResponse, files
  <2>2. OwnEntries(s)' = OwnEntries(s) /\ Link(s)' = Link(s)
    BY <2>1 DEF OwnEntries, Link
  <2>3. /\ answered'[s] \in Seq(Answer) /\ Len(answered[s]) <= Len(answered'[s])
        /\ \A j \in 1..Len(answered[s]) : answered'[s][j] = answered[s][j]
        /\ Written(s)' = Written(s) /\ Written(s) <= Len(answered[s])
    <3>1. PICK n \in Nat, m \in Nat, k \in Nat :
             n = Len(answered[s]) /\ Written(s) = n - m - k
      BY Counts
    <3>5. answered[s] \in Seq(Answer) /\ Written(s) <= n  BY <3>1, SessionTypes
    <3>2. CASE ClientLine(s)
      <4>1. UNCHANGED <<queue, answered>>  BY <3>2 DEF ClientLine
      <4>2. Written(s)' = Written(s)  BY <2>1, <4>1 DEF Taken, Written
      <4> QED BY <3>1, <3>5, <4>1, <4>2
    <3>3. CASE ServerResponse(s)
      <4>1. PICK a \in Answer : answered'[s] = Append(answered[s], a)
        BY <3>3, ResponseEffect
      <4>2. Written(s)' = Written(s)  BY <3>3, ResponseEffect
      <4>3. /\ answered'[s] \in Seq(Answer) /\ Len(answered'[s]) = n + 1
            /\ \A j \in 1..n : answered'[s][j] = answered[s][j]
        BY <3>1, <3>5, <4>1, AppendProperties
      <4>4. n <= n + 1  OBVIOUS
      <4> QED BY <3>1, <3>5, <4>2, <4>3, <4>4
    <3> QED BY <1>2, <3>2, <3>3
  <2>4. PairsLinked(s)'
    BY <2>2, <2>3, PairsKept DEF SessionLinks, SessionOrder
  <2>5. Written(s) >= 1 => answered'[s][Written(s)] = answered[s][Written(s)]
    <3>1. PICK n \in Nat, w \in Int : n = Len(answered[s]) /\ w = Written(s)  BY Counts
    <3>2. w >= 1 => w \in 1..n  BY <2>3, <3>1
    <3> QED BY <2>3, <3>1, <3>2
  <2>6. HeadFollows(s)'
    BY <2>1, <2>2, <2>3, <2>5 DEF SessionLinks, HeadFollows
  <2> QED BY <2>4, <2>6 DEF SessionLinks
<1>3. CASE ServerRequest(s)
  <2>1. UNCHANGED vars  BY <1>3, RequestKeepsOrder
  <2>2. UNCHANGED Session(s)  BY <2>1 DEF vars, files, process, pipes, Session, OwnEntries
  <2> QED BY <2>2, IdleKeepsLinks
<1>4. CASE SignEntry(s)
  <2>1. /\ stage[s] = "running" /\ appending[s] = <<>> /\ UNCHANGED <<log, stage, answered>>
        /\ lastHash'[s] = nextHash /\ Written(s)' = Written(s)
    BY <1>4, SignEffect
  <2>2. PICK e : appending'[s] = <<e>> /\ e.record = AuditRecord(nextHash, lastHash[s])
    BY <1>4, SignEffect
  <2>3. OwnEntries(s)' = OwnEntries(s)  BY <2>1 DEF OwnEntries
  <2>4. Written(s)' = Written(s)  BY <2>1
  <2>5. /\ Link(s)' = Link(s)
        /\ \A i \in DOMAIN appending'[s] : lastHash'[s] = hashRecord(appending'[s][i].record)
    BY <2>1, <2>2 DEF Link, AuditRecord, hashRecord
  <2>6. HeadFollows(s)'  BY <2>1, <2>3, <2>4, <2>5 DEF SessionLinks, HeadFollows
  <2>7. PairsLinked(s)'
    BY <2>1, <2>3, SessionTypes, PairsKept DEF SessionLinks, SessionOrder
  <2> QED BY <2>6, <2>7 DEF SessionLinks
<1>5. CASE AppendEntry(s) \/ AppendFails(s) \/ Exit(s)
  <2>1. /\ UNCHANGED <<answered, lastHash>> /\ log' \in {log, log \o appending[s]}
        /\ appending'[s] = <<>>
    BY <1>5 DEF TypeOK, AppendEntry, AppendFails, Exit, files, pipes
  <2>2. /\ log' = log => OwnEntries(s)' = OwnEntries(s)
        /\ log' = log \o appending[s] => OwnEntries(s)' = OwnEntries(s) \o appending[s]
    BY <2>1, OwnEntriesStep DEF SessionOrder
  <2>3. PairsLinked(s)'
    <3>1. CASE OwnEntries(s)' = OwnEntries(s)
      BY <2>1, <3>1, SessionTypes, PairsKept DEF SessionLinks, SessionOrder
    <3>2. CASE OwnEntries(s)' = OwnEntries(s) \o appending[s]
      BY <2>1, <3>2, PairAppended DEF SessionOrder
    <3> QED BY <2>1, <2>2, <3>1, <3>2
  <2>4. HeadFollows(s)'
    <3>1. CASE Exit(s)
      <4>1. stage'[s] = "exited"  BY <3>1 DEF TypeOK, Exit
      <4> QED BY <4>1 DEF HeadFollows
    <3>2. CASE AppendEntry(s)
      <4>1. stage[s] = "running" /\ appending[s] # <<>> /\ log' = log \o appending[s]
        BY <3>2 DEF AppendEntry
      <4>2. PICK e \in Entry : appending[s] = <<e>>  BY <4>1, WorkTypes DEF SessionOrder
      <4>3. OwnEntries(s)'[Len(OwnEntries(s)')] = e
        <5>1. PICK n \in Nat : n = Len(OwnEntries(s)) /\ OwnEntries(s) \in Seq(Entry)
          BY SessionTypes
        <5>2. OwnEntries(s)' = Append(OwnEntries(s), e)
          BY <2>2, <4>1, <4>2, <5>1, AppendIsConcat
        <5> QED BY <5>1, <5>2, AppendProperties
      <4>4. Link(s)' = lastHash[s] /\ lastHash[s] = hashRecord(e.record)
        <5>1. 1 \in DOMAIN appending[s] /\ appending[s][1] = e  BY <4>2
        <5> QED BY <2>1, <4>1, <5>1 DEF Link, SessionLinks, HeadFollows
      <4>5. DOMAIN appending'[s] = {}  BY <2>1
      <4> QED BY <4>3, <4>4, <4>5 DEF HeadFollows
    <3>3. CASE AppendFails(s)
      <4> DEFINE own == OwnEntries(s)
      <4>1. appending[s] # <<>> /\ UNCHANGED <<log, queue>>
        BY <3>3 DEF AppendFails, files
      <4>2. own' = own  BY <2>2, <4>1
      <4>3. PICK e \in Entry : appending[s] = <<e>>  BY <4>1, WorkTypes DEF SessionOrder
      <4>4. PICK a \in Nat, m \in Nat, k \in Nat :
               /\ a = Len(answered[s]) /\ DOMAIN answered[s] = 1..a
               /\ m = Len(queue[s]) /\ k = Len(appending[s])
               /\ Written(s) = a - m - k /\ (QueueFollows(s) => m + k <= a)
        BY Counts
      <4>5. PICK x \in Nat, y \in Nat, z \in Nat :
               /\ x = Len(answered'[s]) /\ y = Len(queue'[s]) /\ z = Len(appending'[s])
               /\ Written(s)' = x - y - z
        BY CountsNext
      <4>6. x = a /\ y = m /\ z = 0 /\ k = 1
        <5>1. Len(<<>>) = 0 /\ Len(<<e>>) = 1  OBVIOUS
        <5> QED BY <2>1, <4>1, <4>3, <4>4, <4>5, <5>1
      <4>7. PICK v, w : v = x - y - z /\ w = a - m - k  OBVIOUS
      <4>8. m + k <= a  BY <4>4 DEF SessionOrder
      <4>9. v \in 1..a /\ w \in Nat /\ w < v /\ w <= a  BY <4>6, <4>7, <4>8
      <4>10. ASSUME own # <<>> PROVE own[Len(own)].answer # answered[s][v]
        <5>1. Len(own) \in DOMAIN own
          <6>1. PICK n \in Nat : n = Len(own) /\ own \in Seq(Entry)  BY SessionTypes
          <6>2. n # 0  BY <4>10, <6>1, EmptySeq
          <6> QED BY <6>1, <6>2
        <5>2. PICK j \in 1..w : own[Len(own)].answer = answered[s][j]
          BY <4>4, <4>7, <5>1 DEF SessionOrder, LogFollows, Follows
        <5>3. j \in 1..a /\ j # v  BY <4>9
        <5> QED BY <4>4, <4>9, <5>2, <5>3 DEF SessionOrder, AnsweredOnce
      <4>11. DOMAIN appending'[s] = {} /\ Written(s)' = v  BY <2>1, <4>5, <4>7
      <4>12. own' # <<>> => own'[Len(own')].answer # answered'[s][Written(s)']
        BY <2>1, <4>2, <4>10, <4>11
      <4> QED BY <4>11, <4>12 DEF HeadFollows
    <3> QED BY <1>5, <3>1, <3>2, <3>3
  <2> QED BY <2>3, <2>4 DEF SessionLinks
<1> QED BY <1>1, <1>2, <1>3, <1>4, <1>5

\* Every step keeps the links of every session.
LEMMA LinkStep ==
    ASSUME IdsApart
    PROVE  TypeOK /\ LinkInv /\ [Next]_vars => LinkInv'
<1> SUFFICES ASSUME TypeOK, LinkInv, [Next]_vars PROVE LinkInv'
  OBVIOUS
<1>1. TypeOK' /\ OrderInv'  BY TypeStep, OrderStep DEF LinkInv
<1>2. CASE UNCHANGED vars
  <2>1. \A t \in Sessions : UNCHANGED Session(t)
    BY <1>2 DEF vars, files, process, pipes, Session, OwnEntries
  <2> QED BY <1>1, <2>1, IdleKeepsLinks DEF LinkInv
<1>3. ASSUME NEW s \in Sessions,
             \/ Launch(s) \/ CreateKey(s) \/ AppendKey(s) \/ RestoreLastHash(s)
             \/ ClientLine(s) \/ ServerResponse(s) \/ ServerRequest(s)
             \/ SignEntry(s) \/ AppendEntry(s) \/ AppendFails(s) \/ Exit(s)
      PROVE  LinkInv'
  <2>1. SessionOrder(s) /\ SessionOrder(s)' /\ SessionLinks(s)
    BY <1>1 DEF LinkInv, OrderInv
  <2>2. SessionLinks(s)'  BY <1>1, <1>3, <2>1, SessionKeepsLinks
  <2>3. \A t \in Sessions : t # s => UNCHANGED Session(t)
    BY <1>3, <2>1, OthersKeep DEF SessionOrder
  <2>4. \A t \in Sessions : t # s => SessionLinks(t)'
    BY <2>3, IdleKeepsLinks DEF LinkInv
  <2> QED BY <1>1, <2>2, <2>4 DEF LinkInv
<1> QED BY <1>2, <1>3, NextCases

\* In every session, however the entries of other processes lie between and
\* whatever appends failed before, the entries of two answers with no other
\* between them are linked (lastHash is the process's own).
THEOREM EntriesLinked ==
    ASSUME IdsApart
    PROVE  Spec => []SessionLinked
<1>1. Init => LinkInv
  <2> SUFFICES ASSUME Init PROVE LinkInv  OBVIOUS
  <2>1. OrderInv  BY OrderInit
  <2>2. \A s \in Sessions : stage[s] = "off"  BY DEF Init
  <2>3. \A s \in Sessions : OwnEntries(s) = <<>>
    BY <2>1, <2>2 DEF OrderInv, SessionOrder, OwnWork
  <2>4. Len(<<>>) = 0 /\ 2..0 = {}  OBVIOUS
  <2> QED BY <2>1, <2>2, <2>3, <2>4 DEF LinkInv, SessionLinks, HeadFollows, PairsLinked
<1>2. TypeOK /\ LinkInv /\ [Next]_vars => LinkInv'  BY LinkStep
<1>3. LinkInv => SessionLinked
  BY DEF LinkInv, SessionLinks, PairsLinked, LinkedPair, SessionLinked
<1> QED BY <1>1, <1>2, <1>3, TypeCorrect, PTL DEF Spec

-----------------------------------------------------------------------------
(* The log without failed appends                                          *)

\* The i-th entry is the i-th answer's.
Matches(entries, answers) == \A i \in DOMAIN entries : entries[i].answer = answers[i]

\* While the process runs, all that is done with is in the log.
NoneLost(s) ==
    /\ Matches(OwnEntries(s), answered[s])
    /\ Len(OwnEntries(s)) <= Written(s)
    /\ stage[s] = "running" => Len(OwnEntries(s)) = Written(s)

LossInv == OrderInv /\ \A s \in Sessions : NoneLost(s)

\* A session that does nothing loses nothing.
LEMMA IdleLosesNothing ==
    ASSUME NEW s \in Sessions, UNCHANGED Session(s), NoneLost(s)
    PROVE  NoneLost(s)'
<1>1. /\ UNCHANGED stage[s] /\ UNCHANGED queue[s] /\ UNCHANGED appending[s]
      /\ UNCHANGED answered[s] /\ UNCHANGED OwnEntries(s)
  BY DEF Session
<1>2. Written(s)' = Written(s)  BY <1>1 DEF Taken, Written
<1> QED BY <1>1, <1>2 DEF NoneLost

\* The next answer's entry may be appended.
LEMMA MatchesAppended ==
    ASSUME NEW entries \in Seq(Entry), NEW answers, NEW n \in Nat, n = Len(entries),
           NEW e \in Entry, e.answer = answers[n + 1], Matches(entries, answers)
    PROVE  Matches(Append(entries, e), answers)
<1>1. /\ DOMAIN entries = 1..n /\ DOMAIN Append(entries, e) = 1..(n + 1)
      /\ (\A i \in 1..n : Append(entries, e)[i] = entries[i]) /\ Append(entries, e)[n + 1] = e
  BY AppendProperties
<1>2. \A i \in 1..(n + 1) : i \in 1..n \/ i = n + 1  OBVIOUS
<1>3. \A i \in 1..n : entries[i].answer = answers[i]  BY <1>1 DEF Matches
<1>4. ASSUME NEW i \in 1..(n + 1) PROVE Append(entries, e)[i].answer = answers[i]
  BY <1>1, <1>2, <1>3
<1> QED BY <1>1, <1>4 DEF Matches

\* No step of a session loses an entry, if no append fails.
LEMMA SessionLosesNothing ==
    ASSUME TypeOK, TypeOK', IdsApart, "write" \notin Faults, NEW s \in Sessions,
           SessionOrder(s), SessionOrder(s)', NoneLost(s),
           \/ Launch(s) \/ CreateKey(s) \/ AppendKey(s) \/ RestoreLastHash(s)
           \/ ClientLine(s) \/ ServerResponse(s) \/ ServerRequest(s)
           \/ SignEntry(s) \/ AppendEntry(s) \/ AppendFails(s) \/ Exit(s)
    PROVE  NoneLost(s)'
<1> DEFINE own == OwnEntries(s)
<1>1. CASE Launch(s) \/ CreateKey(s) \/ AppendKey(s) \/ RestoreLastHash(s)
  <2>1. /\ stage[s] \notin {"running", "exited"}
        /\ UNCHANGED <<log, queue, appending, answered>>
    BY <1>1 DEF Launch, CreateKey, AppendKey, RestoreLastHash, files, pipes
  <2>2. own = <<>> /\ answered[s] = <<>> /\ queue[s] = <<>> /\ appending[s] = <<>>
    BY <2>1 DEF SessionOrder, OwnWork
  <2>3. own' = <<>>  BY <2>1, <2>2 DEF OwnEntries
  <2>4. PICK z \in Nat : z = Len(<<>>) /\ z = 0 - 0 /\ z - z - z = z  OBVIOUS
  <2>5. Written(s)' = z  BY <2>1, <2>2, <2>4 DEF Taken, Written
  <2>6. Len(own') = z /\ z <= z  BY <2>3, <2>4
  <2>7. Matches(own', answered'[s])  BY <2>3 DEF Matches
  <2> QED BY <2>5, <2>6, <2>7 DEF NoneLost
<1>2. CASE ClientLine(s) \/ ServerResponse(s) \/ SignEntry(s)
  <2>1. UNCHANGED <<log, stage>> /\ Written(s)' = Written(s)
    <3>1. CASE ClientLine(s)  BY <3>1 DEF ClientLine, files, Taken, Written
    <3>2. CASE ServerResponse(s)  BY <3>2, ResponseEffect
    <3>3. CASE SignEntry(s)  BY <3>3, SignEffect
    <3> QED BY <1>2, <3>1, <3>2, <3>3
  <2>2. own' = own  BY <2>1 DEF OwnEntries
  <2>3. PICK n \in Nat, w \in Int, o \in Nat :
           /\ n = Len(answered[s]) /\ w = Written(s) /\ w <= n
           /\ o = Len(own) /\ DOMAIN own = 1..o
    <3>1. PICK n \in Nat, m \in Nat, k \in Nat :
             n = Len(answered[s]) /\ Written(s) = n - m - k
      BY Counts
    <3>2. PICK w \in Int : w = n - m - k /\ w <= n  OBVIOUS
    <3>3. own \in Seq(Entry)  BY SessionTypes
    <3>4. PICK o \in Nat : o = Len(own) /\ DOMAIN own = 1..o  BY <3>3, LenProperties
    <3> QED BY <3>1, <3>2, <3>4
  <2>4. \A j \in 1..n : answered'[s][j] = answered[s][j]
    <3>1. CASE ClientLine(s) \/ SignEntry(s)
      BY <3>1, SignEffect DEF ClientLine
    <3>2. CASE ServerResponse(s)
      <4>1. PICK a \in Answer : answered'[s] = Append(answered[s], a)
        BY <3>2, ResponseEffect
      <4> QED BY <2>3, <4>1, SessionTypes, AppendProperties
    <3> QED BY <1>2, <3>1, <3>2
  <2>5. o <= n  BY <2>3 DEF NoneLost
  <2>6. Matches(own', answered'[s])
    <3>1. \A i \in 1..o : i \in 1..n  BY <2>5
    <3> QED BY <2>2, <2>3, <2>4, <3>1 DEF NoneLost, Matches
  <2> QED BY <2>1, <2>2, <2>6 DEF NoneLost
<1>3. CASE ServerRequest(s)
  <2>1. UNCHANGED vars  BY <1>3, RequestKeepsOrder
  <2>2. UNCHANGED Session(s)  BY <2>1 DEF vars, files, process, pipes, Session, OwnEntries
  <2> QED BY <2>2, IdleLosesNothing
<1>4. CASE AppendEntry(s) \/ Exit(s)
  <2>1. /\ UNCHANGED answered /\ log' \in {log, log \o appending[s]} /\ appending'[s] = <<>>
        /\ \/ stage[s] = "running" /\ UNCHANGED <<stage, queue>> /\ log' = log \o appending[s]
           \/ stage'[s] = "exited" /\ queue'[s] = <<>>
    <3>1. CASE AppendEntry(s)  BY <3>1 DEF TypeOK, AppendEntry, pipes
    <3>2. CASE Exit(s)
      <4>1. stage'[s] = "exited" /\ queue'[s] = <<>> /\ appending'[s] = <<>>
        BY <3>2 DEF TypeOK, Exit
      <4> QED BY <3>2, <4>1 DEF Exit, pipes
    <3> QED BY <1>4, <3>1, <3>2
  <2>2. PICK n \in Nat, m \in Nat, k \in Nat :
           /\ n = Len(answered[s]) /\ m = Len(queue[s]) /\ k = Len(appending[s])
           /\ Written(s) = n - m - k /\ (QueueFollows(s) => m + k <= n)
    BY Counts
  <2>3. PICK x \in Nat, y \in Nat, z \in Nat :
           /\ x = Len(answered'[s]) /\ y = Len(queue'[s]) /\ z = Len(appending'[s])
           /\ Written(s)' = x - y - z
    BY CountsNext
  <2>4. m + k <= n  BY <2>2 DEF SessionOrder
  <2>5. x = n /\ z = 0 /\ (y = 0 \/ y = m) /\ (stage'[s] = "running" => y = m)
    <3>1. Len(<<>>) = 0  OBVIOUS
    <3>2. x = n /\ z = 0  BY <2>1, <2>2, <2>3, <3>1
    <3>3. CASE stage[s] = "running" /\ UNCHANGED <<stage, queue>>
      BY <2>2, <2>3, <3>2, <3>3
    <3>4. CASE stage'[s] = "exited" /\ queue'[s] = <<>>
      BY <2>3, <3>1, <3>2, <3>4
    <3> QED BY <2>1, <3>3, <3>4
  <2>6. PICK v, w : v = x - y - z /\ w = n - m - k  OBVIOUS
  <2>7. v \in Nat /\ w \in Nat /\ w + k <= v /\ (stage'[s] = "running" => w + k = v)
    BY <2>1, <2>4, <2>5, <2>6
  <2>8. PICK o \in Nat : o = Len(own) /\ own \in Seq(Entry)  BY SessionTypes
  <2>9. o <= w /\ (stage[s] = "running" => o = w) /\ Matches(own, answered[s])
    BY <2>2, <2>6, <2>8 DEF NoneLost
  <2>10. SUFFICES /\ Matches(own', answered[s]) /\ Len(own') <= v
                  /\ stage'[s] = "running" => Len(own') = v
    BY <2>1, <2>3, <2>6 DEF NoneLost
  <2>11. CASE appending[s] = <<>>
    <3>1. log' = log  BY <2>1, <2>11, ConcatEmptySeq DEF TypeOK
    <3>2. own' = own  BY <3>1 DEF OwnEntries
    <3>3. Len(<<>>) = 0  OBVIOUS
    <3>4. k = 0  BY <2>2, <2>11, <3>3
    <3>5. o <= v /\ (stage'[s] = "running" => o = v)
      <4>1. stage'[s] = "running" => stage[s] = "running"  BY <2>1
      <4> QED BY <2>7, <2>9, <3>4, <4>1
    <3> QED BY <2>8, <2>9, <3>2, <3>5
  <2>12. ASSUME NEW e \in Entry, appending[s] = <<e>>, stage[s] = "running"
         PROVE  /\ Matches(own', answered[s]) /\ Len(own') <= v
                /\ stage'[s] = "running" => Len(own') = v
    <3>1. k = 1
      <4>1. Len(<<e>>) = 1  OBVIOUS
      <4> QED BY <2>2, <2>12, <4>1
    <3>2. o = w  BY <2>9, <2>12
    <3>3. CASE own' = own
      <4>1. o <= v  BY <2>7, <3>2
      <4>2. log' # log \o appending[s]
        <5>1. ASSUME log' = log \o appending[s] PROVE FALSE
          <6>1. own' = Append(own, e)
            BY <2>1, <2>8, <2>12, <5>1, OwnEntriesStep, AppendIsConcat DEF SessionOrder
          <6>2. Len(Append(own, e)) = o + 1  BY <2>8, AppendProperties
          <6>3. o + 1 # o  OBVIOUS
          <6> QED BY <2>8, <3>3, <6>1, <6>2, <6>3
        <5> QED BY <5>1
      <4>3. stage'[s] # "running"  BY <2>1, <4>2
      <4> QED BY <2>8, <2>9, <3>3, <4>1, <4>3
    <3>4. CASE own' = Append(own, e)
      <4>1. Len(own') = o + 1  BY <2>8, <3>4, AppendProperties
      <4>2. o + 1 = n - m  BY <2>6, <3>1, <3>2
      <4>3. e.answer = answered[s][o + 1]
        <5>1. 1 \in DOMAIN appending[s] /\ appending[s][1] = e  BY <2>12
        <5>2. appending[s][1].answer = answered[s][Len(answered[s]) - Len(queue[s])]
          BY <5>1, Zenon DEF SessionOrder, QueueFollows, Behind
        <5> QED BY <2>2, <4>2, <5>1, <5>2
      <4>4. Matches(Append(own, e), answered[s])
        BY <2>8, <2>9, <4>3, MatchesAppended
      <4>5. o + 1 <= v /\ (stage'[s] = "running" => o + 1 = v)
        BY <2>7, <3>1, <3>2
      <4> QED BY <3>4, <4>1, <4>4, <4>5
    <3>5. own' = own \/ own' = Append(own, e)
      <4>1. own' = own \/ own' = own \o appending[s]
        BY <2>1, OwnEntriesStep DEF SessionOrder
      <4> QED BY <2>8, <2>12, <4>1, AppendIsConcat
    <3> QED BY <3>3, <3>4, <3>5
  <2> QED BY <2>11, <2>12, WorkTypes DEF SessionOrder
<1> QED BY <1>1, <1>2, <1>3, <1>4 DEF AppendFails

\* Every step keeps the log complete, if no append fails.
LEMMA LossStep ==
    ASSUME IdsApart, "write" \notin Faults
    PROVE  TypeOK /\ LossInv /\ [Next]_vars => LossInv'
<1> SUFFICES ASSUME TypeOK, LossInv, [Next]_vars PROVE LossInv'
  OBVIOUS
<1>1. TypeOK' /\ OrderInv'  BY TypeStep, OrderStep DEF LossInv
<1>2. CASE UNCHANGED vars
  <2>1. \A t \in Sessions : UNCHANGED Session(t)
    BY <1>2 DEF vars, files, process, pipes, Session, OwnEntries
  <2> QED BY <1>1, <2>1, IdleLosesNothing DEF LossInv
<1>3. ASSUME NEW s \in Sessions,
             \/ Launch(s) \/ CreateKey(s) \/ AppendKey(s) \/ RestoreLastHash(s)
             \/ ClientLine(s) \/ ServerResponse(s) \/ ServerRequest(s)
             \/ SignEntry(s) \/ AppendEntry(s) \/ AppendFails(s) \/ Exit(s)
      PROVE  LossInv'
  <2>1. SessionOrder(s) /\ SessionOrder(s)' /\ NoneLost(s)
    BY <1>1 DEF LossInv, OrderInv
  <2>2. NoneLost(s)'  BY <1>1, <1>3, <2>1, SessionLosesNothing
  <2>3. \A t \in Sessions : t # s => UNCHANGED Session(t)
    BY <1>3, <2>1, OthersKeep DEF SessionOrder
  <2>4. \A t \in Sessions : t # s => NoneLost(t)'
    BY <2>3, IdleLosesNothing DEF LossInv
  <2> QED BY <1>1, <2>2, <2>4 DEF LossInv
<1> QED BY <1>2, <1>3, NextCases

\* The answers of a sequence of entries.
Answers(entries) == [i \in DOMAIN entries |-> entries[i].answer]

LEMMA AnswersType ==
    ASSUME NEW entries \in Seq(Entry), NEW n \in Nat, n = Len(entries)
    PROVE  /\ Answers(entries) \in Seq(Answer) /\ Len(Answers(entries)) = n
           /\ \A i \in 1..n : Answers(entries)[i] = entries[i].answer
<1>1. DOMAIN entries = 1..n  OBVIOUS
<1>2. \A i \in 1..n : entries[i].answer \in Answer
  BY <1>1, EntryFacts
<1>3. Answers(entries) = [i \in 1..n |-> entries[i].answer]  BY <1>1 DEF Answers
<1> QED BY <1>2, <1>3, IsASeq

LEMMA ConcatCounts ==
    ASSUME NEW S, NEW x \in Seq(S), NEW y \in Seq(S), NEW n, NEW m, n = Len(x), m = Len(y)
    PROVE  /\ x \o y \in Seq(S) /\ Len(x \o y) = n + m
           /\ \A i \in 1..(n + m) : (x \o y)[i] = IF i <= n THEN x[i] ELSE y[i - n]
BY ConcatProperties

\* A log that misses nothing, what is in appendFile and the queue are together
\* all the answers.
LEMMA AllAnswers ==
    ASSUME NEW entries \in Seq(Entry), NEW w \in Seq(Entry), NEW q \in Seq(Answer),
           NEW ans \in Seq(Answer), Matches(entries, ans), Behind(q, w, ans),
           NEW o \in Nat, NEW k \in Nat, NEW m \in Nat, NEW n \in Nat,
           o = Len(entries), k = Len(w), m = Len(q), n = Len(ans), k <= 1, o = n - m - k
    PROVE  Answers(entries) \o Answers(w) \o q = ans
<1> DEFINE a == Answers(entries)
           b == Answers(w)
<1>1. a \in Seq(Answer) /\ Len(a) = o /\ \A i \in 1..o : a[i] = entries[i].answer
  BY AnswersType
<1>2. b \in Seq(Answer) /\ Len(b) = k /\ \A i \in 1..k : b[i] = w[i].answer
  BY AnswersType
<1> HIDE DEF a, b
<1>3. /\ a \o b \in Seq(Answer) /\ Len(a \o b) = o + k
      /\ \A i \in 1..(o + k) : (a \o b)[i] = IF i <= o THEN a[i] ELSE b[i - o]
  BY <1>1, <1>2, ConcatProperties
<1> DEFINE c == a \o b
<1> HIDE DEF c
<1>4. /\ c \o q \in Seq(Answer) /\ Len(c \o q) = o + k + m
      /\ \A i \in 1..(o + k + m) : (c \o q)[i] = IF i <= o + k THEN c[i] ELSE q[i - (o + k)]
  <2>1. c \in Seq(Answer) /\ o + k = Len(c) /\ m = Len(q)  BY <1>3 DEF c
  <2>2. PICK r : r = o + k  OBVIOUS
  <2>3. r = Len(c)  BY <2>1, <2>2
  <2>4. /\ c \o q \in Seq(Answer) /\ Len(c \o q) = r + m
        /\ \A i \in 1..(r + m) : (c \o q)[i] = IF i <= r THEN c[i] ELSE q[i - r]
    BY <2>1, <2>3, ConcatCounts
  <2> QED BY <2>2, <2>4, Zenon
<1>5. o + k + m = n /\ n - m = o + k  OBVIOUS
<1>6. /\ \A i \in 1..o : entries[i].answer = ans[i]
      /\ \A i \in 1..m : q[i] = ans[o + k + i]
      /\ \A i \in 1..k : w[i].answer = ans[o + k]
  <2>1. DOMAIN entries = 1..o /\ DOMAIN w = 1..k /\ DOMAIN q = 1..m
    <3>1. DOMAIN entries = 1..o  BY DomainCounts, Zenon
    <3>2. DOMAIN w = 1..k  OBVIOUS
    <3>3. DOMAIN q = 1..m  OBVIOUS
    <3> QED BY <3>1, <3>2, <3>3, Zenon
  <2>2. Len(ans) - Len(q) = o + k  BY <1>5
  <2> QED BY <2>1, <2>2, Zenon DEF Matches, Behind
<1>7. ASSUME NEW i \in 1..n PROVE (c \o q)[i] = ans[i]
  <2>1. CASE i \in 1..o
    <3>1. i <= o /\ i <= o + k /\ i \in 1..(o + k) /\ i \in 1..(o + k + m)  BY <2>1
    <3>2. (c \o q)[i] = c[i]  BY <1>4, <3>1
    <3>3. c[i] = a[i]  BY <1>3, <3>1 DEF c
    <3> QED BY <1>1, <1>6, <2>1, <3>2, <3>3
  <2>2. CASE i = o + 1 /\ k = 1
    <3>1. ~(i <= o) /\ i <= o + k /\ i \in 1..(o + k) /\ i \in 1..(o + k + m) /\ i - o = 1
          /\ 1 \in 1..k /\ o + k = i
      BY <2>2
    <3>2. (c \o q)[i] = c[i]  BY <1>4, <3>1
    <3>3. c[i] = b[1]  BY <1>3, <3>1 DEF c
    <3> QED BY <1>2, <1>6, <3>1, <3>2, <3>3
  <2>3. CASE i > o + k
    <3> PICK j : j = i - (o + k)  OBVIOUS
    <3>1. j \in 1..m /\ o + k + j = i  BY <1>5, <2>3
    <3>2. ~(i <= o + k) /\ i \in 1..(o + k + m)  BY <1>5, <2>3
    <3>3. (c \o q)[i] = q[j]  BY <1>4, <3>1, <3>2
    <3> QED BY <1>6, <3>1, <3>3
  <2>4. i \in 1..o \/ (i = o + 1 /\ k = 1) \/ i > o + k  OBVIOUS
  <2> QED BY <2>1, <2>2, <2>3, <2>4
<1>8. Len(c \o q) = Len(ans)  BY <1>4, <1>5
<1>9. c \o q = ans  BY <1>4, <1>7, <1>8, SeqEqual
<1> QED BY <1>9 DEF a, b, c

\* The first answers are a prefix.
LEMMA FirstAnswers ==
    ASSUME NEW p \in Seq(Answer), NEW ans \in Seq(Answer), NEW o \in Nat, NEW n \in Nat,
           o = Len(p), n = Len(ans), o <= n, \A i \in 1..o : p[i] = ans[i]
    PROVE  IsPrefix(p, ans)
<1>1. SubSeq(p, 1, o) = [i \in 1..o |-> p[i]] /\ SubSeq(ans, 1, o) = [i \in 1..o |-> ans[i]]
  OBVIOUS
<1>2. SubSeq(p, 1, o) = SubSeq(ans, 1, o)  BY <1>1
<1> QED BY <1>2 DEF IsPrefix

\* When no append fails, what is in the log, in appendFile and on the queue is
\* exactly what the client was answered, in that order, and a process that has
\* ended leaves a prefix of it, whatever other processes write in between.
THEOREM LogFollowsAnswers ==
    ASSUME IdsApart, "write" \notin Faults
    PROVE  Spec => []LogFollowsClient
<1>1. Init => LossInv
  <2> SUFFICES ASSUME Init PROVE LossInv  OBVIOUS
  <2>1. OrderInv  BY OrderInit
  <2>2. \A s \in Sessions : /\ stage[s] = "off" /\ answered[s] = <<>> /\ queue[s] = <<>>
                            /\ appending[s] = <<>>
    BY DEF Init
  <2>3. \A s \in Sessions : OwnEntries(s) = <<>>
    BY <2>1, <2>2 DEF OrderInv, SessionOrder, OwnWork
  <2>4. PICK z \in Nat : z = Len(<<>>) /\ z - z - z = z /\ z <= z  OBVIOUS
  <2>5. \A s \in Sessions : Written(s) = z  BY <2>2, <2>4 DEF Taken, Written
  <2>6. \A s \in Sessions : Matches(OwnEntries(s), answered[s])  BY <2>3 DEF Matches
  <2> QED BY <2>1, <2>2, <2>3, <2>4, <2>5, <2>6 DEF LossInv, NoneLost
<1>2. TypeOK /\ LossInv /\ [Next]_vars => LossInv'  BY LossStep
<1>3. TypeOK /\ LossInv => LogFollowsClient
  <2> SUFFICES ASSUME TypeOK, LossInv, NEW s \in Sessions
               PROVE  IF stage[s] = "exited" THEN IsPrefix(Logged(s), answered[s])
                      ELSE Logged(s) \o Signed(s) \o queue[s] = answered[s]
    BY DEF LogFollowsClient
  <2>1. /\ Logged(s) = Answers(OwnEntries(s)) /\ Signed(s) = Answers(appending[s])
        /\ OwnWork(s) /\ QueueFollows(s) /\ NoneLost(s)
    BY DEF Logged, Signed, Answers, LossInv, OrderInv, SessionOrder
  <2>2. PICK n \in Nat, m \in Nat, k \in Nat :
           /\ n = Len(answered[s]) /\ m = Len(queue[s]) /\ k = Len(appending[s])
           /\ Written(s) = n - m - k
    BY Counts
  <2>3. PICK o \in Nat : o = Len(OwnEntries(s))  BY SessionTypes
  <2>4. PICK w : w = n - m - k  OBVIOUS
  <2>5. /\ o <= w /\ (stage[s] = "running" => o = w) /\ Matches(OwnEntries(s), answered[s])
    BY <2>1, <2>2, <2>3, <2>4 DEF NoneLost
  <2>6. /\ OwnEntries(s) \in Seq(Entry) /\ appending[s] \in Seq(Entry)
        /\ queue[s] \in Seq(Answer) /\ answered[s] \in Seq(Answer)
    BY SessionTypes
  <2>7. k <= 1  BY <2>1, <2>2 DEF OwnWork
  <2>8. CASE stage[s] = "running"
    <3>1. o = n - m - k  BY <2>4, <2>5, <2>8
    <3> QED
      BY <2>1, <2>2, <2>3, <2>5, <2>6, <2>7, <2>8, <3>1, AllAnswers DEF QueueFollows
  <2>9. CASE stage[s] = "exited"
    <3>1. /\ Logged(s) \in Seq(Answer) /\ Len(Logged(s)) = o
          /\ \A i \in 1..o : Logged(s)[i] = OwnEntries(s)[i].answer
      BY <2>1, <2>3, <2>6, AnswersType
    <3>2. DOMAIN OwnEntries(s) = 1..o  BY <2>3, <2>6
    <3>3. \A i \in 1..o : Logged(s)[i] = answered[s][i]
      BY <2>5, <3>1, <3>2 DEF Matches
    <3>4. o <= n  BY <2>4, <2>5
    <3> QED BY <2>2, <2>6, <2>9, <3>1, <3>3, <3>4, FirstAnswers
  <2>10. CASE stage[s] \notin {"running", "exited"}
    <3>1. OwnEntries(s) = <<>> /\ answered[s] = <<>> /\ queue[s] = <<>> /\ appending[s] = <<>>
      BY <2>1, <2>10 DEF OwnWork
    <3>2. PICK z \in Nat : z = Len(<<>>) /\ z <= 1 /\ z = z - z - z  OBVIOUS
    <3>3. o = z /\ k = z /\ m = z /\ n = z  BY <2>2, <2>3, <3>1, <3>2
    <3>4. o = n - m - k  BY <3>2, <3>3
    <3> QED
      BY <2>1, <2>2, <2>3, <2>5, <2>6, <2>7, <2>10, <3>4, AllAnswers DEF QueueFollows
  <2> QED BY <2>8, <2>9, <2>10
<1> QED BY <1>1, <1>2, <1>3, TypeCorrect, PTL DEF Spec

-----------------------------------------------------------------------------
(* One chain, when sessions follow one another and no append fails          *)

\* Every entry is an audit record, signed with the key and linked to the one
\* before it.
OneChain(entries, k) ==
    \A i \in DOMAIN entries :
        /\ entries[i].record.type = "audit" /\ entries[i].key = k
        /\ entries[i].record.previousHash =
              IF i = 1 THEN genesis ELSE hashRecord(entries[i - 1].record)

\* The hash of the last entry.
EndHash(entries) ==
    IF entries = <<>> THEN genesis ELSE hashRecord(entries[Len(entries)].record)

\* An entry that continues the chain, and is none of its entries.
Continues(entries, k, e) ==
    /\ e.record.type = "audit" /\ e.key = k
    /\ e.record.previousHash = EndHash(entries)
    /\ \A i \in DOMAIN entries : hashRecord(entries[i].record) # hashRecord(e.record)

\* Only a process that runs has an entry under way.
IdleBefore(s) == stage[s] # "running" => appending[s] = <<>>

\* A process that makes a key is the first to do so, and one that has a key has
\* the one in the file.
FirstKey(s) ==
    /\ stage[s] = "generating" => ~keyExists
    /\ stage[s] = "writing key" => keyExists /\ keyFile = <<>> /\ log = <<>>
    /\ stage[s] \in {"restoring", "running"} => keyExists /\ secret[s] = KeyInFile

\* The head of a process that runs is the end of the chain, with the entry in
\* appendFile if there is one.
HeadKept(s) ==
    stage[s] = "running" =>
        \/ appending[s] = <<>> /\ lastHash[s] = EndHash(log)
        \/ \E e \in Entry :
              /\ appending[s] = <<e>> /\ Continues(log, KeyInFile, e)
              /\ lastHash[s] = hashRecord(e.record) /\ hashRecord(e.record) < nextHash

OneAtATime ==
    \A s, t \in Sessions : stage[s] \notin Over /\ stage[t] \notin Over => s = t

ChainInv ==
    /\ OneAtATime
    /\ \A s \in Sessions : IdleBefore(s) /\ FirstKey(s) /\ HeadKept(s)
    /\ keyFile # <<>> \/ log # <<>> => keyExists
    /\ OneChain(log, KeyInFile)
    /\ \A i \in DOMAIN log : hashRecord(log[i].record) < nextHash

\* Where a chain ends when it has been continued.
LEMMA ChainContinued ==
    ASSUME NEW entries \in Seq(Entry), NEW e \in Entry, NEW k,
           OneChain(entries, k), Continues(entries, k, e)
    PROVE  OneChain(Append(entries, e), k) /\ EndHash(Append(entries, e)) = hashRecord(e.record)
<1> DEFINE longer == Append(entries, e)
<1>1. PICK n \in Nat : n = Len(entries)  BY LenProperties
<1>2. /\ DOMAIN entries = 1..n /\ DOMAIN longer = 1..(n + 1) /\ Len(longer) = n + 1
      /\ (\A i \in 1..n : longer[i] = entries[i]) /\ longer[n + 1] = e
  BY <1>1, AppendProperties
<1>3. longer # <<>>
  <2>1. Len(<<>>) = 0 /\ n + 1 # 0  OBVIOUS
  <2> QED BY <1>2, <2>1, Zenon
<1> HIDE DEF longer
<1>4. EndHash(longer) = hashRecord(e.record)  BY <1>2, <1>3 DEF EndHash
<1>5. ASSUME NEW i \in 1..(n + 1)
      PROVE  /\ longer[i].record.type = "audit" /\ longer[i].key = k
             /\ longer[i].record.previousHash =
                   IF i = 1 THEN genesis ELSE hashRecord(longer[i - 1].record)
  <2>1. CASE i \in 1..n
    <3>1. i # 1 => i - 1 \in 1..n  BY <2>1
    <3>2. /\ entries[i].record.type = "audit" /\ entries[i].key = k
          /\ entries[i].record.previousHash =
                IF i = 1 THEN genesis ELSE hashRecord(entries[i - 1].record)
      BY <1>2, <2>1 DEF OneChain
    <3>3. longer[i] = entries[i] /\ (i # 1 => longer[i - 1] = entries[i - 1])
      BY <1>2, <2>1, <3>1
    <3> QED BY <3>2, <3>3
  <2>2. CASE i = n + 1
    <3>1. longer[i] = e /\ i - 1 = n  BY <1>2, <2>2
    <3>2. e.record.previousHash = IF i = 1 THEN genesis ELSE hashRecord(longer[n].record)
      <4>1. CASE entries = <<>>
        <5>1. n = 0  BY <1>1, <4>1
        <5> QED BY <2>2, <4>1, <5>1 DEF Continues, EndHash
      <4>2. CASE entries # <<>>
        <5>1. n # 0  BY <1>1, <4>2, EmptySeq
        <5>2. n \in 1..n /\ i # 1  BY <2>2, <5>1
        <5> QED BY <1>1, <1>2, <4>2, <5>2 DEF Continues, EndHash
      <4> QED BY <4>1, <4>2
    <3> QED BY <3>1, <3>2 DEF Continues
  <2> QED BY <2>1, <2>2
<1>6. OneChain(longer, k)  BY <1>2, <1>5 DEF OneChain
<1> QED BY <1>4, <1>6 DEF longer

\* What restoreLastHash finds is the end of the chain.
LEMMA RestoredHashEnds == RestoredHash = EndHash(log)
  BY DEF RestoredHash, EndHash, Last

\* Steps that leave the files, the keys and the heads alone.
LEMMA QuietKeepsChain ==
    ASSUME ChainInv,
           UNCHANGED <<files, stage, secret, lastHash, appending, nextHash>>
    PROVE  ChainInv'
<1>1. OneAtATime'  BY DEF ChainInv, OneAtATime
<1>2. \A s \in Sessions : (IdleBefore(s) /\ FirstKey(s) /\ HeadKept(s))'
  BY DEF ChainInv, IdleBefore, FirstKey, HeadKept, KeyInFile, files
<1> QED BY <1>1, <1>2 DEF ChainInv, KeyInFile, files

\* A step that leaves the log alone, of the only session that is not over,
\* need only be looked at there.
LEMMA AloneKeepsChain ==
    ASSUME ChainInv, NEW s \in Sessions,
           UNCHANGED log, nextHash' >= nextHash, nextHash \in Nat, nextHash' \in Nat,
           \A t \in Sessions : t # s =>
              /\ stage[t] \in Over /\ stage'[t] = stage[t] /\ appending'[t] = appending[t],
           (IdleBefore(s) /\ FirstKey(s) /\ HeadKept(s))',
           keyFile' # <<>> \/ log # <<>> => keyExists',
           log # <<>> => UNCHANGED KeyInFile,
           log \in Seq(Entry)
    PROVE  ChainInv'
<1>1. OneAtATime'  BY DEF OneAtATime, Over
<1>2. ASSUME NEW t \in Sessions PROVE (IdleBefore(t) /\ FirstKey(t) /\ HeadKept(t))'
  <2>1. CASE t = s  BY <2>1
  <2>2. CASE t # s
    <3>1. stage'[t] \in {"off", "exited"}  BY <2>2 DEF Over
    <3>2. IdleBefore(t)  BY DEF ChainInv
    <3> QED BY <2>2, <3>1, <3>2 DEF IdleBefore, FirstKey, HeadKept
  <2> QED BY <2>1, <2>2
<1>3. OneChain(log, KeyInFile)'
  <2>1. CASE log = <<>>  BY <2>1 DEF OneChain
  <2>2. CASE log # <<>>  BY <2>2 DEF ChainInv
  <2> QED BY <2>1, <2>2
<1>4. \A i \in DOMAIN log : hashRecord(log[i].record) < nextHash'
  <2> SUFFICES ASSUME NEW i \in DOMAIN log PROVE hashRecord(log[i].record) < nextHash'
    OBVIOUS
  <2>1. log[i] \in Entry /\ hashRecord(log[i].record) < nextHash  BY DEF ChainInv
  <2>2. hashRecord(log[i].record) \in Nat  BY <2>1, EntryFacts
  <2> QED BY <2>1, <2>2
<1> QED BY <1>1, <1>2, <1>3, <1>4 DEF ChainInv

\* The start of a session takes up the key and the end of the chain.
LEMMA StartKeepsChain ==
    ASSUME TypeOK, ~Concurrent, ChainInv, NEW s \in Sessions,
           Launch(s) \/ CreateKey(s) \/ AppendKey(s) \/ RestoreLastHash(s)
    PROVE  ChainInv'
<1>1. /\ log \in Seq(Entry) /\ keyFile \in Seq(Sessions) /\ nextHash \in Nat
      /\ nextHash >= nextHash /\ (keyFile # <<>> \/ log # <<>> => keyExists)
  BY DEF TypeOK, ChainInv
<1>2. UNCHANGED <<log, appending, nextHash>> /\ stage[s] # "running"
  BY DEF Launch, CreateKey, AppendKey, RestoreLastHash, files
<1>3. \A t \in Sessions : t # s => stage[t] \in Over /\ stage'[t] = stage[t]
  <2>1. CASE Launch(s)
    <3>1. \A t \in Sessions : stage[t] \in Over  BY <2>1 DEF Launch
    <3> QED BY <2>1, <3>1 DEF TypeOK, Launch
  <2>2. CASE CreateKey(s) \/ AppendKey(s) \/ RestoreLastHash(s)
    <3>1. stage[s] \notin Over  BY <2>2 DEF CreateKey, AppendKey, RestoreLastHash, Over
    <3>2. \A t \in Sessions : t # s => stage[t] \in Over
      BY <3>1 DEF ChainInv, OneAtATime
    <3> QED BY <2>2, <3>2 DEF TypeOK, CreateKey, AppendKey, RestoreLastHash
  <2> QED BY <2>1, <2>2
<1>4. appending[s] = <<>> /\ FirstKey(s)  BY <1>2 DEF ChainInv, IdleBefore
<1>5. CASE Launch(s)
  <2>1. UNCHANGED <<keyExists, keyFile>>  BY <1>5 DEF Launch, files
  <2>2. \/ keyExists /\ secret'[s] = KeyInFile /\ stage'[s] = "restoring"
        \/ ~keyExists /\ stage'[s] = "generating"
    BY <1>5 DEF TypeOK, Launch
  <2>3. UNCHANGED KeyInFile  BY <2>1 DEF KeyInFile
  <2>4. (IdleBefore(s) /\ FirstKey(s) /\ HeadKept(s))'
    BY <1>2, <1>4, <2>1, <2>2, <2>3 DEF IdleBefore, FirstKey, HeadKept
  <2> QED BY <1>1, <1>2, <1>3, <2>1, <2>3, <2>4, AloneKeepsChain
<1>6. CASE CreateKey(s)
  <2>1. keyFile = <<>> /\ log = <<>>
    BY <1>1, <1>4, <1>6 DEF CreateKey, FirstKey
  <2>2. keyExists' /\ keyFile' = keyFile /\ stage'[s] = "writing key"
    BY <1>6 DEF TypeOK, CreateKey
  <2>3. (IdleBefore(s) /\ FirstKey(s) /\ HeadKept(s))'
    BY <1>2, <1>4, <2>1, <2>2 DEF IdleBefore, FirstKey, HeadKept
  <2> QED BY <1>1, <1>2, <1>3, <2>1, <2>2, <2>3, AloneKeepsChain
<1>7. CASE AppendKey(s)
  <2>1. keyFile = <<>> /\ log = <<>> /\ stage[s] = "writing key"
    BY <1>4, <1>7 DEF AppendKey, FirstKey
  <2>2. secret[s] = s /\ secret'[s] = s /\ stage'[s] = "restoring"
    BY <1>7, <2>1 DEF TypeOK, KeyKept, AppendKey
  <2>3. keyExists
    <3>1. stage[s] = "writing key" => keyExists  BY DEF ChainInv, FirstKey
    <3> QED BY <2>1, <3>1
  <2>4. keyExists' /\ keyFile' = Append(keyFile, s)
    BY <1>7, <2>2, <2>3 DEF AppendKey, WithKey
  <2>5. keyFile' = <<s>>
    <3>1. Append(<<>>, s) = <<s>>  OBVIOUS
    <3> QED BY <2>1, <2>4, <3>1
  <2>6. KeyInFile' = s
    <3>1. keyFile' # <<>> /\ Head(keyFile') = s  BY <2>5
    <3> QED BY <3>1 DEF KeyInFile
  <2>7. (IdleBefore(s) /\ FirstKey(s) /\ HeadKept(s))'
    BY <1>2, <1>4, <2>2, <2>4, <2>6 DEF IdleBefore, FirstKey, HeadKept
  <2> QED BY <1>1, <1>2, <1>3, <2>1, <2>4, <2>7, AloneKeepsChain
<1>8. CASE RestoreLastHash(s)
  <2>1. /\ UNCHANGED <<keyExists, keyFile, secret>> /\ stage[s] = "restoring"
        /\ stage'[s] = "running" /\ lastHash'[s] = RestoredHash
    BY <1>8 DEF TypeOK, RestoreLastHash, files
  <2>2. UNCHANGED KeyInFile /\ keyExists /\ secret[s] = KeyInFile
    BY <1>4, <2>1 DEF FirstKey, KeyInFile
  <2>3. (IdleBefore(s) /\ FirstKey(s) /\ HeadKept(s))'
    BY <1>2, <1>4, <2>1, <2>2, RestoredHashEnds DEF IdleBefore, FirstKey, HeadKept
  <2> QED BY <1>1, <1>2, <1>3, <2>1, <2>2, <2>3, AloneKeepsChain
<1> QED BY <1>5, <1>6, <1>7, <1>8

\* A signed entry continues the chain.
LEMMA SignKeepsChain ==
    ASSUME TypeOK, ChainInv, NEW s \in Sessions, SignEntry(s)
    PROVE  ChainInv'
<1>1. /\ log \in Seq(Entry) /\ nextHash \in Nat \ {genesis} /\ lastHash[s] \in Nat
      /\ Head(queue[s]) \in Answer /\ secret[s] \in Keys
  <2>1. queue[s] \in Seq(Answer) /\ queue[s] # <<>>  BY DEF TypeOK, SignEntry, QueueRuns
  <2>2. Head(queue[s]) \in Answer  BY <2>1, HeadTailProperties
  <2> QED BY <2>2 DEF TypeOK, SignEntry
<1> DEFINE e == [record |-> AuditRecord(nextHash, lastHash[s]), answer |-> Head(queue[s]),
                 session |-> s, key |-> secret[s]]
<1>2. /\ e \in Entry /\ e.key = secret[s] /\ e.record.type = "audit"
      /\ e.record.previousHash = lastHash[s] /\ hashRecord(e.record) = nextHash
  BY <1>1, EntryType DEF AuditRecord, hashRecord
<1>3. appending'[s] = <<e>> /\ \A t \in Sessions : t # s => appending'[t] = appending[t]
  BY DEF TypeOK, SignEntry
<1> HIDE DEF e
<1>4. /\ UNCHANGED <<files, stage, secret>> /\ nextHash' = nextHash + 1
      /\ stage[s] = "running" /\ appending[s] = <<>> /\ lastHash'[s] = nextHash
  BY DEF TypeOK, SignEntry, QueueRuns, HeadAfterSign, files
<1>5. \A t \in Sessions : t # s => stage[t] \in Over
  BY <1>4 DEF ChainInv, OneAtATime, Over
<1>6. /\ secret[s] = KeyInFile /\ keyExists /\ lastHash[s] = EndHash(log)
  <2>1. HeadKept(s) /\ FirstKey(s)  BY DEF ChainInv
  <2>2. \A f : <<f>> # <<>>  OBVIOUS
  <2> QED BY <1>4, <2>1, <2>2 DEF HeadKept, FirstKey
<1>7. \A i \in DOMAIN log : hashRecord(log[i].record) # nextHash
  <2> SUFFICES ASSUME NEW i \in DOMAIN log PROVE hashRecord(log[i].record) # nextHash
    OBVIOUS
  <2>1. log[i] \in Entry /\ hashRecord(log[i].record) < nextHash  BY <1>1 DEF ChainInv
  <2>2. hashRecord(log[i].record) \in Nat  BY <2>1, EntryFacts
  <2> QED BY <1>1, <2>1, <2>2
<1>8. Continues(log, KeyInFile, e)  BY <1>2, <1>6, <1>7 DEF Continues
<1>9. nextHash < nextHash' /\ nextHash' >= nextHash /\ nextHash' \in Nat  BY <1>1, <1>4
<1>10. /\ UNCHANGED <<log, keyExists, keyFile, KeyInFile>>
       /\ keyFile # <<>> \/ log # <<>> => keyExists
  BY <1>4 DEF ChainInv, KeyInFile, files
<1>11. (IdleBefore(s) /\ FirstKey(s) /\ HeadKept(s))'
  BY <1>2, <1>3, <1>4, <1>6, <1>8, <1>9, <1>10 DEF IdleBefore, FirstKey, HeadKept
<1> QED BY <1>1, <1>3, <1>4, <1>5, <1>9, <1>10, <1>11, AloneKeepsChain

\* An entry that lands is the new end of the chain, and the head was it already.
LEMMA LandingKeepsChain ==
    ASSUME TypeOK, ChainInv, NEW s \in Sessions, appending[s] # <<>>,
           log' = log \o appending[s], appending' = [appending EXCEPT ![s] = <<>>],
           UNCHANGED <<keyExists, keyFile, secret, lastHash, nextHash>>,
           \/ UNCHANGED stage
           \/ stage' = [stage EXCEPT ![s] = "exited"]
    PROVE  ChainInv'
<1>1. /\ log \in Seq(Entry) /\ stage[s] = "running" /\ appending'[s] = <<>>
      /\ \A t \in Sessions : t # s => stage'[t] = stage[t] /\ appending'[t] = appending[t]
  BY DEF TypeOK, ChainInv, IdleBefore
<1>2. PICK e \in Entry :
         /\ appending[s] = <<e>> /\ Continues(log, KeyInFile, e)
         /\ lastHash[s] = hashRecord(e.record) /\ hashRecord(e.record) < nextHash
  BY <1>1 DEF ChainInv, HeadKept
<1>3. log' = Append(log, e)  BY <1>1, <1>2, AppendIsConcat
<1>4. UNCHANGED KeyInFile /\ OneChain(log', KeyInFile) /\ EndHash(log') = lastHash[s]
  <2>1. OneChain(log, KeyInFile)  BY DEF ChainInv
  <2>2. UNCHANGED KeyInFile  BY DEF KeyInFile
  <2> QED BY <1>1, <1>2, <1>3, <2>1, <2>2, ChainContinued
<1>5. \A t \in Sessions : t # s => stage[t] \in Over
  BY <1>1 DEF ChainInv, OneAtATime, Over
<1>6. OneAtATime'
  <2>1. \A t \in Sessions : t # s => stage'[t] \in Over  BY <1>1, <1>5
  <2> QED BY <2>1 DEF OneAtATime, Over
<1>7. keyExists /\ secret[s] = KeyInFile
  BY <1>1 DEF ChainInv, FirstKey
<1>8. stage'[s] \in {"running", "exited"}  BY <1>1 DEF TypeOK
<1>9. ASSUME NEW t \in Sessions PROVE (IdleBefore(t) /\ FirstKey(t) /\ HeadKept(t))'
  <2>1. CASE t = s
    BY <1>1, <1>4, <1>7, <1>8, <2>1 DEF IdleBefore, FirstKey, HeadKept
  <2>2. CASE t # s
    <3>1. stage'[t] \in {"off", "exited"} /\ stage'[t] = stage[t] /\ appending'[t] = appending[t]
      BY <1>1, <1>5, <2>2 DEF Over
    <3>2. IdleBefore(t)  BY DEF ChainInv
    <3> QED BY <3>1, <3>2 DEF IdleBefore, FirstKey, HeadKept
  <2> QED BY <2>1, <2>2
<1>10. \A i \in DOMAIN log' : hashRecord(log'[i].record) < nextHash
  <2>1. PICK n \in Nat : n = Len(log)  BY <1>1, LenProperties
  <2>2. /\ DOMAIN log = 1..n /\ DOMAIN log' = 1..(n + 1)
        /\ (\A i \in 1..n : log'[i] = log[i]) /\ log'[n + 1] = e
    BY <1>1, <1>3, <2>1, AppendProperties
  <2>3. \A i \in 1..(n + 1) : i \in 1..n \/ i = n + 1  OBVIOUS
  <2>4. \A i \in 1..n : hashRecord(log[i].record) < nextHash  BY <2>2 DEF ChainInv
  <2> QED BY <1>2, <2>2, <2>3, <2>4
<1> QED BY <1>4, <1>6, <1>7, <1>9, <1>10 DEF ChainInv

\* A process that ends with nothing under way.
LEMMA EndKeepsChain ==
    ASSUME TypeOK, ChainInv, NEW s \in Sessions, Exit(s), log' = log
    PROVE  ChainInv'
<1>1. log \in Seq(Entry) /\ nextHash \in Nat /\ nextHash' = nextHash /\ nextHash >= nextHash
  <2>1. log \in Seq(Entry) /\ nextHash \in Nat  BY DEF TypeOK
  <2>2. nextHash' = nextHash  BY DEF Exit
  <2> QED BY <2>1, <2>2
<1>2. /\ stage'[s] = "exited" /\ appending'[s] = <<>> /\ stage[s] \notin Over
      /\ \A t \in Sessions : t # s => stage'[t] = stage[t] /\ appending'[t] = appending[t]
  BY DEF TypeOK, Exit
<1>3. \A t \in Sessions : t # s => stage[t] \in Over
  BY <1>2 DEF ChainInv, OneAtATime
<1>4. (IdleBefore(s) /\ FirstKey(s) /\ HeadKept(s))'
  BY <1>2 DEF IdleBefore, FirstKey, HeadKept
<1>5. /\ log # <<>> => UNCHANGED KeyInFile
      /\ keyFile' # <<>> \/ log # <<>> => keyExists'
  <2>1. \/ UNCHANGED <<keyExists, keyFile>>
        \/ stage[s] \in {"generating", "writing key"} /\ keyExists'
    BY DEF Exit
  <2>2. /\ stage[s] \in {"generating", "writing key"} => log = <<>>
        /\ keyFile # <<>> \/ log # <<>> => keyExists
    BY DEF ChainInv, FirstKey
  <2> QED BY <1>1, <2>1, <2>2 DEF KeyInFile
<1> QED BY <1>1, <1>2, <1>3, <1>4, <1>5, AloneKeepsChain

\* Every step keeps the chain.
LEMMA ChainStep ==
    ASSUME ~Concurrent, "write" \notin Faults
    PROVE  TypeOK /\ ChainInv /\ [Next]_vars => ChainInv'
<1> SUFFICES ASSUME TypeOK, ChainInv, [Next]_vars PROVE ChainInv'
  OBVIOUS
<1>1. CASE UNCHANGED vars
  BY <1>1, QuietKeepsChain DEF vars, process
<1>2. ASSUME NEW s \in Sessions,
             Launch(s) \/ CreateKey(s) \/ AppendKey(s) \/ RestoreLastHash(s)
      PROVE  ChainInv'
  BY <1>2, StartKeepsChain
<1>3. ASSUME NEW s \in Sessions, ClientLine(s) \/ ServerResponse(s) \/ ServerRequest(s)
      PROVE  ChainInv'
  BY <1>3, QuietKeepsChain DEF ClientLine, ServerResponse, ServerRequest
<1>4. ASSUME NEW s \in Sessions, SignEntry(s) PROVE ChainInv'
  BY <1>4, SignKeepsChain
<1>5. ASSUME NEW s \in Sessions, AppendEntry(s) PROVE ChainInv'
  BY <1>5, LandingKeepsChain DEF AppendEntry
<1>6. ASSUME NEW s \in Sessions, AppendFails(s) PROVE ChainInv'
  BY <1>6 DEF AppendFails
<1>7. ASSUME NEW s \in Sessions, Exit(s) PROVE ChainInv'
  <2>1. CASE log' = log  BY <1>7, <2>1, EndKeepsChain
  <2>2. CASE log' # log
    <3>1. log' = log \o appending[s]  BY <1>7, <2>2 DEF Exit
    <3>2. appending[s] # <<>>
      <4>1. log \o <<>> = log  BY ConcatEmptySeq DEF TypeOK
      <4> QED BY <2>2, <3>1, <4>1
    <3>3. stage[s] = "running"  BY <3>2 DEF ChainInv, IdleBefore
    <3>4. UNCHANGED <<keyExists, keyFile>>  BY <1>7, <3>3 DEF Exit
    <3> QED BY <1>7, <3>1, <3>2, <3>4, LandingKeepsChain DEF Exit
  <2> QED BY <2>1, <2>2
<1> QED BY <1>1, <1>2, <1>3, <1>4, <1>5, <1>6, <1>7, NextCases

LEMMA ChainInit == Init => ChainInv
<1> SUFFICES ASSUME Init PROVE ChainInv  OBVIOUS
<1>1. OneAtATime  BY DEF Init, OneAtATime, Over
<1>2. \A s \in Sessions : IdleBefore(s) /\ FirstKey(s) /\ HeadKept(s)
  BY DEF Init, IdleBefore, FirstKey, HeadKept, Over
<1>3. log = <<>> /\ keyFile = <<>> /\ DOMAIN <<>> = {}  BY DEF Init
<1> QED BY <1>1, <1>2, <1>3 DEF ChainInv, OneChain

\* On lines that all parse and are all attested, the verifier compares each
\* with the line before it.
LEMMA ExpectedIsBefore ==
    ASSUME NEW lines, NEW sig, NEW n \in Nat, NEW i \in 1..n,
           \A j \in 1..n : Advances(lines, sig, j)
    PROVE  ExpectedPrevHash(lines, sig, i) = IF i = 1 THEN genesis ELSE hashLine(lines[i - 1])
<1> DEFINE passed == {j \in 1..(i - 1) : Advances(lines, sig, j)}
<1>1. passed = 1..(i - 1)
  <2>1. \A j \in 1..(i - 1) : j \in 1..n  OBVIOUS
  <2> QED BY <2>1
<1>2. CASE i = 1
  <2>1. passed = {}  BY <1>1, <1>2
  <2> QED BY <1>2, <2>1 DEF ExpectedPrevHash
<1>3. CASE i # 1
  <2>1. i - 1 \in 1..(i - 1) /\ 1..(i - 1) \in SUBSET Int /\ 1..(i - 1) # {}  BY <1>3
  <2>2. IsFiniteSet(1..(i - 1))  BY FS_Interval
  <2>3. Max(1..(i - 1)) \in 1..(i - 1) /\ \A x \in 1..(i - 1) : Max(1..(i - 1)) >= x
    BY <2>1, <2>2, MaxIsGreatest
  <2>4. Max(1..(i - 1)) = i - 1
    <3>1. PICK m : m = Max(1..(i - 1))  OBVIOUS
    <3>2. m \in 1..(i - 1) /\ m >= i - 1  BY <2>1, <2>3, <3>1
    <3>3. m = i - 1  BY <3>2
    <3> QED BY <3>1, <3>3
  <2>5. Max(passed) = i - 1 /\ passed # {}  BY <1>1, <2>1, <2>4
  <2> QED BY <1>3, <2>5 DEF ExpectedPrevHash
<1> QED BY <1>2, <1>3

\* A chain has no invalid line.
LEMMA ChainVerifies ==
    ASSUME TypeOK, OneChain(log, KeyInFile)
    PROVE  LogVerifies
<1> DEFINE sig == [i \in DOMAIN log |-> IF log[i].key = KeyInFile THEN "valid" ELSE "mismatch"]
<1>1. PICK n \in Nat : n = Len(log)  BY LenProperties DEF TypeOK
<1>2. DOMAIN log = 1..n  BY <1>1 DEF TypeOK
<1>3. Records = [i \in 1..n |-> log[i].record]  BY <1>2 DEF Records
<1>4. \A i \in 1..n : sig[i] = "valid"  BY <1>2 DEF OneChain
<1> HIDE DEF sig
<1>5. ASSUME NEW i \in 1..n
      PROVE  /\ Records[i] = log[i].record /\ Records[i].type = "audit"
             /\ Records[i].previousHash = IF i = 1 THEN genesis ELSE hashRecord(log[i - 1].record)
             /\ Records[i].previousHash # Undefined
  <2>1. /\ log[i].record.type = "audit"
        /\ log[i].record.previousHash = IF i = 1 THEN genesis ELSE hashRecord(log[i - 1].record)
    BY <1>2 DEF OneChain
  <2>2. i # 1 => hashRecord(log[i - 1].record) \in Nat
    <3>1. i # 1 => i - 1 \in 1..n  OBVIOUS
    <3>2. i # 1 => log[i - 1] \in Entry  BY <1>2, <3>1 DEF TypeOK
    <3> QED BY <3>2, EntryFacts
  <2>3. log[i].record.previousHash \in Nat  BY <2>1, <2>2 DEF genesis
  <2> QED BY <1>3, <2>1, <2>3 DEF Undefined
<1>6. \A i \in 1..n : Advances(Records, sig, i)  BY <1>4, <1>5 DEF Advances, Parses
<1>7. ASSUME NEW i \in 1..n PROVE Records[i].previousHash = ExpectedPrevHash(Records, sig, i)
  <2>1. ExpectedPrevHash(Records, sig, i) = IF i = 1 THEN genesis ELSE hashLine(Records[i - 1])
    BY <1>6, ExpectedIsBefore
  <2>2. i # 1 => i - 1 \in 1..n  OBVIOUS
  <2>3. i # 1 => Records[i - 1] = log[i - 1].record  BY <1>5, <2>2
  <2> QED BY <1>5, <2>1, <2>3 DEF hashLine
<1>8. DOMAIN Records = 1..n  BY <1>3
<1>9. verifyAuditLog(Records, sig) = {}
  BY <1>4, <1>5, <1>7, <1>8 DEF verifyAuditLog, Parses
<1> QED BY <1>9 DEF LogVerifies, sig

\* Sessions that follow one another, and may end at any point, leave a log in
\* which `mcp-audit verify' finds no invalid line, if no append fails: each
\* session takes up the key and the head of the one before it.
THEOREM LogOfSessionsVerifies ==
    ASSUME ~Concurrent, "write" \notin Faults
    PROVE  Spec => []LogVerifies
<1>1. Init => ChainInv  BY ChainInit
<1>2. TypeOK /\ ChainInv /\ [Next]_vars => ChainInv'  BY ChainStep
<1>3. TypeOK /\ ChainInv => LogVerifies  BY ChainVerifies DEF ChainInv
<1> QED BY <1>1, <1>2, <1>3, TypeCorrect, PTL DEF Spec

-----------------------------------------------------------------------------
(* The file is an abstract ledger                                          *)

\* A landed entry is one step of the ledger.
LEMMA LandingAppends ==
    ASSUME TypeOK, NEW e \in Entry, Continues(log, KeyInFile, e), log' = Append(log, e)
    PROVE  Ledger!AppendLinked
<1>1. PICK n \in Nat : n = Len(log)  BY LenProperties DEF TypeOK
<1>2. /\ DOMAIN log = 1..n /\ DOMAIN log' = 1..(n + 1)
      /\ (\A i \in 1..n : log'[i] = log[i]) /\ log'[n + 1] = e
  BY <1>1, AppendProperties DEF TypeOK
<1> DEFINE r == Records
           q == Records'
<1>3. r = [i \in 1..n |-> log[i].record] /\ q = [i \in 1..(n + 1) |-> log'[i].record]
  BY <1>2 DEF Records
<1>4. (\A i \in 1..n : q[i] = r[i] /\ r[i] = log[i].record) /\ q[n + 1] = e.record
  <2>1. \A i \in 1..n : i \in 1..(n + 1)  OBVIOUS
  <2>2. n + 1 \in 1..(n + 1)  OBVIOUS
  <2> QED BY <1>2, <1>3, <2>1, <2>2
<1>5. r \in Seq(ChainRecord) /\ q \in Seq(ChainRecord) /\ Len(r) = n /\ Len(q) = n + 1
  <2>1. \A i \in 1..n : log[i].record \in ChainRecord
    <3>1. \A i \in 1..n : log[i] \in Entry  BY <1>2 DEF TypeOK
    <3>2. \A f \in Entry : f.record \in ChainRecord  BY DEF Entry
    <3> QED BY <3>1, <3>2
  <2>2. \A i \in 1..(n + 1) : log'[i].record \in ChainRecord
    <3>1. \A i \in 1..(n + 1) : i \in 1..n \/ i = n + 1  OBVIOUS
    <3> QED BY <1>2, <2>1, <3>1 DEF Entry
  <2>3. \A i \in 1..n : r[i] \in ChainRecord  BY <1>3, <2>1
  <2>4. \A i \in 1..(n + 1) : q[i] \in ChainRecord  BY <1>3, <2>2
  <2>5. r \in Seq(ChainRecord) /\ Len(r) = n
    <3>1. r \in [1..n -> ChainRecord]  BY <1>3, <2>3
    <3> QED BY <3>1
  <2>6. q \in Seq(ChainRecord) /\ Len(q) = n + 1
    <3>1. q \in [1..(n + 1) -> ChainRecord]  BY <1>3, <2>4
    <3>2. n + 1 \in Nat  OBVIOUS
    <3> QED BY <3>1, <3>2
  <2> QED BY <2>5, <2>6
<1>6. SubSeq(q, 1, n) = r
  <2>1. SubSeq(q, 1, n) = [i \in 1..n |-> q[i]]  BY <1>5
  <2> QED BY <1>3, <1>4, <2>1
<1>7. Ledger!Newest = e.record
  BY <1>4, <1>5 DEF Ledger!Newest
<1>8. Ledger!Grows  BY <1>5, <1>6 DEF Ledger!Grows
<1>9. Ledger!Fresh(Records, e.record)
  BY <1>2, <1>3, <1>4 DEF Ledger!Fresh, Continues, hashRecord, Ledger!hashRecord
<1>10. Ledger!Linked(Records, e.record)
  <2>1. e.record.type = "audit"  BY DEF Continues
  <2>2. Ledger!ChainHead(Records) = EndHash(log)
    <3>1. CASE log = <<>>
      <4>1. n = 0  BY <1>1, <3>1
      <4>2. Records = <<>>  BY <1>5, <4>1, EmptySeq
      <4> QED BY <3>1, <4>2 DEF EndHash, Ledger!ChainHead, genesis, Ledger!genesis
    <3>2. CASE log # <<>>
      <4>1. n \in 1..n  BY <1>1, <3>2, EmptySeq DEF TypeOK
      <4>2. Records # <<>>  BY <1>5, <4>1
      <4>3. Records[Len(Records)] = log[Len(log)].record  BY <1>1, <1>4, <1>5, <4>1
      <4> QED
        BY <3>2, <4>2, <4>3 DEF EndHash, Ledger!ChainHead, hashRecord, Ledger!hashRecord
    <3> QED BY <3>1, <3>2
  <2> QED BY <2>1, <2>2 DEF Ledger!Linked, Ledger!Parses, Continues
<1> QED BY <1>7, <1>8, <1>9, <1>10 DEF Ledger!AppendLinked

\* Every step appends one linked record or leaves the file alone.
LEMMA StepsMap ==
    ASSUME "write" \notin Faults
    PROVE  TypeOK /\ ChainInv /\ [Next]_vars => [Ledger!AppendLinked]_Records
<1> SUFFICES ASSUME TypeOK, ChainInv, [Next]_vars
             PROVE  Ledger!AppendLinked \/ UNCHANGED Records
  OBVIOUS
<1>1. CASE UNCHANGED log  BY <1>1 DEF Records
<1>2. ASSUME NEW s \in Sessions, log' = log \o appending[s]
      PROVE  Ledger!AppendLinked \/ UNCHANGED Records
  <2>1. CASE appending[s] = <<>>
    <3>1. log \o <<>> = log  BY ConcatEmptySeq DEF TypeOK
    <3> QED BY <1>1, <1>2, <2>1, <3>1
  <2>2. CASE appending[s] # <<>>
    <3>1. stage[s] = "running"  BY <2>2 DEF ChainInv, IdleBefore
    <3>2. PICK e \in Entry : appending[s] = <<e>> /\ Continues(log, KeyInFile, e)
      BY <2>2, <3>1 DEF ChainInv, HeadKept
    <3>3. log' = Append(log, e)  BY <1>2, <3>2, AppendIsConcat DEF TypeOK
    <3> QED BY <3>2, <3>3, LandingAppends
  <2> QED BY <2>1, <2>2
<1>3. UNCHANGED log \/ \E s \in Sessions : log' = log \o appending[s]
  BY NextCases DEF vars, files, Launch, CreateKey, AppendKey, RestoreLastHash, ClientLine,
     ServerResponse, ServerRequest, SignEntry, AppendEntry, AppendFails, Exit
<1> QED BY <1>1, <1>2, <1>3

\* Sessions that follow one another extend one ledger by one linked record at
\* a time, if no append fails: no step writes two records, rewrites one, or
\* leaves a gap.
THEOREM SessionsImplementLedger ==
    ASSUME ~Concurrent, "write" \notin Faults
    PROVE  Spec => ImplementsLinkedLedger
<1>1. Init => ChainInv  BY ChainInit
<1>2. TypeOK /\ ChainInv /\ [Next]_vars => ChainInv'  BY ChainStep
<1>3. Init => Ledger!Init
  <2> SUFFICES ASSUME Init PROVE Ledger!Init  OBVIOUS
  <2>1. log = <<>>  BY DEF Init
  <2> QED BY <2>1 DEF Ledger!Init, Records
<1>4. TypeOK /\ ChainInv /\ [Next]_vars => [Ledger!AppendLinked]_Records
  BY StepsMap
<1> QED BY <1>1, <1>2, <1>3, <1>4, TypeCorrect, PTL
        DEF Spec, ImplementsLinkedLedger, Ledger!LinkedSpec
=============================================================================
