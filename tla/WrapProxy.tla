------------------------------ MODULE WrapProxy ------------------------------
(***************************************************************************)
(* `mcp-audit wrap' (src/wrap/proxy.ts): one proxy process per wrapped MCP *)
(* server, all of them appending to the same ~/.mcp-audit/audit.jsonl and  *)
(* signing with the same ~/.mcp-audit/key.hex.  A session is one run of a  *)
(* proxy process; sessions run one after another, or at the same time.     *)
(*                                                                         *)
(* A process is single-threaded: the handler of a line runs to its end,    *)
(* and the closures on writeQueue run one after another, with one await    *)
(* (appendFile) in each.  Lines that no handler acts on only pass through  *)
(* and are left out.  An append leaves nothing or the whole line.          *)
(***************************************************************************)
EXTENDS ChainVerify, Selection, SequencesExt

CONSTANTS
    MaxSessions,  \* bound: runs of the proxy
    MaxCalls,     \* bound: tools/call requests of one session
    Concurrent,   \* may sessions overlap in time?
    ServerIds,    \* JSON-RPC ids the wrapped server uses for its own requests
    Faults        \* "write": appendFile rejects; "exit": a process ends early

ASSUME ConstantsAssumption ==
    /\ MaxSessions \in Nat /\ MaxCalls \in Nat
    /\ Concurrent \in BOOLEAN
    /\ ServerIds \subseteq Nat
    /\ Faults \subseteq {"write", "exit"}

Sessions == 1..MaxSessions
Calls    == 1..MaxCalls      \* the ids a client gives its tools/call requests

\* A key is the session that made it.  Buffer.from("", "hex") is one, too: it is
\* what an empty key file gives, and no session has made it.
EmptyKey == 0
Keys     == Sessions \cup {EmptyKey}

VARIABLES
    \* The shared files.
    log,        \* audit.jsonl: a record with its call, session and key
    keyExists,  \* is there a key.hex?
    keyFile,    \* key.hex: one key per line; an empty file has none
    \* One process per session.
    stage,      \* stage[s]: see Stages
    secret,     \* secret[s]: the key session s signs with, from ensureKey on
    lastHash,   \* lastHash[s]
    pending,    \* pending[s]: ids of the Map
    queue,      \* queue[s]: answers whose closure on writeQueue has not started
    appending,  \* appending[s]: the entry inside appendFile, in a sequence
    \* The two ends of the pipes.
    sent,       \* sent[s]: how many calls the client has sent
    unanswered, \* unanswered[s]: calls the server has and has not answered
    answered,   \* answered[s]: the answers the client got, in order
    nextHash    \* the next unused record identity

files   == <<log, keyExists, keyFile>>
process == <<stage, secret, lastHash, pending, queue, appending>>
pipes   == <<sent, unanswered, answered>>
vars    == <<files, process, pipes, nextHash>>

Stages == {"off",
           "generating",   \* there was no key.hex to read
           "writing key",  \* key.hex is open for the append, and thereby exists
           "restoring", "running", "exited"}

Answer == [call : Calls, success : BOOLEAN]
Entry  == [record : ChainRecord, answer : Answer, session : Sessions, key : Keys]

Init ==
    /\ log = <<>> /\ keyExists = FALSE /\ keyFile = <<>> /\ nextHash = 1
    /\ stage = [s \in Sessions |-> "off"]
    /\ secret = [s \in Sessions |-> EmptyKey]
    /\ lastHash = [s \in Sessions |-> genesis]
    /\ pending = [s \in Sessions |-> {}]
    /\ queue = [s \in Sessions |-> <<>>]
    /\ appending = [s \in Sessions |-> <<>>]
    /\ sent = [s \in Sessions |-> 0]
    /\ unanswered = [s \in Sessions |-> {}]
    /\ answered = [s \in Sessions |-> <<>>]

-----------------------------------------------------------------------------
(* Start of a session: ensureKey, restoreLastHash                          *)

Over == {"off", "exited"}

\* Buffer.from(hex.trim(), "hex") ends with the first line; verify reads the
\* same.
KeyInFile == IF keyFile = <<>> THEN EmptyKey ELSE Head(keyFile)

\* A key file that can be read is taken as it is, though it be empty.
Launch(s) ==
    /\ stage[s] = "off" /\ \A t \in Sessions : t < s => stage[t] # "off"
    /\ Concurrent \/ \A t \in Sessions : stage[t] \in Over
    /\ \/ /\ keyExists
          /\ secret' = [secret EXCEPT ![s] = KeyInFile]
          /\ stage' = [stage EXCEPT ![s] = "restoring"]
       \/ /\ ~keyExists
          /\ secret' = [secret EXCEPT ![s] = s]
          /\ stage' = [stage EXCEPT ![s] = "generating"]
    /\ UNCHANGED <<files, lastHash, pending, queue, appending, pipes, nextHash>>

\* appendFile opens the file, which creates it if no one else has by now, and
\* writes the line after that.
CreateKey(s) ==
    /\ stage[s] = "generating"
    /\ keyExists' = TRUE
    /\ stage' = [stage EXCEPT ![s] = "writing key"]
    /\ UNCHANGED <<log, keyFile, secret, lastHash, pending, queue, appending, pipes, nextHash>>

\* Mutant: the file is written anew (writeFile).
MutantWithKey(k) == <<k>>

WithKey(k) == Append(keyFile, k)

AppendKey(s) ==
    /\ stage[s] = "writing key"
    /\ keyFile' = WithKey(secret[s])
    /\ stage' = [stage EXCEPT ![s] = "restoring"]
    /\ UNCHANGED <<log, keyExists, secret, lastHash, pending, queue, appending, pipes, nextHash>>

\* Mutant: the first line of the log instead of the last.
MutantRestoredHash == IF log = <<>> THEN genesis ELSE hashRecord(log[1].record)

RestoredHash == IF log = <<>> THEN genesis ELSE hashRecord(Last(log).record)

\* The child is spawned and the handlers are installed.
RestoreLastHash(s) ==
    /\ stage[s] = "restoring"
    /\ lastHash' = [lastHash EXCEPT ![s] = RestoredHash]
    /\ stage' = [stage EXCEPT ![s] = "running"]
    /\ UNCHANGED <<files, secret, pending, queue, appending, pipes, nextHash>>

-----------------------------------------------------------------------------
(* The line handlers                                                       *)

ClientLine(s) ==
    /\ stage[s] = "running" /\ sent[s] < MaxCalls
    /\ LET id == sent[s] + 1
       IN  /\ sent' = [sent EXCEPT ![s] = id]
           /\ pending' = [pending EXCEPT ![s] = @ \cup {id}]
           /\ unanswered' = [unanswered EXCEPT ![s] = @ \cup {id}]
    /\ UNCHANGED <<files, stage, secret, lastHash, queue, appending, answered, nextHash>>

\* Mutant: the last answer is written first.
MutantEnqueue(q, a) == <<a>> \o q

Enqueue(q, a) == Append(q, a)

\* Mutant: only calls that succeeded are put on the queue.
MutantTakePending(s, id, success) ==
    /\ pending' = [pending EXCEPT ![s] = @ \ {id}]
    /\ IF id \in pending[s] /\ success
       THEN queue' = [queue EXCEPT ![s] = Enqueue(@, [call |-> id, success |-> success])]
       ELSE UNCHANGED queue

\* if (msg.id !== undefined && pending.has(msg.id)): any line with that id.
TakePending(s, id, success) ==
    \/ /\ id \in pending[s]
       /\ pending' = [pending EXCEPT ![s] = @ \ {id}]
       /\ queue' = [queue EXCEPT ![s] = Enqueue(@, [call |-> id, success |-> success])]
    \/ id \notin pending[s] /\ UNCHANGED <<pending, queue>>

ServerResponse(s) ==
    /\ stage[s] = "running"
    /\ \E id \in unanswered[s], success \in BOOLEAN :
          /\ unanswered' = [unanswered EXCEPT ![s] = @ \ {id}]
          /\ answered' = [answered EXCEPT ![s] =
                             Append(@, [call |-> id, success |-> success])]
          /\ TakePending(s, id, success)
    /\ UNCHANGED <<files, stage, secret, lastHash, appending, sent, nextHash>>

\* A request of the server to the client (sampling, elicitation, roots): it
\* has an id from the server's own numbering, and no error.
ServerRequest(s) ==
    /\ stage[s] = "running"
    /\ \E id \in ServerIds : TakePending(s, id, TRUE)
    /\ UNCHANGED <<files, stage, secret, lastHash, appending, pipes, nextHash>>

-----------------------------------------------------------------------------
(* writeQueue                                                              *)

OwnEntries(s) == InOrder(log, {i \in DOMAIN log : log[i].session = s})
Logged(s)     == [i \in DOMAIN OwnEntries(s) |-> OwnEntries(s)[i].answer]
Signed(s)     == [i \in DOMAIN appending[s] |-> appending[s][i].answer]

\* Mutant: without the catch, one failed append leaves writeQueue rejected.
MutantQueueRuns(s) ==
    /\ appending[s] = <<>> /\ queue[s] # <<>>
    /\ Len(Logged(s)) + Len(queue[s]) = Len(answered[s])

\* The next closure on writeQueue starts when the one before it has settled.
QueueRuns(s) == appending[s] = <<>> /\ queue[s] # <<>>

\* Mutant: the head is not moved when an entry is signed.
MutantHeadAfterSign(s) == lastHash[s]

HeadAfterSign(s) == nextHash

\* createEntry, sign, and the new lastHash, before the file has the entry.
SignEntry(s) ==
    /\ stage[s] = "running" /\ QueueRuns(s)
    /\ appending' = [appending EXCEPT ![s] =
          <<[record |-> AuditRecord(nextHash, lastHash[s]), answer |-> Head(queue[s]),
             session |-> s, key |-> secret[s]]>>]
    /\ queue' = [queue EXCEPT ![s] = Tail(@)]
    /\ lastHash' = [lastHash EXCEPT ![s] = HeadAfterSign(s)]
    /\ nextHash' = nextHash + 1
    /\ UNCHANGED <<files, stage, secret, pending, pipes>>

AppendEntry(s) ==
    /\ stage[s] = "running" /\ appending[s] # <<>>
    /\ log' = log \o appending[s]
    /\ appending' = [appending EXCEPT ![s] = <<>>]
    /\ UNCHANGED <<keyExists, keyFile, stage, secret, lastHash, pending, queue, pipes, nextHash>>

\* The catch writes to stderr; lastHash stays the hash of the lost entry.
AppendFails(s) ==
    /\ "write" \in Faults
    /\ stage[s] = "running" /\ appending[s] # <<>>
    /\ appending' = [appending EXCEPT ![s] = <<>>]
    /\ UNCHANGED <<files, stage, secret, lastHash, pending, queue, pipes, nextHash>>

\* Nothing is left in the process that has not reached the files.
Drained(s) == stage[s] = "running" /\ queue[s] = <<>> /\ appending[s] = <<>>

\* A process with nothing under way may end, and any process when one may
\* crash, or when its key cannot be written (ensureKey rejects).
MayEnd(s) ==
    \/ Drained(s)
    \/ "exit" \in Faults
    \/ "write" \in Faults /\ stage[s] \in {"generating", "writing key"}

\* The process ends: child.on("exit") calls process.exit at once, the queue
\* and the map are gone, and an append under way lands or does not, also that
\* of the key: the file is left out, empty, or with the key.
Exit(s) ==
    /\ stage[s] \notin Over /\ MayEnd(s)
    /\ stage' = [stage EXCEPT ![s] = "exited"]
    /\ pending' = [pending EXCEPT ![s] = {}]
    /\ queue' = [queue EXCEPT ![s] = <<>>]
    /\ appending' = [appending EXCEPT ![s] = <<>>]
    /\ log' \in {log, log \o appending[s]}
    /\ \/ UNCHANGED <<keyExists, keyFile>>
       \/ stage[s] = "generating" /\ keyExists' = TRUE /\ UNCHANGED keyFile
       \/ stage[s] \in {"generating", "writing key"}
             /\ keyExists' = TRUE /\ keyFile' = WithKey(secret[s])
    /\ UNCHANGED <<secret, lastHash, pipes, nextHash>>

-----------------------------------------------------------------------------

Start(s)   == Launch(s) \/ CreateKey(s) \/ AppendKey(s) \/ RestoreLastHash(s)
Handler(s) == ClientLine(s) \/ ServerResponse(s) \/ ServerRequest(s)
Write(s)   == SignEntry(s) \/ AppendEntry(s) \/ AppendFails(s)

\* Every session is over.
Finished == (\A s \in Sessions : stage[s] = "exited") /\ UNCHANGED vars

Next ==
    \/ \E s \in Sessions : Start(s) \/ Handler(s) \/ Write(s) \/ Exit(s)
    \/ Finished

Spec == Init /\ [][Next]_vars

\* The closures on writeQueue run and their appendFile ends.  Nothing is
\* assumed of the client or of the server.
FairSpec == Spec /\ \A s \in Sessions : WF_vars(Write(s))

-----------------------------------------------------------------------------

\* A session that waits for its key has it, and the key a session signs with is
\* in the file, unless the session found the file empty.
KeyKept(s) ==
    /\ stage[s] \in {"generating", "writing key"} => secret[s] = s
    /\ stage[s] \in {"restoring", "running"} /\ secret[s] # EmptyKey =>
          \E i \in DOMAIN keyFile : keyFile[i] = secret[s]

\* The types; and no session loses the key it signs with to another one that
\* makes a key at the same time (ensureKey).
TypeOK ==
    /\ log \in Seq(Entry) /\ keyExists \in BOOLEAN /\ keyFile \in Seq(Sessions)
    /\ stage \in [Sessions -> Stages]
    /\ secret \in [Sessions -> Keys]
    /\ \A s \in Sessions : KeyKept(s)
    /\ lastHash \in [Sessions -> Nat]
    /\ pending \in [Sessions -> SUBSET Calls] /\ unanswered \in [Sessions -> SUBSET Calls]
    /\ queue \in [Sessions -> Seq(Answer)] /\ answered \in [Sessions -> Seq(Answer)]
    /\ appending \in [Sessions -> Seq(Entry)]
    /\ sent \in [Sessions -> 0..MaxCalls]
    /\ nextHash \in Nat \ {genesis}

\* The records of the entries, as a verifier reads them.
Records == [i \in DOMAIN log |-> log[i].record]

\* As long as the process lives, what is in the log, in appendFile and on the
\* queue is, in that order, exactly what the client was answered: nothing is
\* logged twice, early, out of order or under another call's name; when the
\* process has ended, the log has a prefix of it (serverRl line handler).
LogFollowsClient ==
    \A s \in Sessions :
        IF stage[s] = "exited" THEN IsPrefix(Logged(s), answered[s])
        ELSE Logged(s) \o Signed(s) \o queue[s] = answered[s]

\* Where in answered[s] the answer of an entry is.
Place(s, e) == {j \in DOMAIN answered[s] : answered[s][j] = e.answer}

\* Within a session, the entries of two answers with no other answer between
\* them are linked, however the entries of other processes lie between them
\* and whatever appends failed before.
SessionLinked ==
    \A s \in Sessions : LET own == OwnEntries(s) IN
        \A i \in 2..Len(own) :
            (\E j \in Place(s, own[i - 1]) : j + 1 \in Place(s, own[i]))
                => own[i].record.previousHash = hashRecord(own[i - 1].record)

\* `mcp-audit verify' with the key of the key file finds no invalid line in a
\* log to which sessions were appended one after another, each taking up the
\* head where the last one stopped, at any point (restoreLastHash).  All of them
\* sign with one key, or all with none, if the first one ended in ensureKey.
LogVerifies ==
    verifyAuditLog(Records, [i \in DOMAIN log |->
        IF log[i].key = KeyInFile THEN "valid" ELSE "mismatch"]) = {}

\* Each answered call is logged in the end, unless its process ends first.
AnsweredIsLogged ==
    \A s \in Sessions : \A c \in Calls :
        (\E i \in DOMAIN answered[s] : answered[s][i].call = c)
            ~> \/ stage[s] = "exited"
               \/ \E i \in DOMAIN log : log[i].session = s /\ log[i].answer.call = c

\* Failed appends lose entries, and no more: what is in the log was answered,
\* once each and in that order.
LoggedInOrder ==
    \A s \in Sessions : LET own == OwnEntries(s) IN
        /\ \A i \in DOMAIN own : Cardinality(Place(s, own[i])) = 1
        /\ \A i, k \in DOMAIN own :
              i < k => \A j \in Place(s, own[i]), l \in Place(s, own[k]) : j < l

\* A failed append does not hold up the answers behind it: each of them
\* leaves the queue in the end (the try/catch in the closure).
QueueDrains ==
    \A s \in Sessions, c \in Calls :
        (\E i \in DOMAIN queue[s] : queue[s][i].call = c)
            ~> \A i \in DOMAIN queue[s] : queue[s][i].call # c

\* The records in the file are an abstract ledger.
Ledger == INSTANCE HashLedger WITH ledger <- Records

\* Sessions that follow one another extend one chain by one record at a time.
ImplementsLinkedLedger == Ledger!LinkedSpec

-----------------------------------------------------------------------------
(* What the documentation promises and the code does not keep              *)

\* README.md:46: every entry is chained to the previous record.
EntriesChained == verifyChainLines(Records) = {}

\* README.md:33: every tool call is signed and logged; a session that has
\* ended has left an entry for each call it answered.
EveryCallLogged ==
    \A s \in Sessions : stage[s] = "exited" => Logged(s) = answered[s]

\* README.md:74: only tools/call responses get logged: an entry is there only
\* when the server has answered that call.
OnlyResponsesLogged ==
    \A i \in DOMAIN log : \E j \in DOMAIN answered[log[i].session] :
        answered[log[i].session][j] = log[i].answer

\* README.md:76: the key generated on first run is the one in key.hex, so
\* that every entry can be verified with it.
OneKey == \A i \in DOMAIN log : log[i].key = KeyInFile

\* README.md:76: a key is generated on first run.  A process that finds the key
\* file between its creation and its write, or after a crash there, signs with an
\* empty one.
SignedWithSecret == \A i \in DOMAIN log : log[i].key # EmptyKey

=============================================================================
