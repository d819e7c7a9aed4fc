------------------------------- MODULE Gateway -------------------------------
(***************************************************************************)
(* The gateway of src/src/proxy/gateway.ts with one upstream: the tool     *)
(* catalog and its refreshes, the tool integrity monitor                   *)
(* (src/src/attestation/tool-integrity.ts) and tools/call.                 *)
(*                                                                         *)
(* JavaScript runs one handler at a time up to its next await.  A call     *)
(* awaits the upstream and the audit log, a refresh awaits the audit log   *)
(* once for every tool that drifted; everything else may run in between.   *)
(* The log writes one record at a time, in the order of the calls on it    *)
(* (AuditTrail!AcknowledgedInOrder, AuditLogProofs!CallsAreSerial), and    *)
(* gateway.ts sets up no checkpoints.  A refresh is what reconnect() of    *)
(* the upstream manager does from listTools on; UpstreamManager shows that *)
(* two of them can overlap.  The policy decision is left open here         *)
(* (PolicyEngine).                                                         *)
(***************************************************************************)
EXTENDS Naturals, Sequences, SequencesExt, Selection

CONSTANTS
    Tools,      \* what the upstream may serve, by qualified name
    Defs,       \* the definitions a tool can have
    AtStart,    \* those it may have at first: one is enough, as TLC has to try
                \* no other, definitions of one tool being only compared
    NoDef,      \* no definition: the tool is not served, not known
    Calls,      \* bound: tools/call requests, each made once
    Refreshes,  \* bound: reconnects that get as far as listTools
    MaxChanges, \* bound: changes of the tools the server has
    Actions,    \* toolIntegrity.action, "disabled" when it is not enabled
    Faults      \* of "write" (the log rejects), "exit" (the process ends)

\* SHA-256 over canonical JSON of everything the gateway keeps of a tool.
computeDigest(d) == <<"sha256", d>>

Digests == {computeDigest(d) : d \in Defs}

ASSUME ConstantsAssumption ==
    /\ NoDef \notin Defs \cup Digests /\ AtStart \subseteq Defs /\ MaxChanges \in Nat
    /\ Actions \subseteq {"disabled", "record", "record_and_block"}
    /\ Faults \subseteq {"write", "exit"}

VARIABLES
    action,        \* config.toolIntegrity: never changes
    process,       \* "starting", "serving", "ended"
    connected,     \* connect() of the upstream has succeeded
    served,        \* the server's own definitions
    changes,       \* how often they have changed
    toolCatalog,   \* Gateway.toolCatalog: the definition registered for a tool
    baselines,     \* ToolIntegrityMonitor.baselines
    driftedTools,  \* Gateway.driftedTools
    refreshes,     \* where each refresh is, and the tools it has yet to check
    calls,         \* where each call is, its tool and its outcome
    answer,        \* what the client got
    writeQueue,    \* AuditLog.writeQueue: records not yet settled
    log,           \* the audit log
    approved,      \* history: the definitions first checked, or last accepted
    lost,          \* history: the tools a drift record of which was not written
    delisted       \* history: the tools a later list of the server left out

monitor == <<toolCatalog, baselines, driftedTools, approved>>
audit   == <<writeQueue, log, lost>>
clients == <<calls, answer>>
listing == <<refreshes, delisted>>
server  == <<served, changes>>
vars == <<action, process, connected, server, monitor, listing, clients, audit>>

-----------------------------------------------------------------------------

NoTool == [at |-> "new", tool |-> "none", outcome |-> "none"]

CallAt(place, t, o) == [at |-> place, tool |-> t, outcome |-> o]

NoAnswer == [audit |-> "none", outcome |-> "none"]

Answer(id, o) == [audit |-> id, outcome |-> o]

\* Refused before they reach the upstream, or executed.
Refusals == {"unknown", "drifted", "denied"}
Outcomes == Refusals \cup {"ok", "error"}

Nothing == [t \in {} |-> NoDef]

RefreshAt(place, todo) == [at |-> place, todo |-> todo]

CallRecord(c, t, o) == [type |-> "call", call |-> c, tool |-> t, outcome |-> o]

DriftRecord(r, t, old, new) ==
    [type |-> "tool_drift", refresh |-> r, tool |-> t,
     previousDefinitionDigest |-> old, newDefinitionDigest |-> new]

\* What the server answers to listTools.
Listed == [t \in {u \in Tools : served[u] # NoDef} |-> served[t]]

NoTools == [t \in Tools |-> NoDef]

Init ==
    /\ action \in Actions
    /\ process = "starting" /\ connected = FALSE
    /\ served \in [Tools -> AtStart \cup {NoDef}] /\ changes = 0
    /\ toolCatalog = NoTools /\ baselines = NoTools
    /\ driftedTools = {}
    /\ refreshes = [r \in Refreshes |-> RefreshAt("new", Nothing)]
    /\ calls = [c \in Calls |-> NoTool]
    /\ answer = [c \in Calls |-> NoAnswer]
    /\ writeQueue = <<>> /\ log = <<>>
    /\ approved = [t \in Tools |-> {}]
    /\ lost = {} /\ delisted = {}

\* The server changes, adds or removes tools.
ServerChanges ==
    /\ process # "ended" /\ changes < MaxChanges /\ changes' = changes + 1
    /\ served' \in [Tools -> Defs \cup {NoDef}] \ {served}
    /\ UNCHANGED <<action, process, connected, monitor, listing, clients, audit>>

-----------------------------------------------------------------------------
(* The catalog and the monitor                                             *)

Known(t) == toolCatalog[t] # NoDef

\* Tools the server no longer lists stay in the catalog.
registerUpstreamTools(tools) ==
    toolCatalog' =
        [t \in Tools |-> IF t \in DOMAIN tools THEN tools[t] ELSE toolCatalog[t]]

\* Mutant: the baseline stays as it was.
MutantUpdated(tools, S) ==
    [t \in Tools |-> IF t \in S /\ baselines[t] = NoDef
                     THEN computeDigest(tools[t]) ELSE baselines[t]]

\* The baselines after checkAndUpdate of the tools in S.
Updated(tools, S) ==
    [t \in Tools |-> IF t \in S THEN computeDigest(tools[t]) ELSE baselines[t]]

\* Mutant: config.toolIntegrity.enabled is not looked at.
MutantEnabled == TRUE

Enabled == action # "disabled"

\* checkAndUpdate returns an event: seen before, with another definition.
Drifts(tools, t) == baselines[t] \notin {NoDef, computeDigest(tools[t])}

\* Mutant: a tool that drifted is recorded but not flagged.
MutantFlag(t, drifting) == UNCHANGED driftedTools

\* Mutant: all tools that drifted are flagged first, and recorded then.
MutantFlagFirst(t, drifting) == driftedTools' = driftedTools \cup drifting

Flag(t, drifting) == driftedTools' = driftedTools \cup {t}

\* checkAndUpdate of the tools in S: the first definition it sees is trusted.
Check(tools, S) ==
    /\ baselines' = Updated(tools, S)
    /\ approved' = [t \in Tools |-> IF t \in S /\ baselines[t] = NoDef
                                   THEN {tools[t]} ELSE approved[t]]

Without(tools, S) == [t \in DOMAIN tools \ S |-> tools[t]]

Drifting(tools) == {t \in DOMAIN tools : Drifts(tools, t)}

\* No tool is left that drifted, or drift is not looked for.
CheckEnds(r, tools, queue) ==
    /\ ~Enabled \/ Drifting(tools) = {}
    /\ Check(tools, IF Enabled THEN DOMAIN tools ELSE {})
    /\ refreshes' = [refreshes EXCEPT ![r] = RefreshAt("done", Nothing)]
    /\ writeQueue' = queue
    /\ UNCHANGED driftedTools

\* The loop has passed some tools when it comes to t, and awaits the log.
CheckFinds(r, tools, queue, passed, t) ==
    /\ Check(tools, passed \cup {t})
    /\ Flag(t, Drifting(tools))
    /\ writeQueue' = Append(queue, DriftRecord(r, t, baselines[t], computeDigest(tools[t])))
    /\ refreshes' = [refreshes EXCEPT ![r] =
                        RefreshAt("recording", Without(tools, passed \cup {t}))]

\* The rest of the loop of checkToolIntegrity up to its next await.  The server
\* chose the order of the list: any tools that did not drift may come before
\* the first one that did.
checkToolIntegrity(r, tools, queue) ==
    \/ CheckEnds(r, tools, queue)
    \/ /\ Enabled
       /\ \E t \in Drifting(tools), passed \in SUBSET (DOMAIN tools \ Drifting(tools)) :
             CheckFinds(r, tools, queue, passed, t)

\* init() awaits connectUpstream() before the gateway takes calls.  Its first
\* listing finds no baselines.  A failure is printed and never tried again.
connectUpstream ==
    /\ process = "starting" /\ process' = "serving"
    /\ \/ /\ connected' = TRUE
          /\ registerUpstreamTools(Listed)
          /\ Check(Listed, IF Enabled THEN DOMAIN Listed ELSE {})
       \/ UNCHANGED <<connected, toolCatalog, baselines, approved>>
    /\ UNCHANGED <<action, server, driftedTools, listing, clients, audit>>

\* The server answers listTools of a reconnect, the first time or again.
RefreshListed(r) ==
    /\ process = "serving" /\ connected
    /\ refreshes[r].at \in {"new", "retry"}
    /\ refreshes' = [refreshes EXCEPT ![r] = RefreshAt("listed", Listed)]
    /\ delisted' = delisted \cup {t \in Tools : Known(t) /\ served[t] = NoDef}
    /\ UNCHANGED <<action, process, connected, server, monitor, clients, audit>>

\* The answer arrives: the refresh callback registers all tools and starts to
\* check them.
RefreshArrives(r) ==
    /\ process = "serving" /\ refreshes[r].at = "listed"
    /\ registerUpstreamTools(refreshes[r].todo)
    /\ checkToolIntegrity(r, refreshes[r].todo, writeQueue)
    /\ UNCHANGED <<action, process, connected, server, clients, log, lost, delisted>>

\* The operator accepts the definition the catalog has now and the one that
\* was checked last; they can differ when refreshes overlap.
Accept(S) ==
    /\ process = "serving" /\ S # {} /\ S \subseteq driftedTools
    /\ driftedTools' = driftedTools \ S
    /\ approved' = [t \in Tools |->
           IF t \notin S THEN approved[t]
           ELSE {d \in Defs : d = toolCatalog[t] \/ computeDigest(d) = baselines[t]}]
    /\ UNCHANGED <<action, process, connected, server, toolCatalog, baselines,
                   listing, clients, audit>>

rebaselineTool(t) == Accept({t})
rebaselineAll == Accept(driftedTools)

-----------------------------------------------------------------------------
(* handleToolsCall()                                                       *)

\* Up to the await of the audit log.
Conclude(c, t, o) ==
    /\ calls' = [calls EXCEPT ![c] = CallAt("recording", t, o)]
    /\ writeQueue' = Append(writeQueue, CallRecord(c, t, o))

Blocked(t) == action = "record_and_block" /\ t \in driftedTools

CallArrives(c, t) ==
    /\ process = "serving" /\ calls[c] = NoTool
    /\ UNCHANGED <<action, process, connected, server, monitor, listing,
                   answer, log, lost>>

CallUnknown(c, t) == CallArrives(c, t) /\ ~Known(t) /\ Conclude(c, t, "unknown")

CallBlocked(c, t) ==
    CallArrives(c, t) /\ Known(t) /\ Blocked(t) /\ Conclude(c, t, "drifted")

CallDenied(c, t) ==
    CallArrives(c, t) /\ Known(t) /\ ~Blocked(t) /\ Conclude(c, t, "denied")

CallForwarded(c, t) ==
    /\ CallArrives(c, t) /\ Known(t) /\ ~Blocked(t)
    /\ calls' = [calls EXCEPT ![c] = CallAt("upstream", t, "none")]
    /\ UNCHANGED writeQueue

\* upstreamManager.callTool settles.
UpstreamEnds(c) ==
    /\ process = "serving" /\ calls[c].at = "upstream"
    /\ \E o \in {"ok", "error"} : Conclude(c, calls[c].tool, o)
    /\ UNCHANGED <<action, process, connected, server, monitor, listing,
                   answer, log, lost>>

-----------------------------------------------------------------------------
(* The audit log settles its oldest call                                   *)

Answers(c, id) ==
    /\ calls' = [calls EXCEPT ![c] = CallAt("answered", @.tool, @.outcome)]
    /\ answer' = [answer EXCEPT ![c] = Answer(id, calls[c].outcome)]

Writing(type) ==
    /\ process = "serving" /\ writeQueue # <<>>
    /\ Head(writeQueue).type = type
    /\ UNCHANGED <<action, process, connected, server>>

\* The answer carries the id of the record.
CallRecorded ==
    /\ Writing("call")
    /\ log' = Append(log, Head(writeQueue)) /\ writeQueue' = Tail(writeQueue)
    /\ Answers(Head(writeQueue).call, "recorded")
    /\ UNCHANGED <<monitor, listing, lost>>

\* Mutant: the record is answered with whether or not it was written.
MutantUnattested(o) == "recorded"

\* A refused call rejects with the error of the log, and the client gets an
\* error without an audit id; safeAuditRecord turns the error of an executed
\* call into a record with the id "unrecorded".
Unattested(o) == "unrecorded"

\* Mutant: an error of the log answers nobody.
MutantCallUnrecorded ==
    /\ "write" \in Faults /\ Writing("call")
    /\ writeQueue' = Tail(writeQueue)
    /\ UNCHANGED <<monitor, listing, clients, log, lost>>

CallUnrecorded ==
    /\ "write" \in Faults /\ Writing("call")
    /\ writeQueue' = Tail(writeQueue)
    /\ LET c == Head(writeQueue).call IN Answers(c, Unattested(calls[c].outcome))
    /\ UNCHANGED <<monitor, listing, log, lost>>

\* The loop of checkToolIntegrity goes on.
DriftRecorded ==
    /\ Writing("tool_drift")
    /\ log' = Append(log, Head(writeQueue))
    /\ LET r == Head(writeQueue).refresh IN
       checkToolIntegrity(r, refreshes[r].todo, Tail(writeQueue))
    /\ UNCHANGED <<toolCatalog, clients, lost, delisted>>

\* Mutant: the reconnect is not tried again.
MutantAfterFailure == RefreshAt("done", Nothing)

\* reconnect() catches the rejection and schedules another reconnect.
AfterFailure == RefreshAt("retry", Nothing)

\* The loop ends here, with the baseline moved and tools unchecked.
DriftUnrecorded ==
    /\ "write" \in Faults /\ Writing("tool_drift")
    /\ writeQueue' = Tail(writeQueue)
    /\ refreshes' = [refreshes EXCEPT ![Head(writeQueue).refresh] = AfterFailure]
    /\ lost' = lost \cup {Head(writeQueue).tool}
    /\ UNCHANGED <<monitor, clients, log, delisted>>

\* SIGINT, or a crash: nothing waits for calls or for the queue, whose first
\* append may be done.  Everything but the log is in memory.
Exit ==
    /\ "exit" \in Faults /\ process = "serving"
    /\ process' = "ended"
    /\ \/ UNCHANGED log
       \/ writeQueue # <<>> /\ log' = Append(log, Head(writeQueue))
    /\ writeQueue' = <<>> /\ connected' = FALSE
    /\ toolCatalog' = NoTools /\ baselines' = NoTools /\ driftedTools' = {}
    /\ refreshes' = [r \in Refreshes |-> RefreshAt("new", Nothing)]
    /\ calls' = [c \in Calls |-> IF answer[c] = NoAnswer THEN NoTool ELSE calls[c]]
    /\ approved' = [t \in Tools |-> {}] /\ delisted' = {}
    /\ UNCHANGED <<action, server, answer, lost>>

-----------------------------------------------------------------------------

Finished ==
    /\ \/ process = "ended"
       \/ /\ writeQueue = <<>>
          /\ \A c \in Calls : calls[c].at = "answered"
          /\ \A r \in Refreshes : ~connected \/ refreshes[r].at = "done"
    /\ UNCHANGED vars

Refreshing(r) == RefreshListed(r) \/ RefreshArrives(r)

Calling(c, t) ==
    \/ CallUnknown(c, t) \/ CallBlocked(c, t)
    \/ CallDenied(c, t) \/ CallForwarded(c, t)

Settling == CallRecorded \/ CallUnrecorded \/ DriftRecorded \/ DriftUnrecorded

Next ==
    \/ ServerChanges \/ connectUpstream
    \/ rebaselineAll \/ \E t \in Tools : rebaselineTool(t)
    \/ \E r \in Refreshes : Refreshing(r)
    \/ \E c \in Calls, t \in Tools : Calling(c, t)
    \/ \E c \in Calls : UpstreamEnds(c)
    \/ Settling \/ Exit \/ Finished

Spec == Init /\ [][Next]_vars

\* The append under way ends, the upstream's answer or its timeout comes, and
\* the reconnect that was scheduled is done.
Fairness ==
    /\ WF_vars(Settling)
    /\ \A c \in Calls : WF_vars(UpstreamEnds(c))
    /\ \A r \in Refreshes : WF_vars(RefreshArrives(r))
                         /\ WF_vars(refreshes[r].at = "retry" /\ RefreshListed(r))

FairSpec == Spec /\ Fairness

-----------------------------------------------------------------------------

Listings == UNION {[S -> Defs] : S \in SUBSET Tools}

RecordType ==
    [type : {"call"}, call : Calls, tool : Tools, outcome : Outcomes] \cup
    [type : {"tool_drift"}, refresh : Refreshes, tool : Tools,
     previousDefinitionDigest : Digests, newDefinitionDigest : Digests]

\* The types, and that tools are flagged and refreshes wait for the log only
\* when drift is looked for.
TypeOK ==
    /\ action \in Actions
    /\ process \in {"starting", "serving", "ended"} /\ connected \in BOOLEAN
    /\ served \in [Tools -> Defs \cup {NoDef}]
    /\ toolCatalog \in [Tools -> Defs \cup {NoDef}]
    /\ approved \in [Tools -> SUBSET Defs] /\ changes \in 0 .. MaxChanges
    /\ baselines \in [Tools -> Digests \cup {NoDef}]
    /\ driftedTools \subseteq Tools /\ lost \subseteq Tools /\ delisted \subseteq Tools
    /\ refreshes \in [Refreshes -> [at : {"new", "listed", "recording", "retry", "done"},
                                    todo : Listings]]
    /\ action = "disabled" =>
          driftedTools = {} /\ \A r \in Refreshes : refreshes[r].at # "recording"
    /\ calls \in [Calls -> {NoTool} \cup
                   [at : {"upstream"}, tool : Tools, outcome : {"none"}] \cup
                   [at : {"recording", "answered"}, tool : Tools, outcome : Outcomes]]
    /\ answer \in [Calls -> {NoAnswer} \cup
                   [audit : {"recorded", "unrecorded"}, outcome : Outcomes]]
    /\ writeQueue \in Seq(RecordType) /\ log \in Seq(RecordType)

\* A refresh has yet to come to t, or is tried again.
CheckPending(t) ==
    \E r \in Refreshes :
        \/ t \in DOMAIN refreshes[r].todo
        \/ refreshes[r].at = "retry"

\* The refresh that registered t may have ended before it came to t, and the
\* next one did not list it.
Dropped(t) == lost # {} /\ t \in delisted

Trusted(t) == baselines[t] # NoDef => toolCatalog[t] \in approved[t]

\* A definition that is not the one first checked, nor accepted by the operator
\* since, is flagged, or a refresh is about to check it: whatever refreshes
\* overlap, in whatever order they end, and whichever audit writes fail
\* (checkToolIntegrity, rebaselineTool).
DriftFlagged ==
    action # "disabled" =>
        \A t \in Tools :
            Trusted(t) \/ t \in driftedTools \/ CheckPending(t) \/ Dropped(t)

Drift(r, t) == r.type = "tool_drift" /\ r.tool = t

\* The drift records of a tool tell its definitions without a gap: each starts
\* from what the one before ended with, and the newest ends with the baseline,
\* though two refreshes check the tool in turns and records wait in the queue
\* (checkAndUpdate runs in the same turn as the call on the log).
DriftsLinked ==
    LET told == log \o writeQueue IN
    process = "serving" => \A t \in Tools \ lost :
        \A j \in DOMAIN told : Drift(told[j], t) =>
            \/ told[j].newDefinitionDigest = baselines[t]
               /\ \A k \in j + 1 .. Len(told) : ~Drift(told[k], t)
            \/ \E k \in j + 1 .. Len(told) :
                  /\ Drift(told[k], t)
                  /\ told[k].previousDefinitionDigest = told[j].newDefinitionDigest
                  /\ \A i \in j + 1 .. k - 1 : ~Drift(told[i], t)

\* The record of a call that was blocked for drift comes after the record of
\* that drift, unless writing that one failed.
BlockExplained ==
    \A j \in DOMAIN log :
        log[j].type = "call" /\ log[j].outcome = "drifted" =>
            \/ \E i \in 1 .. j - 1 : Drift(log[i], log[j].tool)
            \/ log[j].tool \in lost

\* The gateway implements AuditedCalls: no call is recorded twice, and an
\* answer has the id of a record exactly when the record is in the log, with
\* the outcome the client is told, though the process may end at any time and
\* any write may fail.
CallsIn(records) ==
    LET told == InOrder(records, {i \in DOMAIN records : records[i].type = "call"})
    IN [i \in DOMAIN told |-> [call |-> told[i].call, outcome |-> told[i].outcome]]

Audited == INSTANCE AuditedCalls WITH records <- CallsIn(log)

ImplementsAuditedCalls == Audited!Spec

\* Every call is answered while the process runs: neither drift records ahead
\* of it nor failing writes hold it up.
CallsAnswered ==
    \A c \in Calls :
        calls[c].at # "new" ~> answer[c] # NoAnswer \/ process = "ended"

\* A definition that changed is flagged in the end, though every attempt to
\* record a drift may fail: each attempt gets one tool further.
DriftsGetFlagged ==
    \A t \in Tools :
        (action # "disabled" /\ ~Trusted(t)) ~>
            Trusted(t) \/ t \in driftedTools \/ Dropped(t) \/ process = "ended"

-----------------------------------------------------------------------------
(* Why drift is flagged: the inductive invariant of GatewayProofs          *)

\* A refresh will check what the catalog has of t, put something else there, or
\* is tried again.
WillCheck(t) ==
    \E r \in Refreshes :
        \/ refreshes[r].at = "retry"
        \/ /\ t \in DOMAIN refreshes[r].todo
           /\ \/ refreshes[r].at = "listed"
              \/ refreshes[r].at = "recording" /\ refreshes[r].todo[t] = toolCatalog[t]

\* What the catalog has, and what was checked last, is accepted or flagged.
CatalogWatched ==
    \A t \in Tools : Known(t) =>
        toolCatalog[t] \in approved[t] \/ t \in driftedTools \/ WillCheck(t) \/ Dropped(t)

BaselineWatched ==
    \A t \in Tools, d \in Defs :
        baselines[t] = computeDigest(d) => d \in approved[t] \/ t \in driftedTools

\* What has been checked is in the catalog; what has not was neither accepted
\* nor flagged, and nothing has before the first listing.
CheckedIsKnown ==
    /\ process = "starting" => baselines = NoTools
    /\ \A t \in Tools : baselines[t] = NoDef => approved[t] = {} /\ t \notin driftedTools
    /\ \A t \in Tools : baselines[t] # NoDef => Known(t)
    /\ \A r \in Refreshes :
          refreshes[r].at = "recording" => \A t \in DOMAIN refreshes[r].todo : Known(t)

\* Each refresh that waits for the log has one record there, and one is tried
\* again only when a record was lost.
RefreshesWait ==
    /\ \A r \in Refreshes : refreshes[r].at = "retry" => lost # {}
    /\ \A i \in DOMAIN writeQueue : writeQueue[i].type = "tool_drift" =>
          /\ refreshes[writeQueue[i].refresh].at = "recording"
          /\ \A j \in DOMAIN writeQueue :
                writeQueue[j].type = "tool_drift" /\ i # j =>
                    writeQueue[j].refresh # writeQueue[i].refresh

\* So has each call that waits for the log.
CallsWait ==
    \A i \in DOMAIN writeQueue : writeQueue[i].type = "call" =>
        /\ calls[writeQueue[i].call].at = "recording"
        /\ \A j \in DOMAIN writeQueue :
              writeQueue[j].type = "call" /\ i # j =>
                  writeQueue[j].call # writeQueue[i].call

DriftInv ==
    /\ TypeOK /\ CallsWait /\ RefreshesWait
    /\ action # "disabled" => CatalogWatched /\ BaselineWatched /\ CheckedIsKnown

-----------------------------------------------------------------------------
(* What messages and documents say and the code does not keep              *)

\* gateway.ts:190: a call to a tool whose definition drifted is "blocked
\* pending operator rebaseline".  While the record of another tool's drift is
\* awaited the catalog has the new definition and the flag is not yet set.
DriftedNeverForwarded ==
    [][\A c \in Calls, t \in Tools :
          action = "record_and_block" /\ CallForwarded(c, t)
              => Trusted(t)]_vars

\* docs/SECURITY-DESIGN.md:47: the audit chain "commits post-completion
\* evidence for whichever calls did reach the upstream".
ExecutedIsRecorded ==
    \A c \in Calls :
        answer[c].outcome \in {"ok", "error"} => answer[c].audit = "recorded"

=============================================================================
