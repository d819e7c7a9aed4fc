# Verification of mcp-audit-gateway

TLA+ models of the gateway, model-checked with TLC on small instances, and
theorems about them checked by TLAPS for every value of the constants. Paths
are relative to the repository; line numbers belong to the files named.

## 1. The system

mcp-audit-gateway sits between MCP clients and MCP servers. Every tool call is
checked against a policy, forwarded, signed, and appended to a hash-chained
audit log, which independent verifiers can check afterwards. There are two
programs behind one command line (`src/cli.ts`): `mcp-audit-gateway`, with
several upstream servers and policies, which also is a library (`src/index.ts`;
checkpoints, health checks and a forced chain break are reached only through
it), and `mcp-audit wrap` (`src/wrap/proxy.ts`), a pass-through proxy around one
server.

| Component | State | Operations | Interacts with |
|---|---|---|---|
| Audit log writer, `attestation/audit-log.ts` | fields `lastHash`, `currentSize`, counters, `rotationBoundaryHash`, `writeQueue`; files: the log, rotated logs, `.state.json` | `init`, `record`, `recordToolDrift`, `emitCheckpoint`, `forceNewChain`, and inside them checkpoints, rotation, state saves | Gateway calls it; verifiers read its files |
| Chain records, `types.ts` | none | constructors and type tests | everything that reads or writes the log |
| Chain verifiers, `attestation/verify.ts` | none | `verifyAuditLog`, `verifyChainLines`, `verifyChain`, `verifyCompleteness` | read the log; `mcp-audit verify` prints the result |
| Wrap proxy, `wrap/proxy.ts` | per process: `secret`, `lastHash`, `pending`, `writeQueue`; shared files `audit.jsonl`, `key.hex` | start, two line handlers, write queue, exit | other proxies through the two files |
| Upstream manager, `proxy/upstream-manager.ts` | per upstream: client, status, failure count, reconnect timer; health-check interval | `connect`, `callTool`, health checks, reconnection with backoff, `disconnectAll` | Gateway, through calls and the tools-refresh callback |
| Gateway, `proxy/gateway.ts` | tool catalog, drifted tools, config | `init`, `handleToolsCall`, `registerUpstreamTools`, `checkToolIntegrity`, `rebaselineTool`, `rebaselineAll`, `shutdown` | all of the above and the two below |
| Tool integrity monitor, `attestation/tool-integrity.ts` | baseline digest per tool | `checkAndUpdate` | Gateway |
| Policy engine, `policy/engine.ts` | two rate windows per caller and tool | `evaluate`, `filterTools`, `recordInvocation`, glob matching | Gateway |
| Signers, `attestation/signer.ts` | keys | `sign`, `verify`, canonical form | writer, verifiers |
| Witness, `attestation/witness.ts` | none | statement about a record, binding checks | reads records |
| Adapter, CLI, telemetry, keygen | none that is read back | translation, printing, output | |

What is hard about it:

* **Interleaving.** JavaScript runs a callback to its end, but every `await` is
  a point where another call, a timer or an answer may run. The writer
  serialises its calls on a promise chain; the wrap proxy serialises writes
  only; the upstream manager does not serialise anything; two refreshes of the
  tools and any number of calls share the catalog, the baselines and the flags.
* **Partial failure.** Each of `sign`, `appendFile`, `rename`, `writeFile` may
  reject after the fields have, or have not, been changed. The gateway treats a
  failed audit write in three ways: a refused call is rejected, an executed one
  is answered all the same, a check of tool definitions ends half done.
* **Crash and restart.** The head of the chain, the counters and the boundary
  hash are rebuilt from two files that are not written atomically together.
* **Time.** Rate windows begin with a call and end without one, and the clock
  goes on between the check of a limit and the count.
* **Several processes** share one log and one key file in wrap mode.
* **Verification is about adversity**: an honest log must be accepted at every
  moment, a damaged one reported at the place of the damage.

What makes each component correct:

* *Writer*: one unbroken chain over all files, acknowledged records on disk once
  and in the order of the calls, counters that agree with the files, calls that
  settle, restarts that accept what the process itself left behind.
* *Verifiers*: they accept what the writer wrote, report cuts and damage, and
  report nothing else.
* *Wrap proxy*: each answer the client got is logged, once, in order, in a chain
  that verifies, even over several sessions and processes.
* *Upstream manager*: an upstream that can not be used is being repaired and
  comes back; shutdown leaves nothing running and nothing open.
* *Gateway and monitor*: a definition that changed is flagged or about to be
  checked; drift records tell the history of a tool without a gap; a call is
  recorded at most once and its answer says whether it was, and with which
  outcome; every call is answered.
* *Policy engine*: a limit bounds the calls in any time of the length of its
  window; nobody is refused for calls of others whose names do not join to the
  same key; globs mean what they say.
* *Signers, witness*: a signature holds exactly for what the record says, edits
  are found, and projections split a record between roles and parties.

`PROJECT.json` lists every such hazard at its line, and the properties that
would catch it.

## 2. The modules

| Module | Models | Built on |
|---|---|---|
| `ChainRecords` | the four record types of `types.ts`, and `hashRecord` | |
| `AuditLog` | class `AuditLog`, its files, the process it lives in | `ChainRecords` |
| `ChainVerify` | the verifiers, as operators on a sequence of lines | `ChainRecords` |
| `HashLedger` | abstract specification: what any audit log promises | `ChainRecords` |
| `AuditTrail` | writer and verifiers composed; the refinement of `HashLedger` | `AuditLog`, `ChainVerify` |
| `Selection` | what is left of a sequence at some of its places, by counting | |
| `WrapProxy` | `mcp-audit wrap`: any number of proxy processes on shared files | `ChainVerify`, `Selection` |
| `UpstreamManager` | class `UpstreamManager`, for one upstream server | |
| `Gateway` | class `Gateway` and class `ToolIntegrityMonitor`, for one upstream server | `Selection` |
| `AuditedCalls` | abstract specification: records and answers of calls | |
| `Glob` | `globMatch`, and what a glob means | `Selection` |
| `PolicyEngine` | class `PolicyEngine`, driven as the gateway drives it | `Glob` |
| `JsonValues` | JSON values, as far as `signer.ts` tells them apart | |
| `CanonicalValues` | `canonicalizeValue`, and what a value means | `JsonValues` |
| `CanonicalForm` | the canonical forms of records in `signer.ts` | `JsonValues` |
| `SignedRecords` | records from the signer over the file to `verify`, and projections | `CanonicalForm` |
| `MCAuditTrail`, `MCWrapProxy`, `MCUpstreamManager`, `MCGateway`, `MCPolicyEngine`, `MCSignedRecords` | the modules TLC runs | |
| `OperatorLemmas` | what the helpers on sequences, selections and sets return | `Selection` |
| `AuditLogProofs` | the theorems about the writer and its files | `AuditLog`, `OperatorLemmas` |
| `AuditTrailProofs` | the theorems about writer, verifiers and the ledgers | `AuditTrail`, `AuditLogProofs` |
| `WrapProxyProofs` | the theorems about the wrap proxy | `WrapProxy`, `OperatorLemmas` |
| `UpstreamManagerProofs` | the theorems about the upstream manager | `UpstreamManager` |
| `GatewayProofs` | the theorems about the gateway | `Gateway`, `OperatorLemmas` |
| `PolicyEngineProofs` | the theorems about globs and the policy engine | `PolicyEngine`, `OperatorLemmas` |
| `SignedRecordsProofs` | the theorems about signatures, edits and projections | `SignedRecords`, `OperatorLemmas` |

### Records and hashes (`ChainRecords`)

A record is its hash identity (`hash`, a number no other record has), its type
and the fields that chain operations read. `hashRecord` is that identity: two
records have the same SHA-256 exactly when they are the same record. `genesis`
is 0. A line that does not parse is `TornLine`. Everything else in a record
(timestamps, agents, payloads) is left out, since no chain operation looks at it.

### The writer (`AuditLog`)

| Code | Model |
|---|---|
| rotated files and the log, in order | `lines`, with the current file starting at `fileStart` |
| a last line without newline | `torn` |
| `.state.json` | `stateFile`: absent, corrupt, or a record of four fields |
| fields of the object | variables of the same names |
| the promise chain `writeQueue` | calls are numbered in the order they are made; a call starts when those before it have settled |
| the `await`s of one call | `pc[c]`: `append_record`, `append_checkpoint`, `append_break`, `rename`, `persist`, `persist_chain` |
| the record being built and signed | `draft[c]` |
| `init()` | `Resume`, `Refuse`, `StartForced`; call 0 (`Boot`) is the `chain_break` that `init()` writes itself |

Sign and append are two awaits with nothing between them that another call
could see, so one action (`AppendRecord`, ...) ends both. Writing the temporary
state file and renaming it over the real one is one step, as nothing reads the
temporary file. Sizes are counted in lines. `enableCheckpoints` is called once
before `init`, or never: the constant `Trigger`.

Faults are chosen by a constant, so that each run says what it assumes:
`write` (sign or append rejects, nothing reaches the disk), `torn` (an append
stops part way), `rename`, `persist`, `crash` (the process ends inside a call),
`damage` (the state file becomes unreadable while the process is down).

### The verifiers (`ChainVerify`)

A verifier that returns a list of errors is the set of line numbers it reports.
Signatures are an argument: what the signer says of each line. The two modes of
`verifyCompleteness` are one operator with `mode`, and its result is the record
of the flags a caller acts on.

### The wrap proxy (`WrapProxy`)

One session is one run of a process. `Launch`, `CreateKey`, `AppendKey`,
`RestoreLastHash` are the start. `ensureKey` reads the key file and generates a
key only when it cannot be read: a file that exists is taken as it is, even empty
(`EmptyKey`). `appendFile` creates the file before it writes the key to it
(`CreateKey`, `AppendKey`), and another process may read it in between; a process
that ends or fails there leaves it absent, empty, or with its key. The log is read
after that. `ClientLine`, `ServerResponse`, `ServerRequest` are the line handlers;
`SignEntry`, `AppendEntry`, `AppendFails` are one closure on `writeQueue` with
the await in it; `Exit` is `process.exit` in the exit handler of the child. An
exit with something left to write needs the fault `exit`. Lines that no handler
acts on are left out. An append leaves nothing or the whole line, and a key file
that exists stays readable: torn appends are studied in `AuditLog`.

### The upstream manager (`UpstreamManager`)

| Code | Model |
|---|---|
| `connections.has(name)` | `connected` |
| `conn.status.status`, `consecutiveFailures`, `client`, `reconnectTimer` | variables of the same names; a client is a number, the timer is running or not |
| transports that are up | `live`, a set of clients: a client that nobody refers to any more may still be in it |
| has the manager closed the client it has? | `closed` |
| `callTool` and `ping` waiting for an answer | `requests[k]`, how many wait on client `k` |
| the continuation of `connect()`, `disconnectAll()` | `joining`, `leaving`: a place and a client |
| the continuations of `reconnect()` | `reconnects[r]`, one for each call of it under way |

`connect()`: `ConnectStart`, `ConnectDone`, `ConnectListed`, `ConnectFails`.
`callTool()` and the pings of `runHealthChecks()`: `Send`, then `CallSucceeds`,
`PingSucceeds` or `RequestFails` (which is `markUnavailable` and
`scheduleReconnect` when it is the last straw). `reconnect()`: `TimerFires` (up
to its first await), `ReconnectCloses`, `ReconnectConnects`, `ReconnectLists`,
`ReconnectDone`, `ReconnectFails`. `disconnectAll()`: `DisconnectStart`,
`DisconnectCloses`, `DisconnectDone`. The server: `ServerDrops`. A timeout of
`withTimeout` during a connect is a failure after which the transport may come
up nevertheless. `reconnect()` is public, but only its timer calls it in `src/`;
calls that a user of the class makes directly are left out. Upstreams share nothing but two loops, so one is modelled; the
time the loops spend on others shows as a ping or a close that comes late. The
failure counter stops at `MaxFailures`, since more makes no difference.

### The gateway (`Gateway`)

| Code | Model |
|---|---|
| `toolCatalog`, `driftedTools`, `ToolIntegrityMonitor.baselines` | variables of the same names; "no entry" is `NoDef` |
| the refresh callback, on its way through its loop | `refreshes[r]`: a place, and the tools it has yet to check |
| a `handleToolsCall` under way | `calls[c]`: a place, the tool, the outcome |
| promises on the audit log | `writeQueue`: records that wait; the log settles the oldest |
| the log file | `log` |
| what the client is told | `answer[c]` |
| `config.toolIntegrity` | `action`; `"disabled"` when it is not enabled |
| the tools the server has | `served`, changed by `ServerChanges` |

Each action runs from one await to the next. `connectUpstream` is the first
listing, which `init()` awaits before calls are served; no tool has a baseline
then, so that none drifts. `RefreshListed` is the answer to `listTools` of a
reconnect, `RefreshArrives` registers it and runs the loop of
`checkToolIntegrity` up to the first tool that drifted; `DriftRecorded` goes on
with the loop, `DriftUnrecorded` ends it, which the upstream manager answers
with another reconnect. `CallUnknown`, `CallBlocked`, `CallDenied` and
`CallForwarded` are `handleToolsCall` up to its first await, `UpstreamEnds` the
answer or the error of the server, `CallRecorded` and `CallUnrecorded` the audit
log's. `Exit` ends the process anywhere. What was there to know when: `approved`
(the definition a tool was first seen with, or that an operator accepted),
`lost` and `delisted` are histories for the properties.

The composition with the other modules is by what they promise. That the log
writes one record at a time in the order of the calls on it is
`AuditTrail!AcknowledgedInOrder` and `AuditLogProofs!CallsAreSerial`; that
refreshes overlap is what `UpstreamManager` does, whose `ReconnectLists` is the
refresh callback; that a policy may deny is left open, as `PolicyEngine` says
when it does. Facts about the code that the model shows: nothing in the command
line or the protocol reaches `rebaselineTool` and `rebaselineAll` (they are for
users of the library); tools that a server no longer lists stay callable; an
upstream whose first connect fails is never tried again; the gateway calls
neither `enableCheckpoints` nor looks at `auditLog.enabled`.

### The policy engine (`PolicyEngine`, `Glob`)

`Evaluate` is `evaluate` of a call it allows, `recordInvocation` the count;
`gateway.ts:195` to `230` has no await between them, so no other call comes
between, but the clock may go on (`Tick`). Both join the caller and the tool with
a colon into the `Key` of the counters. Either name may have a colon in it, so
that different callers and tools can share a counter (`Shared`); the history
`admitted` therefore has with each call who made it. The order of the rules is `Verdict`:
the first rule that matches, or the default, as a function of the caller and the
tool. An entry of a rate table that does not exist is one that has ended, since
the code treats them alike; the minute and the hour are any two lengths.

`globMatch` is the loop over the parts, as a function from the parts done to the
position in the value. `Wildcard` says what a glob means without any of it: there
are places in the value where the stars end, such that every other character of
the pattern is where the stars before it put it.

### Records, signatures, projections (`JsonValues` to `SignedRecords`)

A JSON value is a tuple with its kind, and a text or a number is told apart only
where the code does (an unpaired surrogate, an unsafe integer). A signature is
the key and the canonical form, a hash is the record itself: that SHA-256, HMAC
and Ed25519 keep different inputs apart is assumed, and what they are given is
modelled. `Write` is what the writer puts into each kind of record and the place
it gives it in the chain; `Edit...` change any field of any record where it
lies, and make no signature; `Reported` and `Aborts` are `verifyAuditLog` run by the `verify` command,
which has the keys its configuration names and no others. The head after a
restart comes from the log (see `AuditLog`), so writers take turns. `canonicalize`
checks a record that has its link already, so `Write` asks `Signable` of that one.

`canonicalizeValue` is recursive over JSON values. `CanonicalValues` defines it
(`ValueForm`, and `HasForm` for the values on which it does not throw); to the
records it is a parameter, which the run gives that value. What clients say of
their models, the one part of a record that goes through it, is a constant too
(`Invocations`), of which `ValueAssumption` says what the code needs: where
`canonicalizeValue` does not throw it tells such values apart.

## 3. What is checked

All bounds are constants of the modules: `MaxCalls`, `MaxBoots` (runs of
`init`), `MaxSessions`; `MaxClients`, `MaxRequests`, `MaxReconnects`; the sets
`Calls` and `Refreshes` and `MaxChanges`; `MaxTime` and `MaxCalls`; `MaxRecords`
and `MaxEdits`. They cap how much happens and never the interleavings inside it.

| Run | Asks | Bounds |
|---|---|---|
| `MCAuditTrailQueue` | One start, failing writes, renames and state saves, forced breaks. Does every verifier accept the log at every moment, does every checkpoint anchor it, is every cut before an anchor and every damage found, do the counters agree with the file, does the writer implement the whole ledger, does every call settle? | 4 calls, checkpoints by count and time, rotation after 3 lines |
| `MCAuditTrailCrash` | Crashes at every await, torn appends. Is each file linked, are acknowledged records there once and in order, is the loss bounded by the number of failed calls, is no restart refused? | 4 calls, 3 starts, a tail of 2 lines |
| `MCAuditTrailRestart` | Orderly stops, breaks, damaged state, forced starts. Is the chain unbroken over all files? Does the writer implement the linked ledger? | 4 calls, 3 starts |
| `MCWrapProxySequential` | Sessions one after another that may end anywhere. One verifiable chain, entries as the client saw the answers, each logged in the end? | 2 sessions of 2 calls |
| `MCWrapProxyShared` | Proxies at the same time, failing appends. Does no session lose its key to another, does each log its answers in order, linked among themselves, without one failure blocking the others? | 2 sessions of 2 calls |
| `MCUpstreamManager` | Is an unusable connection always being repaired, does it recover, does the manager come to rest after `disconnectAll`? | 2 failures make an upstream unavailable, 3 clients, 2 requests, 2 reconnects at the same time |
| `MCGatewayCalls` | Calls, a refresh, failing audit writes, an exit anywhere. Does the gateway implement `AuditedCalls`, does the record of a blocked call come after the drift it names, is every call answered, is every drift flagged in the end? | 2 tools of 2 definitions, 2 calls, 1 refresh (tried again without bound), 1 change |
| `MCGatewayRefresh` | Overlapping refreshes, operators that accept, failing audit writes. Does no definition go unflagged, are the drift records of a tool linked? | 2 tools of 2 definitions, 2 refreshes, 2 changes, no calls, symmetric tools and refreshes |
| `MCPolicyEngine` | Are the rates kept in every time of the length of a window, is a refusal earned by the caller's own calls (and those its key cannot tell from them), do globs mean their stars? | 4 policies, 2 callers and one without a name, 3 tools, two of the pairs with the same key, 7 ticks with windows of 2 and 4, limits 1 and 2; patterns of up to 5, values of up to 6 characters |
| `MCSignedRecords` | Does a signature hold exactly for what a record said, does `verify` find edits, do projections split a record, is the canonical form injective? | 2 records of all 5 shapes, 3 invocations (an object, the list of its pairs, an unsafe number), 2 writing processes, 4 configurations, 2 edits; values of two levels |

Why these bounds are enough to be interesting: four calls with rotation after
two or three lines give a rotation with calls before and after it, a checkpoint
triggered by a record in the same call, a checkpoint after a rotation, and a
failed call with neighbours on both sides. Three starts give a restart from a
state left by a restart. A tail of two lines makes `init()` miss checkpoints
further back. Two sessions are the least that share, and the second one of a
sequential pair meets every log the first can leave. Two failures instead of the
three of the code still have a degraded upstream between the healthy and the
unavailable one; two requests let a call that was sent earlier fail or succeed
while the upstream is unavailable or being reconnected; two reconnects overlap,
with the current client and one new client each, which are three. Two tools and
two definitions let one tool drift while the record of another's drift is
awaited; two refreshes let an older list arrive after a newer one and put an old
definition back; two calls wait in the queue on both sides of a drift record.
`DriftsLinked` and `DriftFlagged` need no calls, as no call changes what they
read. Names of a caller and a tool
with a colon in them join to one key in two ways, and the two pairs that share it
have different limits. An hour of two minutes and seven ticks hold several windows of both kinds
in each position to one another. Two records are what a link needs, and two edits
are a forged field with its repair, in one record or in two.

**Fairness.** `AuditLog!FairSpec` assumes that a ready continuation runs and
that each file operation that was started ends, with success or failure (the
event loop, libuv). `WrapProxy!FairSpec` assumes the same of the write queue.
`UpstreamManager!FairSpec` assumes that a timer that is set fires, that requests
end (the SDK gives each a timeout), that the steps of reconnects end
(`withTimeout`; closing a client and the refresh callback have no timeout and are
assumed to end), and of the server that among reconnects that go on for ever one
connects and one lists its tools: `Recovers` says nothing of a server that never
answers again. `Gateway!FairSpec` assumes that the audit log settles what is
queued (which is `AuditTrail!CallsSettle`), that the upstream's answer or its
timeout comes, that a list that was sent arrives, and that a reconnect that was
scheduled after a failed check is done (`Recovers`); it does not assume that any
write ever succeeds: each attempt to record a drift moves one baseline, and the
next one comes one tool further. Nothing is assumed of clients, operators or process starts.
`Recovers` and `ShutdownSettles` hold until a state in which all `MaxClients`
numbers for clients are taken (`Unused = {}`), by clients that are up, whether or
not somebody still refers to them, and by those that the connection or something
under way refers to. There a reconnect cannot get a new client, and it is the
bound that stops it, not the code. The exception is of such a moment only: what is
unavailable after numbers have become free again has to recover again. Deadlock is checked in all runs: `Finished` says when nothing is left
to do.

Every property of a passing run has a mutant in `PROJECT.json`: a plausible bug
in a definition with which TLC finds the property violated under the same
configuration. The mutated forms stand before the definitions they replace.

### Where documentation and code disagree

Each of these is a run that TLC ends with a counterexample; `PROJECT.json`
quotes the sentence and the line.

| Run | What happens |
|---|---|
| `MCAuditTrailCrashInRotation` | the process ends between the rename of a rotation and the save of the state file: the next record starts a second chain |
| `MCAuditTrailBreakThenRestart` | rotation, then a chain break in the same process: the state file gets an outdated boundary, the next start refuses an intact log |

More of the kind are stated in the modules, each violated with the constants
given; no run is spent on them.

| Property | Violated with | What happens |
|---|---|---|
| `AuditTrail!RestartKeepsCount` | 3 calls `record`, 2 starts, `RotateAfter = 2`, no faults | a restart forgets the records since the last rotation in `totalRecordCount` (`docs/SECURITY-DESIGN.md:133`) |
| `AuditTrail!SequenceMonotone` | 4 calls `record`, `checkpoint`, 2 starts, `TailLines = 2` | a checkpoint outside the last 8192 bytes is forgotten and its number given out again (`docs/SECURITY-DESIGN.md:132`) |
| `AuditTrail!ReadableLinked` | 4 calls `record`, fault `torn` | a record appended after a torn line is acknowledged but unreadable (`README.md:158`) |
| `AuditTrail!ReadableLinked` | `TailLines = 0`, 2 starts | a last record longer than 8192 bytes hides the head: the next record forks the chain |
| `AuditTrail!BreakAccepted` | calls `record`, `checkpoint`, `break` | strict completeness rejects an honest log with a checkpoint after a break (`README.md:367`) |
| `AuditTrail!EveryTruncationDetected` | calls `record`, `checkpoint`, `break` | after a break the sequence numbers start again: a checkpoint of an earlier segment passes for a successor of the one that was cut off (`README.md:160`) |
| `WrapProxy!EntriesChained` | one session, fault `write`; or two sessions, `Concurrent = TRUE` | after a failed append the next entry names an entry that is not there, and two proxies on one log fork the chain (`README.md:46`) |
| `WrapProxy!EveryCallLogged` | fault `exit` | answered calls are not logged when the child exits (`README.md:33`) |
| `WrapProxy!OnlyResponsesLogged` | `ServerIds = {1, 2}` | a request of the server is logged as the answer to a call with the same id (`README.md:74`) |
| `WrapProxy!SignedWithSecret` | fault `exit`; or two sessions, `Concurrent = TRUE` | a key file that was created but not written yet, or that a process left so, is taken as the key, and entries are signed with an empty one (`README.md:76`) |
| `WrapProxy!OneKey` | `Concurrent = TRUE` | two first runs make two keys; entries of one can not be verified (`README.md:76`) |
| `UpstreamManager!NothingLeftOpen` | as `MCUpstreamManager` | a reconnect under way at `disconnectAll` ends after it and leaves a live client (`upstream-manager.test.ts:522`) |
| `Gateway!DriftedNeverForwarded` | as `MCGatewayCalls` | the catalog has a new definition before its flag is set: while the drift record of another tool is awaited, calls to it are forwarded (`gateway.ts:190`) |
| `Gateway!ExecutedIsRecorded` | as `MCGatewayCalls` | a call is executed and answered though its record could not be written (`docs/SECURITY-DESIGN.md:47`) |
| `PolicyEngine!CountedApart` | as `MCPolicyEngine` | requests that name nobody are counted with those of a caller named "anonymous", and calls of a caller `a` to the tool `s/f:s/f` with those of a caller `a:s/f` to `s/f` (`docs/SECURITY-DESIGN.md:33`) |
| `SignedRecords!RecordsVerifyLater` | as `MCSignedRecords` | with no key file configured, each process makes a key of its own, `verify` too: no record verifies (`docs/SECURITY-DESIGN.md:258`) |

What is odd but promised nowhere is in the properties themselves: `DriftFlagged`
excepts a tool whose check was cut short by a lost drift record and which a later
list leaves out (`Dropped`), `VerifyFindsEdits` says that `verify` reports every
`chain_break` of an honest log (it has no `previousHash`) and that the last
record of a chain can be edited where no signature covers it.

## 4. What is proved

About the writer, for every number of calls and starts, every rotation size,
interval, trigger and tail, and every set of faults unless stated; about the wrap
proxy, for every number of sessions and calls; about the upstream manager, for
every number of failures, clients, requests and reconnects; about the gateway,
for all tools, definitions, calls, refreshes and faults; about the policy engine,
for all policies, callers, tools and window lengths; about globs, for all patterns
and values over any alphabet; about signed records, for logs of any length, any
number of edits and processes, and whatever clients say of their models:

| Theorem | States | Assumes |
|---|---|---|
| `AuditLogProofs!TypeCorrect` | `[]TypeOK` | nothing |
| `CallsAreSerial` | `[]OneInFlight`: calls never overlap between first and last await | nothing |
| `FilesStayLinked` | `[]FileLinked`: in each log file, between its readable lines, the chain does not break | `TailLines # 0` |
| `ChainStaysLinked` | `[]ChainLinked`: one chain over all files | `Orderly` |
| `WriterImplementsLedger` | `Spec => ImplementsLinkedLedger` | `Orderly` |
| `AcknowledgedStayInOrder` | `[]AcknowledgedInOrder`: records of resolved calls lie in the files once at most, in the order of the calls | nothing |
| `LossStaysBounded` | `[]LossBounded`: no more lost records than fragments, no more fragments than failed calls | `TRUE \notin Forcing` |
| `RestartsAreAccepted` | `[]RestartAccepted`: `init()` takes back what the process left behind | `StateSaved` |
| `CountersFollowLog` | `[]CountersMatchLog` | `OneRun` |
| `WriterImplementsWholeLedger` | `Spec => ImplementsLedger`: the ledger with counts and numbers of checkpoints | `OneRun` |
| `HonestLogsVerify` | `[]HonestLogVerifies`: the verifiers object to nothing but breaks | `OneRun` |
| `TruncationIsDetected` | `[]TruncationDetected`: a cut before a checkpoint the reader holds is reported | `OneRun` |
| `DamageIsLocated` | `[]DamageLocated`: damage is reported at its place and nowhere else | `OneRun` |
| `WrapProxyProofs!TypeCorrect` | `[]TypeOK`; with it, the key a session signs with stays in the file, unless the session found the file empty | nothing |
| `EntriesInOrder` | `[]LoggedInOrder`: entries of a session once each, in the order of the answers | `IdsApart` |
| `EntriesLinked` | `[]SessionLinked`: entries of adjacent answers are linked | `IdsApart` |
| `LogFollowsAnswers` | `[]LogFollowsClient`: none is left out in between | `IdsApart`, no failed appends |
| `LogOfSessionsVerifies` | `[]LogVerifies`: sessions in turn leave one chain under one key | `~Concurrent`, no failed appends |
| `SessionsImplementLedger` | `Spec => ImplementsLinkedLedger` | `~Concurrent`, no failed appends |
| `UpstreamManagerProofs!TypeCorrect` | `[]TypeOK` | nothing |
| `RepairIsPending` | `[]RepairPending`: an unusable connection has a reconnect trying or a timer set | nothing |
| `GatewayProofs!TypeCorrect` | `[]TypeOK` | nothing |
| `CallsAreAudited` | `Spec => ImplementsAuditedCalls`: recorded and answered once at most, and the answer says which | nothing |
| `DriftIsFlagged` | `[]DriftFlagged`: a definition nobody accepted is flagged, or about to be checked | nothing |
| `BlocksAreExplained` | `[]BlockExplained`: a blocked call comes in the log after a drift of its tool | nothing |
| `DriftsAreLinked` | `[]DriftsLinked`: drift records of a tool follow one another without a gap | nothing |
| `PolicyEngineProofs!TypeCorrect` | `[]TypeOK` | nothing |
| `TumblingWindows` | `[]RatesKept`: at most `2 * limit - 1` calls of a caller to a tool in any time of the length of a window, whoever shares the key | nothing |
| `RefusalsAreEarned` | `[]RefusalsEarned`: refused only while the calls of the last minute or hour use up the limit, the caller's own to the tool and those whose names join to the same key | nothing |
| `GlobIsWildcard` | `globMatch(pattern, value) <=> Wildcard(pattern, value)` | both are sequences over some set |
| `GlobsMeanWildcards` | `[]GlobMeansWildcards` | nothing |
| `SignedRecordsProofs!RecordsVerifyIffUnchanged` | `[]VerifiesIffUnchanged`: with its attestation a record verifies exactly when it says what it said and the configuration names the key | nothing |
| `VerifyFindsEveryEdit` | `[]VerifyFindsEdits`: an edited record or the one after it is reported, but for what no signature covers at the end of a chain | nothing |
| `ProjectionsSplitCalls` | `[]ProjectionsSplit`: each field is shown by one role and one party, and digests differ | `FormTellsParty` |

"Nothing" is nothing but the named assumptions on the constants
(`ConstantsAssumption`, `PolicyAssumption`, `ValueAssumption`), which TLC
evaluates on each run.

`Orderly` is `Faults \subseteq {"write", "rename", "damage"}` and
`TailLines # 0`: the process ends between calls, the state file of a rotation
gets written, and the last record fits the tail. The assumptions are not
convenience: section 3 shows that `ChainLinked` fails without them (`ReadableLinked`
with `torn` and with `TailLines = 0`; `MCAuditTrailCrashInRotation`; the fault
`persist` is the same with a failed save instead of a crash).

`StateSaved` is `"break" \notin Ops`, `TRUE \notin Forcing` and
`"persist" \notin Faults`: `MCAuditTrailBreakThenRestart` shows what a chain
break does, and `init()` with `forceNewChain` writes one; a save that fails
leaves the old boundary beside the new log. Crashes between the rename and the
save, torn appends and damage are allowed. A forced start also is what
`LossStaysBounded` has to except: the break that `init()` writes may be torn
without a call that fails.

`OneRun` is `MaxBoots <= 1` and `"torn" \notin Faults`: a restart does not keep
the counts (`RestartKeepsCount`, `SequenceMonotone`), and a torn append breaks
the chain (`ReadableLinked`). Within the run, sign, append, rename and save may
fail at any time, the process may end anywhere, and chains may be broken.
`IdsApart` says that the server gives its own requests no id of a call that the
client may make; without it `OnlyResponsesLogged` fails, since a call is then
logged for what the server asked. `~Concurrent` and no failed appends is what `EntriesChained`
needs; the exit of a process anywhere is allowed. `FormTellsParty` says that
objects with different texts at the key `party` have different canonical forms. It
speaks of all objects, so TLC cannot evaluate it; that `canonicalizeValue` keeps
values apart is what `CanonicalInjective` checks.

The argument, one layer on the other:

1. `TypeOK` is inductive by itself; the work is in `init()`, which has to
   recover a hash and counters from any file it accepts (the last readable line
   of the tail exists because a finite set of integers has a maximum).
2. `OneInFlight`: at most one call is between its first and last await, calls
   before it have settled, and only the break of `init()` moves while the
   process is starting. Without it, no fact about `lastHash` survives an await.
3. `LinkInv` adds that the head in memory is the last line of the file
   (`HeadTracksFile`), unless that is a fragment or will be one with the next
   append (`HeadIsLast`), and that what a call is about to append names that head
   (`DraftsLinked`). `FileLinked` alone is not inductive: nothing in it says what
   the next append will name. A torn append does no harm here: the record after
   it is glued to it, and the one after that follows a line nobody can read.
4. `ChainInv` adds that every line is readable and `HeadTracksChain`: when the
   log file is empty the state file knows the head, except while `rotate()` is
   about to write it.
5. `LedgerInv` adds `HashesFresh`: a drafted record is not on disk yet. With it
   every action maps to an append of the ledger or to a stutter.
6. `OrderInv` needs no links. Each action is one of three kinds (`Kinds`): a call
   appends its draft (`Appends`), a call drafts a record with a new hash
   (`Drafts`), or nothing of a record changes (`Quiet`). Hashes are handed out in
   the order of the drafts, calls draft in the order in which they were made, and
   lines are only added: hence lines, hashes and calls are in the same order
   (`LinesInOrder`, `WrittenInOrder`, `ResolvedInOrder`).
7. `LossInv` counts: the recorded calls whose record is gone (`Missing`) are no
   more than the fragments nothing can be glued to any more (`Sealed`), and all
   lines that are or may become fragments (`Suspect`) are no more than the calls
   that failed.
   `TornIsNewer` says that a whole record still without its newline, which the
   next append will destroy, is that of a call that failed.
8. `RestartInv`: the first record of the log file names what the state file has
   (`FirstAgrees`), and while the file is empty what `init()` will take as head
   is what the state file has (`EmptyAgrees`); only inside `rotate()` do they
   differ, and there `init()` finds no log file.
9. `RunInv`: every line names its predecessor (`LinkedAt`) and every checkpoint
   counts its segment and has a number of its own (`CountedAt`), the fields are
   what the lines say (`CountersInv`), and a draft will fit its place
   (`DraftsSound`). That a failed append of a checkpoint leaves its number used
   is why numbers increase without being consecutive.
10. What the verifiers say follows without the state machine, in lemmas about any
    sequence of lines that is `SoundLines`: with each line linked to the one
    before, and no record there twice, a line can only verify behind its own
    predecessor.

For the wrap proxy the state of a session is three sequences, the answers that
wait, the one that is written, the entries in the log, and `answered`. `OrderInv`
relates each to the answers by position: what waits are the last ones (`Behind`),
the entries come from earlier ones, in order, once each (`Follows`). Other
sessions may write between, so a session's own entries are a selection from the
log; `Selection` defines it by counting and `OperatorLemmas` proves what an
append does to it. A call is answered once (`AnsweredOnce`), which is where
`IdsApart` comes in. `LinkInv` adds that the head is the last entry the session
signed, if the answer before was written (`HeadFollows`). `NoneLost` sharpens
`Follows` to equality by position. `ChainInv` is about sessions in turn: only one
is past its start and not ended (`OneAtATime`), and its head is where the log ends
(`HeadKept`). `FirstKey` says how its key and the file belong together: there is no
file while it generates the key, the file is there and empty while it writes it,
and nothing is in the log before that; afterwards its key is the first of the file,
or both are empty. An entry with an empty key thus has only such before it.

For the upstream manager `RepairPending` is inductive with one addition
(`NotYetJoined`): until `connect()` is done there is no connection, so the client
that `connect()` closes when listing fails is never the current one. The rest is
one observation per action: a timer that fires turns into a reconnect, and a
reconnect stops trying only by repairing the connection or by setting the timer.

For the gateway `DriftFlagged` says what holds of the pair of catalog and
baseline, and is not inductive: a refresh that goes on with an older list sets
the baseline back while the catalog has a newer definition. `DriftInv` looks at
the two apart. `BaselineWatched`: what was checked last is accepted or flagged;
`CatalogWatched`: what the catalog has is accepted, flagged, or about to be
checked by a refresh that has *that* definition in hand, or is tried again. Two
facts carry the steps: a refresh puts definitions into the catalog and into its
own list in one turn, and a check that ends without drift leaves the baseline
equal to what it checked. `CheckedIsKnown` says why the first check of a tool
may trust it, `RefreshesWait` and `CallsWait` that a record in the queue belongs
to one refresh or call, so that a settled record moves the one it was made for.
`TypeOK` of the queue needs `CallsWait` too: a call is answered with the outcome
of its record.

That the gateway implements `AuditedCalls` needs `CallsWait`, which says of a
record in the queue whose it is, and `AnsweredOnce`: a call without an answer has
no record in the log yet, an answer is there with the record it names. Each
action then is `Record`, `Answer`, both, or nothing of the abstract service.

What the log tells of drift is proved of the log and the queue behind it, taken
together (`Told == log \o writeQueue`): settling a record moves nothing in it, a
failed write cuts one record out, and the tool of that record is `lost`. `Story`
holds of it: a blocked call has a drift of its tool before it or its tool is lost
(`Explained`), and each drift is followed by one that starts where it ended, or it
is the newest and ends at the baseline (`Linked`). Cutting a record out keeps
this for every other tool.

For the rates, a window remembers less than the property asks about: the
calls of the window before it are not counted any more. `RateInv` therefore ties
each window to the history of admitted calls. `Tally` is about all calls under a
key: the count of the window is the number of the last of them, and it began with
the first of these. For refusals that is enough. The rates are of the calls of one
caller to one tool, and others may be counted in the same window; `Within` says
that there is a number of own calls in it (`OwnTally`). Own calls before these are
at least a length before its end. So is the first of these when they are as many as
the limit, or all the window has counted: then it is the one that opened the window.
And own calls further back than they and the limit together are two lengths before
its end. Among `2 * limit` own calls in a row some window then begins and ends, whose
length is between the first and the last. A call of another caller only takes away
room, or opens a window without own calls. `PendingHasRoom` carries the check over
to the count, though the clock goes on: a window that was not full can only end.

For globs the loop and the meaning of a star are both shown to say one thing: the
parts between the stars can be laid out along the value, in order and without
overlap, the first at its start and the last at its end (`LaidOut`). A turn of the
loop takes the first place where the part fits (`Turn`), which is never behind the
one a layout has for it, so that leftmost matching finds a layout when there is one
(`LoopFindsLayouts`). From the places of the parts follow the ends of the stars,
and the other way round (`WildcardIsLayout`); the stars of the pattern are its
cuts, counted by `Nth`. The loop is a recursive function; that it has the values
its definition says is proved first (`LoopRuns`), by the least argument at which it
would not.

For signatures the canonical form of a record is taken as the set of its pairs of
field and value (`CallLines` and its likes). It has a pair for what each field
says, unless that is null (`FormHas`), and one for the type of every record but a
call (`TypeLine`), so that it tells what the record says (`FormTells`); that it
tells no more is `SaysForm`. `RecordsInv` is what edits leave alone: what was
written is signed and linked (`SignedRight`, `LinkedRight`), an edited attestation
is no signature (`EditedRight`), and no edit is made where the configuration names
no key (`Lists`). From there `VerifyFindsEdits` needs no induction: a record that
is not reported has the attestation it was written with, hence says what it said;
its successor, not reported either, says what it said too, so it still names the
hash of the record as it was written, and `verify` compares that with the hash of
the record as it is. `CallsInv` says what the attribution of a call is of; the
split of its fields is then a matter of three entries.

Only model-checked:

* everything temporal under fairness (`CallsSettle`, `AnsweredIsLogged`,
  `QueueDrains`, `Recovers`, `ShutdownSettles`, `CallsAnswered`,
  `DriftsGetFlagged`), which is out of the prover's reach;
* that `canonicalizeValue` is injective (`CanonicalInjective`): it is recursive
  over JSON values, and what it does for every value needs induction over them.

## 5. What is not modelled, and what comes next

| Part | Why |
|---|---|
| SHA-256, HMAC, Ed25519, the text of JSON | a hash and a signature keep apart what they are given; what they are given is modelled |
| delays, backoff | a timer fires at any later time; nothing depends on how late. The clock of the rate windows is modelled |
| two rotations in the same millisecond | they would have the same file name; needs clock values |
| several upstreams under one gateway | they share the catalog under different names, the log and the process; a name that two of them serve is overwritten by the later one |
| `setBaseline` of the monitor | only tests call it |
| adapter and command line | their answers, the exit and the key `verify` uses are in `Gateway` and `SignedRecords`; the rest is translation, parsing and printing without state that is read back |
| telemetry, key generation | output, or one sequential write |
| test vectors, benchmarks, packaging | not part of the running program |

What would come next: the verifiers' theorems over several runs of the process
without a rotation, where the counts are kept; the split of records by role and
party when a library user adds parties of its own; several upstreams with one
namespace.
