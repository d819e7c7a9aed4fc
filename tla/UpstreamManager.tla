--------------------------- MODULE UpstreamManager ---------------------------
(***************************************************************************)
(* The connection to one upstream server: class UpstreamManager of         *)
(* src/proxy/upstream-manager.ts.  Upstreams share nothing but the loops   *)
(* of disconnectAll and runHealthChecks, so one of them is modelled; the   *)
(* time those loops spend on others is a step that may come late.          *)
(*                                                                         *)
(* Everything between two awaits is one action.  Nothing serialises tool   *)
(* calls, pings, timers and reconnects: they meet in the one connection    *)
(* object.  The delay of the reconnect timer is left out (a timer that is  *)
(* set fires at any later time), and with it reconnectAttempts, which only *)
(* the delay depends on; so are the texts and times of a status.           *)
(***************************************************************************)
EXTENDS Integers, FiniteSets

CONSTANTS
    MaxFailures,   \* MAX_CONSECUTIVE_FAILURES
    MaxClients,    \* bound: clients in use or left open at the same time
    MaxRequests,   \* bound: tool calls and pings in flight at the same time
    MaxReconnects  \* bound: reconnects under way at the same time

ASSUME ConstantsAssumption ==
    /\ MaxFailures \in Nat \ {0}
    /\ MaxClients \in Nat /\ MaxRequests \in Nat \ {0} /\ MaxReconnects \in Nat

NoClient == 0
Clients  == 1..MaxClients
Slots    == 1..MaxReconnects

VARIABLES
    \* The fields of the manager and of its connection object.
    connected,           \* connections has the upstream
    status,              \* conn.status.status
    consecutiveFailures, \* counted up to MaxFailures: more makes no difference
    client,              \* conn.client
    reconnectTimer,      \* is the timer running?
    \* The clients.
    live,                \* those whose transport is up
    closed,              \* has the manager closed conn.client?
    \* Continuations.
    requests,   \* requests[k]: how many calls and pings are in flight on client k
    joining,    \* connect(): where it is, and its client
    reconnects, \* reconnects[r]: the same for each reconnect() under way
    leaving     \* disconnectAll(): the same

connection == <<connected, status, consecutiveFailures, client>>
clients    == <<live, closed>>
tasks      == <<joining, reconnects, leaving>>
vars       == <<connection, reconnectTimer, clients, requests, tasks>>

Task(at, k) == [at |-> at, client |-> k]
Idle == Task("idle", NoClient)

Init ==
    /\ connected = FALSE /\ status = "healthy" /\ consecutiveFailures = 0
    /\ client = NoClient
    /\ reconnectTimer = FALSE
    /\ live = {} /\ closed = FALSE
    /\ requests = [k \in Clients |-> 0]
    /\ joining = Idle
    /\ reconnects = [r \in Slots |-> Idle]
    /\ leaving = Idle

-----------------------------------------------------------------------------
(* Clients                                                                 *)

Referenced ==
    {client, joining.client, leaving.client}
        \cup {reconnects[r].client : r \in Slots}
        \cup {k \in Clients : requests[k] > 0}

\* A client that is still live keeps its number.
Unused == Clients \ (Referenced \cup live)

\* new Client(...)
NewClient(k) == k \in Unused /\ \A j \in Unused : k <= j

CloseClient(k) ==
    /\ live' = live \ {k}
    /\ closed' = (closed \/ k = client)

\* client.connect rejects, or withTimeout gives up on it: then the transport
\* may yet come up, and nothing closes it.
ConnectGivesUp(k) == live' \in {live, live \cup {k}} /\ UNCHANGED closed

\* The server exits or the transport breaks.
ServerDrops(k) ==
    /\ k \in live /\ live' = live \ {k}
    /\ UNCHANGED <<connection, reconnectTimer, closed, requests, tasks>>

-----------------------------------------------------------------------------
(* The status                                                              *)

\* Mutant: the failures are forgotten, the status stays.
MutantMarkHealthy == consecutiveFailures' = 0 /\ UNCHANGED status

\* A call, a connect or a reconnect has succeeded.
MarkHealthy == consecutiveFailures' = 0 /\ status' = "healthy"

\* Mutant: one failure more is allowed.
MutantLastStraw == consecutiveFailures >= MaxFailures

\* One failure more makes the upstream unavailable.
LastStraw == consecutiveFailures + 1 >= MaxFailures

-----------------------------------------------------------------------------
(* connect(), called once                                                  *)

ConnectStart ==
    /\ joining = Idle
    /\ \E k \in Clients : NewClient(k) /\ joining' = Task("connecting", k)
    /\ UNCHANGED <<connection, reconnectTimer, clients, requests, reconnects, leaving>>

ConnectDone ==
    /\ joining.at = "connecting"
    /\ live' = live \cup {joining.client}
    /\ joining' = Task("listing", joining.client)
    /\ UNCHANGED <<connection, reconnectTimer, closed, requests, reconnects, leaving>>

\* The caller is told; nothing tries again.
ConnectFails ==
    /\ \/ joining.at = "connecting" /\ ConnectGivesUp(joining.client)
       \/ joining.at = "listing" /\ CloseClient(joining.client)
    /\ joining' = Task("failed", NoClient)
    /\ UNCHANGED <<connection, reconnectTimer, requests, reconnects, leaving>>

ConnectListed ==
    /\ joining.at = "listing" /\ joining.client \in live
    /\ connected' = TRUE /\ MarkHealthy
    /\ client' = joining.client
    /\ joining' = Task("joined", NoClient)
    /\ UNCHANGED <<reconnectTimer, clients, requests, reconnects, leaving>>

-----------------------------------------------------------------------------
(* callTool(), runHealthChecks(), markUnavailable(), scheduleReconnect()   *)

\* A call and a ping are refused, sent and counted as failed alike: which of
\* the two a request is shows when it succeeds.
InFlight == {k \in Clients : requests[k] > 0}

\* The bound on requests.
RoomForRequest ==
    \A j, k \in InFlight :
        requests[k] + (IF j = k THEN 0 ELSE requests[j]) < MaxRequests

\* callTool, and a round of health checks: the interval may be on or off, and
\* a round that pings other upstreams first comes to this one late, even after
\* stopHealthChecks.
Send ==
    /\ connected /\ status # "unavailable"
    /\ RoomForRequest
    /\ requests' = [requests EXCEPT ![client] = @ + 1]
    /\ UNCHANGED <<connection, reconnectTimer, clients, tasks>>

Answered(k) ==
    /\ requests[k] > 0
    /\ requests' = [requests EXCEPT ![k] = @ - 1]

\* The answer counts for the connection as it is now, whatever client it
\* came through and whatever happened since it was sent.
CallSucceeds(k) ==
    /\ Answered(k) /\ k \in live
    /\ MarkHealthy
    /\ UNCHANGED <<connected, client, reconnectTimer, clients, tasks>>

PingSucceeds(k) ==
    /\ Answered(k) /\ k \in live
    /\ status' = IF status = "degraded" THEN "healthy" ELSE status
    /\ consecutiveFailures' = 0
    /\ UNCHANGED <<connected, client, reconnectTimer, clients, tasks>>

\* Mutant: no timer is set when a reconnect is under way anyway.
MutantScheduleReconnect ==
    reconnectTimer' = (reconnectTimer \/ \A r \in Slots : reconnects[r] = Idle)

\* Whatever timer was set before is replaced.
scheduleReconnect == reconnectTimer' = TRUE

RequestFails(k) ==
    /\ Answered(k)
    /\ IF LastStraw
       THEN /\ consecutiveFailures' = MaxFailures
            /\ status' = "unavailable"
            /\ scheduleReconnect
       ELSE /\ consecutiveFailures' = consecutiveFailures + 1
            /\ status' = "degraded"
            /\ UNCHANGED reconnectTimer
    /\ UNCHANGED <<connected, client, clients, tasks>>

-----------------------------------------------------------------------------
(* reconnect(), which only the timer's callback calls                      *)

\* The bound on reconnects; the lowest free slot is used.
FreeSlot(r) ==
    reconnects[r] = Idle /\ \A s \in Slots : s < r => reconnects[s] # Idle

\* Up to the first await: the timer is cleared and the client of this moment
\* is being closed.
StartReconnect(r) ==
    /\ connected /\ FreeSlot(r)
    /\ reconnectTimer' = FALSE
    /\ reconnects' = [reconnects EXCEPT ![r] = Task("closing", client)]
    /\ UNCHANGED <<connection, clients, requests, joining, leaving>>

TimerFires(r) == reconnectTimer /\ StartReconnect(r)

\* "Upstream not found": the rejection is caught by the timer's callback.
TimerFiresInVain ==
    /\ reconnectTimer /\ ~connected
    /\ reconnectTimer' = FALSE
    /\ UNCHANGED <<connection, clients, requests, tasks>>

\* close() has resolved or failed: on to the new client.
ReconnectCloses(r) ==
    /\ reconnects[r].at = "closing"
    /\ CloseClient(reconnects[r].client)
    /\ \E k \in Clients :
          /\ NewClient(k)
          /\ reconnects' = [reconnects EXCEPT ![r] = Task("connecting", k)]
    /\ UNCHANGED <<connection, reconnectTimer, requests, joining, leaving>>

ReconnectConnects(r) ==
    /\ reconnects[r].at = "connecting"
    /\ live' = live \cup {reconnects[r].client}
    /\ reconnects' = [reconnects EXCEPT ![r] = Task("listing", @.client)]
    /\ UNCHANGED <<connection, reconnectTimer, closed, requests, joining, leaving>>

\* The new client becomes the current one; onToolsRefresh is awaited.
ReconnectLists(r) ==
    /\ reconnects[r].at = "listing" /\ reconnects[r].client \in live
    /\ client' = reconnects[r].client /\ closed' = FALSE
    /\ MarkHealthy
    /\ reconnects' = [reconnects EXCEPT ![r] = Task("refreshing", NoClient)]
    /\ UNCHANGED <<connected, reconnectTimer, live, requests, joining, leaving>>

ReconnectDone(r) ==
    /\ reconnects[r].at = "refreshing"
    /\ reconnects' = [reconnects EXCEPT ![r] = Idle]
    /\ UNCHANGED <<connection, reconnectTimer, clients, requests, joining, leaving>>

\* Connecting, listing or the refresh fails.  Unlike connect(), nothing
\* closes the new client when listing fails.
ReconnectFails(r) ==
    /\ \/ reconnects[r].at = "connecting" /\ ConnectGivesUp(reconnects[r].client)
       \/ reconnects[r].at \in {"listing", "refreshing"} /\ UNCHANGED clients
    /\ scheduleReconnect
    /\ reconnects' = [reconnects EXCEPT ![r] = Idle]
    /\ UNCHANGED <<connection, requests, joining, leaving>>

-----------------------------------------------------------------------------
(* disconnectAll()                                                         *)

DisconnectStart ==
    /\ leaving = Idle
    /\ joining.at \in {"joined", "failed"}
    /\ IF connected
       THEN reconnectTimer' = FALSE /\ leaving' = Task("closing", client)
       ELSE UNCHANGED reconnectTimer /\ leaving' = Task("closed", NoClient)
    /\ UNCHANGED <<connection, clients, requests, joining, reconnects>>

DisconnectCloses ==
    /\ leaving.at = "closing"
    /\ CloseClient(leaving.client)
    /\ leaving' = Task("closed", NoClient)
    /\ UNCHANGED <<connection, reconnectTimer, requests, joining, reconnects>>

\* Mutant: the connection stays in the map.
MutantClear == UNCHANGED connected

Clear == connected' = FALSE

\* connections.clear(), when the other upstreams are closed too.
DisconnectDone ==
    /\ leaving.at = "closed"
    /\ Clear
    /\ leaving' = Task("done", NoClient)
    /\ UNCHANGED <<status, consecutiveFailures, client, reconnectTimer, clients,
                   requests, joining, reconnects>>

-----------------------------------------------------------------------------

\* No timer is running and nothing is under way.
Quiet ==
    /\ ~reconnectTimer /\ InFlight = {}
    /\ \A r \in Slots : reconnects[r] = Idle

Connecting    == ConnectStart \/ ConnectDone \/ ConnectFails \/ ConnectListed
Request(k)    == CallSucceeds(k) \/ PingSucceeds(k) \/ RequestFails(k)
Reconnect(r)  == \/ ReconnectCloses(r) \/ ReconnectConnects(r)
                 \/ ReconnectLists(r) \/ ReconnectDone(r) \/ ReconnectFails(r)
Disconnecting == DisconnectStart \/ DisconnectCloses \/ DisconnectDone

\* Shut down, or never connected.
Finished ==
    /\ leaving.at = "done" \/ joining.at = "failed"
    /\ Quiet /\ UNCHANGED vars

Next ==
    \/ Connecting \/ Send
    \/ \E k \in Clients : Request(k) \/ ServerDrops(k)
    \/ \E r \in Slots : TimerFires(r) \/ Reconnect(r)
    \/ TimerFiresInVain \/ Disconnecting
    \/ Finished

Spec == Init /\ [][Next]_vars

\* Timers fire, requests end (the SDK's timeout), the steps of reconnects end
\* (withTimeout), and so does disconnectAll.  Of the server: if reconnects go
\* on for ever one of them connects, and one lists its tools.
Fairness ==
    /\ WF_vars(TimerFiresInVain \/ \E r \in Slots : TimerFires(r))
    /\ WF_vars(DisconnectCloses \/ DisconnectDone)
    /\ WF_vars(\E k \in Clients : Request(k))
    /\ WF_vars(\E r \in Slots : Reconnect(r))
    /\ SF_vars(\E r \in Slots : ReconnectConnects(r))
    /\ SF_vars(\E r \in Slots : ReconnectLists(r))

FairSpec == Spec /\ Fairness

-----------------------------------------------------------------------------

TaskType(places) == [at : places \cup {"idle"}, client : Clients \cup {NoClient}]

\* The types, that nobody is left with the failures of an unavailable upstream
\* and another status, and that whoever will close or use a client has one.
TypeOK ==
    /\ connected \in BOOLEAN /\ reconnectTimer \in BOOLEAN
    /\ status \in {"healthy", "degraded", "unavailable"}
    /\ consecutiveFailures \in 0..MaxFailures
    /\ consecutiveFailures = MaxFailures => status = "unavailable"
    /\ client \in Clients \cup {NoClient} /\ (connected => client \in Clients)
    /\ live \subseteq Clients /\ closed \in BOOLEAN
    /\ requests \in [Clients -> 0..MaxRequests]
    /\ joining \in TaskType({"connecting", "listing", "joined", "failed"})
    /\ joining.at \in {"connecting", "listing"} => joining.client \in Clients
    /\ reconnects
        \in [Slots -> TaskType({"closing", "connecting", "listing", "refreshing"})]
    /\ \A r \in Slots :
          reconnects[r].at \in {"closing", "connecting", "listing"}
              => reconnects[r].client \in Clients
    /\ leaving \in TaskType({"closing", "closed", "done"})
    /\ leaving.at = "closing" => leaving.client \in Clients

\* A reconnect that has not yet succeeded or failed.
Trying(r) == reconnects[r].at \in {"closing", "connecting", "listing"}

\* A connection that can not be used (marked unavailable, or its client closed
\* by the manager itself) is always being repaired: a reconnect is trying or
\* the timer for one is set, however many reconnects overlap and however late
\* the answers of old clients come (markUnavailable, reconnect).
RepairPending ==
    connected /\ leaving = Idle
        /\ (status = "unavailable" \/ closed)
      => reconnectTimer \/ \E r \in Slots : Trying(r)

\* An unavailable upstream is back in the end, if it answers, unless
\* disconnectAll comes first, or the bound on clients is used up by clients
\* that were left open.
Recovers ==
    status = "unavailable" ~>
        status # "unavailable" \/ leaving # Idle \/ Unused = {}

\* After disconnectAll the manager comes to rest: late failures, reconnects
\* under way and timers they set do not keep each other going (again unless
\* the bound on clients is used up).
ShutdownSettles == leaving.at = "done" ~> []Quiet \/ Unused = {}

-----------------------------------------------------------------------------
(* What the tests say and the code does not keep                           *)

\* upstream-manager.test.ts:522: disconnectAll "cleans up all timers and
\* connections": when everything has come to rest the last client of the
\* connection is closed.  A reconnect under way replaces the client while or
\* after disconnectAll closes the one before.
NothingLeftOpen ==
    leaving.at = "done" /\ Quiet => client \notin live

=============================================================================
