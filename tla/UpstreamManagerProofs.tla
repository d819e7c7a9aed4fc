------------------------ MODULE UpstreamManagerProofs ------------------------
(***************************************************************************)
(* Proofs about UpstreamManager, for any number of failures, clients,      *)
(* requests and reconnects at the same time.                               *)
(*                                                                         *)
(* RepairPending is inductive but for the clients that connect() closes    *)
(* itself: that one of them is never the current client follows from what  *)
(* holds before connect() is done (NotYetJoined).                          *)
(***************************************************************************)
EXTENDS UpstreamManager, TLAPS

\* Until connect() is done there is no connection to work on.
NotYetJoined ==
    joining.at # "joined" =>
        /\ ~connected /\ ~closed /\ client = NoClient
        /\ \A r \in Slots : reconnects[r] = Idle
        /\ leaving.at # "closing"

RepairInv == NotYetJoined /\ RepairPending

-----------------------------------------------------------------------------

\* A task made of its parts.
LEMMA TaskTyped ==
    ASSUME NEW places, NEW at \in places \cup {"idle"}, NEW k \in Clients \cup {NoClient}
    PROVE  /\ Task(at, k) \in TaskType(places)
           /\ Task(at, k).at = at /\ Task(at, k).client = k
  BY DEF Task, TaskType

\* No failure counted is less than what makes an upstream unavailable.
LEMMA NoFailures == 0 \in 0..MaxFailures /\ 0 # MaxFailures
  BY ConstantsAssumption

\* The types hold in the initial state.
LEMMA InitType == Init => TypeOK
  <1> SUFFICES ASSUME Init PROVE TypeOK
    OBVIOUS
  <1>1. \A places : Idle \in TaskType(places)
    BY TaskTyped DEF Idle
  <1>2. Idle.at = "idle"
    BY DEF Idle, Task
  <1>3. requests \in [Clients -> 0..MaxRequests]
    BY ConstantsAssumption DEF Init
  <1>4. reconnects = [r \in Slots |-> Idle] /\ joining = Idle /\ leaving = Idle
    BY DEF Init
  <1>5. consecutiveFailures \in 0..MaxFailures /\ consecutiveFailures # MaxFailures
    BY NoFailures DEF Init
  <1>6. /\ connected = FALSE /\ reconnectTimer = FALSE /\ status = "healthy"
        /\ client = NoClient /\ live = {} /\ closed = FALSE
    BY DEF Init
  <1> QED BY <1>1, <1>2, <1>3, <1>4, <1>5, <1>6 DEF TypeOK

\* A step of connect() keeps the types.
LEMMA ConnectingType == TypeOK /\ Connecting => TypeOK'
  <1> SUFFICES ASSUME TypeOK, Connecting PROVE TypeOK'
    OBVIOUS
  <1> USE ConstantsAssumption
      DEF TypeOK, TaskType, Task, Idle, NoClient, Clients, Slots
  <1>1. CASE ConnectStart
    BY <1>1 DEF ConnectStart, NewClient, connection, clients
  <1>2. CASE ConnectDone
    BY <1>2 DEF ConnectDone, connection, clients
  <1>3. CASE ConnectFails
    <2>1. /\ live' \subseteq Clients /\ closed' \in BOOLEAN
          /\ joining' \in TaskType({"connecting", "listing", "joined", "failed"})
          /\ joining'.at = "failed"
      BY <1>3 DEF ConnectFails, ConnectGivesUp, CloseClient
    <2>2. UNCHANGED <<connected, status, consecutiveFailures, client, reconnectTimer,
                      requests, reconnects, leaving>>
      BY <1>3 DEF ConnectFails, connection
    <2> QED BY <2>1, <2>2
  <1>4. CASE ConnectListed
    BY <1>4 DEF ConnectListed, MarkHealthy, connection, clients
  <1> QED BY <1>1, <1>2, <1>3, <1>4 DEF Connecting

\* Sending a request, its end, and the loss of a client keep the types.
LEMMA RequestType ==
    ASSUME TypeOK, Send \/ \E k \in Clients : Request(k) \/ ServerDrops(k)
    PROVE  TypeOK'
  <1> USE ConstantsAssumption
  <1>1. CASE Send
    <2>1. client \in Clients /\ requests[client] < MaxRequests
      BY <1>1 DEF Send, RoomForRequest, InFlight, TypeOK
    <2>2. requests' \in [Clients -> 0..MaxRequests]
      BY <1>1, <2>1 DEF Send, TypeOK
    <2> QED
      BY <1>1, <2>2 DEF Send, TypeOK, connection, clients, tasks
  <1>2. ASSUME NEW k \in Clients, Request(k)
        PROVE  TypeOK'
    <2>1. Answered(k)
      BY <1>2 DEF Request, CallSucceeds, PingSucceeds, RequestFails
    <2>2. requests' \in [Clients -> 0..MaxRequests]
      BY <2>1 DEF Answered, TypeOK
    <2>3. /\ UNCHANGED <<connected, client, live, closed, joining, reconnects, leaving>>
          /\ reconnectTimer' \in BOOLEAN
      BY <1>2 DEF Request, CallSucceeds, PingSucceeds, RequestFails, scheduleReconnect,
                  TypeOK, clients, tasks
    <2>4. /\ status' \in {"healthy", "degraded", "unavailable"}
          /\ consecutiveFailures' \in 0..MaxFailures
          /\ consecutiveFailures' = MaxFailures => status' = "unavailable"
      <3>1. CASE CallSucceeds(k) \/ PingSucceeds(k)
        BY <3>1, NoFailures DEF CallSucceeds, PingSucceeds, MarkHealthy, TypeOK
      <3>2. CASE RequestFails(k) /\ LastStraw
        BY <3>2 DEF RequestFails
      <3>3. CASE RequestFails(k) /\ ~LastStraw
        BY <3>3 DEF RequestFails, LastStraw, TypeOK
      <3> QED BY <1>2, <3>1, <3>2, <3>3 DEF Request
    <2> QED BY <2>2, <2>3, <2>4 DEF TypeOK
  <1>3. ASSUME NEW k \in Clients, ServerDrops(k)
        PROVE  TypeOK'
    BY <1>3 DEF ServerDrops, TypeOK, connection, tasks
  <1> QED BY <1>1, <1>2, <1>3

\* reconnects keeps its type when a slot gets a task that has its client.
LEMMA SlotTyped ==
    ASSUME TypeOK, NEW r \in Slots,
           NEW at \in {"closing", "connecting", "listing", "refreshing", "idle"},
           NEW k \in Clients \cup {NoClient},
           at \in {"closing", "connecting", "listing"} => k \in Clients,
           reconnects' = [reconnects EXCEPT ![r] = Task(at, k)]
    PROVE  /\ reconnects'
                \in [Slots -> TaskType({"closing", "connecting", "listing", "refreshing"})]
           /\ \A s \in Slots :
                reconnects'[s].at \in {"closing", "connecting", "listing"}
                    => reconnects'[s].client \in Clients
  <1>1. Task(at, k) \in TaskType({"closing", "connecting", "listing", "refreshing"})
    BY DEF Task, TaskType
  <1>2. Task(at, k).at = at /\ Task(at, k).client = k
    BY DEF Task
  <1> QED BY <1>1, <1>2 DEF TypeOK

\* Timers and the steps of reconnect() keep the types.
LEMMA ReconnectType ==
    ASSUME TypeOK, TimerFiresInVain \/ \E r \in Slots : TimerFires(r) \/ Reconnect(r)
    PROVE  TypeOK'
  <1> DEFINE ReconnectsTyped ==
               /\ reconnects
                    \in [Slots -> TaskType({"closing", "connecting", "listing", "refreshing"})]
               /\ \A s \in Slots :
                    reconnects[s].at \in {"closing", "connecting", "listing"}
                        => reconnects[s].client \in Clients
  <1>1. CASE TimerFiresInVain
    BY <1>1 DEF TimerFiresInVain, connection, clients, tasks, TypeOK
  <1>2. ASSUME NEW r \in Slots, TimerFires(r)
        PROVE  TypeOK'
    <2>1. client \in Clients
      BY <1>2 DEF TimerFires, StartReconnect, TypeOK
    <2>2. ReconnectsTyped'
      BY <1>2, <2>1, SlotTyped DEF TimerFires, StartReconnect
    <2> QED BY <1>2, <2>2 DEF TimerFires, StartReconnect, connection, clients, TypeOK
  <1>3. ASSUME NEW r \in Slots, ReconnectCloses(r)
        PROVE  TypeOK'
    <2>1. ReconnectsTyped'
      BY <1>3, SlotTyped DEF ReconnectCloses
    <2>2. live' \subseteq Clients /\ closed' \in BOOLEAN
      BY <1>3 DEF ReconnectCloses, CloseClient, TypeOK
    <2> QED BY <1>3, <2>1, <2>2 DEF ReconnectCloses, connection, TypeOK
  <1>4. ASSUME NEW r \in Slots, ReconnectConnects(r)
        PROVE  TypeOK'
    <2>1. reconnects' = [reconnects EXCEPT ![r] = Task("listing", reconnects[r].client)]
      BY <1>4 DEF ReconnectConnects
    <2>2. reconnects[r].client \in Clients
      BY <1>4 DEF ReconnectConnects, TypeOK
    <2>3. ReconnectsTyped'
      BY <2>1, <2>2, SlotTyped
    <2> QED BY <1>4, <2>2, <2>3 DEF ReconnectConnects, connection, TypeOK
  <1>5. ASSUME NEW r \in Slots, ReconnectLists(r)
        PROVE  TypeOK'
    <2>1. ReconnectsTyped'
      BY <1>5, SlotTyped DEF ReconnectLists
    <2>2. client' \in Clients
      BY <1>5 DEF ReconnectLists, TypeOK
    <2> QED BY <1>5, <2>1, <2>2, NoFailures DEF ReconnectLists, MarkHealthy, TypeOK
  <1>6. ASSUME NEW r \in Slots, ReconnectDone(r)
        PROVE  TypeOK'
    <2>1. ReconnectsTyped'
      BY <1>6, SlotTyped DEF ReconnectDone, Idle
    <2> QED BY <1>6, <2>1 DEF ReconnectDone, connection, clients, TypeOK
  <1>7. ASSUME NEW r \in Slots, ReconnectFails(r)
        PROVE  TypeOK'
    <2>1. ReconnectsTyped'
      BY <1>7, SlotTyped DEF ReconnectFails, Idle
    <2>2. live' \subseteq Clients /\ closed' = closed
      BY <1>7 DEF ReconnectFails, ConnectGivesUp, clients, TypeOK
    <2> QED
      BY <1>7, <2>1, <2>2 DEF ReconnectFails, scheduleReconnect, connection, TypeOK
  <1> QED BY <1>1, <1>2, <1>3, <1>4, <1>5, <1>6, <1>7 DEF Reconnect

\* A step of disconnectAll() keeps the types.
LEMMA DisconnectingType == TypeOK /\ Disconnecting => TypeOK'
  <1> SUFFICES ASSUME TypeOK, Disconnecting PROVE TypeOK'
    OBVIOUS
  <1> USE ConstantsAssumption
      DEF TypeOK, TaskType, Task, Idle, NoClient, Clients, Slots
  <1>1. CASE DisconnectStart
    <2> HIDE DEF TypeOK, TaskType, Task, Idle, NoClient, Clients, Slots
    <2>1. /\ connected => client \in Clients
          /\ leaving' = IF connected THEN Task("closing", client)
                                    ELSE Task("closed", NoClient)
          /\ reconnectTimer' \in BOOLEAN
      BY <1>1 DEF DisconnectStart, TypeOK
    <2>2. /\ leaving' \in TaskType({"closing", "closed", "done"})
          /\ leaving'.at = "closing" => leaving'.client \in Clients
      <3>1. CASE connected
        BY <2>1, <3>1 DEF Task, TaskType
      <3>2. CASE ~connected
        BY <2>1, <3>2 DEF Task, TaskType
      <3> QED BY <3>1, <3>2
    <2> QED BY <1>1, <2>1, <2>2 DEF DisconnectStart, connection, clients, TypeOK
  <1>2. CASE DisconnectCloses
    BY <1>2 DEF DisconnectCloses, CloseClient, connection
  <1>3. CASE DisconnectDone
    BY <1>3 DEF DisconnectDone, Clear, clients
  <1> QED BY <1>1, <1>2, <1>3 DEF Disconnecting

\* Every step keeps the types.
LEMMA NextType == TypeOK /\ [Next]_vars => TypeOK'
  <1> SUFFICES ASSUME TypeOK, [Next]_vars PROVE TypeOK'
    OBVIOUS
  <1>1. CASE UNCHANGED vars
    BY <1>1 DEF vars, connection, clients, tasks, TypeOK
  <1>2. CASE Finished
    BY <1>1, <1>2 DEF Finished
  <1> QED
    BY <1>1, <1>2, ConnectingType, RequestType, ReconnectType, DisconnectingType DEF Next

\* TypeOK always holds: who will close or use a client has one, and three
\* failures in a row never leave an upstream in use (UpstreamManager).
THEOREM TypeCorrect == Spec => []TypeOK
  BY InitType, NextType, PTL DEF Spec

-----------------------------------------------------------------------------

\* Until connect() is done no step works on the connection.
LEMMA NotYetJoinedStep == TypeOK /\ NotYetJoined /\ [Next]_vars => NotYetJoined'
  <1> SUFFICES ASSUME TypeOK, NotYetJoined, [Next]_vars, joining'.at # "joined"
               PROVE  /\ ~connected' /\ ~closed' /\ client' = NoClient
                      /\ \A r \in Slots : reconnects'[r] = Idle
                      /\ leaving'.at # "closing"
    BY DEF NotYetJoined
  <1> USE DEF NoClient
  <1>1. CASE UNCHANGED vars
    BY <1>1 DEF vars, connection, clients, tasks, NotYetJoined
  <1>2. CASE Connecting
    <2>1. joining.at # "joined"
      BY <1>2 DEF Connecting, ConnectStart, ConnectDone, ConnectFails, ConnectListed,
                  Idle, Task
    <2>2. CASE ConnectStart \/ ConnectDone
      BY <2>1, <2>2 DEF ConnectStart, ConnectDone, connection, clients, NotYetJoined
    <2>3. CASE ConnectFails
      <3>1. ~closed'
        BY <2>1, <2>3 DEF ConnectFails, ConnectGivesUp, CloseClient, NotYetJoined,
                          TypeOK, Clients
      <3> QED BY <2>1, <2>3, <3>1 DEF ConnectFails, connection, NotYetJoined
    <2>4. CASE ConnectListed
      BY <2>4 DEF ConnectListed, Task
    <2> QED BY <1>2, <2>2, <2>3, <2>4 DEF Connecting
  <1>3. ASSUME ~Connecting, ~UNCHANGED vars
        PROVE  joining' = joining
    BY <1>3 DEF Next, Send, Request, CallSucceeds, PingSucceeds, RequestFails, ServerDrops,
                TimerFires, StartReconnect, Reconnect, ReconnectCloses, ReconnectConnects,
                ReconnectLists, ReconnectDone, ReconnectFails, TimerFiresInVain,
                Disconnecting, DisconnectStart, DisconnectCloses, DisconnectDone,
                Finished, tasks, vars
  <1>4. ASSUME ~Connecting, ~UNCHANGED vars
        PROVE  /\ ~connected /\ ~closed /\ client = NoClient
               /\ \A r \in Slots : reconnects[r] = Idle
               /\ leaving.at # "closing"
    BY <1>3, <1>4 DEF NotYetJoined
  <1>5. CASE \E k \in Clients : Request(k) \/ ServerDrops(k)
    <2>1. UNCHANGED <<connected, closed, client, reconnects, leaving>> \/ Connecting
      BY <1>5 DEF Request, CallSucceeds, PingSucceeds, RequestFails, ServerDrops,
                  connection, clients, tasks
    <2> QED BY <1>1, <1>2, <1>4, <2>1
  <1>6. CASE Send \/ \E r \in Slots : TimerFires(r) \/ Reconnect(r)
    <2>1. Connecting \/ UNCHANGED vars
      BY <1>4, <1>6 DEF Send, TimerFires, StartReconnect, Reconnect, ReconnectCloses,
              ReconnectConnects, ReconnectLists, ReconnectDone, ReconnectFails, Idle, Task
    <2> QED BY <1>1, <1>2, <2>1
  <1>7. CASE TimerFiresInVain \/ Disconnecting
    <2>1. ~Connecting /\ ~UNCHANGED vars =>
            /\ UNCHANGED <<closed, client, reconnects>>
            /\ ~connected' /\ leaving'.at # "closing"
      BY <1>4, <1>7 DEF TimerFiresInVain, Disconnecting, DisconnectStart, DisconnectCloses,
              DisconnectDone, Clear, Task, connection, clients, tasks
    <2> QED BY <1>1, <1>2, <1>4, <2>1
  <1>8. CASE Finished
    BY <1>1, <1>8 DEF Finished
  <1> QED BY <1>1, <1>2, <1>5, <1>6, <1>7, <1>8 DEF Next

\* While the owner has not called disconnectAll, a step of connect() keeps a
\* repair pending.
LEMMA ConnectingRepair ==
    ASSUME TypeOK, NotYetJoined, RepairPending, Connecting
    PROVE  RepairPending'
  <1>1. joining.at # "joined"
    BY DEF Connecting, ConnectStart, ConnectDone, ConnectFails, ConnectListed, Idle, Task
  <1>2. CASE ConnectListed
    BY <1>1, <1>2 DEF ConnectListed, MarkHealthy, NotYetJoined, RepairPending, clients
  <1>3. CASE ConnectStart \/ ConnectDone \/ ConnectFails
    <2>1. ~connected'
      BY <1>1, <1>3 DEF ConnectStart, ConnectDone, ConnectFails, NotYetJoined, connection
    <2> QED BY <2>1 DEF RepairPending
  <1> QED BY <1>2, <1>3 DEF Connecting

\* A request that ends keeps a repair pending: one that fails as the last straw
\* sets the timer, and the others neither stop nor call for a repair.
LEMMA RequestRepair ==
    ASSUME RepairPending, Send \/ \E k \in Clients : Request(k) \/ ServerDrops(k)
    PROVE  RepairPending'
  <1>1. UNCHANGED <<connected, closed, reconnects, leaving>>
    BY DEF Send, Request, CallSucceeds, PingSucceeds, RequestFails, ServerDrops,
           connection, clients, tasks
  <1>2. \/ reconnectTimer' = TRUE
        \/ /\ UNCHANGED reconnectTimer
           /\ status' = "unavailable" => status = "unavailable"
    BY DEF Send, Request, CallSucceeds, PingSucceeds, RequestFails, ServerDrops,
           MarkHealthy, scheduleReconnect, connection
  <1> QED BY <1>1, <1>2 DEF RepairPending, Trying

\* Timers and reconnect() keep a repair pending: a timer that fires becomes a
\* reconnect, and a reconnect stops trying only when it has repaired the
\* connection or sets the timer.
LEMMA ReconnectRepair ==
    ASSUME TypeOK, RepairPending,
           TimerFiresInVain \/ \E r \in Slots : TimerFires(r) \/ Reconnect(r)
    PROVE  RepairPending'
  <1> USE DEF RepairPending, Trying, Task, Idle
  <1>1. CASE TimerFiresInVain
    BY <1>1 DEF TimerFiresInVain, connection
  <1>2. ASSUME NEW r \in Slots, TimerFires(r)
        PROVE  RepairPending'
    BY <1>2 DEF TimerFires, StartReconnect, TypeOK
  <1>3. ASSUME NEW r \in Slots, ReconnectCloses(r)
        PROVE  RepairPending'
    BY <1>3 DEF ReconnectCloses, TypeOK
  <1>4. ASSUME NEW r \in Slots, ReconnectConnects(r)
        PROVE  RepairPending'
    BY <1>4 DEF ReconnectConnects, TypeOK
  <1>5. ASSUME NEW r \in Slots, ReconnectLists(r)
        PROVE  RepairPending'
    BY <1>5 DEF ReconnectLists, MarkHealthy
  <1>6. ASSUME NEW r \in Slots, ReconnectDone(r)
        PROVE  RepairPending'
    <2>1. \A s \in Slots : Trying(s) => Trying(s)'
      BY <1>6 DEF ReconnectDone, TypeOK
    <2> QED BY <1>6, <2>1 DEF ReconnectDone, connection, clients
  <1>7. ASSUME NEW r \in Slots, ReconnectFails(r)
        PROVE  RepairPending'
    BY <1>7 DEF ReconnectFails, scheduleReconnect
  <1> QED BY <1>1, <1>2, <1>3, <1>4, <1>5, <1>6, <1>7 DEF Reconnect

\* Every step keeps a repair pending.
LEMMA RepairStep ==
    TypeOK /\ NotYetJoined /\ RepairPending /\ [Next]_vars => RepairPending'
  <1> SUFFICES ASSUME TypeOK, NotYetJoined, RepairPending, [Next]_vars
               PROVE  RepairPending'
    OBVIOUS
  <1>1. CASE UNCHANGED vars
    BY <1>1 DEF vars, connection, clients, tasks, RepairPending, Trying
  <1>2. CASE Disconnecting
    <2>1. leaving' # Idle
      BY <1>2 DEF Disconnecting, DisconnectStart, DisconnectCloses, DisconnectDone, Idle, Task
    <2> QED BY <2>1 DEF RepairPending
  <1>3. CASE Finished
    BY <1>1, <1>3 DEF Finished
  <1> QED
    BY <1>1, <1>2, <1>3, ConnectingRepair, RequestRepair, ReconnectRepair DEF Next

\* RepairPending always holds: whatever answers, timers and reconnects meet in
\* the connection object, an upstream that is marked unavailable or whose client
\* the manager has closed has a reconnect trying or a timer set
\* (markUnavailable, scheduleReconnect, reconnect).
THEOREM RepairIsPending == Spec => []RepairPending
  <1>1. Init => RepairInv
    BY DEF Init, RepairInv, NotYetJoined, RepairPending, Idle, Task
  <1>2. TypeOK /\ RepairInv /\ [Next]_vars => RepairInv'
    BY NotYetJoinedStep, RepairStep DEF RepairInv
  <1>3. RepairInv => RepairPending
    BY DEF RepairInv
  <1> QED BY <1>1, <1>2, <1>3, TypeCorrect, PTL DEF Spec

=============================================================================
