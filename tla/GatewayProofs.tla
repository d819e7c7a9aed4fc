---------------------------- MODULE GatewayProofs ----------------------------
(***************************************************************************)
(* Theorems about the gateway, for every value of the constants: types,    *)
(* and that it implements the abstract service of AuditedCalls: a call is  *)
(* recorded and answered once at most, and its answer says whether it is   *)
(* in the log, and with which outcome.  A definition that nobody accepted  *)
(* is flagged, or a refresh is about to check it (DriftInv), whatever      *)
(* refreshes overlap and whichever writes of the audit log fail.  In the   *)
(* log a call that was blocked for drift comes after the drift, and each   *)
(* drift names the definition the one before it found; there the invariant *)
(* is about the log and the queue of records behind it, taken together,    *)
(* from which a failed write cuts one record out.                          *)
(***************************************************************************)
EXTENDS Gateway, OperatorLemmas

-----------------------------------------------------------------------------
(* Types of what the handlers build                                        *)

Places == {"new", "listed", "recording", "retry", "done"}

RefreshType == [at : Places, todo : Listings]

CallType ==
    {NoTool} \cup
    [at : {"upstream"}, tool : Tools, outcome : {"none"}] \cup
    [at : {"recording", "answered"}, tool : Tools, outcome : Outcomes]

AnswerType == {NoAnswer} \cup [audit : {"recorded", "unrecorded"}, outcome : Outcomes]

\* What the server lists, what is left of it, and the empty list are lists.
LEMMA ListingTypes ==
    /\ Nothing \in Listings
    /\ served \in [Tools -> Defs \cup {NoDef}] => Listed \in Listings
    /\ \A tools \in Listings : \A S : Without(tools, S) \in Listings
<1>1. Nothing \in Listings
  <2>1. Nothing \in [{} -> Defs]  BY DEF Nothing
  <2> QED BY <2>1 DEF Listings
<1>2. ASSUME served \in [Tools -> Defs \cup {NoDef}] PROVE Listed \in Listings
  <2> DEFINE T == {u \in Tools : served[u] # NoDef}
  <2>1. T \in SUBSET Tools /\ Listed \in [T -> Defs]  BY <1>2 DEF Listed
  <2> HIDE DEF T
  <2> QED BY <2>1 DEF Listings
<1>3. ASSUME NEW tools \in Listings, NEW S PROVE Without(tools, S) \in Listings
  <2>1. PICK T \in SUBSET Tools : tools \in [T -> Defs]  BY <1>3 DEF Listings
  <2>2. T \ S \in SUBSET Tools /\ Without(tools, S) \in [T \ S -> Defs]
    BY <2>1 DEF Without
  <2> QED BY <2>2 DEF Listings
<1> QED BY <1>1, <1>2, <1>3

\* A list is a function from some of the tools to definitions.
LEMMA ListingIs ==
    ASSUME NEW tools \in Listings
    PROVE  /\ DOMAIN tools \subseteq Tools
           /\ \A t \in DOMAIN tools : tools[t] \in Defs
  BY DEF Listings

\* A digest is never the mark for no digest, and tells definitions apart.
LEMMA DigestType ==
    /\ NoDef \notin Defs /\ NoDef \notin Digests
    /\ \A d \in Defs : computeDigest(d) \in Digests /\ computeDigest(d) # NoDef
    /\ \A d, e \in Defs : computeDigest(d) = computeDigest(e) => d = e
<1>1. NoDef \notin Defs /\ NoDef \notin Digests  BY ConstantsAssumption
<1>2. \A d \in Defs : computeDigest(d) \in Digests  BY DEF Digests
<1>3. \A d, e \in Defs : computeDigest(d) = computeDigest(e) => d = e  BY DEF computeDigest
<1> QED BY <1>1, <1>2, <1>3

\* The records of calls and of drifts are records of the log.
LEMMA RecordTypes ==
    /\ \A c \in Calls, t \in Tools, o \in Outcomes : CallRecord(c, t, o) \in RecordType
    /\ \A r \in Refreshes, t \in Tools, old, new \in Digests :
          DriftRecord(r, t, old, new) \in RecordType
    /\ \A rec \in RecordType :
          /\ rec.type \in {"call", "tool_drift"} /\ rec.tool \in Tools
          /\ rec.type = "call" => rec.call \in Calls
          /\ rec.type = "tool_drift" => rec.refresh \in Refreshes
  BY DEF RecordType, CallRecord, DriftRecord

\* The places of calls and refreshes.
LEMMA PlaceTypes ==
    /\ \A place \in Places, todo \in Listings : RefreshAt(place, todo) \in RefreshType
    /\ \A ref \in RefreshType : ref.at \in Places /\ ref.todo \in Listings
    /\ \A t \in Tools, o \in Outcomes :
          CallAt("recording", t, o) \in CallType /\ CallAt("answered", t, o) \in CallType
    /\ \A t \in Tools : CallAt("upstream", t, "none") \in CallType
    /\ \A call \in CallType : call.at = "upstream" => call.tool \in Tools
    /\ \A call \in CallType :
          call.at = "recording" => call.tool \in Tools /\ call.outcome \in Outcomes
    /\ \A id \in {"recorded", "unrecorded"}, o \in Outcomes : Answer(id, o) \in AnswerType
  BY DEF RefreshAt, RefreshType, Places, CallAt, CallType, NoTool, Answer, AnswerType

\* The type invariant by the names above.
LEMMA TypeOKIs ==
    TypeOK <=>
    /\ action \in Actions
    /\ process \in {"starting", "serving", "ended"} /\ connected \in BOOLEAN
    /\ served \in [Tools -> Defs \cup {NoDef}]
    /\ toolCatalog \in [Tools -> Defs \cup {NoDef}]
    /\ approved \in [Tools -> SUBSET Defs] /\ changes \in 0 .. MaxChanges
    /\ baselines \in [Tools -> Digests \cup {NoDef}]
    /\ driftedTools \subseteq Tools /\ lost \subseteq Tools /\ delisted \subseteq Tools
    /\ refreshes \in [Refreshes -> RefreshType]
    /\ action = "disabled" =>
          driftedTools = {} /\ \A r \in Refreshes : refreshes[r].at # "recording"
    /\ calls \in [Calls -> CallType] /\ answer \in [Calls -> AnswerType]
    /\ writeQueue \in Seq(RecordType) /\ log \in Seq(RecordType)
  BY DEF TypeOK, RefreshType, Places, CallType, AnswerType

-----------------------------------------------------------------------------
(* Type correctness                                                        *)

\* A turn of the loop that checks tools, up to its next await.
LEMMA CheckTypes ==
    ASSUME TypeOK, NEW r \in Refreshes, NEW tools \in Listings,
           NEW queue \in Seq(RecordType), checkToolIntegrity(r, tools, queue)
    PROVE  /\ baselines' \in [Tools -> Digests \cup {NoDef}]
           /\ approved' \in [Tools -> SUBSET Defs]
           /\ driftedTools' \subseteq Tools
           /\ refreshes' \in [Refreshes -> RefreshType]
           /\ writeQueue' \in Seq(RecordType)
           /\ action = "disabled" => /\ driftedTools' = {}
                                     /\ \A q \in Refreshes : refreshes'[q].at # "recording"
<1>1. DOMAIN tools \subseteq Tools /\ \A t \in DOMAIN tools : tools[t] \in Defs
  BY ListingIs
<1>2. /\ baselines \in [Tools -> Digests \cup {NoDef}] /\ approved \in [Tools -> SUBSET Defs]
      /\ driftedTools \subseteq Tools /\ refreshes \in [Refreshes -> RefreshType]
      /\ action = "disabled" =>
            driftedTools = {} /\ \A q \in Refreshes : refreshes[q].at # "recording"
  BY TypeOKIs
<1>3. ASSUME NEW S \in SUBSET DOMAIN tools, Check(tools, S)
      PROVE  /\ baselines' \in [Tools -> Digests \cup {NoDef}]
             /\ approved' \in [Tools -> SUBSET Defs]
  <2>1. \A t \in S : computeDigest(tools[t]) \in Digests  BY <1>1, DigestType
  <2> QED BY <1>1, <1>2, <1>3, <2>1 DEF Check, Updated
<1>4. RefreshAt("done", Nothing) \in RefreshType  BY PlaceTypes, ListingTypes DEF Places
<1>5. CASE CheckEnds(r, tools, queue)
  <2>1. /\ Check(tools, IF Enabled THEN DOMAIN tools ELSE {})
        /\ refreshes' = [refreshes EXCEPT ![r] = RefreshAt("done", Nothing)]
        /\ writeQueue' = queue /\ UNCHANGED driftedTools
    BY <1>5 DEF CheckEnds
  <2>2. (IF Enabled THEN DOMAIN tools ELSE {}) \in SUBSET DOMAIN tools  OBVIOUS
  <2>3. /\ baselines' \in [Tools -> Digests \cup {NoDef}]
        /\ approved' \in [Tools -> SUBSET Defs]
    BY <1>3, <2>1, <2>2
  <2>4. RefreshAt("done", Nothing).at = "done"  BY DEF RefreshAt
  <2> QED BY <1>2, <1>4, <2>1, <2>3, <2>4
<1>6. ASSUME Enabled, NEW t \in Drifting(tools),
             NEW passed \in SUBSET (DOMAIN tools \ Drifting(tools)),
             CheckFinds(r, tools, queue, passed, t)
      PROVE  /\ baselines' \in [Tools -> Digests \cup {NoDef}]
             /\ approved' \in [Tools -> SUBSET Defs]
             /\ driftedTools' \subseteq Tools
             /\ refreshes' \in [Refreshes -> RefreshType]
             /\ writeQueue' \in Seq(RecordType)
             /\ action # "disabled"
  <2> DEFINE left == RefreshAt("recording", Without(tools, passed \cup {t}))
             record == DriftRecord(r, t, baselines[t], computeDigest(tools[t]))
  <2>1. t \in DOMAIN tools /\ t \in Tools /\ tools[t] \in Defs /\ baselines[t] \in Digests
    BY <1>1, <1>2 DEF Drifting, Drifts
  <2>2. /\ Check(tools, passed \cup {t}) /\ driftedTools' = driftedTools \cup {t}
        /\ writeQueue' = Append(queue, record)
        /\ refreshes' = [refreshes EXCEPT ![r] = left]
    BY <1>6 DEF CheckFinds, Flag
  <2>3. passed \cup {t} \in SUBSET DOMAIN tools  BY <2>1
  <2>4. left \in RefreshType  BY PlaceTypes, ListingTypes DEF Places
  <2>5. record \in RecordType  BY <2>1, RecordTypes, DigestType
  <2>6. writeQueue' \in Seq(RecordType)
    <3> HIDE DEF record
    <3> QED BY <2>2, <2>5, AppendProperties
  <2>7. refreshes' \in [Refreshes -> RefreshType]
    <3> HIDE DEF left
    <3> QED BY <1>2, <2>2, <2>4
  <2>8. action # "disabled"  BY <1>6 DEF Enabled
  <2>9. /\ baselines' \in [Tools -> Digests \cup {NoDef}]
        /\ approved' \in [Tools -> SUBSET Defs]
    BY <1>3, <2>2, <2>3
  <2> QED BY <1>2, <2>1, <2>2, <2>6, <2>7, <2>8, <2>9
<1> QED BY <1>5, <1>6 DEF checkToolIntegrity

-----------------------------------------------------------------------------
(* The queue of the log                                                    *)

\* CallsWait of a queue and calls.
CallsMatch(queue, places) ==
    \A i \in DOMAIN queue : queue[i].type = "call" =>
        /\ places[queue[i].call].at = "recording"
        /\ \A j \in DOMAIN queue :
              queue[j].type = "call" /\ i # j => queue[j].call # queue[i].call

\* The first record of a queue, and what follows it.
LEMMA QueueHead ==
    ASSUME NEW queue \in Seq(RecordType), queue # <<>>
    PROVE  /\ Head(queue) \in RecordType /\ Head(queue) = queue[1] /\ 1 \in DOMAIN queue
           /\ Tail(queue) \in Seq(RecordType)
           /\ \A i \in DOMAIN Tail(queue) :
                 /\ i + 1 \in DOMAIN queue /\ i + 1 # 1
                 /\ Tail(queue)[i] = queue[i + 1]
           /\ \A i, j \in DOMAIN Tail(queue) : i # j => i + 1 # j + 1
<1>1. Head(queue) \in RecordType /\ Head(queue) = queue[1] /\ Tail(queue) \in Seq(RecordType)
  BY HeadTailProperties, ElementOfSeq, LenProperties, EmptySeq
<1>2. /\ Len(queue) \in Nat /\ Len(queue) > 0 /\ Len(Tail(queue)) = Len(queue) - 1
      /\ DOMAIN queue = 1 .. Len(queue) /\ DOMAIN Tail(queue) = 1 .. Len(queue) - 1
      /\ \A i \in 1 .. Len(Tail(queue)) : Tail(queue)[i] = queue[i + 1]
  <2>1. Tail(queue) \in Seq(RecordType)  BY <1>1
  <2> QED BY <2>1, HeadTailProperties, LenProperties, EmptySeq
<1> QED BY <1>1, <1>2

\* A record at the end of a queue.
LEMMA QueueAppend ==
    ASSUME NEW queue \in Seq(RecordType), NEW rec \in RecordType
    PROVE  /\ Append(queue, rec) \in Seq(RecordType)
           /\ \A i \in DOMAIN Append(queue, rec) :
                 \/ i \in DOMAIN queue /\ Append(queue, rec)[i] = queue[i]
                 \/ i = Len(queue) + 1 /\ Append(queue, rec)[i] = rec
           /\ \A i \in DOMAIN queue : queue[i] \in RecordType
  BY AppendProperties, LenProperties, ElementOfSeq

\* A drift record changes nothing for the calls in the queue.
LEMMA CallsMatchDrift ==
    ASSUME NEW queue \in Seq(RecordType), NEW places, NEW rec \in RecordType,
           rec.type = "tool_drift", CallsMatch(queue, places)
    PROVE  CallsMatch(Append(queue, rec), places)
<1> DEFINE longer == Append(queue, rec)
<1>1. \A i \in DOMAIN longer : longer[i].type = "call" =>
         i \in DOMAIN queue /\ longer[i] = queue[i]
  BY QueueAppend
<1> HIDE DEF longer
<1>2. CallsMatch(longer, places)  BY <1>1 DEF CallsMatch
<1> QED BY <1>2 DEF longer

\* A call comes into the queue once.
LEMMA CallsMatchConclude ==
    ASSUME NEW queue \in Seq(RecordType), NEW places \in [Calls -> CallType],
           NEW c \in Calls, NEW t \in Tools, NEW o \in Outcomes,
           places[c].at # "recording", CallsMatch(queue, places)
    PROVE  CallsMatch(Append(queue, CallRecord(c, t, o)),
                      [places EXCEPT ![c] = CallAt("recording", t, o)])
<1> DEFINE rec == CallRecord(c, t, o)
           longer == Append(queue, rec)
           after == [places EXCEPT ![c] = CallAt("recording", t, o)]
<1>1. rec \in RecordType /\ rec.type = "call" /\ rec.call = c
  BY RecordTypes DEF CallRecord
<1>2. /\ \A d \in Calls : after[d] = IF d = c THEN CallAt("recording", t, o) ELSE places[d]
      /\ CallAt("recording", t, o).at = "recording"
  BY DEF CallAt
<1> HIDE DEF rec
<1>3. \A i \in DOMAIN longer :
         \/ i \in DOMAIN queue /\ longer[i] = queue[i] /\ queue[i] \in RecordType
         \/ i = Len(queue) + 1 /\ longer[i] = rec
  BY <1>1, QueueAppend
<1> HIDE DEF longer, after
<1>4. \A i \in DOMAIN queue : queue[i].type = "call" =>
         places[queue[i].call].at = "recording" /\ queue[i].call # c
  BY DEF CallsMatch
<1>5. \A i \in DOMAIN longer : longer[i].type = "call" =>
         longer[i].call \in Calls /\ after[longer[i].call].at = "recording"
  <2>1. \A r \in RecordType : r.type = "call" => r.call \in Calls  BY RecordTypes
  <2> QED BY <1>1, <1>2, <1>3, <1>4, <2>1
<1>6. ASSUME NEW i \in DOMAIN longer, NEW j \in DOMAIN longer,
             longer[i].type = "call", longer[j].type = "call", i # j
      PROVE  longer[j].call # longer[i].call
  <2>1. CASE i \in DOMAIN queue /\ j \in DOMAIN queue /\ longer[i] = queue[i] /\ longer[j] = queue[j]
    BY <1>6, <2>1 DEF CallsMatch
  <2> QED BY <1>1, <1>3, <1>4, <1>6, <2>1
<1>7. CallsMatch(longer, after)  BY <1>5, <1>6 DEF CallsMatch
<1> QED BY <1>7 DEF longer, after, rec

\* The rest of the queue, when its first record is settled.
LEMMA CallsMatchTail ==
    ASSUME NEW queue \in Seq(RecordType), queue # <<>>, NEW places, CallsMatch(queue, places)
    PROVE  /\ CallsMatch(Tail(queue), places)
           /\ Head(queue).type = "call" =>
                 /\ places[Head(queue).call].at = "recording"
                 /\ \A i \in DOMAIN Tail(queue) :
                       Tail(queue)[i].type = "call" => Tail(queue)[i].call # Head(queue).call
  BY QueueHead DEF CallsMatch

-----------------------------------------------------------------------------

TypeInv == TypeOK /\ CallsWait

LEMMA CallsWaitIs ==
    /\ CallsWait <=> CallsMatch(writeQueue, calls)
    /\ CallsWait' <=> CallsMatch(writeQueue', calls')
  BY DEF CallsWait, CallsMatch

\* At the start nothing is known, called or written.
LEMMA InitTypes == Init => TypeInv
<1> SUFFICES ASSUME Init PROVE TypeInv  OBVIOUS
<1>1. RefreshAt("new", Nothing) \in RefreshType /\ RefreshAt("new", Nothing).at = "new"
  BY PlaceTypes, ListingTypes DEF Places, RefreshAt
<1>2. NoTool \in CallType /\ NoAnswer \in AnswerType  BY DEF CallType, AnswerType
<1>3. <<>> \in Seq(RecordType)  BY EmptySeq
<1>4. /\ action \in Actions /\ process = "starting" /\ connected = FALSE
      /\ served \in [Tools -> Defs \cup {NoDef}] /\ changes \in 0 .. MaxChanges
      /\ toolCatalog \in [Tools -> Defs \cup {NoDef}]
      /\ baselines \in [Tools -> Digests \cup {NoDef}]
      /\ approved \in [Tools -> SUBSET Defs]
      /\ driftedTools = {} /\ lost = {} /\ delisted = {}
  BY ConstantsAssumption DEF Init, NoTools
<1>5. /\ refreshes = [r \in Refreshes |-> RefreshAt("new", Nothing)]
      /\ calls = [c \in Calls |-> NoTool] /\ answer = [c \in Calls |-> NoAnswer]
      /\ writeQueue = <<>> /\ log = <<>>
  BY DEF Init
<1>6. TypeOK  BY <1>1, <1>2, <1>3, <1>4, <1>5, TypeOKIs
<1>7. CallsWait  BY <1>5 DEF CallsWait
<1> QED BY <1>6, <1>7 DEF TypeInv

\* What changes neither calls nor the queue keeps them in step.
LEMMA SameCalls ==
    ASSUME TypeInv, UNCHANGED <<calls, writeQueue>>
    PROVE  CallsWait'
  BY DEF TypeInv, CallsWait

LEMMA ServerChangesTypes == TypeInv /\ ServerChanges => TypeInv'
<1> SUFFICES ASSUME TypeInv, ServerChanges PROVE TypeInv'  OBVIOUS
<1>1. /\ served' \in [Tools -> Defs \cup {NoDef}] /\ changes' \in 0 .. MaxChanges
      /\ UNCHANGED <<action, process, connected, monitor, listing, clients, audit>>
  BY ConstantsAssumption DEF ServerChanges, TypeInv, TypeOK
<1>2. TypeOK'
  BY <1>1 DEF TypeInv, TypeOK, monitor, listing, clients, audit
<1>3. CallsWait'  BY <1>1, SameCalls DEF clients, audit
<1> QED BY <1>2, <1>3 DEF TypeInv

LEMMA connectUpstreamTypes == TypeInv /\ connectUpstream => TypeInv'
<1> SUFFICES ASSUME TypeInv, connectUpstream PROVE TypeInv'  OBVIOUS
<1>1. TypeOK  BY DEF TypeInv
<1>2. Listed \in Listings  BY <1>1, TypeOKIs, ListingTypes
<1>3. DOMAIN Listed \subseteq Tools /\ \A t \in DOMAIN Listed : Listed[t] \in Defs
  BY <1>2, ListingIs
<1>4. \A t \in DOMAIN Listed : computeDigest(Listed[t]) \in Digests  BY <1>3, DigestType
<1>5. /\ toolCatalog' \in [Tools -> Defs \cup {NoDef}]
      /\ baselines' \in [Tools -> Digests \cup {NoDef}]
      /\ approved' \in [Tools -> SUBSET Defs]
      /\ connected' \in BOOLEAN
  <2>1. /\ toolCatalog \in [Tools -> Defs \cup {NoDef}]
        /\ baselines \in [Tools -> Digests \cup {NoDef}]
        /\ approved \in [Tools -> SUBSET Defs] /\ connected \in BOOLEAN
    BY <1>1 DEF TypeOK
  <2>2. CASE UNCHANGED <<connected, toolCatalog, baselines, approved>>  BY <2>1, <2>2
  <2>3. CASE /\ connected' = TRUE /\ registerUpstreamTools(Listed)
             /\ Check(Listed, IF Enabled THEN DOMAIN Listed ELSE {})
    <3> HIDE DEF Listed
    <3>1. (IF Enabled THEN DOMAIN Listed ELSE {}) \subseteq DOMAIN Listed  OBVIOUS
    <3> QED BY <1>3, <1>4, <2>1, <2>3, <3>1 DEF registerUpstreamTools, Check, Updated
  <2> QED BY <2>2, <2>3 DEF connectUpstream
<1>6. /\ process' = "serving"
      /\ UNCHANGED <<action, server, driftedTools, listing, clients, audit>>
  BY DEF connectUpstream
<1>7. TypeOK'  BY <1>1, <1>5, <1>6 DEF TypeOK, server, listing, clients, audit
<1>8. CallsWait'  BY <1>6, SameCalls DEF clients, audit
<1> QED BY <1>7, <1>8 DEF TypeInv

LEMMA AcceptTypes ==
    ASSUME TypeInv, NEW S, Accept(S)
    PROVE  TypeInv'
<1>1. /\ S \subseteq driftedTools /\ driftedTools' = driftedTools \ S
      /\ approved' \in [Tools -> SUBSET Defs]
      /\ UNCHANGED <<action, process, connected, server, toolCatalog, baselines,
                     listing, clients, audit>>
  BY DEF Accept, TypeInv, TypeOK
<1>2. TypeOK'
  BY <1>1 DEF TypeInv, TypeOK, server, listing, clients, audit
<1>3. CallsWait'  BY <1>1, SameCalls DEF clients, audit
<1> QED BY <1>2, <1>3 DEF TypeInv

LEMMA RefreshListedTypes ==
    ASSUME TypeInv, NEW r \in Refreshes, RefreshListed(r)
    PROVE  TypeInv'
<1>1. TypeOK  BY DEF TypeInv
<1>2. RefreshAt("listed", Listed) \in RefreshType /\ RefreshAt("listed", Listed).at = "listed"
  BY <1>1, TypeOKIs, PlaceTypes, ListingTypes DEF Places, RefreshAt
<1>3. /\ refreshes' = [refreshes EXCEPT ![r] = RefreshAt("listed", Listed)]
      /\ delisted' \subseteq Tools
      /\ UNCHANGED <<action, process, connected, server, monitor, clients, audit>>
  BY <1>1, TypeOKIs DEF RefreshListed
<1>4. /\ refreshes' \in [Refreshes -> RefreshType]
      /\ action = "disabled" => \A q \in Refreshes : refreshes'[q].at # "recording"
  <2>1. /\ refreshes \in [Refreshes -> RefreshType]
        /\ action = "disabled" => \A q \in Refreshes : refreshes[q].at # "recording"
    BY <1>1, TypeOKIs
  <2> DEFINE place == RefreshAt("listed", Listed)
  <2>2. place \in RefreshType /\ place.at = "listed"  BY <1>2
  <2> HIDE DEF place
  <2> QED BY <1>3, <2>1, <2>2 DEF place
<1>5. TypeOK'
  BY <1>1, <1>3, <1>4 DEF TypeOK, RefreshType, Places, server, monitor, clients, audit
<1>6. CallsWait'  BY <1>3, SameCalls DEF clients, audit
<1> QED BY <1>5, <1>6 DEF TypeInv

\* The loop that checks tools adds nothing but a drift record to the queue.
LEMMA CheckQueue ==
    ASSUME TypeOK, NEW r \in Refreshes, NEW tools \in Listings,
           NEW queue \in Seq(RecordType), checkToolIntegrity(r, tools, queue),
           CallsMatch(queue, calls)
    PROVE  CallsMatch(writeQueue', calls)
<1>1. CASE CheckEnds(r, tools, queue)  BY <1>1 DEF CheckEnds
<1>2. ASSUME NEW t \in Drifting(tools), NEW passed, CheckFinds(r, tools, queue, passed, t)
      PROVE  CallsMatch(writeQueue', calls)
  <2> DEFINE rec == DriftRecord(r, t, baselines[t], computeDigest(tools[t]))
  <2>1. t \in Tools /\ tools[t] \in Defs /\ baselines[t] \in Digests
    BY ListingIs, TypeOKIs DEF Drifting, Drifts
  <2>2. rec \in RecordType /\ rec.type = "tool_drift"
    BY <2>1, RecordTypes, DigestType DEF DriftRecord
  <2>3. writeQueue' = Append(queue, rec)  BY <1>2 DEF CheckFinds
  <2> HIDE DEF rec
  <2> QED BY <2>2, <2>3, CallsMatchDrift
<1> QED BY <1>1, <1>2 DEF checkToolIntegrity

LEMMA RefreshArrivesTypes ==
    ASSUME TypeInv, NEW r \in Refreshes, RefreshArrives(r)
    PROVE  TypeInv'
<1>1. TypeOK /\ CallsMatch(writeQueue, calls)  BY CallsWaitIs DEF TypeInv
<1> DEFINE tools == refreshes[r].todo
<1>2. tools \in Listings /\ writeQueue \in Seq(RecordType)  BY <1>1, TypeOKIs, PlaceTypes
<1>3. /\ registerUpstreamTools(tools) /\ checkToolIntegrity(r, tools, writeQueue)
      /\ UNCHANGED <<action, process, connected, server, clients, log, lost, delisted>>
  BY DEF RefreshArrives
<1> HIDE DEF tools
<1>4. toolCatalog' \in [Tools -> Defs \cup {NoDef}]
  BY <1>1, <1>2, <1>3, ListingIs DEF registerUpstreamTools, TypeOK
<1>5. /\ baselines' \in [Tools -> Digests \cup {NoDef}]
      /\ approved' \in [Tools -> SUBSET Defs]
      /\ driftedTools' \subseteq Tools
      /\ refreshes' \in [Refreshes -> RefreshType]
      /\ writeQueue' \in Seq(RecordType)
      /\ action = "disabled" => /\ driftedTools' = {}
                                /\ \A q \in Refreshes : refreshes'[q].at # "recording"
  BY <1>1, <1>2, <1>3, CheckTypes
<1>6. TypeOK'
  BY <1>1, <1>3, <1>4, <1>5 DEF TypeOK, RefreshType, Places, server, clients
<1>7. CallsWait'
  <2>1. CallsMatch(writeQueue', calls)  BY <1>1, <1>2, <1>3, CheckQueue
  <2> QED BY <1>3, <2>1, CallsWaitIs DEF clients
<1> QED BY <1>6, <1>7 DEF TypeInv

LEMMA DriftRecordedTypes == TypeInv /\ DriftRecorded => TypeInv'
<1> SUFFICES ASSUME TypeInv, DriftRecorded PROVE TypeInv'  OBVIOUS
<1>1. TypeOK /\ CallsMatch(writeQueue, calls)  BY CallsWaitIs DEF TypeInv
<1> DEFINE rec == Head(writeQueue)
           r == rec.refresh
           tools == refreshes[r].todo
           queue == Tail(writeQueue)
<1>2. /\ writeQueue \in Seq(RecordType) /\ writeQueue # <<>> /\ rec.type = "tool_drift"
      /\ log' = Append(log, rec)
      /\ checkToolIntegrity(r, tools, queue)
      /\ UNCHANGED <<action, process, connected, server, toolCatalog, clients, lost, delisted>>
  BY <1>1 DEF DriftRecorded, Writing, TypeOK
<1>3. rec \in RecordType /\ queue \in Seq(RecordType)  BY <1>2, QueueHead
<1>4. r \in Refreshes /\ tools \in Listings  BY <1>1, <1>2, <1>3, RecordTypes, TypeOKIs, PlaceTypes
<1>5. CallsMatch(queue, calls)  BY <1>1, <1>2, CallsMatchTail
<1> HIDE DEF rec, r, tools, queue
<1>6. log' \in Seq(RecordType)  BY <1>1, <1>2, <1>3, AppendProperties DEF TypeOK
<1>7. /\ baselines' \in [Tools -> Digests \cup {NoDef}]
      /\ approved' \in [Tools -> SUBSET Defs]
      /\ driftedTools' \subseteq Tools
      /\ refreshes' \in [Refreshes -> RefreshType]
      /\ writeQueue' \in Seq(RecordType)
      /\ action = "disabled" => /\ driftedTools' = {}
                                /\ \A q \in Refreshes : refreshes'[q].at # "recording"
  BY <1>1, <1>2, <1>3, <1>4, CheckTypes
<1>8. TypeOK'
  BY <1>1, <1>2, <1>6, <1>7 DEF TypeOK, RefreshType, Places, server, clients
<1>9. CallsWait'
  <2>1. CallsMatch(writeQueue', calls)  BY <1>1, <1>2, <1>3, <1>4, <1>5, CheckQueue
  <2> QED BY <1>2, <2>1, CallsWaitIs DEF clients
<1> QED BY <1>8, <1>9 DEF TypeInv

LEMMA DriftUnrecordedTypes == TypeInv /\ DriftUnrecorded => TypeInv'
<1> SUFFICES ASSUME TypeInv, DriftUnrecorded PROVE TypeInv'  OBVIOUS
<1>1. TypeOK /\ CallsMatch(writeQueue, calls)  BY CallsWaitIs DEF TypeInv
<1> DEFINE rec == Head(writeQueue)
           queue == Tail(writeQueue)
<1>2. /\ writeQueue \in Seq(RecordType) /\ writeQueue # <<>>
      /\ writeQueue' = queue /\ lost' = lost \cup {rec.tool}
      /\ refreshes' = [refreshes EXCEPT ![rec.refresh] = AfterFailure]
      /\ UNCHANGED <<action, process, connected, server, monitor, clients, log, delisted>>
  BY <1>1 DEF DriftUnrecorded, Writing, TypeOK
<1>3. rec \in RecordType /\ queue \in Seq(RecordType)  BY <1>2, QueueHead
<1>4. rec.tool \in Tools  BY <1>3, RecordTypes
<1>5. CallsMatch(queue, calls)  BY <1>1, <1>2, CallsMatchTail
<1>6. AfterFailure \in RefreshType /\ AfterFailure.at # "recording"
  BY PlaceTypes, ListingTypes DEF AfterFailure, Places, RefreshAt
<1> HIDE DEF rec, queue
<1>7. /\ refreshes' \in [Refreshes -> RefreshType]
      /\ action = "disabled" => \A q \in Refreshes : refreshes'[q].at # "recording"
  <2>1. /\ refreshes \in [Refreshes -> RefreshType]
        /\ action = "disabled" => \A q \in Refreshes : refreshes[q].at # "recording"
    BY <1>1, TypeOKIs
  <2> QED BY <1>2, <1>6, <2>1
<1>8. TypeOK'
  BY <1>1, <1>2, <1>3, <1>4, <1>7 DEF TypeOK, RefreshType, Places, server, monitor, clients
<1>9. CallsWait'  BY <1>2, <1>5, CallsWaitIs DEF clients
<1> QED BY <1>8, <1>9 DEF TypeInv

\* The end of a call before the log is awaited.
LEMMA ConcludeTypes ==
    ASSUME TypeInv, NEW c \in Calls, NEW t \in Tools, NEW o \in Outcomes,
           calls[c].at # "recording", Conclude(c, t, o),
           UNCHANGED <<action, process, connected, server, monitor, listing, answer, log, lost>>
    PROVE  TypeInv'
<1>1. TypeOK /\ CallsMatch(writeQueue, calls)  BY CallsWaitIs DEF TypeInv
<1>2. /\ calls' = [calls EXCEPT ![c] = CallAt("recording", t, o)]
      /\ writeQueue' = Append(writeQueue, CallRecord(c, t, o))
  BY DEF Conclude
<1>3. /\ writeQueue \in Seq(RecordType) /\ calls \in [Calls -> CallType]
      /\ CallRecord(c, t, o) \in RecordType /\ CallAt("recording", t, o) \in CallType
  BY <1>1, TypeOKIs, RecordTypes, PlaceTypes
<1>4. writeQueue' \in Seq(RecordType) /\ calls' \in [Calls -> CallType]
  BY <1>2, <1>3, AppendProperties
<1>5. TypeOK'
  BY <1>1, <1>4 DEF TypeOK, CallType, server, monitor, listing
<1>6. CallsWait'  BY <1>1, <1>2, <1>3, CallsMatchConclude, CallsWaitIs
<1> QED BY <1>5, <1>6 DEF TypeInv

LEMMA CallingTypes ==
    ASSUME TypeInv, NEW c \in Calls, NEW t \in Tools, Calling(c, t)
    PROVE  TypeInv'
<1>1. /\ calls[c].at # "recording"
      /\ UNCHANGED <<action, process, connected, server, monitor, listing, answer, log, lost>>
  <2>1. calls[c] = NoTool
        /\ UNCHANGED <<action, process, connected, server, monitor, listing, answer, log, lost>>
    BY DEF Calling, CallUnknown, CallBlocked, CallDenied, CallForwarded, CallArrives
  <2> QED BY <2>1 DEF NoTool
<1>2. ASSUME NEW o \in Outcomes, Conclude(c, t, o) PROVE TypeInv'
  BY <1>1, <1>2, ConcludeTypes
<1>3. CASE CallForwarded(c, t)
  <2>1. calls' = [calls EXCEPT ![c] = CallAt("upstream", t, "none")] /\ UNCHANGED writeQueue
    BY <1>3 DEF CallForwarded
  <2>2. calls \in [Calls -> CallType] /\ CallAt("upstream", t, "none") \in CallType
    BY TypeOKIs, PlaceTypes DEF TypeInv
  <2>3. calls' \in [Calls -> CallType]  BY <2>1, <2>2
  <2>4. TypeOK'
    BY <1>1, <2>1, <2>3 DEF TypeInv, TypeOK, CallType, server, monitor, listing
  <2>5. CallsWait'
    <3>1. \A i \in DOMAIN writeQueue : writeQueue[i].type = "call" =>
             writeQueue[i].call # c /\ calls'[writeQueue[i].call] = calls[writeQueue[i].call]
      <4>1. \A d \in Calls : d # c => calls'[d] = calls[d]  BY <2>1, <2>2
      <4>2. \A i \in DOMAIN writeQueue : writeQueue[i] \in RecordType
        BY TypeOKIs, ElementOfSeq, LenProperties DEF TypeInv
      <4> QED BY <1>1, <4>1, <4>2, RecordTypes DEF TypeInv, CallsWait
    <3> QED BY <2>1, <3>1 DEF TypeInv, CallsWait
  <2> QED BY <2>4, <2>5 DEF TypeInv
<1> QED BY <1>2, <1>3 DEF Calling, CallUnknown, CallBlocked, CallDenied, Outcomes, Refusals

LEMMA UpstreamEndsTypes ==
    ASSUME TypeInv, NEW c \in Calls, UpstreamEnds(c)
    PROVE  TypeInv'
<1>1. calls[c].tool \in Tools  BY TypeOKIs, PlaceTypes DEF TypeInv, UpstreamEnds
<1>2. PICK o \in {"ok", "error"} : Conclude(c, calls[c].tool, o)  BY DEF UpstreamEnds
<1>3. o \in Outcomes  BY DEF Outcomes
<1>4. calls[c].at # "recording"
      /\ UNCHANGED <<action, process, connected, server, monitor, listing, answer, log, lost>>
  BY DEF UpstreamEnds
<1> QED BY <1>1, <1>2, <1>3, <1>4, ConcludeTypes

\* The call at the head of the queue is answered.
LEMMA AnswersTypes ==
    ASSUME TypeInv, writeQueue # <<>>, Head(writeQueue).type = "call",
           NEW id \in {"recorded", "unrecorded"}, Answers(Head(writeQueue).call, id),
           writeQueue' = Tail(writeQueue), log' \in Seq(RecordType),
           UNCHANGED <<action, process, connected, server, monitor, listing, lost>>
    PROVE  TypeInv'
<1> DEFINE c == Head(writeQueue).call
<1>1. TypeOK /\ CallsMatch(writeQueue, calls)  BY CallsWaitIs DEF TypeInv
<1>2. writeQueue \in Seq(RecordType)  BY <1>1, TypeOKIs
<1>3. /\ c \in Calls /\ Tail(writeQueue) \in Seq(RecordType)
      /\ \A i \in DOMAIN Tail(writeQueue) : Tail(writeQueue)[i] \in RecordType
  <2>1. Head(writeQueue) \in RecordType /\ Tail(writeQueue) \in Seq(RecordType)
    BY <1>2, QueueHead
  <2> QED BY <2>1, RecordTypes, ElementOfSeq, LenProperties
<1>4. /\ CallsMatch(Tail(writeQueue), calls)
      /\ calls[c].at = "recording"
      /\ \A i \in DOMAIN Tail(writeQueue) :
            Tail(writeQueue)[i].type = "call" => Tail(writeQueue)[i].call # c
  BY <1>1, <1>2, CallsMatchTail
<1> HIDE DEF c
<1>5. /\ calls' = [calls EXCEPT ![c] = CallAt("answered", calls[c].tool, calls[c].outcome)]
      /\ answer' = [answer EXCEPT ![c] = Answer(id, calls[c].outcome)]
  BY DEF Answers, c
<1>6. /\ calls \in [Calls -> CallType] /\ answer \in [Calls -> AnswerType]
      /\ CallAt("answered", calls[c].tool, calls[c].outcome) \in CallType
      /\ Answer(id, calls[c].outcome) \in AnswerType
  BY <1>1, <1>3, <1>4, TypeOKIs, PlaceTypes
<1>7. calls' \in [Calls -> CallType] /\ answer' \in [Calls -> AnswerType]
  BY <1>5, <1>6
<1>8. TypeOK'
  BY <1>1, <1>3, <1>7 DEF TypeOK, CallType, AnswerType, server, monitor, listing
<1>9. CallsWait'
  <2>1. \A d \in Calls : d # c => calls'[d] = calls[d]  BY <1>5, <1>6
  <2>2. \A i \in DOMAIN Tail(writeQueue) : Tail(writeQueue)[i].type = "call" =>
           calls'[Tail(writeQueue)[i].call] = calls[Tail(writeQueue)[i].call]
    BY <1>3, <1>4, <2>1, RecordTypes
  <2>3. CallsMatch(Tail(writeQueue), calls')  BY <1>4, <2>2 DEF CallsMatch
  <2> QED BY <2>3, CallsWaitIs
<1> QED BY <1>8, <1>9 DEF TypeInv

LEMMA CallRecordedTypes == TypeInv /\ CallRecorded => TypeInv'
<1> SUFFICES ASSUME TypeInv, CallRecorded PROVE TypeInv'  OBVIOUS
<1>1. /\ writeQueue # <<>> /\ Head(writeQueue).type = "call"
      /\ log' = Append(log, Head(writeQueue)) /\ writeQueue' = Tail(writeQueue)
      /\ Answers(Head(writeQueue).call, "recorded")
      /\ UNCHANGED <<action, process, connected, server, monitor, listing, lost>>
  BY DEF CallRecorded, Writing
<1>2. writeQueue \in Seq(RecordType) /\ log \in Seq(RecordType)  BY TypeOKIs DEF TypeInv
<1>3. log' \in Seq(RecordType)  BY <1>1, <1>2, QueueHead, AppendProperties
<1> QED BY <1>1, <1>3, AnswersTypes

LEMMA CallUnrecordedTypes == TypeInv /\ CallUnrecorded => TypeInv'
<1> SUFFICES ASSUME TypeInv, CallUnrecorded PROVE TypeInv'  OBVIOUS
<1>1. /\ writeQueue # <<>> /\ Head(writeQueue).type = "call" /\ writeQueue' = Tail(writeQueue)
      /\ Answers(Head(writeQueue).call, "unrecorded")
      /\ UNCHANGED <<action, process, connected, server, monitor, listing, log, lost>>
  BY DEF CallUnrecorded, Writing, Unattested
<1>2. log' \in Seq(RecordType)  BY <1>1, TypeOKIs DEF TypeInv
<1> QED BY <1>1, <1>2, AnswersTypes

\* Only the log and what the clients were told outlive the process.
LEMMA ExitTypes == TypeInv /\ Exit => TypeInv'
<1> SUFFICES ASSUME TypeInv, Exit PROVE TypeInv'  OBVIOUS
<1>1. TypeOK  BY DEF TypeInv
<1>2. /\ process' = "ended" /\ writeQueue' = <<>> /\ connected' = FALSE
      /\ toolCatalog' = NoTools /\ baselines' = NoTools /\ driftedTools' = {}
      /\ refreshes' = [r \in Refreshes |-> RefreshAt("new", Nothing)]
      /\ calls' = [c \in Calls |-> IF answer[c] = NoAnswer THEN NoTool ELSE calls[c]]
      /\ approved' = [t \in Tools |-> {}] /\ delisted' = {}
      /\ UNCHANGED <<action, server, answer, lost>>
  BY DEF Exit
<1>3. log' \in Seq(RecordType)
  <2>1. log \in Seq(RecordType) /\ writeQueue \in Seq(RecordType)  BY <1>1, TypeOKIs
  <2>2. \/ log' = log
        \/ /\ writeQueue # <<>>
           /\ log' = Append(log, Head(writeQueue))
    BY DEF Exit
  <2> QED BY <2>1, <2>2, QueueHead, AppendProperties
<1>4. /\ refreshes' \in [Refreshes -> RefreshType]
      /\ \A r \in Refreshes : refreshes'[r].at # "recording"
  <2>1. RefreshAt("new", Nothing) \in RefreshType /\ RefreshAt("new", Nothing).at # "recording"
    BY PlaceTypes, ListingTypes DEF Places, RefreshAt
  <2> QED BY <1>2, <2>1
<1>5. calls' \in [Calls -> CallType]
  <2>1. NoTool \in CallType  BY DEF CallType
  <2>2. calls \in [Calls -> CallType]  BY <1>1, TypeOKIs
  <2> QED BY <1>2, <2>1, <2>2
<1>6. writeQueue' \in Seq(RecordType)  BY <1>2, EmptySeq
<1>7. TypeOK'
  BY <1>1, <1>2, <1>3, <1>4, <1>5, <1>6
     DEF TypeOK, NoTools, RefreshType, Places, CallType, server
<1>8. CallsWait'  BY <1>2 DEF CallsWait
<1> QED BY <1>7, <1>8 DEF TypeInv

\* Every step keeps the types.
LEMMA NextTypes == TypeInv /\ [Next]_vars => TypeInv'
<1> SUFFICES ASSUME TypeInv, [Next]_vars PROVE TypeInv'  OBVIOUS
<1>1. CASE UNCHANGED vars
  <2>1. TypeOK'
    BY <1>1 DEF TypeInv, TypeOK, vars, server, monitor, listing, clients, audit
  <2>2. CallsWait'  BY <1>1, SameCalls DEF vars, clients, audit
  <2> QED BY <2>1, <2>2 DEF TypeInv
<1>2. CASE ServerChanges \/ connectUpstream
  BY <1>2, ServerChangesTypes, connectUpstreamTypes
<1>3. CASE rebaselineAll \/ \E t \in Tools : rebaselineTool(t)
  BY <1>3, AcceptTypes DEF rebaselineAll, rebaselineTool
<1>4. CASE \E r \in Refreshes : Refreshing(r)
  BY <1>4, RefreshListedTypes, RefreshArrivesTypes DEF Refreshing
<1>5. CASE \E c \in Calls, t \in Tools : Calling(c, t)  BY <1>5, CallingTypes
<1>6. CASE \E c \in Calls : UpstreamEnds(c)  BY <1>6, UpstreamEndsTypes
<1>7. CASE Settling
  BY <1>7, CallRecordedTypes, CallUnrecordedTypes, DriftRecordedTypes, DriftUnrecordedTypes
     DEF Settling
<1>8. CASE Exit  BY <1>8, ExitTypes
<1>9. CASE Finished  BY <1>1, <1>9 DEF Finished
<1> QED BY <1>1, <1>2, <1>3, <1>4, <1>5, <1>6, <1>7, <1>8, <1>9 DEF Next

\* The gateway's types in every behaviour: an answer has an outcome, and tools
\* are flagged and refreshes wait for the log only when drift is looked for.
THEOREM TypeCorrect == Spec => []TypeOK
<1>1. TypeInv => TypeOK  BY DEF TypeInv
<1> QED BY <1>1, InitTypes, NextTypes, PTL DEF Spec

-----------------------------------------------------------------------------
(* The gateway implements AuditedCalls                                     *)

\* No record of the call is in the log.
Unwritten(c, records) ==
    \A i \in DOMAIN records : records[i].type = "call" => records[i].call # c

\* What keeps calls and the log in step while the process runs: a call that
\* was not answered is not in the log, and a record that waits tells the
\* outcome of its call.
AnsweredOnce ==
    process # "ended" =>
        /\ \A c \in Calls :
              calls[c].at # "answered" => answer[c] = NoAnswer /\ Unwritten(c, log)
        /\ \A i \in DOMAIN writeQueue : writeQueue[i].type = "call" =>
              writeQueue[i].outcome = calls[writeQueue[i].call].outcome

CallsInv == TypeInv /\ AnsweredOnce

\* One more record is one more call in the log, or none.
LEMMA CallsInAppend ==
    ASSUME NEW records \in Seq(RecordType), NEW rec \in RecordType
    PROVE  CallsIn(Append(records, rec)) =
              IF rec.type = "call"
              THEN Append(CallsIn(records), [call |-> rec.call, outcome |-> rec.outcome])
              ELSE CallsIn(records)
<1> DEFINE Brief(seq) ==
               [i \in DOMAIN seq |-> [call |-> seq[i].call, outcome |-> seq[i].outcome]]
           P == {i \in DOMAIN records : records[i].type = "call"}
           longer == Append(records, rec)
           Q == {i \in DOMAIN longer : longer[i].type = "call"}
<1>1. CallsIn(records) = Brief(InOrder(records, P)) /\ CallsIn(longer) = Brief(InOrder(longer, Q))
  BY DEF CallsIn
<1>2. /\ Len(records) \in Nat /\ DOMAIN records = 1..Len(records)
      /\ DOMAIN longer = 1..Len(records) + 1
      /\ \A i \in 1..Len(records) : longer[i] = records[i]
      /\ longer[Len(records) + 1] = rec
  BY AppendProperties, LenProperties
<1>3. P \in SUBSET (1..Len(records))  BY <1>2
<1>4. GrowsBy(records, P, rec)  BY <1>3, SelectAppend
<1>5. InOrder(records, P) \in Seq(RecordType)  BY <1>3, SelectType
<1>6. CASE rec.type = "call"
  <2> DEFINE told == InOrder(records, P)
             one == [call |-> rec.call, outcome |-> rec.outcome]
  <2>1. Q = P \cup {Len(records) + 1}  BY <1>2, <1>6
  <2>2. InOrder(longer, Q) = Append(told, rec)  BY <1>4, <2>1 DEF GrowsBy
  <2> HIDE DEF told
  <2>3. told \in Seq(RecordType)  BY <1>5 DEF told
  <2>4. Brief(Append(told, rec)) = Append(Brief(told), one)
    <3> SUFFICES ASSUME NEW s \in Seq(RecordType)
                 PROVE  Brief(Append(s, rec)) = Append(Brief(s), one)
      BY <2>3
    <3> DEFINE Small == {[call |-> r.call, outcome |-> r.outcome] : r \in RecordType}
    <3>1. PICK n \in Nat : n = Len(s)  BY LenProperties
    <3>2. /\ DOMAIN s = 1..n /\ s \in [1..n -> RecordType]
      BY <3>1, LenProperties, ElementOfSeq
    <3>3. Brief(s) \in [1..n -> Small]  BY <3>2
    <3>4. Brief(s) \in Seq(Small) /\ Len(Brief(s)) = n  BY <3>1, <3>3
    <3>5. one \in Small  OBVIOUS
    <3>6. /\ DOMAIN Append(s, rec) = 1..n + 1
          /\ \A i \in 1..n : Append(s, rec)[i] = s[i]
          /\ Append(s, rec)[n + 1] = rec
      BY <3>1, AppendProperties, LenProperties
    <3> HIDE DEF Small, one
    <3>7. /\ Append(Brief(s), one) \in Seq(Small) /\ Len(Append(Brief(s), one)) = n + 1
          /\ \A i \in 1..n : Append(Brief(s), one)[i] = Brief(s)[i]
          /\ Append(Brief(s), one)[n + 1] = one
      BY <3>4, <3>5, AppendProperties
    <3>8. /\ DOMAIN Append(Brief(s), one) = 1..n + 1
          /\ Append(Brief(s), one) = [i \in 1..n + 1 |-> Append(Brief(s), one)[i]]
      BY <3>7, LenProperties
    <3>9. \A i \in 1..n + 1 : Append(Brief(s), one)[i] =
             [call |-> Append(s, rec)[i].call, outcome |-> Append(s, rec)[i].outcome]
      BY <3>1, <3>2, <3>6, <3>7 DEF one
    <3> QED BY <3>6, <3>8, <3>9
  <2> QED BY <1>1, <1>6, <2>2, <2>4 DEF told
<1>7. CASE rec.type # "call"
  <2>1. Q = P  BY <1>2, <1>7
  <2>2. InOrder(longer, Q) = InOrder(records, P)  BY <1>4, <2>1, Zenon DEF GrowsBy
  <2>3. CallsIn(longer) = CallsIn(records)  BY <1>1, <2>2, Zenon
  <2> QED BY <1>7, <2>3
<1> QED BY <1>6, <1>7

\* A call without a record is not among the calls of the log.
LEMMA UnwrittenInCalls ==
    ASSUME NEW records \in Seq(RecordType), NEW c, Unwritten(c, records)
    PROVE  \A i \in DOMAIN CallsIn(records) : CallsIn(records)[i].call # c
<1> DEFINE P == {i \in DOMAIN records : records[i].type = "call"}
           told == InOrder(records, P)
<1>1. P \in SUBSET (1..Len(records))  BY LenProperties
<1>2. \A n \in DOMAIN told : \E i \in P : told[n] = records[i]
  <2> HIDE DEF P
  <2> QED BY <1>1, SelectType
<1>3. CallsIn(records) =
         [i \in DOMAIN told |-> [call |-> told[i].call, outcome |-> told[i].outcome]]
  BY DEF CallsIn
<1>4. \A i \in P : records[i].call # c  BY DEF Unwritten
<1> HIDE DEF P, told
<1> QED BY <1>2, <1>3, <1>4

\* One more record is of no other call.
LEMMA UnwrittenAppend ==
    ASSUME NEW records \in Seq(RecordType), NEW rec \in RecordType, NEW c,
           Unwritten(c, records), rec.type = "call" => rec.call # c
    PROVE  Unwritten(c, Append(records, rec))
<1> DEFINE longer == Append(records, rec)
<1>1. \A i \in DOMAIN longer :
         \/ i \in DOMAIN records /\ longer[i] = records[i]
         \/ longer[i] = rec
  BY QueueAppend
<1> HIDE DEF longer
<1>2. Unwritten(c, longer)  BY <1>1 DEF Unwritten
<1> QED BY <1>2 DEF longer

\* The records that wait tell the outcomes of their calls.
OutcomesTold(queue, places) ==
    \A i \in DOMAIN queue : queue[i].type = "call" =>
        queue[i].outcome = places[queue[i].call].outcome

OpenCalls(places, told, records) ==
    \A c \in Calls :
        places[c].at # "answered" => told[c] = NoAnswer /\ Unwritten(c, records)

LEMMA AnsweredOnceIs ==
    /\ AnsweredOnce <=>
          (process # "ended" => OpenCalls(calls, answer, log) /\ OutcomesTold(writeQueue, calls))
    /\ AnsweredOnce' <=>
          (process' # "ended" =>
              OpenCalls(calls', answer', log') /\ OutcomesTold(writeQueue', calls'))
  BY DEF AnsweredOnce, OpenCalls, OutcomesTold, Unwritten

\* The loop that checks tools adds at most one drift record to the queue.
LEMMA CheckAppends ==
    ASSUME TypeOK, NEW r \in Refreshes, NEW tools \in Listings,
           NEW queue \in Seq(RecordType), checkToolIntegrity(r, tools, queue)
    PROVE  \/ writeQueue' = queue
           \/ \E rec \in RecordType :
                 rec.type = "tool_drift" /\ writeQueue' = Append(queue, rec)
<1>1. CASE CheckEnds(r, tools, queue)  BY <1>1 DEF CheckEnds
<1>2. ASSUME NEW t \in Drifting(tools), NEW passed, CheckFinds(r, tools, queue, passed, t)
      PROVE  \E rec \in RecordType :
                rec.type = "tool_drift" /\ writeQueue' = Append(queue, rec)
  <2> DEFINE rec == DriftRecord(r, t, baselines[t], computeDigest(tools[t]))
  <2>1. t \in Tools /\ tools[t] \in Defs /\ baselines[t] \in Digests
    BY ListingIs, TypeOKIs DEF Drifting, Drifts
  <2>2. rec \in RecordType /\ rec.type = "tool_drift"
    BY <2>1, RecordTypes, DigestType DEF DriftRecord
  <2>3. writeQueue' = Append(queue, rec)  BY <1>2 DEF CheckFinds
  <2> HIDE DEF rec
  <2> QED BY <2>2, <2>3
<1> QED BY <1>1, <1>2 DEF checkToolIntegrity

\* A drift record tells no outcome.
LEMMA OutcomesToldDrift ==
    ASSUME NEW queue \in Seq(RecordType), NEW places, NEW rec \in RecordType,
           rec.type = "tool_drift", OutcomesTold(queue, places)
    PROVE  OutcomesTold(Append(queue, rec), places)
<1> DEFINE longer == Append(queue, rec)
<1>1. \A i \in DOMAIN longer : longer[i].type = "call" =>
         i \in DOMAIN queue /\ longer[i] = queue[i]
  BY QueueAppend
<1> HIDE DEF longer
<1>2. OutcomesTold(longer, places)  BY <1>1 DEF OutcomesTold
<1> QED BY <1>2 DEF longer

\* The record of a call that comes into the queue tells its outcome.
LEMMA OutcomesToldConclude ==
    ASSUME NEW queue \in Seq(RecordType), NEW places \in [Calls -> CallType],
           NEW c \in Calls, NEW t \in Tools, NEW o \in Outcomes,
           places[c].at # "recording", CallsMatch(queue, places), OutcomesTold(queue, places)
    PROVE  OutcomesTold(Append(queue, CallRecord(c, t, o)),
                        [places EXCEPT ![c] = CallAt("recording", t, o)])
<1> DEFINE rec == CallRecord(c, t, o)
           longer == Append(queue, rec)
           after == [places EXCEPT ![c] = CallAt("recording", t, o)]
<1>1. rec \in RecordType /\ rec.call = c /\ rec.outcome = o
  BY RecordTypes DEF CallRecord
<1>2. after[c].outcome = o /\ \A d \in Calls : d # c => after[d] = places[d]
  BY DEF CallAt
<1> HIDE DEF rec
<1>3. \A i \in DOMAIN longer :
         \/ i \in DOMAIN queue /\ longer[i] = queue[i] /\ queue[i] \in RecordType
         \/ longer[i] = rec
  BY <1>1, QueueAppend
<1> HIDE DEF longer, after
<1>4. \A i \in DOMAIN queue : queue[i].type = "call" =>
         queue[i].call # c /\ queue[i].outcome = places[queue[i].call].outcome
  BY DEF CallsMatch, OutcomesTold
<1>5. \A r \in RecordType : r.type = "call" => r.call \in Calls  BY RecordTypes
<1>6. OutcomesTold(longer, after)  BY <1>1, <1>2, <1>3, <1>4, <1>5 DEF OutcomesTold
<1> QED BY <1>6 DEF longer, after, rec

\* A call that is not in the queue may move.
LEMMA OutcomesToldMoves ==
    ASSUME NEW queue \in Seq(RecordType), NEW places \in [Calls -> CallType],
           NEW c \in Calls, OutcomesTold(queue, places), NEW place,
           \A i \in DOMAIN queue : queue[i].type = "call" => queue[i].call # c
    PROVE  OutcomesTold(queue, [places EXCEPT ![c] = place])
<1> DEFINE after == [places EXCEPT ![c] = place]
<1>1. \A d \in Calls : d # c => after[d] = places[d]  OBVIOUS
<1>2. \A i \in DOMAIN queue : queue[i].type = "call" => queue[i].call \in Calls
  BY QueueAppend, RecordTypes
<1> HIDE DEF after
<1>3. OutcomesTold(queue, after)  BY <1>1, <1>2 DEF OutcomesTold
<1> QED BY <1>3 DEF after

\* What is left of the queue tells the outcomes too.
LEMMA OutcomesToldTail ==
    ASSUME NEW queue \in Seq(RecordType), queue # <<>>, NEW places,
           OutcomesTold(queue, places)
    PROVE  /\ OutcomesTold(Tail(queue), places)
           /\ Head(queue).type = "call" =>
                 Head(queue).outcome = places[Head(queue).call].outcome
  BY QueueHead DEF OutcomesTold

-----------------------------------------------------------------------------
(* The steps of the gateway are steps of AuditedCalls                      *)

Mapped == <<CallsIn(log), answer>>

\* Steps of which the abstract specification sees nothing.
LEMMA UnseenSteps ==
    ASSUME CallsInv, process # "ended", UNCHANGED <<calls, answer>>,
           \/ UNCHANGED log
           \/ \E rec \in RecordType : rec.type = "tool_drift" /\ log' = Append(log, rec),
           OutcomesTold(writeQueue', calls)
    PROVE  AnsweredOnce' /\ UNCHANGED Mapped
<1>1. OpenCalls(calls, answer, log) /\ log \in Seq(RecordType)
  BY AnsweredOnceIs, TypeOKIs DEF CallsInv, TypeInv
<1>2. CASE UNCHANGED log
  BY <1>1, <1>2, AnsweredOnceIs DEF Mapped
<1>3. ASSUME NEW rec \in RecordType, rec.type = "tool_drift", log' = Append(log, rec)
      PROVE  AnsweredOnce' /\ UNCHANGED Mapped
  <2>1. rec.type # "call"  BY <1>3
  <2>2. \A c : Unwritten(c, log) => Unwritten(c, log')
    BY <1>1, <1>3, <2>1, UnwrittenAppend
  <2>3. OpenCalls(calls', answer', log')  BY <1>1, <2>2 DEF OpenCalls
  <2>4. CallsIn(log') = CallsIn(log)  BY <1>1, <1>3, <2>1, CallsInAppend
  <2> QED BY <2>3, <2>4, AnsweredOnceIs DEF Mapped
<1> QED BY <1>2, <1>3

\* A call that ends before the log is awaited, and one that is passed on.
LEMMA ConcludeSteps ==
    ASSUME CallsInv, process # "ended", NEW c \in Calls, NEW t \in Tools, NEW o \in Outcomes,
           calls[c].at \notin {"recording", "answered"}, Conclude(c, t, o),
           UNCHANGED <<answer, log>>
    PROVE  AnsweredOnce' /\ UNCHANGED Mapped
<1>1. /\ calls \in [Calls -> CallType] /\ writeQueue \in Seq(RecordType)
      /\ CallsMatch(writeQueue, calls)
      /\ OpenCalls(calls, answer, log) /\ OutcomesTold(writeQueue, calls)
  BY AnsweredOnceIs, TypeOKIs, CallsWaitIs DEF CallsInv, TypeInv
<1>2. /\ calls' = [calls EXCEPT ![c] = CallAt("recording", t, o)]
      /\ writeQueue' = Append(writeQueue, CallRecord(c, t, o))
  BY DEF Conclude
<1>3. OutcomesTold(writeQueue', calls')
  <2>1. calls[c].at # "recording"  OBVIOUS
  <2> QED BY <1>1, <1>2, <2>1, OutcomesToldConclude
<1>4. \A d \in Calls : calls'[d] = calls[d] \/ calls[d].at # "answered"  BY <1>1, <1>2
<1>5. OpenCalls(calls', answer', log')  BY <1>1, <1>4 DEF OpenCalls
<1> QED BY <1>3, <1>5, AnsweredOnceIs DEF Mapped

LEMMA CallingSteps ==
    ASSUME CallsInv, NEW c \in Calls, NEW t \in Tools, Calling(c, t)
    PROVE  AnsweredOnce' /\ UNCHANGED Mapped
<1>1. /\ calls[c] = NoTool /\ process = "serving" /\ UNCHANGED <<answer, log>>
  BY DEF Calling, CallUnknown, CallBlocked, CallDenied, CallForwarded, CallArrives
<1>2. process # "ended" /\ calls[c].at \notin {"recording", "answered"}
  BY <1>1 DEF NoTool
<1>3. ASSUME NEW o \in Outcomes, Conclude(c, t, o) PROVE AnsweredOnce' /\ UNCHANGED Mapped
  BY <1>1, <1>2, <1>3, ConcludeSteps
<1>4. CASE CallForwarded(c, t)
  <2>1. calls' = [calls EXCEPT ![c] = CallAt("upstream", t, "none")] /\ UNCHANGED writeQueue
    BY <1>4 DEF CallForwarded
  <2>2. /\ calls \in [Calls -> CallType] /\ writeQueue \in Seq(RecordType)
        /\ CallsMatch(writeQueue, calls)
        /\ OpenCalls(calls, answer, log) /\ OutcomesTold(writeQueue, calls)
    BY <1>2, AnsweredOnceIs, TypeOKIs, CallsWaitIs DEF CallsInv, TypeInv
  <2>3. \A i \in DOMAIN writeQueue : writeQueue[i].type = "call" => writeQueue[i].call # c
    BY <1>2, <2>2 DEF CallsMatch
  <2>4. OutcomesTold(writeQueue', calls')  BY <2>1, <2>2, <2>3, OutcomesToldMoves
  <2>5. \A d \in Calls : calls'[d] = calls[d] \/ calls[d].at # "answered"
    BY <1>2, <2>1, <2>2
  <2>6. OpenCalls(calls', answer', log')  BY <1>1, <2>2, <2>5 DEF OpenCalls
  <2> QED BY <1>1, <2>4, <2>6, AnsweredOnceIs DEF Mapped
<1> QED BY <1>3, <1>4 DEF Calling, CallUnknown, CallBlocked, CallDenied, Outcomes, Refusals

LEMMA UpstreamEndsSteps ==
    ASSUME CallsInv, NEW c \in Calls, UpstreamEnds(c)
    PROVE  AnsweredOnce' /\ UNCHANGED Mapped
<1>1. calls[c].tool \in Tools
  BY TypeOKIs, PlaceTypes DEF CallsInv, TypeInv, UpstreamEnds
<1>2. PICK o \in {"ok", "error"} : Conclude(c, calls[c].tool, o)  BY DEF UpstreamEnds
<1>3. o \in Outcomes  BY DEF Outcomes
<1>4. /\ process # "ended" /\ calls[c].at \notin {"recording", "answered"}
      /\ UNCHANGED <<answer, log>>
  BY DEF UpstreamEnds
<1> QED BY <1>1, <1>2, <1>3, <1>4, ConcludeSteps

\* The call at the head of the queue is open, and its record tells its outcome.
LEMMA HeadIsOpen ==
    ASSUME CallsInv, process # "ended", writeQueue # <<>>, Head(writeQueue).type = "call"
    PROVE  LET c == Head(writeQueue).call
           IN  /\ c \in Calls /\ calls[c].at = "recording" /\ Unwritten(c, log)
               /\ Head(writeQueue) \in RecordType
               /\ Head(writeQueue).outcome = calls[c].outcome
               /\ calls[c].outcome \in Outcomes /\ Audited!Open(c)
<1> DEFINE c == Head(writeQueue).call
<1>1. /\ calls \in [Calls -> CallType] /\ writeQueue \in Seq(RecordType)
      /\ log \in Seq(RecordType) /\ CallsMatch(writeQueue, calls)
      /\ OpenCalls(calls, answer, log) /\ OutcomesTold(writeQueue, calls)
  BY AnsweredOnceIs, TypeOKIs, CallsWaitIs DEF CallsInv, TypeInv
<1>2. Head(writeQueue) \in RecordType  BY <1>1, QueueHead
<1>3. c \in Calls  BY <1>2, RecordTypes
<1>4. calls[c].at = "recording"  BY <1>1, CallsMatchTail
<1>5. Head(writeQueue).outcome = calls[c].outcome  BY <1>1, OutcomesToldTail
<1> HIDE DEF c
<1>6. calls[c].outcome \in Outcomes  BY <1>1, <1>3, <1>4, PlaceTypes
<1>7. answer[c] = NoAnswer /\ Unwritten(c, log)  BY <1>1, <1>3, <1>4 DEF OpenCalls
<1>8. \A i \in DOMAIN CallsIn(log) : CallsIn(log)[i].call # c
  BY <1>1, <1>7, UnwrittenInCalls
<1>9. Audited!Open(c)  BY <1>7, <1>8 DEF Audited!Open, Audited!NoAnswer, NoAnswer
<1> QED BY <1>2, <1>3, <1>4, <1>5, <1>6, <1>7, <1>9 DEF c

\* The record of the open call at the head of the queue, as AuditedCalls sees it.
LEMMA HeadIsRecorded ==
    ASSUME CallsInv, process # "ended", writeQueue # <<>>, Head(writeQueue).type = "call",
           log' = Append(log, Head(writeQueue))
    PROVE  LET c == Head(writeQueue).call
           IN  CallsIn(log)' = Append(CallsIn(log), Audited!CallRecord(c, calls[c].outcome))
<1>1. log \in Seq(RecordType)  BY TypeOKIs DEF CallsInv, TypeInv
<1>2. /\ Head(writeQueue) \in RecordType
      /\ Head(writeQueue).outcome = calls[Head(writeQueue).call].outcome
  BY HeadIsOpen
<1> QED BY <1>1, <1>2, CallsInAppend DEF Audited!CallRecord

\* The answer to a call, with its record or without one.
LEMMA AnswersSteps ==
    ASSUME CallsInv, process # "ended", writeQueue # <<>>, Head(writeQueue).type = "call",
           NEW id, Answers(Head(writeQueue).call, id), writeQueue' = Tail(writeQueue),
           \/ id = "recorded" /\ log' = Append(log, Head(writeQueue))
           \/ id = "unrecorded" /\ UNCHANGED log
    PROVE  AnsweredOnce' /\ [Audited!Next]_Mapped
<1> DEFINE rec == Head(writeQueue)
           c == rec.call
           o == calls[c].outcome
<1>1. /\ c \in Calls /\ calls[c].at = "recording" /\ o \in Outcomes /\ Audited!Open(c)
      /\ rec \in RecordType
  BY HeadIsOpen
<1>2. /\ calls' = [calls EXCEPT ![c] = CallAt("answered", calls[c].tool, o)]
      /\ answer' = [answer EXCEPT ![c] = Answer(id, o)]
  BY DEF Answers
<1>3. /\ calls \in [Calls -> CallType] /\ answer \in [Calls -> AnswerType]
      /\ writeQueue \in Seq(RecordType)
      /\ log \in Seq(RecordType) /\ CallsMatch(writeQueue, calls)
      /\ OpenCalls(calls, answer, log) /\ OutcomesTold(writeQueue, calls)
  BY AnsweredOnceIs, TypeOKIs, CallsWaitIs DEF CallsInv, TypeInv
<1>4. /\ \A i \in DOMAIN Tail(writeQueue) :
            Tail(writeQueue)[i].type = "call" => Tail(writeQueue)[i].call # c
      /\ OutcomesTold(Tail(writeQueue), calls) /\ Tail(writeQueue) \in Seq(RecordType)
  BY <1>3, CallsMatchTail, OutcomesToldTail, QueueHead
<1>5. OutcomesTold(writeQueue', calls')
  <2> HIDE DEF c, o
  <2> QED BY <1>1, <1>2, <1>3, <1>4, OutcomesToldMoves
<1>6. OpenCalls(calls', answer', log')
  <2> SUFFICES ASSUME NEW d \in Calls, calls'[d].at # "answered"
               PROVE  answer'[d] = NoAnswer /\ Unwritten(d, log')
    BY DEF OpenCalls
  <2>1. d # c
    <3>1. calls'[c] = CallAt("answered", calls[c].tool, o)  BY <1>1, <1>2, <1>3
    <3>2. calls'[c].at = "answered"  BY <3>1 DEF CallAt
    <3> QED BY <3>2
  <2>2. calls[d].at # "answered" /\ answer'[d] = answer[d]  BY <1>2, <1>3, <2>1
  <2>3. answer[d] = NoAnswer /\ Unwritten(d, log)  BY <1>3, <2>2 DEF OpenCalls
  <2>4. Unwritten(d, log')
    <3>1. CASE log' = log  BY <2>3, <3>1
    <3>2. CASE log' = Append(log, rec)
      BY <1>1, <1>3, <2>1, <2>3, <3>2, UnwrittenAppend
    <3> QED BY <3>1, <3>2
  <2> QED BY <2>2, <2>3, <2>4
<1>7. AnsweredOnce'  BY <1>5, <1>6, AnsweredOnceIs
<1>8. CASE id = "recorded" /\ log' = Append(log, rec)
  <2>1. CallsIn(log)' = Append(CallsIn(log), Audited!CallRecord(c, o))
    BY <1>8, HeadIsRecorded
  <2>2. answer' = [answer EXCEPT ![c] = Audited!Answer("recorded", o)]
    BY <1>2, <1>8 DEF Answer, Audited!Answer
  <2> HIDE DEF c, o
  <2>3. Audited!RecordCall(c, o)  BY <1>1, <2>1, <2>2 DEF Audited!RecordCall
  <2>4. c \in Calls /\ o \in Outcomes  BY <1>1
  <2>5. Audited!Next  BY <2>3, <2>4 DEF Audited!Next
  <2> QED BY <1>7, <2>5
<1>9. CASE id = "unrecorded" /\ UNCHANGED log
  <2>1. answer' = [answer EXCEPT ![c] = Audited!Answer("unrecorded", o)]
    BY <1>2, <1>9 DEF Answer, Audited!Answer
  <2>2. UNCHANGED CallsIn(log)  BY <1>9
  <2> HIDE DEF c, o
  <2>3. Audited!AnswerUnrecorded(c, o)  BY <1>1, <2>1, <2>2 DEF Audited!AnswerUnrecorded
  <2>4. c \in Calls /\ o \in Outcomes  BY <1>1
  <2>5. Audited!Next  BY <2>3, <2>4 DEF Audited!Next
  <2> QED BY <1>7, <2>5
<1> QED BY <1>8, <1>9

\* The process ends, and the append under way may be done.
LEMMA ExitSteps ==
    ASSUME CallsInv, Exit
    PROVE  AnsweredOnce' /\ [Audited!Next]_Mapped
<1>1. process = "serving" /\ process' = "ended" /\ UNCHANGED answer  BY DEF Exit
<1>2. AnsweredOnce'  BY <1>1 DEF AnsweredOnce
<1>3. CASE UNCHANGED log
  BY <1>1, <1>3, <1>2 DEF Mapped
<1>4. CASE writeQueue # <<>> /\ log' = Append(log, Head(writeQueue))
  <2> DEFINE rec == Head(writeQueue)
             c == rec.call
             o == calls[c].outcome
  <2>1. /\ log \in Seq(RecordType) /\ writeQueue \in Seq(RecordType)
    BY TypeOKIs DEF CallsInv, TypeInv
  <2>2. rec \in RecordType  BY <1>4, <2>1, QueueHead
  <2>3. CASE rec.type = "call"
    <3>1. c \in Calls /\ o \in Outcomes /\ Audited!Open(c)  BY <1>1, <1>4, <2>3, HeadIsOpen
    <3>2. CallsIn(log)' = Append(CallsIn(log), Audited!CallRecord(c, o))
      BY <1>1, <1>4, <2>3, HeadIsRecorded
    <3> HIDE DEF c, o
    <3>3. Audited!RecordCall(c, o)  BY <1>1, <3>1, <3>2 DEF Audited!RecordCall
    <3> QED BY <1>2, <3>1, <3>3 DEF Audited!Next
  <2>4. CASE rec.type # "call"
    <3>1. CallsIn(log') = CallsIn(log)  BY <1>4, <2>1, <2>2, <2>4, CallsInAppend
    <3> QED BY <1>1, <1>2, <3>1 DEF Mapped
  <2> QED BY <2>3, <2>4
<1> QED BY <1>3, <1>4 DEF Exit

\* A refresh begins to check tools, or goes on when its record is settled.
LEMMA ChecksSteps ==
    ASSUME CallsInv, NEW r \in Refreshes, RefreshArrives(r)
    PROVE  AnsweredOnce' /\ UNCHANGED Mapped
<1> DEFINE tools == refreshes[r].todo
<1>1. /\ process # "ended" /\ checkToolIntegrity(r, tools, writeQueue)
      /\ UNCHANGED <<calls, answer, log>>
  BY DEF RefreshArrives, clients
<1>2. /\ TypeOK /\ tools \in Listings /\ writeQueue \in Seq(RecordType)
      /\ OutcomesTold(writeQueue, calls)
  BY <1>1, AnsweredOnceIs, TypeOKIs, PlaceTypes DEF CallsInv, TypeInv
<1> HIDE DEF tools
<1>3. OutcomesTold(writeQueue', calls)
  BY <1>1, <1>2, CheckAppends, OutcomesToldDrift
<1> QED BY <1>1, <1>3, UnseenSteps

LEMMA DriftRecordedSteps ==
    ASSUME CallsInv, DriftRecorded
    PROVE  AnsweredOnce' /\ UNCHANGED Mapped
<1> DEFINE rec == Head(writeQueue)
           r == rec.refresh
           tools == refreshes[r].todo
           queue == Tail(writeQueue)
<1>1. /\ process # "ended" /\ writeQueue # <<>> /\ rec.type = "tool_drift"
      /\ log' = Append(log, rec) /\ checkToolIntegrity(r, tools, queue)
      /\ UNCHANGED <<calls, answer>>
  BY DEF DriftRecorded, Writing, clients
<1>2. /\ TypeOK /\ writeQueue \in Seq(RecordType) /\ OutcomesTold(writeQueue, calls)
  BY <1>1, AnsweredOnceIs, TypeOKIs DEF CallsInv, TypeInv
<1>3. rec \in RecordType /\ queue \in Seq(RecordType)  BY <1>1, <1>2, QueueHead
<1>4. r \in Refreshes /\ tools \in Listings
  BY <1>1, <1>2, <1>3, RecordTypes, TypeOKIs, PlaceTypes
<1>5. OutcomesTold(queue, calls)  BY <1>1, <1>2, OutcomesToldTail
<1> HIDE DEF rec, r, tools, queue
<1>6. OutcomesTold(writeQueue', calls)
  BY <1>1, <1>2, <1>3, <1>4, <1>5, CheckAppends, OutcomesToldDrift
<1> QED BY <1>1, <1>3, <1>6, UnseenSteps

\* Every step keeps the invariant and is one of AuditedCalls, or stutters there.
LEMMA StepsAudited ==
    CallsInv /\ [Next]_vars => AnsweredOnce' /\ [Audited!Next]_Mapped
<1> SUFFICES ASSUME CallsInv, [Next]_vars PROVE AnsweredOnce' /\ [Audited!Next]_Mapped
  OBVIOUS
<1>1. CASE UNCHANGED vars
  BY <1>1, AnsweredOnceIs DEF CallsInv, Mapped, vars, clients, audit
<1>2. ASSUME process # "ended", UNCHANGED <<clients, audit>>
      PROVE  AnsweredOnce' /\ UNCHANGED Mapped
  <2>1. UNCHANGED <<calls, answer, log, writeQueue>>  BY <1>2 DEF clients, audit
  <2>2. OutcomesTold(writeQueue', calls)
    BY <1>2, <2>1, AnsweredOnceIs DEF CallsInv
  <2> QED BY <1>2, <2>1, <2>2, UnseenSteps
<1>3. CASE \/ ServerChanges \/ connectUpstream \/ \E S \in SUBSET Tools : Accept(S)
           \/ \E r \in Refreshes : RefreshListed(r)
  BY <1>2, <1>3 DEF ServerChanges, connectUpstream, Accept, RefreshListed
<1>4. CASE rebaselineAll \/ \E t \in Tools : rebaselineTool(t)
  <2>1. driftedTools \in SUBSET Tools /\ \A t \in Tools : {t} \in SUBSET Tools
    BY TypeOKIs DEF CallsInv, TypeInv
  <2> QED BY <1>3, <1>4, <2>1 DEF rebaselineAll, rebaselineTool
<1>5. CASE \E r \in Refreshes : Refreshing(r)
  BY <1>3, <1>5, ChecksSteps DEF Refreshing
<1>6. CASE \/ \E c \in Calls, t \in Tools : Calling(c, t)
           \/ \E c \in Calls : UpstreamEnds(c)
  BY <1>6, CallingSteps, UpstreamEndsSteps
<1>7. CASE CallRecorded
  <2>1. /\ process # "ended" /\ writeQueue # <<>> /\ Head(writeQueue).type = "call"
        /\ log' = Append(log, Head(writeQueue)) /\ writeQueue' = Tail(writeQueue)
        /\ Answers(Head(writeQueue).call, "recorded")
    BY <1>7 DEF CallRecorded, Writing
  <2> QED BY <2>1, AnswersSteps
<1>8. CASE CallUnrecorded
  <2>1. /\ process # "ended" /\ writeQueue # <<>> /\ Head(writeQueue).type = "call"
        /\ UNCHANGED log /\ writeQueue' = Tail(writeQueue)
        /\ Answers(Head(writeQueue).call, "unrecorded")
    BY <1>8 DEF CallUnrecorded, Writing, Unattested
  <2> QED BY <2>1, AnswersSteps
<1>9. CASE DriftRecorded  BY <1>9, DriftRecordedSteps
<1>10. CASE DriftUnrecorded
  <2>1. /\ process # "ended" /\ writeQueue # <<>> /\ writeQueue' = Tail(writeQueue)
        /\ UNCHANGED <<calls, answer, log>>
    BY <1>10 DEF DriftUnrecorded, Writing, clients
  <2>2. writeQueue \in Seq(RecordType) /\ OutcomesTold(writeQueue, calls)
    BY <2>1, AnsweredOnceIs, TypeOKIs DEF CallsInv, TypeInv
  <2>3. OutcomesTold(writeQueue', calls)  BY <2>1, <2>2, OutcomesToldTail
  <2> QED BY <2>1, <2>3, UnseenSteps
<1>11. CASE Exit  BY <1>11, ExitSteps
<1>12. CASE Finished  BY <1>1, <1>12 DEF Finished
<1> QED BY <1>1, <1>3, <1>4, <1>5, <1>6, <1>7, <1>8, <1>9, <1>10, <1>11, <1>12
        DEF Next, Settling

\* At the start there is neither a record nor an answer.
LEMMA InitAudited == Init => AnsweredOnce /\ Audited!Init
<1> SUFFICES ASSUME Init PROVE AnsweredOnce /\ Audited!Init  OBVIOUS
<1>1. /\ log = <<>> /\ writeQueue = <<>> /\ answer = [c \in Calls |-> NoAnswer]
  BY DEF Init
<1>2. AnsweredOnce  BY <1>1 DEF AnsweredOnce, Unwritten
<1>3. CallsIn(log) = <<>>
  <2>1. {i \in DOMAIN log : log[i].type = "call"} = {}  BY <1>1
  <2>2. InOrder(log, {i \in DOMAIN log : log[i].type = "call"}) = <<>>
    BY <2>1, SelectNone
  <2> DEFINE told == InOrder(log, {i \in DOMAIN log : log[i].type = "call"})
  <2>3. CallsIn(log) =
           [i \in DOMAIN told |-> [call |-> told[i].call, outcome |-> told[i].outcome]]
    BY DEF CallsIn
  <2>4. told = <<>>  BY <2>2
  <2> HIDE DEF told
  <2> QED BY <2>3, <2>4
<1>4. Audited!Init  BY <1>1, <1>3 DEF Audited!Init, Audited!NoAnswer, NoAnswer
<1> QED BY <1>2, <1>4

\* The gateway implements AuditedCalls, whatever refreshes wait for the log
\* among the calls, whichever writes fail and whenever the process ends: the
\* log never has two records of a call, and an answer names a record exactly
\* when there is one, with the outcome it tells.
THEOREM CallsAreAudited == Spec => ImplementsAuditedCalls
<1>1. Init => TypeInv  BY InitTypes
<1>2. TypeInv /\ [Next]_vars => TypeInv'  BY NextTypes
<1>3. Init => AnsweredOnce /\ Audited!Init  BY InitAudited
<1>4. TypeInv /\ AnsweredOnce /\ [Next]_vars =>
         AnsweredOnce' /\ [Audited!Next]_<<CallsIn(log), answer>>
  BY StepsAudited DEF CallsInv, Mapped
<1> QED BY <1>1, <1>2, <1>3, <1>4, PTL DEF Spec, ImplementsAuditedCalls, Audited!Spec


-----------------------------------------------------------------------------
(* Refreshes and their records in the queue of the log                     *)

\* The part of RefreshesWait about a queue and the places of refreshes.
RefreshesMatch(queue, places) ==
    \A i \in DOMAIN queue : queue[i].type = "tool_drift" =>
        /\ places[queue[i].refresh].at = "recording"
        /\ \A j \in DOMAIN queue :
              queue[j].type = "tool_drift" /\ i # j => queue[j].refresh # queue[i].refresh

\* No drift record of r waits in the queue.
Idle(r, queue) ==
    \A i \in DOMAIN queue : queue[i].type = "tool_drift" => queue[i].refresh # r

RetriesLost(places, gone) == \A r \in Refreshes : places[r].at = "retry" => gone # {}

LEMMA RefreshesWaitIs ==
    /\ RefreshesWait <=> RetriesLost(refreshes, lost) /\ RefreshesMatch(writeQueue, refreshes)
    /\ RefreshesWait' <=>
          RetriesLost(refreshes', lost') /\ RefreshesMatch(writeQueue', refreshes')
  BY DEF RefreshesWait, RetriesLost, RefreshesMatch

\* A refresh that does not wait for the log has no record there.
LEMMA NotRecordingIdle ==
    ASSUME NEW queue, NEW places, NEW r, places[r].at # "recording",
           RefreshesMatch(queue, places)
    PROVE  Idle(r, queue)
  BY DEF RefreshesMatch, Idle

\* A refresh without a record in the queue may go anywhere.
LEMMA IdleMoves ==
    ASSUME NEW queue \in Seq(RecordType), NEW places \in [Refreshes -> RefreshType],
           NEW r \in Refreshes, Idle(r, queue), RefreshesMatch(queue, places), NEW place
    PROVE  RefreshesMatch(queue, [places EXCEPT ![r] = place])
<1> DEFINE after == [places EXCEPT ![r] = place]
<1>1. \A q \in Refreshes : q # r => after[q] = places[q]  OBVIOUS
<1>2. \A i \in DOMAIN queue : queue[i].type = "tool_drift" =>
         queue[i].refresh \in Refreshes /\ queue[i].refresh # r
  BY QueueAppend, RecordTypes DEF Idle
<1> HIDE DEF after
<1>3. RefreshesMatch(queue, after)  BY <1>1, <1>2 DEF RefreshesMatch
<1> QED BY <1>3 DEF after

\* A call at the end of the queue is no record of a refresh.
LEMMA RefreshesMatchCall ==
    ASSUME NEW queue \in Seq(RecordType), NEW places, NEW rec \in RecordType,
           rec.type = "call", RefreshesMatch(queue, places)
    PROVE  RefreshesMatch(Append(queue, rec), places)
<1> DEFINE longer == Append(queue, rec)
<1>1. \A i \in DOMAIN longer : longer[i].type = "tool_drift" =>
         i \in DOMAIN queue /\ longer[i] = queue[i]
  BY QueueAppend
<1> HIDE DEF longer
<1>2. RefreshesMatch(longer, places)  BY <1>1 DEF RefreshesMatch
<1> QED BY <1>2 DEF longer

\* A refresh that finds a drift comes into the queue once.
LEMMA RefreshesMatchDrift ==
    ASSUME NEW queue \in Seq(RecordType), NEW places \in [Refreshes -> RefreshType],
           NEW r \in Refreshes, places[r].at = "recording", Idle(r, queue),
           NEW rec \in RecordType, rec.type = "tool_drift", rec.refresh = r,
           RefreshesMatch(queue, places)
    PROVE  RefreshesMatch(Append(queue, rec), places)
<1> DEFINE longer == Append(queue, rec)
<1>1. \A i \in DOMAIN longer :
         \/ i \in DOMAIN queue /\ longer[i] = queue[i]
         \/ i = Len(queue) + 1 /\ longer[i] = rec
  BY QueueAppend
<1> HIDE DEF longer
<1>2. \A i \in DOMAIN longer : longer[i].type = "tool_drift" =>
         places[longer[i].refresh].at = "recording"
  BY <1>1 DEF RefreshesMatch
<1>3. ASSUME NEW i \in DOMAIN longer, NEW j \in DOMAIN longer, i # j,
             longer[i].type = "tool_drift", longer[j].type = "tool_drift"
      PROVE  longer[j].refresh # longer[i].refresh
  <2>1. CASE i \in DOMAIN queue /\ j \in DOMAIN queue /\ longer[i] = queue[i] /\ longer[j] = queue[j]
    BY <1>3, <2>1 DEF RefreshesMatch
  <2> QED BY <1>1, <1>3, <2>1 DEF Idle
<1>4. RefreshesMatch(longer, places)  BY <1>2, <1>3 DEF RefreshesMatch
<1> QED BY <1>4 DEF longer

\* The rest of the queue, when its first record is settled.
LEMMA RefreshesMatchTail ==
    ASSUME NEW queue \in Seq(RecordType), queue # <<>>, NEW places,
           RefreshesMatch(queue, places)
    PROVE  /\ RefreshesMatch(Tail(queue), places)
           /\ Head(queue).type = "tool_drift" =>
                 /\ places[Head(queue).refresh].at = "recording"
                 /\ Idle(Head(queue).refresh, Tail(queue))
  BY QueueHead DEF RefreshesMatch, Idle

-----------------------------------------------------------------------------
(* A turn of the loop of checkToolIntegrity                                *)

\* Refreshes keep in step with the queue.
LEMMA CheckWaits ==
    ASSUME TypeOK, NEW r \in Refreshes, NEW tools \in Listings,
           NEW queue \in Seq(RecordType), checkToolIntegrity(r, tools, queue),
           Idle(r, queue), RefreshesMatch(queue, refreshes),
           RetriesLost(refreshes, lost), UNCHANGED lost
    PROVE  RefreshesWait'
<1>1. refreshes \in [Refreshes -> RefreshType] /\ baselines \in [Tools -> Digests \cup {NoDef}]
  BY TypeOKIs
<1>2. CASE CheckEnds(r, tools, queue)
  <2> DEFINE place == RefreshAt("done", Nothing)
  <2>1. refreshes' = [refreshes EXCEPT ![r] = place] /\ writeQueue' = queue
    BY <1>2 DEF CheckEnds
  <2>2. place.at = "done"  BY DEF RefreshAt
  <2> HIDE DEF place
  <2>3. RefreshesMatch(writeQueue', refreshes')  BY <1>1, <2>1, IdleMoves
  <2>4. RetriesLost(refreshes', lost')  BY <1>1, <2>1, <2>2 DEF RetriesLost
  <2> QED BY <2>3, <2>4, RefreshesWaitIs
<1>3. ASSUME NEW t \in Drifting(tools), NEW passed, CheckFinds(r, tools, queue, passed, t)
      PROVE  RefreshesWait'
  <2> DEFINE place == RefreshAt("recording", Without(tools, passed \cup {t}))
             rec == DriftRecord(r, t, baselines[t], computeDigest(tools[t]))
  <2>1. t \in Tools /\ tools[t] \in Defs /\ baselines[t] \in Digests
    BY <1>1, ListingIs DEF Drifting, Drifts
  <2>2. rec \in RecordType /\ rec.type = "tool_drift" /\ rec.refresh = r
    BY <2>1, RecordTypes, DigestType DEF DriftRecord
  <2>3. place.at = "recording" /\ place \in RefreshType
    BY PlaceTypes, ListingTypes DEF RefreshAt, Places
  <2>4. refreshes' = [refreshes EXCEPT ![r] = place] /\ writeQueue' = Append(queue, rec)
    BY <1>3 DEF CheckFinds
  <2> HIDE DEF place, rec
  <2>5. RefreshesMatch(queue, refreshes')  BY <1>1, <2>4, IdleMoves
  <2>6. refreshes' \in [Refreshes -> RefreshType] /\ refreshes'[r].at = "recording"
    BY <1>1, <2>3, <2>4
  <2>7. RefreshesMatch(writeQueue', refreshes')
    BY <2>2, <2>4, <2>5, <2>6, RefreshesMatchDrift
  <2>8. RetriesLost(refreshes', lost')  BY <1>1, <2>3, <2>4 DEF RetriesLost
  <2> QED BY <2>7, <2>8, RefreshesWaitIs
<1> QED BY <1>2, <1>3 DEF checkToolIntegrity

-----------------------------------------------------------------------------
(* What the loop does to the definitions it comes to                       *)

WatchInv == action # "disabled" => CatalogWatched /\ BaselineWatched /\ CheckedIsKnown

\* checkAndUpdate of a set of tools none of which drifts, and of some that are
\* flagged as well.
LEMMA CheckSet ==
    ASSUME TypeOK, BaselineWatched, CheckedIsKnown, NEW tools \in Listings,
           NEW S \in SUBSET DOMAIN tools, Check(tools, S),
           driftedTools \subseteq driftedTools',
           \A t \in S : Drifts(tools, t) => t \in driftedTools'
    PROVE  /\ \A t \in S : /\ tools[t] \in approved'[t] \/ t \in driftedTools'
                           /\ baselines'[t] # NoDef
           /\ \A t \in Tools \ S : baselines'[t] = baselines[t]
           /\ \A t \in Tools : approved[t] \subseteq approved'[t]
           /\ \A t \in Tools : baselines'[t] = NoDef => baselines[t] = NoDef /\ approved'[t] = {}
           /\ BaselineWatched'
<1>1. /\ baselines \in [Tools -> Digests \cup {NoDef}] /\ approved \in [Tools -> SUBSET Defs]
      /\ S \subseteq Tools /\ \A t \in S : tools[t] \in Defs
  BY TypeOKIs, ListingIs
<1>2. /\ \A t \in S : baselines'[t] = computeDigest(tools[t])
      /\ \A t \in Tools \ S : baselines'[t] = baselines[t] /\ approved'[t] = approved[t]
      /\ \A t \in S : baselines[t] = NoDef => approved'[t] = {tools[t]}
      /\ \A t \in S : baselines[t] # NoDef => approved'[t] = approved[t]
  BY <1>1 DEF Check, Updated
<1>3. \A t \in Tools : baselines[t] = NoDef => approved[t] = {}  BY DEF CheckedIsKnown
<1>4. \A t \in S : baselines'[t] # NoDef  BY <1>1, <1>2, DigestType
<1>5. \A t \in S : tools[t] \in approved'[t] \/ t \in driftedTools'
  <2> SUFFICES ASSUME NEW t \in S PROVE tools[t] \in approved'[t] \/ t \in driftedTools'
    OBVIOUS
  <2>1. CASE baselines[t] = NoDef  BY <1>2, <2>1
  <2>2. CASE baselines[t] = computeDigest(tools[t]) /\ baselines[t] # NoDef
    BY <1>1, <1>2, <2>2 DEF BaselineWatched
  <2>3. CASE Drifts(tools, t)  BY <2>3
  <2> QED BY <2>1, <2>2, <2>3 DEF Drifts
<1>6. \A t \in Tools : approved[t] \subseteq approved'[t]  BY <1>2, <1>3
<1>7. BaselineWatched'
  <2> SUFFICES ASSUME NEW t \in Tools, NEW d \in Defs, baselines'[t] = computeDigest(d)
               PROVE  d \in approved'[t] \/ t \in driftedTools'
    BY DEF BaselineWatched, computeDigest
  <2>1. CASE t \in S
    <3>1. d = tools[t]  BY <1>1, <1>2, <2>1, DigestType
    <3> QED BY <1>5, <2>1, <3>1
  <2>2. CASE t \notin S  BY <1>2, <2>2 DEF BaselineWatched
  <2> QED BY <2>1, <2>2
<1>8. \A t \in Tools : baselines'[t] = NoDef => baselines[t] = NoDef /\ approved'[t] = {}
  BY <1>2, <1>3, <1>4
<1> QED BY <1>2, <1>4, <1>5, <1>6, <1>7, <1>8

\* Each tool of the list is accepted or flagged, or is left for later.
LEMMA CheckWatches ==
    ASSUME TypeOK, BaselineWatched, CheckedIsKnown, action # "disabled",
           NEW r \in Refreshes, NEW tools \in Listings, NEW queue,
           checkToolIntegrity(r, tools, queue)
    PROVE  /\ \A t \in DOMAIN tools :
                 \/ tools[t] \in approved'[t] \/ t \in driftedTools'
                 \/ /\ refreshes'[r].at = "recording"
                    /\ t \in DOMAIN refreshes'[r].todo /\ refreshes'[r].todo[t] = tools[t]
           /\ \A q \in Refreshes : q # r => refreshes'[q] = refreshes[q]
           /\ refreshes'[r].at = "recording" => DOMAIN refreshes'[r].todo \subseteq DOMAIN tools
           /\ driftedTools \subseteq driftedTools'
           /\ \A t \in driftedTools' : baselines'[t] # NoDef
           /\ \A t \in Tools : approved[t] \subseteq approved'[t]
           /\ \A t \in Tools : baselines'[t] = NoDef => approved'[t] = {}
           /\ \A t \in Tools : baselines'[t] # NoDef => baselines[t] # NoDef \/ t \in DOMAIN tools
           /\ BaselineWatched'
<1>1. /\ refreshes \in [Refreshes -> RefreshType] /\ driftedTools \subseteq Tools
      /\ DOMAIN tools \subseteq Tools
  BY TypeOKIs, ListingIs
<1>2. \A t \in driftedTools : baselines[t] # NoDef  BY <1>1 DEF CheckedIsKnown
<1>3. CASE CheckEnds(r, tools, queue)
  <2> DEFINE place == RefreshAt("done", Nothing)
  <2>1. /\ Drifting(tools) = {} /\ Check(tools, DOMAIN tools)
        /\ refreshes' = [refreshes EXCEPT ![r] = place] /\ UNCHANGED driftedTools
    BY <1>3 DEF CheckEnds, Enabled
  <2>2. place.at = "done"  BY DEF RefreshAt
  <2> HIDE DEF place
  <2>3. \A t \in DOMAIN tools : ~Drifts(tools, t)  BY <2>1 DEF Drifting
  <2>4. /\ \A t \in DOMAIN tools : tools[t] \in approved'[t] \/ t \in driftedTools'
        /\ \A t \in DOMAIN tools : baselines'[t] # NoDef
        /\ \A t \in Tools \ DOMAIN tools : baselines'[t] = baselines[t]
        /\ \A t \in Tools : approved[t] \subseteq approved'[t]
        /\ \A t \in Tools : baselines'[t] = NoDef => baselines[t] = NoDef /\ approved'[t] = {}
        /\ BaselineWatched'
    BY <2>1, <2>3, CheckSet
  <2>5. refreshes'[r].at # "recording" /\ \A q \in Refreshes : q # r => refreshes'[q] = refreshes[q]
    BY <1>1, <2>1, <2>2
  <2> QED BY <1>1, <1>2, <2>1, <2>4, <2>5
<1>4. ASSUME NEW t0 \in Drifting(tools), NEW passed \in SUBSET (DOMAIN tools \ Drifting(tools)),
             CheckFinds(r, tools, queue, passed, t0)
      PROVE  /\ \A t \in DOMAIN tools :
                   \/ tools[t] \in approved'[t] \/ t \in driftedTools'
                   \/ /\ refreshes'[r].at = "recording"
                      /\ t \in DOMAIN refreshes'[r].todo /\ refreshes'[r].todo[t] = tools[t]
             /\ \A q \in Refreshes : q # r => refreshes'[q] = refreshes[q]
             /\ refreshes'[r].at = "recording" => DOMAIN refreshes'[r].todo \subseteq DOMAIN tools
             /\ driftedTools \subseteq driftedTools'
             /\ \A t \in driftedTools' : baselines'[t] # NoDef
             /\ \A t \in Tools : approved[t] \subseteq approved'[t]
             /\ \A t \in Tools : baselines'[t] = NoDef => approved'[t] = {}
             /\ \A t \in Tools : baselines'[t] # NoDef => baselines[t] # NoDef \/ t \in DOMAIN tools
             /\ BaselineWatched'
  <2>1. /\ Check(tools, passed \cup {t0}) /\ driftedTools' = driftedTools \cup {t0}
        /\ refreshes' = [refreshes EXCEPT ![r] =
                            RefreshAt("recording", Without(tools, passed \cup {t0}))]
    BY <1>4 DEF CheckFinds, Flag
  <2>2. /\ t0 \in DOMAIN tools /\ passed \cup {t0} \in SUBSET DOMAIN tools
        /\ \A t \in passed : ~Drifts(tools, t)
    BY DEF Drifting
  <2>3. \A t \in passed \cup {t0} : Drifts(tools, t) => t \in driftedTools'  BY <2>1, <2>2
  <2>4. driftedTools \subseteq driftedTools'  BY <2>1
  <2>5. /\ \A t \in passed \cup {t0} : /\ tools[t] \in approved'[t] \/ t \in driftedTools'
                                       /\ baselines'[t] # NoDef
        /\ \A t \in Tools \ (passed \cup {t0}) : baselines'[t] = baselines[t]
        /\ \A t \in Tools : approved[t] \subseteq approved'[t]
        /\ \A t \in Tools : baselines'[t] = NoDef => baselines[t] = NoDef /\ approved'[t] = {}
        /\ BaselineWatched'
    BY <2>1, <2>2, <2>3, <2>4, CheckSet
  <2>6. /\ refreshes'[r] = RefreshAt("recording", Without(tools, passed \cup {t0}))
        /\ \A q \in Refreshes : q # r => refreshes'[q] = refreshes[q]
    BY <1>1, <2>1
  <2>7. /\ refreshes'[r].at = "recording"
        /\ refreshes'[r].todo = [t \in DOMAIN tools \ (passed \cup {t0}) |-> tools[t]]
    BY <2>6 DEF RefreshAt, Without
  <2>8. \A t \in DOMAIN tools :
           \/ tools[t] \in approved'[t] \/ t \in driftedTools'
           \/ /\ refreshes'[r].at = "recording"
              /\ t \in DOMAIN refreshes'[r].todo /\ refreshes'[r].todo[t] = tools[t]
    BY <2>5, <2>7
  <2>9. \A t \in driftedTools' : baselines'[t] # NoDef
    BY <1>1, <1>2, <2>1, <2>2, <2>5
  <2>10. \A t \in Tools : baselines'[t] # NoDef => baselines[t] # NoDef \/ t \in DOMAIN tools
    BY <2>2, <2>5
  <2> QED BY <2>4, <2>5, <2>6, <2>7, <2>8, <2>9, <2>10
<1> QED BY <1>3, <1>4 DEF checkToolIntegrity

-----------------------------------------------------------------------------
(* The steps                                                               *)

LEMMA DriftInvIs ==
    /\ DriftInv <=> TypeInv /\ RefreshesWait /\ WatchInv
    /\ DriftInv' <=> TypeInv' /\ RefreshesWait' /\ WatchInv'
  BY DEF DriftInv, TypeInv, WatchInv

LEMMA InitDrift == Init => DriftInv
<1> SUFFICES ASSUME Init PROVE DriftInv  OBVIOUS
<1>1. TypeInv  BY InitTypes
<1>2. RefreshesWait  BY DEF Init, RefreshesWait, RefreshAt
<1>3. /\ toolCatalog = [t \in Tools |-> NoDef] /\ baselines = [t \in Tools |-> NoDef]
      /\ baselines = NoTools /\ driftedTools = {} /\ approved = [t \in Tools |-> {}]
      /\ \A r \in Refreshes : refreshes[r].at = "new"
  BY DEF Init, NoTools, RefreshAt
<1>4. CatalogWatched  BY <1>3 DEF CatalogWatched, Known
<1>5. BaselineWatched  BY <1>3, DigestType DEF BaselineWatched
<1>6. CheckedIsKnown  BY <1>3 DEF CheckedIsKnown
<1> QED BY <1>1, <1>2, <1>4, <1>5, <1>6, DriftInvIs DEF WatchInv

\* What leaves the catalog, the monitor and the refreshes alone.
LEMMA SameWatch ==
    ASSUME WatchInv,
           UNCHANGED <<action, process, toolCatalog, baselines, driftedTools, approved,
                       refreshes, lost, delisted>>
    PROVE  WatchInv'
<1>1. CASE action = "disabled"  BY <1>1 DEF WatchInv
<1>2. CASE action # "disabled"
  <2>1. CatalogWatched'  BY <1>2 DEF WatchInv, CatalogWatched, Known, WillCheck, Dropped
  <2>2. BaselineWatched'  BY <1>2 DEF WatchInv, BaselineWatched, computeDigest
  <2>3. CheckedIsKnown'  BY <1>2 DEF WatchInv, CheckedIsKnown, Known, NoTools
  <2> QED BY <2>1, <2>2, <2>3 DEF WatchInv
<1> QED BY <1>1, <1>2

\* What leaves the refreshes and the queue alone.
LEMMA SameRefreshes ==
    ASSUME RefreshesWait, UNCHANGED <<refreshes, writeQueue, lost>>
    PROVE  RefreshesWait'
  BY DEF RefreshesWait

\* The steps of calls.
LEMMA ConcludeDrift ==
    ASSUME TypeInv, RefreshesWait, WatchInv, NEW c \in Calls, NEW t \in Tools,
           NEW o \in Outcomes, Conclude(c, t, o),
           UNCHANGED <<action, process, monitor, listing, lost>>
    PROVE  RefreshesWait' /\ WatchInv'
<1>1. WatchInv'  BY SameWatch DEF monitor, listing
<1>2. writeQueue \in Seq(RecordType)  BY TypeOKIs DEF TypeInv
<1> DEFINE rec == CallRecord(c, t, o)
<1>3. rec \in RecordType /\ rec.type = "call"  BY RecordTypes DEF CallRecord
<1>4. writeQueue' = Append(writeQueue, rec) /\ UNCHANGED <<refreshes, lost>>
  BY DEF Conclude, listing
<1> HIDE DEF rec
<1>5. RefreshesMatch(writeQueue', refreshes) /\ RetriesLost(refreshes, lost)
  BY <1>2, <1>3, <1>4, RefreshesWaitIs, RefreshesMatchCall
<1>6. RefreshesWait'  BY <1>4, <1>5, RefreshesWaitIs
<1> QED BY <1>1, <1>6

LEMMA CallsDrift ==
    ASSUME TypeInv, RefreshesWait, WatchInv,
           \/ \E c \in Calls, t \in Tools : Calling(c, t)
           \/ \E c \in Calls : UpstreamEnds(c)
    PROVE  RefreshesWait' /\ WatchInv'
<1>1. ASSUME NEW c \in Calls, NEW t \in Tools, Calling(c, t) PROVE RefreshesWait' /\ WatchInv'
  <2>1. UNCHANGED <<action, process, monitor, listing, lost>>
    BY <1>1 DEF Calling, CallUnknown, CallBlocked, CallDenied, CallForwarded, CallArrives
  <2>2. CASE CallForwarded(c, t)
    <3>1. UNCHANGED writeQueue  BY <2>2 DEF CallForwarded
    <3> QED BY <2>1, <3>1, SameWatch, SameRefreshes DEF monitor, listing
  <2>3. ASSUME NEW o \in Outcomes, Conclude(c, t, o) PROVE RefreshesWait' /\ WatchInv'
    BY <2>1, <2>3, ConcludeDrift
  <2> QED BY <1>1, <2>2, <2>3
          DEF Calling, CallUnknown, CallBlocked, CallDenied, Outcomes, Refusals
<1>2. ASSUME NEW c \in Calls, UpstreamEnds(c) PROVE RefreshesWait' /\ WatchInv'
  <2>1. calls[c].tool \in Tools  BY <1>2, TypeOKIs, PlaceTypes DEF TypeInv, UpstreamEnds
  <2>2. PICK o \in {"ok", "error"} : Conclude(c, calls[c].tool, o)  BY <1>2 DEF UpstreamEnds
  <2>3. o \in Outcomes /\ UNCHANGED <<action, process, monitor, listing, lost>>
    BY <1>2 DEF UpstreamEnds, Outcomes
  <2> QED BY <2>1, <2>2, <2>3, ConcludeDrift
<1> QED BY <1>1, <1>2

LEMMA CallSettledDrift ==
    ASSUME TypeInv, RefreshesWait, WatchInv, CallRecorded \/ CallUnrecorded
    PROVE  RefreshesWait' /\ WatchInv'
<1>1. /\ writeQueue # <<>> /\ writeQueue' = Tail(writeQueue)
      /\ UNCHANGED <<action, process, monitor, listing, lost>>
  BY DEF CallRecorded, CallUnrecorded, Writing
<1>2. writeQueue \in Seq(RecordType)  BY TypeOKIs DEF TypeInv
<1>3. RefreshesWait'
  <2>1. RefreshesMatch(Tail(writeQueue), refreshes) /\ RetriesLost(refreshes, lost)
    BY <1>1, <1>2, RefreshesWaitIs, RefreshesMatchTail
  <2> QED BY <1>1, <2>1, RefreshesWaitIs DEF listing
<1>4. WatchInv'  BY <1>1, SameWatch DEF monitor, listing
<1> QED BY <1>3, <1>4

\* The first listing finds nothing checked.
LEMMA connectUpstreamDrift ==
    ASSUME TypeInv, RefreshesWait, WatchInv, connectUpstream
    PROVE  RefreshesWait' /\ WatchInv'
<1>1. /\ process = "starting" /\ process' = "serving"
      /\ UNCHANGED <<action, driftedTools, refreshes, writeQueue, lost, delisted>>
  BY DEF connectUpstream, listing, audit
<1>2. RefreshesWait'  BY <1>1, SameRefreshes
<1>3. WatchInv'
  <2> SUFFICES ASSUME action # "disabled"
               PROVE  CatalogWatched' /\ BaselineWatched' /\ CheckedIsKnown'
    BY <1>1 DEF WatchInv
  <2>1. CatalogWatched /\ BaselineWatched /\ CheckedIsKnown  BY DEF WatchInv
  <2>2. CASE UNCHANGED <<toolCatalog, baselines, approved>>
    <3>1. CatalogWatched'  BY <1>1, <2>1, <2>2 DEF CatalogWatched, Known, WillCheck, Dropped
    <3>2. BaselineWatched'  BY <1>1, <2>1, <2>2 DEF BaselineWatched, computeDigest
    <3>3. CheckedIsKnown'  BY <1>1, <2>1, <2>2 DEF CheckedIsKnown, Known
    <3> QED BY <3>1, <3>2, <3>3
  <2>3. CASE registerUpstreamTools(Listed) /\ Check(Listed, IF Enabled THEN DOMAIN Listed ELSE {})
    <3>1. Listed \in Listings  BY TypeOKIs, ListingTypes DEF TypeInv
    <3>2. /\ toolCatalog \in [Tools -> Defs \cup {NoDef}]
          /\ \A t \in Tools : baselines[t] = NoDef /\ approved[t] = {}
      BY <1>1, <2>1 DEF CheckedIsKnown, NoTools, TypeInv, TypeOK
    <3> DEFINE tools == Listed
    <3>3. /\ tools \in Listings /\ Check(tools, DOMAIN tools)
          /\ toolCatalog' = [t \in Tools |-> IF t \in DOMAIN tools THEN tools[t] ELSE toolCatalog[t]]
      BY <2>3, <3>1 DEF Enabled, registerUpstreamTools
    <3> HIDE DEF tools
    <3>4. DOMAIN tools \subseteq Tools /\ \A t \in DOMAIN tools : tools[t] \in Defs
      BY <3>3, ListingIs
    <3>5. \A t \in DOMAIN tools : ~Drifts(tools, t)  BY <3>2, <3>4 DEF Drifts
    <3>6. /\ \A t \in DOMAIN tools : /\ tools[t] \in approved'[t] \/ t \in driftedTools'
                                     /\ baselines'[t] # NoDef
          /\ \A t \in Tools \ DOMAIN tools : baselines'[t] = baselines[t]
          /\ \A t \in Tools : approved[t] \subseteq approved'[t]
          /\ \A t \in Tools : baselines'[t] = NoDef => baselines[t] = NoDef /\ approved'[t] = {}
          /\ BaselineWatched'
      BY <1>1, <2>1, <3>3, <3>5, CheckSet DEF TypeInv
    <3>7. /\ \A t \in DOMAIN tools : toolCatalog'[t] = tools[t] /\ toolCatalog'[t] # NoDef
          /\ \A t \in Tools \ DOMAIN tools : toolCatalog'[t] = toolCatalog[t]
      BY <3>3, <3>4, DigestType
    <3>8. CatalogWatched'
      <4> SUFFICES ASSUME NEW t \in Tools, toolCatalog'[t] # NoDef
                   PROVE  \/ toolCatalog'[t] \in approved'[t] \/ t \in driftedTools'
                          \/ WillCheck(t)' \/ Dropped(t)'
        BY DEF CatalogWatched, Known
      <4>1. CASE t \in DOMAIN tools  BY <3>6, <3>7, <4>1
      <4>2. CASE t \notin DOMAIN tools
        <5>1. Known(t) /\ toolCatalog'[t] = toolCatalog[t]  BY <3>7, <4>2 DEF Known
        <5> QED BY <1>1, <2>1, <3>2, <5>1 DEF CatalogWatched, WillCheck, Dropped
      <4> QED BY <4>1, <4>2
    <3>9. CheckedIsKnown'
      <4>1. \A t \in Tools : t \notin driftedTools  BY <2>1, <3>2 DEF CheckedIsKnown
      <4>2. \A t \in Tools : Known(t) => toolCatalog'[t] # NoDef  BY <3>7 DEF Known
      <4>3. \A t \in Tools : baselines'[t] # NoDef => toolCatalog'[t] # NoDef
        BY <3>2, <3>6, <3>7
      <4>4. \A r \in Refreshes : refreshes[r].todo \in Listings
        BY TypeOKIs, PlaceTypes DEF TypeInv
      <4>5. \A r \in Refreshes : refreshes[r].at = "recording" =>
               \A t \in DOMAIN refreshes[r].todo : toolCatalog'[t] # NoDef
        BY <2>1, <4>2, <4>4, ListingIs DEF CheckedIsKnown
      <4> QED BY <1>1, <3>6, <4>1, <4>3, <4>5 DEF CheckedIsKnown, Known
    <3> QED BY <3>6, <3>8, <3>9
  <2> QED BY <2>2, <2>3 DEF connectUpstream
<1> QED BY <1>2, <1>3

\* A tool that was to be checked is listed again, or delisted after a loss.
LEMMA RefreshListedDrift ==
    ASSUME TypeInv, RefreshesWait, WatchInv, NEW r \in Refreshes, RefreshListed(r)
    PROVE  RefreshesWait' /\ WatchInv'
<1> DEFINE place == RefreshAt("listed", Listed)
<1>1. /\ refreshes[r].at \in {"new", "retry"} /\ refreshes' = [refreshes EXCEPT ![r] = place]
      /\ delisted' = delisted \cup {t \in Tools : Known(t) /\ served[t] = NoDef}
      /\ UNCHANGED <<action, process, toolCatalog, baselines, driftedTools, approved,
                     writeQueue, lost>>
  BY DEF RefreshListed, monitor, audit
<1>2. /\ refreshes \in [Refreshes -> RefreshType] /\ writeQueue \in Seq(RecordType)
  BY TypeOKIs DEF TypeInv
<1>3. place.at = "listed" /\ place.todo = Listed /\ DOMAIN Listed = {t \in Tools : served[t] # NoDef}
  BY DEF RefreshAt, Listed
<1>4. RefreshesMatch(writeQueue, refreshes) /\ RetriesLost(refreshes, lost)
  BY RefreshesWaitIs
<1> HIDE DEF place
<1>5. RefreshesWait'
  <2>1. Idle(r, writeQueue)  BY <1>1, <1>4, NotRecordingIdle
  <2>2. RefreshesMatch(writeQueue', refreshes')  BY <1>1, <1>2, <1>4, <2>1, IdleMoves
  <2>3. RetriesLost(refreshes', lost')  BY <1>1, <1>2, <1>3, <1>4 DEF RetriesLost
  <2> QED BY <2>2, <2>3, RefreshesWaitIs
<1>6. WatchInv'
  <2> SUFFICES ASSUME action # "disabled"
               PROVE  CatalogWatched' /\ BaselineWatched' /\ CheckedIsKnown'
    BY <1>1 DEF WatchInv
  <2>1. CatalogWatched /\ BaselineWatched /\ CheckedIsKnown  BY DEF WatchInv
  <2>2. refreshes'[r] = place /\ \A q \in Refreshes : q # r => refreshes'[q] = refreshes[q]
    BY <1>1, <1>2
  <2>3. CatalogWatched'
    <3> SUFFICES ASSUME NEW t \in Tools, Known(t)
                 PROVE  \/ toolCatalog[t] \in approved[t] \/ t \in driftedTools
                        \/ WillCheck(t)' \/ Dropped(t)'
      BY <1>1 DEF CatalogWatched, Known
    <3>1. CASE Dropped(t)  BY <1>1, <3>1 DEF Dropped
    <3>2. CASE refreshes[r].at = "retry"
      <4>1. lost # {}  BY <1>4, <3>2 DEF RetriesLost
      <4>2. CASE served[t] # NoDef  BY <1>3, <2>2, <4>2 DEF WillCheck
      <4>3. CASE served[t] = NoDef  BY <1>1, <4>1, <4>3 DEF Dropped
      <4> QED BY <4>2, <4>3
    <3>3. ASSUME NEW q \in Refreshes, q # r,
                 \/ refreshes[q].at = "retry"
                 \/ /\ t \in DOMAIN refreshes[q].todo
                    /\ \/ refreshes[q].at = "listed"
                       \/ refreshes[q].at = "recording" /\ refreshes[q].todo[t] = toolCatalog[t]
          PROVE  WillCheck(t)'
      BY <1>1, <2>2, <3>3 DEF WillCheck
    <3> QED BY <1>1, <2>1, <3>1, <3>2, <3>3 DEF CatalogWatched, WillCheck
  <2>4. BaselineWatched'  BY <1>1, <2>1 DEF BaselineWatched, computeDigest
  <2>5. CheckedIsKnown'  BY <1>1, <1>3, <2>1, <2>2 DEF CheckedIsKnown, Known, NoTools
  <2> QED BY <2>3, <2>4, <2>5
<1> QED BY <1>5, <1>6

\* A turn of the loop, when the catalog has what the loop still has to check
\* of each tool that no other refresh will check.
LEMMA CheckDrift ==
    ASSUME TypeOK, BaselineWatched, CheckedIsKnown, action # "disabled", process = "serving",
           NEW r \in Refreshes, NEW tools \in Listings, NEW queue,
           checkToolIntegrity(r, tools, queue),
           UNCHANGED <<action, process, lost, delisted>>,
           toolCatalog' \in [Tools -> Defs \cup {NoDef}],
           \A t \in Tools : Known(t) \/ t \in DOMAIN tools => toolCatalog'[t] # NoDef,
           \A t \in Tools : toolCatalog'[t] # NoDef =>
              \/ t \in DOMAIN tools /\ tools[t] = toolCatalog'[t]
              \/ toolCatalog'[t] \in approved[t] \/ t \in driftedTools \/ Dropped(t)
              \/ \E q \in Refreshes : q # r /\
                    \/ refreshes[q].at = "retry"
                    \/ /\ t \in DOMAIN refreshes[q].todo
                       /\ \/ refreshes[q].at = "listed"
                          \/ refreshes[q].at = "recording"
                             /\ refreshes[q].todo[t] = toolCatalog'[t]
    PROVE  CatalogWatched' /\ BaselineWatched' /\ CheckedIsKnown'
<1>1. /\ \A t \in DOMAIN tools :
            \/ tools[t] \in approved'[t] \/ t \in driftedTools'
            \/ /\ refreshes'[r].at = "recording"
               /\ t \in DOMAIN refreshes'[r].todo /\ refreshes'[r].todo[t] = tools[t]
      /\ \A q \in Refreshes : q # r => refreshes'[q] = refreshes[q]
      /\ refreshes'[r].at = "recording" => DOMAIN refreshes'[r].todo \subseteq DOMAIN tools
      /\ driftedTools \subseteq driftedTools'
      /\ \A t \in driftedTools' : baselines'[t] # NoDef
      /\ \A t \in Tools : approved[t] \subseteq approved'[t]
      /\ \A t \in Tools : baselines'[t] = NoDef => approved'[t] = {}
      /\ \A t \in Tools : baselines'[t] # NoDef => baselines[t] # NoDef \/ t \in DOMAIN tools
      /\ BaselineWatched'
  BY CheckWatches
<1>2. DOMAIN tools \subseteq Tools  BY ListingIs
<1>3. CatalogWatched'
  <2> SUFFICES ASSUME NEW t \in Tools, toolCatalog'[t] # NoDef
               PROVE  \/ toolCatalog'[t] \in approved'[t] \/ t \in driftedTools'
                      \/ WillCheck(t)' \/ Dropped(t)'
    BY DEF CatalogWatched, Known
  <2>1. CASE t \in DOMAIN tools /\ tools[t] = toolCatalog'[t]
    BY <1>1, <2>1 DEF WillCheck
  <2>2. CASE toolCatalog'[t] \in approved[t] \/ t \in driftedTools \/ Dropped(t)
    BY <1>1, <2>2 DEF Dropped
  <2>3. ASSUME NEW q \in Refreshes, q # r,
               \/ refreshes[q].at = "retry"
               \/ /\ t \in DOMAIN refreshes[q].todo
                  /\ \/ refreshes[q].at = "listed"
                     \/ refreshes[q].at = "recording" /\ refreshes[q].todo[t] = toolCatalog'[t]
        PROVE  WillCheck(t)'
    BY <1>1, <2>3 DEF WillCheck
  <2> QED BY <2>1, <2>2, <2>3
<1>4. CheckedIsKnown'
  <2>1. \A t \in Tools : Known(t) => toolCatalog'[t] # NoDef  OBVIOUS
  <2>2. \A t \in Tools : baselines'[t] # NoDef => toolCatalog'[t] # NoDef
    BY <1>1, <2>1 DEF CheckedIsKnown
  <2>3. \A q \in Refreshes : refreshes[q].todo \in Listings  BY TypeOKIs, PlaceTypes
  <2>4. \A q \in Refreshes : refreshes'[q].at = "recording" =>
           \A t \in DOMAIN refreshes'[q].todo : toolCatalog'[t] # NoDef
    <3> SUFFICES ASSUME NEW q \in Refreshes, refreshes'[q].at = "recording",
                        NEW t \in DOMAIN refreshes'[q].todo
                 PROVE  toolCatalog'[t] # NoDef
      OBVIOUS
    <3>1. CASE q = r  BY <1>1, <1>2, <3>1
    <3>2. CASE q # r  BY <1>1, <2>1, <2>3, <3>2, ListingIs DEF CheckedIsKnown
    <3> QED BY <3>1, <3>2
  <2>5. process' # "starting"  OBVIOUS
  <2>6. \A t \in Tools : baselines'[t] = NoDef => approved'[t] = {} /\ t \notin driftedTools'
    BY <1>1
  <2> QED BY <2>2, <2>4, <2>5, <2>6 DEF CheckedIsKnown, Known
<1> QED BY <1>1, <1>3, <1>4

LEMMA RefreshArrivesDrift ==
    ASSUME TypeInv, RefreshesWait, WatchInv, NEW r \in Refreshes, RefreshArrives(r)
    PROVE  RefreshesWait' /\ WatchInv'
<1> DEFINE tools == refreshes[r].todo
<1>1. /\ process = "serving" /\ refreshes[r].at = "listed"
      /\ toolCatalog' = [t \in Tools |-> IF t \in DOMAIN tools THEN tools[t] ELSE toolCatalog[t]]
      /\ checkToolIntegrity(r, tools, writeQueue)
      /\ UNCHANGED <<action, process, lost, delisted>>
  BY DEF RefreshArrives, registerUpstreamTools
<1>2. /\ TypeOK /\ tools \in Listings /\ writeQueue \in Seq(RecordType)
      /\ toolCatalog \in [Tools -> Defs \cup {NoDef}]
  BY TypeOKIs, PlaceTypes DEF TypeInv
<1>3. RefreshesWait'
  <2>1. RefreshesMatch(writeQueue, refreshes) /\ RetriesLost(refreshes, lost)
    BY RefreshesWaitIs
  <2>2. Idle(r, writeQueue)  BY <1>1, <2>1, NotRecordingIdle
  <2> HIDE DEF tools
  <2> QED BY <1>1, <1>2, <2>1, <2>2, CheckWaits
<1>4. CASE action # "disabled"
  <2>1. CatalogWatched /\ BaselineWatched /\ CheckedIsKnown  BY <1>4 DEF WatchInv
  <2>2. DOMAIN tools \subseteq Tools /\ \A t \in DOMAIN tools : tools[t] \in Defs
    BY <1>2, ListingIs
  <2>3. /\ \A t \in DOMAIN tools : toolCatalog'[t] = tools[t] /\ toolCatalog'[t] # NoDef
        /\ \A t \in Tools \ DOMAIN tools : toolCatalog'[t] = toolCatalog[t]
        /\ toolCatalog' \in [Tools -> Defs \cup {NoDef}]
    <3> HIDE DEF tools
    <3> QED BY <1>1, <1>2, <2>2, DigestType
  <2>4. \A t \in Tools : Known(t) \/ t \in DOMAIN tools => toolCatalog'[t] # NoDef
    BY <2>3 DEF Known
  <2>5. ASSUME NEW t \in Tools, toolCatalog'[t] # NoDef, t \notin DOMAIN tools
        PROVE  \/ toolCatalog'[t] \in approved[t] \/ t \in driftedTools \/ Dropped(t)
               \/ \E q \in Refreshes : q # r /\
                     \/ refreshes[q].at = "retry"
                     \/ /\ t \in DOMAIN refreshes[q].todo
                        /\ \/ refreshes[q].at = "listed"
                           \/ refreshes[q].at = "recording"
                              /\ refreshes[q].todo[t] = toolCatalog'[t]
    <3>1. Known(t) /\ toolCatalog'[t] = toolCatalog[t]  BY <2>3, <2>5 DEF Known
    <3>2. CASE WillCheck(t)
      <4>1. PICK q \in Refreshes :
               \/ refreshes[q].at = "retry"
               \/ /\ t \in DOMAIN refreshes[q].todo
                  /\ \/ refreshes[q].at = "listed"
                     \/ refreshes[q].at = "recording" /\ refreshes[q].todo[t] = toolCatalog[t]
        BY <3>2 DEF WillCheck
      <4>2. q # r  BY <1>1, <2>5, <4>1
      <4> QED BY <3>1, <4>1, <4>2
    <3> QED BY <2>1, <3>1, <3>2 DEF CatalogWatched
  <2> HIDE DEF tools
  <2>6. CatalogWatched' /\ BaselineWatched' /\ CheckedIsKnown'
    BY <1>1, <1>2, <1>4, <2>1, <2>3, <2>4, <2>5, CheckDrift
  <2> QED BY <1>3, <2>6 DEF WatchInv
<1>5. CASE action = "disabled"  BY <1>1, <1>3, <1>5 DEF WatchInv
<1> QED BY <1>4, <1>5

LEMMA DriftRecordedDrift ==
    ASSUME TypeInv, RefreshesWait, WatchInv, DriftRecorded
    PROVE  RefreshesWait' /\ WatchInv'
<1> DEFINE r == Head(writeQueue).refresh
           tools == refreshes[r].todo
<1>1. /\ process = "serving" /\ writeQueue # <<>> /\ Head(writeQueue).type = "tool_drift"
      /\ checkToolIntegrity(r, tools, Tail(writeQueue))
      /\ UNCHANGED <<action, process, toolCatalog, lost, delisted>>
  BY DEF DriftRecorded, Writing
<1>2. /\ TypeOK /\ writeQueue \in Seq(RecordType) /\ refreshes \in [Refreshes -> RefreshType]
      /\ toolCatalog \in [Tools -> Defs \cup {NoDef}]
  BY TypeOKIs DEF TypeInv
<1>3. Head(writeQueue) \in RecordType /\ Tail(writeQueue) \in Seq(RecordType)
  BY <1>1, <1>2, QueueHead
<1>4. r \in Refreshes  BY <1>1, <1>3, RecordTypes
<1>5. /\ RefreshesMatch(Tail(writeQueue), refreshes) /\ RetriesLost(refreshes, lost)
      /\ refreshes[r].at = "recording" /\ Idle(r, Tail(writeQueue))
  BY <1>1, <1>2, RefreshesWaitIs, RefreshesMatchTail
<1> HIDE DEF r
<1>6. tools \in Listings  BY <1>2, <1>4, PlaceTypes
<1>7. RefreshesWait'
  <2> HIDE DEF tools
  <2> QED BY <1>1, <1>2, <1>3, <1>4, <1>5, <1>6, CheckWaits
<1>8. CASE action # "disabled"
  <2>1. CatalogWatched /\ BaselineWatched /\ CheckedIsKnown  BY <1>8 DEF WatchInv
  <2>2. \A t \in Tools : Known(t) \/ t \in DOMAIN tools => toolCatalog'[t] # NoDef
    BY <1>1, <1>4, <1>5, <2>1 DEF CheckedIsKnown, Known
  <2>3. ASSUME NEW t \in Tools, toolCatalog'[t] # NoDef
        PROVE  \/ t \in DOMAIN tools /\ tools[t] = toolCatalog'[t]
               \/ toolCatalog'[t] \in approved[t] \/ t \in driftedTools \/ Dropped(t)
               \/ \E q \in Refreshes : q # r /\
                     \/ refreshes[q].at = "retry"
                     \/ /\ t \in DOMAIN refreshes[q].todo
                        /\ \/ refreshes[q].at = "listed"
                           \/ refreshes[q].at = "recording"
                              /\ refreshes[q].todo[t] = toolCatalog'[t]
    <3>1. Known(t) /\ toolCatalog'[t] = toolCatalog[t]  BY <1>1, <2>3 DEF Known
    <3>2. CASE WillCheck(t)
      <4>1. PICK q \in Refreshes :
               \/ refreshes[q].at = "retry"
               \/ /\ t \in DOMAIN refreshes[q].todo
                  /\ \/ refreshes[q].at = "listed"
                     \/ refreshes[q].at = "recording" /\ refreshes[q].todo[t] = toolCatalog[t]
        BY <3>2 DEF WillCheck
      <4>2. CASE q = r  BY <1>5, <3>1, <4>1, <4>2
      <4>3. CASE q # r  BY <3>1, <4>1, <4>3
      <4> QED BY <4>2, <4>3
    <3> QED BY <2>1, <3>1, <3>2 DEF CatalogWatched
  <2> HIDE DEF tools
  <2>4. toolCatalog' \in [Tools -> Defs \cup {NoDef}]  BY <1>1, <1>2
  <2>5. CatalogWatched' /\ BaselineWatched' /\ CheckedIsKnown'
    BY <1>1, <1>2, <1>4, <1>6, <1>8, <2>1, <2>2, <2>3, <2>4, CheckDrift
  <2> QED BY <1>7, <2>5 DEF WatchInv
<1>9. CASE action = "disabled"  BY <1>1, <1>7, <1>9 DEF WatchInv
<1> QED BY <1>8, <1>9

\* The refresh is tried again: every tool waits for it.
LEMMA DriftUnrecordedDrift ==
    ASSUME TypeInv, RefreshesWait, WatchInv, DriftUnrecorded
    PROVE  RefreshesWait' /\ WatchInv'
<1> DEFINE r == Head(writeQueue).refresh
<1>1. /\ writeQueue # <<>> /\ Head(writeQueue).type = "tool_drift"
      /\ writeQueue' = Tail(writeQueue) /\ lost' = lost \cup {Head(writeQueue).tool}
      /\ refreshes' = [refreshes EXCEPT ![r] = AfterFailure]
      /\ UNCHANGED <<action, process, toolCatalog, baselines, driftedTools, approved, delisted>>
  BY DEF DriftUnrecorded, Writing, monitor
<1>2. /\ writeQueue \in Seq(RecordType) /\ refreshes \in [Refreshes -> RefreshType]
  BY TypeOKIs DEF TypeInv
<1>3. Tail(writeQueue) \in Seq(RecordType) /\ Head(writeQueue) \in RecordType
  BY <1>1, <1>2, QueueHead
<1>4. r \in Refreshes  BY <1>1, <1>3, RecordTypes
<1>5. RefreshesMatch(Tail(writeQueue), refreshes) /\ Idle(r, Tail(writeQueue))
  BY <1>1, <1>2, RefreshesWaitIs, RefreshesMatchTail
<1>6. AfterFailure.at = "retry"  BY DEF AfterFailure, RefreshAt
<1> HIDE DEF r
<1>7. refreshes'[r].at = "retry" /\ \A q \in Refreshes : q # r => refreshes'[q] = refreshes[q]
  BY <1>1, <1>2, <1>4, <1>6
<1>8. RefreshesWait'
  <2>1. RefreshesMatch(writeQueue', refreshes')  BY <1>1, <1>2, <1>3, <1>4, <1>5, IdleMoves
  <2>2. RetriesLost(refreshes', lost')  BY <1>1 DEF RetriesLost
  <2> QED BY <2>1, <2>2, RefreshesWaitIs
<1>9. WatchInv'
  <2> SUFFICES ASSUME action # "disabled"
               PROVE  CatalogWatched' /\ BaselineWatched' /\ CheckedIsKnown'
    BY <1>1 DEF WatchInv
  <2>1. BaselineWatched /\ CheckedIsKnown  BY DEF WatchInv
  <2>2. CatalogWatched'  BY <1>4, <1>7 DEF CatalogWatched, WillCheck
  <2>3. BaselineWatched'  BY <1>1, <2>1 DEF BaselineWatched, computeDigest
  <2>4. CheckedIsKnown'  BY <1>1, <1>7, <2>1 DEF CheckedIsKnown, Known, NoTools
  <2> QED BY <2>2, <2>3, <2>4
<1> QED BY <1>8, <1>9

\* The operator accepts what the catalog has and what was checked last.
LEMMA AcceptDrift ==
    ASSUME TypeInv, RefreshesWait, WatchInv, NEW S, Accept(S)
    PROVE  RefreshesWait' /\ WatchInv'
<1>1. /\ S \subseteq driftedTools /\ driftedTools' = driftedTools \ S
      /\ approved' = [t \in Tools |->
             IF t \notin S THEN approved[t]
             ELSE {d \in Defs : d = toolCatalog[t] \/ computeDigest(d) = baselines[t]}]
      /\ UNCHANGED <<action, process, toolCatalog, baselines, refreshes, delisted,
                     writeQueue, lost>>
  BY DEF Accept, listing, audit
<1>2. RefreshesWait'  BY <1>1, SameRefreshes
<1>3. WatchInv'
  <2> SUFFICES ASSUME action # "disabled"
               PROVE  CatalogWatched' /\ BaselineWatched' /\ CheckedIsKnown'
    BY <1>1 DEF WatchInv
  <2>1. CatalogWatched /\ BaselineWatched /\ CheckedIsKnown  BY DEF WatchInv
  <2>2. toolCatalog \in [Tools -> Defs \cup {NoDef}]  BY TypeOKIs DEF TypeInv
  <2>3. CatalogWatched'
    <3> SUFFICES ASSUME NEW t \in Tools, Known(t)
                 PROVE  \/ toolCatalog[t] \in approved'[t] \/ t \in driftedTools'
                        \/ WillCheck(t)' \/ Dropped(t)'
      BY <1>1 DEF CatalogWatched, Known
    <3>1. CASE t \in S  BY <1>1, <2>2, <3>1 DEF Known
    <3>2. CASE t \notin S
      BY <1>1, <2>1, <3>2 DEF CatalogWatched, WillCheck, Dropped
    <3> QED BY <3>1, <3>2
  <2>4. BaselineWatched'
    <3> SUFFICES ASSUME NEW t \in Tools, NEW d \in Defs, baselines[t] = computeDigest(d)
                 PROVE  d \in approved'[t] \/ t \in driftedTools'
      BY <1>1 DEF BaselineWatched, computeDigest
    <3>1. CASE t \in S  BY <1>1, <3>1
    <3>2. CASE t \notin S  BY <1>1, <2>1, <3>2 DEF BaselineWatched
    <3> QED BY <3>1, <3>2
  <2>5. CheckedIsKnown'
    <3>1. \A t \in Tools : baselines[t] = NoDef => approved'[t] = {} /\ t \notin driftedTools'
      BY <1>1, <2>1 DEF CheckedIsKnown
    <3> QED BY <1>1, <2>1, <3>1 DEF CheckedIsKnown, Known, NoTools
  <2> QED BY <2>3, <2>4, <2>5
<1> QED BY <1>2, <1>3

LEMMA ExitDrift == Exit => RefreshesWait' /\ WatchInv'
<1> SUFFICES ASSUME Exit PROVE RefreshesWait' /\ WatchInv'  OBVIOUS
<1>1. /\ process' = "ended" /\ writeQueue' = <<>>
      /\ toolCatalog' = [t \in Tools |-> NoDef] /\ baselines' = [t \in Tools |-> NoDef]
      /\ driftedTools' = {} /\ approved' = [t \in Tools |-> {}]
      /\ \A r \in Refreshes : refreshes'[r].at = "new"
  BY DEF Exit, NoTools, RefreshAt
<1>2. RefreshesWait'  BY <1>1 DEF RefreshesWait
<1>3. CatalogWatched'  BY <1>1 DEF CatalogWatched, Known
<1>4. BaselineWatched'  BY <1>1, DigestType DEF BaselineWatched, computeDigest
<1>5. CheckedIsKnown'  BY <1>1 DEF CheckedIsKnown, Known
<1> QED BY <1>2, <1>3, <1>4, <1>5 DEF WatchInv

LEMMA NextDrift == DriftInv /\ [Next]_vars => DriftInv'
<1> SUFFICES ASSUME TypeInv, RefreshesWait, WatchInv, [Next]_vars
             PROVE  RefreshesWait' /\ WatchInv'
  BY DriftInvIs, NextTypes
<1>1. CASE UNCHANGED vars
  BY <1>1, SameWatch, SameRefreshes DEF vars, monitor, listing, audit
<1>2. CASE ServerChanges
  BY <1>2, SameWatch, SameRefreshes DEF ServerChanges, monitor, listing, audit
<1>3. CASE connectUpstream  BY <1>3, connectUpstreamDrift
<1>4. CASE rebaselineAll \/ \E t \in Tools : rebaselineTool(t)
  BY <1>4, AcceptDrift DEF rebaselineAll, rebaselineTool
<1>5. CASE \E r \in Refreshes : Refreshing(r)
  BY <1>5, RefreshListedDrift, RefreshArrivesDrift DEF Refreshing
<1>6. CASE \/ \E c \in Calls, t \in Tools : Calling(c, t)
           \/ \E c \in Calls : UpstreamEnds(c)
  BY <1>6, CallsDrift
<1>7. CASE Settling
  BY <1>7, CallSettledDrift, DriftRecordedDrift, DriftUnrecordedDrift DEF Settling
<1>8. CASE Exit  BY <1>8, ExitDrift
<1>9. CASE Finished  BY <1>1, <1>9 DEF Finished
<1> QED BY <1>1, <1>2, <1>3, <1>4, <1>5, <1>6, <1>7, <1>8, <1>9 DEF Next

\* What the catalog has is accepted, flagged, about to be checked, or left out
\* of the listing that came after a lost record.
LEMMA DriftInvFlags == DriftInv => DriftFlagged
<1> SUFFICES ASSUME DriftInv, action # "disabled", NEW t \in Tools, ~Trusted(t)
             PROVE  t \in driftedTools \/ CheckPending(t) \/ Dropped(t)
  BY DEF DriftFlagged
<1>1. CatalogWatched /\ CheckedIsKnown  BY DEF DriftInv
<1>2. Known(t) /\ toolCatalog[t] \notin approved[t]  BY <1>1 DEF Trusted, CheckedIsKnown
<1>3. WillCheck(t) => CheckPending(t)  BY DEF WillCheck, CheckPending
<1> QED BY <1>1, <1>2, <1>3 DEF CatalogWatched

\* A definition that is not the one first checked, nor accepted by the operator
\* since, is flagged or about to be checked, for any number of refreshes and
\* tools, unless a record was lost and a later listing left the tool out.
THEOREM DriftIsFlagged == Spec => []DriftFlagged
<1> QED BY InitDrift, NextDrift, DriftInvFlags, PTL DEF Spec

-----------------------------------------------------------------------------
(* What the log tells of drift, with the records that wait                 *)

\* The records a reader of the log will have when the queue is written.
Told == log \o writeQueue

HasDrift(told, t) == \E i \in DOMAIN told : Drift(told[i], t)

IsBlocked(rec) == rec.type = "call" /\ rec.outcome = "drifted"

\* Every call blocked for drift comes after a record of that drift, unless
\* such a record is gone.
Explained(told, gone) ==
    \A j \in DOMAIN told : IsBlocked(told[j]) =>
        \/ \E i \in 1 .. j - 1 : Drift(told[i], told[j].tool)
        \/ told[j].tool \in gone

\* The next drift record of the tool after place j is that at place k.
Follows(told, t, j, k) ==
    /\ Drift(told[k], t)
    /\ told[k].previousDefinitionDigest = told[j].newDefinitionDigest
    /\ \A i \in j + 1 .. k - 1 : ~Drift(told[i], t)

\* No drift record of the tool comes after place j.
Newest(told, t, j) == \A k \in j + 1 .. Len(told) : ~Drift(told[k], t)

\* The drift records of the tool lead from one to the next, and to the baseline.
Linked(told, t, baseline) ==
    \A j \in DOMAIN told : Drift(told[j], t) =>
        \/ told[j].newDefinitionDigest = baseline /\ Newest(told, t, j)
        \/ \E k \in j + 1 .. Len(told) : Follows(told, t, j, k)

\* A record more at the end.
LEMMA DriftAppend ==
    ASSUME NEW told \in Seq(RecordType), NEW rec \in RecordType, NEW t
    PROVE  HasDrift(Append(told, rec), t) <=> HasDrift(told, t) \/ Drift(rec, t)
<1> DEFINE longer == Append(told, rec)
<1>1. PICK n \in Nat : n = Len(told)  BY LenProperties
<1>2. /\ DOMAIN told = 1..n /\ DOMAIN longer = 1..n + 1
      /\ \A i \in 1..n : longer[i] = told[i]
      /\ longer[n + 1] = rec
  BY <1>1, AppendProperties, LenProperties
<1> HIDE DEF longer
<1>3. HasDrift(longer, t) <=> HasDrift(told, t) \/ Drift(rec, t)  BY <1>2 DEF HasDrift
<1> QED BY <1>3 DEF longer

LEMMA ExplainedAppend ==
    ASSUME NEW told \in Seq(RecordType), NEW rec \in RecordType, NEW gone,
           Explained(told, gone),
           IsBlocked(rec) => HasDrift(told, rec.tool) \/ rec.tool \in gone
    PROVE  Explained(Append(told, rec), gone)
<1> DEFINE longer == Append(told, rec)
<1>1. PICK n \in Nat : n = Len(told)  BY LenProperties
<1>2. /\ DOMAIN told = 1..n /\ DOMAIN longer = 1..n + 1
      /\ \A i \in 1..n : longer[i] = told[i]
      /\ longer[n + 1] = rec
  BY <1>1, AppendProperties, LenProperties
<1> HIDE DEF longer
<1>3. SUFFICES ASSUME NEW j \in 1..n + 1, IsBlocked(longer[j])
               PROVE  \/ \E i \in 1 .. j - 1 : Drift(longer[i], longer[j].tool)
                      \/ longer[j].tool \in gone
  BY <1>2 DEF Explained, longer
<1>4. CASE j \in 1..n
  <2>1. \/ \E i \in 1 .. j - 1 : Drift(told[i], told[j].tool)
        \/ told[j].tool \in gone
    BY <1>2, <1>3, <1>4 DEF Explained
  <2>2. \A i \in 1 .. j - 1 : i \in 1..n  BY <1>4
  <2> QED BY <1>2, <1>4, <2>1, <2>2
<1>5. CASE j = n + 1
  <2>1. HasDrift(told, rec.tool) \/ rec.tool \in gone  BY <1>2, <1>3, <1>5
  <2>2. \A i \in 1..n : i \in 1 .. j - 1  BY <1>5
  <2> QED BY <1>2, <1>5, <2>1, <2>2 DEF HasDrift
<1> QED BY <1>4, <1>5

\* A record of something else breaks no link.
LEMMA LinkedSame ==
    ASSUME NEW told \in Seq(RecordType), NEW rec \in RecordType, NEW t, NEW baseline,
           Linked(told, t, baseline), ~Drift(rec, t)
    PROVE  Linked(Append(told, rec), t, baseline)
<1> DEFINE longer == Append(told, rec)
<1>1. PICK n \in Nat : n = Len(told)  BY LenProperties
<1>2. /\ DOMAIN told = 1..n /\ DOMAIN longer = 1..n + 1 /\ Len(longer) = n + 1
      /\ \A i \in 1..n : longer[i] = told[i]
      /\ longer[n + 1] = rec
  BY <1>1, AppendProperties, LenProperties
<1> HIDE DEF longer
<1>3. SUFFICES ASSUME NEW j \in 1..n, Drift(told[j], t)
               PROVE  \/ told[j].newDefinitionDigest = baseline /\ Newest(longer, t, j)
                      \/ \E k \in j + 1 .. n + 1 : Follows(longer, t, j, k)
  <2>1. ASSUME NEW j \in 1..n + 1, Drift(longer[j], t) PROVE j \in 1..n /\ longer[j] = told[j]
    BY <1>2, <2>1
  <2> QED BY <1>2, <2>1 DEF Linked, longer
<1>4. CASE told[j].newDefinitionDigest = baseline /\ Newest(told, t, j)
  <2>1. \A k \in j + 1 .. n : ~Drift(told[k], t)  BY <1>1, <1>4 DEF Newest
  <2>2. \A k \in j + 1 .. n + 1 : ~Drift(longer[k], t)  BY <1>2, <2>1
  <2> QED BY <1>2, <1>4, <2>2 DEF Newest
<1>5. ASSUME NEW k \in j + 1 .. n, Follows(told, t, j, k) PROVE Follows(longer, t, j, k)
  <2>1. k \in 1..n /\ \A i \in j + 1 .. k - 1 : i \in 1..n  OBVIOUS
  <2> QED BY <1>2, <1>5, <2>1 DEF Follows
<1> QED BY <1>1, <1>2, <1>3, <1>4, <1>5 DEF Linked

\* A drift from the baseline on leads to the new baseline.
LEMMA LinkedNext ==
    ASSUME NEW told \in Seq(RecordType), NEW rec \in RecordType, NEW t,
           Linked(told, t, rec.previousDefinitionDigest), Drift(rec, t)
    PROVE  Linked(Append(told, rec), t, rec.newDefinitionDigest)
<1> DEFINE longer == Append(told, rec)
<1>1. PICK n \in Nat : n = Len(told)  BY LenProperties
<1>2. /\ DOMAIN told = 1..n /\ DOMAIN longer = 1..n + 1 /\ Len(longer) = n + 1
      /\ \A i \in 1..n : longer[i] = told[i]
      /\ longer[n + 1] = rec
  BY <1>1, AppendProperties, LenProperties
<1> HIDE DEF longer
<1>3. SUFFICES ASSUME NEW j \in 1..n + 1, Drift(longer[j], t)
               PROVE  \/ /\ longer[j].newDefinitionDigest = rec.newDefinitionDigest
                         /\ Newest(longer, t, j)
                      \/ \E k \in j + 1 .. n + 1 : Follows(longer, t, j, k)
  BY <1>2 DEF Linked, longer
<1>4. CASE j = n + 1
  <2>1. \A k \in j + 1 .. n + 1 : ~Drift(longer[k], t)  BY <1>4
  <2> QED BY <1>2, <1>4, <2>1 DEF Newest
<1>5. CASE j \in 1..n
  <2>1. Drift(told[j], t) /\ longer[j] = told[j]  BY <1>2, <1>3, <1>5
  <2>2. CASE told[j].newDefinitionDigest = rec.previousDefinitionDigest /\ Newest(told, t, j)
    <3>1. \A i \in j + 1 .. n : ~Drift(told[i], t)  BY <1>1, <2>2 DEF Newest
    <3>2. \A i \in j + 1 .. (n + 1) - 1 : ~Drift(longer[i], t)  BY <1>2, <1>5, <3>1
    <3>3. Follows(longer, t, j, n + 1)  BY <1>2, <2>1, <2>2, <3>2 DEF Follows
    <3> QED BY <1>5, <3>3
  <2>3. ASSUME NEW k \in j + 1 .. n, Follows(told, t, j, k) PROVE Follows(longer, t, j, k)
    <3>1. k \in 1..n /\ \A i \in j + 1 .. k - 1 : i \in 1..n  BY <1>5
    <3> QED BY <1>2, <2>1, <2>3, <3>1 DEF Follows
  <2> QED BY <1>1, <1>2, <1>5, <2>1, <2>2, <2>3 DEF Linked
<1> QED BY <1>4, <1>5

LEMMA LinkedNone ==
    ASSUME NEW told, NEW t, NEW baseline, ~HasDrift(told, t)
    PROVE  Linked(told, t, baseline)
  BY DEF Linked, HasDrift

\* The record at place p is taken out.
IsCut(told, p, rest) ==
    /\ rest \in Seq(RecordType) /\ Len(told) = Len(rest) + 1
    /\ \A i \in 1..Len(rest) : rest[i] = IF i < p THEN told[i] ELSE told[i + 1]

LEMMA DriftCut ==
    ASSUME NEW told \in Seq(RecordType), NEW p \in DOMAIN told, NEW rest,
           IsCut(told, p, rest), NEW t
    PROVE  /\ HasDrift(rest, t) => HasDrift(told, t)
           /\ HasDrift(told, t) => HasDrift(rest, t) \/ Drift(told[p], t)
<1>1. rest \in Seq(RecordType)  BY DEF IsCut
<1>2. PICK n \in Nat : n = Len(rest)  BY <1>1, LenProperties
<1>3. /\ DOMAIN rest = 1..n /\ DOMAIN told = 1..n + 1 /\ p \in 1..n + 1
      /\ \A i \in 1..n : rest[i] = IF i < p THEN told[i] ELSE told[i + 1]
  BY <1>1, <1>2, LenProperties DEF IsCut
<1>4. ASSUME NEW i \in 1..n, Drift(rest[i], t) PROVE \E j \in 1..n + 1 : Drift(told[j], t)
  BY <1>3, <1>4
<1>5. ASSUME NEW i \in 1..n + 1, Drift(told[i], t), i # p
      PROVE  \E j \in 1..n : Drift(rest[j], t)
  <2>1. CASE i < p
    <3>1. i \in 1..n  BY <1>3, <2>1
    <3> QED BY <1>3, <1>5, <2>1, <3>1
  <2>2. CASE i > p
    <3>1. PICK j \in 1..n : j + 1 = i  BY <1>3, <2>2
    <3>2. rest[j] = told[i]  BY <1>3, <2>2, <3>1
    <3> QED BY <1>5, <3>2
  <2> QED BY <1>3, <1>5, <2>1, <2>2
<1> QED BY <1>3, <1>4, <1>5 DEF HasDrift

\* A drift record that goes leaves calls unexplained of its tool only.
LEMMA ExplainedCut ==
    ASSUME NEW told \in Seq(RecordType), NEW p \in DOMAIN told, NEW rest,
           IsCut(told, p, rest), NEW gone, NEW more, gone \subseteq more,
           Explained(told, gone), \A t : Drift(told[p], t) => t \in more
    PROVE  Explained(rest, more)
<1>1. rest \in Seq(RecordType)  BY DEF IsCut
<1>2. PICK n \in Nat : n = Len(rest)  BY <1>1, LenProperties
<1>3. /\ DOMAIN rest = 1..n /\ DOMAIN told = 1..n + 1 /\ p \in 1..n + 1
      /\ \A i \in 1..n : rest[i] = IF i < p THEN told[i] ELSE told[i + 1]
  BY <1>1, <1>2, LenProperties DEF IsCut
<1>4. SUFFICES ASSUME NEW j \in 1..n, IsBlocked(rest[j])
               PROVE  \/ \E i \in 1 .. j - 1 : Drift(rest[i], rest[j].tool)
                      \/ rest[j].tool \in more
  BY <1>3 DEF Explained
<1>5. PICK q \in {j, j + 1} : rest[j] = told[q] /\ (q = j <=> j < p)  BY <1>3
<1>6. q \in 1..n + 1  BY <1>5
<1>7. \/ \E i \in 1 .. q - 1 : Drift(told[i], told[q].tool)
      \/ told[q].tool \in gone
  BY <1>3, <1>4, <1>5, <1>6 DEF Explained
<1>8. ASSUME NEW i \in 1 .. q - 1, Drift(told[i], told[q].tool), i # p
      PROVE  \E k \in 1 .. j - 1 : Drift(rest[k], rest[j].tool)
  <2>1. CASE i < p
    <3>1. i \in 1 .. j - 1 /\ i \in 1..n  BY <1>3, <1>5, <2>1
    <3>2. rest[i] = told[i]  BY <1>3, <2>1, <3>1
    <3> QED BY <1>5, <1>8, <3>1, <3>2
  <2>2. CASE i > p
    <3>1. PICK k \in 1 .. j - 1 : k + 1 = i  BY <1>3, <1>5, <1>8, <2>2
    <3>2. k \in 1..n /\ ~(k < p)  BY <1>3, <2>2, <3>1
    <3>3. rest[k] = told[i]  BY <1>3, <3>1, <3>2
    <3> QED BY <1>5, <1>8, <3>1, <3>3
  <2>3. i \in Int /\ p \in Int  BY <1>3, <1>5
  <2> QED BY <1>8, <2>1, <2>2, <2>3
<1> QED BY <1>5, <1>7, <1>8

\* The links of a tool do not need a record of something else.
LEMMA LinkedCut ==
    ASSUME NEW told \in Seq(RecordType), NEW p \in DOMAIN told, NEW rest,
           IsCut(told, p, rest), NEW t, NEW baseline,
           Linked(told, t, baseline), ~Drift(told[p], t)
    PROVE  Linked(rest, t, baseline)
<1>1. rest \in Seq(RecordType)  BY DEF IsCut
<1>2. PICK n \in Nat : n = Len(rest)  BY <1>1, LenProperties
<1>3. /\ DOMAIN rest = 1..n /\ DOMAIN told = 1..n + 1 /\ p \in 1..n + 1
      /\ Len(told) = n + 1
      /\ \A i \in 1..n : rest[i] = IF i < p THEN told[i] ELSE told[i + 1]
  BY <1>1, <1>2, LenProperties DEF IsCut
<1> DEFINE up(i) == IF i < p THEN i ELSE i + 1
<1>4. /\ \A i \in 1..n : up(i) \in 1..n + 1 /\ rest[i] = told[up(i)]
      /\ \A i, j \in 1..n : i < j => up(i) < up(j)
      /\ \A q \in 1..n + 1 : q # p => \E i \in 1..n : up(i) = q
  <2>1. \A i \in 1..n : up(i) \in 1..n + 1 /\ rest[i] = told[up(i)]  BY <1>3
  <2>2. \A i, j \in 1..n : i < j => up(i) < up(j)  BY <1>3
  <2>3. ASSUME NEW q \in 1..n + 1, q # p PROVE \E i \in 1..n : up(i) = q
    <3>1. CASE q < p
      <4>1. q \in 1..n /\ up(q) = q  BY <1>3, <3>1
      <4> QED BY <4>1
    <3>2. CASE q > p
      <4>1. PICK i \in 1..n : i + 1 = q  BY <1>3, <3>2
      <4>2. up(i) = q  BY <1>3, <3>2, <4>1
      <4> QED BY <4>2
    <3> QED BY <1>3, <2>3, <3>1, <3>2
  <2> QED BY <2>1, <2>2, <2>3
<1>5. \A i \in 1..n : up(i) \in Int  BY <1>4
<1> HIDE DEF up
<1>6. SUFFICES ASSUME NEW j \in 1..n, Drift(rest[j], t)
               PROVE  \/ rest[j].newDefinitionDigest = baseline /\ Newest(rest, t, j)
                      \/ \E k \in j + 1 .. n : Follows(rest, t, j, k)
  BY <1>2, <1>3 DEF Linked
<1>7. /\ up(j) \in 1..n + 1 /\ rest[j] = told[up(j)]
      /\ Drift(told[up(j)], t)
  BY <1>4, <1>6
<1>8. CASE told[up(j)].newDefinitionDigest = baseline /\ Newest(told, t, up(j))
  <2>1. \A k \in up(j) + 1 .. n + 1 : ~Drift(told[k], t)  BY <1>3, <1>8 DEF Newest
  <2>2. \A k \in j + 1 .. n : up(k) \in up(j) + 1 .. n + 1 /\ rest[k] = told[up(k)]
    BY <1>4, <1>5, <1>7
  <2>3. \A k \in j + 1 .. n : ~Drift(rest[k], t)  BY <2>1, <2>2
  <2> QED BY <1>2, <1>7, <1>8, <2>3 DEF Newest
<1>9. ASSUME NEW q \in up(j) + 1 .. n + 1, Follows(told, t, up(j), q)
      PROVE  \E k \in j + 1 .. n : Follows(rest, t, j, k)
  <2>1. Drift(told[q], t) /\ q \in 1..n + 1  BY <1>7, <1>9 DEF Follows
  <2>2. q # p  BY <2>1
  <2>3. PICK k \in 1..n : up(k) = q  BY <1>4, <2>1, <2>2
  <2>4. up(j) < up(k)  BY <1>7, <2>3
  <2>5. ~(k < j) /\ k # j  BY <1>4, <1>5, <2>4
  <2>6. k \in j + 1 .. n  BY <2>5
  <2>7. ASSUME NEW i \in j + 1 .. k - 1 PROVE ~Drift(rest[i], t)
    <3>1. i \in 1..n /\ j < i /\ i < k  OBVIOUS
    <3>2. up(j) < up(i) /\ up(i) < up(k) /\ up(i) \in Int /\ rest[i] = told[up(i)]
      BY <1>4, <1>5, <3>1
    <3>3. up(i) \in up(j) + 1 .. q - 1  BY <1>7, <2>1, <2>3, <3>2
    <3> QED BY <1>9, <3>2, <3>3 DEF Follows
  <2>8. rest[k] = told[q]  BY <1>4, <2>3
  <2>9. Follows(rest, t, j, k)  BY <1>7, <1>9, <2>7, <2>8 DEF Follows
  <2> QED BY <2>6, <2>9
<1> QED BY <1>3, <1>7, <1>8, <1>9 DEF Linked

\* What comes first is explained by what comes before.
LEMMA ExplainedFirst ==
    ASSUME NEW told \in Seq(RecordType), NEW first \in Seq(RecordType), NEW gone,
           Len(first) <= Len(told), \A i \in 1..Len(first) : first[i] = told[i],
           Explained(told, gone)
    PROVE  Explained(first, gone)
<1>1. PICK n \in Nat, m \in Nat : n = Len(first) /\ m = Len(told)  BY LenProperties
<1>2. /\ DOMAIN first = 1..n /\ DOMAIN told = 1..m /\ n <= m
      /\ \A i \in 1..n : first[i] = told[i]
  BY <1>1, LenProperties
<1>3. SUFFICES ASSUME NEW j \in 1..n, IsBlocked(first[j])
               PROVE  \/ \E i \in 1 .. j - 1 : Drift(first[i], first[j].tool)
                      \/ first[j].tool \in gone
  BY <1>2 DEF Explained
<1>4. j \in 1..m /\ \A i \in 1 .. j - 1 : i \in 1..n  BY <1>2
<1>5. \/ \E i \in 1 .. j - 1 : Drift(told[i], told[j].tool)
      \/ told[j].tool \in gone
  BY <1>2, <1>3, <1>4 DEF Explained
<1> QED BY <1>2, <1>4, <1>5

-----------------------------------------------------------------------------
(* The log with its queue                                                  *)

\* A record comes into the queue.
LEMMA ToldAppend ==
    ASSUME NEW records \in Seq(RecordType), NEW queue \in Seq(RecordType),
           NEW rec \in RecordType
    PROVE  records \o Append(queue, rec) = Append(records \o queue, rec)
<1>1. <<rec>> \in Seq(RecordType)  OBVIOUS
<1>2. Append(queue, rec) = queue \o <<rec>>  BY AppendIsConcat
<1>3. records \o queue \in Seq(RecordType)  BY ConcatProperties
<1>4. Append(records \o queue, rec) = (records \o queue) \o <<rec>>
  BY <1>3, AppendIsConcat
<1>5. (records \o queue) \o <<rec>> = records \o (queue \o <<rec>>)
  BY <1>1, ConcatAssociative
<1> QED BY <1>2, <1>4, <1>5

\* The first record of the queue and the rest of it, by their places.
LEMMA ToldHead ==
    ASSUME NEW records \in Seq(RecordType), NEW queue \in Seq(RecordType), queue # <<>>
    PROVE  LET told == records \o queue
               p == Len(records) + 1
           IN  /\ told \in Seq(RecordType)
               /\ p \in DOMAIN told /\ told[p] = Head(queue)
               /\ Append(records, Head(queue)) \o Tail(queue) = told
               /\ IsCut(told, p, records \o Tail(queue))
<1> DEFINE told == records \o queue
           head == Head(queue)
           tail == Tail(queue)
<1>1. PICK n \in Nat, m \in Nat : n = Len(records) /\ m = Len(queue)  BY LenProperties
<1>2. /\ head \in RecordType /\ head = queue[1] /\ tail \in Seq(RecordType)
      /\ m > 0 /\ Len(tail) = m - 1
      /\ \A i \in 1..m - 1 : tail[i] = queue[i + 1]
  <2>1. head \in RecordType /\ head = queue[1] /\ tail \in Seq(RecordType)  BY QueueHead
  <2>2. m > 0  BY <1>1, EmptySeq
  <2> QED BY <1>1, <2>1, <2>2, HeadTailProperties
<1> HIDE DEF head, tail
<1>3. PICK l \in Nat : l + 1 = m  BY <1>2
<1>4. Len(tail) = l /\ \A i \in 1..l : tail[i] = queue[i + 1]  BY <1>2, <1>3
<1>5. /\ told \in Seq(RecordType) /\ Len(told) = n + m
      /\ \A i \in 1..n + m : told[i] = IF i <= n THEN records[i] ELSE queue[i - n]
  BY <1>1, ConcatProperties
<1>6. /\ records \o tail \in Seq(RecordType) /\ Len(records \o tail) = n + l
      /\ \A i \in 1..n + l : (records \o tail)[i] = IF i <= n THEN records[i] ELSE tail[i - n]
  BY <1>1, <1>2, <1>4, ConcatProperties
<1>7. /\ Append(records, head) \in Seq(RecordType) /\ Len(Append(records, head)) = n + 1
      /\ \A i \in 1..n : Append(records, head)[i] = records[i]
      /\ Append(records, head)[n + 1] = head
  BY <1>1, <1>2, AppendProperties
<1> DEFINE moved == Append(records, head) \o tail
<1>8. /\ moved \in Seq(RecordType) /\ Len(moved) = n + 1 + l
      /\ \A i \in 1..n + 1 + l : moved[i] =
             IF i <= n + 1 THEN Append(records, head)[i] ELSE tail[i - (n + 1)]
  BY <1>2, <1>4, <1>7, ConcatProperties
<1> DEFINE rest == records \o tail
           longer == Append(records, head)
<1> HIDE DEF told, moved, rest, longer
<1>9. n + 1 \in DOMAIN told /\ told[n + 1] = head
  <2>1. DOMAIN told = 1..n + m  BY <1>5, LenProperties
  <2>2. n + 1 \in 1..n + m /\ ~(n + 1 <= n) /\ (n + 1) - n = 1  BY <1>3
  <2>3. told[n + 1] = queue[(n + 1) - n]  BY <1>5, <2>2
  <2> QED BY <1>2, <2>1, <2>2, <2>3
<1>10. \A i \in 1..n + m : moved[i] = told[i]
  <2> SUFFICES ASSUME NEW i \in 1..n + m PROVE moved[i] = told[i]  OBVIOUS
  <2>1. i \in 1..n + 1 + l  BY <1>3
  <2>2. moved[i] = IF i <= n + 1 THEN longer[i] ELSE tail[i - (n + 1)]
    BY <1>8, <2>1 DEF longer
  <2>3. CASE i <= n
    <3>1. i \in 1..n  BY <2>3
    <3>2. longer[i] = records[i]  BY <1>7, <3>1 DEF longer
    <3> QED BY <1>5, <2>2, <2>3, <3>2
  <2>4. CASE i = n + 1  BY <1>7, <1>9, <2>2, <2>4 DEF longer
  <2>5. CASE i > n + 1
    <3>1. PICK j \in 1..l : j = i - (n + 1)  BY <1>3, <2>5
    <3>2. i - n = j + 1  BY <3>1
    <3>3. told[i] = queue[j + 1]  BY <1>5, <2>5, <3>2
    <3>4. moved[i] = tail[j]  BY <2>2, <2>5, <3>1
    <3> QED BY <1>4, <3>3, <3>4
  <2> QED BY <2>3, <2>4, <2>5
<1>11. moved = told
  <2>1. Len(moved) = n + m  BY <1>3, <1>8
  <2> QED BY <1>5, <1>8, <1>10, <2>1, SeqEqual
<1>12. IsCut(told, n + 1, rest)
  <2>1. Len(told) = Len(rest) + 1 /\ Len(rest) = n + l  BY <1>3, <1>5, <1>6 DEF rest
  <2>2. ASSUME NEW i \in 1..n + l
        PROVE  rest[i] = IF i < n + 1 THEN told[i] ELSE told[i + 1]
    <3>1. i \in 1..n + m /\ i + 1 \in 1..n + m  BY <1>3
    <3>2. CASE i <= n  BY <1>5, <1>6, <3>1, <3>2 DEF rest
    <3>3. CASE i > n
      <4>1. PICK j \in 1..l : j = i - n  BY <3>3
      <4>2. (i + 1) - n = j + 1 /\ ~(i + 1 <= n) /\ ~(i <= n)  BY <3>3, <4>1
      <4>3. told[i + 1] = queue[j + 1]  BY <1>5, <3>1, <4>2
      <4>4. rest[i] = tail[j]  BY <1>6, <4>1, <4>2 DEF rest
      <4> QED BY <1>4, <3>3, <4>3, <4>4
    <3> QED BY <3>2, <3>3
  <2>3. rest \in Seq(RecordType)  BY <1>6 DEF rest
  <2> QED BY <2>1, <2>2, <2>3 DEF IsCut
<1> QED BY <1>1, <1>5, <1>9, <1>11, <1>12 DEF told, moved, rest, head, tail

\* The log, and the log with one record of the queue, come first.
LEMMA ToldFirst ==
    ASSUME NEW records \in Seq(RecordType), NEW queue \in Seq(RecordType)
    PROVE  LET told == records \o queue
           IN  /\ told \in Seq(RecordType) /\ Len(records) <= Len(told)
               /\ \A i \in 1..Len(records) : records[i] = told[i]
<1>1. PICK n \in Nat, m \in Nat : n = Len(records) /\ m = Len(queue)  BY LenProperties
<1> DEFINE told == records \o queue
<1>2. /\ told \in Seq(RecordType) /\ Len(told) = n + m
      /\ \A i \in 1..n + m : told[i] = IF i <= n THEN records[i] ELSE queue[i - n]
  BY <1>1, ConcatProperties
<1> HIDE DEF told
<1>3. Len(records) <= Len(told) /\ \A i \in 1..Len(records) : records[i] = told[i]
  BY <1>1, <1>2
<1> QED BY <1>2, <1>3 DEF told

-----------------------------------------------------------------------------
(* The story the log tells                                                 *)

\* What is flagged was told, calls come after the drift they were blocked for,
\* a tool never checked has no drift, and the drifts of the others are linked.
Story(told, bases, flagged, gone) ==
    /\ \A t \in flagged : HasDrift(told, t) \/ t \in gone
    /\ Explained(told, gone)
    /\ \A t \in Tools : bases[t] = NoDef => ~HasDrift(told, t)
    /\ \A t \in Tools \ gone : Linked(told, t, bases[t])

StoryInv ==
    /\ process = "starting" => baselines = NoTools
    /\ process # "ended" => Story(Told, baselines, driftedTools, lost)
    /\ process = "ended" => Explained(log, lost)

\* Tools are checked for the first time, or once more without a drift.
Extends(more, bases) ==
    \A t \in Tools :
        /\ more[t] = bases[t] \/ bases[t] = NoDef
        /\ more[t] = NoDef => bases[t] = NoDef

LEMMA StoryBases ==
    ASSUME NEW told, NEW bases, NEW flagged, NEW gone, Story(told, bases, flagged, gone),
           NEW more, Extends(more, bases), NEW fewer, fewer \subseteq flagged
    PROVE  Story(told, more, fewer, gone)
<1>1. \A t \in Tools : more[t] = NoDef => ~HasDrift(told, t)  BY DEF Story, Extends
<1>2. ASSUME NEW t \in Tools \ gone PROVE Linked(told, t, more[t])
  <2>1. CASE more[t] = bases[t]  BY <2>1 DEF Story
  <2>2. CASE bases[t] = NoDef  BY <2>2, LinkedNone DEF Story
  <2> QED BY <2>1, <2>2 DEF Extends
<1> QED BY <1>1, <1>2 DEF Story

\* The record of a call that was blocked comes after that of the drift.
LEMMA StoryCall ==
    ASSUME NEW told \in Seq(RecordType), NEW bases, NEW flagged, NEW gone,
           Story(told, bases, flagged, gone), NEW rec \in RecordType, rec.type = "call",
           IsBlocked(rec) => rec.tool \in flagged
    PROVE  Story(Append(told, rec), bases, flagged, gone)
<1> DEFINE longer == Append(told, rec)
<1>1. \A t : ~Drift(rec, t)  BY DEF Drift
<1>2. \A t : HasDrift(longer, t) <=> HasDrift(told, t)  BY <1>1, DriftAppend
<1>3. Explained(longer, gone)
  <2>1. IsBlocked(rec) => HasDrift(told, rec.tool) \/ rec.tool \in gone  BY DEF Story
  <2> QED BY <2>1, ExplainedAppend DEF Story
<1>4. \A t \in Tools \ gone : Linked(longer, t, bases[t])
  BY <1>1, LinkedSame DEF Story
<1> HIDE DEF longer
<1>5. Story(longer, bases, flagged, gone)  BY <1>2, <1>3, <1>4 DEF Story
<1> QED BY <1>5 DEF longer

\* A drift is flagged and told, from the old definition to the new one.
LEMMA StoryDrift ==
    ASSUME NEW told \in Seq(RecordType), NEW bases, NEW flagged, NEW gone,
           Story(told, bases, flagged, gone), NEW rec \in RecordType, NEW t \in Tools,
           Drift(rec, t), rec.previousDefinitionDigest = bases[t],
           NEW more, more[t] = rec.newDefinitionDigest, more[t] # NoDef,
           \A u \in Tools : u # t =>
              /\ more[u] = bases[u] \/ bases[u] = NoDef
              /\ more[u] = NoDef => bases[u] = NoDef
    PROVE  Story(Append(told, rec), more, flagged \cup {t}, gone)
<1> DEFINE longer == Append(told, rec)
<1>1. rec.type = "tool_drift" /\ rec.tool = t  BY DEF Drift
<1>2. \A u : Drift(rec, u) <=> u = t  BY <1>1 DEF Drift
<1>3. \A u : HasDrift(longer, u) <=> HasDrift(told, u) \/ u = t  BY <1>2, DriftAppend
<1>4. Explained(longer, gone)
  <2>1. ~IsBlocked(rec)  BY <1>1 DEF IsBlocked
  <2> QED BY <2>1, ExplainedAppend DEF Story
<1>5. ASSUME NEW u \in Tools \ gone PROVE Linked(longer, u, more[u])
  <2>1. CASE u = t
    <3>1. Linked(told, t, rec.previousDefinitionDigest)  BY <2>1 DEF Story
    <3> QED BY <2>1, <3>1, LinkedNext
  <2>2. CASE u # t
    <3>1. Linked(told, u, more[u])
      <4>1. CASE more[u] = bases[u]  BY <4>1 DEF Story
      <4>2. CASE bases[u] = NoDef  BY <4>2, LinkedNone DEF Story
      <4> QED BY <2>2, <4>1, <4>2
    <3> QED BY <1>2, <2>2, <3>1, LinkedSame
  <2> QED BY <2>1, <2>2
<1>6. \A u \in Tools : more[u] = NoDef => ~HasDrift(longer, u)
  BY <1>3 DEF Story
<1>7. \A u \in flagged \cup {t} : HasDrift(longer, u) \/ u \in gone
  BY <1>3 DEF Story
<1> HIDE DEF longer
<1>8. Story(longer, more, flagged \cup {t}, gone)  BY <1>4, <1>5, <1>6, <1>7 DEF Story
<1> QED BY <1>8 DEF longer

\* A record that was not written is missed by the story of its tool only.
LEMMA StoryCut ==
    ASSUME NEW told \in Seq(RecordType), NEW p \in DOMAIN told, NEW rest,
           IsCut(told, p, rest), NEW bases, NEW flagged, NEW gone, NEW more,
           gone \subseteq more, \A t : Drift(told[p], t) => t \in more,
           Story(told, bases, flagged, gone)
    PROVE  Story(rest, bases, flagged, more)
<1>1. \A t : /\ HasDrift(rest, t) => HasDrift(told, t)
             /\ HasDrift(told, t) => HasDrift(rest, t) \/ Drift(told[p], t)
  BY DriftCut
<1>2. Explained(rest, more)  BY ExplainedCut DEF Story
<1>3. \A t \in Tools \ more : Linked(rest, t, bases[t])
  <2> SUFFICES ASSUME NEW t \in Tools \ more PROVE Linked(rest, t, bases[t])  OBVIOUS
  <2>1. t \in Tools \ gone /\ ~Drift(told[p], t)  OBVIOUS
  <2>2. Linked(told, t, bases[t])  BY <2>1 DEF Story
  <2> QED BY <2>1, <2>2, LinkedCut
<1> QED BY <1>1, <1>2, <1>3 DEF Story

-----------------------------------------------------------------------------
(* The steps and the story                                                 *)

\* Tools that do not drift are checked.
LEMMA CheckExtends ==
    ASSUME TypeOK, NEW tools \in Listings, NEW S \in SUBSET DOMAIN tools, Check(tools, S)
    PROVE  \A t \in Tools :
              (t \in S => ~Drifts(tools, t)) =>
                 /\ baselines'[t] = baselines[t] \/ baselines[t] = NoDef
                 /\ baselines'[t] = NoDef => baselines[t] = NoDef
<1>1. baselines' = Updated(tools, S)  BY DEF Check
<1>2. \A t \in DOMAIN tools : tools[t] \in Defs  BY ListingIs
<1>3. \A t \in Tools :
         baselines'[t] = IF t \in S THEN computeDigest(tools[t]) ELSE baselines[t]
  BY <1>1 DEF Updated
<1>4. \A t \in S : computeDigest(tools[t]) # NoDef  BY <1>2, DigestType
<1> QED BY <1>3, <1>4 DEF Drifts

\* A turn of the loop that checks tools.
LEMMA CheckTells ==
    ASSUME TypeOK, NEW r \in Refreshes, NEW tools \in Listings,
           NEW records \in Seq(RecordType), NEW queue \in Seq(RecordType),
           checkToolIntegrity(r, tools, queue),
           Story(records \o queue, baselines, driftedTools, lost)
    PROVE  Story(records \o writeQueue', baselines', driftedTools', lost)
<1>1. /\ baselines \in [Tools -> Digests \cup {NoDef}]
      /\ DOMAIN tools \subseteq Tools /\ \A t \in DOMAIN tools : tools[t] \in Defs
  BY TypeOKIs, ListingIs
<1>2. CASE CheckEnds(r, tools, queue)
  <2> DEFINE S == IF Enabled THEN DOMAIN tools ELSE {}
  <2>1. /\ ~Enabled \/ Drifting(tools) = {}
        /\ Check(tools, S)
        /\ writeQueue' = queue /\ driftedTools' = driftedTools
    BY <1>2 DEF CheckEnds
  <2>2. S \in SUBSET DOMAIN tools /\ Check(tools, S)  BY <1>2 DEF CheckEnds
  <2>3. \A t \in S : ~Drifts(tools, t)  BY <2>1 DEF Drifting
  <2> HIDE DEF S
  <2>4. Extends(baselines', baselines)  BY <2>2, <2>3, CheckExtends DEF Extends
  <2>5. driftedTools' \subseteq driftedTools  BY <2>1
  <2> QED BY <2>1, <2>4, <2>5, StoryBases
<1>3. ASSUME NEW t \in Drifting(tools), NEW passed \in SUBSET (DOMAIN tools \ Drifting(tools)),
             CheckFinds(r, tools, queue, passed, t)
      PROVE  Story(records \o writeQueue', baselines', driftedTools', lost)
  <2> DEFINE rec == DriftRecord(r, t, baselines[t], computeDigest(tools[t]))
             S == passed \cup {t}
  <2>1. /\ t \in DOMAIN tools /\ t \in Tools /\ tools[t] \in Defs /\ baselines[t] \in Digests
        /\ \A u \in passed : ~Drifts(tools, u)
    BY <1>1 DEF Drifting, Drifts
  <2>2. /\ Check(tools, S) /\ driftedTools' = driftedTools \cup {t}
        /\ writeQueue' = Append(queue, rec)
    BY <1>3 DEF CheckFinds, Flag
  <2>3. S \in SUBSET DOMAIN tools  BY <2>1
  <2>4. /\ rec \in RecordType /\ Drift(rec, t)
        /\ rec.previousDefinitionDigest = baselines[t]
        /\ rec.newDefinitionDigest = computeDigest(tools[t])
    BY <2>1, RecordTypes, DigestType DEF DriftRecord, Drift
  <2>5. \A u \in Tools : u # t =>
           /\ baselines'[u] = baselines[u] \/ baselines[u] = NoDef
           /\ baselines'[u] = NoDef => baselines[u] = NoDef
    <3>1. \A u \in Tools : u # t => (u \in S => ~Drifts(tools, u))  BY <2>1
    <3> HIDE DEF S
    <3> QED BY <2>2, <2>3, <3>1, CheckExtends
  <2>6. baselines'[t] = computeDigest(tools[t]) /\ baselines'[t] # NoDef
    BY <2>1, <2>2, DigestType DEF Check, Updated
  <2> HIDE DEF rec, S
  <2>7. records \o queue \in Seq(RecordType)  BY ConcatProperties
  <2>8. Story(Append(records \o queue, rec), baselines', driftedTools \cup {t}, lost)
    BY <2>1, <2>4, <2>5, <2>6, <2>7, StoryDrift
  <2> QED BY <2>2, <2>4, <2>8, ToldAppend
<1> QED BY <1>2, <1>3 DEF checkToolIntegrity

\* The first listing finds no baselines.
LEMMA connectUpstreamTells ==
    ASSUME TypeInv, StoryInv, connectUpstream
    PROVE  StoryInv'
<1>1. /\ process = "starting" /\ process' = "serving" /\ baselines = NoTools
      /\ UNCHANGED <<log, writeQueue, driftedTools, lost>>
      /\ Story(Told, baselines, driftedTools, lost)
  BY DEF connectUpstream, StoryInv, audit
<1>2. TypeOK /\ Listed \in Listings  BY TypeOKIs, ListingTypes DEF TypeInv
<1>3. Extends(baselines', baselines)
  <2>1. CASE UNCHANGED baselines  BY <2>1 DEF Extends
  <2>2. CASE Check(Listed, IF Enabled THEN DOMAIN Listed ELSE {})
    <3> DEFINE S == IF Enabled THEN DOMAIN Listed ELSE {}
    <3>1. S \in SUBSET DOMAIN Listed /\ Check(Listed, S)  BY <2>2
    <3>2. \A t \in Tools : ~Drifts(Listed, t)  BY <1>1 DEF Drifts, NoTools
    <3> HIDE DEF S
    <3> QED BY <1>2, <3>1, <3>2, CheckExtends DEF Extends
  <2> QED BY <2>1, <2>2 DEF connectUpstream
<1>4. Told' = Told  BY <1>1 DEF Told
<1>5. Story(Told', baselines', driftedTools', lost')  BY <1>1, <1>3, <1>4, StoryBases
<1> QED BY <1>1, <1>5 DEF StoryInv

\* Steps that only take flags away, or nothing.
LEMMA SameStory ==
    ASSUME StoryInv, process # "ended", process' = process,
           UNCHANGED <<baselines, log, writeQueue, lost>>, driftedTools' \subseteq driftedTools
    PROVE  StoryInv'
<1>1. Story(Told, baselines, driftedTools, lost)  BY DEF StoryInv
<1>2. Extends(baselines, baselines)  BY DEF Extends
<1>3. Story(Told, baselines, driftedTools', lost)  BY <1>1, <1>2, StoryBases
<1>4. Told' = Told  BY DEF Told
<1> QED BY <1>3, <1>4 DEF StoryInv

\* Steps of a gateway that serves keep the story, if they keep this.
LEMMA StoryStep ==
    ASSUME process = "serving", process' = process,
           Story(Told', baselines', driftedTools', lost')
    PROVE  StoryInv'
  BY DEF StoryInv

LEMMA ConcludeTells ==
    ASSUME TypeInv, StoryInv, process = "serving", NEW c \in Calls, NEW t \in Tools,
           NEW o \in Outcomes, Conclude(c, t, o), o = "drifted" => t \in driftedTools,
           UNCHANGED <<process, baselines, driftedTools, log, lost>>
    PROVE  StoryInv'
<1> DEFINE rec == CallRecord(c, t, o)
<1>1. Story(Told, baselines, driftedTools, lost)  BY DEF StoryInv
<1>2. log \in Seq(RecordType) /\ writeQueue \in Seq(RecordType)  BY TypeOKIs DEF TypeInv
<1>3. /\ rec \in RecordType /\ rec.type = "call"
      /\ IsBlocked(rec) => rec.tool \in driftedTools
  BY RecordTypes DEF CallRecord, IsBlocked
<1>4. writeQueue' = Append(writeQueue, rec)  BY DEF Conclude
<1> HIDE DEF rec
<1>5. Told \in Seq(RecordType)  BY <1>2, ConcatProperties DEF Told
<1>6. Told' = Append(Told, rec)  BY <1>2, <1>3, <1>4, ToldAppend DEF Told
<1>7. Story(Told', baselines', driftedTools', lost')
  BY <1>1, <1>3, <1>5, <1>6, StoryCall
<1> QED BY <1>7, StoryStep

LEMMA CallsTell ==
    ASSUME TypeInv, StoryInv, NEW c \in Calls,
           (\E t \in Tools : Calling(c, t)) \/ UpstreamEnds(c)
    PROVE  StoryInv'
<1>1. process = "serving" /\ UNCHANGED <<process, baselines, driftedTools, log, lost>>
  BY DEF Calling, CallUnknown, CallBlocked, CallDenied, CallForwarded, CallArrives,
         UpstreamEnds, monitor
<1>2. ASSUME NEW t \in Tools, Calling(c, t), ~CallForwarded(c, t)
      PROVE  \E o \in Outcomes : Conclude(c, t, o) /\ (o = "drifted" => t \in driftedTools)
  BY <1>2 DEF Calling, CallUnknown, CallBlocked, CallDenied, Blocked, Outcomes, Refusals
<1>3. CASE \E t \in Tools : CallForwarded(c, t)
  <2>1. UNCHANGED writeQueue  BY <1>3 DEF CallForwarded
  <2> QED BY <1>1, <2>1, SameStory
<1>4. CASE UpstreamEnds(c)
  <2>1. calls[c].tool \in Tools  BY <1>4, TypeOKIs, PlaceTypes DEF TypeInv, UpstreamEnds
  <2>2. PICK o \in {"ok", "error"} : Conclude(c, calls[c].tool, o)  BY <1>4 DEF UpstreamEnds
  <2>3. o \in Outcomes /\ o # "drifted"  BY DEF Outcomes
  <2> QED BY <1>1, <2>1, <2>2, <2>3, ConcludeTells
<1> QED BY <1>1, <1>2, <1>3, <1>4, ConcludeTells

LEMMA RefreshArrivesTells ==
    ASSUME TypeInv, StoryInv, NEW r \in Refreshes, RefreshArrives(r)
    PROVE  StoryInv'
<1> DEFINE tools == refreshes[r].todo
<1>1. /\ process = "serving" /\ checkToolIntegrity(r, tools, writeQueue)
      /\ UNCHANGED <<process, log, lost>>
  BY DEF RefreshArrives
<1>2. /\ TypeOK /\ tools \in Listings /\ writeQueue \in Seq(RecordType)
      /\ log \in Seq(RecordType)
  BY TypeOKIs, PlaceTypes DEF TypeInv
<1> HIDE DEF tools
<1>3. Story(log \o writeQueue, baselines, driftedTools, lost)  BY <1>1 DEF StoryInv, Told
<1>4. Story(log \o writeQueue', baselines', driftedTools', lost)
  BY <1>1, <1>2, <1>3, CheckTells
<1> QED BY <1>1, <1>4, StoryStep DEF Told

\* The log settles its oldest record.
LEMMA SettlingTells ==
    ASSUME TypeInv, StoryInv, Settling
    PROVE  StoryInv'
<1> DEFINE rec == Head(writeQueue)
           rest == log \o Tail(writeQueue)
<1>1. process = "serving" /\ process' = process /\ writeQueue # <<>>
  BY DEF Settling, CallRecorded, CallUnrecorded, DriftRecorded, DriftUnrecorded, Writing
<1>2. /\ TypeOK /\ log \in Seq(RecordType) /\ writeQueue \in Seq(RecordType)
      /\ Story(Told, baselines, driftedTools, lost)
  BY <1>1, TypeOKIs DEF TypeInv, StoryInv
<1>3. /\ Told \in Seq(RecordType) /\ Len(log) + 1 \in DOMAIN Told /\ Told[Len(log) + 1] = rec
      /\ Append(log, rec) \o Tail(writeQueue) = Told
      /\ IsCut(Told, Len(log) + 1, rest)
  BY <1>1, <1>2, ToldHead DEF Told
<1>4. rec \in RecordType /\ Tail(writeQueue) \in Seq(RecordType)  BY <1>1, <1>2, QueueHead
<1> HIDE DEF rec, rest
<1>5. CASE CallRecorded
  <2>1. /\ log' = Append(log, rec) /\ writeQueue' = Tail(writeQueue)
        /\ UNCHANGED <<baselines, driftedTools, lost>>
    BY <1>5 DEF CallRecorded, Writing, monitor, rec
  <2>2. Told' = Told  BY <1>3, <2>1 DEF Told
  <2> QED BY <1>1, <1>2, <2>1, <2>2, StoryStep
<1>6. CASE CallUnrecorded
  <2>1. /\ writeQueue' = Tail(writeQueue) /\ rec.type = "call"
        /\ UNCHANGED <<log, baselines, driftedTools, lost>>
    BY <1>6 DEF CallUnrecorded, Writing, monitor, rec
  <2>2. Told' = rest  BY <2>1 DEF Told, rest
  <2>3. \A t : ~Drift(rec, t)  BY <2>1 DEF Drift
  <2>4. Story(rest, baselines, driftedTools, lost)  BY <1>2, <1>3, <2>3, StoryCut
  <2> QED BY <1>1, <2>1, <2>2, <2>4, StoryStep
<1>7. CASE DriftRecorded
  <2> DEFINE r == rec.refresh
             tools == refreshes[r].todo
             queue == Tail(writeQueue)
  <2>1. /\ log' = Append(log, rec) /\ rec.type = "tool_drift" /\ UNCHANGED lost
        /\ checkToolIntegrity(r, tools, queue)
    BY <1>7 DEF DriftRecorded, Writing, rec
  <2>2. r \in Refreshes /\ tools \in Listings
    BY <1>2, <1>4, <2>1, RecordTypes, TypeOKIs, PlaceTypes
  <2>3. Append(log, rec) \in Seq(RecordType)  BY <1>2, <1>4, AppendProperties
  <2> HIDE DEF r, tools
  <2>4. Story(Append(log, rec) \o queue, baselines, driftedTools, lost)  BY <1>2, <1>3
  <2>5. Story(Append(log, rec) \o writeQueue', baselines', driftedTools', lost)
    BY <1>2, <1>4, <2>1, <2>2, <2>3, <2>4, CheckTells
  <2> QED BY <1>1, <2>1, <2>5, StoryStep DEF Told
<1>8. CASE DriftUnrecorded
  <2>1. /\ writeQueue' = Tail(writeQueue) /\ lost' = lost \cup {rec.tool}
        /\ UNCHANGED <<log, baselines, driftedTools>>
    BY <1>8 DEF DriftUnrecorded, Writing, monitor, rec
  <2>2. Told' = rest  BY <2>1 DEF Told, rest
  <2>3. lost \subseteq lost' /\ \A t : Drift(rec, t) => t \in lost'  BY <2>1 DEF Drift
  <2>4. \A t : Drift(Told[Len(log) + 1], t) => t \in lost'  BY <1>3, <2>3, Zenon
  <2>5. Story(rest, baselines, driftedTools, lost')  BY <1>2, <1>3, <2>3, <2>4, StoryCut
  <2> QED BY <1>1, <2>1, <2>2, <2>5, StoryStep
<1> QED BY <1>5, <1>6, <1>7, <1>8 DEF Settling

\* The log that is left is the beginning of the story.
LEMMA ExitTells ==
    ASSUME TypeInv, StoryInv, Exit
    PROVE  StoryInv'
<1>1. process = "serving" /\ process' = "ended" /\ UNCHANGED lost  BY DEF Exit
<1>2. /\ log \in Seq(RecordType) /\ writeQueue \in Seq(RecordType)
      /\ Explained(Told, lost)
  BY <1>1, TypeOKIs DEF TypeInv, StoryInv, Story
<1>3. CASE UNCHANGED log
  <2>1. Explained(log, lost)  BY <1>2, ToldFirst, ExplainedFirst DEF Told
  <2> QED BY <1>1, <1>3, <2>1 DEF StoryInv
<1>4. CASE writeQueue # <<>> /\ log' = Append(log, Head(writeQueue))
  <2>1. Head(writeQueue) \in RecordType /\ Tail(writeQueue) \in Seq(RecordType)
    BY <1>2, <1>4, QueueHead
  <2>2. log' \in Seq(RecordType)  BY <1>2, <1>4, <2>1, AppendProperties
  <2>3. log' \o Tail(writeQueue) = Told  BY <1>2, <1>4, ToldHead DEF Told
  <2>4. Explained(log', lost)  BY <1>2, <2>1, <2>2, <2>3, ToldFirst, ExplainedFirst
  <2> QED BY <1>1, <2>4 DEF StoryInv
<1> QED BY <1>3, <1>4 DEF Exit

LEMMA InitTells == Init => StoryInv
<1> SUFFICES ASSUME Init PROVE StoryInv  OBVIOUS
<1>1. /\ process = "starting" /\ baselines = NoTools /\ log = <<>> /\ writeQueue = <<>>
      /\ driftedTools = {}
  BY DEF Init
<1>2. Told = <<>>  BY <1>1 DEF Told
<1>3. Story(<<>>, baselines, driftedTools, lost)
  BY <1>1 DEF Story, HasDrift, Explained, Linked
<1> QED BY <1>1, <1>2, <1>3 DEF StoryInv

LEMMA NextTells == TypeInv /\ StoryInv /\ [Next]_vars => StoryInv'
<1> SUFFICES ASSUME TypeInv, StoryInv, [Next]_vars PROVE StoryInv'  OBVIOUS
<1>1. CASE UNCHANGED vars
  <2>1. UNCHANGED <<process, baselines, driftedTools, log, writeQueue, lost>>
    BY <1>1 DEF vars, monitor, audit
  <2>2. Told' = Told  BY <2>1 DEF Told
  <2> QED BY <2>1, <2>2 DEF StoryInv, NoTools
<1>2. CASE ServerChanges \/ \E r \in Refreshes : RefreshListed(r)
  <2>1. /\ process # "ended" /\ UNCHANGED <<process, baselines, driftedTools, log,
                                            writeQueue, lost>>
    BY <1>2 DEF ServerChanges, RefreshListed, monitor, audit
  <2> QED BY <2>1, SameStory
<1>3. CASE connectUpstream  BY <1>3, connectUpstreamTells
<1>4. CASE rebaselineAll \/ \E t \in Tools : rebaselineTool(t)
  <2>1. /\ process # "ended" /\ driftedTools' \subseteq driftedTools
        /\ UNCHANGED <<process, baselines, log, writeQueue, lost>>
    BY <1>4 DEF rebaselineAll, rebaselineTool, Accept, audit
  <2> QED BY <2>1, SameStory
<1>5. CASE \E r \in Refreshes : Refreshing(r)
  BY <1>2, <1>5, RefreshArrivesTells DEF Refreshing
<1>6. CASE \/ \E c \in Calls, t \in Tools : Calling(c, t)
           \/ \E c \in Calls : UpstreamEnds(c)
  BY <1>6, CallsTell
<1>7. CASE Settling  BY <1>7, SettlingTells
<1>8. CASE Exit  BY <1>8, ExitTells
<1>9. CASE Finished  BY <1>1, <1>9 DEF Finished
<1> QED BY <1>1, <1>2, <1>3, <1>4, <1>5, <1>6, <1>7, <1>8, <1>9 DEF Next

\* What the log has is explained by what it has; what it will have is linked.
LEMMA StoryTells == TypeInv /\ StoryInv => BlockExplained /\ DriftsLinked
<1> SUFFICES ASSUME TypeInv, StoryInv PROVE BlockExplained /\ DriftsLinked  OBVIOUS
<1>1. Explained(log, lost)
  <2>1. log \in Seq(RecordType) /\ writeQueue \in Seq(RecordType)  BY TypeOKIs DEF TypeInv
  <2>2. CASE process # "ended"
    <3>1. Explained(Told, lost)  BY <2>2 DEF StoryInv, Story
    <3> QED BY <2>1, <3>1, ToldFirst, ExplainedFirst DEF Told
  <2>3. CASE process = "ended"  BY <2>3 DEF StoryInv
  <2> QED BY <2>2, <2>3
<1>2. BlockExplained  BY <1>1 DEF BlockExplained, Explained, IsBlocked
<1>3. DriftsLinked
  <2> SUFFICES ASSUME process = "serving", NEW t \in Tools \ lost
               PROVE  Linked(Told, t, baselines[t])
    BY DEF DriftsLinked, Linked, Newest, Follows, Told
  <2> QED BY DEF StoryInv, Story
<1> QED BY <1>2, <1>3

\* The record of a call blocked for drift comes after the record of the drift,
\* for any number of refreshes and calls that share the log, unless that record
\* was lost.
THEOREM BlocksAreExplained == Spec => []BlockExplained
<1> QED BY InitTypes, NextTypes, InitTells, NextTells, StoryTells, PTL DEF Spec

\* The drift records of a tool lead from each definition to the next and to the
\* baseline, for any number of refreshes, unless one was lost.
THEOREM DriftsAreLinked == Spec => []DriftsLinked
<1> QED BY InitTypes, NextTypes, InitTells, NextTells, StoryTells, PTL DEF Spec

=============================================================================
