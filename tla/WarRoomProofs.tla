---------------------------- MODULE WarRoomProofs ----------------------------
(* Proofs about WarRoom, for any incidents, any number of reconnection       *)
(* attempts and of requests in flight, and whatever the server does.         *)
EXTENDS WarRoom, FiniteSetTheorems, TLAPS

Source == [handle : Nat, incident : Incident, open : BOOLEAN]

Status == {"disconnected", "connecting", "connected", "failed"}

Consumer ==
    [sources : SUBSET Source,
     timers : SUBSET Nat, eventSource : Nat, reconnectTimeout : Nat,
     currentIncidentId : Incident \union {NoIncident}, reconnectAttempts : Nat,
     status : Status]

(* Where the stream of a page that shows `shown` may stand: it holds nothing *)
(* - before the first incident, or when it has given up -, one EventSource   *)
(* that its handle names, or one timeout that its handle names.              *)
Holds0(c) == c.sources = {} /\ c.timers = {} /\ c.eventSource = 0

Holds1(c, shown) ==
    /\ c.timers = {} /\ c.eventSource = 1
    /\ \E o \in BOOLEAN :
         /\ c.sources = {[handle |-> 1, incident |-> shown, open |-> o]}
         /\ c.status = IF o THEN "connected" ELSE "connecting"

Waits(c) ==
    /\ c.sources = {} /\ c.eventSource = 0
    /\ c.timers = {c.reconnectTimeout}
    /\ c.status = "disconnected"

Shape(c, shown) ==
    /\ c \in Consumer
    /\ c.currentIncidentId = shown
    /\ \/ shown = NoIncident /\ Holds0(c) /\ c.status = "disconnected"
       \/ shown \in Incident /\ Holds0(c) /\ c.status = "failed"
       \/ shown \in Incident /\ Holds1(c, shown)
       \/ shown \in Incident /\ Waits(c)

IInv == Shape(stream, page)

-----------------------------------------------------------------------------
LEMMA FirstHandle == Fresh({}) = 1
<1>1. 1 .. Cardinality({}) + 1 = {1}
  BY FS_EmptySet
<1> QED BY <1>1 DEF Fresh

(* Connecting from nothing leaves one EventSource. *)
LEMMA ConnectOne ==
    ASSUME NEW c \in Consumer, NEW i \in Incident,
           c.currentIncidentId = i, c.sources = {}, c.timers = {}
    PROVE  Shape(Connect(c), i)
<1> DEFINE S == {[handle |-> 1, incident |-> i, open |-> FALSE]}
<1>1. Handles(c.sources) = {}
  BY DEF Handles
<1>2. Connect(c) = [c EXCEPT !.sources = S, !.eventSource = 1, !.status = "connecting"]
  BY <1>1, FirstHandle, IncidentAssumption DEF Connect
<1>3. Connect(c) \in Consumer
  <2>1. S \in SUBSET Source
    BY DEF Source
  <2>2. 1 \in Nat /\ "connecting" \in Status
    BY DEF Status
  <2> HIDE DEF S
  <2>3. [c EXCEPT !.sources = S, !.eventSource = 1, !.status = "connecting"] \in Consumer
    BY <2>1, <2>2, Zenon DEF Consumer
  <2> QED BY <1>2, <2>3, Zenon
<1>4. Holds1(Connect(c), i)
  BY <1>2 DEF Holds1, Consumer
<1>5. Connect(c).currentIncidentId = i
  BY <1>2 DEF Consumer
<1> QED BY <1>3, <1>4, <1>5 DEF Shape

(* Closing leaves no EventSource. *)
LEMMA CloseNone ==
    ASSUME NEW c, NEW shown, Shape(c, shown)
    PROVE  /\ Close(c) \in Consumer
           /\ Close(c).sources = {} /\ Close(c).eventSource = 0
           /\ Close(c).timers = c.timers
           /\ Close(c).reconnectTimeout = c.reconnectTimeout
           /\ Close(c).currentIncidentId = shown
<1>1. {s \in c.sources : s.handle # c.eventSource} = {}
  BY DEF Shape, Holds0, Holds1, Waits
<1>2. Close(c) = [c EXCEPT !.sources = {}, !.eventSource = 0]
  BY <1>1 DEF Close
<1>3. Close(c) \in Consumer
  <2>1. {} \in SUBSET Source /\ 0 \in Nat /\ c \in Consumer
    BY DEF Shape
  <2>2. [c EXCEPT !.sources = {}, !.eventSource = 0] \in Consumer
    BY <2>1, Zenon DEF Consumer
  <2> QED BY <1>2, <2>2, Zenon
<1> QED BY <1>2, <1>3 DEF Shape, Consumer

(* Disconnecting leaves nothing, whatever was held. *)
LEMMA DisconnectNone ==
    ASSUME NEW c, NEW shown, Shape(c, shown)
    PROVE  Disconnect(c) \in Consumer /\ Holds0(Disconnect(c))
<1> DEFINE d == Close(c)
<1>1. d \in Consumer /\ d.sources = {} /\ d.eventSource = 0
  BY CloseNone
<1>2. c.timers \ {c.reconnectTimeout} = {}
  BY DEF Shape, Holds0, Holds1, Waits
<1>3. Disconnect(c) = [d EXCEPT !.timers = {}, !.currentIncidentId = NoIncident,
                                !.status = "disconnected"]
  BY <1>2, CloseNone DEF Disconnect
<1> HIDE DEF d
<1>4. {} \in SUBSET Nat /\ "disconnected" \in Status
      /\ NoIncident \in Incident \union {NoIncident}
  BY DEF Status
<1>5. Disconnect(c) \in Consumer
  <2>1. [d EXCEPT !.timers = {}, !.currentIncidentId = NoIncident,
                  !.status = "disconnected"] \in Consumer
    BY <1>1, <1>4, Zenon DEF Consumer
  <2> QED BY <1>3, <2>1, Zenon
<1> QED BY <1>1, <1>3, <1>5 DEF Consumer, Holds0

(* Subscribing leaves one EventSource, for the incident asked for. *)
LEMMA SubscribeOne ==
    ASSUME NEW c, NEW shown, Shape(c, shown), NEW i \in Incident
    PROVE  Shape(Subscribe(c, i), i)
<1>1. CASE c.currentIncidentId = i /\ c.eventSource # 0
  BY <1>1 DEF Subscribe, Shape
<1>2. CASE ~(c.currentIncidentId = i /\ c.eventSource # 0)
  <2> DEFINE e == Disconnect(c)
             d == [e EXCEPT !.currentIncidentId = i, !.reconnectAttempts = 0]
  <2>1. e \in Consumer /\ e.sources = {} /\ e.timers = {}
    BY DisconnectNone DEF Holds0
  <2>2. i \in Incident \union {NoIncident} /\ 0 \in Nat
    OBVIOUS
  <2> HIDE DEF e
  <2>3. d \in Consumer
    BY <2>1, <2>2, Zenon DEF Consumer
  <2>4. d.currentIncidentId = i /\ d.sources = {} /\ d.timers = {}
    BY <2>1 DEF Consumer
  <2>5. Subscribe(c, i) = Connect(d)
    BY <1>2 DEF Subscribe, e
  <2> HIDE DEF d
  <2> QED BY <2>4, <2>5, <2>3, ConnectOne
<1> QED BY <1>1, <1>2

(* An error takes the EventSource away, and leaves a timeout or nothing. *)
LEMMA ErrorLeavesTimer ==
    ASSUME NEW c, NEW shown \in Incident, Shape(c, shown), Holds1(c, shown)
    PROVE  Shape(ScheduleReconnect([Close(c) EXCEPT !.status = "disconnected"]), shown)
<1> DEFINE e == Close(c)
           d == [e EXCEPT !.status = "disconnected"]
<1>1. e \in Consumer /\ e.sources = {} /\ e.eventSource = 0 /\ e.timers = {}
      /\ e.currentIncidentId = shown
  BY CloseNone DEF Holds1
<1>2. "disconnected" \in Status /\ "failed" \in Status
  BY DEF Status
<1> HIDE DEF e
<1>3. d \in Consumer
  BY <1>1, <1>2, Zenon DEF Consumer
<1>4. /\ d \in Consumer /\ d.sources = {} /\ d.eventSource = 0 /\ d.timers = {}
      /\ d.currentIncidentId = shown /\ d.status = "disconnected"
  BY <1>1, <1>3 DEF Consumer
<1> HIDE DEF d
<1>5. ASSUME d.reconnectAttempts >= MaxReconnectAttempts
      PROVE  Shape(ScheduleReconnect(d), shown)
  <2>1. ScheduleReconnect(d) = [d EXCEPT !.status = "failed"]
    BY <1>5 DEF ScheduleReconnect
  <2>2. [d EXCEPT !.status = "failed"] \in Consumer
    BY <1>4, <1>2, Zenon DEF Consumer
  <2>3. ScheduleReconnect(d) \in Consumer
    BY <2>1, <2>2, Zenon
  <2> QED BY <2>1, <2>3, <1>4 DEF Shape, Holds0, Consumer
<1>6. ASSUME ~(d.reconnectAttempts >= MaxReconnectAttempts)
      PROVE  Shape(ScheduleReconnect(d), shown)
  <2>1. d.timers \ {d.reconnectTimeout} = {}
    BY <1>4
  <2>2. ScheduleReconnect(d) = [d EXCEPT !.reconnectAttempts = @ + 1, !.timers = {1},
                                         !.reconnectTimeout = 1]
    BY <1>6, <2>1, FirstHandle DEF ScheduleReconnect
  <2>3. d.reconnectAttempts + 1 \in Nat /\ {1} \in SUBSET Nat
    BY <1>4 DEF Consumer
  <2> DEFINE n == d.reconnectAttempts + 1
             T == {1}
  <2>4. n \in Nat /\ T \in SUBSET Nat /\ 1 \in Nat
    BY <2>3
  <2>5. ScheduleReconnect(d)
          = [d EXCEPT !.reconnectAttempts = n, !.timers = T, !.reconnectTimeout = 1]
    BY <2>2
  <2> HIDE DEF n, T
  <2>6. [d EXCEPT !.reconnectAttempts = n, !.timers = T, !.reconnectTimeout = 1]
          \in Consumer
    BY <1>4, <2>4, Zenon DEF Consumer
  <2>7. ScheduleReconnect(d) \in Consumer
    BY <2>5, <2>6, Zenon
  <2> QED BY <2>2, <2>7, <1>4 DEF Shape, Waits, Consumer
<1>7. Shape(ScheduleReconnect(d), shown)
  BY <1>5, <1>6
<1> QED BY <1>7 DEF d, e

-----------------------------------------------------------------------------
LEMMA InitIInv == WarRoomInit => IInv
<1>1. {} \in SUBSET Source /\ {} \in SUBSET Nat /\ 0 \in Nat
      /\ NoIncident \in Incident \union {NoIncident} /\ "disconnected" \in Status
  BY DEF Status
<1>2. NewConsumer \in Consumer
  BY <1>1, Zenon DEF NewConsumer, Consumer
<1> QED BY <1>2 DEF WarRoomInit, IInv, Shape, NewConsumer, Holds0

LEMMA NextIInv == IInv /\ [WarRoomNext]_vars => IInv'
<1> SUFFICES ASSUME IInv, [WarRoomNext]_vars PROVE IInv'
  OBVIOUS
<1>1. CASE UNCHANGED <<stream, page>>
  BY <1>1 DEF IInv
<1>2. ASSUME NEW r \in requests, IncidentReturns(r)
      PROVE  IInv'
  <2>1. r.incident \in Incident /\ stream' = Subscribe(stream, r.incident)
        /\ page' = r.incident
    BY <1>2 DEF IncidentReturns, Known
  <2> QED BY <2>1, SubscribeOne DEF IInv
<1>3. CASE StreamOpens
  <2>1. PICK s \in stream.sources : OnOpen(s) /\ UNCHANGED pageVars
    BY <1>3 DEF StreamOpens
  <2>2. page \in Incident /\ Holds1(stream, page)
    BY <2>1 DEF IInv, Shape, Holds0, Waits
  <2>3. s.handle = 1 /\ s.incident = page
        /\ (stream.sources \ {s}) \union {[s EXCEPT !.open = TRUE]}
             = {[handle |-> 1, incident |-> page, open |-> TRUE]}
    BY <2>2 DEF Holds1
  <2> DEFINE S == {[handle |-> 1, incident |-> page, open |-> TRUE]}
  <2>4. stream' = [stream EXCEPT !.sources = S, !.reconnectAttempts = 0,
                                 !.status = "connected"]
    BY <2>1, <2>3 DEF OnOpen
  <2>5. page' = page
    BY <2>1 DEF pageVars
  <2>6. stream' \in Consumer
    <3>1. S \in SUBSET Source
      BY <2>2 DEF Source
    <3>2. stream \in Consumer /\ 0 \in Nat /\ "connected" \in Status
      BY DEF IInv, Shape, Status
    <3> HIDE DEF S
    <3>3. [stream EXCEPT !.sources = S, !.reconnectAttempts = 0, !.status = "connected"]
            \in Consumer
      BY <3>1, <3>2, Zenon DEF Consumer
    <3> QED BY <2>4, <3>3, Zenon
  <2>7. stream'.currentIncidentId = page
    BY <2>4 DEF IInv, Shape, Consumer
  <2>8. Holds1(stream', page)
    BY <2>2, <2>4 DEF IInv, Shape, Consumer, Holds1
  <2> QED BY <2>2, <2>5, <2>6, <2>8, <2>7 DEF IInv, Shape
<1>4. CASE StreamErrors
  <2>1. PICK s \in stream.sources : OnError /\ UNCHANGED pageVars
    BY <1>4 DEF StreamErrors
  <2>2. page \in Incident /\ Holds1(stream, page)
    BY <2>1 DEF IInv, Shape, Holds0, Waits
  <2> QED BY <2>1, <2>2, ErrorLeavesTimer DEF IInv, OnError, pageVars
<1>5. CASE Reconnects
  <2>1. PICK t \in stream.timers : OnTimeout(t) /\ UNCHANGED pageVars
    BY <1>5 DEF Reconnects
  <2>2. page \in Incident /\ Waits(stream) /\ stream.timers = {t}
    BY <2>1 DEF IInv, Shape, Holds0, Holds1, Waits
  <2> DEFINE d == [stream EXCEPT !.timers = @ \ {t}]
  <2>3. d \in Consumer /\ d.sources = {} /\ d.timers = {} /\ d.currentIncidentId = page
    BY <2>2 DEF IInv, Shape, Consumer, Waits
  <2>4. stream' = Connect(d) /\ page' = page
    BY <2>1 DEF OnTimeout, pageVars
  <2> HIDE DEF d
  <2> QED BY <2>2, <2>3, <2>4, ConnectOne DEF IInv
<1>6. CASE UNCHANGED vars
  BY <1>1, <1>6 DEF vars, pageVars
<1>7. ASSUME NEW i \in Incident, SelectIncident(i) PROVE IInv'
  BY <1>1, <1>7 DEF SelectIncident, Ask
<1>8. CASE CreateIncident
  BY <1>1, <1>8 DEF CreateIncident, Ask
<1>9. ASSUME NEW r \in requests, Answer(r) PROVE IInv'
  BY <1>1, <1>2, <1>9 DEF Answer, ListReturns, CreateReturns, RequestFails
<1>10. CASE Serve \/ Unreachable \/ Restarts \/ Reachable
  BY <1>1, <1>10 DEF Serve, Unreachable, Restarts, Reachable, pageVars
<1> QED BY <1>3, <1>4, <1>5, <1>6, <1>7, <1>8, <1>9, <1>10 DEF WarRoomNext

(* However clicks, answers, errors, timeouts and restarts of the server      *)
(* interleave, the page holds one way to its stream at most, for the         *)
(* incident it shows, and its indicator tells which (sse.js:26-119).         *)
THEOREM PageHoldsOneStream == WarRoomSpec => []OneStream
<1>1. IInv => OneStream
  <2> SUFFICES ASSUME IInv PROVE OneStream
    OBVIOUS
  <2>1. CASE Holds0(stream)
    <3>1. Cardinality(stream.sources) + Cardinality(stream.timers) <= 1
      BY <2>1, FS_EmptySet DEF Holds0
    <3>2. page # NoIncident => stream.status = "failed"
      BY <2>1 DEF IInv, Shape, Holds0, Holds1, Waits
    <3> QED BY <2>1, <3>1, <3>2 DEF IInv, Shape, Holds0, OneStream
  <2>2. CASE page \in Incident /\ Holds1(stream, page)
    <3>1. PICK o \in BOOLEAN :
            /\ stream.sources = {[handle |-> 1, incident |-> page, open |-> o]}
            /\ stream.status = IF o THEN "connected" ELSE "connecting"
      BY <2>2 DEF Holds1
    <3>2. stream.timers = {} /\ stream.eventSource = 1
      BY <2>2 DEF Holds1
    <3>3. Cardinality(stream.sources) = 1
      BY <3>1, FS_Singleton
    <3>4. Cardinality(stream.sources) + Cardinality(stream.timers) <= 1
      BY <3>2, <3>3, FS_EmptySet
    <3>5. stream.timers # {} <=> stream.status = "disconnected"
      BY <3>1, <3>2
    <3>6. stream.sources = {} /\ stream.timers = {} <=> stream.status = "failed"
      BY <3>1
    <3>7. (\E s \in stream.sources : s.open) <=> stream.status = "connected"
      BY <3>1
    <3>8. \A s \in stream.sources : s.handle = stream.eventSource /\ s.incident = page
      BY <3>1, <3>2
    <3> QED BY <3>4, <3>5, <3>6, <3>7, <3>8 DEF IInv, Shape, OneStream
  <2>3. CASE page \in Incident /\ Waits(stream)
    <3>1. Cardinality(stream.sources) + Cardinality(stream.timers) <= 1
      <4>1. stream.sources = {} /\ Cardinality(stream.sources) = 0
        BY <2>3, FS_EmptySet DEF Waits
      <4>2. Cardinality(stream.timers) = 1
        BY <2>3, FS_Singleton DEF Waits
      <4> QED BY <4>1, <4>2
    <3> QED BY <2>3, <3>1 DEF IInv, Shape, Waits, OneStream
  <2> QED BY <2>1, <2>2, <2>3 DEF IInv, Shape
<1> QED BY <1>1, InitIInv, NextIInv, PTL DEF WarRoomSpec
=============================================================================
