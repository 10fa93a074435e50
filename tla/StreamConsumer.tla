--------------------------- MODULE StreamConsumer ---------------------------
(* The browser's reader of an incident's event stream (sse.js).  `stream` is *)
(* the one StreamConsumer of the page together with what the browser holds   *)
(* for it: the EventSources not yet closed and the timeouts not yet fired or *)
(* cleared.  The two fields the class keeps, eventSource and                 *)
(* reconnectTimeout, are handles into those sets (0 for null), so an         *)
(* EventSource or a timeout the class has lost sight of stays visible here.  *)
(* Each method is a function on the state, as one may call several of them   *)
(* in a single turn of the browser's event loop.  The delay of a timeout and *)
(* the events read are left out: the server names every event, and the class *)
(* listens for unnamed ones only.  A closed EventSource reports nothing.     *)
EXTENDS Naturals, FiniteSets

CONSTANTS Incident, NoIncident, MaxReconnectAttempts

ASSUME IncidentAssumption == NoIncident \notin Incident
ASSUME AttemptsAssumption == MaxReconnectAttempts \in Nat

VARIABLE stream

NewConsumer == [sources |-> {}, timers |-> {}, eventSource |-> 0, reconnectTimeout |-> 0,
                currentIncidentId |-> NoIncident, reconnectAttempts |-> 0,
                status |-> "disconnected"]

(* A handle that no member of `used` has. *)
Fresh(used) == CHOOSE h \in 1 .. Cardinality(used) + 1 : h \notin used

Handles(sources) == {s.handle : s \in sources}

(* A browser opens the EventSource in the background: it is not open yet. *)
Connect(c) ==
    IF c.currentIncidentId = NoIncident
    THEN c
    ELSE LET h == Fresh(Handles(c.sources))
         IN [c EXCEPT !.sources = @ \union {[handle |-> h, incident |-> c.currentIncidentId,
                                             open |-> FALSE]},
                      !.eventSource = h,
                      !.status = "connecting"]

Close(c) == [c EXCEPT !.sources = {s \in @ : s.handle # c.eventSource}, !.eventSource = 0]

(* Faulty: the pending reconnection survives. *)
DisconnectButTimer(c) ==
    [Close(c) EXCEPT !.currentIncidentId = NoIncident, !.status = "disconnected"]

Disconnect(c) ==
    [Close(c) EXCEPT !.timers = @ \ {c.reconnectTimeout},
                     !.currentIncidentId = NoIncident,
                     !.status = "disconnected"]

(* Faulty: an incident given up on counts as streaming. *)
SubscribeOnce(c, i) ==
    IF c.currentIncidentId = i
    THEN c
    ELSE Connect([Disconnect(c) EXCEPT !.currentIncidentId = i, !.reconnectAttempts = 0])

Subscribe(c, i) ==
    IF c.currentIncidentId = i /\ c.eventSource # 0
    THEN c
    ELSE Connect([Disconnect(c) EXCEPT !.currentIncidentId = i, !.reconnectAttempts = 0])

ScheduleReconnect(c) ==
    IF c.reconnectAttempts >= MaxReconnectAttempts
    THEN [c EXCEPT !.status = "failed"]
    ELSE LET others == c.timers \ {c.reconnectTimeout}
         IN [c EXCEPT !.reconnectAttempts = @ + 1,
                      !.timers = others \union {Fresh(others)},
                      !.reconnectTimeout = Fresh(others)]

-----------------------------------------------------------------------------
(* The callbacks: an EventSource opens, one reports an error, a timeout fires. *)

OnOpen(s) ==
    stream' = [stream EXCEPT !.sources = (@ \ {s}) \union {[s EXCEPT !.open = TRUE]},
                             !.reconnectAttempts = 0,
                             !.status = "connected"]

OnError == stream' = ScheduleReconnect([Close(stream) EXCEPT !.status = "disconnected"])

OnTimeout(t) == stream' = Connect([stream EXCEPT !.timers = @ \ {t}])
=============================================================================
