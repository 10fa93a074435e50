------------------------------ MODULE WarRoom ------------------------------
(* The war-room page (app.js), its requests (api.js) and its event stream,   *)
(* against a server that keeps its incidents in memory, may be out of reach, *)
(* and forgets them all when it restarts.  The page awaits every answer, and *)
(* answers come in any order: what it shows is the incident of the last      *)
(* answer.  Rendering, and the panels whose answers change nothing the page  *)
(* acts on, are left out.                                                    *)
EXTENDS StreamConsumer

CONSTANT MaxRequests    \* bounds what the user starts while answers are awaited

VARIABLES page,         \* currentIncident
          listed,       \* incidents, as last loaded
          requests,     \* sent, and not yet answered
          up,           \* the server can be reached
          server        \* what the server knows of each incident

pageVars == <<page, listed, requests>>
serverVars == <<up, server>>
vars == <<stream, pageVars, serverVars>>

(* A list is loaded on start-up or before an incident just created is shown. *)
ListThen(next) == [op |-> "list", next |-> next]
Get(i) == [op |-> "get", incident |-> i]
Create == [op |-> "create"]

Known == {i \in Incident : server[i] \in {"running", "ended"}}
Unborn == {i \in Incident : server[i] = "unborn"}

(* The page boots by loading the list of incidents. *)
WarRoomInit ==
    /\ stream = NewConsumer
    /\ page = NoIncident
    /\ listed = {}
    /\ requests = {ListThen("boot")}
    /\ up \in BOOLEAN
    /\ server \in [Incident -> {"unborn", "running", "ended"}]

-----------------------------------------------------------------------------
(* The user.  Two requests for one incident are answered alike, so they are  *)
(* one member of `requests`.                                                 *)

Ask(r) ==
    /\ Cardinality(requests) < MaxRequests
    /\ requests' = requests \union {r}
    /\ UNCHANGED <<stream, page, listed, serverVars>>

SelectIncident(i) == i \in listed /\ Ask(Get(i))

CreateIncident == Unborn # {} /\ Ask(Create)

(* The answers.  A request that fails only shows a message, except that a    *)
(* failed list leaves the old one in place and its caller goes on.  On       *)
(* start-up the first of the list is shown, whichever the server puts first. *)

AfterList(next, incidents) ==
    IF next # "boot" THEN {Get(next)}
    ELSE IF incidents = {} THEN {Create}
    ELSE {Get(i) : i \in incidents}

ListReturns(r) ==
    /\ r.op = "list"
    /\ listed' = IF up THEN Known ELSE listed
    /\ \E q \in AfterList(r.next, listed') : requests' = (requests \ {r}) \union {q}
    /\ UNCHANGED <<stream, page, serverVars>>

CreateReturns(r, i) ==
    /\ r.op = "create" /\ up /\ i \in Unborn
    /\ server' = [server EXCEPT ![i] = "running"]
    /\ requests' = (requests \ {r}) \union {ListThen(i)}
    /\ UNCHANGED <<stream, page, listed, up>>

(* The incident is shown and its stream subscribed to in one turn. *)
IncidentReturns(r) ==
    /\ r.op = "get" /\ up /\ r.incident \in Known
    /\ page' = r.incident
    /\ stream' = Subscribe(stream, r.incident)
    /\ requests' = requests \ {r}
    /\ UNCHANGED <<listed, serverVars>>

RequestFails(r) ==
    /\ \/ r.op \in {"get", "create"} /\ ~up
       \/ r.op = "get" /\ r.incident \notin Known
    /\ requests' = requests \ {r}
    /\ UNCHANGED <<stream, page, listed, serverVars>>

Answer(r) ==
    \/ ListReturns(r)
    \/ \E i \in Incident : CreateReturns(r, i)
    \/ IncidentReturns(r)
    \/ RequestFails(r)

-----------------------------------------------------------------------------
(* The stream.  An incident the server knows is streamed; an incident that   *)
(* has ended is streamed from its history, and the server then closes.       *)

StreamOpens ==
    \E s \in stream.sources :
        /\ ~s.open /\ up /\ s.incident \in Known
        /\ OnOpen(s)
        /\ UNCHANGED <<pageVars, serverVars>>

StreamErrors ==
    \E s \in stream.sources :
        /\ \/ ~up \/ s.incident \notin Known
           \/ s.open /\ server[s.incident] = "ended"
        /\ OnError
        /\ UNCHANGED <<pageVars, serverVars>>

Reconnects ==
    \E t \in stream.timers : OnTimeout(t) /\ UNCHANGED <<pageVars, serverVars>>

-----------------------------------------------------------------------------
(* The server, and the way to it.  Other pages and alerts create incidents.  *)

Arrives(i) == up /\ server[i] = "unborn" /\ server' = [server EXCEPT ![i] = "running"]

Ends(i) == up /\ server[i] = "running" /\ server' = [server EXCEPT ![i] = "ended"]

Serve == (\E i \in Incident : Arrives(i) \/ Ends(i)) /\ UNCHANGED <<stream, pageVars, up>>

Unreachable == up /\ up' = FALSE /\ UNCHANGED <<stream, pageVars, server>>

Restarts ==
    /\ ~up
    /\ server' = [i \in Incident |-> IF server[i] = "unborn" THEN "unborn" ELSE "forgotten"]
    /\ UNCHANGED <<stream, pageVars, up>>

Reachable == ~up /\ up' = TRUE /\ UNCHANGED <<stream, pageVars, server>>

WarRoomNext ==
    \/ \E i \in Incident : SelectIncident(i)
    \/ CreateIncident
    \/ \E r \in requests : Answer(r)
    \/ StreamOpens \/ StreamErrors \/ Reconnects
    \/ Serve \/ Unreachable \/ Restarts \/ Reachable

(* The browser settles a connection it has begun, notices one that is gone,  *)
(* and fires its timeouts; nobody owes a click, an answer or a server.       *)
WarRoomSpec ==
    /\ WarRoomInit /\ [][WarRoomNext]_vars
    /\ WF_vars(StreamOpens) /\ WF_vars(StreamErrors) /\ WF_vars(Reconnects)

-----------------------------------------------------------------------------
(* However answers, errors, timeouts and selections interleave, the page     *)
(* holds one way to its stream at most - an EventSource or a timeout to open *)
(* the next - it is for the incident shown, and the indicator tells which:   *)
(* an incident that is shown without either is one the page says it gave up. *)
(* (subscribe, disconnect, _connect and _scheduleReconnect of sse.js:26-119.) *)
OneStream ==
    /\ stream.currentIncidentId = page
    /\ Cardinality(stream.sources) + Cardinality(stream.timers) <= 1
    /\ \A s \in stream.sources : s.handle = stream.eventSource /\ s.incident = page
    /\ page # NoIncident =>
         /\ stream.timers # {} <=> stream.status = "disconnected"
         /\ stream.sources = {} /\ stream.timers = {} <=> stream.status = "failed"
         /\ (\E s \in stream.sources : s.open) <=> stream.status = "connected"

Served(i) == page = i /\ up /\ server[i] = "running"

Reselected(i) == \E r \in requests : r = Get(i) /\ IncidentReturns(r)

(* Whatever went before - restarts, outages, attempts used up - a page that  *)
(* stays on an incident whose server stays within reach ends up connected    *)
(* for good, or has given up, and then only for as long as the user does not *)
(* select the incident again (onerror, _scheduleReconnect, subscribe).       *)
StreamComesBack ==
    \A i \in Incident :
        <>[]Served(i) => \/ <>[](stream.status = "connected")
                         \/ /\ <>[](stream.status = "failed")
                            /\ <>[][~Reselected(i)]_vars
=============================================================================
