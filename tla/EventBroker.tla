----------------------------- MODULE EventBroker -----------------------------
(***************************************************************************)
(* The broker between the investigations and the browsers                  *)
(* (apps/api/services/event_stream.py): it keeps the last events of every  *)
(* incident and a queue for every client that follows one.                 *)
(*                                                                         *)
(* Nothing is awaited that could suspend while the broker's lock is held,  *)
(* so publishing, subscribing and leaving are one step each.  A client's   *)
(* generator is suspended in two places: in queue.get(), under the         *)
(* heartbeat's timeout, and at a yield, until the client asks for more.    *)
(***************************************************************************)
EXTENDS Naturals, Sequences

CONSTANTS
  Incident,
  Subscriber,
  Topic,     (* the incident each subscriber follows     *)
  Kind,      (* the names of events                      *)
  Limit      (* history_buffer_size                      *)

ASSUME BrokerAssumption == Topic \in [Subscriber -> Incident] /\ Limit \in Nat

VARIABLES
  history,      (* _history, by incident                                   *)
  subscribers,  (* _subscribers, by incident: those whose queue is listed  *)
  queue,        (* each subscriber's queue                                 *)
  generator,    (* where each subscriber's generator stands                *)
  published,    (* history: all events, by incident                        *)
  received,     (* history: the events each subscriber was yielded         *)
  since         (* history: how many events a subscriber came too late for *)

brokerVars == <<history, subscribers, published>>
clientVars == <<queue, generator, received>>
vars == <<brokerVars, clientVars, since>>

TerminalKind == {"resolved", "failed", "escalated"}

(* An event's timestamp stands for its position among the incident's.      *)
Event == [event : Kind, timestamp : Nat]
Terminal == {e \in Event : e.event \in TerminalKind}

-----------------------------------------------------------------------------
(* Faulty buffers: one that drops the newest event when it is full, and    *)
(* one that grows beyond its size by one.                                  *)
DropNewest(h) == IF Len(h) > Limit THEN SubSeq(h, 1, Limit) ELSE h

KeepOneMore(h) == IF Len(h) > Limit + 1 THEN Tail(h) ELSE h

Recent(h) == IF Len(h) > Limit THEN Tail(h) ELSE h

Publish(i, kind) ==
  LET record == [event |-> kind, timestamp |-> Len(published[i]) + 1]
  IN  /\ published' = [published EXCEPT ![i] = Append(@, record)]
      /\ history' = [history EXCEPT ![i] = Recent(Append(@, record))]
      /\ queue' = [s \in Subscriber |->
                     IF s \in subscribers[i] THEN Append(queue[s], record)
                     ELSE queue[s]]
      /\ UNCHANGED <<subscribers, generator, received, since>>

-----------------------------------------------------------------------------
(* queue.get(): the first item is yielded, or the generator waits for one. *)
Fetch(s, items) ==
  \/ /\ items # <<>>
     /\ queue' = [queue EXCEPT ![s] = Tail(items)]
     /\ received' = [received EXCEPT ![s] = Append(@, Head(items))]
     /\ generator' = [generator EXCEPT ![s] = "YIELDED"]
  \/ /\ items = <<>>
     /\ queue' = [queue EXCEPT ![s] = <<>>]
     /\ generator' = [generator EXCEPT ![s] = "WAITING"]
     /\ UNCHANGED received

(* The queue starts with the incident's recent events. *)
Subscribe(s) ==
  LET past == history[Topic[s]]
  IN  /\ generator[s] = "CREATED"
      /\ subscribers' = [subscribers EXCEPT ![Topic[s]] = @ \cup {s}]
      /\ since' = [since EXCEPT ![s] = Len(published[Topic[s]]) - Len(past)]
      /\ Fetch(s, past)
      /\ UNCHANGED <<history, published>>

(* An item came while the generator waited. *)
Wake(s) ==
  /\ generator[s] = "WAITING"
  /\ queue[s] # <<>>
  /\ Fetch(s, queue[s])
  /\ UNCHANGED <<brokerVars, since>>

(* A faulty timeout: the item that a cancelled get() was about to return   *)
(* is lost.                                                                *)
HeartbeatLosesItem(s) ==
  /\ generator[s] = "WAITING"
  /\ generator' = [generator EXCEPT ![s] = "PINGED"]
  /\ queue' = [queue EXCEPT ![s] = IF @ = <<>> THEN @ ELSE Tail(@)]
  /\ UNCHANGED <<brokerVars, received, since>>

(* The timeout may expire when an item has arrived already: get() is       *)
(* cancelled before it takes the item, which stays for the next one.       *)
Heartbeat(s) ==
  /\ generator[s] = "WAITING"
  /\ generator' = [generator EXCEPT ![s] = "PINGED"]
  /\ UNCHANGED <<brokerVars, queue, received, since>>

(* A faulty end: the queue of the client stays listed. *)
CloseKeepsQueue(s) ==
  /\ generator' = [generator EXCEPT ![s] = "CLOSED"]
  /\ UNCHANGED <<history, published, subscribers, queue, received, since>>

(* The generator's finally clause. *)
Close(s) ==
  /\ generator' = [generator EXCEPT ![s] = "CLOSED"]
  /\ subscribers' = [subscribers EXCEPT ![Topic[s]] = @ \ {s}]
  /\ queue' = [queue EXCEPT ![s] = <<>>]
  /\ UNCHANGED <<history, published, received, since>>

YieldedTerminal(s) ==
  generator[s] = "YIELDED" /\ received[s][Len(received[s])].event \in TerminalKind

(* A faulty client loop, which goes on after a terminal event. *)
ResumeRegardless(s) ==
  /\ generator[s] \in {"YIELDED", "PINGED"}
  /\ Fetch(s, queue[s])
  /\ UNCHANGED <<brokerVars, since>>

(* The client asks for the next event. *)
Resume(s) ==
  /\ generator[s] \in {"YIELDED", "PINGED"}
  /\ \/ YieldedTerminal(s) /\ Close(s)
     \/ /\ ~YieldedTerminal(s)
        /\ Fetch(s, queue[s])
        /\ UNCHANGED <<brokerVars, since>>

(* The client goes away, at any time. *)
Disconnect(s) == generator[s] # "CLOSED" /\ Close(s)

Init ==
  /\ history = [i \in Incident |-> <<>>]
  /\ subscribers = [i \in Incident |-> {}]
  /\ queue = [s \in Subscriber |-> <<>>]
  /\ generator = [s \in Subscriber |-> "CREATED"]
  /\ published = [i \in Incident |-> <<>>]
  /\ received = [s \in Subscriber |-> <<>>]
  /\ since = [s \in Subscriber |-> 0]

Stream(s) ==
  Subscribe(s) \/ Wake(s) \/ Heartbeat(s) \/ Resume(s) \/ Disconnect(s)

Next ==
  \/ \E i \in Incident, kind \in Kind : Publish(i, kind)
  \/ \E s \in Subscriber : Stream(s)

Spec == Init /\ [][Next]_vars

(* The event loop runs a generator that has something to do; the client of *)
(* an open stream reads it.                                                *)
Fairness ==
  \A s \in Subscriber :
    WF_vars(Subscribe(s)) /\ WF_vars(Wake(s)) /\ WF_vars(Resume(s))

-----------------------------------------------------------------------------
Open(s) == generator[s] \in {"WAITING", "YIELDED", "PINGED"}

(* Type invariant, with the bound on the buffer. *)
TypeOK ==
  /\ history \in [Incident -> Seq(Event)]
  /\ \A i \in Incident : Len(history[i]) <= Limit
  /\ subscribers \in [Incident -> SUBSET Subscriber]
  /\ queue \in [Subscriber -> Seq(Event)]
  /\ generator \in [Subscriber -> {"CREATED", "WAITING", "YIELDED", "PINGED", "CLOSED"}]
  /\ published \in [Incident -> Seq(Event)]
  /\ received \in [Subscriber -> Seq(Event)]
  /\ since \in [Subscriber -> Nat]

(* What a late client is sent first is the end of the incident's events,   *)
(* as much of it as the buffer can hold.                                   *)
HistoryIsRecent ==
  \A i \in Incident :
    LET n == Len(published[i])
        m == Len(history[i])
    IN  /\ m = IF n < Limit THEN n ELSE Limit
        /\ \A k \in 1 .. m : history[i][k] = published[i][n - m + k]

(* What a client has received and what waits for it are, from where it     *)
(* joined, the incident's events: none missing, twice, or out of order,    *)
(* between replay and live events as well as around a heartbeat.           *)
GaplessDelivery ==
  \A s \in Subscriber :
    LET log == published[Topic[s]]
        seen == since[s] + Len(received[s])
    IN  /\ \A k \in DOMAIN received[s] : received[s][k] = log[since[s] + k]
        /\ Open(s) => /\ seen + Len(queue[s]) = Len(log)
                      /\ \A k \in DOMAIN queue[s] : queue[s][k] = log[seen + k]

(* A client is told the end of an incident once, and nothing after it.     *)
NothingAfterTerminal ==
  \A s \in Subscriber : \A k \in DOMAIN received[s] :
    k < Len(received[s]) => received[s][k].event \notin TerminalKind

(* The broker lists exactly the queues somebody still reads: none leaks    *)
(* when a client leaves, and none is forgotten.                            *)
ListsOpenStreams ==
  \A i \in Incident, s \in Subscriber :
    s \in subscribers[i] <=> (Topic[s] = i /\ Open(s))

(* A stream whose client has the end of the incident in its queue ends,    *)
(* whatever the heartbeats in between.                                     *)
TerminalEndsStream ==
  \A s \in Subscriber :
    (\E k \in DOMAIN queue[s] : queue[s][k].event \in TerminalKind)
      ~> generator[s] = "CLOSED"

Feed == INSTANCE EventFeed WITH
  Reader <- Subscriber, log <- published,
  reading <- [s \in Subscriber |->
                IF generator[s] = "CREATED" THEN "OUT"
                ELSE IF generator[s] = "CLOSED" THEN "LEFT" ELSE "IN"],
  position <- [s \in Subscriber |-> since[s] + Len(received[s])],
  read <- received

(* To its clients the broker is a log that each of them reads on its own.  *)
ImplementsFeed == Feed!Spec
=============================================================================
