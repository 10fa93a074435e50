-------------------------- MODULE EventBrokerProofs --------------------------
(***************************************************************************)
(* Proofs about EventBroker, for any incidents, subscribers and buffer     *)
(* size.  What holds of a client depends on its own variables and its      *)
(* incident's log: the invariant is stated client by client in InStep.     *)
(***************************************************************************)
EXTENDS EventBroker, TLAPS

(* h is the end of log, of Limit events or all there are. *)
EndOf(h, log) ==
  /\ Len(h) = IF Len(log) < Limit THEN Len(log) ELSE Limit
  /\ \A k \in 1 .. Len(h) : h[k] = log[Len(log) - Len(h) + k]

(* r is a part of log that begins after its first b events ...             *)
Part(r, b, log) ==
  /\ b + Len(r) <= Len(log)
  /\ \A k \in 1 .. Len(r) : r[k] = log[b + k]

(* ... and q is what follows it in log.                                    *)
Rest(q, r, b, log) ==
  /\ b + Len(r) + Len(q) = Len(log)
  /\ \A k \in 1 .. Len(q) : q[k] = log[b + Len(r) + k]

Log(s) == published[Topic[s]]

Contiguous(s) ==
  /\ Part(received[s], since[s], Log(s))
  /\ Open(s) => Rest(queue[s], received[s], since[s], Log(s))

(* A terminal event is the last receipt of a generator that has not gone   *)
(* on since.                                                               *)
Ended(s) ==
  \A k \in 1 .. Len(received[s]) :
    received[s][k].event \in TerminalKind =>
      k = Len(received[s]) /\ generator[s] \in {"YIELDED", "CLOSED"}

InStep(s) ==
  /\ Contiguous(s)
  /\ Ended(s)
  /\ generator[s] = "CREATED" => received[s] = <<>> /\ queue[s] = <<>>
  /\ generator[s] = "YIELDED" => received[s] # <<>>
  /\ \A i \in Incident : s \in subscribers[i] <=> (Topic[s] = i /\ Open(s))

IInv == TypeOK /\ HistoryIsRecent /\ \A s \in Subscriber : InStep(s)

-----------------------------------------------------------------------------
(* What appending to, and taking from, a sequence does to its elements.    *)
LEMMA AppendFacts ==
  ASSUME NEW S, NEW q \in Seq(S), NEW e \in S
  PROVE  /\ Append(q, e) \in Seq(S)
         /\ Len(Append(q, e)) = Len(q) + 1
         /\ \A k \in 1 .. Len(q) : Append(q, e)[k] = q[k]
         /\ Append(q, e)[Len(q) + 1] = e
OBVIOUS

LEMMA TailFacts ==
  ASSUME NEW S, NEW q \in Seq(S), q # <<>>
  PROVE  /\ Len(q) \in Nat \ {0}
         /\ Head(q) \in S /\ Head(q) = q[1]
         /\ Tail(q) \in Seq(S)
         /\ Len(Tail(q)) = Len(q) - 1
         /\ \A k \in 1 .. Len(q) - 1 : Tail(q)[k] = q[k + 1]
OBVIOUS

(* Appending one event to a log and to its recent end. *)
LEMMA RecentOfAppend ==
  ASSUME NEW log \in Seq(Event), NEW h \in Seq(Event), NEW e \in Event,
         EndOf(h, log)
  PROVE  /\ Recent(Append(h, e)) \in Seq(Event)
         /\ Len(Recent(Append(h, e))) <= Limit
         /\ EndOf(Recent(Append(h, e)), Append(log, e))
<1> DEFINE g == Append(h, e)
           l == Append(log, e)
<1>t. Limit \in Nat /\ Len(h) \in Nat /\ Len(log) \in Nat
  BY BrokerAssumption
<1>g. /\ g \in Seq(Event) /\ g # <<>> /\ Len(g) = Len(h) + 1
      /\ \A k \in 1 .. Len(h) : g[k] = h[k]
      /\ g[Len(h) + 1] = e
  BY AppendFacts
<1>l. /\ Len(l) = Len(log) + 1
      /\ \A k \in 1 .. Len(log) : l[k] = log[k]
      /\ l[Len(log) + 1] = e
  BY AppendFacts
<1>h. /\ Len(h) = IF Len(log) < Limit THEN Len(log) ELSE Limit
      /\ \A k \in 1 .. Len(h) : h[k] = log[Len(log) - Len(h) + k]
  BY DEF EndOf
<1> HIDE DEF g, l
<1>e. \A k \in 1 .. Len(g) : g[k] = l[Len(l) - Len(g) + k]
  <2> SUFFICES ASSUME NEW k \in 1 .. Len(g) PROVE g[k] = l[Len(l) - Len(g) + k]
    OBVIOUS
  <2>1. Len(l) - Len(g) + k = Len(log) - Len(h) + k
    BY <1>t, <1>g, <1>l
  <2>2. CASE k = Len(h) + 1
    BY <1>t, <1>g, <1>l, <2>1, <2>2
  <2>3. CASE k \in 1 .. Len(h)
    <3>1. Len(log) - Len(h) + k \in 1 .. Len(log)
      BY <1>t, <1>h, <2>3
    <3> QED BY <1>g, <1>l, <1>h, <2>1, <2>3, <3>1
  <2> QED BY <1>t, <1>g, <2>2, <2>3
<1>1. CASE Len(g) > Limit
  <2> DEFINE t == Tail(g)
  <2>1. /\ Recent(g) = t /\ t \in Seq(Event) /\ Len(t) = Len(g) - 1
        /\ \A k \in 1 .. Len(g) - 1 : t[k] = g[k + 1]
    BY <1>g, <1>1, TailFacts DEF Recent
  <2> HIDE DEF t
  <2>2. Len(t) = Limit /\ ~(Len(l) < Limit)
    BY <1>t, <1>g, <1>l, <1>h, <1>1, <2>1
  <2>3. ASSUME NEW k \in 1 .. Len(t)
        PROVE  t[k] = l[Len(l) - Len(t) + k]
    <3>1. k + 1 \in 1 .. Len(g) /\ k \in 1 .. Len(g) - 1
      BY <1>t, <1>g, <2>1, <2>3
    <3>2. t[k] = l[Len(l) - Len(g) + (k + 1)]
      BY <1>e, <2>1, <3>1
    <3>3. Len(l) - Len(g) + (k + 1) = Len(l) - Len(t) + k
      <4>1. /\ Len(l) \in Nat /\ Len(g) \in Nat
            /\ Len(t) = Len(g) - 1 /\ k \in Nat
        BY <1>t, <1>g, <1>l, <2>1, <2>3
      <4> QED BY <4>1
    <3> QED BY <3>2, <3>3
  <2>4. EndOf(t, l)
    BY <2>2, <2>3 DEF EndOf
  <2> QED BY <1>t, <2>1, <2>2, <2>4 DEF g, l
<1>2. CASE ~(Len(g) > Limit)
  <2>1. Recent(g) = g
    BY <1>2 DEF Recent
  <2>2. Len(g) = IF Len(l) < Limit THEN Len(l) ELSE Limit
    BY <1>t, <1>g, <1>l, <1>h, <1>2
  <2>3. EndOf(g, l)
    BY <1>e, <2>2 DEF EndOf
  <2>4. Len(g) <= Limit
    <3>1. Len(g) \in Nat
      BY <1>t, <1>g
    <3> QED BY <1>t, <1>2, <3>1
  <2> QED BY <1>g, <2>1, <2>3, <2>4 DEF g, l
<1> QED BY <1>1, <1>2

(* A log that grows takes nothing from its readers. *)
LEMMA LogGrows ==
  ASSUME NEW log \in Seq(Event), NEW r \in Seq(Event), NEW q \in Seq(Event),
         NEW b \in Nat, NEW e \in Event, Part(r, b, log)
  PROVE  /\ Part(r, b, Append(log, e))
         /\ Rest(q, r, b, log) => Rest(Append(q, e), r, b, Append(log, e))
<1> DEFINE l == Append(log, e)
           p == Append(q, e)
<1>l. /\ Len(l) = Len(log) + 1
      /\ \A k \in 1 .. Len(log) : l[k] = log[k]
      /\ l[Len(log) + 1] = e
  BY AppendFacts
<1>q. /\ Len(p) = Len(q) + 1
      /\ \A k \in 1 .. Len(q) : p[k] = q[k]
      /\ p[Len(q) + 1] = e
  BY AppendFacts
<1> HIDE DEF l, p
<1>t. Len(log) \in Nat /\ Len(r) \in Nat /\ Len(q) \in Nat
  OBVIOUS
<1>1. Part(r, b, l)
  <2>1. b + Len(r) <= Len(log) /\ \A k \in 1 .. Len(r) : r[k] = log[b + k]
    BY DEF Part
  <2>2. b + Len(r) <= Len(l)
    BY <1>l, <1>t, <2>1
  <2>3. ASSUME NEW k \in 1 .. Len(r) PROVE r[k] = l[b + k]
    <3>1. b + k \in 1 .. Len(log)
      BY <1>t, <2>1, <2>3
    <3> QED BY <1>l, <2>1, <2>3, <3>1
  <2> QED BY <2>2, <2>3 DEF Part
<1>2. ASSUME Rest(q, r, b, log) PROVE Rest(p, r, b, l)
  <2>1. b + Len(r) + Len(p) = Len(l)
    <3>1. b + Len(r) + Len(q) = Len(log)
      BY <1>2 DEF Rest
    <3> QED BY <1>l, <1>q, <1>t, <3>1
  <2>2. ASSUME NEW k \in 1 .. Len(q) + 1
        PROVE  p[k] = l[b + Len(r) + k]
    <3>1. CASE k = Len(q) + 1
      <4>0. b + Len(r) + Len(q) = Len(log)
        BY <1>2 DEF Rest
      <4>1. b + Len(r) + k = Len(log) + 1
        BY <1>t, <3>1, <4>0
      <4> QED BY <1>l, <1>q, <3>1, <4>1
    <3>2. CASE k \in 1 .. Len(q)
      <4>1. b + Len(r) + k \in 1 .. Len(log)
        BY <1>2, <1>t, <3>2 DEF Rest
      <4>2. q[k] = log[b + Len(r) + k]
        BY <1>2, <3>2 DEF Rest
      <4> QED BY <1>l, <1>q, <3>2, <4>1, <4>2
    <3> QED BY <1>t, <2>2, <3>1, <3>2
  <2> QED BY <1>q, <2>1, <2>2 DEF Rest
<1> QED BY <1>1, <1>2 DEF l, p

(* A reader that takes the first of what remains has one event more behind *)
(* it and the others before it.                                            *)
LEMMA TakeFirst ==
  ASSUME NEW log \in Seq(Event), NEW r \in Seq(Event), NEW q \in Seq(Event),
         NEW b \in Nat, Part(r, b, log), Rest(q, r, b, log), q # <<>>
  PROVE  /\ Part(Append(r, Head(q)), b, log)
         /\ Rest(Tail(q), Append(r, Head(q)), b, log)
<1>q. /\ Len(q) \in Nat \ {0} /\ Head(q) \in Event /\ Head(q) = q[1]
      /\ Len(Tail(q)) = Len(q) - 1
      /\ \A k \in 1 .. Len(q) - 1 : Tail(q)[k] = q[k + 1]
  BY TailFacts
<1>r. /\ Len(Append(r, Head(q))) = Len(r) + 1
      /\ \A k \in 1 .. Len(r) : Append(r, Head(q))[k] = r[k]
      /\ Append(r, Head(q))[Len(r) + 1] = q[1]
  BY <1>q, AppendFacts
<1>t. Len(log) \in Nat /\ Len(r) \in Nat
  OBVIOUS
<1>b. /\ b + Len(r) + Len(q) = Len(log)
      /\ \A k \in 1 .. Len(q) : q[k] = log[b + Len(r) + k]
      /\ \A k \in 1 .. Len(r) : r[k] = log[b + k]
  BY DEF Part, Rest
<1> HIDE DEF Part, Rest
<1>1. ASSUME NEW k \in 1 .. Len(r) + 1
      PROVE  Append(r, Head(q))[k] = log[b + k]
  <2>1. Append(r, Head(q))[Len(r) + 1] = log[b + (Len(r) + 1)]
    <3>1. 1 \in 1 .. Len(q) /\ b + Len(r) + 1 = b + (Len(r) + 1)
      BY <1>q, <1>t
    <3> QED BY <1>b, <1>r, <3>1
  <2>2. CASE k = Len(r) + 1
    BY <2>1, <2>2
  <2>3. CASE k \in 1 .. Len(r)
    BY <1>r, <1>b, <2>3
  <2> QED BY <1>t, <1>1, <2>2, <2>3
<1>2. ASSUME NEW k \in 1 .. Len(q) - 1
      PROVE  Tail(q)[k] = log[b + (Len(r) + 1) + k]
  <2>1. k + 1 \in 1 .. Len(q) /\ b + Len(r) + (k + 1) = b + (Len(r) + 1) + k
    BY <1>q, <1>t, <1>2
  <2> QED BY <1>q, <1>b, <1>2, <2>1
<1> QED BY <1>q, <1>r, <1>t, <1>b, <1>1, <1>2 DEF Part, Rest

(* The recent end of a log is what remains of it for a new reader. *)
LEMMA StartAtEnd ==
  ASSUME NEW log \in Seq(Event), NEW h \in Seq(Event), EndOf(h, log)
  PROVE  /\ Len(log) - Len(h) \in Nat
         /\ Len(log) - Len(h) = IF Len(log) < Limit THEN 0 ELSE Len(log) - Limit
         /\ Part(<<>>, Len(log) - Len(h), log)
         /\ Rest(h, <<>>, Len(log) - Len(h), log)
<1>1. Limit \in Nat /\ Len(h) \in Nat /\ Len(log) \in Nat
  BY BrokerAssumption
<1>2. Len(<<>>) = 0
  OBVIOUS
<1>3. /\ Len(h) = IF Len(log) < Limit THEN Len(log) ELSE Limit
      /\ \A k \in 1 .. Len(h) : h[k] = log[Len(log) - Len(h) + k]
  BY DEF EndOf
<1>4. /\ Len(log) - Len(h) \in Nat
      /\ Len(log) - Len(h) = IF Len(log) < Limit THEN 0 ELSE Len(log) - Limit
  BY <1>1, <1>3
<1>5. Part(<<>>, Len(log) - Len(h), log)
  BY <1>1, <1>2, <1>4 DEF Part
<1>6. Rest(h, <<>>, Len(log) - Len(h), log)
  <2>1. Len(log) - Len(h) + Len(<<>>) + Len(h) = Len(log)
    BY <1>1, <1>2
  <2>2. ASSUME NEW k \in 1 .. Len(h)
        PROVE  h[k] = log[Len(log) - Len(h) + Len(<<>>) + k]
    <3>1. Len(log) - Len(h) + Len(<<>>) + k = Len(log) - Len(h) + k
      BY <1>1, <1>2, <2>2
    <3> QED BY <1>3, <2>2, <3>1
  <2> QED BY <2>1, <2>2 DEF Rest
<1> QED BY <1>4, <1>5, <1>6

LEMMA RecentEnds == HistoryIsRecent <=> \A i \in Incident : EndOf(history[i], published[i])
BY DEF HistoryIsRecent, EndOf

LEMMA InitIInv == Init => IInv
BY BrokerAssumption
   DEF Init, IInv, TypeOK, HistoryIsRecent, InStep, Contiguous, Part, Rest, Ended, Open, Log

(* Nothing changes for a client whose variables and log stay as they are. *)
LEMMA Unaffected ==
  ASSUME NEW s \in Subscriber, InStep(s),
         generator'[s] = generator[s], queue'[s] = queue[s],
         received'[s] = received[s], since'[s] = since[s],
         published' = published,
         \A i \in Incident : s \in subscribers'[i] <=> s \in subscribers[i]
  PROVE  InStep(s)'
BY DEF InStep, Contiguous, Ended, Open, Log

-----------------------------------------------------------------------------
LEMMA PublishStep ==
  ASSUME IInv, NEW i \in Incident, NEW kind \in Kind, Publish(i, kind)
  PROVE  IInv'
<1> DEFINE record == [event |-> kind, timestamp |-> Len(published[i]) + 1]
           h == Append(history[i], record)
<1>t. TypeOK /\ HistoryIsRecent /\ Limit \in Nat
  BY BrokerAssumption DEF IInv
<1>1. record \in Event
  BY <1>t DEF Event, TypeOK
<1>2. /\ published' = [published EXCEPT ![i] = Append(@, record)]
      /\ history' = [history EXCEPT ![i] = Recent(Append(@, record))]
      /\ queue' = [s \in Subscriber |-> IF s \in subscribers[i]
                                        THEN Append(queue[s], record) ELSE queue[s]]
      /\ subscribers' = subscribers /\ generator' = generator
      /\ received' = received /\ since' = since
  BY DEF Publish
<1> HIDE DEF record
<1>3. /\ published'[i] = Append(published[i], record)
      /\ history'[i] = Recent(Append(history[i], record))
      /\ published[i] \in Seq(Event) /\ history[i] \in Seq(Event)
      /\ EndOf(history[i], published[i])
  BY <1>t, <1>2, RecentEnds DEF TypeOK
<1>4. /\ history'[i] \in Seq(Event) /\ Len(history'[i]) <= Limit
      /\ EndOf(history'[i], published'[i])
      /\ published'[i] \in Seq(Event)
  BY <1>1, <1>3, RecentOfAppend, AppendFacts
<1>8. TypeOK'
  <2>1. \A j \in Incident : Len(history'[j]) <= Limit
    BY <1>t, <1>2, <1>4 DEF TypeOK
  <2>2. history' \in [Incident -> Seq(Event)]
    BY <1>t, <1>2, <1>3, <1>4 DEF TypeOK
  <2>3. queue' \in [Subscriber -> Seq(Event)]
    BY <1>t, <1>1, <1>2, AppendFacts DEF TypeOK
  <2>4. published' \in [Incident -> Seq(Event)]
    BY <1>t, <1>2, <1>3, <1>4 DEF TypeOK
  <2> QED BY <1>t, <1>2, <2>1, <2>2, <2>3, <2>4 DEF TypeOK
<1>9. HistoryIsRecent'
  <2>1. \A j \in Incident : EndOf(history'[j], published'[j])
    BY <1>t, <1>2, <1>4, RecentEnds DEF TypeOK
  <2> QED BY <2>1, RecentEnds DEF HistoryIsRecent, EndOf
<1>10. ASSUME NEW s \in Subscriber PROVE InStep(s)'
  <2>0. InStep(s) /\ Topic[s] \in Incident
    BY BrokerAssumption DEF IInv
  <2>1. s \in subscribers[i] <=> (Topic[s] = i /\ Open(s))
    BY <2>0 DEF InStep
  <2>2. Open(s)' <=> Open(s)
    BY <1>2 DEF Open
  <2>3. /\ queue[s] \in Seq(Event) /\ received[s] \in Seq(Event) /\ since[s] \in Nat
        /\ published[Topic[s]] \in Seq(Event)
    BY <1>t, <2>0 DEF TypeOK
  <2>4. Contiguous(s)'
    <3>1. CASE Topic[s] # i
      <4>1. queue'[s] = queue[s] /\ published'[Topic[s]] = published[Topic[s]]
        BY <1>t, <1>2, <2>0, <2>1, <3>1 DEF TypeOK
      <4> QED BY <1>2, <2>0, <2>2, <4>1 DEF InStep, Contiguous, Log
    <3>2. CASE Topic[s] = i
      <4>1. Log(s)' = Append(Log(s), record)
        BY <1>2, <1>3, <3>2, BrokerAssumption DEF Log
      <4>2. Open(s) => queue'[s] = Append(queue[s], record)
        BY <1>2, <2>1, <3>2
      <4>3. Part(received[s], since[s], Log(s))
        BY <2>0 DEF InStep, Contiguous
      <4>4. /\ Part(received[s], since[s], Append(Log(s), record))
            /\ Rest(queue[s], received[s], since[s], Log(s)) =>
                 Rest(Append(queue[s], record), received[s], since[s],
                      Append(Log(s), record))
        BY <1>1, <2>3, <4>3, LogGrows DEF Log
      <4> QED BY <1>2, <2>0, <2>2, <4>1, <4>2, <4>4 DEF InStep, Contiguous
    <3> QED BY <3>1, <3>2
  <2>5. generator[s] = "CREATED" => queue'[s] = <<>>
    BY <1>2, <2>0, <2>1 DEF InStep, Open
  <2> QED BY <1>2, <2>0, <2>2, <2>4, <2>5 DEF InStep, Ended
<1> QED BY <1>8, <1>9, <1>10 DEF IInv

-----------------------------------------------------------------------------
(* An open client that takes what is first in its queue stays in step. *)
LEMMA FetchStep ==
  ASSUME IInv, NEW s \in Subscriber, Open(s), ~YieldedTerminal(s),
         Fetch(s, queue[s]), UNCHANGED <<brokerVars, since>>
  PROVE  IInv'
<1>t. /\ TypeOK /\ HistoryIsRecent /\ InStep(s)
      /\ queue[s] \in Seq(Event) /\ received[s] \in Seq(Event) /\ since[s] \in Nat
  BY DEF IInv, TypeOK
<1>u. history' = history /\ subscribers' = subscribers /\ published' = published /\ since' = since
  BY DEF brokerVars
<1>l. Log(s) \in Seq(Event)
  BY <1>t, BrokerAssumption DEF TypeOK, Log
<1>o. ASSUME NEW t \in Subscriber, t # s PROVE InStep(t)'
  <2>1. /\ generator'[t] = generator[t] /\ queue'[t] = queue[t]
        /\ received'[t] = received[t] /\ since'[t] = since[t]
    BY <1>t, <1>u, <1>o DEF Fetch, TypeOK
  <2> QED BY <1>u, <2>1, Unaffected DEF IInv
<1>n. \A k \in 1 .. Len(received[s]) : received[s][k].event \notin TerminalKind
  BY <1>t DEF InStep, Ended, YieldedTerminal, Open
<1>1. CASE queue[s] # <<>>
  <2>1. /\ queue' = [queue EXCEPT ![s] = Tail(queue[s])]
        /\ received' = [received EXCEPT ![s] = Append(received[s], Head(queue[s]))]
        /\ generator' = [generator EXCEPT ![s] = "YIELDED"]
    BY <1>1 DEF Fetch
  <2>2. /\ Tail(queue[s]) \in Seq(Event) /\ Len(Tail(queue[s])) = Len(queue[s]) - 1
        /\ Len(queue[s]) \in Nat \ {0}
        /\ \A k \in 1 .. Len(queue[s]) - 1 : Tail(queue[s])[k] = queue[s][k + 1]
        /\ Head(queue[s]) \in Event /\ Head(queue[s]) = queue[s][1]
    BY <1>t, <1>1, TailFacts
  <2>3. /\ received'[s] \in Seq(Event) /\ Len(received'[s]) = Len(received[s]) + 1
        /\ \A k \in 1 .. Len(received[s]) : received'[s][k] = received[s][k]
        /\ received'[s][Len(received[s]) + 1] = queue[s][1]
    BY <1>t, <2>1, <2>2, AppendFacts DEF TypeOK
  <2>4. queue'[s] = Tail(queue[s]) /\ generator'[s] = "YIELDED"
    BY <1>t, <2>1 DEF TypeOK
  <2>5. TypeOK'
    BY <1>t, <1>u, <2>1, <2>2, <2>3 DEF TypeOK
  <2>6. Contiguous(s)'
    <3>1. /\ Part(Append(received[s], Head(queue[s])), since[s], Log(s))
          /\ Rest(Tail(queue[s]), Append(received[s], Head(queue[s])), since[s], Log(s))
      BY <1>t, <1>l, <1>1, TakeFirst DEF InStep, Contiguous
    <3>2. received'[s] = Append(received[s], Head(queue[s])) /\ Log(s)' = Log(s)
      BY <1>t, <1>u, <2>1 DEF TypeOK, Log
    <3> QED BY <1>u, <2>4, <3>1, <3>2 DEF Contiguous
  <2>7. Ended(s)'
    BY <1>t, <1>n, <2>3, <2>4 DEF Ended
  <2>8. received'[s] # <<>>
    BY <1>t, <2>3
  <2>9. InStep(s)'
    BY <1>t, <1>u, <2>4, <2>6, <2>7, <2>8 DEF InStep, Open
  <2>10. HistoryIsRecent'
    BY <1>t, <1>u DEF HistoryIsRecent
  <2> QED BY <1>o, <2>5, <2>9, <2>10 DEF IInv
<1>2. CASE queue[s] = <<>>
  <2>1. /\ queue' = [queue EXCEPT ![s] = <<>>] /\ received' = received
        /\ generator' = [generator EXCEPT ![s] = "WAITING"]
    BY <1>2 DEF Fetch
  <2>2. queue'[s] = queue[s] /\ generator'[s] = "WAITING"
    BY <1>t, <1>2, <2>1 DEF TypeOK
  <2>3. TypeOK'
    BY <1>t, <1>u, <2>1 DEF TypeOK
  <2>4. InStep(s)'
    BY <1>t, <1>u, <1>n, <2>1, <2>2 DEF InStep, Contiguous, Ended, Log, Open
  <2>5. HistoryIsRecent'
    BY <1>t, <1>u DEF HistoryIsRecent
  <2> QED BY <1>o, <2>3, <2>4, <2>5 DEF IInv
<1> QED BY <1>1, <1>2

LEMMA SubscribeStep ==
  ASSUME IInv, NEW s \in Subscriber, Subscribe(s)
  PROVE  IInv'
<1> DEFINE past == history[Topic[s]]
           start == Len(published[Topic[s]]) - Len(past)
<1>t. /\ TypeOK /\ HistoryIsRecent /\ InStep(s) /\ Topic[s] \in Incident /\ Limit \in Nat
      /\ past \in Seq(Event) /\ Log(s) \in Seq(Event)
  BY BrokerAssumption DEF IInv, TypeOK, Log
<1>u. /\ history' = history /\ published' = published
      /\ subscribers' = [subscribers EXCEPT ![Topic[s]] = @ \cup {s}]
      /\ since' = [since EXCEPT ![s] = start]
      /\ generator[s] = "CREATED" /\ received[s] = <<>>
  BY <1>t DEF Subscribe, InStep
<1>r. /\ start \in Nat
      /\ Part(<<>>, start, Log(s))
      /\ Rest(past, <<>>, start, Log(s))
  BY <1>t, StartAtEnd, RecentEnds DEF Log
<1>f. Fetch(s, past)
  BY DEF Subscribe
<1>h. since'[s] = start /\ HistoryIsRecent'
  BY <1>t, <1>u DEF TypeOK, HistoryIsRecent
<1> HIDE DEF past, start
<1>o. ASSUME NEW t \in Subscriber, t # s PROVE InStep(t)'
  <2>1. /\ generator'[t] = generator[t] /\ queue'[t] = queue[t]
        /\ received'[t] = received[t] /\ since'[t] = since[t]
    BY <1>t, <1>u, <1>f, <1>o DEF Fetch, TypeOK
  <2>2. \A i \in Incident : t \in subscribers'[i] <=> t \in subscribers[i]
    BY <1>t, <1>u, <1>o DEF TypeOK
  <2> QED BY <1>u, <2>1, <2>2, Unaffected DEF IInv
<1>g. \A i \in Incident : s \in subscribers'[i] <=> Topic[s] = i
  BY <1>t, <1>u DEF TypeOK, InStep, Open
<1>1. CASE past # <<>>
  <2>1. /\ queue' = [queue EXCEPT ![s] = Tail(past)]
        /\ received' = [received EXCEPT ![s] = Append(received[s], Head(past))]
        /\ generator' = [generator EXCEPT ![s] = "YIELDED"]
    BY <1>1, <1>f DEF Fetch
  <2>2. /\ Tail(past) \in Seq(Event) /\ Len(Tail(past)) = Len(past) - 1
        /\ Len(past) \in Nat \ {0}
        /\ \A k \in 1 .. Len(past) - 1 : Tail(past)[k] = past[k + 1]
        /\ Head(past) \in Event /\ Head(past) = past[1]
    BY <1>t, <1>1, TailFacts
  <2>3. /\ received'[s] \in Seq(Event) /\ Len(received'[s]) = 1
        /\ received'[s][1] = past[1]
    BY <1>t, <1>u, <2>1, <2>2, AppendFacts DEF TypeOK
  <2>4. queue'[s] = Tail(past) /\ generator'[s] = "YIELDED"
    BY <1>t, <2>1 DEF TypeOK
  <2>5. TypeOK'
    BY <1>t, <1>u, <1>r, <2>1, <2>2, <2>3 DEF TypeOK
  <2>6. Contiguous(s)'
    <3>1. /\ Part(Append(<<>>, Head(past)), start, Log(s))
          /\ Rest(Tail(past), Append(<<>>, Head(past)), start, Log(s))
      <4>1. <<>> \in Seq(Event)
        OBVIOUS
      <4> QED BY <1>t, <1>r, <1>1, <4>1, TakeFirst
    <3>2. received'[s] = Append(<<>>, Head(past)) /\ Log(s)' = Log(s)
      BY <1>t, <1>u, <2>1 DEF TypeOK, Log
    <3> QED BY <1>h, <2>4, <3>1, <3>2 DEF Contiguous
  <2>7. InStep(s)'
    BY <1>g, <2>3, <2>4, <2>6 DEF InStep, Ended, Open
  <2> QED BY <1>h, <1>o, <2>5, <2>7 DEF IInv
<1>2. CASE past = <<>>
  <2>1. /\ queue' = [queue EXCEPT ![s] = <<>>] /\ received' = received
        /\ generator' = [generator EXCEPT ![s] = "WAITING"]
    BY <1>2, <1>f DEF Fetch
  <2>2. queue'[s] = <<>> /\ generator'[s] = "WAITING" /\ received'[s] = <<>>
    BY <1>t, <1>u, <2>1 DEF TypeOK
  <2>3. TypeOK'
    BY <1>t, <1>u, <1>r, <2>1 DEF TypeOK
  <2>4. InStep(s)'
    BY <1>t, <1>u, <1>g, <1>h, <1>r, <1>2, <2>2 DEF InStep, Contiguous, Ended, Log, Open
  <2> QED BY <1>h, <1>o, <2>3, <2>4 DEF IInv
<1> QED BY <1>1, <1>2

LEMMA CloseStep ==
  ASSUME IInv, NEW s \in Subscriber, Close(s)
  PROVE  IInv'
<1>t. TypeOK /\ HistoryIsRecent /\ InStep(s) /\ Topic[s] \in Incident
  BY BrokerAssumption DEF IInv
<1>u. /\ history' = history /\ published' = published /\ received' = received /\ since' = since
      /\ subscribers' = [subscribers EXCEPT ![Topic[s]] = @ \ {s}]
      /\ queue' = [queue EXCEPT ![s] = <<>>]
      /\ generator' = [generator EXCEPT ![s] = "CLOSED"]
  BY DEF Close
<1>1. TypeOK'
  BY <1>t, <1>u DEF TypeOK
<1>2. HistoryIsRecent'
  BY <1>t, <1>u DEF HistoryIsRecent
<1>3. ASSUME NEW t \in Subscriber, t # s PROVE InStep(t)'
  <2>1. /\ generator'[t] = generator[t] /\ queue'[t] = queue[t]
        /\ \A i \in Incident : t \in subscribers'[i] <=> t \in subscribers[i]
    BY <1>t, <1>u, <1>3 DEF TypeOK
  <2> QED BY <1>u, <2>1, Unaffected DEF IInv
<1>4. InStep(s)'
  <2>1. generator'[s] = "CLOSED" /\ \A i \in Incident : s \notin subscribers'[i]
    BY <1>t, <1>u DEF TypeOK, InStep
  <2> QED BY <1>t, <1>u, <2>1 DEF InStep, Contiguous, Ended, Log, Open
<1> QED BY <1>1, <1>2, <1>3, <1>4 DEF IInv

LEMMA HeartbeatStep ==
  ASSUME IInv, NEW s \in Subscriber, Heartbeat(s)
  PROVE  IInv'
<1>t. TypeOK /\ HistoryIsRecent /\ InStep(s)
  BY DEF IInv
<1>u. /\ history' = history /\ published' = published /\ subscribers' = subscribers
      /\ received' = received /\ since' = since /\ queue' = queue
      /\ generator[s] = "WAITING" /\ generator' = [generator EXCEPT ![s] = "PINGED"]
  BY DEF Heartbeat, brokerVars
<1>1. TypeOK'
  BY <1>t, <1>u DEF TypeOK
<1>2. HistoryIsRecent'
  BY <1>t, <1>u DEF HistoryIsRecent
<1>3. ASSUME NEW t \in Subscriber, t # s PROVE InStep(t)'
  <2>1. generator'[t] = generator[t]
    BY <1>t, <1>u, <1>3 DEF TypeOK
  <2> QED BY <1>u, <2>1, Unaffected DEF IInv
<1>4. InStep(s)'
  <2>1. generator'[s] = "PINGED"
    BY <1>t, <1>u DEF TypeOK
  <2> QED BY <1>t, <1>u, <2>1 DEF InStep, Contiguous, Ended, Log, Open
<1> QED BY <1>1, <1>2, <1>3, <1>4 DEF IInv

LEMMA NextIInv == IInv /\ [Next]_vars => IInv'
<1> SUFFICES ASSUME IInv, [Next]_vars PROVE IInv'
  OBVIOUS
<1>1. ASSUME NEW i \in Incident, NEW kind \in Kind, Publish(i, kind) PROVE IInv'
  BY <1>1, PublishStep
<1>2. ASSUME NEW s \in Subscriber, Stream(s) PROVE IInv'
  <2>1. CASE Subscribe(s)
    BY <2>1, SubscribeStep
  <2>2. CASE Wake(s)
    BY <2>2, FetchStep DEF Wake, Open, YieldedTerminal
  <2>3. CASE Heartbeat(s)
    BY <2>3, HeartbeatStep
  <2>4. CASE Resume(s)
    BY <2>4, FetchStep, CloseStep DEF Resume, Open
  <2>5. CASE Disconnect(s)
    BY <2>5, CloseStep DEF Disconnect
  <2> QED BY <1>2, <2>1, <2>2, <2>3, <2>4, <2>5 DEF Stream
<1>3. CASE UNCHANGED vars
  BY <1>3 DEF vars, brokerVars, clientVars, IInv, TypeOK, HistoryIsRecent, InStep,
              Contiguous, Ended, Log, Open
<1> QED BY <1>1, <1>2, <1>3 DEF Next

LEMMA InductiveInvariant == Spec => []IInv
BY InitIInv, NextIInv, PTL DEF Spec

-----------------------------------------------------------------------------
(* The broker's state keeps its type and its buffer never outgrows Limit.  *)
THEOREM TypeCorrect == Spec => []TypeOK
<1>1. IInv => TypeOK
  BY DEF IInv
<1> QED BY <1>1, InductiveInvariant, PTL

(* The replay buffer is always the end of the incident's event log. *)
THEOREM RecentHistory == Spec => []HistoryIsRecent
<1>1. IInv => HistoryIsRecent
  BY DEF IInv
<1> QED BY <1>1, InductiveInvariant, PTL

(* No client misses, repeats or reorders an event between its replay, its  *)
(* live events and the heartbeats in between.                              *)
THEOREM Gapless == Spec => []GaplessDelivery
<1>1. IInv => GaplessDelivery
  <2> SUFFICES ASSUME IInv, NEW s \in Subscriber
               PROVE  LET log == published[Topic[s]]
                          seen == since[s] + Len(received[s])
                      IN  /\ \A k \in DOMAIN received[s] :
                               received[s][k] = log[since[s] + k]
                          /\ Open(s) =>
                               /\ seen + Len(queue[s]) = Len(log)
                               /\ \A k \in DOMAIN queue[s] : queue[s][k] = log[seen + k]
    BY DEF GaplessDelivery
  <2>1. Contiguous(s) /\ received[s] \in Seq(Event) /\ queue[s] \in Seq(Event)
    BY DEF IInv, TypeOK, InStep
  <2>2. DOMAIN received[s] = 1 .. Len(received[s]) /\ DOMAIN queue[s] = 1 .. Len(queue[s])
    BY <2>1
  <2> QED BY <2>1, <2>2 DEF Contiguous, Part, Rest, Log
<1> QED BY <1>1, InductiveInvariant, PTL

(* No client is sent anything after a terminal event. *)
THEOREM TerminalIsLast == Spec => []NothingAfterTerminal
<1>1. IInv => NothingAfterTerminal
  BY DEF IInv, TypeOK, InStep, Ended, NothingAfterTerminal
<1> QED BY <1>1, InductiveInvariant, PTL

(* The broker's lists hold the queues of the open streams and no other. *)
THEOREM NoQueueLeaks == Spec => []ListsOpenStreams
<1>1. IInv => ListsOpenStreams
  BY DEF IInv, InStep, ListsOpenStreams
<1> QED BY <1>1, InductiveInvariant, PTL

-----------------------------------------------------------------------------
(* A fetch is a read of the feed, or nothing when the queue is empty. *)
LEMMA FetchReads ==
  ASSUME IInv, NEW s \in Subscriber, Open(s), ~YieldedTerminal(s),
         Fetch(s, queue[s]), UNCHANGED <<brokerVars, since>>
  PROVE  [Feed!Next]_Feed!vars
<1>t. /\ TypeOK /\ InStep(s) /\ Contiguous(s) /\ Topic[s] \in Incident
      /\ queue[s] \in Seq(Event) /\ received[s] \in Seq(Event) /\ since[s] \in Nat
      /\ Log(s) \in Seq(Event)
  BY BrokerAssumption DEF IInv, TypeOK, InStep, Log
<1>u. published' = published /\ since' = since
  BY DEF brokerVars
<1>r. [r \in Subscriber |-> IF generator'[r] = "CREATED" THEN "OUT"
                            ELSE IF generator'[r] = "CLOSED" THEN "LEFT" ELSE "IN"]
      = [r \in Subscriber |-> IF generator[r] = "CREATED" THEN "OUT"
                            ELSE IF generator[r] = "CLOSED" THEN "LEFT" ELSE "IN"]
  <2>1. generator[s] \in {"WAITING", "YIELDED", "PINGED"}
    BY DEF Open
  <2>2. generator'[s] \in {"WAITING", "YIELDED", "PINGED"}
    BY <1>t DEF Fetch, TypeOK
  <2>3. \A r \in Subscriber : r # s => generator'[r] = generator[r]
    BY <1>t DEF Fetch, TypeOK
  <2> QED BY <2>1, <2>2, <2>3
<1>1. CASE queue[s] # <<>>
  <2>1. received' = [received EXCEPT ![s] = Append(received[s], Head(queue[s]))]
    BY <1>1 DEF Fetch
  <2>2. Len(queue[s]) \in Nat \ {0} /\ Head(queue[s]) = queue[s][1] /\ Head(queue[s]) \in Event
    BY <1>t, <1>1, TailFacts
  <2>3. Len(Append(received[s], Head(queue[s]))) = Len(received[s]) + 1
    BY <1>t, <2>2, AppendFacts
  <2>4. /\ since[s] + Len(received[s]) < Len(Log(s))
        /\ queue[s][1] = Log(s)[since[s] + Len(received[s]) + 1]
    <3>1. /\ since[s] + Len(received[s]) + Len(queue[s]) = Len(Log(s))
          /\ \A k \in 1 .. Len(queue[s]) :
               queue[s][k] = Log(s)[since[s] + Len(received[s]) + k]
      BY <1>t DEF Contiguous, Rest
    <3>2. 1 \in 1 .. Len(queue[s]) /\ Len(received[s]) \in Nat /\ Len(Log(s)) \in Nat
      BY <1>t, <2>2
    <3>3. since[s] + Len(received[s]) < Len(Log(s))
      BY <1>t, <2>2, <3>1, <3>2
    <3>4. queue[s][1] = Log(s)[since[s] + Len(received[s]) + 1]
      BY <3>1, <3>2
    <3> QED BY <3>3, <3>4
  <2>5. received[s] # <<>> => received[s][Len(received[s])] \notin Terminal
    BY <1>t DEF InStep, Ended, YieldedTerminal, Open, Terminal
  <2>6. [r \in Subscriber |-> since'[r] + Len(received'[r])]
        = [[r \in Subscriber |-> since[r] + Len(received[r])]
             EXCEPT ![s] = @ + 1]
    <3>1. /\ Len(received'[s]) = Len(received[s]) + 1
          /\ \A r \in Subscriber : r # s => received'[r] = received[r]
      BY <1>t, <2>1, <2>3 DEF TypeOK
    <3>2. since[s] + (Len(received[s]) + 1) = (since[s] + Len(received[s])) + 1
      BY <1>t
    <3> QED BY <1>u, <3>1, <3>2
  <2>7. Feed!Read(s)
    BY <1>u, <1>r, <2>1, <2>2, <2>4, <2>5, <2>6 DEF Feed!Read, Log, Open
  <2> QED BY <2>7 DEF Feed!Next
<1>2. CASE queue[s] = <<>>
  <2>1. received' = received
    BY <1>2 DEF Fetch
  <2> QED BY <1>u, <1>r, <2>1 DEF Feed!vars
<1> QED BY <1>1, <1>2

LEMMA PublishPublishes ==
  ASSUME IInv, NEW i \in Incident, NEW kind \in Kind, Publish(i, kind)
  PROVE  Feed!Publish(i)
<1> DEFINE record == [event |-> kind, timestamp |-> Len(published[i]) + 1]
<1>1. TypeOK /\ record \in Event
  <2>1. TypeOK /\ published[i] \in Seq(Event)
    BY DEF IInv, TypeOK
  <2>2. Len(published[i]) + 1 \in Nat
    BY <2>1
  <2> QED BY <2>1, <2>2 DEF Event
<1>2. /\ published' = [published EXCEPT ![i] = Append(@, record)]
      /\ generator' = generator /\ received' = received /\ since' = since
  BY DEF Publish
<1> HIDE DEF record
<1>3. published[i] \in Seq(Event) /\ published'[i] = Append(published[i], record)
  BY <1>1, <1>2 DEF TypeOK
<1>4. /\ Len(published'[i]) = Len(published[i]) + 1
      /\ published'[i][Len(published[i]) + 1] = record
  BY <1>1, <1>3, AppendFacts
<1> QED BY <1>1, <1>2, <1>4 DEF Feed!Publish

LEMMA SubscribeJoins ==
  ASSUME IInv, NEW s \in Subscriber, Subscribe(s)
  PROVE  Feed!Join(s)
<1> DEFINE past == history[Topic[s]]
           end == Len(Log(s))
           start == IF end < Limit THEN 0 ELSE end - Limit
<1>t. /\ TypeOK /\ InStep(s) /\ Topic[s] \in Incident
      /\ past \in Seq(Event) /\ Log(s) \in Seq(Event) /\ EndOf(past, Log(s))
  BY BrokerAssumption, RecentEnds DEF IInv, TypeOK, Log
<1>s. /\ end - Len(past) = start /\ start \in Nat
      /\ Rest(past, <<>>, start, Log(s))
  BY <1>t, StartAtEnd
<1>u. /\ published' = published /\ since' = [since EXCEPT ![s] = start]
      /\ generator[s] = "CREATED" /\ received[s] = <<>> /\ Fetch(s, past)
  BY <1>t, <1>s DEF Subscribe, InStep, Log
<1> HIDE DEF past, start
<1>r. [r \in Subscriber |-> IF generator'[r] = "CREATED" THEN "OUT"
                            ELSE IF generator'[r] = "CLOSED" THEN "LEFT" ELSE "IN"]
      = [[r \in Subscriber |-> IF generator[r] = "CREATED" THEN "OUT"
                            ELSE IF generator[r] = "CLOSED" THEN "LEFT" ELSE "IN"]
           EXCEPT ![s] = "IN"]
  <2>1. generator'[s] \in {"WAITING", "YIELDED"}
    BY <1>t, <1>u DEF Fetch, TypeOK
  <2>2. \A r \in Subscriber : r # s => generator'[r] = generator[r]
    BY <1>t, <1>u DEF Fetch, TypeOK
  <2> QED BY <2>1, <2>2
<1>1. CASE past # <<>>
  <2>1. received' = [received EXCEPT ![s] = Append(received[s], Head(past))]
    BY <1>1, <1>u DEF Fetch
  <2>2. Len(past) \in Nat \ {0} /\ Head(past) = past[1] /\ Head(past) \in Event
    BY <1>t, <1>1, TailFacts
  <2>3. Append(received[s], Head(past)) = <<Head(past)>>
    BY <1>u, <2>2
  <2>4. start < end /\ past[1] = Log(s)[start + 1]
    <3>1. start + Len(<<>>) + Len(past) = end /\ Len(<<>>) = 0
      BY <1>s DEF Rest
    <3>2. past[1] = Log(s)[start + Len(<<>>) + 1]
      BY <1>s, <2>2 DEF Rest
    <3>3. start + Len(<<>>) + 1 = start + 1
      BY <1>s, <3>1
    <3>4. start + Len(past) = end
      BY <1>s, <2>2, <3>1
    <3> QED BY <1>s, <2>2, <3>2, <3>3, <3>4
  <2>5. [r \in Subscriber |-> since'[r] + Len(received'[r])]
        = [[r \in Subscriber |-> since[r] + Len(received[r])]
             EXCEPT ![s] = start + 1]
    <3>1. received'[s] = <<Head(past)>> /\ since'[s] = start /\ Len(<<Head(past)>>) = 1
      BY <1>t, <1>u, <2>1, <2>3 DEF TypeOK
    <3>2. \A r \in Subscriber : r # s => received'[r] = received[r] /\ since'[r] = since[r]
      BY <1>t, <1>u, <2>1 DEF TypeOK
    <3> QED BY <3>1, <3>2
  <2>6. received' = [received EXCEPT ![s] = <<Log(s)[start + 1]>>]
    BY <2>1, <2>2, <2>3, <2>4
  <2> QED BY <1>u, <1>r, <2>4, <2>5, <2>6 DEF Feed!Join, Log, start
<1>2. CASE past = <<>>
  <2>1. received' = received
    BY <1>2, <1>u DEF Fetch
  <2>2. [r \in Subscriber |-> since'[r] + Len(received'[r])]
        = [[r \in Subscriber |-> since[r] + Len(received[r])] EXCEPT ![s] = start]
    <3>1. Len(received[s]) = 0 /\ since'[s] = start
      BY <1>t, <1>u DEF TypeOK
    <3>2. \A r \in Subscriber : r # s => since'[r] = since[r]
      BY <1>t, <1>u DEF TypeOK
    <3>3. since'[s] + Len(received'[s]) = start
      BY <1>s, <2>1, <3>1
    <3> QED BY <2>1, <3>2, <3>3
  <2> QED BY <1>u, <1>r, <2>1, <2>2 DEF Feed!Join, Log, start
<1> QED BY <1>1, <1>2

LEMMA CloseLeaves ==
  ASSUME IInv, NEW s \in Subscriber, Close(s), generator[s] # "CLOSED"
  PROVE  Feed!Leave(s)
<1>1. TypeOK /\ published' = published /\ received' = received /\ since' = since
  BY DEF Close, IInv
<1>2. generator' = [generator EXCEPT ![s] = "CLOSED"]
  BY DEF Close
<1>3. [r \in Subscriber |-> IF generator'[r] = "CREATED" THEN "OUT"
                            ELSE IF generator'[r] = "CLOSED" THEN "LEFT" ELSE "IN"]
      = [[r \in Subscriber |-> IF generator[r] = "CREATED" THEN "OUT"
                            ELSE IF generator[r] = "CLOSED" THEN "LEFT" ELSE "IN"]
           EXCEPT ![s] = "LEFT"]
  <2>1. generator'[s] = "CLOSED" /\ \A r \in Subscriber : r # s => generator'[r] = generator[r]
    BY <1>1, <1>2 DEF TypeOK
  <2> QED BY <2>1
<1> QED BY <1>1, <1>3 DEF Feed!Leave

(* To its clients the broker is the abstract feed: a log that each of them *)
(* reads event by event from a recent point on.                            *)
THEOREM BrokerIsFeed == Spec => ImplementsFeed
<1>1. Init => Feed!Init
  <2> SUFFICES ASSUME Init PROVE Feed!Init
    OBVIOUS
  <2>1. \A s \in Subscriber : since[s] + Len(received[s]) = 0
    BY DEF Init
  <2> QED BY <2>1 DEF Init, Feed!Init
<1>2. IInv /\ [Next]_vars => [Feed!Next]_Feed!vars
  <2> SUFFICES ASSUME IInv, [Next]_vars PROVE [Feed!Next]_Feed!vars
    OBVIOUS
  <2>1. ASSUME NEW i \in Incident, NEW kind \in Kind, Publish(i, kind)
        PROVE  [Feed!Next]_Feed!vars
    BY <2>1, PublishPublishes DEF Feed!Next
  <2>2. ASSUME NEW s \in Subscriber, Stream(s) PROVE [Feed!Next]_Feed!vars
    <3>1. CASE Subscribe(s)
      BY <3>1, SubscribeJoins DEF Feed!Next
    <3>2. CASE Wake(s)
      BY <3>2, FetchReads DEF Wake, Open, YieldedTerminal
    <3>3. CASE Heartbeat(s)
      <4>1. /\ published' = published /\ received' = received /\ since' = since
            /\ generator[s] = "WAITING"
            /\ generator' = [generator EXCEPT ![s] = "PINGED"]
        BY <3>3 DEF Heartbeat, brokerVars
      <4>2. \A r \in Subscriber :
              (generator'[r] = "CREATED" <=> generator[r] = "CREATED")
              /\ (generator'[r] = "CLOSED" <=> generator[r] = "CLOSED")
        BY <4>1 DEF IInv, TypeOK
      <4> QED BY <4>1, <4>2 DEF Feed!vars
    <3>4. CASE Resume(s)
      BY <3>4, FetchReads, CloseLeaves DEF Resume, Open, Feed!Next
    <3>5. CASE Disconnect(s)
      BY <3>5, CloseLeaves DEF Disconnect, Feed!Next
    <3> QED BY <2>2, <3>1, <3>2, <3>3, <3>4, <3>5 DEF Stream
  <2>3. CASE UNCHANGED vars
    BY <2>3 DEF vars, brokerVars, clientVars, Feed!vars
  <2> QED BY <2>1, <2>2, <2>3 DEF Next
<1> QED BY <1>1, <1>2, InductiveInvariant, PTL DEF Spec, ImplementsFeed, Feed!Spec
=============================================================================
