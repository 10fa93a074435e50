------------------------------ MODULE EventFeed ------------------------------
(***************************************************************************)
(* What the event stream of an incident promises its clients, in abstract  *)
(* terms: a log that only grows, and readers who each start at most Limit  *)
(* events before its end, read it event by event without a gap and without *)
(* reading one twice, and read nothing after a terminal event.             *)
(***************************************************************************)
EXTENDS Naturals, Sequences

CONSTANTS
  Incident, Reader,
  Topic,       (* the incident each reader follows           *)
  Event, Terminal,
  Limit        (* how far back a reader may start            *)

VARIABLES
  log,         (* the events of each incident                *)
  reading,     (* "OUT", "IN" or "LEFT", for each reader     *)
  position,    (* how much of its log a reader has behind it *)
  read         (* what each reader has read                  *)

vars == <<log, reading, position, read>>

Init ==
  /\ log = [i \in Incident |-> <<>>]
  /\ reading = [r \in Reader |-> "OUT"]
  /\ position = [r \in Reader |-> 0]
  /\ read = [r \in Reader |-> <<>>]

Publish(i) ==
  /\ Len(log'[i]) = Len(log[i]) + 1
  /\ LET e == log'[i][Len(log[i]) + 1]
     IN  e \in Event /\ log' = [log EXCEPT ![i] = Append(@, e)]
  /\ UNCHANGED <<reading, position, read>>

(* A reader joins Limit events back, or at the beginning, and may have the *)
(* first event it finds there at once.                                     *)
Join(r) ==
  LET end == Len(log[Topic[r]])
      start == IF end < Limit THEN 0 ELSE end - Limit
  IN  /\ reading[r] = "OUT"
      /\ reading' = [reading EXCEPT ![r] = "IN"]
      /\ \/ /\ position' = [position EXCEPT ![r] = start]
            /\ UNCHANGED read
         \/ /\ start < end
            /\ position' = [position EXCEPT ![r] = start + 1]
            /\ read' = [read EXCEPT ![r] = <<log[Topic[r]][start + 1]>>]
      /\ UNCHANGED log

Read(r) ==
  /\ reading[r] = "IN"
  /\ position[r] < Len(log[Topic[r]])
  /\ read[r] # <<>> => read[r][Len(read[r])] \notin Terminal
  /\ position' = [position EXCEPT ![r] = @ + 1]
  /\ read' = [read EXCEPT ![r] = Append(@, log[Topic[r]][position[r] + 1])]
  /\ UNCHANGED <<log, reading>>

Leave(r) ==
  /\ reading[r] # "LEFT"
  /\ reading' = [reading EXCEPT ![r] = "LEFT"]
  /\ UNCHANGED <<log, position, read>>

Next ==
  \/ \E i \in Incident : Publish(i)
  \/ \E r \in Reader : Join(r) \/ Read(r) \/ Leave(r)

Spec == Init /\ [][Next]_vars
=============================================================================
