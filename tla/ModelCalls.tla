----------------------------- MODULE ModelCalls ------------------------------
(***************************************************************************)
(* What an agent may rely on when it asks for a model's answer: a call is  *)
(* answered or raises, once, and the tokens of every answer - and of       *)
(* nothing else - are added to the account.  ModelRouter, with its chain   *)
(* of providers and its retries, implements it.                            *)
(***************************************************************************)
EXTENDS Naturals

CONSTANTS
  Call,   (* calls the agents make *)
  Tokens  (* token counts an answer may report *)

VARIABLES
  outcome,  (* how each call stands    *)
  spent     (* tokens on the account   *)

vars == <<outcome, spent>>

Outcome == {"idle", "pending", "answered", "raised"}

Init ==
  /\ outcome = [c \in Call |-> "idle"]
  /\ spent = 0

Issue(c) ==
  /\ outcome[c] = "idle"
  /\ outcome' = [outcome EXCEPT ![c] = "pending"]
  /\ UNCHANGED spent

Answer(c) ==
  /\ outcome[c] = "pending"
  /\ outcome' = [outcome EXCEPT ![c] = "answered"]
  /\ \E t \in Tokens : spent' = spent + t

Raise(c) ==
  /\ outcome[c] = "pending"
  /\ outcome' = [outcome EXCEPT ![c] = "raised"]
  /\ UNCHANGED spent

Next == \E c \in Call : Issue(c) \/ Answer(c) \/ Raise(c)

(* A call that was made ends, one way or the other. *)
Spec ==
  /\ Init
  /\ [][Next]_vars
  /\ \A c \in Call : WF_vars(Answer(c) \/ Raise(c))
=============================================================================
