----------------------------- MODULE ModelRouter -----------------------------
(***************************************************************************)
(* The router every agent sends its prompts through (src/llm/router.py):   *)
(* providers are asked in order, each up to MaxRetries times, and a call   *)
(* raises when all have refused it.  Calls of several agents interleave at *)
(* the await of a provider; between two awaits nothing else runs.          *)
(***************************************************************************)
EXTENDS Naturals, Sequences

CONSTANTS
  Call,        (* calls to generate_structured                             *)
  Providers,   (* the chain, in the order it is tried                      *)
  MaxRetries,  (* attempts per provider                                    *)
  Tokens       (* token counts a provider may report                       *)

ASSUME ProvidersAssumption ==
  Providers \in Seq(STRING) /\ Len(Providers) > 0
ASSUME RetriesAssumption == MaxRetries \in Nat \ {0}
ASSUME TokensAssumption == Tokens \subseteq Nat

(* The chain built from the keys that are configured: the mock is last. *)
DefaultChain(keys) ==
  (IF "openai" \in keys THEN <<"openai">> ELSE <<>>)
    \o (IF "groq" \in keys THEN <<"groq">> ELSE <<>>)
    \o <<"mock">>

VARIABLES
  call,        (* where each call stands in the chain                      *)
  usage,       (* cumulative_usage.total_tokens                            *)
  alwaysFail,  (* the mock provider was built to fail                      *)
  refusals     (* history: the attempts of each call each provider refused *)

routerVars == <<call, usage, alwaysFail, refusals>>

CallState ==
  [status : {"idle", "pending", "answered", "raised"},
   at : DOMAIN Providers, attempt : 1..MaxRetries]

-----------------------------------------------------------------------------
(* What a provider may do.  A remote one answers, or raises on a time-out, *)
(* an HTTP error or a reply that does not match the schema; the mock only  *)
(* does what it was built for.                                             *)
MayAnswer(p) == p = "mock" => ~alwaysFail
MayRefuse(p) == p = "mock" => alwaysFail

Asked(c) == Providers[call[c].at]

(* A faulty successor: one attempt too few at each provider. *)
GivesUpEarly(s) ==
  IF s.attempt + 1 < MaxRetries THEN [s EXCEPT !.attempt = @ + 1]
  ELSE IF s.at < Len(Providers) THEN [s EXCEPT !.at = @ + 1, !.attempt = 1]
  ELSE [s EXCEPT !.status = "raised"]

(* The loops of generate_structured, after a refusal. *)
AfterRefusal(s) ==
  IF s.attempt < MaxRetries THEN [s EXCEPT !.attempt = @ + 1]
  ELSE IF s.at < Len(Providers) THEN [s EXCEPT !.at = @ + 1, !.attempt = 1]
  ELSE [s EXCEPT !.status = "raised"]

RouterInit ==
  /\ call = [c \in Call |-> [status |-> "idle", at |-> 1, attempt |-> 1]]
  /\ usage = 0
  /\ alwaysFail \in BOOLEAN
  /\ refusals = [c \in Call |-> [p \in DOMAIN Providers |-> 0]]

(* generate_structured is entered and the first provider is asked. *)
Ask(c) ==
  /\ call[c].status = "idle"
  /\ call' = [call EXCEPT ![c].status = "pending"]
  /\ UNCHANGED <<usage, alwaysFail, refusals>>

(* A faulty accounting: every attempt is charged, not only an answer. *)
ChargesRefusals(c) ==
  /\ call[c].status = "pending" /\ MayRefuse(Asked(c))
  /\ call' = [call EXCEPT ![c] = AfterRefusal(@)]
  /\ refusals' = [refusals EXCEPT ![c][call[c].at] = @ + 1]
  /\ \E t \in Tokens : usage' = usage + t
  /\ UNCHANGED alwaysFail

(* The provider's response is in: its tokens are added, and the call ends. *)
ProviderAnswers(c) ==
  /\ call[c].status = "pending" /\ MayAnswer(Asked(c))
  /\ call' = [call EXCEPT ![c].status = "answered"]
  /\ \E t \in Tokens : usage' = usage + t
  /\ UNCHANGED <<alwaysFail, refusals>>

(* The provider raised: the next attempt is made, or the call raises. *)
ProviderRefuses(c) ==
  /\ call[c].status = "pending" /\ MayRefuse(Asked(c))
  /\ call' = [call EXCEPT ![c] = AfterRefusal(@)]
  /\ refusals' = [refusals EXCEPT ![c][call[c].at] = @ + 1]
  /\ UNCHANGED <<usage, alwaysFail>>

RouterNext ==
  \E c \in Call : Ask(c) \/ ProviderAnswers(c) \/ ProviderRefuses(c)

RouterSpec ==
  /\ RouterInit
  /\ [][RouterNext]_routerVars
  /\ \A c \in Call : WF_routerVars(ProviderAnswers(c) \/ ProviderRefuses(c))

-----------------------------------------------------------------------------
(* Type invariant. *)
RouterTypeOK ==
  /\ call \in [Call -> CallState]
  /\ usage \in Nat
  /\ alwaysFail \in BOOLEAN
  /\ refusals \in [Call -> [DOMAIN Providers -> 0..MaxRetries]]

(* Failover is in order and exhausts every provider: the one that is being *)
(* asked, or answered, was preceded only by providers that refused every   *)
(* attempt, none behind it was bothered, and a call raises only when the   *)
(* whole chain has refused it MaxRetries times - never, when the mock ends *)
(* the chain and was not built to fail.                                    *)
FailoverInOrder ==
  \A c \in Call :
    /\ call[c].status \in {"pending", "answered"} =>
         \A p \in DOMAIN Providers :
           refusals[c][p] = IF p < call[c].at THEN MaxRetries
                            ELSE IF p = call[c].at THEN call[c].attempt - 1
                            ELSE 0
    /\ call[c].status = "raised" =>
         /\ \A p \in DOMAIN Providers : refusals[c][p] = MaxRetries
         /\ Providers[Len(Providers)] = "mock" => alwaysFail

(* The router keeps what ModelCalls promises an agent. *)
Calls == INSTANCE ModelCalls WITH
  outcome <- [c \in Call |-> call[c].status],
  spent <- usage
=============================================================================
