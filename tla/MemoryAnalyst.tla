---------------------------- MODULE MemoryAnalyst ----------------------------
(***************************************************************************)
(* The memory analysts of concurrent investigations                        *)
(* (src/agents/memory_analyst.py): each searches the memory of the tool    *)
(* registry and then asks the router for an answer.  They share both with  *)
(* each other and the router with every other agent, while the service     *)
(* indexes its reports.                                                    *)
(***************************************************************************)
EXTENDS EpisodicMemory, ModelRouter

(* Every search is an analyst's, and every analyst makes one call. *)
ASSUME AnalystsAssumption == Searcher \subseteq Call

analystVars == <<memoryVars, routerVars>>

(* investigate is entered and invokes the search tool. *)
Investigate(a) == BeginSearch(a) /\ UNCHANGED routerVars

SeedMemory(a) == EmbedSeed(a) /\ UNCHANGED routerVars

(* The tool returns: with what it found, or as FAILED, since the tool      *)
(* catches every exception - then the analyst goes on without matches.     *)
SearchReturns(a) ==
  (AnswerBlank(a) \/ AnswerQuery(a) \/ SearchFails(a)) /\ Ask(a)

(* Another agent asks the router. *)
OtherAgentAsks(c) == c \notin Searcher /\ Ask(c) /\ UNCHANGED memoryVars

ProviderReturns(c) ==
  (ProviderAnswers(c) \/ ProviderRefuses(c)) /\ UNCHANGED memoryVars

AnalystInit == MemoryInit /\ RouterInit

AnalystNext ==
  \/ \E a \in Searcher : Investigate(a) \/ SeedMemory(a) \/ SearchReturns(a)
  \/ \E c \in Call : OtherAgentAsks(c) \/ ProviderReturns(c)
  \/ (\E p \in Poster : IndexPostmortem(p)) /\ UNCHANGED routerVars

(* Every request to a provider has a time limit, so each of them returns. *)
AnalystSpec ==
  /\ AnalystInit
  /\ [][AnalystNext]_analystVars
  /\ \A c \in Call : WF_analystVars(ProviderReturns(c))

-----------------------------------------------------------------------------
(* The router, used by all of these, keeps its promise to each of them:    *)
(* every call that is made ends, once, and the account holds the tokens of *)
(* the answers and nothing else.                                           *)
ImplementsModelCalls == Calls!Spec
=============================================================================
