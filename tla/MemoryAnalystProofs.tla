------------------------- MODULE MemoryAnalystProofs -------------------------
(***************************************************************************)
(* Proofs about the router and the memory as the agents share them: for    *)
(* any calls, chain of providers, number of attempts and token counts; and *)
(* for any seeds, reports, similarities, lengths of texts and budget.      *)
(***************************************************************************)
EXTENDS MemoryAnalyst, FiniteSetTheorems, FunctionTheorems, TLAPS

(* A call that is not made yet stands at the start of the chain. *)
Unasked ==
  \A c \in Call :
    call[c].status = "idle" =>
      /\ call[c].at = 1 /\ call[c].attempt = 1
      /\ \A p \in DOMAIN Providers : refusals[c][p] = 0

(* Nothing is known of where a call begins without Unasked, and of the     *)
(* counts of refusals without their type.                                  *)
RouterInv == RouterTypeOK /\ Unasked /\ FailoverInOrder

-----------------------------------------------------------------------------
LEMMA ChainIsFinite == Len(Providers) \in Nat \ {0} /\ DOMAIN Providers = 1..Len(Providers)
BY ProvidersAssumption

LEMMA InitRouterInv == AnalystInit => RouterInv
<1> SUFFICES ASSUME RouterInit PROVE RouterInv
  BY DEF AnalystInit
<1>1. RouterTypeOK
  BY ChainIsFinite, RetriesAssumption DEF RouterInit, RouterTypeOK, CallState
<1>2. FailoverInOrder
  BY DEF RouterInit, FailoverInOrder
<1>3. Unasked
  BY DEF RouterInit, Unasked
<1> QED BY <1>1, <1>2, <1>3 DEF RouterInv

(* Where a call stands after one more refusal. *)
LEMMA AfterRefusalCases ==
  ASSUME NEW s \in CallState, s.status = "pending"
  PROVE  /\ AfterRefusal(s) \in CallState
         /\ \/ /\ s.attempt < MaxRetries
               /\ AfterRefusal(s).status = "pending"
               /\ AfterRefusal(s).at = s.at /\ AfterRefusal(s).attempt = s.attempt + 1
            \/ /\ s.attempt = MaxRetries /\ s.at < Len(Providers)
               /\ AfterRefusal(s).status = "pending"
               /\ AfterRefusal(s).at = s.at + 1 /\ AfterRefusal(s).attempt = 1
            \/ /\ s.attempt = MaxRetries /\ s.at = Len(Providers)
               /\ AfterRefusal(s).status = "raised"
<1>1. CASE s.attempt < MaxRetries
  <2>1. AfterRefusal(s) = [s EXCEPT !.attempt = @ + 1]
    BY <1>1 DEF AfterRefusal
  <2> QED BY <1>1, <2>1, RetriesAssumption DEF CallState
<1>2. CASE ~(s.attempt < MaxRetries) /\ s.at < Len(Providers)
  <2>1. AfterRefusal(s) = [s EXCEPT !.at = @ + 1, !.attempt = 1]
    BY <1>2 DEF AfterRefusal
  <2>2. s.attempt = MaxRetries
    BY <1>2, RetriesAssumption DEF CallState
  <2>3. s.at + 1 \in DOMAIN Providers /\ 1 \in 1..MaxRetries
    BY <1>2, RetriesAssumption, ChainIsFinite DEF CallState
  <2>4. AfterRefusal(s) \in CallState
    BY <2>1, <2>3 DEF CallState
  <2> QED BY <1>2, <2>1, <2>2, <2>4 DEF CallState
<1>3. CASE ~(s.attempt < MaxRetries) /\ ~(s.at < Len(Providers))
  <2>1. AfterRefusal(s) = [s EXCEPT !.status = "raised"]
    BY <1>3 DEF AfterRefusal
  <2> QED BY <1>3, <2>1, RetriesAssumption, ChainIsFinite DEF CallState
<1> QED BY <1>1, <1>2, <1>3

-----------------------------------------------------------------------------
LEMMA AskKeeps ==
  ASSUME RouterInv, NEW c \in Call, Ask(c)
  PROVE  RouterInv'
<1>1. RouterTypeOK'
  <2>1. [call[c] EXCEPT !.status = "pending"] \in CallState
    BY DEF RouterInv, RouterTypeOK, CallState
  <2>2. call' = [call EXCEPT ![c] = [call[c] EXCEPT !.status = "pending"]]
    BY DEF Ask
  <2>3. call' \in [Call -> CallState]
    BY <2>1, <2>2 DEF RouterInv, RouterTypeOK
  <2> QED BY <2>3 DEF RouterInv, RouterTypeOK, Ask
<1>2. /\ call'[c].status = "pending"
      /\ call'[c].at = call[c].at /\ call'[c].attempt = call[c].attempt
      /\ \A d \in Call \ {c} : call'[d] = call[d]
  BY DEF RouterInv, RouterTypeOK, Ask, CallState
<1>3. call[c].status = "idle" /\ refusals' = refusals /\ alwaysFail' = alwaysFail
  BY DEF Ask
<1>4. Unasked'
  BY <1>2, <1>3 DEF RouterInv, Unasked
<1>5. \A p \in DOMAIN Providers :
        refusals'[c][p] = IF p < call'[c].at THEN MaxRetries
                          ELSE IF p = call'[c].at THEN call'[c].attempt - 1 ELSE 0
  BY <1>2, <1>3, ChainIsFinite DEF RouterInv, Unasked
<1>6. FailoverInOrder'
  BY <1>2, <1>3, <1>5 DEF RouterInv, FailoverInOrder
<1> QED BY <1>1, <1>4, <1>6 DEF RouterInv

LEMMA AnswerKeeps ==
  ASSUME RouterInv, NEW c \in Call, ProviderAnswers(c)
  PROVE  RouterInv'
<1>1. RouterTypeOK'
  BY TokensAssumption DEF RouterInv, RouterTypeOK, ProviderAnswers, CallState
<1>2. FailoverInOrder'
  BY DEF RouterInv, RouterTypeOK, FailoverInOrder, ProviderAnswers, CallState
<1>3. Unasked'
  BY DEF RouterInv, RouterTypeOK, Unasked, ProviderAnswers, CallState
<1> QED BY <1>1, <1>2, <1>3 DEF RouterInv

LEMMA RefusalKeeps ==
  ASSUME RouterInv, NEW c \in Call, ProviderRefuses(c)
  PROVE  RouterInv'
<1> DEFINE s == call[c]
           t == AfterRefusal(s)
<1>1. s \in CallState /\ s.status = "pending" /\ s.at \in DOMAIN Providers
  BY DEF RouterInv, RouterTypeOK, ProviderRefuses, CallState
<1>2. \A p \in DOMAIN Providers :
        refusals[c][p] = IF p < s.at THEN MaxRetries
                         ELSE IF p = s.at THEN s.attempt - 1 ELSE 0
  BY <1>1 DEF RouterInv, FailoverInOrder
<1>3. call' = [call EXCEPT ![c] = t] /\ alwaysFail' = alwaysFail /\ usage' = usage
      /\ refusals' = [refusals EXCEPT ![c][s.at] = @ + 1]
  BY DEF ProviderRefuses
<1>4. t \in CallState
  BY <1>1, AfterRefusalCases
<1>5. refusals'[c] = [p \in DOMAIN Providers |->
                        IF p = s.at THEN refusals[c][p] + 1 ELSE refusals[c][p]]
      /\ \A d \in Call \ {c} : refusals'[d] = refusals[d]
  BY <1>1, <1>3 DEF RouterInv, RouterTypeOK
<1>6. refusals[c][s.at] + 1 = s.attempt
  <2>1. s.attempt \in Nat
    BY <1>1, RetriesAssumption DEF CallState
  <2>2. refusals[c][s.at] = s.attempt - 1
    BY <1>1, <1>2, ChainIsFinite
  <2> QED BY <2>1, <2>2
<1>7. RouterTypeOK'
  <2>1. refusals'[c] \in [DOMAIN Providers -> 0..MaxRetries]
    BY <1>1, <1>5, <1>6, RetriesAssumption DEF RouterInv, RouterTypeOK, CallState
  <2>2. refusals' \in [Call -> [DOMAIN Providers -> 0..MaxRetries]]
    BY <1>3, <1>5, <2>1 DEF RouterInv, RouterTypeOK
  <2> QED BY <1>3, <1>4, <2>2 DEF RouterInv, RouterTypeOK
<1>8. \A d \in Call \ {c} : call'[d] = call[d]
  BY <1>3 DEF RouterInv, RouterTypeOK
<1>9. call'[c] = t
  BY <1>3 DEF RouterInv, RouterTypeOK
<1>10. t.status = "pending" =>
         \A p \in DOMAIN Providers :
           refusals'[c][p] = IF p < t.at THEN MaxRetries
                             ELSE IF p = t.at THEN t.attempt - 1 ELSE 0
  <2> SUFFICES ASSUME t.status = "pending", NEW p \in DOMAIN Providers
               PROVE  refusals'[c][p] = IF p < t.at THEN MaxRetries
                                        ELSE IF p = t.at THEN t.attempt - 1 ELSE 0
    OBVIOUS
  <2>1. p \in Nat /\ s.at \in Nat /\ s.attempt \in Nat
    BY <1>1, ChainIsFinite DEF CallState
  <2>2. refusals'[c][p] = IF p < s.at THEN MaxRetries
                          ELSE IF p = s.at THEN s.attempt ELSE 0
    BY <1>2, <1>5, <1>6, <2>1
  <2>3. \/ t.at = s.at /\ t.attempt = s.attempt + 1
        \/ t.at = s.at + 1 /\ t.attempt = 1 /\ s.attempt = MaxRetries
    BY <1>1, AfterRefusalCases
  <2> HIDE DEF s, t
  <2> QED BY <2>1, <2>2, <2>3
<1>11. t.status = "raised" =>
         /\ \A p \in DOMAIN Providers : refusals'[c][p] = MaxRetries
         /\ Providers[Len(Providers)] = "mock" => alwaysFail'
  <2> SUFFICES ASSUME t.status = "raised"
               PROVE  /\ \A p \in DOMAIN Providers : refusals'[c][p] = MaxRetries
                      /\ Providers[Len(Providers)] = "mock" => alwaysFail'
    OBVIOUS
  <2>1. s.attempt = MaxRetries /\ s.at = Len(Providers)
    BY <1>1, AfterRefusalCases
  <2>2. \A p \in DOMAIN Providers : refusals'[c][p] = MaxRetries
    BY <1>2, <1>5, <1>6, <2>1, ChainIsFinite
  <2>3. MayRefuse(Providers[s.at])
    BY DEF ProviderRefuses, Asked
  <2> QED BY <1>3, <2>1, <2>2, <2>3 DEF MayRefuse
<1>12. t.status \in {"pending", "raised"}
  BY <1>1, AfterRefusalCases
<1>14. Unasked'
  <2> HIDE DEF s, t
  <2> QED BY <1>5, <1>8, <1>9, <1>12 DEF RouterInv, Unasked
<1>13. FailoverInOrder'
  <2> SUFFICES ASSUME NEW d \in Call
               PROVE  /\ call'[d].status \in {"pending", "answered"} =>
                           \A p \in DOMAIN Providers :
                             refusals'[d][p] = IF p < call'[d].at THEN MaxRetries
                                               ELSE IF p = call'[d].at
                                                    THEN call'[d].attempt - 1 ELSE 0
                      /\ call'[d].status = "raised" =>
                           /\ \A p \in DOMAIN Providers : refusals'[d][p] = MaxRetries
                           /\ Providers[Len(Providers)] = "mock" => alwaysFail'
    BY DEF FailoverInOrder
  <2>1. CASE d = c
    <3> HIDE DEF s, t
    <3> QED BY <2>1, <1>9, <1>10, <1>11, <1>12
  <2>2. CASE d # c
    BY <2>2, <1>3, <1>5, <1>8 DEF RouterInv, FailoverInOrder
  <2> QED BY <2>1, <2>2
<1> QED BY <1>7, <1>13, <1>14 DEF RouterInv

LEMMA NextRouterInv == RouterInv /\ [AnalystNext]_analystVars => RouterInv'
<1> SUFFICES ASSUME RouterInv, [AnalystNext]_analystVars PROVE RouterInv'
  OBVIOUS
<1>1. CASE UNCHANGED routerVars
  BY <1>1 DEF RouterInv, RouterTypeOK, Unasked, FailoverInOrder, routerVars
<1>2. ASSUME NEW a \in Searcher, Investigate(a) \/ SeedMemory(a) \/ SearchReturns(a)
      PROVE  RouterInv'
  BY <1>1, <1>2, AskKeeps, AnalystsAssumption DEF Investigate, SeedMemory, SearchReturns
<1>3. ASSUME NEW c \in Call, OtherAgentAsks(c) \/ ProviderReturns(c)
      PROVE  RouterInv'
  BY <1>3, AskKeeps, AnswerKeeps, RefusalKeeps DEF OtherAgentAsks, ProviderReturns
<1>4. CASE (\E p \in Poster : IndexPostmortem(p)) /\ UNCHANGED routerVars
  BY <1>1, <1>4
<1>5. CASE UNCHANGED analystVars
  BY <1>1, <1>5 DEF analystVars
<1> QED BY <1>2, <1>3, <1>4, <1>5 DEF AnalystNext

(* However the calls of the agents interleave at the providers, each walks *)
(* the chain in order, exhausts every provider it leaves, and raises only  *)
(* when all have refused (generate_structured, router.py:64-108).          *)
THEOREM FailoverIsInOrder == AnalystSpec => []FailoverInOrder
<1>1. RouterInv => FailoverInOrder
  BY DEF RouterInv
<1> QED BY <1>1, InitRouterInv, NextRouterInv, PTL DEF AnalystSpec

-----------------------------------------------------------------------------
(* The promise of ModelCalls, but for its fairness.                        *)

LEMMA AskIssues ==
  ASSUME RouterInv, NEW c \in Call, Ask(c)
  PROVE  Calls!Issue(c)
<1>1. call[c].status = "idle" /\ call'[c].status = "pending" /\ usage' = usage
      /\ \A d \in Call \ {c} : call'[d] = call[d]
  BY DEF RouterInv, RouterTypeOK, Ask, CallState
<1> QED BY <1>1 DEF Calls!Issue

LEMMA AnswerAnswers ==
  ASSUME RouterInv, NEW c \in Call, ProviderAnswers(c)
  PROVE  Calls!Answer(c)
<1>1. call[c].status = "pending" /\ call'[c].status = "answered"
      /\ \A d \in Call \ {c} : call'[d] = call[d]
  BY DEF RouterInv, RouterTypeOK, ProviderAnswers, CallState
<1>2. \E t \in Tokens : usage' = usage + t
  BY DEF ProviderAnswers
<1> QED BY <1>1, <1>2 DEF Calls!Answer

(* A refusal is invisible to the agent, until it is the last. *)
LEMMA RefusalRaises ==
  ASSUME RouterInv, NEW c \in Call, ProviderRefuses(c)
  PROVE  Calls!Raise(c) \/ UNCHANGED Calls!vars
<1>1. call[c] \in CallState /\ call[c].status = "pending" /\ usage' = usage
      /\ call'[c] = AfterRefusal(call[c])
      /\ \A d \in Call \ {c} : call'[d] = call[d]
  BY DEF RouterInv, RouterTypeOK, ProviderRefuses
<1>2. call'[c].status \in {"pending", "raised"}
  BY <1>1, AfterRefusalCases
<1>3. CASE call'[c].status = "raised"
  BY <1>1, <1>3 DEF Calls!Raise
<1>4. CASE call'[c].status = "pending"
  BY <1>1, <1>4 DEF Calls!vars
<1> QED BY <1>2, <1>3, <1>4

LEMMA StepIsCalls ==
  RouterInv /\ [AnalystNext]_analystVars => [Calls!Next]_(Calls!vars)
<1> SUFFICES ASSUME RouterInv, [AnalystNext]_analystVars
             PROVE  [Calls!Next]_(Calls!vars)
  OBVIOUS
<1>1. CASE UNCHANGED routerVars
  BY <1>1 DEF routerVars, Calls!vars
<1>2. ASSUME NEW c \in Call, Ask(c) PROVE [Calls!Next]_(Calls!vars)
  BY <1>2, AskIssues DEF Calls!Next
<1>3. ASSUME NEW a \in Searcher, Investigate(a) \/ SeedMemory(a) \/ SearchReturns(a)
      PROVE  [Calls!Next]_(Calls!vars)
  BY <1>1, <1>2, <1>3, AnalystsAssumption DEF Investigate, SeedMemory, SearchReturns
<1>4. ASSUME NEW c \in Call, OtherAgentAsks(c) \/ ProviderReturns(c)
      PROVE  [Calls!Next]_(Calls!vars)
  BY <1>2, <1>4, AnswerAnswers, RefusalRaises
     DEF OtherAgentAsks, ProviderReturns, Calls!Next
<1>5. CASE UNCHANGED analystVars
  BY <1>1, <1>5 DEF analystVars
<1> QED BY <1>1, <1>3, <1>4, <1>5 DEF AnalystNext

(* The router keeps its promise to the agents that share it: every call is *)
(* answered or raises, once, and an answer's tokens, and nothing else, are *)
(* added to the account (generate_structured, router.py:64-108).           *)
THEOREM RouterKeepsCalls ==
  AnalystSpec => Calls!Init /\ [][Calls!Next]_(Calls!vars)
<1>1. AnalystInit => Calls!Init
  BY DEF AnalystInit, RouterInit, Calls!Init
<1> QED BY <1>1, InitRouterInv, NextRouterInv, StepIsCalls, PTL DEF AnalystSpec

-----------------------------------------------------------------------------
(* Seeding.                                                                *)

Positions(docs, d) == {i \in DOMAIN docs : docs[i] = d}

LEMMA PositionsFinite ==
  ASSUME NEW docs \in Seq(Doc), NEW d
  PROVE  /\ IsFiniteSet(Positions(docs, d))
         /\ Cardinality(Positions(docs, d)) \in Nat
<1>1. IsFiniteSet(1..Len(docs))
  BY FS_Interval
<1>2. Positions(docs, d) \subseteq 1..Len(docs)
  BY DEF Positions
<1> QED BY <1>1, <1>2, FS_Subset, FS_CardinalityType

(* Storing the seeds adds one copy of each. *)
LEMMA SeedsAddOne ==
  ASSUME NEW docs \in Seq(Doc), NEW d \in SeedDocs
  PROVE  Cardinality(Positions(docs \o Seeds, d)) = Cardinality(Positions(docs, d)) + 1
<1>1. PICK j \in 1..Len(Seeds) : Seeds[j] = d
  BY SeedsAssumption DEF SeedDocs
<1> DEFINE k == Len(docs) + j
<1>2. Positions(docs \o Seeds, d) = Positions(docs, d) \cup {k}
  BY <1>1, SeedsAssumption DEF Positions
<1>3. k \notin Positions(docs, d)
  BY <1>1 DEF Positions
<1> HIDE DEF k
<1> QED BY <1>2, <1>3, PositionsFinite, FS_AddElement

(* A report adds none. *)
LEMMA ReportAddsNone ==
  ASSUME NEW docs \in Seq(Doc), NEW r \in Report, NEW d \in SeedDocs
  PROVE  Positions(Append(docs, r), d) = Positions(docs, d)
<1>1. r # d
  BY OwnReports
<1> QED BY <1>1, SeedsAssumption DEF Positions, Doc

(* The seeds of each memory, which the flag agrees with. *)
SeedInv ==
  /\ documents \in [Manager -> Seq(Doc)]
  /\ seeded \in [Manager -> BOOLEAN]
  /\ SeedingIsAtomic

LEMMA CopiesArePositions ==
  \A m, d : Copies(m, d) = Cardinality(Positions(documents[m], d))
BY DEF Copies, Positions

LEMMA InitSeedInv == AnalystInit => SeedInv
<1> SUFFICES ASSUME MemoryInit PROVE SeedInv
  BY DEF AnalystInit
<1>1. documents \in [Manager -> Seq(Doc)] /\ seeded \in [Manager -> BOOLEAN]
  BY DEF MemoryInit
<1>2. \A m \in Manager : \A d : Copies(m, d) = 0
  <2> SUFFICES ASSUME NEW m \in Manager, NEW d PROVE Copies(m, d) = 0
    OBVIOUS
  <2>1. {i \in DOMAIN documents[m] : documents[m][i] = d} = {}
    BY DEF MemoryInit
  <2> QED BY <2>1, FS_EmptySet DEF Copies
<1> QED BY <1>1, <1>2 DEF SeedInv, SeedingIsAtomic, MemoryInit

LEMMA SeedStored ==
  ASSUME SeedInv,
         documents' = [documents EXCEPT ![SearchedBy] = @ \o Seeds],
         seeded' = [seeded EXCEPT ![SearchedBy] = TRUE]
  PROVE  SeedInv'
<1>1. SearchedBy \in Manager
  BY DEF SearchedBy, Manager
<1>2. documents' \in [Manager -> Seq(Doc)] /\ seeded' \in [Manager -> BOOLEAN]
  BY <1>1, SeedsAssumption DEF SeedInv
<1>3. \A d \in SeedDocs :
        /\ Cardinality(Positions(documents[SearchedBy], d)) \in Nat
        /\ Cardinality(Positions(documents'[SearchedBy], d))
             = Cardinality(Positions(documents[SearchedBy], d)) + 1
  BY <1>1, SeedsAddOne, PositionsFinite DEF SeedInv
<1>4. \A m \in Manager \ {SearchedBy} :
        documents'[m] = documents[m] /\ seeded'[m] = seeded[m]
  BY DEF SeedInv
<1>5. seeded'[SearchedBy] = TRUE
  BY <1>1 DEF SeedInv
<1>6. SeedingIsAtomic'
  <2> SUFFICES ASSUME NEW m \in Manager, NEW c \in SeedDocs, NEW d \in SeedDocs
               PROVE  /\ Copies(m, c)' = Copies(m, d)'
                      /\ seeded'[m] <=> Copies(m, c)' > 0
    BY DEF SeedingIsAtomic
  <2>1. /\ Copies(m, c) = Copies(m, d)
        /\ seeded[m] <=> Copies(m, c) > 0
    BY DEF SeedInv, SeedingIsAtomic
  <2>2. CASE m = SearchedBy
    <3>1. \A e \in SeedDocs :
            /\ Copies(m, e) \in Nat
            /\ Copies(m, e)' = Copies(m, e) + 1
      BY <2>2, <1>3 DEF Copies, Positions
    <3>2. Copies(m, c)' = Copies(m, d)' /\ Copies(m, c)' > 0
      BY <2>1, <3>1
    <3>3. seeded'[m] = TRUE
      BY <2>2, <1>5
    <3> QED BY <3>2, <3>3
  <2>3. CASE m # SearchedBy
    BY <2>1, <2>3, <1>4 DEF Copies
  <2> QED BY <2>2, <2>3
<1> QED BY <1>2, <1>6 DEF SeedInv

LEMMA ReportStored ==
  ASSUME SeedInv, NEW p \in Poster, IndexPostmortem(p)
  PROVE  SeedInv'
<1>1. ReportOf[p] \in Report /\ Report \subseteq Doc /\ IndexesInto \in Manager
  BY DocumentsAssumption DEF Doc, IndexesInto, Manager
<1>2. documents' = [documents EXCEPT ![IndexesInto] = Append(@, ReportOf[p])]
      /\ seeded' = seeded
  BY DEF IndexPostmortem
<1>3. documents' \in [Manager -> Seq(Doc)]
  BY <1>1, <1>2 DEF SeedInv
<1>4. \A m \in Manager, d \in SeedDocs :
        Positions(documents'[m], d) = Positions(documents[m], d)
  BY <1>1, <1>2, ReportAddsNone DEF SeedInv
<1>5. \A m \in Manager, d \in SeedDocs : Copies(m, d)' = Copies(m, d)
  BY <1>4 DEF Copies, Positions
<1> QED BY <1>2, <1>3, <1>5 DEF SeedInv, SeedingIsAtomic

LEMMA NextSeedInv == SeedInv /\ [AnalystNext]_analystVars => SeedInv'
<1> SUFFICES ASSUME SeedInv, [AnalystNext]_analystVars PROVE SeedInv'
  OBVIOUS
<1>1. CASE UNCHANGED <<documents, seeded>>
  BY <1>1 DEF SeedInv, SeedingIsAtomic, Copies
<1>2. ASSUME NEW a \in Searcher, Investigate(a) \/ SearchReturns(a) PROVE SeedInv'
  BY <1>1, <1>2 DEF Investigate, SearchReturns, BeginSearch, AnswerBlank, AnswerQuery,
                    SearchFails
<1>3. ASSUME NEW a \in Searcher, SeedMemory(a) PROVE SeedInv'
  BY <1>1, <1>3, SeedStored DEF SeedMemory, EmbedSeed
<1>4. ASSUME NEW c \in Call, OtherAgentAsks(c) \/ ProviderReturns(c) PROVE SeedInv'
  BY <1>1, <1>4 DEF OtherAgentAsks, ProviderReturns, memoryVars
<1>5. CASE (\E p \in Poster : IndexPostmortem(p)) /\ UNCHANGED routerVars
  BY <1>5, ReportStored
<1>6. CASE UNCHANGED analystVars
  BY <1>1, <1>6 DEF analystVars, memoryVars
<1> QED BY <1>2, <1>3, <1>4, <1>5, <1>6 DEF AnalystNext

(* Whichever searches race to seed a memory, and whichever embedding       *)
(* fails, the seeds are stored together or not at all, and the flag tells  *)
(* which (seed_default_memories, episodic.py:70-99).                       *)
THEOREM SeedingAllOrNothing == AnalystSpec => []SeedingIsAtomic
<1>1. SeedInv => SeedingIsAtomic
  BY DEF SeedInv
<1> QED BY <1>1, InitSeedInv, NextSeedInv, PTL DEF AnalystSpec

-----------------------------------------------------------------------------
(* Induction, as the absence of a least counterexample.                    *)

LEMMA LeastFiniteSet ==
  ASSUME NEW S, NEW F, F \subseteq FiniteSubsetsOf(S), F # {}
  PROVE  \E X \in F : \A Y \in F : Y \subseteq X => Y = X
<1>1. PICK X \in F : \A Y \in F : <<Y, X>> \notin StrictSubsetOrdering(S)
  BY FS_StrictSubsetOrderingWellFounded, WFMin
<1>2. ASSUME NEW Y \in F, Y \subseteq X PROVE Y = X
  BY <1>1, <1>2 DEF StrictSubsetOrdering, FiniteSubsetsOf
<1> QED BY <1>2

LEMMA LeastNatural ==
  ASSUME NEW T, T \subseteq Nat, T # {}
  PROVE  \E x \in T : \A y \in T : x <= y
<1>1. PICK F : F = {0..k : k \in T}
  OBVIOUS
<1>2. F \subseteq FiniteSubsetsOf(Nat)
  <2>1. \A k \in T : 0..k \subseteq Nat /\ IsFiniteSet(0..k)
    BY FS_Interval
  <2> QED BY <1>1, <2>1 DEF FiniteSubsetsOf
<1>3. F # {}
  BY <1>1
<1>4. \E X \in F : \A Y \in F : Y \subseteq X => Y = X
  BY <1>2, <1>3, LeastFiniteSet
<1>5. PICK x \in T : \A Y \in F : Y \subseteq 0..x => Y = 0..x
  BY <1>1, <1>4
<1>6. ASSUME NEW y \in T, y < x PROVE FALSE
  <2>1. 0..y \subseteq 0..x /\ x \in 0..x /\ x \notin 0..y
    BY <1>6
  <2>2. 0..y \in F
    BY <1>1
  <2> QED BY <1>5, <2>1, <2>2
<1> QED BY <1>6

-----------------------------------------------------------------------------
(* Ranking.  The order of a search is total, so that the sort by           *)
(* similarity, which Best chooses, exists.                                 *)

LEMMA MinIs ==
  ASSUME NEW S, NEW x \in S, S \subseteq Int, \A y \in S : x <= y
  PROVE  Min(S) = x
<1>1. \E m \in S : \A y \in S : m =< y
  OBVIOUS
<1>2. Min(S) \in S /\ \A y \in S : Min(S) =< y
  BY <1>1 DEF Min
<1>3. Min(S) \in Int /\ x \in Int /\ Min(S) >= x /\ Min(S) <= x
  BY <1>2
<1> QED BY <1>3

LEMMA LeastOfTwo ==
  ASSUME NEW a \in Int, NEW b \in Int
  PROVE  Min({a, b}) = IF a <= b THEN a ELSE b
<1>1. PICK S : S = {a, b}
  OBVIOUS
<1>2. S \subseteq Int /\ a \in S /\ b \in S /\ \A y \in S : y = a \/ y = b
  BY <1>1
<1>3. CASE a <= b
  <2>1. \A y \in S : a <= y
    BY <1>2, <1>3
  <2>2. Min(S) = a
    BY <1>2, <2>1, MinIs
  <2> QED BY <1>1, <1>3, <2>2
<1>4. CASE b < a
  <2>1. \A y \in S : b <= y
    BY <1>2, <1>4
  <2>2. Min(S) = b
    BY <1>2, <2>1, MinIs
  <2> QED BY <1>1, <1>4, <2>2
<1> QED BY <1>3, <1>4

LEMMA BeforeIsAnOrder ==
  ASSUME NEW docs \in Seq(Doc), NEW score \in [Doc -> Score],
         NEW i \in DOMAIN docs, NEW j \in DOMAIN docs, NEW k \in DOMAIN docs
  PROVE  /\ i = j \/ Before(docs, score, i, j) \/ Before(docs, score, j, i)
         /\ Before(docs, score, i, j) /\ Before(docs, score, j, k)
              => Before(docs, score, i, k)
<1>1. /\ score[docs[i]] \in Int /\ score[docs[j]] \in Int /\ score[docs[k]] \in Int
      /\ i \in Int /\ j \in Int /\ k \in Int
  <2>1. docs[i] \in Doc /\ docs[j] \in Doc /\ docs[k] \in Doc
    OBVIOUS
  <2>2. \A d \in Doc : score[d] \in Int
    BY ScoresAssumption
  <2> QED BY <2>1, <2>2
<1> QED BY <1>1 DEF Before

LEMMA FirstExists ==
  ASSUME NEW docs \in Seq(Doc), NEW score \in [Doc -> Score],
         NEW T, T \subseteq DOMAIN docs, T # {}
  PROVE  \E b \in T : \A i \in T \ {b} : Before(docs, score, b, i)
<1>1. PICK F : F = {U \in FiniteSubsetsOf(T) :
          /\ U # {}
          /\ ~ \E b \in U : \A i \in U \ {b} : Before(docs, score, b, i)}
  OBVIOUS
<1>2. SUFFICES ASSUME F # {} PROVE FALSE
  <2>1. IsFiniteSet(T)
    <3>1. IsFiniteSet(1..Len(docs))
      BY FS_Interval
    <3> QED BY <3>1, FS_Subset
  <2>2. T \in FiniteSubsetsOf(T)
    BY <2>1 DEF FiniteSubsetsOf
  <2> QED BY <1>1, <2>2
<1>3. PICK U \in F : \A W \in F : W \subseteq U => W = U
  <2>1. F \subseteq FiniteSubsetsOf(T)
    BY <1>1
  <2> QED BY <1>2, <2>1, LeastFiniteSet
<1>4. /\ U \subseteq T /\ IsFiniteSet(U) /\ U # {}
      /\ ~ \E b \in U : \A i \in U \ {b} : Before(docs, score, b, i)
  BY <1>1 DEF FiniteSubsetsOf
<1>5. PICK u \in U : TRUE
  BY <1>4
<1>6. U \ {u} # {}
  BY <1>4, <1>5
<1>7. PICK b \in U \ {u} : \A i \in (U \ {u}) \ {b} : Before(docs, score, b, i)
  <2>1. U \ {u} \in FiniteSubsetsOf(T) /\ U \ {u} # U
    BY <1>4, <1>5, FS_RemoveElement DEF FiniteSubsetsOf
  <2> QED BY <1>1, <1>3, <1>6, <2>1
<1>8. u \in DOMAIN docs /\ b \in DOMAIN docs /\ U \subseteq DOMAIN docs
  BY <1>4, <1>5, <1>7
<1>9. CASE Before(docs, score, b, u)
  <2>1. \A i \in U \ {b} : Before(docs, score, b, i)
    BY <1>7, <1>9
  <2> QED BY <1>4, <1>7, <2>1
<1>10. CASE Before(docs, score, u, b)
  <2>1. \A i \in U \ {u} : Before(docs, score, u, i)
    BY <1>7, <1>8, <1>10, BeforeIsAnOrder
  <2> QED BY <1>4, <1>5, <2>1
<1> QED BY <1>7, <1>8, <1>9, <1>10, BeforeIsAnOrder

(* r ranks the n best of the candidates. *)
Ranks(docs, score, C, n, r) ==
  /\ r \in [1..n -> C]
  /\ \A x, y \in 1..n : x < y => Before(docs, score, r[x], r[y])
  /\ \A x \in 1..n, i \in C \ Range(r) : Before(docs, score, r[x], i)

LEMMA RankingExists ==
  ASSUME NEW docs \in Seq(Doc), NEW score \in [Doc -> Score],
         NEW C, C \subseteq DOMAIN docs, IsFiniteSet(C),
         NEW n \in Nat, n <= Cardinality(C)
  PROVE  \E r : Ranks(docs, score, C, n, r)
<1>1. PICK T : T = {k \in Nat : k <= Cardinality(C)
                                /\ ~ \E r : Ranks(docs, score, C, k, r)}
  OBVIOUS
<1>2. SUFFICES ASSUME T # {} PROVE FALSE
  BY <1>1
<1>3. PICK k \in T : \A l \in T : k <= l
  <2>1. T \subseteq Nat
    BY <1>1
  <2> QED BY <1>2, <2>1, LeastNatural
<1>4. k \in Nat /\ k <= Cardinality(C) /\ ~ \E r : Ranks(docs, score, C, k, r)
  BY <1>1
<1>5. k # 0
  <2>1. Ranks(docs, score, C, 0, [x \in 1..0 |-> 0])
    BY DEF Ranks
  <2> QED BY <1>4, <2>1
<1>6. PICK m \in Nat : k = m + 1
  BY <1>4, <1>5
<1>7. Cardinality(C) \in Nat /\ m < Cardinality(C) /\ m \notin T
  BY <1>3, <1>4, <1>6, FS_CardinalityType
<1>8. PICK r : Ranks(docs, score, C, m, r)
  BY <1>1, <1>7
<1>9. C \ Range(r) # {}
  <2>1. r \in [1..m -> C] /\ Range(r) \subseteq C
    BY <1>8 DEF Ranks, Range
  <2>2. r \in Surjection(1..m, Range(r))
    BY <2>1, Fun_RangeProperties
  <2>3. IsFiniteSet(1..m) /\ Cardinality(1..m) = m
    BY FS_Interval
  <2>4. IsFiniteSet(Range(r)) /\ Cardinality(Range(r)) <= m
    BY <2>2, <2>3, FS_Surjection
  <2>5. Cardinality(Range(r)) # Cardinality(C)
    BY <1>7, <2>4, FS_CardinalityType
  <2>6. Range(r) # C
    BY <2>5
  <2> QED BY <2>1, <2>6
<1>10. PICK b \in C \ Range(r) :
          \A i \in (C \ Range(r)) \ {b} : Before(docs, score, b, i)
  <2>1. C \ Range(r) \subseteq DOMAIN docs
    OBVIOUS
  <2> QED BY <1>9, <2>1, FirstExists
<1>11. PICK q : q = [x \in 1..k |-> IF x = k THEN b ELSE r[x]]
  OBVIOUS
<1>12. /\ q \in [1..k -> C] /\ q[k] = b
       /\ \A x \in 1..m : q[x] = r[x] /\ x # k
       /\ \A x \in 1..k : x = k \/ x \in 1..m
  BY <1>6, <1>8, <1>10, <1>11 DEF Ranks
<1>13. \A i \in C \ Range(q) : i \in C \ Range(r) /\ i # b
  <2>1. DOMAIN q = 1..k /\ DOMAIN r = 1..m /\ k \in 1..k
    BY <1>4, <1>5, <1>8, <1>12 DEF Ranks
  <2>2. 1..m \subseteq 1..k
    BY <1>6
  <2>3. \A x \in 1..m : r[x] \in Range(q)
    <3> SUFFICES ASSUME NEW x \in 1..m PROVE r[x] \in Range(q)
      OBVIOUS
    <3>1. x \in DOMAIN q /\ q[x] = r[x]
      BY <1>12, <2>1, <2>2
    <3> QED BY <3>1 DEF Range
  <2>4. b \in Range(q)
    BY <1>12, <2>1 DEF Range
  <2> QED BY <2>1, <2>3, <2>4 DEF Range
<1>14. \A x, y \in 1..k : x < y => Before(docs, score, q[x], q[y])
  <2> SUFFICES ASSUME NEW x \in 1..k, NEW y \in 1..k, x < y
               PROVE  Before(docs, score, q[x], q[y])
    OBVIOUS
  <2>1. x \in 1..m /\ q[x] = r[x]
    BY <1>6, <1>12
  <2>2. CASE y = k
    BY <1>8, <1>10, <1>12, <2>1, <2>2 DEF Ranks
  <2>3. CASE y \in 1..m
    BY <1>8, <1>12, <2>1, <2>3 DEF Ranks
  <2> QED BY <1>12, <2>2, <2>3
<1>15. \A x \in 1..k, i \in C \ Range(q) : Before(docs, score, q[x], i)
  <2> SUFFICES ASSUME NEW x \in 1..k, NEW i \in C \ Range(q)
               PROVE  Before(docs, score, q[x], i)
    OBVIOUS
  <2>1. i \in C \ Range(r) /\ i # b
    BY <1>13
  <2>2. CASE x = k
    BY <1>10, <1>12, <2>1, <2>2
  <2>3. CASE x \in 1..m
    BY <1>8, <1>12, <2>1, <2>3 DEF Ranks
  <2> QED BY <1>12, <2>2, <2>3
<1>16. Ranks(docs, score, C, k, q)
  BY <1>12, <1>14, <1>15 DEF Ranks
<1> QED BY <1>4, <1>16

(* What is found are candidates, one at least. *)
Found(results, docs, C) ==
  \E n \in 1..TopK : \E r \in [1..n -> C] : results = [x \in 1..n |-> docs[r[x]]]

LEMMA BestAreCandidates ==
  ASSUME NEW docs \in Seq(Doc), NEW score \in [Doc -> Score],
         NEW C, C \subseteq DOMAIN docs, C # {}
  PROVE  Found(Best(docs, C, score), docs, C)
<1>1. IsFiniteSet(C)
  <2>1. IsFiniteSet(1..Len(docs))
    BY FS_Interval
  <2> QED BY <2>1, FS_Subset
<1>2. Cardinality(C) \in Nat /\ Cardinality(C) # 0
  BY <1>1, FS_CardinalityType, FS_EmptySet
<1>3. PICK n : n = Min({TopK, Cardinality(C)})
  OBVIOUS
<1>4. n \in 1..TopK /\ n \in Nat /\ n <= Cardinality(C)
  <2>1. PICK c \in Nat : c = Cardinality(C) /\ c # 0
    BY <1>2
  <2>2. n = IF TopK <= c THEN TopK ELSE c
    <3>1. TopK \in Int /\ c \in Int
      BY LimitsAssumption
    <3>2. Min({TopK, c}) = IF TopK <= c THEN TopK ELSE c
      BY <3>1, LeastOfTwo
    <3> QED BY <1>3, <2>1, <3>2
  <2> QED BY <2>1, <2>2, LimitsAssumption
<1>5. \E r : Ranks(docs, score, C, n, r)
  BY <1>1, <1>4, RankingExists
<1>6. PICK r : r = CHOOSE q \in [1..n -> C] :
        /\ \A x, y \in 1..n : x < y => Before(docs, score, q[x], q[y])
        /\ \A x \in 1..n, i \in C \ Range(q) : Before(docs, score, q[x], i)
  OBVIOUS
<1>7. r \in [1..n -> C]
  BY <1>5, <1>6 DEF Ranks
<1>8. Best(docs, C, score) = [x \in 1..n |-> docs[r[x]]]
  BY <1>3, <1>6 DEF Best
<1> QED BY <1>4, <1>7, <1>8 DEF Found

-----------------------------------------------------------------------------
(* The budget.                                                             *)

(* A budgeted list is a first part of the results, not an empty one. *)
LEMMA BudgetedIsAPrefix ==
  ASSUME NEW n \in Nat \ {0}, NEW results \in [1..n -> Doc]
  PROVE  \E m \in 1..n : Budgeted(results) = [x \in 1..m |-> results[x]]
<1>1. PICK over : over = {x \in DOMAIN results : Overflows(results, x)}
  OBVIOUS
<1>2. DOMAIN results = 1..n /\ over \subseteq 1..n /\ 1 \notin over
  BY <1>1 DEF Overflows
<1>3. CASE over = {}
  <2>1. Budgeted(results) = results
    BY <1>1, <1>3 DEF Budgeted
  <2> QED BY <1>2, <2>1
<1>4. CASE over # {}
  <2>1. over \subseteq Nat /\ over \subseteq Int
    BY <1>2
  <2>2. PICK m \in over : \A y \in over : m <= y
    BY <1>4, <2>1, LeastNatural
  <2>3. Min(over) = m /\ m \in 1..n
    BY <1>2, <2>1, <2>2, MinIs
  <2>4. Budgeted(results) = SubSeq(results, 1, m)
    BY <1>1, <1>4, <2>3 DEF Budgeted
  <2>5. SubSeq(results, 1, m) = [x \in 1..m |-> results[x]]
    <3>1. results \in Seq(Doc)
      OBVIOUS
    <3> QED BY <2>3, <3>1
  <2> QED BY <2>3, <2>4, <2>5
<1> QED BY <1>3, <1>4

-----------------------------------------------------------------------------
(* Answers.                                                                *)

(* An answer: documents of the store, about the service if there are any   *)
(* about it.                                                               *)
Answers(b, docs, service) ==
  /\ b \in Seq(Doc) /\ b # <<>>
  /\ About(docs, service) # {} => \A x \in DOMAIN b : ServiceOf[b[x]] = service

(* So is every query answered by a store that holds something. *)
LEMMA AnswersOfAStore ==
  ASSUME NEW docs \in Seq(Doc), DOMAIN docs # {}, NEW service \in Service,
         NEW score \in [Doc -> Score],
         NEW b, b = Budgeted(Results(docs, service, score))
  PROVE  Answers(b, docs, service)
<1>1. PICK C : C = IF About(docs, service) # {} THEN About(docs, service) ELSE DOMAIN docs
  OBVIOUS
<1>2. /\ C \subseteq DOMAIN docs /\ C # {}
      /\ \A i \in C : About(docs, service) # {} => ServiceOf[docs[i]] = service
  BY <1>1 DEF About
<1>3. Found(Best(docs, C, score), docs, C)
  BY <1>2, BestAreCandidates
<1>4. PICK n \in 1..TopK : \E r \in [1..n -> C] :
         Best(docs, C, score) = [x \in 1..n |-> docs[r[x]]]
  BY <1>3 DEF Found
<1>5. PICK r \in [1..n -> C] : Best(docs, C, score) = [x \in 1..n |-> docs[r[x]]]
  BY <1>4
<1>6. PICK results : results = Results(docs, service, score)
  OBVIOUS
<1>7. results = [x \in 1..n |-> docs[r[x]]]
  BY <1>1, <1>5, <1>6 DEF Results
<1>8. /\ n \in Nat \ {0}
      /\ \A x \in 1..n : r[x] \in C /\ r[x] \in DOMAIN docs /\ docs[r[x]] \in Doc
      /\ results \in [1..n -> Doc]
  <2>1. n \in Nat \ {0}
    BY LimitsAssumption
  <2>2. \A x \in 1..n : r[x] \in C /\ r[x] \in DOMAIN docs /\ docs[r[x]] \in Doc
    BY <1>2
  <2> QED BY <1>7, <2>1, <2>2
<1>9. PICK m \in 1..n : b = [x \in 1..m |-> results[x]]
  BY <1>6, <1>8, BudgetedIsAPrefix
<1>10. m \in Nat \ {0} /\ \A x \in 1..m : x \in 1..n /\ b[x] = docs[r[x]]
  BY <1>7, <1>8, <1>9
<1>11. b \in Seq(Doc) /\ DOMAIN b = 1..m /\ b # <<>>
  <2>1. DOMAIN b = 1..m /\ \A x \in 1..m : b[x] \in Doc
    BY <1>8, <1>9, <1>10
  <2>2. b \in [1..m -> Doc]
    BY <1>9, <2>1
  <2>3. b \in Seq(Doc) /\ Len(b) = m
    BY <1>10, <2>2
  <2> QED BY <1>10, <2>1, <2>3
<1> QED BY <1>2, <1>8, <1>10, <1>11 DEF Answers

(* A search that embeds its query does so after the seeding, so that the   *)
(* store it asks holds every seed.                                         *)
MemoryInv ==
  /\ SeedInv
  /\ MemoryTypeOK
  /\ \A s \in Searcher : search[s].phase = "querying" => seeded[SearchedBy]
  /\ SearchFindsItsService

LEMMA InitMemoryInv == AnalystInit => MemoryInv
<1> SUFFICES ASSUME AnalystInit PROVE MemoryInv
  OBVIOUS
<1>1. /\ documents = [m \in Manager |-> <<>>]
      /\ seeded = [m \in Manager |-> FALSE]
      /\ search \in [Searcher -> [phase : {"idle"}, service : Service, blank : BOOLEAN,
                                  embedded : {0}]]
      /\ answer = [s \in Searcher |-> <<>>] /\ indexed = {}
  BY DEF AnalystInit, MemoryInit
<1>2. MemoryTypeOK
  <2>1. \A s \in Searcher : search[s] \in Searching
    BY <1>1, SeedsAssumption DEF Searching
  <2>2. search \in [Searcher -> Searching]
    BY <1>1, <2>1
  <2> QED BY <1>1, <2>2 DEF MemoryTypeOK
<1>3. \A s \in Searcher : search[s].phase = "idle"
  BY <1>1
<1>4. SearchFindsItsService
  BY <1>3 DEF SearchFindsItsService
<1> QED BY <1>2, <1>3, <1>4, InitSeedInv DEF MemoryInv

(* A memory that counts as seeded holds every seed. *)
LEMMA SeededHoldsSeeds ==
  ASSUME SeedInv, seeded[SearchedBy], NEW d \in SeedDocs
  PROVE  \E i \in DOMAIN documents[SearchedBy] : documents[SearchedBy][i] = d
<1>1. SearchedBy \in Manager /\ Copies(SearchedBy, d) > 0
  BY DEF SeedInv, SeedingIsAtomic, SearchedBy, Manager
<1>2. {i \in DOMAIN documents[SearchedBy] : documents[SearchedBy][i] = d} # {}
  BY <1>1, FS_EmptySet DEF Copies
<1> QED BY <1>2

(* Nothing but an answer changes what a search came back with, and what    *)
(* it was asked never changes.                                             *)
LEMMA PhaseKeeps ==
  ASSUME MemoryInv, UNCHANGED answer, NEW s \in Searcher,
         NEW phase \in {"idle", "seeding", "querying", "answered", "failed"},
         NEW embedded \in 0..Len(Seeds),
         search' = [search EXCEPT ![s].phase = phase, ![s].embedded = embedded],
         phase = "answered" => search[s].blank \/ search[s].phase = "answered"
  PROVE  search' \in [Searcher -> Searching] /\ SearchFindsItsService'
<1>1. search \in [Searcher -> Searching]
  BY DEF MemoryInv, MemoryTypeOK
<1>2. search' \in [Searcher -> Searching]
  BY <1>1 DEF Searching
<1>3. \A t \in Searcher :
        /\ search'[t].service = search[t].service /\ search'[t].blank = search[t].blank
        /\ t # s => search'[t] = search[t]
  BY <1>1 DEF Searching
<1>4. search'[s].phase = phase
  BY <1>1 DEF Searching
<1>5. SearchFindsItsService'
  <2>1. \A t \in Searcher : search'[t].phase = "answered" /\ ~search'[t].blank =>
          search[t].phase = "answered" /\ ~search[t].blank
    BY <1>3, <1>4
  <2>2. answer' = answer
    OBVIOUS
  <2> SUFFICES ASSUME NEW t \in Searcher, search'[t].phase = "answered", ~search'[t].blank
               PROVE  /\ answer'[t] # <<>>
                      /\ (\E d \in SeedDocs : ServiceOf[d] = search'[t].service) =>
                           \A n \in DOMAIN answer'[t] :
                             ServiceOf[answer'[t][n]] = search'[t].service
    BY DEF SearchFindsItsService
  <2>3. search[t].phase = "answered" /\ ~search[t].blank
    BY <2>1
  <2>4. search'[t].service = search[t].service
    BY <1>3
  <2> QED BY <2>2, <2>3, <2>4 DEF MemoryInv, SearchFindsItsService
<1> QED BY <1>2, <1>5

LEMMA AnswerQueryKeeps ==
  ASSUME MemoryInv, SeedInv', NEW s \in Searcher, AnswerQuery(s)
  PROVE  MemoryInv'
<1>1. search \in [Searcher -> Searching] /\ documents \in [Manager -> Seq(Doc)]
      /\ answer \in [Searcher -> Seq(Doc)] /\ indexed \subseteq Poster
      /\ seeded \in [Manager -> BOOLEAN]
  BY DEF MemoryInv, MemoryTypeOK
<1>2. /\ search[s].phase = "querying" /\ search' = [search EXCEPT ![s].phase = "answered"]
      /\ UNCHANGED <<documents, seeded, indexed>>
  BY DEF AnswerQuery
<1>3. PICK docs : docs = documents[SearchedBy]
  OBVIOUS
<1>4. /\ docs \in Seq(Doc)
      /\ \A d \in SeedDocs : \E i \in DOMAIN docs : docs[i] = d
  <2>1. SearchedBy \in Manager
    BY DEF SearchedBy, Manager
  <2> QED BY <1>1, <1>2, <1>3, <2>1, SeededHoldsSeeds DEF MemoryInv
<1>5. DOMAIN docs # {}
  BY <1>4, SeedsAssumption DEF SeedDocs
<1>6. PICK service \in Service : service = search[s].service
  BY <1>1 DEF Searching
<1>7. PICK score \in [Doc -> Score] :
        answer' = [answer EXCEPT ![s] = Budgeted(Results(docs, service, score))]
  BY <1>3, <1>6 DEF AnswerQuery
<1>8. PICK b : b = Budgeted(Results(docs, service, score))
  OBVIOUS
<1>9. /\ b \in Seq(Doc) /\ b # <<>>
      /\ About(docs, service) # {} => \A x \in DOMAIN b : ServiceOf[b[x]] = service
  BY <1>4, <1>5, <1>8, AnswersOfAStore DEF Answers
<1>10. answer' = [answer EXCEPT ![s] = b] /\ answer'[s] = b
       /\ \A t \in Searcher : t # s => answer'[t] = answer[t]
  BY <1>1, <1>7, <1>8
<1>11. /\ search' \in [Searcher -> Searching]
       /\ \A t \in Searcher :
            /\ search'[t].service = search[t].service /\ search'[t].blank = search[t].blank
            /\ t # s => search'[t] = search[t]
       /\ search'[s].phase = "answered"
  BY <1>1, <1>2 DEF Searching
<1>12. MemoryTypeOK'
  <2>1. answer' \in [Searcher -> Seq(Doc)]
    BY <1>1, <1>9, <1>10
  <2> QED BY <1>1, <1>2, <1>11, <2>1 DEF MemoryTypeOK
<1>13. SearchFindsItsService'
  <2> SUFFICES ASSUME NEW t \in Searcher, search'[t].phase = "answered", ~search'[t].blank
               PROVE  /\ answer'[t] # <<>>
                      /\ (\E d \in SeedDocs : ServiceOf[d] = search'[t].service) =>
                           \A n \in DOMAIN answer'[t] :
                             ServiceOf[answer'[t][n]] = search'[t].service
    BY DEF SearchFindsItsService
  <2>1. CASE t # s
    BY <1>10, <1>11, <2>1 DEF MemoryInv, SearchFindsItsService
  <2>2. CASE t = s
    <3>1. (\E d \in SeedDocs : ServiceOf[d] = service) => About(docs, service) # {}
      BY <1>4 DEF About
    <3> QED BY <1>6, <1>9, <1>10, <1>11, <2>2, <3>1
  <2> QED BY <2>1, <2>2
<1>14. \A t \in Searcher : search'[t].phase = "querying" => seeded'[SearchedBy]
  BY <1>2, <1>11 DEF MemoryInv
<1> QED BY <1>2, <1>12, <1>13, <1>14 DEF MemoryInv

LEMMA BeginKeeps ==
  ASSUME MemoryInv, SeedInv', NEW s \in Searcher,
         BeginSearch(s) \/ AnswerBlank(s) \/ SearchFails(s)
  PROVE  MemoryInv'
<1>1. search \in [Searcher -> Searching]
  BY DEF MemoryInv, MemoryTypeOK
<1>2. PICK phase \in {"seeding", "querying", "answered", "failed"} :
        /\ search' = [search EXCEPT ![s].phase = phase]
        /\ phase = "answered" => search[s].blank
        /\ phase = "querying" => seeded[SearchedBy]
  BY DEF BeginSearch, AnswerBlank, SearchFails
<1>3. UNCHANGED <<documents, seeded, answer, indexed>>
  BY DEF BeginSearch, AnswerBlank, SearchFails
<1>4. PICK embedded \in 0..Len(Seeds) : embedded = search[s].embedded
  BY <1>1 DEF Searching
<1>5. search' = [search EXCEPT ![s].phase = phase, ![s].embedded = embedded]
  BY <1>1, <1>2, <1>4 DEF Searching
<1>6. search' \in [Searcher -> Searching] /\ SearchFindsItsService'
  BY <1>2, <1>3, <1>5, PhaseKeeps
<1>7. \A t \in Searcher : search'[t].phase = "querying" => seeded'[SearchedBy]
  BY <1>1, <1>2, <1>3 DEF MemoryInv, Searching
<1>8. MemoryTypeOK'
  BY <1>3, <1>6 DEF MemoryInv, MemoryTypeOK
<1> QED BY <1>3, <1>6, <1>7, <1>8 DEF MemoryInv

LEMMA EmbedKeeps ==
  ASSUME MemoryInv, SeedInv', NEW s \in Searcher, EmbedSeed(s)
  PROVE  MemoryInv'
<1>1. search \in [Searcher -> Searching] /\ documents \in [Manager -> Seq(Doc)]
      /\ seeded \in [Manager -> BOOLEAN] /\ SearchedBy \in Manager
  BY DEF MemoryInv, MemoryTypeOK, SearchedBy, Manager
<1>2. PICK n : n = search[s].embedded + 1
  OBVIOUS
<1>3. PICK phase : phase = IF n = Len(Seeds) THEN "querying" ELSE search[s].phase
  OBVIOUS
<1>4. /\ search[s].phase = "seeding"
      /\ search' = [search EXCEPT ![s].phase = phase, ![s].embedded = n]
      /\ UNCHANGED <<answer, indexed>>
      /\ \/ n < Len(Seeds) /\ UNCHANGED <<documents, seeded>>
         \/ /\ n = Len(Seeds)
            /\ documents' = [documents EXCEPT ![SearchedBy] = @ \o Seeds]
            /\ seeded' = [seeded EXCEPT ![SearchedBy] = TRUE]
  BY <1>1, <1>2, <1>3 DEF EmbedSeed, Searching
<1>5. n \in 0..Len(Seeds) /\ phase \in {"seeding", "querying"}
  <2>1. search[s].embedded \in 0..Len(Seeds) /\ Len(Seeds) \in Nat
    BY <1>1, SeedsAssumption DEF Searching
  <2> QED BY <1>2, <1>3, <1>4, <2>1
<1>6. search' \in [Searcher -> Searching] /\ SearchFindsItsService'
  BY <1>4, <1>5, PhaseKeeps
<1>7. \A t \in Searcher : search'[t].phase = "querying" => seeded'[SearchedBy]
  <2>1. search'[s].phase = phase /\ \A t \in Searcher : t # s => search'[t] = search[t]
    BY <1>1, <1>4 DEF Searching
  <2>2. seeded[SearchedBy] => seeded'[SearchedBy]
    BY <1>1, <1>4
  <2>3. phase = "querying" => seeded'[SearchedBy]
    <3>1. phase = "querying" => n = Len(Seeds)
      BY <1>3, <1>4
    <3> QED BY <1>1, <1>4, <1>5, <3>1, SeedsAssumption
  <2> QED BY <2>1, <2>2, <2>3 DEF MemoryInv
<1>8. MemoryTypeOK'
  BY <1>4, <1>6 DEF MemoryInv, MemoryTypeOK, SeedInv
<1> QED BY <1>6, <1>7, <1>8 DEF MemoryInv

LEMMA IndexKeeps ==
  ASSUME MemoryInv, SeedInv', NEW p \in Poster, IndexPostmortem(p)
  PROVE  MemoryInv'
<1>1. indexed' = indexed \cup {p} /\ UNCHANGED <<seeded, search, answer>>
  BY DEF IndexPostmortem
<1>2. MemoryTypeOK'
  BY <1>1 DEF MemoryInv, MemoryTypeOK, SeedInv
<1>3. SearchFindsItsService'
  BY <1>1 DEF MemoryInv, SearchFindsItsService
<1> QED BY <1>1, <1>2, <1>3 DEF MemoryInv

LEMMA NextMemoryInv == MemoryInv /\ [AnalystNext]_analystVars => MemoryInv'
<1> SUFFICES ASSUME MemoryInv, [AnalystNext]_analystVars PROVE MemoryInv'
  OBVIOUS
<1>1. SeedInv'
  BY NextSeedInv DEF MemoryInv
<1>2. CASE UNCHANGED memoryVars
  <2>1. UNCHANGED <<documents, seeded, search, answer, indexed>>
    BY <1>2 DEF memoryVars
  <2>2. MemoryTypeOK' /\ SearchFindsItsService'
    BY <2>1 DEF MemoryInv, MemoryTypeOK, SearchFindsItsService
  <2> QED BY <1>1, <2>1, <2>2 DEF MemoryInv
<1>3. ASSUME NEW a \in Searcher, Investigate(a) \/ SeedMemory(a) \/ SearchReturns(a)
      PROVE  MemoryInv'
  BY <1>1, <1>3, BeginKeeps, EmbedKeeps, AnswerQueryKeeps
     DEF Investigate, SeedMemory, SearchReturns
<1>4. ASSUME NEW c \in Call, OtherAgentAsks(c) \/ ProviderReturns(c) PROVE MemoryInv'
  BY <1>2, <1>4 DEF OtherAgentAsks, ProviderReturns
<1>5. CASE (\E p \in Poster : IndexPostmortem(p)) /\ UNCHANGED routerVars
  BY <1>1, <1>5, IndexKeeps
<1>6. CASE UNCHANGED analystVars
  BY <1>2, <1>6 DEF analystVars
<1> QED BY <1>3, <1>4, <1>5, <1>6 DEF AnalystNext

(* The memory's stores, flags, searches and answers keep their types.      *)
THEOREM MemoryTypeCorrect == AnalystSpec => []MemoryTypeOK
<1>1. MemoryInv => MemoryTypeOK
  BY DEF MemoryInv
<1> QED BY <1>1, InitMemoryInv, NextMemoryInv, PTL DEF AnalystSpec

(* For any seeds, reports, similarities, lengths and budget, and whatever  *)
(* races to seed the memory, a search with a query comes back with         *)
(* something, and with nothing of another service if a curated postmortem  *)
(* is about the one it asked for (search_similar_incidents,                *)
(* episodic.py:101-154).                                                   *)
THEOREM SearchesFindTheirService == AnalystSpec => []SearchFindsItsService
<1>1. MemoryInv => SearchFindsItsService
  BY DEF MemoryInv
<1> QED BY <1>1, InitMemoryInv, NextMemoryInv, PTL DEF AnalystSpec
=============================================================================
