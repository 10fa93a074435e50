--------------------------- MODULE RiskPolicyProofs ---------------------------
(***************************************************************************)
(* Proofs about RiskPolicy, for any services, topologies, proposals and    *)
(* claimed roles.                                                          *)
(***************************************************************************)
EXTENDS RiskPolicy, FiniteSetTheorems, TLAPS

AssessedTier(a) == TierOf(Score(a.type, a.destructive, Reach(a)))

(* An assessed action has the tier of its assessment; an approval was      *)
(* authorized for the tier of an assessed action.                          *)
Assessed ==
  \A id \in ActionId :
    actions[id].assessed => actions[id].tier = AssessedTier(actions[id])

Grants ==
  \A id \in ActionId, role \in Claimed :
    <<id, role>> \in granted =>
      actions[id].assessed /\ Authorized(actions[id].tier, role)

IInv == TypeOK /\ Assessed /\ Grants

-----------------------------------------------------------------------------
(* A radius is a finite set of services. *)
LEMMA ReachIsNat ==
  ASSUME NEW t \in Topology, NEW s \in Service
  PROVE  Cardinality(BlastRadius(t, s)) \in Nat
<1>1. BlastRadius(t, s) \subseteq Service
  BY TopologyAssumption DEF BlastRadius, UpstreamDependents, DownstreamDependencies
<1> QED BY <1>1, TopologyAssumption, FS_Subset, FS_CardinalityType

(* A destructive payload is critical, whatever its action reaches. *)
LEMMA DestructiveIsCritical ==
  ASSUME NEW type \in ActionType, NEW reach \in Nat
  PROVE  TierOf(Score(type, TRUE, reach)) = "CRITICAL"
<1>1. BaseRisk(type, TRUE) = 100
  BY DEF BaseRisk
<1>2. BlastPenalty(reach) \in Nat
  BY DEF BlastPenalty, Smaller
<1>3. Smaller(100, 100 + BlastPenalty(reach)) = 100
  BY <1>2 DEF Smaller
<1>5. Score(type, TRUE, reach) = 100
  BY <1>1, <1>3 DEF Score
<1>4. TierOf(100) = "CRITICAL"
  BY DEF TierOf
<1> QED BY <1>4, <1>5

(* The score grows with the reach and with a destructive payload ... *)
LEMMA ScoreMonotone ==
  ASSUME NEW type \in ActionType, NEW d \in BOOLEAN, NEW e \in BOOLEAN,
         NEW m \in Nat, NEW n \in Nat, m <= n, d => e
  PROVE  /\ Score(type, d, m) \in Nat
         /\ Score(type, e, n) \in Nat
         /\ Score(type, d, m) <= Score(type, e, n)
<1>1. /\ BaseRisk(type, d) \in Nat /\ BaseRisk(type, e) \in Nat
      /\ BaseRisk(type, d) <= BaseRisk(type, e)
  BY DEF BaseRisk, BASE_ACTION_RISK, ActionType
<1>2. /\ BlastPenalty(m) \in Nat /\ BlastPenalty(n) \in Nat
      /\ BlastPenalty(m) <= BlastPenalty(n)
  BY DEF BlastPenalty, Smaller
<1> QED BY <1>1, <1>2 DEF Score, Smaller

(* ... and the tier with the score. *)
LEMMA TierMonotone ==
  ASSUME NEW x \in Nat, NEW y \in Nat, x <= y
  PROVE  /\ TierOf(x) \in RiskTier
         /\ TierRank[TierOf(x)] <= TierRank[TierOf(y)]
<1>1. TierOf(x) = IF x < 35 THEN "LOW" ELSE IF x < 60 THEN "MEDIUM"
                  ELSE IF x < 85 THEN "HIGH" ELSE "CRITICAL"
  BY DEF TierOf
<1>2. TierOf(y) = IF y < 35 THEN "LOW" ELSE IF y < 60 THEN "MEDIUM"
                  ELSE IF y < 85 THEN "HIGH" ELSE "CRITICAL"
  BY DEF TierOf
<1> QED BY <1>1, <1>2 DEF TierRank, RiskTier

-----------------------------------------------------------------------------
LEMMA InitIInv == Init => IInv
BY InputAssumption DEF Init, IInv, TypeOK, Assessed, Grants, Planned

LEMMA AssessStep ==
  ASSUME IInv, NEW id \in ActionId, AssessActionRisk(id)
  PROVE  IInv'
<1> DEFINE a == actions[id]
           tier == TierOf(Score(a.type, a.destructive, Reach(a)))
           b == [a EXCEPT !.tier = tier, !.assessed = TRUE]
<1>t. TypeOK /\ a \in Planned /\ topology \in Topology
  BY DEF IInv, TypeOK
<1>1. /\ ~a.assessed /\ topology' = topology /\ granted' = granted
      /\ actions' = [actions EXCEPT ![id] = b]
  BY <1>t DEF AssessActionRisk, Reach, TypeOK
<1>2. tier \in RiskTier
  <2>1. Reach(a) \in Nat
    BY <1>t, ReachIsNat DEF Reach, Planned
  <2> QED BY <1>t, <2>1, ScoreMonotone, TierMonotone DEF Planned
<1>3. /\ b \in Planned /\ b.type = a.type /\ b.target = a.target
      /\ b.destructive = a.destructive /\ b.tier = tier /\ b.assessed
  BY <1>t, <1>2 DEF Planned
<1> HIDE DEF b
<1>4. TypeOK'
  BY <1>t, <1>1, <1>3 DEF TypeOK
<1>5. actions'[id] = b /\ \A other \in ActionId : other # id => actions'[other] = actions[other]
  BY <1>t, <1>1 DEF TypeOK
<1>6. Assessed'
  <2> SUFFICES ASSUME NEW other \in ActionId, actions'[other].assessed
               PROVE  actions'[other].tier
                        = TierOf(Score(actions'[other].type, actions'[other].destructive,
                                       Cardinality(BlastRadius(topology', actions'[other].target))))
    BY DEF Assessed, AssessedTier, Reach
  <2>1. CASE other = id
    BY <1>1, <1>3, <1>5, <2>1 DEF Reach
  <2>2. CASE other # id
    BY <1>1, <1>5, <2>2 DEF IInv, Assessed, AssessedTier, Reach
  <2> QED BY <2>1, <2>2
<1>7. Grants'
  BY <1>1, <1>5 DEF IInv, Grants
<1> QED BY <1>4, <1>6, <1>7 DEF IInv

LEMMA AuthorizeStep ==
  ASSUME IInv, NEW id \in ActionId, NEW role \in Claimed, AuthorizeApproval(id, role)
  PROVE  IInv'
<1>1. /\ topology' = topology /\ actions' = actions
      /\ granted' = granted \cup {<<id, role>>}
      /\ actions[id].assessed /\ Authorized(actions[id].tier, role)
  BY DEF AuthorizeApproval
<1>2. TypeOK'
  BY <1>1 DEF IInv, TypeOK, Authorized
<1>3. Assessed'
  BY <1>1 DEF IInv, Assessed, AssessedTier, Reach
<1>4. Grants'
  BY <1>1 DEF IInv, Grants
<1> QED BY <1>2, <1>3, <1>4 DEF IInv

LEMMA NextIInv == IInv /\ [Next]_vars => IInv'
<1>1. IInv /\ UNCHANGED vars => IInv'
  BY DEF vars, IInv, TypeOK, Assessed, Grants, AssessedTier, Reach
<1> QED BY <1>1, AssessStep, AuthorizeStep DEF Next

LEMMA InductiveInvariant == Spec => []IInv
BY InitIInv, NextIInv, PTL DEF Spec

-----------------------------------------------------------------------------
(* Actions and grants keep their types; only known roles are granted. *)
THEOREM TypeCorrect == Spec => []TypeOK
<1>1. IInv => TypeOK
  BY DEF IInv
<1> QED BY <1>1, InductiveInvariant, PTL

(* In every topology, a destructive payload needs an administrator. *)
THEOREM OnlyAdminDestroys == Spec => []DestructiveNeedsAdmin
<1>1. IInv => DestructiveNeedsAdmin
  <2> SUFFICES ASSUME IInv, NEW id \in ActionId, NEW role \in Claimed,
                      <<id, role>> \in granted, actions[id].destructive
               PROVE  role = "ADMIN"
    BY DEF DestructiveNeedsAdmin
  <2>1. /\ actions[id] \in Planned /\ topology \in Topology
        /\ actions[id].tier = AssessedTier(actions[id])
        /\ Authorized(actions[id].tier, role)
    BY DEF IInv, TypeOK, Assessed, Grants
  <2>2. Reach(actions[id]) \in Nat /\ actions[id].type \in ActionType
    BY <2>1, ReachIsNat DEF Reach, Planned
  <2>3. actions[id].destructive = TRUE
    BY <2>1 DEF Planned
  <2>4. AssessedTier(actions[id]) = "CRITICAL"
    BY <2>2, <2>3, DestructiveIsCritical DEF AssessedTier
  <2> QED BY <2>1, <2>4 DEF Authorized
<1> QED BY <1>1, InductiveInvariant, PTL

(* In every topology, reaching further never lowers the tier. *)
THEOREM TiersAreMonotone == Spec => []WiderIsNotCheaper
<1>1. IInv => WiderIsNotCheaper
  <2> SUFFICES ASSUME IInv, NEW i \in ActionId, NEW j \in ActionId,
                      actions[i].assessed, actions[j].assessed,
                      actions[i].type = actions[j].type,
                      Reach(actions[i]) <= Reach(actions[j]),
                      actions[i].destructive => actions[j].destructive
               PROVE  TierRank[actions[i].tier] <= TierRank[actions[j].tier]
    BY DEF WiderIsNotCheaper
  <2>1. /\ actions[i] \in Planned /\ actions[j] \in Planned /\ topology \in Topology
        /\ actions[i].tier = AssessedTier(actions[i])
        /\ actions[j].tier = AssessedTier(actions[j])
    BY DEF IInv, TypeOK, Assessed
  <2>2. /\ Reach(actions[i]) \in Nat /\ Reach(actions[j]) \in Nat
        /\ actions[i].type \in ActionType
        /\ actions[i].destructive \in BOOLEAN /\ actions[j].destructive \in BOOLEAN
    BY <2>1, ReachIsNat DEF Reach, Planned
  <2> QED BY <2>1, <2>2, ScoreMonotone, TierMonotone DEF AssessedTier
<1> QED BY <1>1, InductiveInvariant, PTL
=============================================================================
