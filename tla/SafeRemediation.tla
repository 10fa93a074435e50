--------------------------- MODULE SafeRemediation ---------------------------
(***************************************************************************)
(* What an investigation promises whoever owns the systems it touches, in  *)
(* abstract terms: it learns facts, settles once and for all on a          *)
(* diagnosis that rests on facts it has, proposes a list of actions for    *)
(* it once, and from then on has no effect but a call of an action of that *)
(* list, or the compensation of its last one, until it closes.             *)
(***************************************************************************)
EXTENDS Sequences

CONSTANTS
  Fact,
  Diagnosis,   (* what can be approved: a record with the facts it cites   *)
  Proposal,    (* the lists of actions that can be proposed                *)
  Allowed(_),  (* the calls a proposal allows                              *)
  None

VARIABLES
  facts,     (* what has been learnt                      *)
  approved,  (* the diagnosis settled on, or None         *)
  proposal,  (* the actions proposed for it, or None      *)
  effects,   (* the calls made to the outside world       *)
  closed

vars == <<facts, approved, proposal, effects, closed>>

Init ==
  /\ facts = {}
  /\ approved = None
  /\ proposal = None
  /\ effects = <<>>
  /\ closed = FALSE

Learn ==
  /\ approved = None
  /\ \E new \in SUBSET Fact : facts' = facts \cup new
  /\ UNCHANGED <<approved, proposal, effects, closed>>

Approve ==
  /\ approved = None
  /\ \E d \in Diagnosis : d.cites \subseteq facts /\ approved' = d
  /\ UNCHANGED <<facts, proposal, effects, closed>>

Propose ==
  /\ approved # None
  /\ proposal = None
  /\ proposal' \in Proposal
  /\ UNCHANGED <<facts, approved, effects, closed>>

Act ==
  /\ proposal # None
  /\ \E call \in Allowed(proposal) : effects' = Append(effects, call)
  /\ UNCHANGED <<facts, approved, proposal, closed>>

Close ==
  /\ closed' = TRUE
  /\ UNCHANGED <<facts, approved, proposal, effects>>

Next == ~closed /\ (Learn \/ Approve \/ Propose \/ Act \/ Close)

Spec == Init /\ [][Next]_vars
=============================================================================
