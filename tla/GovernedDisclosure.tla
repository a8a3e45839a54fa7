------------------------- MODULE GovernedDisclosure -------------------------
(***************************************************************************)
(* What standing mode promises about one proposal, whoever runs it: each   *)
(* of the two principals grants scopes once, what is disclosed is the      *)
(* intersection of the two grants, and a proposal is either invalidated or *)
(* disclosed, never both (SPECIFICATION.md, "Semantic rules", and          *)
(* docs/standing-mode.md, "Safety invariants").  A refusal is a grant of   *)
(* no scope.  StandingCoordinator is shown to implement this module.       *)
(***************************************************************************)

CONSTANTS
  ProposalId,       \* identifiers of proposals
  Scope             \* disclosure scopes

Side == {"initiator", "counterparty"}

VARIABLES
  status,           \* "unknown", "open" or "invalidated", per proposal
  voted,            \* the sides that have decided, per proposal
  granted,          \* the scopes each side granted, per proposal
  disclosed         \* the scopes disclosed, per proposal

vars == <<status, voted, granted, disclosed>>

TypeOK ==
  /\ status \in [ProposalId -> {"unknown", "open", "invalidated"}]
  /\ voted \in [ProposalId -> SUBSET Side]
  /\ granted \in [ProposalId -> [Side -> SUBSET Scope]]
  /\ disclosed \in [ProposalId -> SUBSET Scope]

Init ==
  /\ status = [p \in ProposalId |-> "unknown"]
  /\ voted = [p \in ProposalId |-> {}]
  /\ granted = [p \in ProposalId |-> [s \in Side |-> {}]]
  /\ disclosed = [p \in ProposalId |-> {}]

Propose(p) ==
  /\ status[p] = "unknown"
  /\ status' = [status EXCEPT ![p] = "open"]
  /\ UNCHANGED <<voted, granted, disclosed>>

(* The second decision discloses in the same step what both sides granted. *)
Decide(p, s, scopes) ==
  /\ status[p] = "open"
  /\ s \notin voted[p]
  /\ voted' = [voted EXCEPT ![p] = @ \cup {s}]
  /\ granted' = [granted EXCEPT ![p][s] = scopes]
  /\ disclosed' = [disclosed EXCEPT ![p] =
                     granted'[p]["initiator"] \cap granted'[p]["counterparty"]]
  /\ UNCHANGED status

Invalidate(p) ==
  /\ status[p] = "open"
  /\ disclosed[p] = {}
  /\ status' = [status EXCEPT ![p] = "invalidated"]
  /\ UNCHANGED <<voted, granted, disclosed>>

Next ==
  \E p \in ProposalId :
    \/ Propose(p)
    \/ \E s \in Side, scopes \in SUBSET Scope : Decide(p, s, scopes)
    \/ Invalidate(p)

Spec == Init /\ [][Next]_vars
=============================================================================
