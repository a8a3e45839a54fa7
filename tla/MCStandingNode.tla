--------------------------- MODULE MCStandingNode ---------------------------
(* Small instances of StandingNode. *)
EXTENDS StandingNode, TLC

CONSTANTS p1, p2, b1, b2, c1, c2, n1, n2, d1, d2, r1, r2, i1, i2, h1, h2

MCProposalId == {p1, p2}
MCBody == {b1, b2}
MCEndpoint == {c1, c2}
MCNoticeId == {n1, n2}
MCDecisionId == {d1, d2}
MCReleaseId == {r1, r2}
MCInvalidationId == {i1, i2}
MCTwoHandlers == {h1, h2}

Sent(p, body, coordinator, correlated, notice, state) ==
  [proposal |-> p, body |-> body, coordinator |-> coordinator,
   correlated |-> correlated, notice |-> notice, state |-> state]

(* p1 in two versions, of two coordinators; p2 of the second one, with a   *)
(* notice its owner dismissed, with the identifier of p1's and without     *)
(* correlationId, or without coordinator and already invalidated. *)
MCProposalInput ==
  {Sent(p1, b1, c1, TRUE, n1, "active"),
   Sent(p1, b2, c2, TRUE, n1, "active"),
   Sent(p2, b1, c2, TRUE, n2, "dismissed"),
   Sent(p2, b1, c2, FALSE, n1, "read"),
   Sent(p2, b2, None, TRUE, n2, "invalidated")}

(* r1 for either proposal. *)
MCReleaseInput ==
  {[id |-> r1, proposal |-> p1], [id |-> r1, proposal |-> p2]}

(* One of p1, one that names the wrong notice, one of p2 with the first's  *)
(* identifier. *)
MCInvalidationInput ==
  {[id |-> i1, notice |-> n1, proposal |-> p1],
   [id |-> i2, notice |-> n2, proposal |-> p1],
   [id |-> i1, notice |-> n2, proposal |-> p2]}

Symmetry == Permutations(MCTwoHandlers) \cup Permutations(MCDecisionId)
=============================================================================
