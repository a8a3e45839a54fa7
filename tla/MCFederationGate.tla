-------------------------- MODULE MCFederationGate --------------------------
(* Small instances of FederationGate. *)
EXTENDS FederationGate, TLC

CONSTANTS a, b, c, x, y, h1, h2

MCIdentity == {a, b, c}
MCNonce == {x, y}
MCOneHandler == {h1}
MCTwoHandlers == {h1, h2}

Symmetry ==
  Permutations(MCIdentity) \cup Permutations(MCNonce) \cup Permutations(Handler)
=============================================================================
