------------------------------ MODULE MCOutbox ------------------------------
(* Small instances of Outbox. *)
EXTENDS Outbox, TLC

CONSTANTS e1, e2, m1, m2, h1, h2

MCEntryId == {e1, e2}
MCPayload == {m1, m2}
MCHandler == {h1, h2}
MCOnePayload == {m1}
MCOneHandler == {h1}

Symmetry == Permutations(MCEntryId) \cup Permutations(MCPayload)
              \cup Permutations(MCHandler)
=============================================================================
