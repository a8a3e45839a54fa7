----------------------- MODULE MCStandingCoordinator -----------------------
(* Small instances of StandingCoordinator. *)
EXTENDS StandingCoordinator

CONSTANTS alice, bob, p1, p2, n1, n2, i1, i2, d1, d2, d3, d4, hire, s1, s2

MCProposalId == {p1, p2}
MCNotificationId == {n1, n2}
MCInvalidationId == {i1, i2}
MCDecisionId == {d1, d2, d3, d4}
MCEntity == {alice, bob}
MCPurpose == {hire}
MCScope == {s1, s2}

P(id, counterparty, requested) ==
  [id |-> id, initiator |-> alice, counterparty |-> counterparty,
   purpose |-> hire, requested |-> requested, expiresAt |-> 2]

N(id, pid, state, at) ==
  [id |-> id, proposalId |-> pid, recipient |-> bob, purpose |-> hire,
   expiresAt |-> 3, state |-> state, invalidatedAt |-> at]

D(id, pid, actor, side, state, approved, at) ==
  [id |-> id, proposalId |-> pid, actor |-> actor, side |-> side,
   state |-> state, approved |-> approved, decidedAt |-> at]

I(id, nid, pid, at) ==
  [id |-> id, notificationId |-> nid, proposalId |-> pid,
   reason |-> "source_state_changed", invalidatedAt |-> at]

(* p1 in two versions; p2, with its requested scopes and without them, and  *)
(* with one party only; n2 of either proposal. *)
MCProposalInput ==
  {P(p1, bob, {s1, s2}), P(p1, bob, {s1}), P(p2, bob, {s2}),
   P(p2, bob, None), P(p2, alice, {s2})}

(* n1 arrives active, as the first invalidation would mark it, or read. *)
MCNotificationInput ==
  {N(n1, p1, "active", None), N(n1, p1, "invalidated", 1),
   N(n2, p1, "read", None), N(n2, p2, "active", None)}

MCDecisionInput ==
  {D(d1, p1, alice, "initiator", "approved", {s1, s2}, 1),
   D(d2, p1, alice, "initiator", "approved", {s1}, 0),
   D(d3, p1, bob, "counterparty", "approved", {s1}, 2),
   D(d4, p1, bob, "counterparty", "approved", {s2}, 1),
   D(d4, p1, bob, "counterparty", "rejected", {s1}, 1),
   D(d1, p1, bob, "initiator", "approved", {s1}, 1),
   D(d2, p2, alice, "initiator", "approved", {s2}, 1),
   D(d3, p2, bob, "counterparty", "approved", {s2}, 1),
   D(d3, p2, bob, "counterparty", "withdrawn", {}, 1)}

MCInvalidationInput ==
  {I(i1, n1, p1, 1), I(i1, n1, p1, 2), I(i2, n2, p1, 1), I(i2, n2, p2, 1)}
=============================================================================
