--------------------------- MODULE MCMcpDelivery ---------------------------
(* An agent and an application share the carrier of MCInMemoryTransport:   *)
(* the agent's calls repeat a nonce, with and without a deadline.          *)
EXTENDS McpDelivery

CONSTANTS s1, s2, x, y

MCSend == {s1, s2}
MCKey == {x, y}

(* Two requests that share a nonce, one of them for ever, and one that the *)
(* agent repeats after it has expired and its nonce is purged. *)
MCRequest ==
  {[key |-> x, expiresAt |-> 1], [key |-> x, expiresAt |-> Never],
   [key |-> y, expiresAt |-> 1]}

(* x arrives at an endpoint with a verifier, y at one without. *)
MCVerifying == {x}

(* A deadline out of the timer's range at 0, a delay at 1, and over at 2.  *)
MCOptions ==
  {[deadlineAt |-> Never, signal |-> FALSE], [deadlineAt |-> 2, signal |-> FALSE],
   [deadlineAt |-> 2, signal |-> TRUE]}

MCArguments ==
  {[key |-> y, expiresAt |-> 1, deadlineAt |-> 2],
   [key |-> y, expiresAt |-> 1, deadlineAt |-> Never]}
=============================================================================
