------------------------ MODULE MCInMemoryTransport ------------------------
(* A small instance of InMemoryTransport: three sends of an application. *)
EXTENDS InMemoryTransport, TLC

CONSTANTS s1, s2, s3, x, y

MCThreeSends == {s1, s2, s3}
MCKey == {x, y}

(* Two requests that share a nonce, one of them for ever, and one whose    *)
(* claim finds the map after the first has expired. *)
MCRequest ==
  {[key |-> x, expiresAt |-> 1], [key |-> x, expiresAt |-> Never],
   [key |-> y, expiresAt |-> 2]}

(* x arrives at an endpoint with a verifier, y at one without. *)
MCVerifying == {x}

(* A deadline out of the timer's range at 0, a delay at 1, and over at 2.  *)
MCOptions ==
  {[deadlineAt |-> Never, signal |-> FALSE], [deadlineAt |-> 2, signal |-> FALSE],
   [deadlineAt |-> 2, signal |-> TRUE]}

Symmetry == Permutations(Send)
=============================================================================
