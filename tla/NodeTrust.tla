----------------------------- MODULE NodeTrust -----------------------------
(***************************************************************************)
(* When a node's descriptor authorizes a peer's key for an operation.  The *)
(* repository decides this twice: ExpHttpNode.verify_descriptor for live   *)
(* traffic (exp_http_node.py) and Adapter.verify_descriptor_key for the    *)
(* conformance commands (exp_adapter.py).  Both are translated here, as    *)
(* predicates on records that carry what the code compares.                *)
(*                                                                         *)
(* Ed25519 is modelled by what verification establishes: a signed record   *)
(* names the root it claims (keyId) and the root that really signed it     *)
(* (by); a transition carries the set of roots whose signature verifies.   *)
(* A root stands for its key identifier and its key.                       *)
(*                                                                         *)
(*   descriptor: node, operator, origin, secure, sequence, expiresAt,      *)
(*               consistent, keyId, by, transition, grants, keys           *)
(*   transition: previous, next, from, until, signedBy                     *)
(*   grant     : issuer, subject, operations, active, revoked, from, until *)
(*   key       : id, purposes, active, revoked, from, until                *)
(*   anchor    : node, operator, origin, root, operations                  *)
(***************************************************************************)
EXTENDS Integers, FiniteSets

(* A lifetime is closed at its start and open at its end, in both          *)
(* implementations. *)
During(lifetime, now) == lifetime.from <= now /\ now < lifetime.until

InForce(authority) == authority.active /\ ~authority.revoked

(* The grant the operator delegated to its own node covers the operation.  *)
Grants(d, g, operation) ==
  /\ g.issuer = d.operator
  /\ g.subject = d.node
  /\ operation \in g.operations

IsAnchored(d, a) ==
  /\ d.node = a.node
  /\ d.operator = a.operator
  /\ d.origin = a.origin

(* A root that is not pinned is taken only through a transition from the   *)
(* pinned one, signed by both, while the transition lasts. *)
Endorsed(d, a, now) ==
  \E t \in d.transition :
    /\ t.previous = a.root
    /\ t.next = d.keyId
    /\ During(t, now)
    /\ {t.previous, t.next} \subseteq t.signedBy

(* Mutant: the keyId a descriptor claims is compared and the claim is not  *)
(* followed to the root that endorses it. *)
RootSignedByAny(d, a, now) == d.by = d.keyId

RootSigned(d, a, now) ==
  /\ d.keyId = a.root \/ Endorsed(d, a, now)
  /\ d.by = d.keyId

(* ExpHttpNode.verify_descriptor: the transport keys only, whichever entry *)
(* of the identifier qualifies. *)
NodeAccepts(d, a, keyId, operation, now) ==
  /\ IsAnchored(d, a)
  /\ d.secure
  /\ now < d.expiresAt
  /\ RootSigned(d, a, now)
  /\ \E g \in d.grants :
       Grants(d, g, operation) /\ InForce(g) /\ During(g, now)
  /\ \E k \in d.keys :
       /\ k.id = keyId
       /\ InForce(k)
       /\ "transport" \in k.purposes
       /\ During(k, now)

(* What schema and timestamps demand of a descriptor before the adapter    *)
(* reads it, and what the identifiers of its keys must be. *)
IsConsistent(d) ==
  /\ d.consistent
  /\ Cardinality({k.id : k \in d.keys}) = Cardinality(d.keys)

(* Adapter.verify_descriptor_key: the purpose and the anchor's own list of *)
(* operations are arguments, the first key of the identifier decides, and  *)
(* the scheme of the origin is the caller's business (transport_policy).   *)
AdapterAccepts(d, a, keyId, purpose, operation, now) ==
  /\ IsAnchored(d, a)
  /\ now < d.expiresAt
  /\ IsConsistent(d)
  /\ d.keyId = a.root \/ Endorsed(d, a, now)
  /\ d.by = d.keyId
  /\ operation \in a.operations
  /\ \E g \in d.grants :
       Grants(d, g, operation) /\ InForce(g) /\ During(g, now)
  /\ \E k \in d.keys : k.id = keyId
  /\ \A k \in d.keys :
       k.id = keyId =>
         InForce(k) /\ purpose \in k.purposes /\ During(k, now)

=============================================================================
