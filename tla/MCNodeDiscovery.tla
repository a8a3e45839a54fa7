-------------------------- MODULE MCNodeDiscovery --------------------------
(* A small world for NodeDiscovery: one peer whose operator rotates its    *)
(* key and its root, two requesters that use one query identifier, a       *)
(* record, its withdrawal and its successor. *)
EXTENDS NodeDiscovery, TLC

CONSTANTS t1, t2, alice, bob, q1, r1, r2, e1, k1, k2, rootA, rootB, peer, operator

MCHandler == {t1, t2}

MCAnchor == [node |-> peer, operator |-> operator, origin |-> "peer.example",
             root |-> rootA, operations |-> {Operation}]

Key(id, active, rev, from, until) ==
  [id |-> id, purposes |-> {"transport"}, active |-> active, revoked |-> rev,
   from |-> from, until |-> until]

PeerGrant(until) ==
  [issuer |-> operator, subject |-> peer, operations |-> {Operation},
   active |-> TRUE, revoked |-> FALSE, from |-> 0, until |-> until]

Served(sequence, root, transition, keys, grants) ==
  [node |-> peer, operator |-> operator, origin |-> "peer.example",
   secure |-> TRUE, consistent |-> TRUE, sequence |-> sequence, expiresAt |-> 3,
   keyId |-> root, by |-> root, transition |-> transition,
   grants |-> grants, keys |-> keys]

Rollover(from, until) ==
  {[previous |-> rootA, next |-> rootB, from |-> from, until |-> until,
    signedBy |-> {rootA, rootB}]}

(* The first descriptor; a rotation, with the old key revoked and its      *)
(* state left active; a new root, endorsed until 1, with a grant until 2.  *)
MCDescriptor ==
  { Served(1, rootA, {}, {Key(k1, TRUE, FALSE, 0, 2)}, {PeerGrant(3)}),
    Served(2, rootA, {}, {Key(k1, TRUE, TRUE, 0, 2), Key(k2, TRUE, FALSE, 1, 3)}, {PeerGrant(3)}),
    Served(3, rootB, Rollover(0, 1), {Key(k1, TRUE, FALSE, 0, 2)}, {PeerGrant(2)}) }

Q(requester, key, tags) ==
  [id |-> q1, requester |-> requester, authorization |-> "standing",
   purpose |-> "dining", profiles |-> {"hospitality"}, kinds |-> {"place"},
   tags |-> tags, expiresAt |-> 2, key |-> key, signedBy |-> key]

MCQuery == {Q(alice, k1, {"quiet"}), Q(bob, k2, {"quiet", "late"})}

MCRequest ==
  [query : {q1}, requester : {alice, bob}, authorization : {"standing"},
   purpose : {"dining"}]

Reg(recordId, active, tags) ==
  [registration |-> "listing", recordId |-> recordId, active |-> active,
   purpose |-> "dining", profile |-> "hospitality", kinds |-> {"place", "hall"},
   tags |-> tags]

MCRecord ==
  { Reg(r1, TRUE, {"quiet"}), Reg(r1, FALSE, {"quiet"}),
    Reg(r2, TRUE, {"quiet", "late"}) }

MCConfigured == Reg(r1, TRUE, {"quiet"})

MCAnnouncement ==
  {[event |-> e1, registration |-> "listing", body |-> "withdrawn"],
   [event |-> e1, registration |-> "listing", body |-> "replaced"]}
  \cup {[event |-> e1, registration |-> "other", body |-> "withdrawn"]}

MCSymmetry == Permutations(MCHandler)
=============================================================================
