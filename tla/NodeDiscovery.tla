--------------------------- MODULE NodeDiscovery ---------------------------
(***************************************************************************)
(* Discovery on the HTTP proof node (exp_http_node.py): discover answers a *)
(* signed catalog query and remembers a grant, dereference hands the       *)
(* record to the holder of a grant, revoke_authorization ends discovery,   *)
(* and the state-changes route replaces the record and announces it.       *)
(*                                                                         *)
(* Every handler is a thread of ThreadingHTTPServer.  Store updates are    *)
(* atomic (JsonStore.lock) and durable, but each handler makes several:    *)
(* discover fetches the peer's descriptor, verifies it, reads a snapshot   *)
(* and only later stores the grant; dereference reads the store twice;     *)
(* state-changes replaces the record before it enqueues the announcement.  *)
(* Other threads, the clock, the peer's operator and a crash come between. *)
(*                                                                         *)
(* The gate (FederationGate) has let the request in before these actions.  *)
(***************************************************************************)
EXTENDS NodeTrust

CONSTANTS
  Handler,            \* request threads
  Query,              \* signed catalog queries
  Request,            \* dereference requests: query, requester, authorization, purpose
  Record,             \* records the node may hold
  ConfiguredRecord,   \* the one it starts with
  Announcement,       \* announcements: event, registration, body
  Descriptor,         \* descriptors the peer's operator may publish
  Anchor,             \* what the node pinned of the peer
  AuthorizedUntil,    \* expiresAt of the standing authorization
  MaxTime             \* bound: the clock runs from 0 to MaxTime

VARIABLES
  now,
  descriptor,         \* what the peer serves at its descriptor endpoint
  record,             \* the record this node holds
  revoked,            \* revokedAt is in the standing authorization
  discoveryGrants,    \* stored grants, at most one for a query identifier
  outbox,             \* queued announcements, at most one for an event
  op,                 \* what each thread is in the middle of
  held,               \* ghost: every record this node ever held
  answers,            \* ghost: the candidates discover gave
  returned            \* ghost: what dereference last answered, to whom

vars == <<now, descriptor, record, revoked, discoveryGrants, outbox, op,
          held, answers, returned>>

Operation == "catalog:discover"

(* The node pins no list of operations; the adapter's anchor allows this one. *)
ASSUME DiscoveryAssumption ==
  /\ ConfiguredRecord \in Record
  /\ Operation \in Anchor.operations
  /\ AuthorizedUntil \in Nat
  /\ MaxTime \in Nat
  /\ \A d \in Descriptor : IsFiniteSet(d.keys)

QueryId == {q.id : q \in Query}

Idle == [step |-> "idle"]

RecordId == {r.recordId : r \in Record}

Grant == [id : QueryId, requester : {q.requester : q \in Query},
          authorization : {q.authorization : q \in Query},
          purpose : {q.purpose : q \in Query},
          record : RecordId]

TypeOK ==
  /\ now \in 0..MaxTime
  /\ descriptor \in Descriptor
  /\ record \in Record
  /\ revoked \in BOOLEAN
  /\ discoveryGrants \subseteq Grant
  /\ \A f, g \in discoveryGrants : f.id = g.id => f = g
  /\ outbox \subseteq Announcement
  /\ \A a, b \in outbox : a.event = b.event => a = b
  /\ \A t \in Handler :
       op[t].step \in {"idle", "fetched", "verified", "matched",
                       "granted", "replaced"}
  /\ held \subseteq Record /\ record \in held
  /\ answers \subseteq [query : Query, record : RecordId, late : BOOLEAN]
  /\ returned \subseteq [request : Request, named : RecordId, record : Record]

Init ==
  /\ now = 0
  /\ descriptor \in {d \in Descriptor : \A e \in Descriptor : d.sequence <= e.sequence}
  /\ record = ConfiguredRecord
  /\ revoked = FALSE
  /\ discoveryGrants = {}
  /\ outbox = {}
  /\ op = [t \in Handler |-> Idle]
  /\ held = {record}
  /\ answers = {}
  /\ returned = {}

-----------------------------------------------------------------------------
(* discover.                                                               *)

(* Mutant: only the expiry ends the authorization. *)
AuthorizationExpired == AuthorizedUntil <= now

AuthorizationEnded == revoked \/ AuthorizedUntil <= now

(* Mutant: one common tag is enough, as it is for the kinds. *)
MatchesAnyTag(q, r) ==
  /\ r.active
  /\ r.purpose = q.purpose
  /\ r.profile \in q.profiles
  /\ r.kinds \cap q.kinds # {}
  /\ q.tags \cap r.tags # {}

(* What the query asks for and the record's registration offers. *)
Matches(q, r) ==
  /\ r.active
  /\ r.purpose = q.purpose
  /\ r.profile \in q.profiles
  /\ r.kinds \cap q.kinds # {}
  /\ q.tags \subseteq r.tags

(* The descriptor is fetched over the network.  A fetch that fails leaves  *)
(* nothing behind. *)
DiscoverFetch(t, q) ==
  /\ op[t] = Idle
  /\ op' = [op EXCEPT ![t] = [step |-> "fetched", query |-> q,
                              descriptor |-> descriptor,
                              late |-> revoked \/ AuthorizedUntil <= now]]
  /\ UNCHANGED <<now, descriptor, record, revoked, discoveryGrants, outbox,
                 held, answers, returned>>

(* The query was signed with a key the descriptor authorizes, in time. *)
Admitted(q, d) ==
  /\ NodeAccepts(d, Anchor, q.key, Operation, now)
  /\ now < q.expiresAt
  /\ q.signedBy = q.key

DiscoverVerify(t) ==
  /\ op[t].step = "fetched"
  /\ op' = [op EXCEPT ![t] =
       IF Admitted(@.query, @.descriptor)
       THEN [step |-> "verified", query |-> @.query, late |-> @.late]
       ELSE Idle]
  /\ UNCHANGED <<now, descriptor, record, revoked, discoveryGrants, outbox,
                 held, answers, returned>>

(* The snapshot of the store; without a match the answer has no candidate. *)
DiscoverMatch(t) ==
  /\ op[t].step = "verified"
  /\ op' = [op EXCEPT ![t] =
       IF ~AuthorizationEnded /\ Matches(@.query, record)
       THEN [step |-> "matched", query |-> @.query, late |-> @.late,
             record |-> record.recordId]
       ELSE Idle]
  /\ UNCHANGED <<now, descriptor, record, revoked, discoveryGrants, outbox,
                 held, answers, returned>>

GrantFor(q, r) ==
  [id |-> q.id, requester |-> q.requester, authorization |-> q.authorization,
   purpose |-> q.purpose, record |-> r]

(* dict.update: a query identifier that comes again takes the place of its *)
(* earlier grant. *)
Granted(q, r) ==
  {g \in discoveryGrants : g.id # q.id} \cup {GrantFor(q, r)}

DiscoverGrant(t) ==
  /\ op[t].step = "matched"
  /\ discoveryGrants' = Granted(op[t].query, op[t].record)
  /\ answers' = answers \cup {[query |-> op[t].query, record |-> op[t].record,
                               late |-> op[t].late]}
  /\ op' = [op EXCEPT ![t] = Idle]
  /\ UNCHANGED <<now, descriptor, record, revoked, outbox, held, returned>>

-----------------------------------------------------------------------------
(* dereference.                                                            *)

(* Mutant: whoever names the query is served. *)
AuthorizesAnyone(g, request, recordId) ==
  g.id = request.query /\ g.record = recordId

Authorizes(g, request, recordId) ==
  /\ g.id = request.query
  /\ g.record = recordId
  /\ g.requester = request.requester
  /\ g.authorization = request.authorization
  /\ g.purpose = request.purpose

(* The first read of the store finds the grant ... *)
DereferenceCheck(t, request, recordId) ==
  /\ op[t] = Idle
  /\ \E g \in discoveryGrants : Authorizes(g, request, recordId)
  /\ op' = [op EXCEPT ![t] = [step |-> "granted", request |-> request,
                              named |-> recordId]]
  /\ UNCHANGED <<now, descriptor, record, revoked, discoveryGrants, outbox,
                 held, answers, returned>>

(* ... and the second returns the record held by then, whichever it is:    *)
(* its identifier is not compared with the one that was named. *)
DereferenceRead(t) ==
  /\ op[t].step = "granted"
  /\ returned' =
       {[request |-> op[t].request, named |-> op[t].named, record |-> record]}
  /\ op' = [op EXCEPT ![t] = Idle]
  /\ UNCHANGED <<now, descriptor, record, revoked, discoveryGrants, outbox,
                 held, answers>>

-----------------------------------------------------------------------------
(* The operator of this node.                                              *)

(* revoke_authorization; a second revocation changes nothing. *)
Revoke ==
  /\ ~revoked
  /\ revoked' = TRUE
  /\ UNCHANGED <<now, descriptor, record, discoveryGrants, outbox, op,
                 held, answers, returned>>

Bound(r, a) == r.registration = a.registration

(* The record is replaced by one update ... *)
StateChange(t, next, announcement) ==
  /\ op[t] = Idle
  /\ Bound(next, announcement)
  /\ record' = next
  /\ held' = held \cup {next}
  /\ op' = [op EXCEPT ![t] = [step |-> "replaced", announcement |-> announcement]]
  /\ UNCHANGED <<now, descriptor, revoked, discoveryGrants, outbox,
                 answers, returned>>

(* An event that is queued with another body is OUTBOX_CONFLICT. *)
Announced(a) ==
  IF \E b \in outbox : b.event = a.event THEN outbox ELSE outbox \cup {a}

(* ... and announced by another. *)
Announce(t) ==
  /\ op[t].step = "replaced"
  /\ outbox' = Announced(op[t].announcement)
  /\ op' = [op EXCEPT ![t] = Idle]
  /\ UNCHANGED <<now, descriptor, record, revoked, discoveryGrants,
                 held, answers, returned>>

-----------------------------------------------------------------------------
(* The world around the handlers.                                          *)

(* The peer's operator publishes a new descriptor. *)
Publish ==
  /\ \E d \in Descriptor :
       /\ d.sequence > descriptor.sequence
       /\ descriptor' = d
  /\ UNCHANGED <<now, record, revoked, discoveryGrants, outbox, op, held,
                 answers, returned>>

Tick ==
  /\ now < MaxTime
  /\ now' = now + 1
  /\ UNCHANGED <<descriptor, record, revoked, discoveryGrants, outbox, op,
                 held, answers, returned>>

(* The threads are gone, the store is not. *)
Crash ==
  /\ \E t \in Handler : op[t] # Idle
  /\ op' = [t \in Handler |-> Idle]
  /\ UNCHANGED <<now, descriptor, record, revoked, discoveryGrants, outbox,
                 held, answers, returned>>

DiscoverStep(t) ==
  \/ \E q \in Query : DiscoverFetch(t, q)
  \/ DiscoverVerify(t)
  \/ DiscoverMatch(t)
  \/ DiscoverGrant(t)

DereferenceStep(t) ==
  \/ \E request \in Request, recordId \in RecordId :
       DereferenceCheck(t, request, recordId)
  \/ DereferenceRead(t)

StateChangeStep(t) ==
  \/ \E next \in Record, a \in Announcement : StateChange(t, next, a)
  \/ Announce(t)

Next ==
  \/ \E t \in Handler : DiscoverStep(t) \/ DereferenceStep(t) \/ StateChangeStep(t)
  \/ Revoke
  \/ Publish
  \/ Tick
  \/ Crash

Spec == Init /\ [][Next]_vars

-----------------------------------------------------------------------------
(* Properties.                                                             *)

(* A record is handed out only to a requester, under an authorization and  *)
(* for a purpose that discovery answered with the record he names as a     *)
(* candidate, although check and read are two reads of a store that other  *)
(* threads change and grants are overwritten by identifier (377-392).  The *)
(* record handed out is another than the named one only if the node held   *)
(* that one too, and replaced it. *)
DereferenceIsGranted ==
  \A d \in returned :
    /\ \E a \in answers :
         /\ a.query.id = d.request.query
         /\ a.query.requester = d.request.requester
         /\ a.query.authorization = d.request.authorization
         /\ a.query.purpose = d.request.purpose
         /\ a.record = d.named
    /\ d.record \in held
    /\ d.named # d.record.recordId =>
         \E r \in held \ {d.record} : r.recordId = d.named /\ r.active

(* Revocation and expiry of the standing authorization end discovery: a    *)
(* request that came after them is never answered with a candidate; only   *)
(* one that had already read its snapshot may still be (364-366, 466). *)
AuthorizationIsFelt == \A a \in answers : ~a.late

(* A candidate is a record this node held in active state, whose purpose,  *)
(* profile and kind were asked for and which carries every tag the query   *)
(* demands, whatever replaced it before the answer (364-370). *)
CandidateWasOffered ==
  \A a \in answers : \E r \in held :
    /\ r.recordId = a.record
    /\ r.active
    /\ r.purpose = a.query.purpose
    /\ r.profile \in a.query.profiles
    /\ \E kind \in a.query.kinds : kind \in r.kinds
    /\ \A tag \in a.query.tags : tag \in r.tags

(* What is announced to the peer is about a registration this node held:   *)
(* the announcement never runs ahead of the record (530-533). *)
AnnouncementFollowsRecord ==
  \A a \in outbox : \E r \in held : r.registration = a.registration

(* An event once queued keeps its announcement, under any number of        *)
(* concurrent changes that use its identifier again (268-280, 532). *)
AnnouncementsEndure == [][outbox \subseteq outbox']_vars

(* The two verifiers of the repository decide alike on every key of every  *)
(* descriptor the operator publishes, at every moment: the node accepts    *)
(* exactly the transport keys the conformance adapter authorizes, where    *)
(* the descriptor is consistent and its origin secure. *)
VerifiersAgree ==
  \A keyId \in {q.key : q \in Query} :
    IsConsistent(descriptor) /\ descriptor.secure =>
      ( NodeAccepts(descriptor, Anchor, keyId, Operation, now)
        <=> AdapterAccepts(descriptor, Anchor, keyId, "transport", Operation, now) )

=============================================================================
