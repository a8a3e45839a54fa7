-------------------------- MODULE ConformanceCases --------------------------
(***************************************************************************)
(* The suite of conformance/run.mjs as data: its fixtures and its cases in *)
(* their order, which matters, because one candidate process keeps its     *)
(* stores from case to case.  Times are seconds after the midnight that    *)
(* starts 2026-08-08; the keys of the fixtures are their names, and a      *)
(* signature is who made it and over what.  The canonical JSON vectors and *)
(* the string over its limit are left out: that command keeps no state     *)
(* (module CanonicalJson).                                                 *)
(***************************************************************************)
EXTENDS Integers, Sequences

CONSTANT Nothing      \* a field, an entry, a profile or a line that is missing

Now == 2

Day == 86400

Operations ==
  {"state:announce", "catalog:discover", "record:dereference", "proposal:deliver",
   "decision:deliver", "release:deliver", "invalidation:deliver"}

AuthorityGrant ==
  [issuer |-> "operator", subject |-> "conformance-peer", operations |-> Operations,
   active |-> TRUE, revoked |-> FALSE, from |-> -Day, until |-> 2 * Day]

RootTransition ==
  [previous |-> "root-1", next |-> "root-2", from |-> 1, until |-> 2 * Day,
   signedBy |-> {"root-1", "root-2"}]

Descriptor(root, endpoint, grant, transition) ==
  [node |-> "conformance-peer", operator |-> "operator", origin |-> endpoint,
   expiresAt |-> 2 * Day, consistent |-> TRUE, keyId |-> root, by |-> root,
   transition |-> transition, grants |-> {grant},
   keys |-> {[id |-> "operational-1",
              purposes |-> {"transport", "catalog", "state_event"},
              active |-> TRUE, revoked |-> FALSE, from |-> -Day, until |-> 2 * Day]}]

Peer == "https://peer.example"

Valid == Descriptor("root-1", Peer, AuthorityGrant, {})

Rotated(transition) == Descriptor("root-2", Peer, AuthorityGrant, {transition})

Anchor ==
  [node |-> "conformance-peer", operator |-> "operator", root |-> "root-1",
   origin |-> Peer, operations |-> Operations]

(* The signature covers method, path and body, and these headers. *)
TransportHeaders(nonce, signedAt) ==
  [nonce |-> nonce, signedAt |-> signedAt, signed |-> <<"POST", "body">>]

WalletRequest ==
  [id |-> "9031", requester |-> "9032", origin |-> "https://app.example",
   purpose |-> "commerce.personalization",
   scopes |-> << <<"commerce", "apparel">>, <<"identity", "contact">> >>,
   operations |-> <<"evaluate">>, nonce |-> "wallet-conformance-nonce-001",
   issuedAt |-> 0, expiresAt |-> 600]

WalletInput(approvedScopes) ==
  [view |-> [entity |-> "9035", purpose |-> "commerce.personalization",
             attributes |-> {<<"commerce", "apparel", "style">>},
             createdAt |-> 0, expiresAt |-> 600],
   principal |-> "9035", scopes |-> approvedScopes, operations |-> <<"evaluate">>,
   expiresAt |-> 600]

Proposal(id) ==
  [id |-> id, initiator |-> "9010", counterparty |-> "9011",
   purpose |-> "Conformance standing connection",
   requested |-> <<"identity", "contact">>, expiresAt |-> 2 * Day]

Notification(id, proposalId) ==
  [id |-> id, proposalId |-> proposalId, recipient |-> "9011",
   purpose |-> "Conformance standing connection", summary |-> "A privacy-safe match",
   containsIdentity |-> FALSE, state |-> "active", invalidatedAt |-> Nothing,
   expiresAt |-> 2 * Day]

Decision(id, actor, side, scopes, proposalId) ==
  [id |-> id, proposalId |-> proposalId, actor |-> actor, side |-> side,
   state |-> "approved", approved |-> scopes, decidedAt |-> Now]

Invalidation(id, proposalId, notificationId) ==
  [id |-> id, notificationId |-> notificationId, proposalId |-> proposalId,
   reason |-> "source_state_changed", invalidatedAt |-> Now]

-----------------------------------------------------------------------------

(* A response: ok or its error code, with the scopes it shows. *)
Answer(code, scopes) == [code |-> code, scopes |-> scopes]

Ok == Answer("ok", {})

Case(name, command, input, expected) ==
  [name |-> name, command |-> command, input |-> input, expected |-> expected]

Refusal(code) == {Answer(code, {})}

DescriptorCase(name, descriptor, anchor, expected) ==
  Case(name, "verify_descriptor_key",
       [descriptor |-> descriptor, anchor |-> anchor, keyId |-> "operational-1",
        purpose |-> "transport", operation |-> "state:announce", now |-> Now],
       expected)

DescriptorCases == <<
  DescriptorCase("descriptor-valid", Valid, Anchor, {Ok}),
  DescriptorCase("descriptor-tampered",
    [Valid EXCEPT !.by = "nobody"], Anchor, Refusal("INVALID_DESCRIPTOR_SIGNATURE")),
  DescriptorCase("descriptor-signature-time-tampered",
    [Valid EXCEPT !.consistent = FALSE], Anchor, Refusal("INVALID_DESCRIPTOR_TIMESTAMP")),
  DescriptorCase("descriptor-signature-key-tampered",
    [Valid EXCEPT !.keyId = "unknown-root"], Anchor, Refusal("INVALID_ROOT_TRANSITION")),
  DescriptorCase("descriptor-origin-scheme-mismatch",
    [Valid EXCEPT !.origin = "http://peer.example"], Anchor,
    Refusal("DESCRIPTOR_ORIGIN_MISMATCH")),
  DescriptorCase("operation-locally-denied",
    Valid, [Anchor EXCEPT !.operations = {"catalog:discover"}],
    Refusal("OPERATION_NOT_ALLOWED")),
  DescriptorCase("grant-revoked",
    [Valid EXCEPT !.grants = {[AuthorityGrant EXCEPT !.active = FALSE, !.revoked = TRUE]}],
    Anchor, Refusal("NO_ACTIVE_GRANT")),
  DescriptorCase("grant-expired",
    [Valid EXCEPT !.grants = {[AuthorityGrant EXCEPT !.until = 1]}],
    Anchor, Refusal("NO_ACTIVE_GRANT")),
  DescriptorCase("root-transition-valid", Rotated(RootTransition), Anchor, {Ok}),
  DescriptorCase("root-transition-tampered",
    Rotated([RootTransition EXCEPT !.signedBy = {"root-1"}]), Anchor,
    Refusal("INVALID_ROOT_TRANSITION")),
  DescriptorCase("root-transition-previous-signature-tampered",
    Rotated([RootTransition EXCEPT !.signedBy = {"root-2"}]), Anchor,
    Refusal("INVALID_ROOT_TRANSITION")) >>

TransportCase(name, method, body, headers, expected) ==
  Case(name, "verify_transport",
       [method |-> method, body |-> body, headers |-> headers, now |-> Now], expected)

PolicyCase(name, secure, loopback, allowInsecureLoopback, expected) ==
  Case(name, "transport_policy",
       [secure |-> secure, loopback |-> loopback,
        allowInsecureLoopback |-> allowInsecureLoopback], expected)

TransportCases == <<
  TransportCase("transport-valid", "POST", "body", TransportHeaders("nonce-1", Now), {Ok}),
  TransportCase("transport-replay", "POST", "body", TransportHeaders("nonce-1", Now),
                Refusal("NONCE_REPLAY")),
  TransportCase("transport-body-tampered", "POST", "other", TransportHeaders("nonce-2", Now),
                Refusal("INVALID_TRANSPORT_SIGNATURE")),
  TransportCase("transport-method-tampered", "PUT", "body", TransportHeaders("nonce-4", Now),
                Refusal("INVALID_TRANSPORT_SIGNATURE")),
  TransportCase("transport-stale", "POST", "body", TransportHeaders("nonce-3", -Day),
                Refusal("STALE_TRANSPORT_SIGNATURE")),
  PolicyCase("https-external", TRUE, FALSE, FALSE, {Ok}),
  PolicyCase("http-external-denied", FALSE, FALSE, TRUE, Refusal("INSECURE_TRANSPORT")),
  PolicyCase("http-loopback-explicit", FALSE, TRUE, TRUE, {Ok}) >>

WalletCase(name, approvedScopes, expected) ==
  Case(name, "build_wallet_presentation",
       [request |-> WalletRequest, config |-> WalletInput(approvedScopes)], expected)

Apparel == <<"commerce", "apparel">>

WalletCases == <<
  WalletCase("wallet-presentation-valid", <<Apparel>>, {Answer("ok", {Apparel})}),
  WalletCase("wallet-scope-escalation-rejected", << <<"health", "records">> >>,
             Refusal("APPROVAL_EXCEEDS_REQUEST")),
  WalletCase("wallet-duplicate-scope-rejected", <<Apparel, Apparel>>,
             Refusal("DUPLICATE_SCOPE")) >>

ProposalCase(name, proposal, notification, expected) ==
  Case(name, "receive_proposal",
       [proposal |-> proposal, notification |-> notification, now |-> Now], expected)

DecisionCase(name, decision, expected) ==
  Case(name, "record_decision", [decision |-> decision, now |-> Now], expected)

(* Without `now' the adapter takes the invalidation's own time. *)
InvalidationCase(name, invalidation, expected) ==
  Case(name, "receive_invalidation", [invalidation |-> invalidation, now |-> Now], expected)

Accepted == Answer("accepted", {})

Duplicate == Answer("duplicate", {})

(* The first proposal, up to the release; the identity leak comes without  *)
(* `now', which is then the proposal's createdAt. *)
FirstProposalCases == <<
  ProposalCase("standing-proposal-accepted",
    Proposal("9012"), Notification("9014", "9012"), {Accepted}),
  ProposalCase("standing-proposal-duplicate",
    Proposal("9012"), Notification("9014", "9012"), {Duplicate}),
  ProposalCase("standing-proposal-notification-conflict",
    Proposal("9012"), [Notification("9014", "9012") EXCEPT !.summary = "Changed notification"],
    Refusal("NOTIFICATION_CONFLICT")),
  [ProposalCase("standing-notification-identity-leak",
     Proposal("9012"), [Notification("9014", "9012") EXCEPT !.containsIdentity = TRUE],
     Refusal("INVALID_NOTIFICATION_SCHEMA")) EXCEPT !.input.now = 0],
  ProposalCase("standing-expired-proposal",
    [Proposal("9026") EXCEPT !.expiresAt = Now],
    [Notification("9027", "9026") EXCEPT !.expiresAt = Now], Refusal("PROPOSAL_EXPIRED")),
  DecisionCase("standing-one-approval-gates-release",
    Decision("9016", "9010", "initiator", {"identity", "contact"}, "9012"), {Accepted}),
  DecisionCase("standing-duplicate-actor-rejected",
    Decision("9017", "9010", "initiator", {"identity"}, "9012"),
    Refusal("DUPLICATE_ACTOR_DECISION")),
  DecisionCase("standing-nonparticipant-rejected",
    Decision("9018", "9010", "counterparty", {"identity"}, "9012"),
    Refusal("DECISION_ACTOR_MISMATCH")),
  DecisionCase("standing-dual-approval-intersection",
    Decision("9019", "9011", "counterparty", {"identity"}, "9012"),
    {Answer("released", {"identity"})}),
  InvalidationCase("standing-released-proposal-invalidation-rejected",
    Invalidation("9020", "9012", "9014"), Refusal("RELEASE_ALREADY_EXISTS")) >>

(* The second one, up to its invalidation. *)
SecondProposalCases == <<
  ProposalCase("standing-second-proposal-accepted",
    Proposal("9021"), Notification("9022", "9021"), {Accepted, Duplicate}),
  ProposalCase("standing-identical-party-binding-rejected",
    [Proposal("9031") EXCEPT !.counterparty = "9010"],
    [Notification("9032", "9031") EXCEPT !.recipient = "9010"], Refusal("INVALID_BINDING")),
  ProposalCase("standing-duplicate-requested-scope-rejected",
    [Proposal("9033") EXCEPT !.requested = <<"identity", "identity">>],
    Notification("9034", "9033"), Refusal("DUPLICATE_SCOPE")),
  DecisionCase("standing-future-decision-rejected",
    [Decision("9028", "9010", "initiator", {"identity"}, "9021") EXCEPT !.decidedAt = 3],
    Refusal("DECISION_TIMESTAMP_INVALID")),
  DecisionCase("standing-disclosure-scope-escalation-rejected",
    Decision("9029", "9010", "initiator", {"identity", "private"}, "9021"),
    Refusal("DISCLOSURE_SCOPE_EXCEEDS_REQUEST")),
  InvalidationCase("standing-invalidation-binding-rejected",
    Invalidation("9023", "9021", "9014"), Refusal("INVALIDATION_BINDING_MISMATCH")),
  InvalidationCase("standing-future-invalidation-rejected",
    [Invalidation("9030", "9021", "9022") EXCEPT !.invalidatedAt = 3],
    Refusal("INVALIDATION_TIMESTAMP_INVALID")),
  InvalidationCase("standing-active-proposal-invalidated",
    Invalidation("9024", "9021", "9022"), {Accepted}),
  InvalidationCase("standing-invalidation-duplicate",
    Invalidation("9024", "9021", "9022"), {Duplicate}),
  DecisionCase("standing-invalidated-proposal-decision-rejected",
    Decision("9025", "9010", "initiator", {"identity"}, "9021"),
    Refusal("PROPOSAL_INVALIDATED")) >>

CoreCase(name, schema, parties, scopes, operations, expected) ==
  Case(name, "validate_core",
       [schema |-> schema, parties |-> parties, scopes |-> scopes, operations |-> operations],
       expected)

(* test-vectors/core-conformance.json *)
CoreCases == <<
  CoreCase("core-consent-self-grant-rejected", "consent", <<"9002", "9002">>,
           <<"seating">>, <<>>, Refusal("INVALID_BINDING")),
  CoreCase("core-wallet-duplicate-scope-rejected", "wallet-connect-request", <<>>,
           <<"seating", "seating">>, <<"personalize">>, Refusal("DUPLICATE_SCOPE")),
  CoreCase("core-authority-duplicate-operation-rejected", "node-authority-grant", <<>>,
           <<>>, <<"catalog:discover", "catalog:discover">>, Refusal("DUPLICATE_OPERATION")),
  CoreCase("core-proposal-identical-parties-rejected", "connection-proposal",
           <<"9009", "9009">>, <<"seating">>, <<>>, Refusal("INVALID_BINDING")) >>

Cases ==
  DescriptorCases \o TransportCases \o WalletCases \o FirstProposalCases
    \o SecondProposalCases \o CoreCases
=============================================================================
