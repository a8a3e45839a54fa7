------------------------ MODULE StandingCoordinator ------------------------
(***************************************************************************)
(* The standing-mode state machine of implementations/python/exp_adapter.py*)
(* (class Adapter): receive_proposal, record_decision and                  *)
(* receive_invalidation over one process-wide store.  Commands are served  *)
(* one at a time from stdin (main), so each handler is one action.  The    *)
(* caller supplies `now' with every command, and nothing makes it          *)
(* monotone: it is an input here too.                                      *)
(*                                                                         *)
(* Each handler's checks are one ...Answer operator, in the order of the   *)
(* code's early raises; `answer' keeps the last result or error code.      *)
(* JSON-schema rejections and DUPLICATE_SCOPE come before any state is     *)
(* touched and are not modelled: inputs are schema-valid, scope lists are  *)
(* sets.  An optional field that is missing is None.                       *)
(***************************************************************************)
EXTENDS Integers

CONSTANTS
  ProposalId, NotificationId, InvalidationId, DecisionId,
  Entity, Purpose, Scope,
  MaxTime,            \* bound: times are 0 .. MaxTime
  None,               \* no entry under a key, or a field that is missing
  ProposalInput,      \* the records a caller may send
  NotificationInput,
  DecisionInput,
  InvalidationInput

Time == 0 .. MaxTime

Side == {"initiator", "counterparty"}

Proposal ==
  [id : ProposalId, initiator : Entity, counterparty : Entity,
   purpose : Purpose, requested : {None} \cup SUBSET Scope, expiresAt : Time]

Notification ==
  [id : NotificationId, proposalId : ProposalId, recipient : Entity,
   purpose : Purpose, expiresAt : Time,
   state : {"active", "read", "dismissed", "invalidated"},
   invalidatedAt : Time \cup {None}]

Decision ==
  [id : DecisionId, proposalId : ProposalId, actor : Entity, side : Side,
   state : {"approved", "rejected", "withdrawn"}, approved : SUBSET Scope,
   decidedAt : Time]

Invalidation ==
  [id : InvalidationId, notificationId : NotificationId,
   proposalId : ProposalId, reason : {"source_state_changed", "consent_revoked"},
   invalidatedAt : Time]

Release ==
  [proposalId : ProposalId, initiator : Entity, counterparty : Entity,
   releasedScopes : SUBSET Scope, decisionIds : SUBSET DecisionId,
   releasedAt : Time]

ASSUME NoneAssumption ==
  /\ None \notin Proposal
  /\ None \notin Notification
  /\ None \notin Release
  /\ None \notin Invalidation
  /\ \A scopes \in SUBSET Scope : None # scopes

(* The adapter validates against the JSON schemas, which do not carry the
   refinement of src/standing.ts that ties invalidatedAt to the state: a
   notification may arrive in any state, with or without invalidatedAt. *)
ASSUME InputAssumption ==
  /\ ProposalInput \subseteq Proposal
  /\ NotificationInput \subseteq Notification
  /\ DecisionInput \subseteq Decision
  /\ InvalidationInput \subseteq Invalidation

VARIABLES
  proposals,          \* proposal id -> proposal
  notifications,      \* proposal id -> its notification
  decisions,          \* proposal id -> the decisions recorded
  releases,           \* proposal id -> its disclosure release
  invalidations,      \* invalidation id -> invalidation
  answer              \* result or error code of the last command

vars == <<proposals, notifications, decisions, releases, invalidations, answer>>

AcceptedAnswer == {"accepted", "duplicate", "released"}

RejectedAnswer ==
  {"PROPOSAL_EXPIRED", "NOTIFICATION_EXPIRED", "PROPOSAL_BINDING_MISMATCH",
   "INVALID_BINDING", "PROPOSAL_CONFLICT", "NOTIFICATION_CONFLICT",
   "PROPOSAL_NOT_FOUND", "DECISION_TIMESTAMP_INVALID", "PROPOSAL_INVALIDATED",
   "DECISION_ACTOR_MISMATCH", "DISCLOSURE_SCOPE_EXCEEDS_REQUEST",
   "DUPLICATE_ACTOR_DECISION", "INVALIDATION_TIMESTAMP_INVALID",
   "RELEASE_ALREADY_EXISTS", "INVALIDATION_BINDING_MISMATCH",
   "INVALIDATION_CONFLICT", "INTERNAL_ERROR"}

TypeOK ==
  /\ proposals \in [ProposalId -> Proposal \cup {None}]
  /\ notifications \in [ProposalId -> Notification \cup {None}]
  /\ decisions \in [ProposalId -> SUBSET Decision]
  /\ releases \in [ProposalId -> Release \cup {None}]
  /\ invalidations \in [InvalidationId -> Invalidation \cup {None}]
  /\ answer \in AcceptedAnswer \cup RejectedAnswer \cup {"none"}

Init ==
  /\ proposals = [p \in ProposalId |-> None]
  /\ notifications = [p \in ProposalId |-> None]
  /\ decisions = [p \in ProposalId |-> {}]
  /\ releases = [p \in ProposalId |-> None]
  /\ invalidations = [i \in InvalidationId |-> None]
  /\ answer = "none"

-----------------------------------------------------------------------------
(* receive_proposal *)

Expired(record, now) == record.expiresAt <= now

(* Mutant: a later record silently replaces the one already bound. *)
ConflictsNever(existing, received) == FALSE

(* An identifier already bound to something else. *)
Conflicts(existing, received) == existing # None /\ existing # received

Bound(p, n) ==
  /\ n.proposalId = p.id
  /\ n.purpose = p.purpose
  /\ n.recipient \in {p.initiator, p.counterparty}

ReceiveProposalAnswer(p, n, now) ==
  IF Expired(p, now) THEN "PROPOSAL_EXPIRED"
  ELSE IF Expired(n, now) THEN "NOTIFICATION_EXPIRED"
  ELSE IF ~Bound(p, n) THEN "PROPOSAL_BINDING_MISMATCH"
  ELSE IF p.initiator = p.counterparty THEN "INVALID_BINDING"
  ELSE IF Conflicts(proposals[p.id], p) THEN "PROPOSAL_CONFLICT"
  ELSE IF Conflicts(notifications[p.id], n) THEN "NOTIFICATION_CONFLICT"
  ELSE IF proposals[p.id] = p THEN "duplicate" ELSE "accepted"

ReceiveProposal(p, n, now) ==
  /\ answer' = ReceiveProposalAnswer(p, n, now)
  /\ \/ /\ answer' \in AcceptedAnswer
        /\ proposals' = [proposals EXCEPT ![p.id] = p]
        /\ notifications' = [notifications EXCEPT ![p.id] = n]
     \/ /\ answer' \notin AcceptedAnswer
        /\ UNCHANGED <<proposals, notifications>>
  /\ UNCHANGED <<decisions, releases, invalidations>>

-----------------------------------------------------------------------------
(* record_decision *)

Invalidated(pid) ==
  \E i \in InvalidationId :
    invalidations[i] # None /\ invalidations[i].proposalId = pid

ActorOf(p, side) == IF side = "initiator" THEN p.initiator ELSE p.counterparty

HasDecided(pid, actor) == \E d \in decisions[pid] : d.actor = actor

Approvals(ds) == {d \in ds : d.state = "approved"}

(* Exactly two approvals, `len(approvals) == 2'. *)
BothApproved(approvals) ==
  \E d, e \in approvals : d # e /\ approvals = {d, e}

(* Mutant: one approval of a scope is enough. *)
CommonScopesUnion(p, approvals) ==
  {s \in p.requested : \E d \in approvals : s \in d.approved}

CommonScopes(p, approvals) ==
  {s \in p.requested : \A d \in approvals : s \in d.approved}

ReleaseOf(p, approvals, now) ==
  [proposalId |-> p.id, initiator |-> p.initiator,
   counterparty |-> p.counterparty,
   releasedScopes |-> CommonScopes(p, approvals),
   decisionIds |-> {d.id : d \in approvals}, releasedAt |-> now]

(* The subset test indexes a list the schema lets a proposal omit. *)
RecordDecisionAnswer(d, now) ==
  LET p == proposals[d.proposalId]
      approvals == Approvals(decisions[d.proposalId] \cup {d})
  IN  IF p = None THEN "PROPOSAL_NOT_FOUND"
      ELSE IF Expired(p, now) THEN "PROPOSAL_EXPIRED"
      ELSE IF d.decidedAt > now THEN "DECISION_TIMESTAMP_INVALID"
      ELSE IF Invalidated(p.id) THEN "PROPOSAL_INVALIDATED"
      ELSE IF d.actor # ActorOf(p, d.side) THEN "DECISION_ACTOR_MISMATCH"
      ELSE IF p.requested = None THEN "INTERNAL_ERROR"
      ELSE IF ~(d.approved \subseteq p.requested)
           THEN "DISCLOSURE_SCOPE_EXCEEDS_REQUEST"
      ELSE IF HasDecided(p.id, d.actor) THEN "DUPLICATE_ACTOR_DECISION"
      ELSE IF BothApproved(approvals) /\ CommonScopes(p, approvals) # {}
           THEN "released" ELSE "accepted"

RecordDecision(d, now) ==
  LET p == proposals[d.proposalId] IN
  /\ answer' = RecordDecisionAnswer(d, now)
  /\ \/ /\ answer' \in AcceptedAnswer
        /\ decisions' = [decisions EXCEPT ![p.id] = @ \cup {d}]
     \/ /\ answer' \notin AcceptedAnswer
        /\ UNCHANGED decisions
  /\ \/ /\ answer' = "released"
        /\ releases' = [releases EXCEPT ![p.id] =
                          ReleaseOf(p, Approvals(decisions'[p.id]), now)]
     \/ /\ answer' # "released"
        /\ UNCHANGED releases
  /\ UNCHANGED <<proposals, notifications, invalidations>>

-----------------------------------------------------------------------------
(* receive_invalidation *)

(* Mutant: invalidation does not look for a release. *)
ReleasedNever(pid) == FALSE

Released(pid) == releases[pid] # None

ReceiveInvalidationAnswer(i, now) ==
  LET p == proposals[i.proposalId] IN
  IF i.invalidatedAt > now THEN "INVALIDATION_TIMESTAMP_INVALID"
  ELSE IF p = None THEN "PROPOSAL_NOT_FOUND"
  ELSE IF Released(p.id) THEN "RELEASE_ALREADY_EXISTS"
  ELSE IF i.notificationId # notifications[p.id].id
       THEN "INVALIDATION_BINDING_MISMATCH"
  ELSE IF Conflicts(invalidations[i.id], i) THEN "INVALIDATION_CONFLICT"
  ELSE IF invalidations[i.id] = i THEN "duplicate" ELSE "accepted"

MarkInvalidated(n, at) ==
  [n EXCEPT !.state = "invalidated", !.invalidatedAt = at]

ReceiveInvalidation(i, now) ==
  /\ answer' = ReceiveInvalidationAnswer(i, now)
  /\ \/ /\ answer' = "accepted"
        /\ invalidations' = [invalidations EXCEPT ![i.id] = i]
        /\ notifications' =
             [notifications EXCEPT ![i.proposalId] =
                MarkInvalidated(@, i.invalidatedAt)]
     \/ /\ answer' # "accepted"
        /\ UNCHANGED <<invalidations, notifications>>
  /\ UNCHANGED <<proposals, decisions, releases>>

-----------------------------------------------------------------------------
(* main: one command after another *)

Next ==
  \E now \in Time :
    \/ \E p \in ProposalInput, n \in NotificationInput : ReceiveProposal(p, n, now)
    \/ \E d \in DecisionInput : RecordDecision(d, now)
    \/ \E i \in InvalidationInput : ReceiveInvalidation(i, now)

Spec == Init /\ [][Next]_vars

-----------------------------------------------------------------------------
(* Properties *)

(* The scopes that were requested and that each of the two parties, acting *)
(* on its own side, approved. *)
AgreedScopes(p) ==
  {s \in p.requested : \A side \in Side :
     \E d \in decisions[p.id] :
       /\ d.side = side
       /\ d.actor = ActorOf(p, side)
       /\ d.state = "approved"
       /\ s \in d.approved}

(* The five stores agree with one another: a proposal has a notification,  *)
(* a decision was made by the party it names on a stored proposal of two   *)
(* different parties and approves only scopes the stored proposal requests,*)
(* an accepted invalidation is bound to the notification that is stored    *)
(* now.  Each is checked when a record arrives; that no later command, a   *)
(* second version of the proposal above all, can undo it is the point. *)
StoresAgree ==
  /\ \A pid \in ProposalId :
       /\ proposals[pid] # None <=> notifications[pid] # None
       /\ proposals[pid] # None =>
            /\ proposals[pid].id = pid
            /\ proposals[pid].initiator # proposals[pid].counterparty
       /\ \A d \in decisions[pid] :
            /\ proposals[pid] # None
            /\ proposals[pid].requested # None
            /\ d.approved \subseteq proposals[pid].requested
            /\ d.actor = ActorOf(proposals[pid], d.side)
  /\ \A i \in InvalidationId :
       invalidations[i] # None =>
         LET pid == invalidations[i].proposalId IN
         /\ proposals[pid] # None
         /\ invalidations[i].notificationId = notifications[pid].id

(* A proposal has a release exactly when the two different parties agree   *)
(* on a scope; it releases exactly the agreed scopes and cites exactly the *)
(* approvals on record: record_decision computes it once, when the last    *)
(* decision arrives, over several commands.  *)
ReleaseIsTheAgreement ==
  \A pid \in ProposalId :
    LET p == proposals[pid]
        r == releases[pid] IN
    /\ p = None \/ p.requested = None => r = None
    /\ p # None /\ p.requested # None =>
         /\ p.initiator # p.counterparty
         /\ IF r = None THEN AgreedScopes(p) = {}
            ELSE /\ r.releasedScopes = AgreedScopes(p)
                 /\ AgreedScopes(p) # {}
                 /\ r.decisionIds = {d.id : d \in Approvals(decisions[pid])}

(* No proposal is both released and invalidated, in whatever order the     *)
(* decisions and the invalidation arrive. *)
ReleaseExcludesInvalidation ==
  \A pid \in ProposalId, i \in InvalidationId :
    releases[pid] # None /\ invalidations[i] # None =>
      invalidations[i].proposalId # pid

(* A principal decides a proposal once. *)
OneDecisionPerPrincipal ==
  \A pid \in ProposalId : \A d, e \in decisions[pid] :
    d.actor = e.actor => d = e

(* What was approved stays within what the stored proposal requests, even  *)
(* when other proposals with the same identifier are sent afterwards. *)
ApprovalsWithinRequest ==
  \A pid \in ProposalId : \A d \in decisions[pid] :
    /\ proposals[pid] # None
    /\ d.approved \subseteq proposals[pid].requested

(* The stored notification carries the mark of an invalidation exactly     *)
(* when one of its proposal, bound to it, has been accepted; until then it *)
(* is as it arrived (in whatever state), and no redelivery of the proposal *)
(* takes the mark away. *)
NotificationTracksInvalidation ==
  \A pid \in ProposalId :
    LET n == notifications[pid]
        accepted == {i \in InvalidationId :
                       /\ invalidations[i] # None
                       /\ invalidations[i].proposalId = pid
                       /\ invalidations[i].notificationId = n.id} IN
    n # None =>
      /\ accepted = {} => n \in NotificationInput
      /\ accepted # {} =>
           /\ n.state = "invalidated"
           /\ \E i \in accepted : n.invalidatedAt = invalidations[i].invalidatedAt

(* No decision takes effect, and nothing is released, at or after expiry.  *)
NothingAtOrAfterExpiry ==
  \A pid \in ProposalId :
    /\ \A d \in decisions[pid] : d.decidedAt < proposals[pid].expiresAt
    /\ releases[pid] # None =>
         releases[pid].releasedAt < proposals[pid].expiresAt

(* Once an invalidation of a proposal has been accepted no decision on it  *)
(* is recorded, nothing is released and its notification stays marked:     *)
(* what SPECIFICATION.md asks with PROPOSAL_INVALIDATED.  (A notification  *)
(* that merely arrives in the state "invalidated" stops nothing.) *)
InvalidationIsFinal ==
  [][\A pid \in ProposalId :
       Invalidated(pid) =>
         /\ decisions'[pid] = decisions[pid]
         /\ releases'[pid] = releases[pid]
         /\ notifications'[pid].state = "invalidated"]_vars

(* A release, once made, is never changed or withdrawn by a later command. *)
ReleaseIsPermanent ==
  [][\A pid \in ProposalId :
       releases[pid] # None => releases'[pid] = releases[pid]]_vars

-----------------------------------------------------------------------------
(* Refinement: the store implements GovernedDisclosure.  *)

StatusOf(pid) ==
  IF proposals[pid] = None THEN "unknown"
  ELSE IF \E i \in InvalidationId :
            invalidations[i] # None /\ invalidations[i].proposalId = pid
       THEN "invalidated" ELSE "open"

VotedOf(pid) == {d.side : d \in decisions[pid]}

GrantedOf(pid) ==
  [side \in Side |->
     UNION {d.approved : d \in {e \in decisions[pid] :
                                  e.side = side /\ e.state = "approved"}}]

DisclosedOf(pid) ==
  IF releases[pid] = None THEN {} ELSE releases[pid].releasedScopes

Disclosure == INSTANCE GovernedDisclosure WITH
  status <- [pid \in ProposalId |-> StatusOf(pid)],
  voted <- [pid \in ProposalId |-> VotedOf(pid)],
  granted <- [pid \in ProposalId |-> GrantedOf(pid)],
  disclosed <- [pid \in ProposalId |-> DisclosedOf(pid)]

(* Every command is a step of the governed disclosure or leaves it alone.  *)
ImplementsDisclosure == Disclosure!Spec

=============================================================================
