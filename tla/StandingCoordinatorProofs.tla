--------------------- MODULE StandingCoordinatorProofs ---------------------
(***************************************************************************)
(* Theorems about StandingCoordinator for every set of proposals, parties, *)
(* scopes and times.  Each handler is first reduced to its effect on the   *)
(* stores (the ...Effect lemmas); the invariants are then preserved        *)
(* conjunct by conjunct from those effects.                                *)
(***************************************************************************)
EXTENDS StandingCoordinator, TLAPS

Stores == <<proposals, notifications, decisions, releases, invalidations>>

-----------------------------------------------------------------------------
(* What each handler does to the stores *)

(* receive_proposal stores an unexpired pair under a free or equal key, or *)
(* changes no store. *)
LEMMA ReceiveProposalEffect ==
  ASSUME NEW p \in ProposalInput, NEW n \in NotificationInput, NEW now \in Time,
         ReceiveProposal(p, n, now)
  PROVE  \/ UNCHANGED Stores
         \/ /\ p.initiator # p.counterparty
            /\ proposals[p.id] \in {None, p}
            /\ notifications[p.id] \in {None, n}
            /\ proposals' = [proposals EXCEPT ![p.id] = p]
            /\ notifications' = [notifications EXCEPT ![p.id] = n]
            /\ UNCHANGED <<decisions, releases, invalidations>>
<1>1. CASE answer' \notin AcceptedAnswer
  BY <1>1 DEF ReceiveProposal, Stores
<1>2. CASE answer' \in AcceptedAnswer
  <2>1. /\ ~(p.initiator = p.counterparty)
        /\ ~Conflicts(proposals[p.id], p)
        /\ ~Conflicts(notifications[p.id], n)
    BY <1>2 DEF ReceiveProposal, ReceiveProposalAnswer, AcceptedAnswer
  <2>2. QED
    BY <1>2, <2>1 DEF ReceiveProposal, Conflicts
<1>3. QED
  BY <1>1, <1>2

(* record_decision records a first decision of the right party on an open  *)
(* proposal, and the release when it completes an agreement, or changes no *)
(* store. *)
LEMMA RecordDecisionEffect ==
  ASSUME TypeOK, StoresAgree,
         NEW d \in DecisionInput, NEW now \in Time, RecordDecision(d, now)
  PROVE  \/ UNCHANGED Stores
         \/ LET pid == d.proposalId
                p == proposals[pid]
                approvals == Approvals(decisions[pid] \cup {d})
                agreed == BothApproved(approvals) /\ CommonScopes(p, approvals) # {}
            IN /\ p # None /\ p.id = pid /\ p.requested # None
               /\ ~(p.expiresAt <= now)
               /\ ~(d.decidedAt > now)
               /\ ~Invalidated(pid)
               /\ d.actor = ActorOf(p, d.side)
               /\ d.approved \subseteq p.requested
               /\ ~HasDecided(pid, d.actor)
               /\ decisions' = [decisions EXCEPT ![pid] = @ \cup {d}]
               /\ agreed => releases' = [releases EXCEPT ![pid] = ReleaseOf(p, approvals, now)]
               /\ ~agreed => UNCHANGED releases
               /\ UNCHANGED <<proposals, notifications, invalidations>>
<1> DEFINE pid == d.proposalId
           p == proposals[pid]
           approvals == Approvals(decisions[pid] \cup {d})
           agreed == BothApproved(approvals) /\ CommonScopes(p, approvals) # {}
<1> pid \in ProposalId
  BY InputAssumption DEF Decision
<1>1. CASE answer' \notin AcceptedAnswer
  BY <1>1 DEF RecordDecision, Stores, AcceptedAnswer
<1>2. CASE answer' \in AcceptedAnswer
  <2>1. answer' = RecordDecisionAnswer(d, now)
    BY DEF RecordDecision
  <2>2. /\ p # None
        /\ ~Expired(p, now)
        /\ ~(d.decidedAt > now)
        /\ ~Invalidated(p.id)
        /\ d.actor = ActorOf(p, d.side)
        /\ p.requested # None
        /\ d.approved \subseteq p.requested
        /\ ~HasDecided(p.id, d.actor)
        /\ answer' = IF agreed THEN "released" ELSE "accepted"
    BY <1>2, <2>1 DEF RecordDecisionAnswer, AcceptedAnswer
  <2>3. p.id = pid
    BY <2>2 DEF StoresAgree
  <2>4. decisions' = [decisions EXCEPT ![pid] = @ \cup {d}]
    BY <1>2, <2>3 DEF RecordDecision
  <2>5. Approvals(decisions'[pid]) = approvals
    BY <2>4 DEF TypeOK
  <2>6. agreed => releases' = [releases EXCEPT ![pid] = ReleaseOf(p, approvals, now)]
    BY <2>2, <2>3, <2>5 DEF RecordDecision
  <2>7. ~agreed => UNCHANGED releases
    BY <2>2 DEF RecordDecision
  <2>8. QED
    BY <2>2, <2>3, <2>4, <2>6, <2>7 DEF RecordDecision, Expired
<1>3. QED
  BY <1>1, <1>2

(* receive_invalidation stores a new invalidation of a proposal without    *)
(* release and marks its notification, or changes no store. *)
LEMMA ReceiveInvalidationEffect ==
  ASSUME StoresAgree,
         NEW i \in InvalidationInput, NEW now \in Time, ReceiveInvalidation(i, now)
  PROVE  \/ UNCHANGED Stores
         \/ LET pid == i.proposalId
            IN /\ proposals[pid] # None
               /\ releases[pid] = None
               /\ i.notificationId = notifications[pid].id
               /\ invalidations[i.id] = None
               /\ invalidations' = [invalidations EXCEPT ![i.id] = i]
               /\ notifications' =
                    [notifications EXCEPT ![pid] =
                       MarkInvalidated(@, i.invalidatedAt)]
               /\ UNCHANGED <<proposals, decisions, releases>>
<1> DEFINE pid == i.proposalId
<1> pid \in ProposalId
  BY InputAssumption DEF Invalidation
<1>1. CASE answer' # "accepted"
  BY <1>1 DEF ReceiveInvalidation, Stores
<1>2. CASE answer' = "accepted"
  <2>1. /\ proposals[pid] # None
        /\ ~Released(proposals[pid].id)
        /\ i.notificationId = notifications[proposals[pid].id].id
        /\ ~Conflicts(invalidations[i.id], i)
        /\ invalidations[i.id] # i
    BY <1>2 DEF ReceiveInvalidation, ReceiveInvalidationAnswer
  <2>2. proposals[pid].id = pid
    BY <2>1 DEF StoresAgree
  <2>3. QED
    BY <1>2, <2>1, <2>2 DEF ReceiveInvalidation, Released, Conflicts
<1>3. QED
  BY <1>1, <1>2

-----------------------------------------------------------------------------
(* Type correctness *)

LEMMA MarkedIsNotification ==
  ASSUME NEW n \in Notification, NEW at \in Time
  PROVE  /\ MarkInvalidated(n, at) \in Notification
         /\ MarkInvalidated(n, at).state = "invalidated"
         /\ MarkInvalidated(n, at).invalidatedAt = at
         /\ MarkInvalidated(n, at).id = n.id
BY DEF MarkInvalidated, Notification

LEMMA ReleaseOfIsRelease ==
  ASSUME NEW p \in Proposal, p.requested # None,
         NEW ds \in SUBSET Decision, NEW now \in Time
  PROVE  ReleaseOf(p, ds, now) \in Release
<1>1. {d.id : d \in ds} \subseteq DecisionId
  BY DEF Decision
<1>2. CommonScopes(p, ds) \subseteq Scope
  BY DEF CommonScopes, Proposal
<1>3. QED
  BY <1>1, <1>2 DEF ReleaseOf, Release, Proposal

LEMMA TypeStep ==
  ASSUME TypeOK, StoresAgree, [Next]_vars
  PROVE  TypeOK'
<1> SUFFICES ASSUME Next PROVE TypeOK'
  BY DEF vars, TypeOK
<1> USE NoneAssumption, InputAssumption
<1>1. ASSUME NEW p \in ProposalInput, NEW n \in NotificationInput, NEW now \in Time,
             ReceiveProposal(p, n, now)
      PROVE  TypeOK'
  <2>1. answer' \in AcceptedAnswer \cup RejectedAnswer
    BY <1>1 DEF ReceiveProposal, ReceiveProposalAnswer, AcceptedAnswer, RejectedAnswer
  <2>2. p \in Proposal /\ n \in Notification /\ p.id \in ProposalId
    BY DEF Proposal
  <2>3. QED
    BY <1>1, <2>1, <2>2, ReceiveProposalEffect DEF TypeOK, Stores
<1>2. ASSUME NEW d \in DecisionInput, NEW now \in Time, RecordDecision(d, now)
      PROVE  TypeOK'
  <2> DEFINE pid == d.proposalId
             approvals == Approvals(decisions[pid] \cup {d})
  <2>1. answer' \in AcceptedAnswer \cup RejectedAnswer
    BY <1>2 DEF RecordDecision, RecordDecisionAnswer, AcceptedAnswer, RejectedAnswer
  <2>2. d \in Decision /\ pid \in ProposalId
    BY DEF Decision
  <2>3. approvals \in SUBSET Decision
    BY <2>2 DEF TypeOK, Approvals
  <2>4. proposals[pid] # None /\ proposals[pid].requested # None =>
          ReleaseOf(proposals[pid], approvals, now) \in Release
    BY <2>2, <2>3, ReleaseOfIsRelease DEF TypeOK
  <2>5. CASE UNCHANGED Stores
    BY <2>1, <2>5 DEF TypeOK, Stores
  <2>6. CASE ~UNCHANGED Stores
    <3>1. /\ proposals[pid] # None /\ proposals[pid].requested # None
          /\ decisions' = [decisions EXCEPT ![pid] = @ \cup {d}]
          /\ \/ releases' = [releases EXCEPT ![pid] =
                                ReleaseOf(proposals[pid], approvals, now)]
             \/ UNCHANGED releases
          /\ UNCHANGED <<proposals, notifications, invalidations>>
      BY <1>2, <2>6, RecordDecisionEffect
    <3>2. decisions' \in [ProposalId -> SUBSET Decision]
      BY <2>2, <3>1 DEF TypeOK
    <3>3. releases' \in [ProposalId -> Release \cup {None}]
      BY <2>2, <2>4, <3>1 DEF TypeOK
    <3>4. QED
      BY <2>1, <3>1, <3>2, <3>3 DEF TypeOK
  <2>7. QED
    BY <2>5, <2>6
<1>3. ASSUME NEW i \in InvalidationInput, NEW now \in Time, ReceiveInvalidation(i, now)
      PROVE  TypeOK'
  <2>1. answer' \in AcceptedAnswer \cup RejectedAnswer
    BY <1>3 DEF ReceiveInvalidation, ReceiveInvalidationAnswer, AcceptedAnswer, RejectedAnswer
  <2>2. i \in Invalidation /\ i.id \in InvalidationId /\ i.proposalId \in ProposalId
        /\ i.invalidatedAt \in Time
    BY DEF Invalidation
  <2>3. notifications[i.proposalId] # None =>
          MarkInvalidated(notifications[i.proposalId], i.invalidatedAt) \in Notification
    BY <2>2, MarkedIsNotification DEF TypeOK
  <2>4. QED
    BY <1>3, <2>1, <2>2, <2>3, ReceiveInvalidationEffect DEF TypeOK, Stores, StoresAgree
<1>4. QED
  BY <1>1, <1>2, <1>3 DEF Next

LEMMA StoresAgreeStep ==
  ASSUME TypeOK, StoresAgree, [Next]_vars
  PROVE  StoresAgree'
<1> USE NoneAssumption, InputAssumption
<1>1. ASSUME UNCHANGED Stores
      PROVE  StoresAgree'
  BY <1>1 DEF Stores, StoresAgree, ActorOf
<1>2. ASSUME NEW p \in ProposalInput, NEW n \in NotificationInput, NEW now \in Time,
             ReceiveProposal(p, n, now)
      PROVE  StoresAgree'
  <2>1. p \in Proposal /\ n \in Notification /\ p.id \in ProposalId
    BY DEF Proposal
  <2>2. CASE UNCHANGED Stores
    BY <1>1, <2>2
  <2>3. CASE ~UNCHANGED Stores
    BY <1>2, <2>1, <2>3, ReceiveProposalEffect
       DEF TypeOK, StoresAgree, ActorOf, Invalidation
  <2>4. QED
    BY <2>2, <2>3
<1>3. ASSUME NEW d \in DecisionInput, NEW now \in Time, RecordDecision(d, now)
      PROVE  StoresAgree'
  <2>1. d \in Decision /\ d.proposalId \in ProposalId
    BY DEF Decision
  <2>2. CASE UNCHANGED Stores
    BY <1>1, <2>2
  <2>3. CASE ~UNCHANGED Stores
    <3> DEFINE pid == d.proposalId
    <3>1. /\ proposals[pid] # None /\ proposals[pid].requested # None
          /\ d.approved \subseteq proposals[pid].requested
          /\ d.actor = ActorOf(proposals[pid], d.side)
          /\ decisions' = [decisions EXCEPT ![pid] = @ \cup {d}]
          /\ UNCHANGED <<proposals, notifications, invalidations>>
      BY <1>3, <2>3, RecordDecisionEffect
    <3>2. \A q \in ProposalId : decisions'[q] = IF q = pid THEN decisions[q] \cup {d}
                                                 ELSE decisions[q]
      BY <2>1, <3>1 DEF TypeOK
    <3>3. QED
      BY <2>1, <3>1, <3>2 DEF StoresAgree, ActorOf
  <2>4. QED
    BY <2>2, <2>3
<1>4. ASSUME NEW i \in InvalidationInput, NEW now \in Time, ReceiveInvalidation(i, now)
      PROVE  StoresAgree'
  <2>1. i \in Invalidation /\ i.id \in InvalidationId /\ i.proposalId \in ProposalId
        /\ i.invalidatedAt \in Time
    BY DEF Invalidation
  <2>2. CASE UNCHANGED Stores
    BY <1>1, <2>2
  <2>3. CASE ~UNCHANGED Stores
    <3> DEFINE pid == i.proposalId
               marked == MarkInvalidated(notifications[pid], i.invalidatedAt)
    <3>1. /\ proposals[pid] # None
          /\ i.notificationId = notifications[pid].id
          /\ invalidations' = [invalidations EXCEPT ![i.id] = i]
          /\ notifications' = [notifications EXCEPT ![pid] = marked]
          /\ UNCHANGED <<proposals, decisions, releases>>
      BY <1>4, <2>3, ReceiveInvalidationEffect
    <3>2. marked # None /\ marked.id = notifications[pid].id
      BY <2>1, <3>1, MarkedIsNotification DEF TypeOK, StoresAgree
    <3>3. \A q \in ProposalId :
            /\ notifications'[q] # None <=> notifications[q] # None
            /\ notifications'[q].id = notifications[q].id
      BY <2>1, <3>1, <3>2 DEF TypeOK, StoresAgree
    <3>4. \A j \in InvalidationId : invalidations'[j] = IF j = i.id THEN i ELSE invalidations[j]
      BY <2>1, <3>1 DEF TypeOK
    <3>5. \A j \in InvalidationId : invalidations[j] # None => invalidations[j].proposalId \in ProposalId
      BY DEF TypeOK, Invalidation
    <3>6. QED
      BY <2>1, <3>1, <3>3, <3>4, <3>5 DEF StoresAgree, ActorOf
  <2>4. QED
    BY <2>2, <2>3
<1>5. QED
  BY <1>1, <1>2, <1>3, <1>4 DEF Next, vars, Stores

(* Type correctness of the five stores and of every answer. *)
THEOREM TypeCorrect == Spec => [](TypeOK /\ StoresAgree)
<1>1. Init => TypeOK /\ StoresAgree
  BY DEF Init, TypeOK, StoresAgree
<1>2. TypeOK /\ StoresAgree /\ [Next]_vars => (TypeOK /\ StoresAgree)'
  BY TypeStep, StoresAgreeStep
<1>3. QED
  BY <1>1, <1>2, PTL DEF Spec

-----------------------------------------------------------------------------
(* One decision per principal, within the request *)

LEMMA BallotStep ==
  ASSUME TypeOK, StoresAgree, OneDecisionPerPrincipal, ApprovalsWithinRequest,
         [Next]_vars
  PROVE  OneDecisionPerPrincipal' /\ ApprovalsWithinRequest'
<1> USE NoneAssumption, InputAssumption
<1>1. ASSUME UNCHANGED <<proposals, decisions>>
      PROVE  OneDecisionPerPrincipal' /\ ApprovalsWithinRequest'
  BY <1>1 DEF OneDecisionPerPrincipal, ApprovalsWithinRequest
<1>2. ASSUME NEW p \in ProposalInput, NEW n \in NotificationInput, NEW now \in Time,
             ReceiveProposal(p, n, now)
      PROVE  OneDecisionPerPrincipal' /\ ApprovalsWithinRequest'
  <2>1. p \in Proposal /\ p.id \in ProposalId
    BY DEF Proposal
  <2>2. /\ UNCHANGED decisions
        /\ \A q \in ProposalId : proposals[q] # None => proposals'[q] = proposals[q]
    BY <1>2, <2>1, ReceiveProposalEffect DEF TypeOK, Stores
  <2>3. QED
    BY <2>2 DEF OneDecisionPerPrincipal, ApprovalsWithinRequest, StoresAgree
<1>3. ASSUME NEW d \in DecisionInput, NEW now \in Time, RecordDecision(d, now)
      PROVE  OneDecisionPerPrincipal' /\ ApprovalsWithinRequest'
  <2> DEFINE pid == d.proposalId
  <2>1. d \in Decision /\ pid \in ProposalId
    BY DEF Decision
  <2>2. CASE UNCHANGED Stores
    BY <1>1, <2>2 DEF Stores
  <2>3. CASE ~UNCHANGED Stores
    <3>1. /\ proposals[pid] # None
          /\ d.approved \subseteq proposals[pid].requested
          /\ ~HasDecided(pid, d.actor)
          /\ decisions' = [decisions EXCEPT ![pid] = @ \cup {d}]
          /\ UNCHANGED proposals
      BY <1>3, <2>3, RecordDecisionEffect
    <3>2. \A q \in ProposalId : decisions'[q] = IF q = pid THEN decisions[q] \cup {d}
                                                 ELSE decisions[q]
      BY <2>1, <3>1 DEF TypeOK
    <3>3. \A e \in decisions[pid] : e.actor # d.actor
      BY <3>1 DEF HasDecided
    <3>4. OneDecisionPerPrincipal'
      <4> SUFFICES ASSUME NEW q \in ProposalId, NEW a \in decisions'[q], NEW b \in decisions'[q],
                          a.actor = b.actor
                   PROVE  a = b
        BY DEF OneDecisionPerPrincipal
      <4>1. CASE q # pid
        BY <3>2, <4>1 DEF OneDecisionPerPrincipal
      <4>2. CASE q = pid
        <5>1. decisions'[q] = decisions[pid] \cup {d}
          BY <3>2, <4>2
        <5>2. QED
          BY <2>1, <3>3, <5>1 DEF OneDecisionPerPrincipal
      <4>3. QED
        BY <4>1, <4>2
    <3>5. ApprovalsWithinRequest'
      BY <3>1, <3>2 DEF ApprovalsWithinRequest
    <3>6. QED
      BY <3>4, <3>5
  <2>4. QED
    BY <2>2, <2>3
<1>4. ASSUME NEW i \in InvalidationInput, NEW now \in Time, ReceiveInvalidation(i, now)
      PROVE  OneDecisionPerPrincipal' /\ ApprovalsWithinRequest'
  BY <1>1, <1>4 DEF ReceiveInvalidation
<1>5. QED
  BY <1>1, <1>2, <1>3, <1>4 DEF Next, vars

-----------------------------------------------------------------------------
(* The release is the agreement *)

(* Two approvals are the whole agreement: with one decision per party,     *)
(* exactly two approvals are one of each side, and their common scopes are *)
(* the scopes both sides approved. *)
LEMMA ApprovalsAreTheAgreement ==
  ASSUME NEW p, NEW ds,
         p.initiator # p.counterparty,
         \A d \in ds : d.side \in Side /\ d.actor = ActorOf(p, d.side),
         \A d, e \in ds : d.actor = e.actor => d = e
  PROVE  LET agreed == {s \in p.requested : \A side \in Side :
                          \E d \in ds : /\ d.side = side
                                        /\ d.actor = ActorOf(p, side)
                                        /\ d.state = "approved"
                                        /\ s \in d.approved}
         IN  /\ BothApproved(Approvals(ds)) => agreed = CommonScopes(p, Approvals(ds))
             /\ ~BothApproved(Approvals(ds)) => agreed = {}
<1> DEFINE agreed == {s \in p.requested : \A side \in Side :
                        \E d \in ds : /\ d.side = side
                                      /\ d.actor = ActorOf(p, side)
                                      /\ d.state = "approved"
                                      /\ s \in d.approved}
           as == Approvals(ds)
<1>1. \A d, e \in ds : d.side = e.side => d = e
  OBVIOUS
<1>2. ASSUME BothApproved(as)
      PROVE  agreed = CommonScopes(p, as)
  <2>1. PICK d \in as, e \in as : d # e /\ as = {d, e}
    BY <1>2 DEF BothApproved
  <2>2. d \in ds /\ e \in ds /\ d.state = "approved" /\ e.state = "approved"
    BY DEF Approvals
  <2>3. d.side # e.side
    BY <1>1, <2>1, <2>2
  <2>4. {d.side, e.side} = Side
    BY <2>2, <2>3 DEF Side
  <2>5. ASSUME NEW s \in CommonScopes(p, as)
        PROVE  s \in agreed
    BY <2>1, <2>2, <2>4 DEF CommonScopes
  <2>6. ASSUME NEW s \in agreed
        PROVE  s \in CommonScopes(p, as)
    BY <1>1, <2>1, <2>2, <2>4 DEF CommonScopes
  <2>7. QED
    BY <2>5, <2>6
<1>3. ASSUME NEW s \in agreed
      PROVE  BothApproved(as)
  <2>1. PICK d \in ds : d.side = "initiator" /\ d.state = "approved"
    BY DEF Side
  <2>2. PICK e \in ds : e.side = "counterparty" /\ e.state = "approved"
    BY DEF Side
  <2>3. d \in as /\ e \in as /\ d # e
    BY <2>1, <2>2 DEF Approvals
  <2>4. \A a \in as : a \in ds /\ (a.side = "initiator" \/ a.side = "counterparty")
    BY DEF Approvals, Side
  <2>5. as = {d, e}
    BY <1>1, <2>1, <2>2, <2>3, <2>4
  <2>6. QED
    BY <2>3, <2>5 DEF BothApproved
<1>4. QED
  BY <1>2, <1>3

(* A party that has not decided yet cannot have a release already: a       *)
(* non-empty agreement needs a decision of both sides. *)
LEMMA UndecidedMeansUnreleased ==
  ASSUME StoresAgree, ReleaseIsTheAgreement,
         NEW pid \in ProposalId, NEW side \in Side,
         proposals[pid] # None, proposals[pid].requested # None,
         ~HasDecided(pid, ActorOf(proposals[pid], side))
  PROVE  releases[pid] = None
<1>1. proposals[pid].id = pid
  BY DEF StoresAgree
<1>2. \A e \in decisions[pid] : e.actor # ActorOf(proposals[pid], side)
  BY DEF HasDecided
<1>3. AgreedScopes(proposals[pid]) = {}
  BY <1>1, <1>2 DEF AgreedScopes
<1>4. QED
  BY <1>3 DEF ReleaseIsTheAgreement

LEMMA AgreementStep ==
  ASSUME TypeOK, StoresAgree, OneDecisionPerPrincipal, ReleaseIsTheAgreement,
         TypeOK', StoresAgree', OneDecisionPerPrincipal', [Next]_vars
  PROVE  ReleaseIsTheAgreement'
<1> USE NoneAssumption, InputAssumption
<1>1. ASSUME UNCHANGED <<proposals, decisions, releases>>
      PROVE  ReleaseIsTheAgreement'
  BY <1>1 DEF ReleaseIsTheAgreement, AgreedScopes, ActorOf
<1>2. ASSUME NEW p \in ProposalInput, NEW n \in NotificationInput, NEW now \in Time,
             ReceiveProposal(p, n, now)
      PROVE  ReleaseIsTheAgreement'
  <2>1. p \in Proposal /\ p.id \in ProposalId
    BY DEF Proposal
  <2>2. CASE UNCHANGED Stores
    BY <1>1, <2>2 DEF Stores
  <2>3. CASE ~UNCHANGED Stores
    <3>1. /\ proposals' = [proposals EXCEPT ![p.id] = p]
          /\ proposals[p.id] \in {None, p}
          /\ p.initiator # p.counterparty
          /\ UNCHANGED <<decisions, releases>>
      BY <1>2, <2>3, ReceiveProposalEffect
    <3>2. ASSUME NEW q \in ProposalId
          PROVE  \/ proposals'[q] = proposals[q]
                 \/ /\ proposals[q] = None /\ proposals'[q] = p /\ q = p.id
                    /\ decisions[q] = {}
      BY <2>1, <3>1 DEF TypeOK, StoresAgree
    <3>3. AgreedScopes(p)' = {s \in p.requested : \A side \in Side :
                                \E d \in decisions[p.id] : /\ d.side = side
                                                           /\ d.actor = ActorOf(p, side)
                                                           /\ d.state = "approved"
                                                           /\ s \in d.approved}
      BY <3>1 DEF AgreedScopes, ActorOf
    <3>4. decisions[p.id] = {} => AgreedScopes(p)' = {}
      BY <3>3 DEF Side
    <3>5. ASSUME NEW q \in ProposalId, proposals'[q] = proposals[q]
          PROVE  AgreedScopes(proposals[q])' = AgreedScopes(proposals[q])
      BY <3>1, <3>5 DEF AgreedScopes, ActorOf
    <3>6. QED
      BY <3>1, <3>2, <3>4, <3>5 DEF ReleaseIsTheAgreement
  <2>4. QED
    BY <2>2, <2>3
<1>3. ASSUME NEW d \in DecisionInput, NEW now \in Time, RecordDecision(d, now)
      PROVE  ReleaseIsTheAgreement'
  <2> DEFINE pid == d.proposalId
             p == proposals[pid]
             ds == decisions[pid] \cup {d}
             agreement == BothApproved(Approvals(ds)) /\ CommonScopes(p, Approvals(ds)) # {}
  <2>1. d \in Decision /\ pid \in ProposalId /\ d.side \in Side
    BY DEF Decision
  <2>2. CASE UNCHANGED Stores
    BY <1>1, <2>2 DEF Stores
  <2>3. CASE ~UNCHANGED Stores
    <3>1. /\ p # None /\ p.id = pid /\ p.requested # None
          /\ d.actor = ActorOf(p, d.side)
          /\ ~HasDecided(pid, d.actor)
          /\ decisions' = [decisions EXCEPT ![pid] = ds]
          /\ agreement => releases' = [releases EXCEPT ![pid] = ReleaseOf(p, Approvals(ds), now)]
          /\ ~agreement => UNCHANGED releases
          /\ UNCHANGED proposals
      BY <1>3, <2>3, RecordDecisionEffect
    <3>2. releases[pid] = None
      BY <2>1, <3>1, UndecidedMeansUnreleased
    <3>3. p.initiator # p.counterparty
      BY <2>1, <3>1 DEF StoresAgree
    <3>4. decisions'[pid] = ds
      BY <2>1, <3>1 DEF TypeOK
    <3>5. \A e \in ds : e.side \in Side /\ e.actor = ActorOf(p, e.side)
      BY <2>1, <3>1 DEF TypeOK, StoresAgree, Decision
    <3>6. \A e, f \in ds : e.actor = f.actor => e = f
      BY <2>1, <3>4 DEF OneDecisionPerPrincipal
    <3>7. AgreedScopes(p)' = {s \in p.requested : \A side \in Side :
                                \E e \in ds : /\ e.side = side
                                              /\ e.actor = ActorOf(p, side)
                                              /\ e.state = "approved"
                                              /\ s \in e.approved}
      BY <3>1, <3>4 DEF AgreedScopes, ActorOf
    <3>8. /\ BothApproved(Approvals(ds)) => AgreedScopes(p)' = CommonScopes(p, Approvals(ds))
          /\ ~BothApproved(Approvals(ds)) => AgreedScopes(p)' = {}
      <4> DEFINE agreedNow == AgreedScopes(p)'
      <4> HIDE DEF p, ds, agreedNow
      <4>1. agreedNow = {s \in p.requested : \A side \in Side :
                           \E e \in ds : /\ e.side = side
                                         /\ e.actor = ActorOf(p, side)
                                         /\ e.state = "approved"
                                         /\ s \in e.approved}
        BY <3>7 DEF agreedNow
      <4>2. /\ BothApproved(Approvals(ds)) => agreedNow = CommonScopes(p, Approvals(ds))
            /\ ~BothApproved(Approvals(ds)) => agreedNow = {}
        BY <3>3, <3>5, <3>6, <4>1, ApprovalsAreTheAgreement
      <4>3. QED
        BY <4>2 DEF agreedNow
    <3>9. IF releases'[pid] = None THEN AgreedScopes(p)' = {}
          ELSE /\ releases'[pid].releasedScopes = AgreedScopes(p)'
               /\ AgreedScopes(p)' # {}
               /\ releases'[pid].decisionIds = {e.id : e \in Approvals(decisions'[pid])}
      <4>1. CASE agreement
        <5>1. releases'[pid] = ReleaseOf(p, Approvals(ds), now)
          BY <2>1, <3>1, <4>1 DEF TypeOK
        <5>2. Approvals(ds) \in SUBSET Decision /\ p \in Proposal
          BY <2>1, <3>1 DEF TypeOK, Approvals
        <5>3. ReleaseOf(p, Approvals(ds), now) # None
          <6>1. ReleaseOf(p, Approvals(ds), now) \in Release
            <7> HIDE DEF p, ds
            <7>1. QED
              BY <3>1, <5>2, ReleaseOfIsRelease
          <6>2. QED
            BY <6>1
        <5>4. /\ ReleaseOf(p, Approvals(ds), now).releasedScopes = CommonScopes(p, Approvals(ds))
              /\ ReleaseOf(p, Approvals(ds), now).decisionIds = {e.id : e \in Approvals(ds)}
          BY DEF ReleaseOf
        <5>5. releases'[pid].decisionIds = {e.id : e \in Approvals(decisions'[pid])}
          BY <3>4, <5>1, <5>4
        <5>6. QED
          BY <3>8, <4>1, <5>1, <5>3, <5>4, <5>5
      <4>2. CASE ~agreement
        <5>1. releases'[pid] = None
          BY <3>1, <3>2, <4>2
        <5>2. AgreedScopes(p)' = {}
          BY <3>8, <4>2
        <5>3. QED
          BY <5>1, <5>2
      <4>3. QED
        BY <4>1, <4>2
    <3>10. ASSUME NEW q \in ProposalId, q # pid
           PROVE  /\ releases'[q] = releases[q]
                  /\ decisions'[q] = decisions[q]
                  /\ proposals[q] # None => AgreedScopes(proposals[q])' = AgreedScopes(proposals[q])
      <4>1. decisions'[q] = decisions[q] /\ releases'[q] = releases[q]
        BY <2>1, <3>1, <3>10 DEF TypeOK
      <4>2. proposals[q] # None => proposals[q].id = q
        BY DEF StoresAgree
      <4>3. QED
        BY <3>1, <4>1, <4>2 DEF AgreedScopes, ActorOf
    <3>11. proposals' = proposals
      BY <3>1
    <3>12. QED
      <4> DEFINE Agreed(q, pq) ==
            /\ pq = None \/ pq.requested = None => releases'[q] = None
            /\ pq # None /\ pq.requested # None =>
                 /\ pq.initiator # pq.counterparty
                 /\ IF releases'[q] = None THEN AgreedScopes(pq)' = {}
                    ELSE /\ releases'[q].releasedScopes = AgreedScopes(pq)'
                         /\ AgreedScopes(pq)' # {}
                         /\ releases'[q].decisionIds = {e.id : e \in Approvals(decisions'[q])}
      <4>1. ASSUME NEW q \in ProposalId, q # pid
            PROVE  Agreed(q, proposals[q])
        BY <3>10, <4>1 DEF ReleaseIsTheAgreement
      <4>2. Agreed(pid, p)
        BY <3>1, <3>3, <3>9
      <4>3. \A q \in ProposalId : Agreed(q, proposals[q])
        BY <2>1, <4>1, <4>2
      <4>4. QED
        BY <3>11, <4>3 DEF ReleaseIsTheAgreement
  <2>4. QED
    BY <2>2, <2>3
<1>4. ASSUME NEW i \in InvalidationInput, NEW now \in Time, ReceiveInvalidation(i, now)
      PROVE  ReleaseIsTheAgreement'
  BY <1>1, <1>4 DEF ReceiveInvalidation
<1>5. QED
  BY <1>1, <1>2, <1>3, <1>4 DEF Next, vars

-----------------------------------------------------------------------------
(* Releases and invalidations *)

(* The invalidations accepted for the notification stored under a proposal,*)
(* and what NotificationTracksInvalidation says of one proposal.           *)
AcceptedFor(q, ns, is) ==
  {i \in InvalidationId : /\ is[i] # None
                          /\ is[i].proposalId = q
                          /\ is[i].notificationId = ns[q].id}

TracksAt(q, ns, is) ==
  /\ AcceptedFor(q, ns, is) = {} => ns[q] \in NotificationInput
  /\ AcceptedFor(q, ns, is) # {} =>
       /\ ns[q].state = "invalidated"
       /\ \E i \in AcceptedFor(q, ns, is) : ns[q].invalidatedAt = is[i].invalidatedAt

LEMMA ExclusionStep ==
  ASSUME TypeOK, StoresAgree, ReleaseIsTheAgreement, ReleaseExcludesInvalidation,
         NotificationTracksInvalidation, [Next]_vars
  PROVE  ReleaseExcludesInvalidation' /\ NotificationTracksInvalidation'
<1> USE NoneAssumption, InputAssumption
<1>1. ASSUME UNCHANGED <<notifications, releases, invalidations>>
      PROVE  ReleaseExcludesInvalidation' /\ NotificationTracksInvalidation'
  BY <1>1 DEF ReleaseExcludesInvalidation, NotificationTracksInvalidation
<1>2. ASSUME NEW p \in ProposalInput, NEW n \in NotificationInput, NEW now \in Time,
             ReceiveProposal(p, n, now)
      PROVE  ReleaseExcludesInvalidation' /\ NotificationTracksInvalidation'
  <2>1. p \in Proposal /\ p.id \in ProposalId
    BY DEF Proposal
  <2>2. CASE UNCHANGED Stores
    BY <1>1, <2>2 DEF Stores
  <2>3. CASE ~UNCHANGED Stores
    <3>1. /\ notifications' = [notifications EXCEPT ![p.id] = n]
          /\ notifications[p.id] \in {None, n}
          /\ UNCHANGED <<releases, invalidations>>
      BY <1>2, <2>3, ReceiveProposalEffect
    <3>2. ASSUME NEW q \in ProposalId
          PROVE  \/ notifications'[q] = notifications[q]
                 \/ /\ notifications'[q] = n
                    /\ \A i \in InvalidationId :
                         invalidations[i] = None \/ invalidations[i].proposalId # q
      BY <2>1, <3>1 DEF TypeOK, StoresAgree
    <3>3. NotificationTracksInvalidation'
      BY <3>1, <3>2 DEF NotificationTracksInvalidation
    <3>4. ReleaseExcludesInvalidation'
      BY <3>1 DEF ReleaseExcludesInvalidation
    <3>5. QED
      BY <3>3, <3>4
  <2>4. QED
    BY <2>2, <2>3
<1>3. ASSUME NEW d \in DecisionInput, NEW now \in Time, RecordDecision(d, now)
      PROVE  ReleaseExcludesInvalidation' /\ NotificationTracksInvalidation'
  <2> DEFINE pid == d.proposalId
  <2>1. d \in Decision /\ pid \in ProposalId
    BY DEF Decision
  <2>2. CASE UNCHANGED Stores
    BY <1>1, <2>2 DEF Stores
  <2>3. CASE ~UNCHANGED Stores
    <3>1. /\ ~Invalidated(pid)
          /\ \A q \in ProposalId : q # pid => releases'[q] = releases[q]
          /\ UNCHANGED <<notifications, invalidations>>
      BY <1>3, <2>1, <2>3, RecordDecisionEffect DEF TypeOK
    <3>2. NotificationTracksInvalidation'
      BY <3>1 DEF NotificationTracksInvalidation
    <3>3. ReleaseExcludesInvalidation'
      BY <3>1 DEF ReleaseExcludesInvalidation, Invalidated
    <3>4. QED
      BY <3>2, <3>3
  <2>4. QED
    BY <2>2, <2>3
<1>4. ASSUME NEW i \in InvalidationInput, NEW now \in Time, ReceiveInvalidation(i, now)
      PROVE  ReleaseExcludesInvalidation' /\ NotificationTracksInvalidation'
  <2> DEFINE pid == i.proposalId
             marked == MarkInvalidated(notifications[pid], i.invalidatedAt)
  <2>1. i \in Invalidation /\ i.id \in InvalidationId /\ pid \in ProposalId
        /\ i.invalidatedAt \in Time
    BY DEF Invalidation
  <2>2. CASE UNCHANGED Stores
    BY <1>1, <2>2 DEF Stores
  <2>3. CASE ~UNCHANGED Stores
    <3>1. /\ proposals[pid] # None
          /\ releases[pid] = None
          /\ i.notificationId = notifications[pid].id
          /\ invalidations[i.id] = None
          /\ invalidations' = [invalidations EXCEPT ![i.id] = i]
          /\ notifications' = [notifications EXCEPT ![pid] = marked]
          /\ UNCHANGED releases
      BY <1>4, <2>3, ReceiveInvalidationEffect
    <3>2. marked.state = "invalidated" /\ marked.id = notifications[pid].id
      BY <2>1, <3>1, MarkedIsNotification DEF TypeOK, StoresAgree
    <3>3. \A q \in ProposalId : notifications'[q] = IF q = pid THEN marked ELSE notifications[q]
      BY <2>1, <3>1 DEF TypeOK
    <3>4. \A j \in InvalidationId : invalidations'[j] = IF j = i.id THEN i ELSE invalidations[j]
      BY <2>1, <3>1 DEF TypeOK
    <3>5. ReleaseExcludesInvalidation'
      BY <2>1, <3>1, <3>4 DEF ReleaseExcludesInvalidation
    <3>6. NotificationTracksInvalidation'
      <4>1. marked.invalidatedAt = i.invalidatedAt
        BY <2>1, <3>1, MarkedIsNotification DEF TypeOK, StoresAgree
      <4>2. SUFFICES ASSUME NEW q \in ProposalId, notifications'[q] # None
                     PROVE  TracksAt(q, notifications', invalidations')
        BY DEF NotificationTracksInvalidation, TracksAt, AcceptedFor
      <4>3. CASE q = pid
        <5>1. i.id \in AcceptedFor(q, notifications', invalidations')
          BY <2>1, <3>1, <3>2, <3>3, <3>4, <4>3 DEF AcceptedFor
        <5>2. invalidations'[i.id] = i /\ notifications'[q] = marked
          BY <2>1, <3>3, <3>4, <4>3
        <5>3. QED
          BY <3>2, <4>1, <5>1, <5>2 DEF TracksAt
      <4>4. CASE q # pid
        <5>1. notifications'[q] = notifications[q]
          BY <3>3, <4>4
        <5>2. AcceptedFor(q, notifications', invalidations') = AcceptedFor(q, notifications, invalidations)
          BY <3>1, <3>4, <4>4, <5>1 DEF AcceptedFor
        <5>3. \A j \in AcceptedFor(q, notifications, invalidations) : invalidations'[j] = invalidations[j]
          BY <3>1, <3>4 DEF AcceptedFor
        <5>4. TracksAt(q, notifications, invalidations)
          BY <4>2, <5>1 DEF NotificationTracksInvalidation, TracksAt, AcceptedFor
        <5>5. QED
          BY <5>1, <5>2, <5>3, <5>4 DEF TracksAt
      <4>5. QED
        BY <4>3, <4>4
    <3>7. QED
      BY <3>5, <3>6
  <2>4. QED
    BY <2>2, <2>3
<1>5. QED
  BY <1>1, <1>2, <1>3, <1>4 DEF Next, vars

-----------------------------------------------------------------------------
(* The invariant *)

IInv ==
  /\ TypeOK
  /\ StoresAgree
  /\ OneDecisionPerPrincipal
  /\ ApprovalsWithinRequest
  /\ ReleaseIsTheAgreement
  /\ ReleaseExcludesInvalidation
  /\ NotificationTracksInvalidation

LEMMA InductiveInvariant == Spec => []IInv
<1>1. Init => IInv
  BY DEF Init, IInv, TypeOK, StoresAgree, OneDecisionPerPrincipal,
         ApprovalsWithinRequest, ReleaseIsTheAgreement,
         ReleaseExcludesInvalidation, NotificationTracksInvalidation
<1>2. IInv /\ [Next]_vars => IInv'
  BY TypeStep, StoresAgreeStep, BallotStep, AgreementStep, ExclusionStep DEF IInv
<1>3. QED
  BY <1>1, <1>2, PTL DEF Spec

(* A principal decides a proposal at most once, and approves nothing the   *)
(* proposal did not request (record_decision). *)
THEOREM OneDecision == Spec => [](OneDecisionPerPrincipal /\ ApprovalsWithinRequest)
<1>1. IInv => OneDecisionPerPrincipal /\ ApprovalsWithinRequest
  BY DEF IInv
<1>2. QED
  BY <1>1, InductiveInvariant, PTL

(* A release exists exactly when the two parties agree on a scope, and it  *)
(* releases the agreed scopes: dual approval, intersection only. *)
THEOREM DualApproval == Spec => []ReleaseIsTheAgreement
<1>1. IInv => ReleaseIsTheAgreement
  BY DEF IInv
<1>2. QED
  BY <1>1, InductiveInvariant, PTL

(* No proposal is ever both released and invalidated. *)
THEOREM Exclusion == Spec => []ReleaseExcludesInvalidation
<1>1. IInv => ReleaseExcludesInvalidation
  BY DEF IInv
<1>2. QED
  BY <1>1, InductiveInvariant, PTL

(* The stored notification is as it arrived until an invalidation bound to *)
(* it is accepted, and carries the mark of one from then on, whatever is   *)
(* redelivered (receive_invalidation writes into the record that           *)
(* receive_proposal compares). *)
THEOREM Tracking == Spec => []NotificationTracksInvalidation
<1>1. IInv => NotificationTracksInvalidation
  BY DEF IInv
<1>2. QED
  BY <1>1, InductiveInvariant, PTL

(* Nothing is decided or released at or after the expiry of its proposal.  *)
LEMMA ExpiryStep ==
  ASSUME IInv, IInv', NothingAtOrAfterExpiry, [Next]_vars
  PROVE  NothingAtOrAfterExpiry'
<1> USE NoneAssumption, InputAssumption
<1>1. ASSUME UNCHANGED <<decisions, releases>>,
             \A q \in ProposalId : proposals[q] # None => proposals'[q] = proposals[q]
      PROVE  NothingAtOrAfterExpiry'
  <2>1. ASSUME NEW q \in ProposalId, proposals[q] = None
        PROVE  decisions[q] = {} /\ releases[q] = None
    BY <2>1 DEF IInv, StoresAgree, ReleaseIsTheAgreement
  <2>2. QED
    BY <1>1, <2>1 DEF NothingAtOrAfterExpiry
<1>2. ASSUME NEW p \in ProposalInput, NEW n \in NotificationInput, NEW now \in Time,
             ReceiveProposal(p, n, now)
      PROVE  NothingAtOrAfterExpiry'
  <2>1. p \in Proposal /\ p.id \in ProposalId
    BY DEF Proposal
  <2>2. QED
    BY <1>1, <1>2, <2>1, ReceiveProposalEffect DEF IInv, TypeOK, Stores
<1>3. ASSUME NEW d \in DecisionInput, NEW now \in Time, RecordDecision(d, now)
      PROVE  NothingAtOrAfterExpiry'
  <2> DEFINE pid == d.proposalId
             p == proposals[pid]
             approvals == Approvals(decisions[pid] \cup {d})
  <2>1. d \in Decision /\ pid \in ProposalId /\ d.decidedAt \in Int /\ now \in Int
    BY DEF Decision, Time
  <2>2. CASE UNCHANGED Stores
    BY <1>1, <2>2 DEF Stores
  <2>3. CASE ~UNCHANGED Stores
    <3>1. /\ p # None
          /\ ~(p.expiresAt <= now)
          /\ ~(d.decidedAt > now)
          /\ decisions' = [decisions EXCEPT ![pid] = @ \cup {d}]
          /\ \/ releases' = [releases EXCEPT ![pid] = ReleaseOf(p, approvals, now)]
             \/ UNCHANGED releases
          /\ UNCHANGED proposals
      BY <1>3, <2>3, RecordDecisionEffect DEF IInv
    <3>2. p.expiresAt \in Int
      BY <2>1, <3>1 DEF IInv, TypeOK, Proposal, Time
    <3>3. now < p.expiresAt /\ d.decidedAt < p.expiresAt
      BY <2>1, <3>1, <3>2
    <3>4. ReleaseOf(p, approvals, now).releasedAt = now
      BY DEF ReleaseOf
    <3>5. \A q \in ProposalId :
            /\ decisions'[q] = IF q = pid THEN decisions[q] \cup {d} ELSE decisions[q]
            /\ \/ releases'[q] = releases[q]
               \/ q = pid /\ releases'[q].releasedAt = now
      BY <2>1, <3>1, <3>4 DEF IInv, TypeOK
    <3>6. \A q \in ProposalId : \A e \in decisions'[q] : e.decidedAt < proposals'[q].expiresAt
      BY <3>1, <3>3, <3>5 DEF NothingAtOrAfterExpiry
    <3>7. \A q \in ProposalId :
            releases'[q] # None => releases'[q].releasedAt < proposals'[q].expiresAt
      BY <3>1, <3>3, <3>5 DEF NothingAtOrAfterExpiry
    <3>8. QED
      BY <3>6, <3>7 DEF NothingAtOrAfterExpiry
  <2>4. QED
    BY <2>2, <2>3
<1>4. ASSUME NEW i \in InvalidationInput, NEW now \in Time, ReceiveInvalidation(i, now)
      PROVE  NothingAtOrAfterExpiry'
  BY <1>1, <1>4 DEF ReceiveInvalidation
<1>5. QED
  BY <1>1, <1>2, <1>3, <1>4 DEF Next, vars

(* No decision takes effect and nothing is released at or after expiry.    *)
THEOREM BeforeExpiry == Spec => []NothingAtOrAfterExpiry
<1>1. Init => NothingAtOrAfterExpiry
  BY DEF Init, NothingAtOrAfterExpiry
<1>2. IInv /\ IInv' /\ NothingAtOrAfterExpiry /\ [Next]_vars => NothingAtOrAfterExpiry'
  BY ExpiryStep
<1>3. QED
  BY <1>1, <1>2, InductiveInvariant, PTL DEF Spec

-----------------------------------------------------------------------------
(* Action properties *)

LEMMA FinalStep ==
  ASSUME IInv, [Next]_vars,
         NEW q \in ProposalId
  PROVE  /\ Invalidated(q) =>
              /\ decisions'[q] = decisions[q]
              /\ releases'[q] = releases[q]
              /\ notifications'[q].state = "invalidated"
         /\ releases[q] # None => releases'[q] = releases[q]
<1> DEFINE Goal == /\ Invalidated(q) =>
                        /\ decisions'[q] = decisions[q]
                        /\ releases'[q] = releases[q]
                        /\ notifications'[q].state = "invalidated"
                   /\ releases[q] # None => releases'[q] = releases[q]
<1> USE NoneAssumption, InputAssumption
<1>0. Invalidated(q) => notifications[q] # None /\ notifications[q].state = "invalidated"
  <2>1. ASSUME NEW i \in InvalidationId, invalidations[i] # None,
               invalidations[i].proposalId = q
        PROVE  notifications[q] # None /\ invalidations[i].notificationId = notifications[q].id
    BY <2>1 DEF IInv, StoresAgree
  <2>2. QED
    BY <2>1 DEF Invalidated, IInv, NotificationTracksInvalidation
<1>1. CASE UNCHANGED Stores
  BY <1>0, <1>1 DEF Stores
<1>2. ASSUME NEW p \in ProposalInput, NEW n \in NotificationInput, NEW now \in Time,
             ReceiveProposal(p, n, now)
      PROVE  Goal
  <2>1. p \in Proposal /\ p.id \in ProposalId
    BY DEF Proposal
  <2>2. /\ UNCHANGED <<decisions, releases>>
        /\ notifications[q] # None => notifications'[q] = notifications[q]
    BY <1>2, <2>1, ReceiveProposalEffect DEF IInv, TypeOK, Stores
  <2>3. QED
    BY <1>0, <2>2
<1>3. ASSUME NEW d \in DecisionInput, NEW now \in Time, RecordDecision(d, now), ~UNCHANGED Stores
      PROVE  Goal
  <2> DEFINE pid == d.proposalId
  <2>1. d \in Decision /\ pid \in ProposalId /\ d.side \in Side
    BY DEF Decision
  <2>2. /\ proposals[pid] # None /\ proposals[pid].requested # None
        /\ ~Invalidated(pid)
        /\ ~HasDecided(pid, ActorOf(proposals[pid], d.side))
        /\ UNCHANGED notifications
    BY <1>3, RecordDecisionEffect DEF IInv
  <2>3. \A r \in ProposalId : r # pid =>
          decisions'[r] = decisions[r] /\ releases'[r] = releases[r]
    <3> DEFINE release == ReleaseOf(proposals[pid], Approvals(decisions[pid] \cup {d}), now)
    <3>1. /\ decisions' = [decisions EXCEPT ![pid] = @ \cup {d}]
          /\ releases' \in {releases, [releases EXCEPT ![pid] = release]}
      BY <1>3, RecordDecisionEffect DEF IInv
    <3> HIDE DEF release
    <3>2. DOMAIN decisions = ProposalId /\ DOMAIN releases = ProposalId
      BY DEF IInv, TypeOK
    <3>3. \A r \in ProposalId : r # pid => decisions'[r] = decisions[r]
      BY <3>1, <3>2
    <3>4. \A r \in ProposalId : r # pid => releases'[r] = releases[r]
      BY <3>1, <3>2
    <3>5. QED
      BY <3>3, <3>4
  <2>4. releases[pid] = None
    BY <2>1, <2>2, UndecidedMeansUnreleased DEF IInv
  <2>5. QED
    BY <1>0, <2>2, <2>3, <2>4
<1>4. ASSUME NEW i \in InvalidationInput, NEW now \in Time, ReceiveInvalidation(i, now), ~UNCHANGED Stores
      PROVE  Goal
  <2> DEFINE pid == i.proposalId
             marked == MarkInvalidated(notifications[pid], i.invalidatedAt)
  <2>1. pid \in ProposalId /\ i.invalidatedAt \in Time
    BY DEF Invalidation
  <2>2. /\ proposals[pid] # None
        /\ notifications' = [notifications EXCEPT ![pid] = marked]
        /\ UNCHANGED <<decisions, releases>>
    BY <1>4, ReceiveInvalidationEffect DEF IInv
  <2>3. marked.state = "invalidated"
    BY <2>1, <2>2, MarkedIsNotification DEF IInv, TypeOK, StoresAgree
  <2>4. QED
    BY <1>0, <2>1, <2>2, <2>3 DEF IInv, TypeOK
<1>5. QED
  BY <1>1, <1>2, <1>3, <1>4 DEF Next, vars, Stores

(* After an accepted invalidation no decision is recorded, nothing is      *)
(* released and the notification stays marked. *)
THEOREM InvalidationFinal == Spec => InvalidationIsFinal
<1>1. IInv /\ [Next]_vars =>
        [\A pid \in ProposalId :
           Invalidated(pid) =>
             /\ decisions'[pid] = decisions[pid]
             /\ releases'[pid] = releases[pid]
             /\ notifications'[pid].state = "invalidated"]_vars
  BY FinalStep
<1>2. QED
  BY <1>1, InductiveInvariant, PTL DEF Spec, InvalidationIsFinal

(* A release is never changed or withdrawn.  *)
THEOREM ReleasePermanent == Spec => ReleaseIsPermanent
<1>1. IInv /\ [Next]_vars =>
        [\A pid \in ProposalId : releases[pid] # None => releases'[pid] = releases[pid]]_vars
  BY FinalStep
<1>2. QED
  BY <1>1, InductiveInvariant, PTL DEF Spec, ReleaseIsPermanent

-----------------------------------------------------------------------------
(* Refinement *)

(* What the mapping reads off a decision: a refusal grants nothing. *)
Grant(d) == IF d.state = "approved" THEN d.approved ELSE {}

LEMMA MappedTypes ==
  ASSUME IInv, NEW pid \in ProposalId
  PROVE  /\ VotedOf(pid) \subseteq Side
         /\ proposals[pid] # None /\ proposals[pid].requested # None =>
              DisclosedOf(pid) = GrantedOf(pid)["initiator"] \cap GrantedOf(pid)["counterparty"]
         /\ proposals[pid] = None => decisions[pid] = {}
<1> DEFINE p == proposals[pid]
           both == GrantedOf(pid)["initiator"] \cap GrantedOf(pid)["counterparty"]
<1>1. VotedOf(pid) \subseteq Side
  BY DEF IInv, TypeOK, VotedOf, Decision
<1>2. ASSUME p # None, p.requested # None
      PROVE  DisclosedOf(pid) = both
  <2>1. p.id = pid
    BY <1>2 DEF IInv, StoresAgree
  <2>2. DisclosedOf(pid) = AgreedScopes(p)
    BY <1>2 DEF IInv, ReleaseIsTheAgreement, DisclosedOf
  <2>3. \A side \in Side : GrantedOf(pid)[side] =
          UNION {d.approved : d \in {e \in decisions[pid] : e.side = side /\ e.state = "approved"}}
    BY DEF GrantedOf
  <2>4. \A d \in decisions[pid] : d.approved \subseteq p.requested /\ d.actor = ActorOf(p, d.side)
    BY DEF IInv, StoresAgree, ApprovalsWithinRequest
  <2>5. ASSUME NEW s
        PROVE  s \in AgreedScopes(p) <=> s \in both
    BY <2>1, <2>3, <2>4 DEF AgreedScopes, Side
  <2>6. QED
    BY <2>2, <2>5
<1>3. QED
  BY <1>1, <1>2 DEF IInv, StoresAgree

(* Disclosed is what both sides granted: read off the agreement invariant. *)
DisclosedIsTheMeet ==
  \A q \in ProposalId :
    proposals[q] # None /\ proposals[q].requested # None =>
      DisclosedOf(q) = GrantedOf(q)["initiator"] \cap GrantedOf(q)["counterparty"]

LEMMA MeetInvariant == IInv => DisclosedIsTheMeet
BY MappedTypes DEF DisclosedIsTheMeet

LEMMA RefinementInit == Init => Disclosure!Init
BY DEF Init, Disclosure!Init, StatusOf, VotedOf, GrantedOf, DisclosedOf, Side, Disclosure!Side

LEMMA RefinementStep ==
  ASSUME IInv, IInv', DisclosedIsTheMeet', [Next]_vars
  PROVE  [Disclosure!Next]_(Disclosure!vars)
<1> USE NoneAssumption, InputAssumption
<1>1. ASSUME UNCHANGED <<decisions, releases>>,
             \A q \in ProposalId : StatusOf(q)' = StatusOf(q)
      PROVE  UNCHANGED Disclosure!vars
  BY <1>1 DEF Disclosure!vars, VotedOf, GrantedOf, DisclosedOf
<1>2. ASSUME NEW p \in ProposalInput, NEW n \in NotificationInput, NEW now \in Time,
             ReceiveProposal(p, n, now), ~UNCHANGED Stores
      PROVE  [Disclosure!Next]_(Disclosure!vars)
  <2>1. p \in Proposal /\ p.id \in ProposalId
    BY DEF Proposal
  <2>2. /\ proposals' = [proposals EXCEPT ![p.id] = p]
        /\ proposals[p.id] \in {None, p}
        /\ UNCHANGED <<decisions, releases, invalidations>>
    BY <1>2, ReceiveProposalEffect
  <2>3. CASE proposals[p.id] = p
    <3>1. proposals' = proposals
      BY <2>1, <2>2, <2>3 DEF IInv, TypeOK
    <3>2. QED
      BY <1>1, <2>2, <3>1 DEF StatusOf
  <2>4. CASE proposals[p.id] = None
    <3>1. \A q \in ProposalId : q # p.id => StatusOf(q)' = StatusOf(q)
      BY <2>1, <2>2 DEF StatusOf, IInv, TypeOK
    <3>2. StatusOf(p.id) = "unknown"
      BY <2>4 DEF StatusOf
    <3>3. StatusOf(p.id)' = "open"
      <4>1. proposals'[p.id] # None
        BY <2>1, <2>2 DEF IInv, TypeOK
      <4>2. \A i \in InvalidationId : invalidations[i] = None \/ invalidations[i].proposalId # p.id
        BY <2>4 DEF IInv, StoresAgree
      <4>3. QED
        BY <2>2, <4>1, <4>2 DEF StatusOf
    <3>4. Disclosure!Propose(p.id)
      BY <2>1, <2>2, <3>1, <3>2, <3>3
         DEF Disclosure!Propose, VotedOf, GrantedOf, DisclosedOf
    <3>5. QED
      BY <2>1, <3>4 DEF Disclosure!Next
  <2>5. QED
    BY <2>2, <2>3, <2>4
<1>3. ASSUME NEW d \in DecisionInput, NEW now \in Time, RecordDecision(d, now), ~UNCHANGED Stores
      PROVE  [Disclosure!Next]_(Disclosure!vars)
  <2> DEFINE pid == d.proposalId
             p == proposals[pid]
  <2>1. d \in Decision /\ pid \in ProposalId /\ d.side \in Side
    BY DEF Decision
  <2>2. /\ p # None /\ p.requested # None
        /\ ~Invalidated(pid)
        /\ d.actor = ActorOf(p, d.side)
        /\ ~HasDecided(pid, d.actor)
        /\ decisions' = [decisions EXCEPT ![pid] = @ \cup {d}]
        /\ UNCHANGED <<proposals, invalidations>>
    BY <1>3, RecordDecisionEffect DEF IInv
  <2>3. \A q \in ProposalId : q # pid => releases'[q] = releases[q]
    <3>1. \/ UNCHANGED releases
          \/ \E r : releases' = [releases EXCEPT ![pid] = r]
      BY <1>3, RecordDecisionEffect DEF IInv
    <3>2. QED
      BY <2>1, <3>1 DEF IInv, TypeOK
  <2>4. decisions'[pid] = decisions[pid] \cup {d}
        /\ \A q \in ProposalId : q # pid => decisions'[q] = decisions[q]
    BY <2>1, <2>2 DEF IInv, TypeOK
  <2>5. \A q \in ProposalId : StatusOf(q)' = StatusOf(q)
    BY <2>2 DEF StatusOf
  <2>6. StatusOf(pid) = "open"
    BY <2>2 DEF StatusOf, Invalidated
  <2>7. d.side \notin VotedOf(pid)
    BY <2>1, <2>2 DEF VotedOf, HasDecided, IInv, StoresAgree
  <2>8. /\ VotedOf(pid)' = VotedOf(pid) \cup {d.side}
        /\ \A q \in ProposalId : q # pid => VotedOf(q)' = VotedOf(q)
    BY <2>4 DEF VotedOf
  <2>9. /\ GrantedOf(pid)' = [GrantedOf(pid) EXCEPT ![d.side] = Grant(d)]
        /\ \A q \in ProposalId : q # pid => GrantedOf(q)' = GrantedOf(q)
    <3> DEFINE G(ds, side) ==
          UNION {x.approved : x \in {e \in ds : e.side = side /\ e.state = "approved"}}
    <3>1. \A side \in Side : side # d.side => G(decisions[pid] \cup {d}, side) = G(decisions[pid], side)
      OBVIOUS
    <3>2. \A e \in decisions[pid] : e.side # d.side
      BY <2>7 DEF VotedOf
    <3>3. G(decisions[pid] \cup {d}, d.side) = Grant(d)
      BY <3>2 DEF Grant
    <3>4. GrantedOf(pid) = [side \in Side |-> G(decisions[pid], side)]
      BY DEF GrantedOf
    <3>5. GrantedOf(pid)' = [side \in Side |-> G(decisions[pid] \cup {d}, side)]
      BY <2>4 DEF GrantedOf
    <3> HIDE DEF G
    <3>6. GrantedOf(pid)' = [GrantedOf(pid) EXCEPT ![d.side] = Grant(d)]
      <4> DEFINE before == [side \in Side |-> G(decisions[pid], side)]
                 after == [side \in Side |-> G(decisions[pid] \cup {d}, side)]
      <4>1. after = [before EXCEPT ![d.side] = Grant(d)]
        BY <2>1, <3>1, <3>3
      <4>2. GrantedOf(pid) = before /\ GrantedOf(pid)' = after
        BY <3>4, <3>5
      <4> HIDE DEF before, after
      <4>3. QED
        BY <4>1, <4>2
    <3>7. \A q \in ProposalId : q # pid => GrantedOf(q)' = GrantedOf(q)
      BY <2>4 DEF GrantedOf
    <3>8. QED
      BY <3>6, <3>7
  <2>10. /\ DisclosedOf(pid)' = GrantedOf(pid)'["initiator"] \cap GrantedOf(pid)'["counterparty"]
         /\ \A q \in ProposalId : q # pid => DisclosedOf(q)' = DisclosedOf(q)
    <3>1. proposals'[pid] # None /\ proposals'[pid].requested # None
      BY <2>2
    <3>2. QED
      BY <2>1, <2>3, <3>1 DEF DisclosedOf, DisclosedIsTheMeet
  <2>11. Grant(d) \in SUBSET Scope
    BY <2>1 DEF Grant, Decision
  <2>12. Disclosure!Decide(pid, d.side, Grant(d))
    BY <2>1, <2>5, <2>6, <2>7, <2>8, <2>9, <2>10 DEF Disclosure!Decide
  <2>13. QED
    BY <2>1, <2>11, <2>12 DEF Disclosure!Next, Disclosure!Side, Side
<1>4. ASSUME NEW i \in InvalidationInput, NEW now \in Time, ReceiveInvalidation(i, now), ~UNCHANGED Stores
      PROVE  [Disclosure!Next]_(Disclosure!vars)
  <2> DEFINE pid == i.proposalId
  <2>1. i \in Invalidation /\ i.id \in InvalidationId /\ pid \in ProposalId
    BY DEF Invalidation
  <2>2. /\ proposals[pid] # None
        /\ releases[pid] = None
        /\ invalidations[i.id] = None
        /\ invalidations' = [invalidations EXCEPT ![i.id] = i]
        /\ UNCHANGED <<proposals, decisions, releases>>
    BY <1>4, ReceiveInvalidationEffect DEF IInv
  <2>3. \A j \in InvalidationId : invalidations'[j] = IF j = i.id THEN i ELSE invalidations[j]
    BY <2>1, <2>2 DEF IInv, TypeOK
  <2>4. \A q \in ProposalId : q # pid => StatusOf(q)' = StatusOf(q)
    BY <2>1, <2>2, <2>3 DEF StatusOf
  <2>5. StatusOf(pid)' = "invalidated"
    BY <2>1, <2>2, <2>3 DEF StatusOf
  <2>6. CASE Invalidated(pid)
    <3>1. StatusOf(pid) = "invalidated"
      BY <2>2, <2>6 DEF StatusOf, Invalidated
    <3>2. QED
      BY <1>1, <2>2, <2>4, <2>5, <3>1
  <2>7. CASE ~Invalidated(pid)
    <3>1. StatusOf(pid) = "open"
      BY <2>2, <2>7 DEF StatusOf, Invalidated
    <3>2. DisclosedOf(pid) = {}
      BY <2>2 DEF DisclosedOf
    <3>3. Disclosure!Invalidate(pid)
      BY <2>1, <2>2, <2>4, <2>5, <3>1, <3>2
         DEF Disclosure!Invalidate, VotedOf, GrantedOf, DisclosedOf
    <3>4. QED
      BY <2>1, <3>3 DEF Disclosure!Next
  <2>8. QED
    BY <2>6, <2>7
<1>5. CASE UNCHANGED Stores
  BY <1>1, <1>5 DEF Stores, StatusOf
<1>6. QED
  BY <1>2, <1>3, <1>4, <1>5 DEF Next, vars, Stores

(* The adapter's standing state machine implements the governed disclosure *)
(* of one decision per side, disclosure of the intersection only, and no   *)
(* disclosure of an invalidated proposal. *)
THEOREM Implementation == Spec => ImplementsDisclosure
<1>1. IInv /\ IInv' /\ DisclosedIsTheMeet' /\ [Next]_vars
        => [Disclosure!Next]_(Disclosure!vars)
  BY RefinementStep
<1>2. QED
  BY <1>1, RefinementInit, MeetInvariant, InductiveInvariant, PTL
     DEF Spec, ImplementsDisclosure, Disclosure!Spec

=============================================================================
