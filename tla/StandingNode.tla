---------------------------- MODULE StandingNode ----------------------------
(***************************************************************************)
(* The standing handlers of the HTTP proof node,                           *)
(* implementations/python/exp_http_node.py: receive_proposal, decide,      *)
(* receive_release, receive_invalidation and invalidate_proposal.          *)
(* ThreadingHTTPServer runs each request in a thread of its own.  Some     *)
(* handlers check and write inside one JsonStore.update and are one action *)
(* here; others check a copy of the store (JsonStore.read), and write in a *)
(* later update, with any other thread's steps in between: op[t] is what   *)
(* thread t has checked and not written yet.                               *)
(*                                                                         *)
(* An update changes the store in memory and then writes the file.  Neither*)
(* a missing correlationId nor a missing coordinatorEndpoint is looked for *)
(* beforehand: the KeyError comes after the change, which stays in memory  *)
(* and reaches the file only with the next update of anybody.  A crash     *)
(* loses what is not on the file, and the threads.                         *)
(*                                                                         *)
(* Schema validation and a notice not bound to its proposal fail before    *)
(* the store is read; inputs have passed both.  Which handler a failed     *)
(* check answers with what error is left out: it changes nothing but the   *)
(* audit trail, which no handler reads.  The delivery of a queued decision *)
(* is module Outbox.                                                       *)
(***************************************************************************)
EXTENDS Integers, Sequences, FiniteSets

CONSTANTS
  ProposalId, Body, Endpoint, NoticeId, DecisionId, ReleaseId, InvalidationId,
  Handler,            \* request threads
  None,               \* no entry under a key, a missing field, an idle thread
  ProposalInput,      \* what peers and the local operator may send
  ReleaseInput,
  InvalidationInput,
  MaxCrashes          \* bound: crashes of the process

NoticeState == {"active", "read", "dismissed", "invalidated"}

(* A notice of the list, under its proposal; `after' holds the proposals   *)
(* whose notices stand before it. *)
Notice == [id : NoticeId, state : NoticeState, after : SUBSET ProposalId]

(* Whether it approves, and of which scopes, nothing here depends on. *)
Decision == [id : DecisionId, proposal : ProposalId]

Release == [id : ReleaseId, proposal : ProposalId]

Invalidation ==
  [id : InvalidationId, notice : NoticeId, proposal : ProposalId]

Delivery ==
  [proposal : ProposalId, body : Body, notice : NoticeId, state : NoticeState,
   coordinator : Endpoint \cup {None}, correlated : BOOLEAN]

ASSUME NodeAssumption ==
  /\ None \notin Body
  /\ None \notin Endpoint
  /\ None \notin Notice
  /\ MaxCrashes \in Nat
  /\ ProposalInput \subseteq Delivery
  /\ ReleaseInput \subseteq Release
  /\ InvalidationInput \subseteq Invalidation

Operation ==
  [step : {"decide"}, proposal : ProposalId]
    \cup [step : {"enqueue"}, decision : DecisionId]
    \cup [step : {"release"}, release : ReleaseInput]
    \cup [step : {"invalidate"}, invalidation : InvalidationInput]

Idle == [step |-> "idle"]

VARIABLES
  proposals,          \* proposal id -> body
  notices,            \* proposal id -> the notice that came with it
  decisions,          \* the local principal's decisions
  releases,
  invalidations,      \* a list: nothing in the update looks for the identifier
  queued,             \* the decisions put in the outbox
  coordinatorEndpoint,
  destination,        \* decision id -> where its entry of the outbox goes
  disk,               \* the store as the file has it
  op,                 \* what each thread is in the middle of
  snapshot,           \* coordinatorEndpoint in the copy a thread decides with
  crashes,
  overlapped,         \* ghost: proposals two threads were busy with at once
  origin,             \* ghost: the coordinator each proposal came from
  overtaken,          \* ghost: proposals after which another coordinator's came
  uncorrelated        \* ghost: decisions whose request had no correlationId

store == <<proposals, notices, decisions, releases, invalidations, queued>>

addresses == <<coordinatorEndpoint, destination, snapshot, origin, overtaken>>

vars == <<proposals, notices, decisions, releases, invalidations, queued,
          disk, op, crashes, overlapped, uncorrelated, addresses>>

(* The store in memory. *)
Memory ==
  [proposals |-> proposals, notices |-> notices, decisions |-> decisions,
   releases |-> releases, invalidations |-> invalidations, queued |-> queued,
   coordinator |-> coordinatorEndpoint, destination |-> destination]

Store ==
  [proposals : [ProposalId -> {None} \cup Body],
   notices : [ProposalId -> {None} \cup Notice],
   decisions : SUBSET Decision,
   releases : SUBSET Release,
   invalidations : Seq(Invalidation),
   queued : SUBSET DecisionId,
   coordinator : {None} \cup Endpoint,
   destination : [DecisionId -> {None} \cup Endpoint]]

TypeOK ==
  /\ Memory \in Store
  /\ disk \in Store
  /\ op \in [Handler -> {Idle} \cup Operation]
  /\ crashes \in 0 .. MaxCrashes
  /\ overlapped \in SUBSET ProposalId
  /\ snapshot \in [Handler -> {None} \cup Endpoint]
  /\ origin \in [ProposalId -> {None} \cup Endpoint]
  /\ overtaken \in SUBSET ProposalId
  /\ uncorrelated \in SUBSET DecisionId

Init ==
  /\ proposals = [p \in ProposalId |-> None]
  /\ notices = [p \in ProposalId |-> None]
  /\ decisions = {}
  /\ releases = {}
  /\ invalidations = <<>>
  /\ queued = {}
  /\ coordinatorEndpoint = None
  /\ destination = [id \in DecisionId |-> None]
  /\ disk = Memory
  /\ op = [t \in Handler |-> Idle]
  /\ snapshot = [t \in Handler |-> None]
  /\ crashes = 0
  /\ overlapped = {}
  /\ origin = [p \in ProposalId |-> None]
  /\ overtaken = {}
  /\ uncorrelated = {}

Invalidations == {invalidations[k] : k \in DOMAIN invalidations}

HasRelease(p) == \E r \in releases : r.proposal = p

(* JsonStore.update: the file is written unless the change raises. *)
WrittenIf(completes) == disk' = IF completes THEN Memory' ELSE disk

(* An operation that has checked proposal p and not written yet. *)
Concerns(o, p) ==
  \/ o.step = "decide" /\ o.proposal = p
  \/ o.step = "release" /\ o.release.proposal = p
  \/ o.step = "invalidate" /\ o.invalidation.proposal = p

(* Thread t checks p while another one is between its check and its write. *)
Overlapping(t, p) ==
  overlapped \cup {q \in {p} : \E u \in Handler \ {t} : Concerns(op[u], q)}

-----------------------------------------------------------------------------
(* receive_proposal and invalidate_proposal: checked inside the update *)

StoresProposal(p) == proposals[p] = None

(* Mutant: only the first proposal says where the coordinator is. *)
CoordinatorOfFirst(d) ==
  IF coordinatorEndpoint = None THEN d.coordinator ELSE coordinatorEndpoint

(* One field, of the last proposal that brought it. *)
Coordinator(d) ==
  IF d.coordinator = None THEN coordinatorEndpoint ELSE d.coordinator

Held == {p \in ProposalId : proposals[p] # None}

(* The endpoint and the correlationId are read after the three appends.    *)
ReceiveProposal(d) ==
  /\ StoresProposal(d.proposal)
  /\ proposals' = [proposals EXCEPT ![d.proposal] = d.body]
  /\ notices' = [notices EXCEPT ![d.proposal] =
                   [id |-> d.notice, state |-> d.state, after |-> Held]]
  /\ coordinatorEndpoint' = Coordinator(d)
  /\ origin' = [origin EXCEPT ![d.proposal] = d.coordinator]
  /\ overtaken' = (overtaken \ {d.proposal}) \cup
       {p \in Held : d.coordinator # None /\ origin[p] # d.coordinator}
  /\ UNCHANGED <<decisions, releases, invalidations, queued, op, crashes, overlapped,
                 destination, snapshot, uncorrelated>>
  /\ WrittenIf(d.coordinator # None /\ d.correlated)

Marked(n) == [n EXCEPT !.state = "invalidated"]

(* Mutant: the operator's invalidation does not look for a release. *)
InvalidatableAny(p) ==
  notices[p] # None /\ notices[p].state \in {"active", "read"}

Invalidatable(p) ==
  /\ ~HasRelease(p)
  /\ notices[p] # None /\ notices[p].state \in {"active", "read"}

(* The operator's invalidation marks the notice and nothing else. *)
InvalidateProposal(p, correlated) ==
  /\ Invalidatable(p)
  /\ notices' = [notices EXCEPT ![p] = Marked(@)]
  /\ UNCHANGED <<proposals, decisions, releases, invalidations, queued, op, crashes,
                 overlapped, uncorrelated, addresses>>
  /\ WrittenIf(correlated)

-----------------------------------------------------------------------------
(* decide: check a copy, record, enqueue *)

(* Mutant: decide does not look at the invalidations received. *)
DecidableInvalidated(p) ==
  /\ proposals[p] # None
  /\ ~ \E d \in decisions : d.proposal = p

(* Mutant: decide does not look for an earlier decision. *)
DecidableAgain(p) ==
  /\ proposals[p] # None
  /\ ~ \E i \in Invalidations : i.proposal = p

Decidable(p) ==
  /\ proposals[p] # None
  /\ ~ \E i \in Invalidations : i.proposal = p
  /\ ~ \E d \in decisions : d.proposal = p

DecideCheck(t, p) ==
  /\ op[t] = Idle
  /\ Decidable(p)
  /\ op' = [op EXCEPT ![t] = [step |-> "decide", proposal |-> p]]
  /\ overlapped' = Overlapping(t, p)
  /\ snapshot' = [snapshot EXCEPT ![t] = coordinatorEndpoint]
  /\ UNCHANGED <<store, disk, crashes, coordinatorEndpoint, destination, origin,
                 overtaken, uncorrelated>>

FreshDecision == DecisionId \ {d.id : d \in decisions}

(* The append comes before body["correlationId"]: without one the decision *)
(* is in the store and its request is at an end. *)
DecideRecord(t, id, correlated) ==
  /\ op[t].step = "decide"
  /\ id \in FreshDecision
  /\ decisions' = decisions \cup {[id |-> id, proposal |-> op[t].proposal]}
  /\ op' = [op EXCEPT ![t] =
              IF correlated THEN [step |-> "enqueue", decision |-> id] ELSE Idle]
  /\ uncorrelated' = IF correlated THEN uncorrelated ELSE uncorrelated \cup {id}
  /\ snapshot' = IF correlated THEN snapshot ELSE [snapshot EXCEPT ![t] = None]
  /\ UNCHANGED <<proposals, notices, releases, invalidations, queued, crashes, overlapped,
                 coordinatorEndpoint, destination, origin, overtaken>>
  /\ WrittenIf(correlated)

(* Mutant: the decision is recorded and not enqueued. *)
OutgoingNothing(t) == queued

Outgoing(t) == queued \cup {op[t].decision}

DecideEnqueue(t) ==
  /\ op[t].step = "enqueue" /\ snapshot[t] # None
  /\ queued' = Outgoing(t)
  /\ destination' = [destination EXCEPT ![op[t].decision] = snapshot[t]]
  /\ op' = [op EXCEPT ![t] = Idle]
  /\ snapshot' = [snapshot EXCEPT ![t] = None]
  /\ UNCHANGED <<proposals, notices, decisions, releases, invalidations, crashes, overlapped,
                 coordinatorEndpoint, origin, overtaken, uncorrelated>>
  /\ WrittenIf(TRUE)

(* No proposal has brought a coordinatorEndpoint: KeyError, nothing queued.*)
DecideUnaddressed(t) ==
  /\ op[t].step = "enqueue" /\ snapshot[t] = None
  /\ op' = [op EXCEPT ![t] = Idle]
  /\ UNCHANGED <<store, disk, crashes, overlapped, uncorrelated, addresses>>

-----------------------------------------------------------------------------
(* receive_release: check that the proposal is known, then store *)

ReleaseCheck(t, r) ==
  /\ op[t] = Idle
  /\ proposals[r.proposal] # None
  /\ op' = [op EXCEPT ![t] = [step |-> "release", release |-> r]]
  /\ overlapped' = Overlapping(t, r.proposal)
  /\ UNCHANGED <<store, disk, crashes, uncorrelated, addresses>>

(* Whether the identifier is already there is asked inside the update. *)
StoredRelease(r) ==
  IF \E s \in releases : s.id = r.id THEN releases ELSE releases \cup {r}

ReleaseStore(t) ==
  /\ op[t].step = "release"
  /\ releases' = StoredRelease(op[t].release)
  /\ op' = [op EXCEPT ![t] = Idle]
  /\ UNCHANGED <<proposals, notices, decisions, invalidations, queued, crashes, overlapped,
                 uncorrelated, addresses>>
  /\ WrittenIf(TRUE)

-----------------------------------------------------------------------------
(* receive_invalidation: check a copy, then mark and append *)

(* Mutant: a second delivery is not recognised. *)
AcceptableAgain(i) ==
  /\ proposals[i.proposal] # None
  /\ ~HasRelease(i.proposal)
  /\ notices[i.proposal].id = i.notice

(* Mutant: it does not look for a release. *)
AcceptableReleased(i) ==
  /\ proposals[i.proposal] # None
  /\ notices[i.proposal].id = i.notice
  /\ ~ \E j \in Invalidations : j.id = i.id

(* Mutant: the notice it names is not compared with the proposal's. *)
AcceptableUnbound(i) ==
  /\ proposals[i.proposal] # None
  /\ ~HasRelease(i.proposal)
  /\ ~ \E j \in Invalidations : j.id = i.id

Acceptable(i) ==
  /\ proposals[i.proposal] # None
  /\ ~HasRelease(i.proposal)
  /\ notices[i.proposal].id = i.notice
  /\ ~ \E j \in Invalidations : j.id = i.id

InvalidationCheck(t, i) ==
  /\ op[t] = Idle
  /\ Acceptable(i)
  /\ op' = [op EXCEPT ![t] = [step |-> "invalidate", invalidation |-> i]]
  /\ overlapped' = Overlapping(t, i.proposal)
  /\ UNCHANGED <<store, disk, crashes, uncorrelated, addresses>>

(* The update looks the notice up again, by its identifier alone, and takes*)
(* the first of the list that has it. *)
FirstOf(id) ==
  {p \in ProposalId :
     /\ notices[p] # None /\ notices[p].id = id
     /\ \A q \in notices[p].after : notices[q].id # id}

InvalidationStore(t, correlated) ==
  /\ op[t].step = "invalidate"
  /\ LET i == op[t].invalidation IN
     /\ notices' = [p \in ProposalId |->
                      IF p \in FirstOf(i.notice) THEN Marked(notices[p]) ELSE notices[p]]
     /\ invalidations' = Append(invalidations, i)
  /\ op' = [op EXCEPT ![t] = Idle]
  /\ UNCHANGED <<proposals, decisions, releases, queued, crashes, overlapped,
                 uncorrelated, addresses>>
  /\ WrittenIf(correlated)

-----------------------------------------------------------------------------
(* The file, and the process that crashes *)

(* Any other update writes all of the store: a nonce, an audit entry of a  *)
(* rejected request, an outcome of the outbox, a proposal sent again. *)
Save ==
  /\ disk # Memory
  /\ disk' = Memory
  /\ UNCHANGED <<store, op, crashes, overlapped, uncorrelated, addresses>>

(* The process starts again from the file; the threads are gone. *)
Crash ==
  /\ crashes < MaxCrashes
  /\ crashes' = crashes + 1
  /\ proposals' = disk.proposals
  /\ notices' = disk.notices
  /\ decisions' = disk.decisions
  /\ releases' = disk.releases
  /\ invalidations' = disk.invalidations
  /\ queued' = disk.queued
  /\ coordinatorEndpoint' = disk.coordinator
  /\ destination' = disk.destination
  /\ op' = [t \in Handler |-> Idle]
  /\ snapshot' = [t \in Handler |-> None]
  /\ UNCHANGED <<disk, overlapped, origin, overtaken, uncorrelated>>

HandlerStep(t) ==
  \/ \E id \in DecisionId, correlated \in BOOLEAN : DecideRecord(t, id, correlated)
  \/ DecideEnqueue(t)
  \/ DecideUnaddressed(t)
  \/ ReleaseStore(t)
  \/ \E correlated \in BOOLEAN : InvalidationStore(t, correlated)

Next ==
  \/ \E d \in ProposalInput : ReceiveProposal(d)
  \/ \E p \in ProposalId, correlated \in BOOLEAN : InvalidateProposal(p, correlated)
  \/ \E t \in Handler :
       \/ \E p \in ProposalId : DecideCheck(t, p)
       \/ \E r \in ReleaseInput : ReleaseCheck(t, r)
       \/ \E i \in InvalidationInput : InvalidationCheck(t, i)
       \/ HandlerStep(t)
  \/ Save
  \/ Crash

Spec == Init /\ [][Next]_vars

-----------------------------------------------------------------------------
(* Properties of any number of request threads *)

(* Decisions, releases and invalidations are about proposals the node      *)
(* holds, what is queued was recorded, and an invalidation names the notice*)
(* of its proposal, which is marked, unless the notice of a proposal that  *)
(* came earlier has the same identifier: line 459 marks that one instead.  *)
BoundIn(s) ==
  /\ \A p \in ProposalId : s.proposals[p] # None <=> s.notices[p] # None
  /\ \A d \in s.decisions : s.proposals[d.proposal] # None
  /\ s.queued \subseteq {d.id : d \in s.decisions}
  /\ \A r \in s.releases : s.proposals[r.proposal] # None
  /\ \A k \in DOMAIN s.invalidations :
       LET i == s.invalidations[k]
           n == s.notices[i.proposal] IN
       /\ s.proposals[i.proposal] # None
       /\ n.id = i.notice
       /\ n.state = "invalidated" \/ \E q \in n.after : s.notices[q].id = i.notice

(* The store is bound in memory, although each request was checked against *)
(* an older copy, and on the file a restart begins with, although updates  *)
(* that raise leave the two apart. *)
RecordsAreBound == BoundIn(Memory) /\ BoundIn(disk)

(* A release identifier is stored once, and it never changes proposal,     *)
(* however often and concurrently the release is delivered. *)
ReleaseIdIsUnique ==
  \A r, s \in releases : r.id = s.id => r = s

(* A recorded decision is queued, or is in the hands of the thread that    *)
(* will queue it, or the process crashed, or its request had no            *)
(* correlationId, or its proposal came without a coordinatorEndpoint: the  *)
(* two KeyErrors after the append are the only way to lose it. *)
RecordedIsQueued ==
  crashes = 0 =>
    \A d \in decisions :
      \/ d.id \in queued
      \/ \E t \in Handler : op[t].step = "enqueue" /\ op[t].decision = d.id
      \/ d.id \in uncorrelated
      \/ origin[d.proposal] = None

(* A decision goes to the coordinator its proposal came from, unless a     *)
(* proposal of another coordinator came after it or its own came without   *)
(* an endpoint; also when the two come between decide's copy and its       *)
(* enqueue, and after a crash that takes the endpoint back                 *)
(* (exp_http_node.py 407 and 428). *)
DecisionFindsCoordinator ==
  \A d \in decisions :
    d.id \in queued /\ d.proposal \notin overtaken /\ origin[d.proposal] # None =>
      destination[d.id] = origin[d.proposal]

(* What the file has stays, through every later update and through         *)
(* crashes: proposals keep their body, decisions and releases stay, the    *)
(* list of invalidations only grows. *)
RecordsEndure ==
  [][/\ \A p \in ProposalId :
          disk.proposals[p] # None => proposals'[p] = disk.proposals[p]
     /\ disk.decisions \subseteq decisions'
     /\ disk.releases \subseteq releases'
     /\ \A k \in DOMAIN disk.invalidations :
          /\ k \in DOMAIN invalidations'
          /\ invalidations'[k] = disk.invalidations[k]]_vars

-----------------------------------------------------------------------------
(* Properties of the proposals no two requests overlapped on; the          *)
(* specification asks them of all, and each check of decide and            *)
(* receive_invalidation is made on a copy (exp_http_node.py 412-426,       *)
(* 443-464). *)

(* A second decision by the same actor on the same proposal fails: the     *)
(* local principal decides a proposal once, unless two requests were       *)
(* between their checks and their writes at once. *)
OneLocalDecision ==
  \A d, e \in decisions :
    d.proposal = e.proposal /\ d.proposal \notin overlapped => d = e

(* A proposal that was released is not invalidated afterwards by a peer,   *)
(* unless the check of the invalidation overlapped the release. *)
ReleasedNotInvalidated ==
  [][Len(invalidations') > Len(invalidations) =>
       LET i == invalidations'[Len(invalidations')] IN
       i.proposal \in overlapped \/ ~ \E r \in releases : r.proposal = i.proposal]_vars

(* The notice of a released proposal is not marked, neither by the operator*)
(* nor by a peer, unless two requests on the proposal overlapped or the    *)
(* notice of another proposal has its identifier. *)
ReleasedStaysUnmarked ==
  [][\A p \in ProposalId :
       /\ HasRelease(p)
       /\ notices[p].state # "invalidated" /\ notices'[p].state = "invalidated"
       => \/ p \in overlapped
          \/ \E q \in ProposalId \ {p} : notices[q] # None /\ notices[q].id = notices[p].id]_vars

(* An invalidation delivered again takes effect once, unless its two       *)
(* deliveries overlapped. *)
InvalidationOnce ==
  \A j, k \in DOMAIN invalidations :
    /\ invalidations[j].id = invalidations[k].id
    /\ invalidations[j].proposal = invalidations[k].proposal
    /\ invalidations[j].proposal \notin overlapped
    => j = k

(* After a peer's invalidation no decision on the proposal is recorded,    *)
(* unless the decision was checked before. *)
NoDecisionAfterInvalidation ==
  [][\A d \in decisions' \ decisions : \A k \in DOMAIN invalidations :
       invalidations[k].proposal = d.proposal => d.proposal \in overlapped]_vars

=============================================================================
