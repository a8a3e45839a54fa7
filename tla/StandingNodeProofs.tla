------------------------- MODULE StandingNodeProofs -------------------------
(***************************************************************************)
(* Theorems about StandingNode: what any number of request threads keeps,  *)
(* in memory and on the file, and what they keep besides of a proposal no  *)
(* two requests overlapped on. *)
(***************************************************************************)
EXTENDS StandingNode, TLAPS

(* What a thread has checked stays true until it writes, because proposals *)
(* and the identifiers of notices never change. *)
CheckedIsBound ==
  \A t \in Handler :
    /\ op[t].step = "decide" => proposals[op[t].proposal] # None
    /\ op[t].step = "enqueue" => \E d \in decisions : d.id = op[t].decision
    /\ op[t].step = "release" => proposals[op[t].release.proposal] # None
    /\ op[t].step = "invalidate" =>
         /\ proposals[op[t].invalidation.proposal] # None
         /\ notices[op[t].invalidation.proposal].id = op[t].invalidation.notice

(* Whatever stands before a notice is in the list. *)
ListIn(s) ==
  \A p \in ProposalId :
    s.notices[p] # None => \A q \in s.notices[p].after : s.notices[q] # None

(* The file is what memory once was, and no update of a release or of the  *)
(* outbox raises. *)
DiskIsOlder ==
  /\ \A p \in ProposalId :
       /\ disk.proposals[p] # None => proposals[p] = disk.proposals[p]
       /\ disk.notices[p] # None =>
            /\ notices[p] # None /\ notices[p].id = disk.notices[p].id
            /\ disk.notices[p].state = "invalidated" => notices[p].state = "invalidated"
  /\ disk.decisions \subseteq decisions
  /\ disk.releases = releases
  /\ disk.queued = queued /\ disk.destination = destination
  /\ \A k \in DOMAIN disk.invalidations :
       k \in DOMAIN invalidations /\ invalidations[k] = disk.invalidations[k]

IInv ==
  /\ TypeOK
  /\ RecordsAreBound
  /\ ListIn(Memory) /\ ListIn(disk)
  /\ DiskIsOlder
  /\ ReleaseIdIsUnique
  /\ CheckedIsBound

-----------------------------------------------------------------------------
(* What the variables hold *)

LEMMA MemoryTypes ==
  ASSUME TypeOK
  PROVE  /\ proposals \in [ProposalId -> {None} \cup Body]
         /\ notices \in [ProposalId -> {None} \cup Notice]
         /\ decisions \in SUBSET Decision
         /\ releases \in SUBSET Release
         /\ invalidations \in Seq(Invalidation)
         /\ queued \in SUBSET DecisionId
         /\ coordinatorEndpoint \in {None} \cup Endpoint
         /\ destination \in [DecisionId -> {None} \cup Endpoint]
BY DEF TypeOK, Memory, Store

LEMMA DiskTypes ==
  ASSUME TypeOK
  PROVE  /\ disk.proposals \in [ProposalId -> {None} \cup Body]
         /\ disk.notices \in [ProposalId -> {None} \cup Notice]
         /\ disk.decisions \in SUBSET Decision
         /\ disk.invalidations \in Seq(Invalidation)
         /\ disk.coordinator \in {None} \cup Endpoint
BY DEF TypeOK, Store

LEMMA OperationTypes ==
  ASSUME TypeOK, NEW t \in Handler
  PROVE  /\ op[t].step \in {"idle", "decide", "enqueue", "release", "invalidate"}
         /\ op[t].step = "idle" <=> op[t] = Idle
         /\ op[t].step = "decide" => op[t].proposal \in ProposalId
         /\ op[t].step = "enqueue" => op[t].decision \in DecisionId
         /\ op[t].step = "release" => op[t].release \in Release
         /\ op[t].step = "invalidate" => op[t].invalidation \in Invalidation
BY NodeAssumption DEF TypeOK, Operation, Idle

LEMMA MarkedNotice ==
  ASSUME NEW n \in Notice
  PROVE  /\ Marked(n) \in Notice
         /\ Marked(n).id = n.id
         /\ Marked(n).after = n.after
         /\ Marked(n).state = "invalidated"
BY DEF Notice, Marked, NoticeState

LEMMA AppendFacts ==
  ASSUME NEW S, NEW s \in Seq(S), NEW e \in S
  PROVE  /\ Append(s, e) \in Seq(S)
         /\ Len(Append(s, e)) = Len(s) + 1
         /\ Append(s, e)[Len(s) + 1] = e
         /\ DOMAIN s = 1 .. Len(s)
         /\ DOMAIN Append(s, e) = 1 .. Len(s) + 1
         /\ Len(s) \in Nat
         /\ \A k \in DOMAIN s : Append(s, e)[k] = s[k]
OBVIOUS

(* Every step leaves the file alone or makes it equal to memory. *)
LEMMA DiskStep ==
  ASSUME [Next]_vars
  PROVE  disk' = disk \/ disk' = Memory'
<1>1. ASSUME NEW completes \in BOOLEAN, WrittenIf(completes)
      PROVE  disk' = disk \/ disk' = Memory'
  BY <1>1 DEF WrittenIf
<1>2. ASSUME NEW d \in ProposalInput, ReceiveProposal(d)
      PROVE  disk' = disk \/ disk' = Memory'
  BY <1>2 DEF ReceiveProposal, WrittenIf
<1>3. ASSUME NEW p \in ProposalId, NEW correlated \in BOOLEAN, InvalidateProposal(p, correlated)
      PROVE  disk' = disk \/ disk' = Memory'
  BY <1>1, <1>3 DEF InvalidateProposal
<1>4. ASSUME NEW t \in Handler, HandlerStep(t)
      PROVE  disk' = disk \/ disk' = Memory'
  BY <1>1, <1>4 DEF HandlerStep, DecideRecord, DecideEnqueue, DecideUnaddressed, ReleaseStore,
                    InvalidationStore
<1>5. CASE Save
  BY <1>5 DEF Save, Memory, store, addresses
<1>6. CASE UNCHANGED disk
  BY <1>6
<1>7. QED
  BY <1>2, <1>3, <1>4, <1>5, <1>6
     DEF Next, vars, DecideCheck, ReleaseCheck, InvalidationCheck, Crash

(* A restart begins with the file. *)
LEMMA CrashStep ==
  ASSUME TypeOK, Crash
  PROVE  Memory' = disk /\ disk' = disk
BY DEF TypeOK, Store, Crash, Memory

LEMMA InitIInv == Init => IInv
<1> SUFFICES ASSUME Init PROVE IInv
  OBVIOUS
<1> USE NodeAssumption
<1>1. Memory \in Store
  BY DEF Init, Store, Memory
<1>2. TypeOK
  BY <1>1 DEF Init, TypeOK
<1>3. BoundIn(Memory) /\ ListIn(Memory)
  BY DEF Init, BoundIn, ListIn, Memory
<1>4. RecordsAreBound /\ ListIn(disk)
  BY <1>3 DEF Init, RecordsAreBound
<1>5. DiskIsOlder
  BY DEF Init, DiskIsOlder, Memory
<1>6. ReleaseIdIsUnique
  BY DEF Init, ReleaseIdIsUnique
<1>7. CheckedIsBound
  BY DEF Init, CheckedIsBound, Idle
<1>8. QED
  BY <1>2, <1>3, <1>4, <1>5, <1>6, <1>7 DEF IInv

LEMMA OverlapTypes ==
  ASSUME TypeOK, NEW t \in Handler, NEW p \in ProposalId
  PROVE  Overlapping(t, p) \in SUBSET ProposalId
BY DEF TypeOK, Overlapping

(* What an invalidation marks is in the list. *)
LEMMA FirstOfHeld ==
  ASSUME TypeOK, NEW id
  PROVE  /\ FirstOf(id) \subseteq ProposalId
         /\ \A p \in FirstOf(id) : notices[p] \in Notice
BY MemoryTypes DEF FirstOf

(* A step keeps the types if it keeps those of memory and of the rest: the *)
(* file is left alone or becomes equal to memory. *)
LEMMA TypeFromParts ==
  ASSUME TypeOK, [Next]_vars,
         proposals' \in [ProposalId -> {None} \cup Body],
         notices' \in [ProposalId -> {None} \cup Notice],
         decisions' \in SUBSET Decision,
         releases' \in SUBSET Release,
         invalidations' \in Seq(Invalidation),
         queued' \in SUBSET DecisionId,
         coordinatorEndpoint' \in {None} \cup Endpoint,
         destination' \in [DecisionId -> {None} \cup Endpoint],
         op' \in [Handler -> {Idle} \cup Operation],
         crashes' \in 0 .. MaxCrashes,
         overlapped' \in SUBSET ProposalId,
         snapshot' \in [Handler -> {None} \cup Endpoint],
         origin' \in [ProposalId -> {None} \cup Endpoint],
         overtaken' \in SUBSET ProposalId,
         uncorrelated' \in SUBSET DecisionId
  PROVE  TypeOK'
<1>1. Memory' \in Store
  BY DEF Memory, Store
<1>2. disk' \in Store
  BY <1>1, DiskStep DEF TypeOK
<1>3. QED
  BY <1>1, <1>2 DEF TypeOK

LEMMA TypeStep == IInv /\ [Next]_vars => TypeOK'
<1> SUFFICES ASSUME IInv, [Next]_vars PROVE TypeOK'
  OBVIOUS
<1> USE NodeAssumption, TypeFromParts
<1>1. /\ TypeOK
      /\ op \in [Handler -> {Idle} \cup Operation]
      /\ crashes \in 0 .. MaxCrashes
      /\ overlapped \in SUBSET ProposalId
      /\ snapshot \in [Handler -> {None} \cup Endpoint]
      /\ origin \in [ProposalId -> {None} \cup Endpoint]
      /\ overtaken \in SUBSET ProposalId
      /\ uncorrelated \in SUBSET DecisionId
  BY DEF IInv, TypeOK
<1>2. ASSUME NEW d \in ProposalInput, ReceiveProposal(d)
      PROVE  TypeOK'
  <2>1. /\ d.proposal \in ProposalId /\ d.body \in Body /\ d.notice \in NoticeId
        /\ d.state \in NoticeState /\ d.coordinator \in Endpoint \cup {None}
    BY DEF Delivery
  <2>2. [id |-> d.notice, state |-> d.state, after |-> Held] \in Notice
    BY <2>1 DEF Notice, Held
  <2>3. /\ proposals' \in [ProposalId -> {None} \cup Body]
        /\ notices' \in [ProposalId -> {None} \cup Notice]
    BY <1>1, <1>2, <2>1, <2>2, MemoryTypes DEF ReceiveProposal
  <2>4. /\ coordinatorEndpoint' \in {None} \cup Endpoint
        /\ origin' \in [ProposalId -> {None} \cup Endpoint]
        /\ overtaken' \in SUBSET ProposalId
    BY <1>1, <1>2, <2>1, MemoryTypes DEF ReceiveProposal, Coordinator, Held
  <2>5. QED
    BY <1>1, <1>2, <2>3, <2>4, MemoryTypes DEF ReceiveProposal
<1>3. ASSUME NEW p \in ProposalId, NEW correlated \in BOOLEAN, InvalidateProposal(p, correlated)
      PROVE  TypeOK'
  <2>1. Marked(notices[p]) \in Notice
    BY <1>1, <1>3, MarkedNotice, MemoryTypes DEF InvalidateProposal, Invalidatable
  <2>2. notices' \in [ProposalId -> {None} \cup Notice]
    BY <1>1, <1>3, <2>1, MemoryTypes DEF InvalidateProposal
  <2>3. QED
    BY <1>1, <1>3, <2>2, MemoryTypes DEF InvalidateProposal, addresses
<1>4. ASSUME NEW t \in Handler, NEW p \in ProposalId, DecideCheck(t, p)
      PROVE  TypeOK'
  <2>1. [step |-> "decide", proposal |-> p] \in Operation
    BY DEF Operation
  <2>2. /\ op' \in [Handler -> {Idle} \cup Operation]
        /\ snapshot' \in [Handler -> {None} \cup Endpoint]
        /\ overlapped' \in SUBSET ProposalId
    BY <1>1, <1>4, <2>1, OverlapTypes, MemoryTypes DEF DecideCheck
  <2>3. QED
    BY <1>1, <1>4, <2>2, MemoryTypes DEF DecideCheck, store
<1>5. ASSUME NEW t \in Handler, NEW r \in ReleaseInput, ReleaseCheck(t, r)
      PROVE  TypeOK'
  <2>1. [step |-> "release", release |-> r] \in Operation /\ r.proposal \in ProposalId
    BY DEF Operation, Release
  <2>2. /\ op' \in [Handler -> {Idle} \cup Operation]
        /\ overlapped' \in SUBSET ProposalId
    BY <1>1, <1>5, <2>1, OverlapTypes DEF ReleaseCheck
  <2>3. QED
    BY <1>1, <1>5, <2>2, MemoryTypes DEF ReleaseCheck, store, addresses
<1>6. ASSUME NEW t \in Handler, NEW i \in InvalidationInput, InvalidationCheck(t, i)
      PROVE  TypeOK'
  <2>1. [step |-> "invalidate", invalidation |-> i] \in Operation /\ i.proposal \in ProposalId
    BY DEF Operation, Invalidation
  <2>2. /\ op' \in [Handler -> {Idle} \cup Operation]
        /\ overlapped' \in SUBSET ProposalId
    BY <1>1, <1>6, <2>1, OverlapTypes DEF InvalidationCheck
  <2>3. QED
    BY <1>1, <1>6, <2>2, MemoryTypes DEF InvalidationCheck, store, addresses
<1>7. ASSUME NEW t \in Handler, NEW id \in DecisionId, NEW correlated \in BOOLEAN,
             DecideRecord(t, id, correlated)
      PROVE  TypeOK'
  <2>1. [step |-> "enqueue", decision |-> id] \in Operation
    BY DEF Operation
  <2>2. [id |-> id, proposal |-> op[t].proposal] \in Decision
    BY <1>1, <1>7, OperationTypes DEF DecideRecord, Decision
  <2>3. /\ decisions' \in SUBSET Decision
        /\ op' \in [Handler -> {Idle} \cup Operation]
        /\ uncorrelated' \in SUBSET DecisionId
        /\ snapshot' \in [Handler -> {None} \cup Endpoint]
    BY <1>1, <1>7, <2>1, <2>2, MemoryTypes DEF DecideRecord
  <2>4. QED
    BY <1>1, <1>7, <2>3, MemoryTypes DEF DecideRecord
<1>8. ASSUME NEW t \in Handler, DecideEnqueue(t)
      PROVE  TypeOK'
  <2>1. op[t].decision \in DecisionId
    BY <1>1, <1>8, OperationTypes DEF DecideEnqueue
  <2>2. /\ queued' \in SUBSET DecisionId
        /\ destination' \in [DecisionId -> {None} \cup Endpoint]
        /\ op' \in [Handler -> {Idle} \cup Operation]
        /\ snapshot' \in [Handler -> {None} \cup Endpoint]
    BY <1>1, <1>8, <2>1, MemoryTypes DEF DecideEnqueue, Outgoing
  <2>3. QED
    BY <1>1, <1>8, <2>2, MemoryTypes DEF DecideEnqueue
<1>9. ASSUME NEW t \in Handler, DecideUnaddressed(t)
      PROVE  TypeOK'
  BY <1>1, <1>9, MemoryTypes DEF DecideUnaddressed, store, addresses
<1>10. ASSUME NEW t \in Handler, ReleaseStore(t)
       PROVE  TypeOK'
  <2>1. op[t].release \in Release
    BY <1>1, <1>10, OperationTypes DEF ReleaseStore
  <2>2. releases' \in SUBSET Release
    BY <1>1, <1>10, <2>1, MemoryTypes DEF ReleaseStore, StoredRelease
  <2>3. QED
    BY <1>1, <1>10, <2>2, MemoryTypes DEF ReleaseStore, addresses
<1>11. ASSUME NEW t \in Handler, NEW correlated \in BOOLEAN, InvalidationStore(t, correlated)
       PROVE  TypeOK'
  <2> DEFINE i == op[t].invalidation
  <2>1. i \in Invalidation
    BY <1>1, <1>11, OperationTypes DEF InvalidationStore
  <2>2. \A p \in FirstOf(i.notice) : Marked(notices[p]) \in Notice
    BY <1>1, FirstOfHeld, MarkedNotice
  <2>3. notices' \in [ProposalId -> {None} \cup Notice]
    BY <1>1, <1>11, <2>2, MemoryTypes DEF InvalidationStore
  <2>4. invalidations' \in Seq(Invalidation)
    BY <1>1, <1>11, <2>1, MemoryTypes DEF InvalidationStore
  <2>5. QED
    BY <1>1, <1>11, <2>3, <2>4, MemoryTypes DEF InvalidationStore, addresses
<1>12. ASSUME Save
       PROVE  TypeOK'
  BY <1>1, <1>12, MemoryTypes DEF Save, store, addresses
<1>13. ASSUME Crash
       PROVE  TypeOK'
  <2>1. /\ op' \in [Handler -> {Idle} \cup Operation]
        /\ snapshot' \in [Handler -> {None} \cup Endpoint]
        /\ crashes' \in 0 .. MaxCrashes
    BY <1>1, <1>13 DEF Crash
  <2>2. Memory' \in Store /\ disk' \in Store
    BY <1>1, <1>13, CrashStep DEF TypeOK
  <2>3. UNCHANGED <<overlapped, origin, overtaken, uncorrelated>>
    BY <1>13 DEF Crash
  <2>4. QED
    BY <1>1, <2>1, <2>2, <2>3 DEF TypeOK
<1>14. CASE UNCHANGED vars
  BY <1>1, <1>14, MemoryTypes DEF vars, store, addresses
<1>15. QED
  BY <1>2, <1>3, <1>4, <1>5, <1>6, <1>7, <1>8, <1>9, <1>10, <1>11, <1>12, <1>13, <1>14
     DEF Next, HandlerStep

-----------------------------------------------------------------------------
(* Without a crash memory only grows *)

LEMMA NoticesGrow ==
  ASSUME IInv, [Next]_vars, ~Crash, NEW p \in ProposalId
  PROVE  /\ proposals[p] # None => proposals'[p] = proposals[p]
         /\ proposals'[p] # None <=> notices'[p] # None
         /\ notices[p] # None =>
              /\ notices'[p].id = notices[p].id
              /\ notices'[p].after = notices[p].after
              /\ notices[p].state = "invalidated" => notices'[p].state = "invalidated"
         /\ notices[p] = None /\ notices'[p] # None => notices'[p].after = Held
<1> DEFINE Goal ==
         /\ proposals[p] # None => proposals'[p] = proposals[p]
         /\ proposals'[p] # None <=> notices'[p] # None
         /\ notices[p] # None =>
              /\ notices'[p].id = notices[p].id
              /\ notices'[p].after = notices[p].after
              /\ notices[p].state = "invalidated" => notices'[p].state = "invalidated"
         /\ notices[p] = None /\ notices'[p] # None => notices'[p].after = Held
<1> USE NodeAssumption
<1>1. /\ proposals[p] # None <=> notices[p] # None
      /\ notices[p] # None => notices[p] \in Notice
      /\ proposals \in [ProposalId -> {None} \cup Body]
      /\ notices \in [ProposalId -> {None} \cup Notice]
  BY MemoryTypes DEF IInv, RecordsAreBound, BoundIn, Memory
<1>2. CASE UNCHANGED <<proposals, notices>>
  BY <1>1, <1>2
<1>3. ASSUME NEW d \in ProposalInput, ReceiveProposal(d)
      PROVE  Goal
  <2> DEFINE n == [id |-> d.notice, state |-> d.state, after |-> Held]
  <2>1. d.proposal \in ProposalId /\ d.body \in Body /\ n \in Notice /\ n.after = Held
    BY DEF Delivery, Notice, Held
  <2>2. /\ proposals[d.proposal] = None
        /\ proposals' = [proposals EXCEPT ![d.proposal] = d.body]
        /\ notices' = [notices EXCEPT ![d.proposal] = n]
    BY <1>3 DEF ReceiveProposal, StoresProposal
  <2> HIDE DEF n
  <2>3. CASE p = d.proposal
    <3>1. proposals'[p] = d.body /\ notices'[p] = n /\ proposals[p] = None
      BY <1>1, <2>1, <2>2, <2>3
    <3>2. QED
      BY <1>1, <2>1, <3>1
  <2>4. CASE p # d.proposal
    BY <1>1, <2>2, <2>4
  <2>5. QED
    BY <2>3, <2>4
<1>4. ASSUME UNCHANGED proposals,
             notices'[p] = notices[p] \/ (notices[p] # None /\ notices'[p] = Marked(notices[p]))
      PROVE  Goal
  BY <1>1, <1>4, MarkedNotice
<1>5. ASSUME NEW q \in ProposalId, NEW correlated \in BOOLEAN, InvalidateProposal(q, correlated)
      PROVE  Goal
  BY <1>1, <1>4, <1>5 DEF InvalidateProposal, Invalidatable
<1>6. ASSUME NEW t \in Handler, NEW correlated \in BOOLEAN, InvalidationStore(t, correlated)
      PROVE  Goal
  <2>1. notices'[p] = IF p \in FirstOf(op[t].invalidation.notice)
                        THEN Marked(notices[p]) ELSE notices[p]
    BY <1>6 DEF InvalidationStore
  <2>2. UNCHANGED proposals
    BY <1>6 DEF InvalidationStore
  <2>3. p \in FirstOf(op[t].invalidation.notice) => notices[p] # None
    BY FirstOfHeld DEF IInv
  <2>4. QED
    BY <1>4, <2>1, <2>2, <2>3
<1>7. QED
  BY <1>2, <1>3, <1>5, <1>6
     DEF Next, HandlerStep, vars, store, DecideCheck, ReleaseCheck, InvalidationCheck,
         DecideRecord, DecideEnqueue, DecideUnaddressed, ReleaseStore, Save

LEMMA ListGrows ==
  ASSUME TypeOK, [Next]_vars, ~Crash
  PROVE  \/ UNCHANGED invalidations
         \/ \E t \in Handler, correlated \in BOOLEAN :
              /\ InvalidationStore(t, correlated)
              /\ op[t].invalidation \in Invalidation
              /\ invalidations' = Append(invalidations, op[t].invalidation)
<1>1. CASE UNCHANGED invalidations
  BY <1>1
<1>2. ASSUME NEW t \in Handler, NEW correlated \in BOOLEAN, InvalidationStore(t, correlated)
      PROVE  /\ op[t].invalidation \in Invalidation
             /\ invalidations' = Append(invalidations, op[t].invalidation)
  BY <1>2, OperationTypes DEF InvalidationStore
<1>3. QED
  BY <1>1, <1>2
     DEF Next, HandlerStep, vars, store, DecideCheck, ReleaseCheck, ReceiveProposal,
         InvalidateProposal, InvalidationCheck, DecideRecord, DecideEnqueue, DecideUnaddressed,
         ReleaseStore, Save

LEMMA SetsGrow ==
  ASSUME IInv, [Next]_vars, ~Crash
  PROVE  /\ decisions \subseteq decisions'
         /\ releases \subseteq releases'
         /\ queued \subseteq queued'
         /\ \A k \in DOMAIN invalidations :
              k \in DOMAIN invalidations' /\ invalidations'[k] = invalidations[k]
<1>1. decisions \subseteq decisions'
  BY DEF Next, HandlerStep, vars, store, DecideCheck, ReleaseCheck, ReceiveProposal,
         InvalidateProposal, InvalidationCheck, DecideRecord, DecideEnqueue,
         DecideUnaddressed, ReleaseStore, InvalidationStore, Save
<1>2. releases \subseteq releases'
  BY DEF Next, HandlerStep, vars, store, DecideCheck, ReleaseCheck, ReceiveProposal,
         InvalidateProposal, InvalidationCheck, DecideRecord, DecideEnqueue,
         DecideUnaddressed, ReleaseStore, StoredRelease, InvalidationStore, Save
<1>3. queued \subseteq queued'
  BY DEF Next, HandlerStep, vars, store, DecideCheck, ReleaseCheck, ReceiveProposal,
         InvalidateProposal, InvalidationCheck, DecideRecord, DecideEnqueue, Outgoing,
         DecideUnaddressed, ReleaseStore, InvalidationStore, Save
<1>4. \A k \in DOMAIN invalidations :
        k \in DOMAIN invalidations' /\ invalidations'[k] = invalidations[k]
  <2>1. CASE UNCHANGED invalidations
    BY <2>1
  <2>2. ASSUME NEW i \in Invalidation, invalidations' = Append(invalidations, i)
        PROVE  \A k \in DOMAIN invalidations :
                 k \in DOMAIN invalidations' /\ invalidations'[k] = invalidations[k]
    <3>1. invalidations \in Seq(Invalidation)
      BY MemoryTypes DEF IInv
    <3>2. /\ DOMAIN invalidations' = 1 .. Len(invalidations) + 1
          /\ DOMAIN invalidations = 1 .. Len(invalidations) /\ Len(invalidations) \in Nat
          /\ \A k \in DOMAIN invalidations : invalidations'[k] = invalidations[k]
      BY <2>2, <3>1, AppendFacts
    <3>3. QED
      BY <3>2
  <2>3. QED
    BY <2>1, <2>2, ListGrows DEF IInv
<1>5. QED
  BY <1>1, <1>2, <1>3, <1>4

LEMMA AppendedEntries ==
  ASSUME IInv, NEW i \in Invalidation, invalidations' = Append(invalidations, i),
         NEW k \in DOMAIN invalidations'
  PROVE  \/ k \in DOMAIN invalidations /\ invalidations'[k] = invalidations[k]
         \/ k = Len(invalidations) + 1 /\ invalidations'[k] = i
<1>1. invalidations \in Seq(Invalidation)
  BY MemoryTypes DEF IInv
<1>2. QED
  BY <1>1, AppendFacts

-----------------------------------------------------------------------------
(* The invariant is inductive *)

(* What an invalidation says of its proposal's notice. *)
Invalidates(i) ==
  /\ proposals[i.proposal] # None
  /\ notices[i.proposal].id = i.notice
  /\ \/ notices[i.proposal].state = "invalidated"
     \/ \E q \in notices[i.proposal].after : notices[q].id = i.notice

LEMMA BoundMemory ==
  BoundIn(Memory) <=>
    /\ \A p \in ProposalId : proposals[p] # None <=> notices[p] # None
    /\ \A d \in decisions : proposals[d.proposal] # None
    /\ queued \subseteq {d.id : d \in decisions}
    /\ \A r \in releases : proposals[r.proposal] # None
    /\ \A k \in DOMAIN invalidations : Invalidates(invalidations[k])
BY DEF BoundIn, Memory, Invalidates

LEMMA StaysInvalidated ==
  ASSUME IInv, [Next]_vars, ~Crash, NEW i \in Invalidation, Invalidates(i)
  PROVE  Invalidates(i)'
<1> DEFINE p == i.proposal
           n == i.notice
<1>1. p \in ProposalId
  BY DEF Invalidation
<1>2. /\ proposals[p] # None /\ notices[p] # None /\ notices[p] \in Notice
      /\ \A q \in notices[p].after : q \in ProposalId /\ notices[q] # None
  BY <1>1, MemoryTypes DEF IInv, RecordsAreBound, BoundIn, ListIn, Memory, Invalidates, Notice
<1>3. /\ proposals'[p] # None /\ notices'[p].id = notices[p].id
      /\ notices'[p].after = notices[p].after
      /\ notices[p].state = "invalidated" => notices'[p].state = "invalidated"
  BY <1>1, <1>2, NoticesGrow
<1>4. \A q \in notices[p].after : notices'[q].id = notices[q].id
  BY <1>2, NoticesGrow
<1>5. QED
  BY <1>3, <1>4 DEF Invalidates

LEMMA InvalidationMarks ==
  ASSUME IInv, [Next]_vars, ~Crash, NEW t \in Handler, NEW correlated \in BOOLEAN,
         InvalidationStore(t, correlated), NEW i \in Invalidation, i = op[t].invalidation
  PROVE  Invalidates(i)'
<1> DEFINE p == i.proposal
           n == i.notice
<1>1. p \in ProposalId
  BY DEF Invalidation
<1>2. proposals[p] # None /\ notices[p].id = n
  BY DEF IInv, CheckedIsBound, InvalidationStore
<1>3. /\ notices[p] # None /\ notices[p] \in Notice
      /\ \A q \in notices[p].after : q \in ProposalId /\ notices[q] # None
  BY <1>1, <1>2, MemoryTypes
     DEF IInv, RecordsAreBound, BoundIn, ListIn, Memory, Notice
<1>4. /\ proposals'[p] # None /\ notices'[p].id = n
      /\ notices'[p].after = notices[p].after
      /\ \A q \in notices[p].after : notices'[q].id = notices[q].id
  BY <1>1, <1>2, <1>3, NoticesGrow
<1>5. CASE p \in FirstOf(n)
  <2>1. notices'[p] = Marked(notices[p])
    BY <1>1, <1>5 DEF InvalidationStore
  <2>2. notices'[p].state = "invalidated"
    BY <1>3, <2>1, MarkedNotice
  <2>3. QED
    BY <1>4, <2>2 DEF Invalidates, InvalidationStore
<1>6. CASE p \notin FirstOf(n)
  <2>1. PICK q \in notices[p].after : notices[q].id = n
    BY <1>1, <1>2, <1>3, <1>6 DEF FirstOf
  <2>2. QED
    BY <1>4, <2>1 DEF Invalidates
<1>7. QED
  BY <1>5, <1>6

LEMMA BoundStep == IInv /\ [Next]_vars => RecordsAreBound'
<1> SUFFICES ASSUME IInv, [Next]_vars PROVE RecordsAreBound'
  OBVIOUS
<1>1. CASE Crash
  BY <1>1, CrashStep DEF IInv, RecordsAreBound, BoundIn
<1>2. CASE ~Crash
  <2> USE <1>2
  <2>1. \A p \in ProposalId :
          /\ proposals[p] # None => proposals'[p] # None
          /\ proposals'[p] # None <=> notices'[p] # None
    BY NodeAssumption, NoticesGrow, MemoryTypes DEF IInv
  <2>2. \A d \in decisions' : proposals'[d.proposal] # None
    <3>1. \A d \in decisions : d.proposal \in ProposalId /\ proposals[d.proposal] # None
      BY MemoryTypes, BoundMemory DEF IInv, RecordsAreBound, Decision
    <3>2. ASSUME NEW t \in Handler, NEW id \in DecisionId, NEW correlated \in BOOLEAN,
                 DecideRecord(t, id, correlated)
          PROVE  \A d \in decisions' \ decisions : proposals'[d.proposal] # None
      <4>1. op[t].proposal \in ProposalId /\ proposals[op[t].proposal] # None
        BY <3>2, OperationTypes DEF IInv, CheckedIsBound, DecideRecord
      <4>2. \A d \in decisions' \ decisions : d.proposal = op[t].proposal
        BY <3>2 DEF DecideRecord
      <4>3. QED
        BY <2>1, <4>1, <4>2
    <3>3. \/ decisions' = decisions
          \/ \E t \in Handler, id \in DecisionId, correlated \in BOOLEAN :
               DecideRecord(t, id, correlated)
      BY DEF Next, HandlerStep, vars, store, DecideCheck, ReleaseCheck, ReceiveProposal,
             InvalidateProposal, InvalidationCheck, DecideEnqueue, DecideUnaddressed,
             ReleaseStore, InvalidationStore, Save
    <3>4. QED
      BY <2>1, <3>1, <3>2, <3>3
  <2>3. queued' \subseteq {d.id : d \in decisions'}
    <3>1. queued \subseteq {d.id : d \in decisions} /\ decisions \subseteq decisions'
      BY BoundMemory, SetsGrow DEF IInv, RecordsAreBound
    <3>2. ASSUME NEW t \in Handler, DecideEnqueue(t)
          PROVE  queued' \subseteq {d.id : d \in decisions}
      BY <3>1, <3>2 DEF DecideEnqueue, Outgoing, IInv, CheckedIsBound
    <3>3. queued' = queued \/ \E t \in Handler : DecideEnqueue(t)
      BY DEF Next, HandlerStep, vars, store, DecideCheck, ReleaseCheck, ReceiveProposal,
             InvalidateProposal, InvalidationCheck, DecideRecord, DecideUnaddressed,
             ReleaseStore, InvalidationStore, Save
    <3>4. QED
      BY <3>1, <3>2, <3>3
  <2>4. \A r \in releases' : proposals'[r.proposal] # None
    <3>1. \A r \in releases : r.proposal \in ProposalId /\ proposals[r.proposal] # None
      BY MemoryTypes, BoundMemory DEF IInv, RecordsAreBound, Release
    <3>2. ASSUME NEW t \in Handler, ReleaseStore(t)
          PROVE  \A r \in releases' \ releases : proposals'[r.proposal] # None
      <4>1. op[t].release \in Release /\ proposals[op[t].release.proposal] # None
        BY <3>2, OperationTypes DEF IInv, CheckedIsBound, ReleaseStore
      <4>2. \A r \in releases' \ releases : r = op[t].release
        BY <3>2 DEF ReleaseStore, StoredRelease
      <4>3. QED
        BY <2>1, <4>1, <4>2 DEF Release
    <3>3. releases' = releases \/ \E t \in Handler : ReleaseStore(t)
      BY DEF Next, HandlerStep, vars, store, DecideCheck, ReleaseCheck, ReceiveProposal,
             InvalidateProposal, InvalidationCheck, DecideRecord, DecideEnqueue,
             DecideUnaddressed, InvalidationStore, Save
    <3>4. QED
      BY <2>1, <3>1, <3>2, <3>3
  <2>5. ASSUME NEW k \in DOMAIN invalidations', NEW i, i = invalidations'[k]
        PROVE  Invalidates(i)'
    <3>1. CASE UNCHANGED invalidations
      <4>1. i \in Invalidation /\ Invalidates(i)
        BY <2>5, <3>1, MemoryTypes, BoundMemory DEF IInv, RecordsAreBound
      <4>2. QED
        BY <4>1, StaysInvalidated
    <3>2. ASSUME NEW t \in Handler, NEW correlated \in BOOLEAN, InvalidationStore(t, correlated),
                 NEW j \in Invalidation, j = op[t].invalidation,
                 invalidations' = Append(invalidations, j)
          PROVE  Invalidates(i)'
      <4>1. \/ k \in DOMAIN invalidations /\ i = invalidations[k]
            \/ i = j
        BY <2>5, <3>2, AppendedEntries
      <4>2. CASE k \in DOMAIN invalidations /\ i = invalidations[k]
        <5>1. i \in Invalidation /\ Invalidates(i)
          BY <4>2, MemoryTypes, BoundMemory DEF IInv, RecordsAreBound
        <5>2. QED
          BY <5>1, StaysInvalidated
      <4>3. CASE i = j
        BY <3>2, <4>3, InvalidationMarks
      <4>4. QED
        BY <4>1, <4>2, <4>3
    <3>3. QED
      BY <3>1, <3>2, ListGrows DEF IInv
  <2>6. \A k \in DOMAIN invalidations' : Invalidates(invalidations[k])'
    BY <2>5
  <2>7. BoundIn(Memory)'
    BY <2>1, <2>2, <2>3, <2>4, <2>6 DEF BoundIn, Memory, Invalidates
  <2>8. BoundIn(disk)'
    BY <2>7, DiskStep DEF BoundIn, IInv, RecordsAreBound
  <2>9. QED
    BY <2>7, <2>8 DEF RecordsAreBound
<1>3. QED
  BY <1>1, <1>2

LEMMA ListStep == IInv /\ [Next]_vars => (ListIn(Memory) /\ ListIn(disk))'
<1> SUFFICES ASSUME IInv, [Next]_vars PROVE ListIn(Memory)' /\ ListIn(disk)'
  OBVIOUS
<1>1. CASE Crash
  BY <1>1, CrashStep DEF IInv, ListIn
<1>2. CASE ~Crash
  <2>1. ASSUME NEW p \in ProposalId, notices'[p] # None, NEW q \in notices'[p].after
        PROVE  notices'[q] # None
    <3>1. q \in ProposalId /\ notices[q] # None
      <4>1. CASE notices[p] # None
        <5>1. notices[p] \in Notice /\ q \in notices[p].after
          BY <1>2, <2>1, <4>1, NoticesGrow, MemoryTypes DEF IInv
        <5>2. QED
          BY <4>1, <5>1 DEF IInv, ListIn, Memory, Notice
      <4>2. CASE notices[p] = None
        <5>1. q \in Held
          BY <1>2, <2>1, <4>2, NoticesGrow
        <5>2. QED
          BY <5>1, BoundMemory DEF IInv, RecordsAreBound, Held
      <4>3. QED
        BY <4>1, <4>2
    <3>2. proposals[q] # None /\ proposals'[q] = proposals[q]
      BY <1>2, <3>1, NoticesGrow, BoundMemory DEF IInv, RecordsAreBound
    <3>3. QED
      BY <1>2, <3>1, <3>2, NoticesGrow
  <2>2. ListIn(Memory)'
    BY <2>1 DEF ListIn, Memory
  <2>3. QED
    BY <2>2, DiskStep DEF ListIn, IInv
<1>3. QED
  BY <1>1, <1>2

LEMMA OlderStep == IInv /\ [Next]_vars => DiskIsOlder'
<1> SUFFICES ASSUME IInv, [Next]_vars PROVE DiskIsOlder'
  OBVIOUS
<1>1. ASSUME disk' = Memory'
      PROVE  DiskIsOlder'
  <2>1. \A p \in ProposalId : proposals'[p] # None <=> notices'[p] # None
    BY BoundStep DEF RecordsAreBound, BoundIn, Memory
  <2>2. QED
    BY <1>1, <2>1 DEF DiskIsOlder, Memory
<1>2. CASE Crash
  BY <1>1, <1>2, CrashStep DEF IInv
<1>3. CASE disk' = disk /\ ~Crash
  <2>1. ASSUME NEW p \in ProposalId
        PROVE  /\ disk.proposals[p] # None => proposals'[p] = disk.proposals[p]
               /\ disk.notices[p] # None =>
                    /\ notices'[p] # None /\ notices'[p].id = disk.notices[p].id
                    /\ disk.notices[p].state = "invalidated" =>
                         notices'[p].state = "invalidated"
    <3>1. /\ disk.proposals[p] # None => proposals[p] = disk.proposals[p]
          /\ disk.notices[p] # None =>
               /\ notices[p] # None /\ notices[p].id = disk.notices[p].id
               /\ disk.notices[p].state = "invalidated" => notices[p].state = "invalidated"
      BY DEF IInv, DiskIsOlder
    <3>2. /\ proposals[p] # None <=> notices[p] # None
          /\ proposals[p] # None => proposals'[p] = proposals[p]
          /\ proposals'[p] # None <=> notices'[p] # None
          /\ notices[p] # None =>
               /\ notices'[p].id = notices[p].id
               /\ notices[p].state = "invalidated" => notices'[p].state = "invalidated"
      BY <1>3, NoticesGrow, BoundMemory DEF IInv, RecordsAreBound
    <3>3. QED
      BY <3>1, <3>2
  <2>2. /\ disk.decisions \subseteq decisions'
        /\ \A k \in DOMAIN disk.invalidations :
             k \in DOMAIN invalidations' /\ invalidations'[k] = disk.invalidations[k]
    BY <1>3, SetsGrow DEF IInv, DiskIsOlder
  <2>3. \/ releases' = releases /\ queued' = queued /\ destination' = destination
        \/ disk' = Memory'
    <3>1. ASSUME NEW t \in Handler, DecideEnqueue(t) \/ ReleaseStore(t)
          PROVE  disk' = Memory'
      BY <3>1 DEF DecideEnqueue, ReleaseStore, WrittenIf
    <3>2. QED
      BY <1>3, <3>1
         DEF Next, HandlerStep, vars, store, addresses, DecideCheck, ReleaseCheck,
             ReceiveProposal, InvalidateProposal, InvalidationCheck, DecideRecord,
             DecideUnaddressed, InvalidationStore, Save
  <2>4. CASE releases' = releases /\ queued' = queued /\ destination' = destination
    BY <1>3, <2>1, <2>2, <2>4 DEF DiskIsOlder, IInv
  <2>5. QED
    BY <1>1, <2>3, <2>4
<1>4. QED
  BY <1>1, <1>2, <1>3, DiskStep

LEMMA UniqueStep == IInv /\ [Next]_vars => ReleaseIdIsUnique'
<1> SUFFICES ASSUME IInv, [Next]_vars PROVE ReleaseIdIsUnique'
  OBVIOUS
<1>1. ReleaseIdIsUnique
  BY DEF IInv
<1>2. ASSUME NEW t \in Handler, ReleaseStore(t)
      PROVE  ReleaseIdIsUnique'
  BY <1>1, <1>2 DEF ReleaseStore, StoredRelease, ReleaseIdIsUnique
<1>3. CASE Crash
  BY <1>1, <1>3 DEF IInv, DiskIsOlder, Crash, ReleaseIdIsUnique
<1>4. releases' = releases \/ Crash \/ \E t \in Handler : ReleaseStore(t)
  BY DEF Next, HandlerStep, vars, store, DecideCheck, ReleaseCheck, ReceiveProposal,
         InvalidateProposal, InvalidationCheck, DecideRecord, DecideEnqueue,
         DecideUnaddressed, InvalidationStore, Save
<1>5. QED
  BY <1>1, <1>2, <1>3, <1>4 DEF ReleaseIdIsUnique

(* What one thread has checked, for the proof step by step. *)
Checked(t) ==
  /\ op[t].step = "decide" => proposals[op[t].proposal] # None
  /\ op[t].step = "enqueue" => \E d \in decisions : d.id = op[t].decision
  /\ op[t].step = "release" => proposals[op[t].release.proposal] # None
  /\ op[t].step = "invalidate" =>
       /\ proposals[op[t].invalidation.proposal] # None
       /\ notices[op[t].invalidation.proposal].id = op[t].invalidation.notice

(* A thread keeps what it is doing, starts on a request it has just        *)
(* checked, goes on to enqueue, or becomes idle. *)
Proceeds(u) ==
  \/ op'[u] = op[u]
  \/ op'[u] = Idle
  \/ \E p \in ProposalId :
       /\ op'[u] = [step |-> "decide", proposal |-> p]
       /\ Decidable(p) /\ UNCHANGED store /\ op[u] = Idle
  \/ \E r \in ReleaseInput :
       /\ op'[u] = [step |-> "release", release |-> r]
       /\ proposals[r.proposal] # None /\ UNCHANGED store
  \/ \E i \in InvalidationInput :
       /\ op'[u] = [step |-> "invalidate", invalidation |-> i]
       /\ Acceptable(i) /\ UNCHANGED store /\ op[u] = Idle
  \/ \E id \in DecisionId :
       /\ op'[u] = [step |-> "enqueue", decision |-> id]
       /\ \E d \in decisions' : d.id = id

LEMMA ThreadStep ==
  ASSUME IInv, [Next]_vars, NEW u \in Handler
  PROVE  Proceeds(u) /\ (op'[u] # op[u] /\ op'[u] # Idle => ~Crash)
<1>1. op \in [Handler -> {Idle} \cup Operation]
  BY DEF IInv, TypeOK
<1>2. ASSUME NEW t \in Handler, NEW x, op' = [op EXCEPT ![t] = x]
      PROVE  op'[u] = IF u = t THEN x ELSE op[u]
  BY <1>1, <1>2
<1>3. CASE UNCHANGED op
  BY <1>3 DEF Proceeds
<1>4. CASE Crash
  BY <1>4 DEF Crash, Proceeds
<1>5. ASSUME NEW t \in Handler,
             \/ DecideEnqueue(t) \/ DecideUnaddressed(t) \/ ReleaseStore(t)
             \/ \E correlated \in BOOLEAN : InvalidationStore(t, correlated)
      PROVE  Proceeds(u)
  <2>1. op' = [op EXCEPT ![t] = Idle]
    BY <1>5 DEF DecideEnqueue, DecideUnaddressed, ReleaseStore, InvalidationStore
  <2>2. QED
    BY <1>2, <2>1 DEF Proceeds
<1>6. ASSUME NEW t \in Handler, NEW id \in DecisionId, NEW correlated \in BOOLEAN,
             DecideRecord(t, id, correlated)
      PROVE  Proceeds(u)
  <2>1. \/ op' = [op EXCEPT ![t] = [step |-> "enqueue", decision |-> id]]
        \/ op' = [op EXCEPT ![t] = Idle]
    BY <1>6 DEF DecideRecord
  <2>2. \E d \in decisions' : d.id = id
    <3> DEFINE made == [id |-> id, proposal |-> op[t].proposal]
    <3>1. made \in decisions'
      BY <1>6 DEF DecideRecord
    <3>2. made.id = id
      OBVIOUS
    <3>3. QED
      BY <3>1, <3>2
  <2>3. QED
    BY <1>2, <2>1, <2>2 DEF Proceeds
<1>7. ASSUME NEW t \in Handler, NEW p \in ProposalId, DecideCheck(t, p)
      PROVE  Proceeds(u)
  <2>1. /\ op' = [op EXCEPT ![t] = [step |-> "decide", proposal |-> p]]
        /\ Decidable(p) /\ UNCHANGED store /\ op[t] = Idle
    BY <1>7 DEF DecideCheck
  <2>2. QED
    BY <1>2, <2>1 DEF Proceeds
<1>8. ASSUME NEW t \in Handler, NEW r \in ReleaseInput, ReleaseCheck(t, r)
      PROVE  Proceeds(u)
  <2>1. /\ op' = [op EXCEPT ![t] = [step |-> "release", release |-> r]]
        /\ proposals[r.proposal] # None /\ UNCHANGED store
    BY <1>8 DEF ReleaseCheck
  <2>2. QED
    BY <1>2, <2>1 DEF Proceeds
<1>9. ASSUME NEW t \in Handler, NEW i \in InvalidationInput, InvalidationCheck(t, i)
      PROVE  Proceeds(u)
  <2>1. /\ op' = [op EXCEPT ![t] = [step |-> "invalidate", invalidation |-> i]]
        /\ Acceptable(i) /\ UNCHANGED store /\ op[t] = Idle
    BY <1>9 DEF InvalidationCheck
  <2>2. QED
    BY <1>2, <2>1 DEF Proceeds
<1>10. Proceeds(u)
  BY <1>3, <1>4, <1>5, <1>6, <1>7, <1>8, <1>9
     DEF Next, HandlerStep, vars, ReceiveProposal, InvalidateProposal, Save
<1>11. op'[u] # Idle => ~Crash
  BY DEF Crash
<1>12. QED
  BY <1>10, <1>11

LEMMA CheckedStep == IInv /\ [Next]_vars => CheckedIsBound'
<1> SUFFICES ASSUME IInv, [Next]_vars, NEW u \in Handler PROVE Checked(u)'
  BY DEF CheckedIsBound, Checked
<1> USE NodeAssumption
<1>1. Checked(u) /\ TypeOK
  BY DEF IInv, CheckedIsBound, Checked
<1>2. CASE op'[u] = Idle
  BY <1>2 DEF Checked, Idle
<1>3. CASE op'[u] = op[u] /\ ~Crash
  <2>1. \A p \in ProposalId :
          /\ proposals[p] # None => proposals'[p] # None
          /\ proposals[p] # None => notices'[p].id = notices[p].id
    BY <1>3, NoticesGrow, BoundMemory DEF IInv, RecordsAreBound
  <2>2. /\ op[u].step = "decide" => op[u].proposal \in ProposalId
        /\ op[u].step = "release" => op[u].release.proposal \in ProposalId
        /\ op[u].step = "invalidate" => op[u].invalidation.proposal \in ProposalId
    BY <1>1, OperationTypes DEF Release, Invalidation
  <2>3. decisions \subseteq decisions'
    BY <1>3, SetsGrow
  <2>4. QED
    BY <1>1, <1>3, <2>1, <2>2, <2>3 DEF Checked
<1>4. CASE Crash
  BY <1>2, <1>4 DEF Crash
<1>5. ASSUME NEW p \in ProposalId, op'[u] = [step |-> "decide", proposal |-> p],
             Decidable(p), UNCHANGED store
      PROVE  Checked(u)'
  BY <1>5 DEF Checked, Decidable, store
<1>6. ASSUME NEW r \in ReleaseInput,
             op'[u] = [step |-> "release", release |-> r],
             proposals[r.proposal] # None, UNCHANGED store
      PROVE  Checked(u)'
  BY <1>6 DEF Checked, store
<1>7. ASSUME NEW i \in InvalidationInput,
             op'[u] = [step |-> "invalidate", invalidation |-> i],
             Acceptable(i), UNCHANGED store
      PROVE  Checked(u)'
  BY <1>7 DEF Checked, Acceptable, store
<1>8. ASSUME NEW id \in DecisionId,
             op'[u] = [step |-> "enqueue", decision |-> id],
             \E d \in decisions' : d.id = id
      PROVE  Checked(u)'
  BY <1>8 DEF Checked
<1>9. QED
  BY <1>2, <1>3, <1>4, <1>5, <1>6, <1>7, <1>8, ThreadStep DEF Proceeds

LEMMA InvStep == IInv /\ [Next]_vars => IInv'
BY TypeStep, BoundStep, ListStep, OlderStep, UniqueStep, CheckedStep DEF IInv

-----------------------------------------------------------------------------
(* Theorems about any number of request threads *)

THEOREM InductiveInvariant == Spec => []IInv
BY InitIInv, InvStep, PTL DEF Spec

(* The store in memory and on the file, and the threads, keep their types. *)
THEOREM TypeCorrect == Spec => []TypeOK
BY InductiveInvariant, PTL DEF IInv

(* Decisions, releases and invalidations are bound to what the node holds, *)
(* although they were checked against older copies of it; in memory and on *)
(* the file. *)
THEOREM Bound == Spec => []RecordsAreBound
BY InductiveInvariant, PTL DEF IInv

(* A release identifier stands for one release. *)
THEOREM UniqueReleases == Spec => []ReleaseIdIsUnique
BY InductiveInvariant, PTL DEF IInv

(* What the file has is never changed or dropped, not by a crash either.   *)
THEOREM Endurance == Spec => RecordsEndure
<1>1. IInv /\ IInv' /\ [Next]_vars =>
        [/\ \A p \in ProposalId :
              disk.proposals[p] # None => proposals'[p] = disk.proposals[p]
         /\ disk.decisions \subseteq decisions'
         /\ disk.releases \subseteq releases'
         /\ \A k \in DOMAIN disk.invalidations :
              /\ k \in DOMAIN invalidations'
              /\ invalidations'[k] = disk.invalidations[k]]_vars
  <2> SUFFICES ASSUME IInv, [Next]_vars
               PROVE  /\ \A p \in ProposalId :
                           disk.proposals[p] # None => proposals'[p] = disk.proposals[p]
                      /\ disk.decisions \subseteq decisions'
                      /\ disk.releases \subseteq releases'
                      /\ \A k \in DOMAIN disk.invalidations :
                           /\ k \in DOMAIN invalidations'
                           /\ invalidations'[k] = disk.invalidations[k]
    OBVIOUS
  <2>1. CASE Crash
    BY <2>1 DEF Crash
  <2>2. CASE ~Crash
    <3>1. \A p \in ProposalId :
            disk.proposals[p] # None => proposals'[p] = disk.proposals[p]
      BY <2>2, NoticesGrow DEF IInv, DiskIsOlder
    <3>2. /\ disk.decisions \subseteq decisions'
          /\ disk.releases \subseteq releases'
          /\ \A k \in DOMAIN disk.invalidations :
               /\ k \in DOMAIN invalidations'
               /\ invalidations'[k] = disk.invalidations[k]
      BY <2>2, SetsGrow DEF IInv, DiskIsOlder
    <3>3. QED
      BY <3>1, <3>2
  <2>3. QED
    BY <2>1, <2>2
<1>2. QED
  BY <1>1, InductiveInvariant, PTL DEF Spec, RecordsEndure

-----------------------------------------------------------------------------
(* Proposals no two requests overlapped on *)

(* Two threads busy with one proposal have been noticed. *)
Apart ==
  \A t, u \in Handler, p \in ProposalId :
    t # u /\ Concerns(op[t], p) /\ Concerns(op[u], p) => p \in overlapped

(* What a thread has checked is still so when it writes. *)
StillDecidable(t) ==
  op[t].step = "decide" /\ op[t].proposal \notin overlapped => Decidable(op[t].proposal)

StillAcceptable(t) ==
  op[t].step = "invalidate" /\ op[t].invalidation.proposal \notin overlapped =>
    /\ ~HasRelease(op[t].invalidation.proposal)
    /\ \A k \in DOMAIN invalidations :
         ~ /\ invalidations[k].id = op[t].invalidation.id
           /\ invalidations[k].proposal = op[t].invalidation.proposal

ApartInv ==
  /\ OneLocalDecision
  /\ InvalidationOnce
  /\ Apart
  /\ \A t \in Handler : StillDecidable(t) /\ StillAcceptable(t)

LEMMA OverlappedGrows ==
  ASSUME [Next]_vars
  PROVE  overlapped \subseteq overlapped'
BY DEF Next, HandlerStep, vars, DecideCheck, ReleaseCheck, ReceiveProposal,
       InvalidateProposal, InvalidationCheck, DecideRecord, DecideEnqueue, ReleaseStore,
       DecideUnaddressed, InvalidationStore, Save, Crash, Overlapping

(* A thread that becomes busy with a proposal looks at all the others.     *)
LEMMA BeginsBusy ==
  ASSUME IInv, [Next]_vars, NEW t \in Handler, NEW p \in ProposalId,
         Concerns(op'[t], p), op'[t] # op[t], NEW u \in Handler, u # t
  PROVE  op'[u] = op[u] /\ (Concerns(op[u], p) => p \in overlapped')
<1>1. op \in [Handler -> {Idle} \cup Operation]
  BY DEF IInv, TypeOK
<1>2. ASSUME NEW s \in Handler, NEW o, NEW q \in ProposalId,
             op' = [op EXCEPT ![s] = o], overlapped' = Overlapping(s, q),
             \A r \in ProposalId : Concerns(o, r) => r = q
      PROVE  op'[u] = op[u] /\ (Concerns(op[u], p) => p \in overlapped')
  <2>1. s = t /\ p = q /\ op'[u] = op[u]
    BY <1>1, <1>2
  <2>2. QED
    BY <1>2, <2>1 DEF Overlapping
<1>3. ASSUME NEW s \in Handler, NEW q \in ProposalId, DecideCheck(s, q)
      PROVE  op'[u] = op[u] /\ (Concerns(op[u], p) => p \in overlapped')
  BY <1>2, <1>3 DEF DecideCheck, Concerns
<1>4. ASSUME NEW s \in Handler, NEW r \in ReleaseInput, ReleaseCheck(s, r)
      PROVE  op'[u] = op[u] /\ (Concerns(op[u], p) => p \in overlapped')
  <2>1. r.proposal \in ProposalId
    BY NodeAssumption DEF Release
  <2>2. QED
    BY <1>2, <1>4, <2>1 DEF ReleaseCheck, Concerns
<1>5. ASSUME NEW s \in Handler, NEW i \in InvalidationInput, InvalidationCheck(s, i)
      PROVE  op'[u] = op[u] /\ (Concerns(op[u], p) => p \in overlapped')
  <2>1. i.proposal \in ProposalId
    BY NodeAssumption DEF Invalidation
  <2>2. QED
    BY <1>2, <1>5, <2>1 DEF InvalidationCheck, Concerns
<1>6. ASSUME NEW s \in Handler, NEW o, op' = [op EXCEPT ![s] = o], ~Concerns(o, p)
      PROVE  FALSE
  BY <1>1, <1>6
<1>7. \A id \in DecisionId : ~Concerns([step |-> "enqueue", decision |-> id], p)
  BY DEF Concerns
<1>8. ~Concerns(Idle, p)
  BY DEF Concerns, Idle
<1>9. ASSUME NEW s \in Handler, HandlerStep(s)
      PROVE  FALSE
  <2>1. \/ op' = [op EXCEPT ![s] = Idle]
        \/ op' = op
        \/ \E id \in DecisionId :
             op' = [op EXCEPT ![s] = [step |-> "enqueue", decision |-> id]]
    BY <1>9 DEF HandlerStep, DecideRecord, DecideEnqueue, DecideUnaddressed, ReleaseStore,
                InvalidationStore
  <2>2. QED
    BY <1>6, <1>7, <1>8, <2>1
<1>10. op' # op /\ ~Crash
  BY <1>8 DEF Crash
<1>11. QED
  BY <1>3, <1>4, <1>5, <1>9, <1>10 DEF Next, vars, ReceiveProposal, InvalidateProposal, Save

LEMMA ApartStep ==
  ASSUME IInv, Apart, [Next]_vars
  PROVE  Apart'
<1> SUFFICES ASSUME NEW t \in Handler, NEW u \in Handler, NEW p \in ProposalId, t # u,
                    Concerns(op'[t], p), Concerns(op'[u], p)
             PROVE  p \in overlapped'
  BY DEF Apart, Concerns
<1>1. CASE op'[t] = op[t] /\ op'[u] = op[u]
  BY <1>1, OverlappedGrows DEF Apart
<1>2. CASE op'[t] # op[t]
  BY <1>2, BeginsBusy
<1>3. CASE op'[u] # op[u]
  BY <1>3, BeginsBusy
<1>4. QED
  BY <1>1, <1>2, <1>3

(* Whoever writes about a proposal was busy with it and is no more. *)
LEMMA WriterWasBusy ==
  ASSUME IInv, [Next]_vars, ~Crash
  PROVE  /\ \A d \in decisions' \ decisions : \E t \in Handler :
              /\ op[t].step = "decide" /\ op[t].proposal = d.proposal
              /\ op'[t] # op[t] /\ d.proposal \in ProposalId
              /\ decisions' = decisions \cup {d}
         /\ \A r \in releases' \ releases : \E t \in Handler :
              /\ op[t].step = "release" /\ op[t].release.proposal = r.proposal
              /\ op'[t] # op[t] /\ r.proposal \in ProposalId
         /\ \/ UNCHANGED invalidations
            \/ \E t \in Handler :
                 /\ op[t].step = "invalidate" /\ op[t].invalidation \in Invalidation
                 /\ op'[t] # op[t]
                 /\ invalidations' = Append(invalidations, op[t].invalidation)
<1>1. op \in [Handler -> {Idle} \cup Operation]
  BY DEF IInv, TypeOK
<1>2. ASSUME NEW d \in decisions' \ decisions
      PROVE  \E t \in Handler :
               /\ op[t].step = "decide" /\ op[t].proposal = d.proposal
               /\ op'[t] # op[t] /\ d.proposal \in ProposalId
               /\ decisions' = decisions \cup {d}
  <2>1. PICK t \in Handler, id \in DecisionId, correlated \in BOOLEAN :
          DecideRecord(t, id, correlated)
    BY <1>2 DEF Next, HandlerStep, vars, store, DecideCheck, ReleaseCheck, ReceiveProposal,
           InvalidateProposal, InvalidationCheck, DecideEnqueue, DecideUnaddressed,
           ReleaseStore, InvalidationStore, Save
  <2>2. /\ op[t].step = "decide"
        /\ d = [id |-> id, proposal |-> op[t].proposal]
        /\ decisions' = decisions \cup {d}
        /\ op'[t].step \in {"enqueue", "idle"}
    BY <1>1, <1>2, <2>1 DEF DecideRecord, Idle
  <2>3. d.proposal = op[t].proposal /\ d.proposal \in ProposalId
    BY <2>2, OperationTypes DEF IInv
  <2>4. QED
    BY <2>2, <2>3
<1>3. ASSUME NEW r \in releases' \ releases
      PROVE  \E t \in Handler :
               /\ op[t].step = "release" /\ op[t].release.proposal = r.proposal
               /\ op'[t] # op[t] /\ r.proposal \in ProposalId
  <2>1. PICK t \in Handler : ReleaseStore(t)
    BY <1>3 DEF Next, HandlerStep, vars, store, DecideCheck, ReleaseCheck, ReceiveProposal,
           InvalidateProposal, InvalidationCheck, DecideRecord, DecideEnqueue,
           DecideUnaddressed, InvalidationStore, Save
  <2>2. op[t].step = "release" /\ r = op[t].release /\ op'[t].step = "idle"
    BY <1>1, <1>3, <2>1 DEF ReleaseStore, StoredRelease, Idle
  <2>3. r.proposal \in ProposalId
    BY <2>2, OperationTypes DEF IInv, Release
  <2>4. QED
    BY <2>2, <2>3
<1>4. ASSUME NEW t \in Handler, NEW correlated \in BOOLEAN, InvalidationStore(t, correlated)
      PROVE  op[t].step = "invalidate" /\ op'[t] # op[t]
  BY <1>1, <1>4 DEF InvalidationStore, Idle
<1>5. QED
  BY <1>2, <1>3, <1>4, ListGrows DEF IInv

(* While a thread is busy with a proposal nobody else writes about it.     *)
LEMMA NobodyElseWrites ==
  ASSUME IInv, Apart, [Next]_vars, ~Crash, NEW u \in Handler, NEW p \in ProposalId,
         Concerns(op[u], p), op'[u] = op[u], p \notin overlapped
  PROVE  /\ \A d \in decisions' \ decisions : d.proposal # p
         /\ \A r \in releases' \ releases : r.proposal # p
         /\ \/ UNCHANGED invalidations
            \/ \E i \in Invalidation : i.proposal # p /\ invalidations' = Append(invalidations, i)
<1>1. \A t \in Handler : op'[t] # op[t] => ~Concerns(op[t], p)
  BY DEF Apart
<1>2. \A d \in decisions' \ decisions : d.proposal # p
  BY <1>1, WriterWasBusy DEF Concerns
<1>3. \A r \in releases' \ releases : r.proposal # p
  BY <1>1, WriterWasBusy DEF Concerns
<1>4. ASSUME NEW t \in Handler, op[t].step = "invalidate", op'[t] # op[t],
             op[t].invalidation \in Invalidation,
             invalidations' = Append(invalidations, op[t].invalidation)
      PROVE  op[t].invalidation.proposal # p
  BY <1>1, <1>4 DEF Concerns
<1>5. QED
  BY <1>2, <1>3, <1>4, WriterWasBusy

LEMMA DecidableStep ==
  ASSUME IInv, ApartInv, [Next]_vars, NEW u \in Handler
  PROVE  StillDecidable(u)'
<1> SUFFICES ASSUME op'[u].step = "decide", op'[u].proposal \notin overlapped'
             PROVE  /\ proposals'[op'[u].proposal] # None
                    /\ \A d \in decisions' : d.proposal # op'[u].proposal
                    /\ \A k \in DOMAIN invalidations' :
                         invalidations'[k].proposal # op'[u].proposal
  BY DEF StillDecidable, Decidable, Invalidations
<1> DEFINE p == op'[u].proposal
<1>0. ~Crash
  BY DEF Crash, Idle
<1>1. p \notin overlapped
  BY OverlappedGrows
<1>2. CASE op'[u] = op[u]
  <2>1. p \in ProposalId /\ Decidable(p)
    BY <1>1, <1>2, OperationTypes DEF IInv, ApartInv, StillDecidable
  <2>2. Concerns(op[u], p)
    BY <1>2 DEF Concerns
  <2>3. proposals'[p] # None
    BY <1>0, <2>1, NoticesGrow DEF Decidable
  <2>4. \A d \in decisions' : d.proposal # p
    BY <1>0, <1>1, <1>2, <2>1, <2>2, NobodyElseWrites DEF ApartInv, Decidable
  <2>5. \A k \in DOMAIN invalidations' : invalidations'[k].proposal # p
    <3>1. \A k \in DOMAIN invalidations : invalidations[k].proposal # p
      BY <2>1 DEF Decidable, Invalidations
    <3>2. CASE UNCHANGED invalidations
      BY <3>1, <3>2
    <3>3. ASSUME NEW i \in Invalidation, i.proposal # p,
                 invalidations' = Append(invalidations, i)
          PROVE  \A k \in DOMAIN invalidations' : invalidations'[k].proposal # p
      BY <3>1, <3>3, AppendedEntries
    <3>4. QED
      BY <1>0, <1>1, <1>2, <2>1, <2>2, <3>2, <3>3, NobodyElseWrites DEF ApartInv
  <2>6. QED
    BY <2>3, <2>4, <2>5
<1>3. CASE Decidable(p) /\ UNCHANGED store
  BY <1>3 DEF Decidable, Invalidations, store
<1>4. ASSUME NEW q \in ProposalId, Decidable(q), UNCHANGED store,
             op'[u] = [step |-> "decide", proposal |-> q]
      PROVE  Decidable(p) /\ UNCHANGED store
  BY <1>4
<1>5. op'[u] = op[u] \/ (Decidable(p) /\ UNCHANGED store)
  <2>1. op'[u] # Idle
    BY DEF Idle
  <2>2. \A r \in ReleaseInput : op'[u] # [step |-> "release", release |-> r]
    OBVIOUS
  <2>3. \A id \in DecisionId : op'[u] # [step |-> "enqueue", decision |-> id]
    OBVIOUS
  <2>4. \A j \in InvalidationInput : op'[u] # [step |-> "invalidate", invalidation |-> j]
    OBVIOUS
  <2> HIDE DEF p
  <2>5. QED
    BY <1>4, <2>1, <2>2, <2>3, <2>4, ThreadStep, Zenon DEF Proceeds
<1>6. QED
  BY <1>2, <1>3, <1>5

LEMMA AcceptableStep ==
  ASSUME IInv, ApartInv, [Next]_vars, NEW u \in Handler
  PROVE  StillAcceptable(u)'
<1> SUFFICES ASSUME op'[u].step = "invalidate",
                    op'[u].invalidation.proposal \notin overlapped'
             PROVE  /\ \A r \in releases' : r.proposal # op'[u].invalidation.proposal
                    /\ \A k \in DOMAIN invalidations' :
                         ~ /\ invalidations'[k].id = op'[u].invalidation.id
                           /\ invalidations'[k].proposal = op'[u].invalidation.proposal
  BY DEF StillAcceptable, HasRelease
<1> DEFINE i == op'[u].invalidation
           p == i.proposal
<1>0. ~Crash
  BY DEF Crash, Idle
<1>1. p \notin overlapped
  BY OverlappedGrows
<1>2. CASE op'[u] = op[u]
  <2>1. p \in ProposalId
    BY <1>2, OperationTypes DEF IInv, Invalidation
  <2>2. Concerns(op[u], p)
    BY <1>2 DEF Concerns
  <2>3. /\ ~HasRelease(p)
        /\ \A k \in DOMAIN invalidations :
             ~(invalidations[k].id = i.id /\ invalidations[k].proposal = p)
    BY <1>1, <1>2 DEF ApartInv, StillAcceptable
  <2>4. \A r \in releases' : r.proposal # p
    BY <1>0, <1>1, <1>2, <2>1, <2>2, <2>3, NobodyElseWrites DEF ApartInv, HasRelease
  <2>5. \A k \in DOMAIN invalidations' :
          ~(invalidations'[k].id = i.id /\ invalidations'[k].proposal = p)
    <3>1. CASE UNCHANGED invalidations
      BY <2>3, <3>1
    <3>2. ASSUME NEW j \in Invalidation, j.proposal # p,
                 invalidations' = Append(invalidations, j)
          PROVE  \A k \in DOMAIN invalidations' :
                   ~(invalidations'[k].id = i.id /\ invalidations'[k].proposal = p)
      BY <2>3, <3>2, AppendedEntries
    <3>3. QED
      BY <1>0, <1>1, <1>2, <2>1, <2>2, <3>1, <3>2, NobodyElseWrites DEF ApartInv
  <2>6. QED
    BY <2>4, <2>5
<1>3. CASE Acceptable(i) /\ UNCHANGED store
  BY <1>3 DEF Acceptable, Invalidations, HasRelease, store
<1>4. ASSUME NEW j \in InvalidationInput, Acceptable(j), UNCHANGED store,
             op'[u] = [step |-> "invalidate", invalidation |-> j]
      PROVE  Acceptable(i) /\ UNCHANGED store
  BY <1>4
<1>5. op'[u] = op[u] \/ (Acceptable(i) /\ UNCHANGED store)
  <2>1. op'[u] # Idle
    BY DEF Idle
  <2>2. \A r \in ReleaseInput : op'[u] # [step |-> "release", release |-> r]
    OBVIOUS
  <2>3. \A id \in DecisionId : op'[u] # [step |-> "enqueue", decision |-> id]
    OBVIOUS
  <2>4. \A q \in ProposalId : op'[u] # [step |-> "decide", proposal |-> q]
    OBVIOUS
  <2> HIDE DEF i
  <2>5. QED
    BY <1>4, <2>1, <2>2, <2>3, <2>4, ThreadStep, Zenon DEF Proceeds
<1>6. QED
  BY <1>2, <1>3, <1>5

LEMMA DecisionStep ==
  ASSUME IInv, ApartInv, [Next]_vars
  PROVE  OneLocalDecision'
<1>1. overlapped \subseteq overlapped'
  BY OverlappedGrows
<1>2. CASE decisions' \ decisions = {}
  BY <1>1, <1>2 DEF ApartInv, OneLocalDecision
<1>3. CASE Crash
  BY <1>1, <1>3 DEF IInv, DiskIsOlder, Crash, ApartInv, OneLocalDecision
<1>4. ASSUME ~Crash, NEW d \in decisions' \ decisions
      PROVE  OneLocalDecision'
  <2>1. PICK t \in Handler : /\ op[t].step = "decide" /\ op[t].proposal = d.proposal
                             /\ decisions' = decisions \cup {d}
    BY <1>4, WriterWasBusy
  <2>2. d.proposal \notin overlapped => \A e \in decisions : e.proposal # d.proposal
    BY <2>1 DEF ApartInv, StillDecidable, Decidable
  <2>3. QED
    BY <1>1, <2>1, <2>2 DEF ApartInv, OneLocalDecision
<1>5. QED
  BY <1>2, <1>3, <1>4

LEMMA OnceStep ==
  ASSUME IInv, ApartInv, [Next]_vars
  PROVE  InvalidationOnce'
<1>1. overlapped \subseteq overlapped'
  BY OverlappedGrows
<1>2. CASE UNCHANGED invalidations
  BY <1>1, <1>2 DEF ApartInv, InvalidationOnce
<1>3. ASSUME NEW t \in Handler, op[t].step = "invalidate", op[t].invalidation \in Invalidation,
             invalidations' = Append(invalidations, op[t].invalidation)
      PROVE  InvalidationOnce'
  <2> DEFINE i == op[t].invalidation
  <2>1. i.proposal \notin overlapped =>
          \A k \in DOMAIN invalidations :
            ~(invalidations[k].id = i.id /\ invalidations[k].proposal = i.proposal)
    BY <1>3 DEF ApartInv, StillAcceptable
  <2>2. \A k \in DOMAIN invalidations' :
          \/ k \in DOMAIN invalidations /\ invalidations'[k] = invalidations[k]
          \/ k = Len(invalidations) + 1 /\ invalidations'[k] = i
    BY <1>3, AppendedEntries
  <2> HIDE DEF i
  <2>3. QED
    BY <1>1, <2>1, <2>2 DEF ApartInv, InvalidationOnce
<1>4. CASE Crash
  <2>1. \A k \in DOMAIN invalidations' :
          k \in DOMAIN invalidations /\ invalidations'[k] = invalidations[k]
    BY <1>4 DEF IInv, DiskIsOlder, Crash
  <2>2. QED
    BY <1>1, <2>1 DEF ApartInv, InvalidationOnce
<1>5. QED
  BY <1>2, <1>3, <1>4, WriterWasBusy

THEOREM ApartInvariant == Spec => []ApartInv
<1>1. Init => ApartInv
  BY NodeAssumption DEF Init, ApartInv, OneLocalDecision, InvalidationOnce, Apart, Concerns,
                        StillDecidable, StillAcceptable, Idle
<1>2. IInv /\ ApartInv /\ [Next]_vars => ApartInv'
  <2> SUFFICES ASSUME IInv, ApartInv, [Next]_vars PROVE ApartInv'
    OBVIOUS
  <2>1. OneLocalDecision' /\ InvalidationOnce'
    BY DecisionStep, OnceStep
  <2>2. Apart'
    BY ApartStep DEF ApartInv
  <2>3. \A t \in Handler : StillDecidable(t)' /\ StillAcceptable(t)'
    BY DecidableStep, AcceptableStep
  <2>4. QED
    BY <2>1, <2>2, <2>3 DEF ApartInv
<1>3. QED
  BY <1>1, <1>2, InductiveInvariant, PTL DEF Spec

(* The local principal decides a proposal once, unless two requests on it  *)
(* overlapped. *)
THEOREM ApartDecision == Spec => []OneLocalDecision
BY ApartInvariant, PTL DEF ApartInv

(* An invalidation takes effect once, unless two requests on its proposal  *)
(* overlapped. *)
THEOREM ApartInvalidation == Spec => []InvalidationOnce
BY ApartInvariant, PTL DEF ApartInv

(* No peer invalidates a released proposal, unless two requests on it      *)
(* overlapped. *)
THEOREM ApartRelease == Spec => ReleasedNotInvalidated
<1>1. IInv /\ ApartInv /\ [Next]_vars =>
        [Len(invalidations') > Len(invalidations) =>
           LET i == invalidations'[Len(invalidations')] IN
           i.proposal \in overlapped \/ ~ \E r \in releases : r.proposal = i.proposal]_vars
  <2> SUFFICES ASSUME IInv, ApartInv, [Next]_vars,
                      Len(invalidations') > Len(invalidations),
                      invalidations'[Len(invalidations')].proposal \notin overlapped
               PROVE  ~ \E r \in releases :
                          r.proposal = invalidations'[Len(invalidations')].proposal
    OBVIOUS
  <2>1. invalidations \in Seq(Invalidation)
    BY MemoryTypes DEF IInv
  <2>0. ~Crash
    <3>1. ASSUME Crash
          PROVE  FALSE
      <4>1. invalidations' = disk.invalidations /\ disk.invalidations \in Seq(Invalidation)
        BY <3>1, DiskTypes DEF Crash, IInv
      <4>2. /\ DOMAIN invalidations = 1 .. Len(invalidations) /\ Len(invalidations) \in Nat
            /\ DOMAIN invalidations' = 1 .. Len(invalidations') /\ Len(invalidations') \in Nat
        BY <2>1, <4>1
      <4>3. Len(invalidations') \in DOMAIN invalidations'
        BY <4>2
      <4>4. Len(invalidations') \in DOMAIN invalidations
        BY <4>1, <4>3 DEF IInv, DiskIsOlder
      <4>5. QED
        BY <4>2, <4>4
    <3>2. QED
      BY <3>1
  <2>2. PICK t \in Handler : /\ op[t].step = "invalidate"
                             /\ op[t].invalidation \in Invalidation
                             /\ invalidations' = Append(invalidations, op[t].invalidation)
    BY <2>0, <2>1, WriterWasBusy
  <2>3. invalidations'[Len(invalidations')] = op[t].invalidation
    BY <2>1, <2>2, AppendFacts
  <2>4. QED
    BY <2>2, <2>3 DEF ApartInv, StillAcceptable, HasRelease
<1>2. QED
  BY <1>1, ApartInvariant, InductiveInvariant, PTL DEF Spec, ReleasedNotInvalidated

(* No decision follows a peer's invalidation, unless two requests on the   *)
(* proposal overlapped. *)
THEOREM ApartFinality == Spec => NoDecisionAfterInvalidation
<1>1. IInv /\ ApartInv /\ [Next]_vars =>
        [\A d \in decisions' \ decisions : \A k \in DOMAIN invalidations :
           invalidations[k].proposal = d.proposal => d.proposal \in overlapped]_vars
  <2> SUFFICES ASSUME IInv, ApartInv, [Next]_vars, NEW d \in decisions' \ decisions,
                      NEW k \in DOMAIN invalidations, d.proposal \notin overlapped
               PROVE  invalidations[k].proposal # d.proposal
    OBVIOUS
  <2>0. ~Crash
    BY DEF Crash, IInv, DiskIsOlder
  <2>1. PICK t \in Handler : op[t].step = "decide" /\ op[t].proposal = d.proposal
    BY <2>0, WriterWasBusy
  <2>2. Decidable(d.proposal)
    BY <2>1 DEF ApartInv, StillDecidable
  <2>3. QED
    BY <2>2 DEF Decidable, Invalidations
<1>2. QED
  BY <1>1, ApartInvariant, InductiveInvariant, PTL DEF Spec, NoDecisionAfterInvalidation

(* The notice of a released proposal stays as it is, unless two requests on*)
(* it overlapped or another notice has its identifier. *)
THEOREM ReleaseStands == Spec => ReleasedStaysUnmarked
<1>1. IInv /\ ApartInv /\ [Next]_vars =>
        [\A p \in ProposalId :
           /\ HasRelease(p)
           /\ notices[p].state # "invalidated" /\ notices'[p].state = "invalidated"
           => \/ p \in overlapped
              \/ \E q \in ProposalId \ {p} :
                   notices[q] # None /\ notices[q].id = notices[p].id]_vars
  <2> SUFFICES ASSUME IInv, ApartInv, [Next]_vars, NEW p \in ProposalId, HasRelease(p),
                      notices[p].state # "invalidated", notices'[p].state = "invalidated",
                      p \notin overlapped
               PROVE  \E q \in ProposalId \ {p} :
                        notices[q] # None /\ notices[q].id = notices[p].id
    OBVIOUS
  <2>1. /\ \A r \in releases : proposals[r.proposal] # None
        /\ \A r \in disk.releases : disk.proposals[r.proposal] # None
        /\ \A q \in ProposalId : proposals[q] # None <=> notices[q] # None
        /\ \A q \in ProposalId : disk.proposals[q] # None <=> disk.notices[q] # None
    BY BoundMemory DEF IInv, RecordsAreBound, BoundIn
  <2>2. ~Crash
    BY <2>1 DEF HasRelease, IInv, DiskIsOlder, Crash
  <2>3. proposals[p] # None /\ notices \in [ProposalId -> {None} \cup Notice]
    BY <2>1, MemoryTypes DEF HasRelease, IInv
  <2>4. ASSUME NEW d \in ProposalInput, ReceiveProposal(d)
        PROVE  notices'[p] = notices[p]
    BY <2>3, <2>4 DEF ReceiveProposal, StoresProposal
  <2>5. ASSUME NEW q \in ProposalId, NEW correlated \in BOOLEAN,
               InvalidateProposal(q, correlated)
        PROVE  notices'[p] = notices[p]
    BY <2>3, <2>5 DEF InvalidateProposal, Invalidatable
  <2>6. PICK t \in Handler, correlated \in BOOLEAN : InvalidationStore(t, correlated)
    BY <2>2, <2>4, <2>5
       DEF Next, HandlerStep, vars, store, DecideCheck, ReleaseCheck, InvalidationCheck,
           DecideRecord, DecideEnqueue, DecideUnaddressed, ReleaseStore, Save
  <2>7. PICK i \in Invalidation : i = op[t].invalidation
    BY <2>6, OperationTypes DEF InvalidationStore, IInv
  <2>8. i.proposal \in ProposalId /\ notices[i.proposal].id = i.notice
        /\ proposals[i.proposal] # None
    BY <2>6, <2>7 DEF IInv, CheckedIsBound, InvalidationStore, Invalidation
  <2>9. p \in FirstOf(i.notice)
    BY <2>6, <2>7 DEF InvalidationStore
  <2>10. notices[p].id = i.notice
    BY <2>9 DEF FirstOf
  <2>11. i.proposal # p
    BY <2>6, <2>7 DEF ApartInv, StillAcceptable, InvalidationStore
  <2>12. QED
    BY <2>1, <2>8, <2>10, <2>11
<1>2. QED
  BY <1>1, ApartInvariant, InductiveInvariant, PTL DEF Spec, ReleasedStaysUnmarked

-----------------------------------------------------------------------------
(* The coordinator of a decision *)

(* The field is the coordinator of every proposal that brought one and that*)
(* none of another coordinator followed; it is empty only if none did.     *)
AddressedIn(s) ==
  /\ \A p \in ProposalId :
       s.proposals[p] # None /\ p \notin overtaken /\ origin[p] # None =>
         origin[p] = s.coordinator
  /\ s.coordinator = None => \A p \in ProposalId : s.proposals[p] # None => origin[p] = None

(* So is the copy a thread decides with. *)
CopyServes(t, p) ==
  /\ p \notin overtaken /\ origin[p] # None => snapshot[t] = origin[p]
  /\ snapshot[t] = None => origin[p] = None

AddressInv ==
  /\ DecisionFindsCoordinator
  /\ AddressedIn(Memory) /\ AddressedIn(disk)
  /\ \A t \in Handler :
       /\ op[t].step = "decide" => CopyServes(t, op[t].proposal)
       /\ op[t].step = "enqueue" =>
            \A d \in decisions : d.id = op[t].decision => CopyServes(t, d.proposal)

LEMMA AddressedMemory ==
  AddressedIn(Memory) <=>
    /\ \A p \in ProposalId :
         proposals[p] # None /\ p \notin overtaken /\ origin[p] # None =>
           origin[p] = coordinatorEndpoint
    /\ coordinatorEndpoint = None =>
         \A p \in ProposalId : proposals[p] # None => origin[p] = None
BY DEF AddressedIn, Memory

LEMMA ReceiveAddress ==
  ASSUME IInv, AddressInv, [Next]_vars, NEW e \in ProposalInput, ReceiveProposal(e)
  PROVE  AddressInv'
<1>1. /\ e.proposal \in ProposalId /\ proposals[e.proposal] = None
      /\ proposals \in [ProposalId -> {None} \cup Body]
      /\ origin \in [ProposalId -> {None} \cup Endpoint]
  BY NodeAssumption, MemoryTypes DEF Delivery, IInv, TypeOK, ReceiveProposal, StoresProposal
<1>2. /\ \A p \in ProposalId : proposals[p] # None =>
           /\ origin'[p] = origin[p] /\ p # e.proposal
           /\ p \in overtaken' \/ e.coordinator = None \/ origin[p] = e.coordinator
           /\ p \in overtaken => p \in overtaken'
      /\ coordinatorEndpoint' =
           IF e.coordinator = None THEN coordinatorEndpoint ELSE e.coordinator
      /\ origin'[e.proposal] = e.coordinator
      /\ \A p \in ProposalId \ {e.proposal} : proposals'[p] = proposals[p]
      /\ UNCHANGED <<decisions, queued, op, destination, snapshot>>
  BY <1>1 DEF ReceiveProposal, Coordinator, Held
<1>3. /\ \A d \in decisions : d.proposal \in ProposalId /\ proposals[d.proposal] # None
      /\ \A t \in Handler : op[t].step = "decide" =>
           op[t].proposal \in ProposalId /\ proposals[op[t].proposal] # None
  BY OperationTypes, MemoryTypes, BoundMemory
     DEF IInv, RecordsAreBound, CheckedIsBound, Decision
<1>4. AddressedIn(Memory)'
  <2>1. ASSUME NEW p \in ProposalId, proposals'[p] # None
        PROVE  /\ p \notin overtaken' /\ origin'[p] # None => origin'[p] = coordinatorEndpoint'
               /\ coordinatorEndpoint' = None => origin'[p] = None
    <3>1. CASE p = e.proposal
      BY <1>2, <3>1
    <3>2. CASE p # e.proposal
      <4>1. proposals[p] # None
        BY <1>2, <2>1, <3>2
      <4>2. /\ p \notin overtaken /\ origin[p] # None => origin[p] = coordinatorEndpoint
            /\ coordinatorEndpoint = None => origin[p] = None
        BY <4>1, AddressedMemory DEF AddressInv
      <4>3. QED
        BY <1>2, <4>1, <4>2
    <3>3. QED
      BY <3>1, <3>2
  <2>2. QED
    BY <2>1 DEF AddressedIn, Memory
<1>5. CASE disk' = disk
  <2>1. \A p \in ProposalId : disk.proposals[p] # None => proposals[p] # None
    BY DEF IInv, DiskIsOlder
  <2>2. AddressedIn(disk)'
    BY <1>2, <1>5, <2>1 DEF AddressedIn, AddressInv
  <2>3. DecisionFindsCoordinator'
    BY <1>2, <1>3 DEF AddressInv, DecisionFindsCoordinator
  <2>4. QED
    BY <1>2, <1>3, <1>4, <2>2, <2>3 DEF AddressInv, CopyServes
<1>6. CASE disk' = Memory'
  <2>1. AddressedIn(disk)'
    BY <1>4, <1>6 DEF AddressedIn
  <2>2. DecisionFindsCoordinator'
    BY <1>2, <1>3 DEF AddressInv, DecisionFindsCoordinator
  <2>3. QED
    BY <1>2, <1>3, <1>4, <2>1, <2>2 DEF AddressInv, CopyServes
<1>7. QED
  BY <1>5, <1>6, DiskStep

(* Steps that bring no proposal leave what is said of memory and file. *)
LEMMA StillAddressed ==
  ASSUME AddressInv, [Next]_vars,
         UNCHANGED <<proposals, coordinatorEndpoint, origin, overtaken>>
  PROVE  (AddressedIn(Memory) /\ AddressedIn(disk))'
<1>1. AddressedIn(Memory)'
  BY AddressedMemory DEF AddressInv, AddressedIn, Memory
<1>2. QED
  BY <1>1, DiskStep DEF AddressedIn, AddressInv

LEMMA DecideAddress ==
  ASSUME IInv, AddressInv, [Next]_vars, NEW u \in Handler, NEW q \in ProposalId,
         DecideCheck(u, q)
  PROVE  AddressInv'
<1>1. /\ op \in [Handler -> {Idle} \cup Operation]
      /\ snapshot \in [Handler -> {None} \cup Endpoint]
  BY DEF IInv, TypeOK
<1>2. /\ op'[u].step = "decide" /\ op'[u].proposal = q /\ snapshot'[u] = coordinatorEndpoint
      /\ \A t \in Handler \ {u} : op'[t] = op[t] /\ snapshot'[t] = snapshot[t]
      /\ proposals[q] # None
      /\ UNCHANGED <<proposals, decisions, queued, coordinatorEndpoint, destination, origin,
                     overtaken>>
  BY <1>1 DEF DecideCheck, Decidable, store
<1>3. (AddressedIn(Memory) /\ AddressedIn(disk))'
  BY <1>2, StillAddressed
<1>4. CopyServes(u, q)'
  BY <1>2, AddressedMemory DEF AddressInv, CopyServes
<1>5. ASSUME NEW t \in Handler
      PROVE  /\ op'[t].step = "decide" => CopyServes(t, op[t].proposal)'
             /\ op'[t].step = "enqueue" =>
                  \A d \in decisions' : d.id = op'[t].decision => CopyServes(t, d.proposal)'
  BY <1>2, <1>4 DEF AddressInv, CopyServes
<1>6. QED
  BY <1>2, <1>3, <1>5 DEF AddressInv, DecisionFindsCoordinator

LEMMA RecordAddress ==
  ASSUME IInv, AddressInv, [Next]_vars, NEW u \in Handler, NEW id \in DecisionId,
         NEW correlated \in BOOLEAN, DecideRecord(u, id, correlated)
  PROVE  AddressInv'
<1>1. /\ op \in [Handler -> {Idle} \cup Operation]
      /\ snapshot \in [Handler -> {None} \cup Endpoint]
  BY DEF IInv, TypeOK
<1> DEFINE new == [id |-> id, proposal |-> op[u].proposal]
<1>2. /\ op[u].step = "decide" /\ decisions' = decisions \cup {new}
      /\ \/ op'[u].step = "idle"
         \/ op'[u].step = "enqueue" /\ op'[u].decision = id /\ snapshot'[u] = snapshot[u]
      /\ \A t \in Handler \ {u} : op'[t] = op[t] /\ snapshot'[t] = snapshot[t]
      /\ \A d \in decisions : d.id # id
      /\ UNCHANGED <<proposals, queued, coordinatorEndpoint, destination, origin, overtaken>>
  BY <1>1 DEF DecideRecord, FreshDecision, Idle
<1>3. /\ id \notin queued
      /\ \A t \in Handler : op[t].step = "enqueue" => op[t].decision # id
  BY <1>2, BoundMemory DEF IInv, RecordsAreBound, CheckedIsBound
<1>4. new.id = id /\ new.proposal = op[u].proposal
  OBVIOUS
<1> HIDE DEF new
<1>5. DecisionFindsCoordinator'
  BY <1>2, <1>3, <1>4 DEF AddressInv, DecisionFindsCoordinator
<1>6. (AddressedIn(Memory) /\ AddressedIn(disk))'
  BY <1>2, StillAddressed
<1>7. ASSUME NEW t \in Handler
      PROVE  /\ op'[t].step = "decide" => CopyServes(t, op[t].proposal)'
             /\ op'[t].step = "enqueue" =>
                  \A d \in decisions' : d.id = op'[t].decision => CopyServes(t, d.proposal)'
  <2>1. CASE t = u
    BY <1>2, <1>4, <2>1 DEF AddressInv, CopyServes
  <2>2. CASE t # u
    BY <1>2, <1>3, <1>4, <2>2 DEF AddressInv, CopyServes
  <2>3. QED
    BY <2>1, <2>2
<1>8. QED
  BY <1>5, <1>6, <1>7 DEF AddressInv

LEMMA EnqueueAddress ==
  ASSUME IInv, AddressInv, [Next]_vars, NEW u \in Handler, DecideEnqueue(u)
  PROVE  AddressInv'
<1>1. /\ op \in [Handler -> {Idle} \cup Operation]
      /\ snapshot \in [Handler -> {None} \cup Endpoint]
      /\ destination \in [DecisionId -> {None} \cup Endpoint]
      /\ op[u].decision \in DecisionId
      /\ \A d \in decisions : d.id \in DecisionId
  BY OperationTypes, MemoryTypes DEF IInv, TypeOK, DecideEnqueue, Decision
<1>2. /\ op[u].step = "enqueue" /\ op'[u].step = "idle"
      /\ queued' = queued \cup {op[u].decision}
      /\ destination'[op[u].decision] = snapshot[u]
      /\ \A id \in DecisionId \ {op[u].decision} : destination'[id] = destination[id]
      /\ \A t \in Handler \ {u} : op'[t] = op[t] /\ snapshot'[t] = snapshot[t]
      /\ UNCHANGED <<proposals, decisions, coordinatorEndpoint, origin, overtaken>>
  BY <1>1 DEF DecideEnqueue, Outgoing, Idle
<1>3. (AddressedIn(Memory) /\ AddressedIn(disk))'
  BY <1>2, StillAddressed
<1>4. DecisionFindsCoordinator'
  BY <1>1, <1>2 DEF AddressInv, DecisionFindsCoordinator, CopyServes
<1>5. ASSUME NEW t \in Handler
      PROVE  /\ op'[t].step = "decide" => CopyServes(t, op[t].proposal)'
             /\ op'[t].step = "enqueue" =>
                  \A d \in decisions' : d.id = op'[t].decision => CopyServes(t, d.proposal)'
  BY <1>2 DEF AddressInv, CopyServes
<1>6. QED
  BY <1>3, <1>4, <1>5 DEF AddressInv

(* Steps that touch neither addresses nor decisions. *)
LEMMA OtherAddress ==
  ASSUME AddressInv, [Next]_vars,
         UNCHANGED <<proposals, decisions, queued, coordinatorEndpoint,
                     destination, origin, overtaken>>,
         \A t \in Handler :
           \/ op'[t] = op[t] /\ snapshot'[t] = snapshot[t]
           \/ op'[t].step \notin {"decide", "enqueue"}
  PROVE  AddressInv'
<1>1. (AddressedIn(Memory) /\ AddressedIn(disk))'
  BY StillAddressed
<1>2. QED
  BY <1>1 DEF AddressInv, DecisionFindsCoordinator, CopyServes

LEMMA CrashAddress ==
  ASSUME IInv, AddressInv, Crash
  PROVE  AddressInv'
<1>1. Memory' = disk /\ disk' = disk
  BY CrashStep DEF IInv
<1>2. /\ decisions' \subseteq decisions /\ queued' = queued /\ destination' = destination
      /\ UNCHANGED <<origin, overtaken>>
      /\ \A t \in Handler : op'[t].step = "idle"
  BY DEF IInv, DiskIsOlder, Crash, Idle
<1>3. (AddressedIn(Memory) /\ AddressedIn(disk))'
  BY <1>1, <1>2 DEF AddressInv, AddressedIn
<1>4. DecisionFindsCoordinator'
  BY <1>2 DEF AddressInv, DecisionFindsCoordinator
<1>5. QED
  BY <1>2, <1>3, <1>4 DEF AddressInv

LEMMA AddressStep ==
  ASSUME IInv, AddressInv, [Next]_vars
  PROVE  AddressInv'
<1>1. op \in [Handler -> {Idle} \cup Operation]
  BY DEF IInv, TypeOK
<1>2. ASSUME NEW p \in ProposalId, NEW correlated \in BOOLEAN, InvalidateProposal(p, correlated)
      PROVE  AddressInv'
  BY <1>2, OtherAddress DEF InvalidateProposal, addresses
<1>3. ASSUME NEW t \in Handler, NEW r \in ReleaseInput, ReleaseCheck(t, r)
      PROVE  AddressInv'
  BY <1>1, <1>3, OtherAddress DEF ReleaseCheck, store, addresses
<1>4. ASSUME NEW t \in Handler, NEW i \in InvalidationInput, InvalidationCheck(t, i)
      PROVE  AddressInv'
  BY <1>1, <1>4, OtherAddress DEF InvalidationCheck, store, addresses
<1>5. ASSUME NEW t \in Handler,
             \/ ReleaseStore(t) \/ DecideUnaddressed(t)
             \/ \E correlated \in BOOLEAN : InvalidationStore(t, correlated)
      PROVE  AddressInv'
  <2>1. /\ UNCHANGED <<proposals, decisions, queued, coordinatorEndpoint, destination, origin,
                       overtaken, snapshot>>
        /\ op' = [op EXCEPT ![t] = Idle]
    BY <1>5 DEF ReleaseStore, DecideUnaddressed, InvalidationStore, store, addresses
  <2>2. QED
    BY <1>1, <2>1, OtherAddress DEF Idle
<1>6. CASE Save \/ UNCHANGED vars
  BY <1>6, OtherAddress DEF Save, vars, store, addresses
<1>7. QED
  BY <1>2, <1>3, <1>4, <1>5, <1>6, ReceiveAddress, DecideAddress, RecordAddress,
     EnqueueAddress, CrashAddress DEF Next, HandlerStep

THEOREM AddressInvariant == Spec => []AddressInv
<1>1. Init => AddressInv
  BY NodeAssumption
     DEF Init, AddressInv, DecisionFindsCoordinator, AddressedIn, Memory, Idle
<1>2. IInv /\ AddressInv /\ [Next]_vars => AddressInv'
  BY AddressStep
<1>3. QED
  BY <1>1, <1>2, InductiveInvariant, PTL DEF Spec

(* A decision goes to the coordinator its proposal came from, unless a     *)
(* proposal of another coordinator came after it or its own came without   *)
(* an endpoint. *)
THEOREM Addressed == Spec => []DecisionFindsCoordinator
BY AddressInvariant, PTL DEF AddressInv

-----------------------------------------------------------------------------
(* What becomes of a recorded decision *)

InHand(d) ==
  \/ d.id \in queued
  \/ \E t \in Handler : op[t].step = "enqueue" /\ op[t].decision = d.id
  \/ d.id \in uncorrelated
  \/ origin[d.proposal] = None

LEMMA QueueStep ==
  ASSUME IInv, AddressInv, RecordedIsQueued, [Next]_vars, crashes' = 0
  PROVE  \A d \in decisions' : InHand(d)'
<1>1. /\ op \in [Handler -> {Idle} \cup Operation]
      /\ origin \in [ProposalId -> {None} \cup Endpoint]
      /\ decisions \in SUBSET Decision
      /\ crashes \in 0 .. MaxCrashes
  BY MemoryTypes DEF IInv, TypeOK
<1>2. ~Crash
  BY <1>1, NodeAssumption DEF Crash
<1>3. crashes = 0
  BY <1>2
     DEF Next, HandlerStep, vars, DecideCheck, ReleaseCheck, ReceiveProposal,
         InvalidateProposal, InvalidationCheck, DecideRecord, DecideEnqueue,
         DecideUnaddressed, ReleaseStore, InvalidationStore, Save
<1>4. \A d \in decisions : InHand(d) /\ d.proposal \in ProposalId
  BY <1>1, <1>3 DEF RecordedIsQueued, InHand, Decision
<1>5. ASSUME UNCHANGED <<decisions, queued, uncorrelated, origin>>,
             \A t \in Handler : op[t].step = "enqueue" => op'[t] = op[t]
      PROVE  \A d \in decisions' : InHand(d)'
  BY <1>4, <1>5 DEF InHand
<1>6. ASSUME NEW e \in ProposalInput, ReceiveProposal(e)
      PROVE  \A d \in decisions' : InHand(d)'
  <2>1. \A d \in decisions : d.proposal # e.proposal
    BY <1>6, BoundMemory DEF ReceiveProposal, StoresProposal, IInv, RecordsAreBound
  <2>2. UNCHANGED <<decisions, queued, uncorrelated, op>>
    BY <1>6 DEF ReceiveProposal
  <2>3. \A d \in decisions : origin'[d.proposal] = origin[d.proposal]
    BY <1>1, <1>4, <1>6, <2>1 DEF ReceiveProposal
  <2>4. QED
    BY <1>4, <2>2, <2>3 DEF InHand
<1>7. ASSUME NEW t \in Handler, NEW id \in DecisionId, NEW correlated \in BOOLEAN,
             DecideRecord(t, id, correlated)
      PROVE  \A d \in decisions' : InHand(d)'
  <2>1. /\ op[t].step = "decide"
        /\ \/ op'[t].step = "enqueue" /\ op'[t].decision = id
           \/ id \in uncorrelated'
        /\ \A u \in Handler : op[u].step = "enqueue" => op'[u] = op[u]
    BY <1>1, <1>7 DEF DecideRecord
  <2>2. /\ \A d \in decisions' : d \in decisions \/ d.id = id
        /\ uncorrelated \subseteq uncorrelated'
        /\ UNCHANGED <<queued, origin>>
    BY <1>7 DEF DecideRecord
  <2>3. QED
    BY <1>4, <2>1, <2>2 DEF InHand
<1>8. ASSUME NEW t \in Handler, DecideEnqueue(t)
      PROVE  \A d \in decisions' : InHand(d)'
  <2>1. /\ queued' = queued \cup {op[t].decision}
        /\ UNCHANGED <<decisions, uncorrelated, origin>>
        /\ \A u \in Handler : u # t => op'[u] = op[u]
    BY <1>1, <1>8 DEF DecideEnqueue, Outgoing
  <2>2. QED
    BY <1>4, <2>1 DEF InHand
<1>9. ASSUME NEW t \in Handler, DecideUnaddressed(t)
      PROVE  \A d \in decisions' : InHand(d)'
  <2>1. /\ op[t].step = "enqueue" /\ snapshot[t] = None
        /\ UNCHANGED <<decisions, queued, uncorrelated, origin>>
        /\ \A u \in Handler : u # t => op'[u] = op[u]
    BY <1>1, <1>9 DEF DecideUnaddressed, store, addresses
  <2>2. \A d \in decisions : d.id = op[t].decision => origin[d.proposal] = None
    BY <2>1 DEF AddressInv, CopyServes
  <2>3. QED
    BY <1>4, <2>1, <2>2 DEF InHand
<1>10. ASSUME NEW t \in Handler,
              \/ ReleaseStore(t)
              \/ \E correlated \in BOOLEAN : InvalidationStore(t, correlated)
       PROVE  \A d \in decisions' : InHand(d)'
  <2>1. /\ op[t].step # "enqueue" /\ op' = [op EXCEPT ![t] = Idle]
        /\ UNCHANGED <<decisions, queued, uncorrelated, origin>>
    BY <1>10 DEF ReleaseStore, InvalidationStore, addresses
  <2>2. QED
    BY <1>1, <1>5, <2>1
<1>11. ASSUME NEW t \in Handler,
              \/ \E p \in ProposalId : DecideCheck(t, p)
              \/ \E r \in ReleaseInput : ReleaseCheck(t, r)
              \/ \E i \in InvalidationInput : InvalidationCheck(t, i)
       PROVE  \A d \in decisions' : InHand(d)'
  <2>1. /\ op[t].step # "enqueue" /\ \E x : op' = [op EXCEPT ![t] = x]
        /\ UNCHANGED <<decisions, queued, uncorrelated, origin>>
    BY <1>11 DEF DecideCheck, ReleaseCheck, InvalidationCheck, store, addresses, Idle
  <2>2. QED
    BY <1>1, <1>5, <2>1
<1>12. CASE UNCHANGED <<decisions, queued, uncorrelated, origin, op>>
  BY <1>5, <1>12
<1>13. QED
  BY <1>2, <1>6, <1>7, <1>8, <1>9, <1>10, <1>11, <1>12
     DEF Next, HandlerStep, vars, store, addresses, InvalidateProposal, Save

(* Without a crash every recorded decision is queued or about to be, unless*)
(* its request had no correlationId or its proposal no coordinatorEndpoint.*)
THEOREM Queued == Spec => []RecordedIsQueued
<1>1. Init => RecordedIsQueued
  BY DEF Init, RecordedIsQueued
<1>2. IInv /\ AddressInv /\ RecordedIsQueued /\ [Next]_vars => RecordedIsQueued'
  BY QueueStep DEF RecordedIsQueued, InHand
<1>3. QED
  BY <1>1, <1>2, InductiveInvariant, AddressInvariant, PTL DEF Spec

=============================================================================
