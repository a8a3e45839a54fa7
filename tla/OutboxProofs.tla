---------------------------- MODULE OutboxProofs ----------------------------
(***************************************************************************)
(* Theorems about Outbox for every set of entries, payloads and request    *)
(* threads, every delivery policy and any number of crashes.               *)
(***************************************************************************)
EXTENDS Outbox, TLAPS

(* The parts of the proof that no run needs to state: a thread outside a   *)
(* drain looks at nothing, what a thread posts was sent, and an accepted   *)
(* post was handled. *)
Outside == \A t \in Thread : lock # t => todo[t] = {}

AcceptedWasReceived ==
  \A t \in Thread : pc[t] = "accepted" => posting[t] \in received

PostedWasSent == \A t \in Thread : posting[t] # None => posting[t] \in sent

IInv ==
  /\ TypeOK
  /\ OneSender
  /\ ScheduledUntilSettled
  /\ DeliveredWasReceived
  /\ Outside
  /\ AcceptedWasReceived
  /\ PostedWasSent

-----------------------------------------------------------------------------
(* Facts about the operators *)

LEMMA MaxDelayIsNat == MaxDelay \in Nat
<1>1. MaximumBackoff * JitterPercent \in Nat
  BY ConstantsAssumption
<1>2. \A n \in Nat : n \div 100 \in Nat
  OBVIOUS
<1>3. JitterOf(MaximumBackoff) \in Nat
  BY <1>1, <1>2 DEF JitterOf
<1>4. QED
  BY <1>3, ConstantsAssumption DEF MaxDelay

(* What one recorded attempt makes of a pending, scheduled entry. *)
LEMMA AcceptedEntry ==
  ASSUME NEW entry \in Entry, entry.attempts < MaximumAttempts
  PROVE  /\ Accepted(entry) \in Entry
         /\ Accepted(entry).payload = entry.payload
         /\ Accepted(entry).delivered
         /\ Accepted(entry).dead = entry.dead
         /\ Accepted(entry).wait = None
<1>1. entry.attempts + 1 \in 0 .. MaximumAttempts
  BY ConstantsAssumption DEF Entry
<1>2. Accepted(entry) = [payload |-> entry.payload, attempts |-> entry.attempts + 1,
                         wait |-> None, delivered |-> TRUE, dead |-> entry.dead]
  <2>1. Accepted(entry) = [[[entry EXCEPT !.attempts = entry.attempts + 1]
                              EXCEPT !.delivered = TRUE] EXCEPT !.wait = None]
    BY Zenon DEF Accepted
  <2>2. QED
    BY <2>1 DEF Entry
<1>3. QED
  BY <1>1, <1>2 DEF Entry

LEMMA RejectedEntry ==
  ASSUME NEW entry \in Entry, entry.attempts < MaximumAttempts, ~entry.dead,
         NEW delay \in 0 .. MaxDelay
  PROVE  /\ Rejected(entry, delay) \in Entry
         /\ Rejected(entry, delay).payload = entry.payload
         /\ Rejected(entry, delay).delivered = entry.delivered
         /\ \/ /\ Rejected(entry, delay).dead
               /\ Rejected(entry, delay).wait = None
               /\ Rejected(entry, delay).attempts = MaximumAttempts
            \/ /\ ~Rejected(entry, delay).dead
               /\ Rejected(entry, delay).wait # None
               /\ Rejected(entry, delay).attempts < MaximumAttempts
<1>1. CASE Exhausted(entry.attempts + 1)
  <2>1. entry.attempts + 1 = MaximumAttempts
    BY <1>1, ConstantsAssumption DEF Exhausted, Entry
  <2>2. Rejected(entry, delay) = [payload |-> entry.payload, attempts |-> entry.attempts + 1,
                                  wait |-> None, delivered |-> entry.delivered, dead |-> TRUE]
    BY <1>1 DEF Rejected, Entry
  <2>3. QED
    BY <2>1, <2>2, ConstantsAssumption DEF Entry
<1>2. CASE ~Exhausted(entry.attempts + 1)
  <2>1. entry.attempts + 1 \in 0 .. MaximumAttempts /\ entry.attempts + 1 < MaximumAttempts
    BY <1>2, ConstantsAssumption DEF Exhausted, Entry
  <2>2. delay # None
    BY ConstantsAssumption
  <2>3. Rejected(entry, delay) = [payload |-> entry.payload, attempts |-> entry.attempts + 1,
                                  wait |-> delay, delivered |-> entry.delivered, dead |-> entry.dead]
    BY <1>2 DEF Rejected, Entry
  <2>4. QED
    BY <2>1, <2>2, <2>3 DEF Entry
<1>3. QED
  BY <1>1, <1>2

LEMMA EnqueuedEntry ==
  ASSUME NEW existing \in {None} \cup Entry, NEW payload \in Payload
  PROVE  /\ Enqueued(existing, payload) \in Entry
         /\ existing # None => Enqueued(existing, payload) = existing
         /\ existing = None =>
              /\ ~Enqueued(existing, payload).delivered
              /\ ~Enqueued(existing, payload).dead
              /\ Enqueued(existing, payload).wait = 0
              /\ Enqueued(existing, payload).attempts = 0
BY MaxDelayIsNat, ConstantsAssumption, EntryAssumption DEF Enqueued, Entry

-----------------------------------------------------------------------------
(* The invariant is inductive *)

LEMMA InitIInv == Init => IInv
<1> SUFFICES ASSUME Init PROVE IInv
  OBVIOUS
<1> USE ConstantsAssumption, EntryAssumption DEF Init
<1>1. TypeOK
  BY DEF TypeOK
<1>2. OneSender
  BY DEF OneSender
<1>3. ScheduledUntilSettled /\ DeliveredWasReceived
  BY DEF ScheduledUntilSettled, DeliveredWasReceived
<1>4. Outside /\ AcceptedWasReceived /\ PostedWasSent
  BY DEF Outside, AcceptedWasReceived, PostedWasSent
<1>5. QED
  BY <1>1, <1>2, <1>3, <1>4 DEF IInv

LEMMA TypeStep == IInv /\ [Next]_vars => TypeOK'
<1> SUFFICES ASSUME IInv, [Next]_vars PROVE TypeOK'
  OBVIOUS
<1> USE ConstantsAssumption, EntryAssumption
<1>1. TypeOK
  BY DEF IInv
<1>2. ASSUME NEW t \in Handler, NEW id \in EntryId, NEW payload \in Payload,
             Enqueue(t, id, payload)
      PROVE  TypeOK'
  <2>1. Enqueued(outbox[id], payload) \in Entry
    BY <1>1, EnqueuedEntry DEF TypeOK
  <2>2. outbox' \in [EntryId -> {None} \cup Entry]
    BY <1>1, <1>2, <2>1 DEF TypeOK, Enqueue
  <2>3. pc' \in [Thread -> {"idle", "enqueued", "draining", "posting",
                            "accepted", "failed", "stopped"}]
    BY <1>1, <1>2 DEF TypeOK, Enqueue
  <2>4. QED
    BY <1>1, <1>2, <2>2, <2>3 DEF TypeOK, Enqueue
<1>3. ASSUME NEW t \in Thread, StartDrain(t) \/ DrainRefused(t)
      PROVE  TypeOK'
  BY <1>1, <1>3 DEF TypeOK, StartDrain, DrainRefused, PendingIds, Stored
<1>4. ASSUME NEW t \in Thread, NEW id \in EntryId, Skip(t, id) \/ Post(t, id)
      PROVE  TypeOK'
  BY <1>1, <1>4 DEF TypeOK, Skip, Post
<1>5. ASSUME NEW t \in Thread, pc[t] \in {"posting", "accepted", "failed"}
      PROVE  posting[t] \in EntryId
  BY <1>1, <1>5 DEF IInv, TypeOK, OneSender
<1>6. ASSUME NEW t \in Thread, PeerAccepts(t) \/ PeerFails(t) \/ PostEscapes(t)
      PROVE  TypeOK'
  <2>1. posting[t] \in EntryId
    BY <1>5, <1>6 DEF PeerAccepts, PeerFails, PostEscapes
  <2>2. received' \in SUBSET EntryId
    BY <1>1, <1>6, <2>1 DEF TypeOK, PeerAccepts, PeerFails, PostEscapes
  <2>3. CASE PeerAccepts(t) \/ PeerFails(t)
    BY <1>1, <2>2, <2>3 DEF TypeOK, PeerAccepts, PeerFails
  <2>4. CASE PostEscapes(t)
    <3>1. workerAlive' \in BOOLEAN
      BY <2>4 DEF PostEscapes
    <3>2. QED
      BY <1>1, <2>2, <2>4, <3>1 DEF TypeOK, PostEscapes, ReleasedAlways
  <2>5. QED
    BY <1>6, <2>3, <2>4
<1>7. ASSUME NEW t \in Thread, RecordAccepted(t) \/ RecordRejected(t)
      PROVE  TypeOK'
  <2> DEFINE id == posting[t]
  <2>1. id \in EntryId
    BY <1>5, <1>7 DEF RecordAccepted, RecordRejected
  <2>2. outbox[id] \in Entry /\ outbox[id].attempts < MaximumAttempts /\ ~outbox[id].dead
    BY <1>1, <1>7, <2>1
       DEF IInv, TypeOK, OneSender, ScheduledUntilSettled, RecordAccepted, RecordRejected
  <2>3. \E e \in Entry : outbox' = [outbox EXCEPT ![id] = e]
    <3>1. CASE RecordAccepted(t)
      BY <2>2, <3>1, AcceptedEntry DEF RecordAccepted
    <3>2. CASE RecordRejected(t)
      <4>1. PICK delay \in Delays(outbox[id].attempts + 1) :
              outbox' = [outbox EXCEPT ![id] = Rejected(@, delay)]
        BY <3>2 DEF RecordRejected
      <4>2. delay \in 0 .. MaxDelay
        BY DEF Delays
      <4>3. QED
        BY <2>2, <4>1, <4>2, RejectedEntry
    <3>3. QED
      BY <1>7, <3>1, <3>2
  <2>4. outbox' \in [EntryId -> {None} \cup Entry]
    BY <1>1, <2>1, <2>3 DEF TypeOK
  <2>5. QED
    BY <1>1, <1>7, <2>4 DEF TypeOK, RecordAccepted, RecordRejected
<1>8. ASSUME NEW t \in Thread, FinishDrain(t)
      PROVE  TypeOK'
  BY <1>1, <1>8 DEF TypeOK, FinishDrain
<1>9. ASSUME NEW id \in EntryId, Requeue(id)
      PROVE  TypeOK'
  <2>1. outbox[id] \in Entry /\ 0 \in 0 .. MaxDelay /\ 0 \in 0 .. MaximumAttempts
    BY <1>1, <1>9, MaxDelayIsNat DEF TypeOK, Requeue
  <2>2. outbox' \in [EntryId -> {None} \cup Entry]
    BY <1>1, <1>9, <2>1 DEF TypeOK, Requeue, Entry
  <2>3. QED
    BY <1>1, <1>9, <2>2 DEF TypeOK, Requeue
<1>10. ASSUME Tick
       PROVE  TypeOK'
  <2>1. ASSUME NEW id \in Counting
        PROVE  [outbox[id] EXCEPT !.wait = @ - 1] \in Entry
    <3>1. outbox[id] \in Entry /\ outbox[id].wait \in 1 .. MaxDelay
      BY <1>1, <2>1, MaxDelayIsNat DEF TypeOK, Counting, Stored, Entry
    <3>2. outbox[id].wait - 1 \in 0 .. MaxDelay
      BY <3>1, MaxDelayIsNat
    <3>3. QED
      BY <3>1, <3>2 DEF Entry
  <2>2. outbox' \in [EntryId -> {None} \cup Entry]
    BY <1>1, <1>10, <2>1 DEF TypeOK, Tick
  <2>3. QED
    BY <1>1, <1>10, <2>2 DEF TypeOK, Tick
<1>11. ASSUME Crash
       PROVE  TypeOK'
  <2>1. crashes' \in 0 .. MaxCrashes
    BY <1>1, <1>11 DEF TypeOK, Crash
  <2>2. QED
    BY <1>1, <1>11, <2>1 DEF TypeOK, Crash
<1>12. ASSUME NEW id \in EntryId, PeerHandles(id)
       PROVE  TypeOK'
  BY <1>1, <1>12 DEF TypeOK, PeerHandles
<1>13. CASE UNCHANGED vars
  BY <1>1, <1>13 DEF TypeOK, vars
<1>14. QED
  BY <1>2, <1>3, <1>4, <1>6, <1>7, <1>8, <1>9, <1>10, <1>11, <1>12, <1>13
     DEF Next, DrainStep

(* What one step may make of an entry. *)
Fresh(e) == e # None /\ ~e.delivered /\ ~e.dead /\ e.wait # None /\ e.attempts = 0

Kept(e, f) ==
  /\ e # None /\ ~e.delivered
  /\ f # None /\ f.payload = e.payload

LEMMA EntryEffect ==
  ASSUME IInv, [Next]_vars, NEW id \in EntryId
  PROVE  LET e == outbox[id]
             f == outbox'[id]
         IN  \/ f = e
             \/ e = None /\ Fresh(f)
             \/ /\ Kept(e, f) /\ ~e.dead
                /\ \/ f.delivered /\ ~f.dead /\ f.wait = None /\ id \in received
                   \/ ~f.delivered /\ f.dead /\ f.wait = None /\ f.attempts = MaximumAttempts
                   \/ ~f.delivered /\ ~f.dead /\ f.wait # None /\ f.attempts < MaximumAttempts
             \/ Kept(e, f) /\ e.dead /\ Fresh(f)
<1> DEFINE e == outbox[id]
           f == outbox'[id]
           Goal == \/ f = e
                   \/ e = None /\ Fresh(f)
                   \/ /\ Kept(e, f) /\ ~e.dead
                      /\ \/ f.delivered /\ ~f.dead /\ f.wait = None /\ id \in received
                         \/ ~f.delivered /\ f.dead /\ f.wait = None /\ f.attempts = MaximumAttempts
                         \/ ~f.delivered /\ ~f.dead /\ f.wait # None /\ f.attempts < MaximumAttempts
                   \/ Kept(e, f) /\ e.dead /\ Fresh(f)
<1> USE ConstantsAssumption, EntryAssumption
<1>1. e \in {None} \cup Entry
  BY DEF IInv, TypeOK
<1>2. CASE UNCHANGED outbox
  BY <1>2
<1>3. ASSUME NEW t \in Handler, NEW i \in EntryId, NEW payload \in Payload,
             Enqueue(t, i, payload)
      PROVE  Goal
  <2>1. outbox' = [outbox EXCEPT ![i] = Enqueued(outbox[i], payload)]
    BY <1>3 DEF Enqueue
  <2>2. CASE i # id
    BY <2>1, <2>2 DEF IInv, TypeOK
  <2>3. CASE i = id
    <3>1. f = Enqueued(e, payload)
      BY <2>1, <2>3 DEF IInv, TypeOK
    <3>2. f \in Entry
      BY <1>1, <3>1, EnqueuedEntry
    <3>3. CASE e # None
      BY <1>1, <3>1, <3>3, EnqueuedEntry
    <3>4. CASE e = None
      <4>1. ~f.delivered /\ ~f.dead /\ f.wait = 0 /\ f.attempts = 0
        BY <1>1, <3>1, <3>4, EnqueuedEntry
      <4>2. f.wait # None /\ f # None
        BY <3>2, <4>1
      <4>3. QED
        BY <3>4, <4>1, <4>2 DEF Fresh
    <3>5. QED
      BY <3>3, <3>4
  <2>4. QED
    BY <2>2, <2>3
<1>4. ASSUME NEW t \in Thread, RecordAccepted(t) \/ RecordRejected(t)
      PROVE  Goal
  <2> DEFINE i == posting[t]
  <2>1. /\ i \in EntryId
        /\ outbox[i] \in Entry
        /\ outbox[i].attempts < MaximumAttempts
        /\ ~outbox[i].dead /\ ~outbox[i].delivered
    BY <1>4 DEF IInv, TypeOK, OneSender, ScheduledUntilSettled, RecordAccepted, RecordRejected
  <2>2. CASE i # id
    <3>1. \E x : outbox' = [outbox EXCEPT ![i] = x]
      BY <1>4 DEF RecordAccepted, RecordRejected
    <3>2. QED
      BY <2>2, <3>1 DEF IInv, TypeOK
  <2>3. CASE i = id /\ RecordAccepted(t)
    <3>1. f = Accepted(e)
      BY <2>3 DEF RecordAccepted, IInv, TypeOK
    <3>2. id \in received
      BY <2>3 DEF IInv, AcceptedWasReceived, RecordAccepted
    <3>3. f \in Entry /\ f.payload = e.payload /\ f.delivered /\ ~f.dead /\ f.wait = None
      BY <2>1, <2>3, <3>1, AcceptedEntry
    <3>4. QED
      BY <2>1, <2>3, <3>2, <3>3 DEF Kept
  <2>4. CASE i = id /\ RecordRejected(t)
    <3>1. PICK delay \in Delays(e.attempts + 1) :
            outbox' = [outbox EXCEPT ![id] = Rejected(e, delay)]
      BY <2>4 DEF RecordRejected
    <3>2. delay \in 0 .. MaxDelay
      BY DEF Delays
    <3>3. f = Rejected(e, delay)
      BY <3>1 DEF IInv, TypeOK
    <3>4. /\ f \in Entry
          /\ f.payload = e.payload
          /\ f.delivered = e.delivered
          /\ \/ f.dead /\ f.wait = None /\ f.attempts = MaximumAttempts
             \/ ~f.dead /\ f.wait # None /\ f.attempts < MaximumAttempts
      BY <2>1, <2>4, <3>2, <3>3, RejectedEntry
    <3>5. QED
      BY <2>1, <2>4, <3>4 DEF Kept
  <2>5. QED
    BY <1>4, <2>2, <2>3, <2>4
<1>5. ASSUME NEW i \in EntryId, Requeue(i)
      PROVE  Goal
  <2>1. CASE i # id
    BY <1>5, <2>1 DEF Requeue, IInv, TypeOK
  <2>2. CASE i = id
    <3>1. e # None /\ e \in Entry /\ e.dead /\ ~e.delivered
      BY <1>1, <1>5, <2>2 DEF Requeue, Requeueable, IInv, ScheduledUntilSettled
    <3>2. f = [[[e EXCEPT !.attempts = 0] EXCEPT !.wait = 0] EXCEPT !.dead = FALSE]
      BY <1>5, <2>2 DEF Requeue, IInv, TypeOK
    <3>3. /\ f \in Entry /\ f.payload = e.payload /\ ~f.delivered
          /\ ~f.dead /\ f.wait = 0 /\ f.attempts = 0
      <4>1. 0 \in {None} \cup 0 .. MaxDelay /\ 0 \in 0 .. MaximumAttempts
        BY MaxDelayIsNat
      <4> HIDE DEF e, f, Goal
      <4>2. f \in Entry
        BY <3>1, <3>2, <4>1 DEF Entry
      <4>3. f.payload = e.payload /\ ~f.delivered
        BY <3>1, <3>2 DEF Entry
      <4>4. ~f.dead /\ f.wait = 0 /\ f.attempts = 0
        BY <3>1, <3>2 DEF Entry
      <4>5. QED
        BY <4>2, <4>3, <4>4
    <3>4. f # None /\ f.wait # None
      BY <3>3
    <3>5. QED
      BY <3>1, <3>3, <3>4 DEF Kept, Fresh
  <2>3. QED
    BY <2>1, <2>2
<1>6. ASSUME Tick
      PROVE  Goal
  <2>1. CASE id \notin Counting
    BY <1>6, <2>1 DEF Tick
  <2>2. CASE id \in Counting
    <3>1. /\ e \in Entry /\ e # None /\ e.wait \in 1 .. MaxDelay
          /\ ~e.delivered /\ ~e.dead /\ e.attempts < MaximumAttempts
      BY <1>1, <2>2, MaxDelayIsNat DEF Counting, Stored, Entry, IInv, ScheduledUntilSettled
    <3>2. f = [e EXCEPT !.wait = e.wait - 1]
      BY <1>6, <2>2 DEF Tick
    <3>3. e.wait - 1 \in 0 .. MaxDelay /\ e.wait - 1 # None
      BY <3>1, MaxDelayIsNat
    <3>4. /\ f \in Entry /\ f.payload = e.payload /\ ~f.delivered
          /\ ~f.dead /\ f.wait = e.wait - 1 /\ f.attempts = e.attempts
      BY <3>1, <3>2, <3>3 DEF Entry
    <3>5. f # None /\ f.wait # None
      BY <3>3, <3>4
    <3>6. QED
      BY <3>1, <3>4, <3>5 DEF Kept
  <2>3. QED
    BY <2>1, <2>2
<1>7. QED
  BY <1>2, <1>3, <1>4, <1>5, <1>6
     DEF Next, DrainStep, vars, StartDrain, DrainRefused, Skip, Post, PeerAccepts,
         PeerFails, PeerHandles, PostEscapes, FinishDrain, Crash

LEMMA ScheduledStep == IInv /\ [Next]_vars => ScheduledUntilSettled' /\ DeliveredWasReceived'
<1> SUFFICES ASSUME IInv, [Next]_vars, NEW id \in EntryId, outbox'[id] # None
             PROVE  /\ LET f == outbox'[id] IN
                         /\ ~(f.delivered /\ f.dead)
                         /\ f.wait # None <=> ~f.delivered /\ ~f.dead
                         /\ f.wait # None => f.attempts < MaximumAttempts
                         /\ f.dead => f.attempts = MaximumAttempts
                    /\ outbox'[id].delivered => id \in received'
  BY DEF ScheduledUntilSettled, DeliveredWasReceived
<1> DEFINE e == outbox[id]
           f == outbox'[id]
<1>1. received \subseteq received'
  BY DEF Next, DrainStep, vars, Enqueue, StartDrain, DrainRefused, Skip, Post, PeerAccepts,
         PeerFails, PeerHandles, PostEscapes, RecordAccepted, RecordRejected, FinishDrain,
         Requeue, Tick, Crash
<1>2. e # None =>
        /\ ~(e.delivered /\ e.dead)
        /\ e.wait # None <=> ~e.delivered /\ ~e.dead
        /\ e.wait # None => e.attempts < MaximumAttempts
        /\ e.dead => e.attempts = MaximumAttempts
        /\ e.delivered => id \in received
  BY DEF IInv, ScheduledUntilSettled, DeliveredWasReceived
<1>3. \/ f = e
      \/ e = None /\ Fresh(f)
      \/ /\ Kept(e, f) /\ ~e.dead
         /\ \/ f.delivered /\ ~f.dead /\ f.wait = None /\ id \in received
            \/ ~f.delivered /\ f.dead /\ f.wait = None /\ f.attempts = MaximumAttempts
            \/ ~f.delivered /\ ~f.dead /\ f.wait # None /\ f.attempts < MaximumAttempts
      \/ Kept(e, f) /\ e.dead /\ Fresh(f)
  BY EntryEffect
<1>4. f # None
  OBVIOUS
<1>5. Fresh(f) => f.attempts < MaximumAttempts
  BY ConstantsAssumption DEF Fresh
<1> HIDE DEF e, f
<1>6. QED
  BY <1>1, <1>2, <1>3, <1>4, <1>5 DEF Fresh, Kept, e, f

-----------------------------------------------------------------------------
(* One sender *)

InDrain == {"draining", "posting", "accepted", "failed"}

InPost == {"posting", "accepted", "failed"}

PendingEntry(e) == e # None /\ ~e.delivered /\ ~e.dead

(* What OneSender, Outside and AcceptedWasReceived say of one thread. *)
Sender(t) ==
  /\ pc[t] \in InDrain <=> lock = t
  /\ \A id \in todo[t] : PendingEntry(outbox[id])
  /\ posting[t] # None => PendingEntry(outbox[posting[t]])
  /\ posting[t] \notin todo[t]
  /\ posting[t] # None <=> pc[t] \in InPost
  /\ lock # t => todo[t] = {}
  /\ pc[t] = "accepted" => posting[t] \in received

LEMMA SenderIsOneSender ==
  ASSUME TypeOK
  PROVE  OneSender /\ Outside /\ AcceptedWasReceived <=> \A t \in Thread : Sender(t)
BY ConstantsAssumption
   DEF TypeOK, OneSender, Outside, AcceptedWasReceived, Sender, InDrain, InPost, PendingEntry

(* A step in which no outcome is recorded leaves pending entries pending.  *)
LEMMA PendingStays ==
  ASSUME IInv, NEW id \in EntryId, PendingEntry(outbox[id]),
         \/ UNCHANGED outbox
         \/ \E t \in Handler, i \in EntryId, payload \in Payload : Enqueue(t, i, payload)
         \/ \E i \in EntryId : Requeue(i)
         \/ Tick
  PROVE  PendingEntry(outbox'[id])
<1> USE ConstantsAssumption, EntryAssumption
<1>1. outbox[id] \in Entry
  BY DEF IInv, TypeOK, PendingEntry
<1>2. CASE UNCHANGED outbox
  BY <1>2
<1>3. ASSUME NEW t \in Handler, NEW i \in EntryId, NEW payload \in Payload,
             Enqueue(t, i, payload)
      PROVE  PendingEntry(outbox'[id])
  <2>1. outbox' = [outbox EXCEPT ![i] = Enqueued(outbox[i], payload)]
    BY <1>3 DEF Enqueue
  <2>2. i = id => Enqueued(outbox[i], payload) = outbox[id]
    BY <1>1, EnqueuedEntry DEF PendingEntry
  <2>3. outbox'[id] = outbox[id]
    BY <2>1, <2>2 DEF IInv, TypeOK
  <2>4. QED
    BY <2>3
<1>4. ASSUME NEW i \in EntryId, Requeue(i)
      PROVE  PendingEntry(outbox'[id])
  <2>1. i # id
    BY <1>4 DEF Requeue, Requeueable, PendingEntry
  <2>2. outbox'[id] = outbox[id]
    BY <1>4, <2>1 DEF Requeue, IInv, TypeOK
  <2>3. QED
    BY <2>2
<1>5. ASSUME Tick
      PROVE  PendingEntry(outbox'[id])
  <2>1. CASE id \notin Counting
    BY <1>5, <2>1 DEF Tick
  <2>2. CASE id \in Counting
    <3>1. outbox[id].wait \in 1 .. MaxDelay
      BY <1>1, <2>2, MaxDelayIsNat DEF Counting, Entry
    <3>2. outbox'[id] = [outbox[id] EXCEPT !.wait = outbox[id].wait - 1]
      BY <1>5, <2>2 DEF Tick
    <3>3. outbox[id].wait - 1 \in 0 .. MaxDelay
      BY <3>1, MaxDelayIsNat
    <3>4. outbox'[id] \in Entry /\ ~outbox'[id].delivered /\ ~outbox'[id].dead
      BY <1>1, <3>2, <3>3 DEF Entry, PendingEntry
    <3>5. QED
      BY <3>4 DEF PendingEntry
  <2>3. QED
    BY <2>1, <2>2
<1>6. QED
  BY <1>2, <1>3, <1>4, <1>5

LEMMA SenderStep ==
  ASSUME IInv, [Next]_vars, NEW u \in Thread
  PROVE  Sender(u)'
<1> USE ConstantsAssumption, EntryAssumption
<1>1. TypeOK /\ TypeOK' /\ \A t \in Thread : Sender(t)
  BY TypeStep, SenderIsOneSender DEF IInv
<1>2. ASSUME NEW t \in Thread, pc[t] \in InDrain, u # t
      PROVE  pc[u] \notin InDrain /\ todo[u] = {} /\ posting[u] = None /\ lock = t
  BY <1>1, <1>2 DEF Sender, InDrain, InPost
<1>3. ASSUME NEW t \in Handler, NEW id \in EntryId, NEW payload \in Payload,
             Enqueue(t, id, payload)
      PROVE  Sender(u)'
  <2>1. \A i \in EntryId : PendingEntry(outbox[i]) => PendingEntry(outbox'[i])
    BY <1>3, PendingStays
  <2>2. pc'[u] \in InDrain <=> pc[u] \in InDrain
    BY <1>1, <1>3 DEF TypeOK, Enqueue, InDrain
  <2>3. /\ pc'[u] \in InPost <=> pc[u] \in InPost
        /\ pc'[u] = "accepted" <=> pc[u] = "accepted"
    BY <1>1, <1>3 DEF TypeOK, Enqueue, InPost
  <2>4. todo' = todo /\ posting' = posting /\ lock' = lock /\ received' = received
    BY <1>3 DEF Enqueue
  <2>5. todo[u] \subseteq EntryId /\ posting[u] \in {None} \cup EntryId
    BY <1>1 DEF TypeOK
  <2>6. QED
    BY <1>1, <2>1, <2>2, <2>3, <2>4, <2>5 DEF Sender
<1>4. ASSUME NEW t \in Thread, StartDrain(t)
      PROVE  Sender(u)'
  <2>1. lock = None /\ pc[u] \notin InDrain
    BY <1>1, <1>4 DEF StartDrain, LockFree, Sender
  <2>2. \A id \in PendingIds : PendingEntry(outbox[id])
    BY DEF PendingIds, Stored, Pending, PendingEntry
  <2>3. posting[u] = None
    BY <1>1, <2>1 DEF Sender, InDrain, InPost
  <2>4. u = t => pc'[u] = "draining" /\ todo'[u] = PendingIds
    BY <1>1, <1>4 DEF TypeOK, StartDrain
  <2>5. u # t => pc'[u] = pc[u] /\ todo'[u] = todo[u]
    BY <1>1, <1>4 DEF TypeOK, StartDrain
  <2>6. outbox' = outbox /\ lock' = t /\ posting' = posting
    BY <1>4 DEF StartDrain
  <2>7. None \notin PendingIds
    BY DEF PendingIds, Stored
  <2>8. CASE u = t
    BY <2>2, <2>3, <2>4, <2>6, <2>7, <2>8 DEF Sender, InDrain, InPost
  <2>9. CASE u # t
    <3>1. todo[u] = {}
      BY <1>1, <2>1 DEF Sender
    <3>2. QED
      BY <1>1, <2>1, <2>3, <2>5, <2>6, <2>9, <3>1 DEF Sender, InDrain, InPost
  <2>10. QED
    BY <2>8, <2>9
<1>5. ASSUME NEW t \in Thread, DrainRefused(t)
      PROVE  Sender(u)'
  <2>1. /\ pc'[u] \in InDrain <=> pc[u] \in InDrain
        /\ pc'[u] \in InPost <=> pc[u] \in InPost
        /\ pc'[u] = "accepted" <=> pc[u] = "accepted"
    BY <1>1, <1>5 DEF TypeOK, DrainRefused, InDrain, InPost
  <2>2. UNCHANGED <<outbox, lock, todo, posting, received>>
    BY <1>5 DEF DrainRefused
  <2>3. QED
    BY <1>1, <2>1, <2>2 DEF Sender
<1>6. ASSUME NEW t \in Thread, NEW id \in EntryId, Skip(t, id) \/ Post(t, id)
      PROVE  Sender(u)'
  <2>1. pc[t] = "draining" /\ lock = t /\ posting[t] = None
    BY <1>1, <1>6 DEF Skip, Post, Sender, InDrain, InPost
  <2>2. outbox' = outbox /\ lock' = lock /\ todo' = [todo EXCEPT ![t] = @ \ {id}]
    BY <1>6 DEF Skip, Post
  <2>3. CASE u = t
    <3>1. todo'[t] = todo[t] \ {id} /\ id \in todo[t] /\ PendingEntry(outbox[id])
      BY <1>1, <1>6, <2>2 DEF TypeOK, Skip, Post, Sender
    <3>2. CASE Skip(t, id)
      BY <1>1, <2>1, <2>2, <2>3, <3>1, <3>2 DEF Skip, Sender
    <3>3. CASE Post(t, id)
      <4>1. pc'[t] = "posting" /\ posting'[t] = id
        BY <1>1, <3>3 DEF TypeOK, Post
      <4>2. QED
        BY <1>1, <2>1, <2>2, <2>3, <3>1, <4>1 DEF Sender, InDrain, InPost
    <3>4. QED
      BY <1>6, <3>2, <3>3
  <2>4. CASE u # t
    <3>1. todo'[u] = todo[u] /\ pc'[u] = pc[u] /\ posting'[u] = posting[u]
          /\ received' = received
      BY <1>1, <1>6, <2>4 DEF TypeOK, Skip, Post
    <3>2. QED
      BY <1>1, <2>2, <3>1 DEF Sender
  <2>5. QED
    BY <2>3, <2>4
<1>7. ASSUME NEW t \in Thread, PeerAccepts(t) \/ PeerFails(t)
      PROVE  Sender(u)'
  <2>1. pc[t] = "posting" /\ UNCHANGED <<outbox, lock, todo, posting>>
    BY <1>7 DEF PeerAccepts, PeerFails
  <2>2. u # t => pc'[u] = pc[u]
    BY <1>1, <1>7 DEF TypeOK, PeerAccepts, PeerFails
  <2>3. received \subseteq received'
    BY <1>7 DEF PeerAccepts, PeerFails
  <2>4. \/ pc'[t] = "accepted" /\ posting[t] \in received'
        \/ pc'[t] = "failed"
    BY <1>1, <1>7 DEF TypeOK, PeerAccepts, PeerFails
  <2>5. CASE u = t
    BY <1>1, <2>1, <2>4, <2>5 DEF Sender, InDrain, InPost
  <2>6. CASE u # t
    BY <1>1, <2>1, <2>2, <2>3, <2>6 DEF Sender
  <2>7. QED
    BY <2>5, <2>6
<1>8. ASSUME NEW t \in Thread, PostEscapes(t)
      PROVE  Sender(u)'
  <2>1. pc[t] = "posting" /\ lock = t /\ lock' = None /\ outbox' = outbox
    BY <1>1, <1>8 DEF PostEscapes, ReleasedAlways, Sender, InDrain
  <2>2. u = t => pc'[u] \in {"stopped", "idle"} /\ todo'[u] = {} /\ posting'[u] = None
    BY <1>1, <1>8 DEF TypeOK, PostEscapes
  <2>3. u # t => pc'[u] = pc[u] /\ todo'[u] = todo[u] /\ posting'[u] = posting[u]
    BY <1>1, <1>8 DEF TypeOK, PostEscapes
  <2>4. u # t => pc[u] \notin InDrain /\ todo[u] = {} /\ posting[u] = None
    BY <1>2, <2>1 DEF InDrain
  <2>5. QED
    BY <2>1, <2>2, <2>3, <2>4 DEF Sender, InDrain, InPost
<1>9. ASSUME NEW t \in Thread, RecordAccepted(t) \/ RecordRejected(t)
      PROVE  Sender(u)'
  <2>1. /\ pc[t] \in InDrain /\ lock = t /\ lock' = lock /\ todo' = todo
        /\ posting[t] \notin todo[t]
        /\ \E x : outbox' = [outbox EXCEPT ![posting[t]] = x]
    BY <1>1, <1>9 DEF RecordAccepted, RecordRejected, Sender, InDrain
  <2>2. u = t => pc'[u] = "draining" /\ posting'[u] = None
    BY <1>1, <1>9 DEF TypeOK, RecordAccepted, RecordRejected
  <2>3. u # t => pc'[u] = pc[u] /\ posting'[u] = posting[u]
    BY <1>1, <1>9 DEF TypeOK, RecordAccepted, RecordRejected
  <2>4. \A id \in todo[t] : outbox'[id] = outbox[id]
    BY <1>1, <2>1 DEF TypeOK
  <2>5. CASE u = t
    <3>1. \A id \in todo'[u] : PendingEntry(outbox'[id])
      BY <1>1, <2>1, <2>4, <2>5 DEF Sender
    <3>2. None \notin todo[t]
      BY <1>1 DEF TypeOK
    <3>3. QED
      BY <2>1, <2>2, <2>5, <3>1, <3>2 DEF Sender, InDrain, InPost
  <2>6. CASE u # t
    BY <1>2, <2>1, <2>3, <2>6 DEF Sender, InDrain, InPost
  <2>7. QED
    BY <2>5, <2>6
<1>10. ASSUME NEW t \in Thread, FinishDrain(t)
       PROVE  Sender(u)'
  <2>1. pc[t] = "draining" /\ todo[t] = {} /\ lock' = None /\ lock = t /\ posting[t] = None
        /\ UNCHANGED <<outbox, todo, posting, received>>
    BY <1>1, <1>10 DEF FinishDrain, Sender, InDrain, InPost
  <2>2. pc' = [pc EXCEPT ![t] = "idle"]
    BY <1>10 DEF FinishDrain
  <2>3. CASE u = t
    <3>1. pc'[u] = "idle"
      BY <1>1, <2>2, <2>3 DEF TypeOK
    <3>2. QED
      BY <2>1, <2>3, <3>1 DEF Sender, InDrain, InPost
  <2>4. CASE u # t
    <3>1. pc'[u] = pc[u]
      BY <1>1, <2>2, <2>4 DEF TypeOK
    <3>2. pc[u] \notin InDrain /\ todo[u] = {} /\ posting[u] = None
      BY <1>2, <2>1, <2>4 DEF InDrain
    <3>3. QED
      BY <2>1, <3>1, <3>2 DEF Sender, InDrain, InPost
  <2>5. QED
    BY <2>3, <2>4
<1>11. ASSUME (\E id \in EntryId : Requeue(id)) \/ Tick
       PROVE  Sender(u)'
  <2>1. \A i \in EntryId : PendingEntry(outbox[i]) => PendingEntry(outbox'[i])
    BY <1>11, PendingStays
  <2>2. UNCHANGED <<lock, pc, todo, posting, received>>
    BY <1>11 DEF Requeue, Tick
  <2>3. todo[u] \subseteq EntryId /\ posting[u] \in {None} \cup EntryId
    BY <1>1 DEF TypeOK
  <2>4. QED
    BY <1>1, <2>1, <2>2, <2>3 DEF Sender
<1>12. ASSUME Crash
       PROVE  Sender(u)'
  BY <1>12 DEF Crash, Sender, InDrain, InPost
<1>13. ASSUME NEW id \in EntryId, PeerHandles(id)
       PROVE  Sender(u)'
  BY <1>1, <1>13 DEF PeerHandles, Sender
<1>14. CASE UNCHANGED vars
  BY <1>1, <1>14 DEF vars, Sender
<1>15. QED
  BY <1>3, <1>4, <1>5, <1>6, <1>7, <1>8, <1>9, <1>10, <1>11, <1>12, <1>13, <1>14
     DEF Next, DrainStep

LEMMA PostedStep == IInv /\ [Next]_vars => PostedWasSent'
<1> SUFFICES ASSUME IInv, [Next]_vars, NEW u \in Thread, posting'[u] # None
             PROVE  posting'[u] \in sent'
  BY DEF PostedWasSent
<1>1. TypeOK /\ PostedWasSent
  BY DEF IInv
<1>2. sent \subseteq sent'
  BY DEF Next, DrainStep, vars, Enqueue, StartDrain, DrainRefused, Skip, Post, PeerAccepts,
         PeerFails, PeerHandles, PostEscapes, RecordAccepted, RecordRejected, FinishDrain,
         Requeue, Tick, Crash
<1>3. ASSUME NEW t \in Thread, NEW id \in EntryId, Post(t, id)
      PROVE  posting'[u] \in sent'
  BY <1>1, <1>3 DEF TypeOK, Post, PostedWasSent
<1>4. ASSUME NEW t \in Thread, PostEscapes(t) \/ RecordAccepted(t) \/ RecordRejected(t)
      PROVE  posting'[u] \in sent'
  <2>1. posting' = [posting EXCEPT ![t] = None]
    BY <1>4 DEF PostEscapes, RecordAccepted, RecordRejected
  <2>2. posting'[u] = posting[u]
    BY <1>1, <2>1 DEF TypeOK
  <2>3. QED
    BY <1>1, <1>2, <2>2 DEF PostedWasSent
<1>5. CASE UNCHANGED posting
  BY <1>1, <1>2, <1>5 DEF PostedWasSent
<1>6. CASE Crash
  BY <1>6 DEF Crash
<1>7. QED
  BY <1>3, <1>4, <1>5, <1>6
     DEF Next, DrainStep, vars, Enqueue, StartDrain, DrainRefused, Skip, PeerAccepts,
         PeerFails, PeerHandles, FinishDrain, Requeue, Tick

LEMMA InvStep == IInv /\ [Next]_vars => IInv'
<1> SUFFICES ASSUME IInv, [Next]_vars PROVE IInv'
  OBVIOUS
<1>1. TypeOK'
  BY TypeStep
<1>2. \A t \in Thread : Sender(t)'
  BY SenderStep
<1>3. (OneSender /\ Outside /\ AcceptedWasReceived)'
  BY <1>1, <1>2, SenderIsOneSender, ConstantsAssumption
     DEF TypeOK, OneSender, Outside, AcceptedWasReceived, Sender, InDrain, InPost, PendingEntry
<1>4. QED
  BY <1>1, <1>3, ScheduledStep, PostedStep DEF IInv

-----------------------------------------------------------------------------
(* The outbox implements reliable delivery *)

(* What one rewritten entry changes in the abstract state. *)
LEMMA OneEntryChanges ==
  ASSUME TypeOK, NEW i \in EntryId, NEW x \in Entry, outbox' = [outbox EXCEPT ![i] = x]
  PROVE  /\ [id \in EntryId |-> StatusOf(id)'] =
              [[id \in EntryId |-> StatusOf(id)] EXCEPT ![i] = StatusOf(i)']
         /\ [id \in EntryId |-> ContentOf(id)'] =
              [[id \in EntryId |-> ContentOf(id)] EXCEPT ![i] = ContentOf(i)']
         /\ [id \in EntryId |-> AttemptsOf(id)'] =
              [[id \in EntryId |-> AttemptsOf(id)] EXCEPT ![i] = AttemptsOf(i)']
         /\ ContentOf(i)' = x.payload
         /\ AttemptsOf(i)' = x.attempts
         /\ StatusOf(i)' = IF x.delivered THEN "delivered"
                           ELSE IF x.dead THEN "dead" ELSE "pending"
<1>1. outbox'[i] = x /\ x # None
  BY EntryAssumption DEF TypeOK
<1>2. \A id \in EntryId : id # i => outbox'[id] = outbox[id]
  BY DEF TypeOK
<1>3. \A id \in EntryId : id # i =>
        /\ StatusOf(id)' = StatusOf(id)
        /\ ContentOf(id)' = ContentOf(id)
        /\ AttemptsOf(id)' = AttemptsOf(id)
  BY <1>2 DEF StatusOf, ContentOf, AttemptsOf
<1>4. /\ ContentOf(i)' = x.payload
      /\ AttemptsOf(i)' = x.attempts
      /\ StatusOf(i)' = IF x.delivered THEN "delivered"
                        ELSE IF x.dead THEN "dead" ELSE "pending"
  BY <1>1 DEF StatusOf, ContentOf, AttemptsOf
<1>5. QED
  BY <1>3, <1>4

(* A step that leaves every entry's outcome alone, and what was handled,   *)
(* is a stutter. *)
LEMMA SameOutcomes ==
  ASSUME \A id \in EntryId : /\ StatusOf(id)' = StatusOf(id)
                             /\ ContentOf(id)' = ContentOf(id)
                             /\ AttemptsOf(id)' = AttemptsOf(id)
  PROVE  UNCHANGED <<[id \in EntryId |-> StatusOf(id)], [id \in EntryId |-> ContentOf(id)],
                     [id \in EntryId |-> AttemptsOf(id)]>>
OBVIOUS

LEMMA SameOutbox ==
  ASSUME UNCHANGED outbox
  PROVE  UNCHANGED <<[id \in EntryId |-> StatusOf(id)], [id \in EntryId |-> ContentOf(id)],
                     [id \in EntryId |-> AttemptsOf(id)]>>
BY DEF StatusOf, ContentOf, AttemptsOf

LEMMA RefinementInit == Init => Delivery!Init
BY DEF Init, Delivery!Init, StatusOf, ContentOf, AttemptsOf

LEMMA EnqueueRefines ==
  ASSUME IInv, NEW t \in Handler, NEW i \in EntryId, NEW payload \in Payload,
         Enqueue(t, i, payload)
  PROVE  [Delivery!Next]_(Delivery!vars)
<1> DEFINE x == Enqueued(outbox[i], payload)
<1> USE EntryAssumption
<1>1. TypeOK /\ outbox[i] \in {None} \cup Entry
  BY DEF IInv, TypeOK
<1>2. outbox' = [outbox EXCEPT ![i] = x] /\ UNCHANGED <<sent, received>>
  BY DEF Enqueue
<1>3. x \in Entry
  BY <1>1, EnqueuedEntry
<1>4. CASE outbox[i] # None
  <2>1. x = outbox[i]
    BY <1>1, <1>4, EnqueuedEntry
  <2>2. UNCHANGED outbox
    BY <1>1, <1>2, <2>1 DEF TypeOK
  <2>3. QED
    BY <1>2, <2>2, SameOutbox DEF Delivery!vars
<1>5. CASE outbox[i] = None
  <2>1. ~x.delivered /\ ~x.dead /\ x.attempts = 0 /\ x.payload = payload
    BY <1>5 DEF Enqueued
  <2> HIDE DEF x
  <2>2. /\ StatusOf(i) = "absent"
        /\ StatusOf(i)' = "pending"
        /\ ContentOf(i)' = payload
        /\ AttemptsOf(i)' = AttemptsOf(i)
    BY <1>1, <1>2, <1>3, <1>5, <2>1, OneEntryChanges DEF StatusOf, AttemptsOf
  <2>3. /\ [id \in EntryId |-> StatusOf(id)'] =
             [[id \in EntryId |-> StatusOf(id)] EXCEPT ![i] = "pending"]
        /\ [id \in EntryId |-> ContentOf(id)'] =
             [[id \in EntryId |-> ContentOf(id)] EXCEPT ![i] = payload]
        /\ [id \in EntryId |-> AttemptsOf(id)'] = [id \in EntryId |-> AttemptsOf(id)]
    BY <1>1, <1>2, <1>3, <2>2, OneEntryChanges
  <2>4. Delivery!Queue(i, payload)
    BY <1>2, <2>2, <2>3 DEF Delivery!Queue
  <2>5. QED
    BY <2>4 DEF Delivery!Next
<1>6. QED
  BY <1>4, <1>5

LEMMA RecordRefines ==
  ASSUME IInv, NEW t \in Thread, RecordAccepted(t) \/ RecordRejected(t)
  PROVE  [Delivery!Next]_(Delivery!vars)
<1> USE ConstantsAssumption, EntryAssumption
<1>0. PICK i \in EntryId : i = posting[t]
  BY DEF IInv, TypeOK, OneSender, RecordAccepted, RecordRejected
<1> DEFINE e == outbox[i]
<1>1. TypeOK /\ UNCHANGED <<sent, received>>
  BY DEF IInv, RecordAccepted, RecordRejected
<1>2. /\ e \in Entry
      /\ e.attempts < MaximumAttempts
      /\ ~e.dead /\ ~e.delivered
  BY <1>0 DEF IInv, TypeOK, OneSender, ScheduledUntilSettled, RecordAccepted, RecordRejected
<1>3. /\ StatusOf(i) = "pending"
      /\ ContentOf(i) = e.payload
      /\ AttemptsOf(i) = e.attempts
  BY <1>2 DEF StatusOf, ContentOf, AttemptsOf
<1>4. ASSUME NEW x \in Entry, outbox' = [outbox EXCEPT ![i] = x],
             x.payload = e.payload, x.attempts = e.attempts + 1
      PROVE  /\ [id \in EntryId |-> ContentOf(id)'] = [id \in EntryId |-> ContentOf(id)]
             /\ [id \in EntryId |-> AttemptsOf(id)'] =
                  [[id \in EntryId |-> AttemptsOf(id)] EXCEPT ![i] = AttemptsOf(i) + 1]
             /\ [id \in EntryId |-> StatusOf(id)'] =
                  [[id \in EntryId |-> StatusOf(id)] EXCEPT ![i] =
                     IF x.delivered THEN "delivered" ELSE IF x.dead THEN "dead" ELSE "pending"]
  <2> HIDE DEF e
  <2>1. ContentOf(i)' = ContentOf(i) /\ AttemptsOf(i)' = AttemptsOf(i) + 1
    BY <1>1, <1>2, <1>3, <1>4, OneEntryChanges
  <2>2. [id \in EntryId |-> ContentOf(id)'] = [id \in EntryId |-> ContentOf(id)]
    BY <1>1, <1>2, <1>4, <2>1, OneEntryChanges
  <2>3. QED
    BY <1>1, <1>2, <1>4, <2>1, <2>2, OneEntryChanges
<1>5. CASE RecordAccepted(t)
  <2> DEFINE x == Accepted(e)
  <2>1. /\ x \in Entry /\ x.payload = e.payload
        /\ x.delivered
    BY <1>2, AcceptedEntry
  <2>2. x.attempts = e.attempts + 1
    BY <1>2 DEF Accepted, Entry
  <2>3. outbox' = [outbox EXCEPT ![i] = x] /\ i \in received
    BY <1>0, <1>5 DEF RecordAccepted, IInv, AcceptedWasReceived
  <2> HIDE DEF x, e
  <2>4. Delivery!Deliver(i)
    BY <1>1, <1>2, <1>3, <1>4, <2>1, <2>2, <2>3 DEF Delivery!Deliver
  <2>5. QED
    BY <1>2, <2>4 DEF Delivery!Next
<1>6. CASE RecordRejected(t)
  <2>1. PICK delay \in Delays(e.attempts + 1) :
          outbox' = [outbox EXCEPT ![i] = Rejected(e, delay)]
    BY <1>0, <1>6 DEF RecordRejected
  <2> DEFINE x == Rejected(e, delay)
  <2>2. delay \in 0 .. MaxDelay
    BY DEF Delays
  <2>3. /\ x \in Entry /\ x.payload = e.payload /\ ~x.delivered
        /\ \/ x.dead /\ x.attempts = MaximumAttempts
           \/ ~x.dead /\ x.attempts < MaximumAttempts
    BY <1>2, <2>2, RejectedEntry
  <2>4. x.attempts = e.attempts + 1
    BY <1>2 DEF Rejected, Entry
  <2> HIDE DEF x, e
  <2>5. x.dead <=> AttemptsOf(i) + 1 = MaximumAttempts
    BY <1>2, <1>3, <2>3, <2>4 DEF Entry
  <2>6. Delivery!Fail(i)
    BY <1>1, <1>2, <1>3, <1>4, <2>1, <2>3, <2>4, <2>5 DEF Delivery!Fail, x
  <2>7. QED
    BY <1>2, <2>6 DEF Delivery!Next
<1>7. QED
  BY <1>5, <1>6

LEMMA RequeueRefines ==
  ASSUME IInv, NEW i \in EntryId, Requeue(i)
  PROVE  [Delivery!Next]_(Delivery!vars)
<1> DEFINE e == outbox[i]
           x == [[[e EXCEPT !.attempts = 0] EXCEPT !.wait = 0] EXCEPT !.dead = FALSE]
<1> USE ConstantsAssumption, EntryAssumption
<1>1. TypeOK /\ UNCHANGED <<sent, received>>
  BY DEF IInv, Requeue
<1>2. e \in Entry /\ e # None /\ e.dead /\ ~e.delivered
  BY DEF Requeue, Requeueable, IInv, TypeOK, ScheduledUntilSettled
<1>3. outbox' = [outbox EXCEPT ![i] = x]
  <2>1. outbox'[i] = x
    BY <1>1 DEF Requeue, TypeOK
  <2>2. QED
    BY <1>1, <2>1 DEF Requeue, TypeOK
<1>4. 0 \in {None} \cup 0 .. MaxDelay /\ 0 \in 0 .. MaximumAttempts
  BY MaxDelayIsNat
<1>5. /\ x \in Entry /\ x.payload = e.payload
      /\ x.attempts = 0 /\ ~x.dead /\ ~x.delivered
  <2> HIDE DEF e
  <2>1. QED
    BY <1>2, <1>4 DEF Entry
<1> HIDE DEF e, x
<1>6. StatusOf(i) = "dead" /\ ContentOf(i) = x.payload
  BY <1>2, <1>5 DEF StatusOf, ContentOf, e
<1>7. StatusOf(i)' = "pending" /\ ContentOf(i)' = ContentOf(i) /\ AttemptsOf(i)' = 0
  BY <1>1, <1>3, <1>5, <1>6, OneEntryChanges
<1>8. [id \in EntryId |-> ContentOf(id)'] = [id \in EntryId |-> ContentOf(id)]
  BY <1>1, <1>3, <1>5, <1>7, OneEntryChanges
<1>9. /\ [id \in EntryId |-> StatusOf(id)'] =
           [[id \in EntryId |-> StatusOf(id)] EXCEPT ![i] = "pending"]
      /\ [id \in EntryId |-> AttemptsOf(id)'] =
           [[id \in EntryId |-> AttemptsOf(id)] EXCEPT ![i] = 0]
  BY <1>1, <1>3, <1>5, <1>7, OneEntryChanges
<1>10. Delivery!Requeue(i)
  BY <1>1, <1>6, <1>8, <1>9 DEF Delivery!Requeue
<1>11. QED
  BY <1>10 DEF Delivery!Next

(* Time moves schedules, which the abstract state does not hold. *)
LEMMA TickRefines ==
  ASSUME IInv, Tick
  PROVE  UNCHANGED Delivery!vars
<1>1. ASSUME NEW id \in EntryId
      PROVE  /\ StatusOf(id)' = StatusOf(id)
             /\ ContentOf(id)' = ContentOf(id)
             /\ AttemptsOf(id)' = AttemptsOf(id)
  <2>1. CASE id \notin Counting
    BY <2>1 DEF Tick, StatusOf, ContentOf, AttemptsOf
  <2>2. CASE id \in Counting
    <3> DEFINE e == outbox[id]
               f == outbox'[id]
    <3>1. e \in Entry /\ e # None
      BY <2>2 DEF IInv, TypeOK, Counting, Stored
    <3>2. f = [e EXCEPT !.wait = e.wait - 1]
      BY <2>2 DEF Tick
    <3>3. f \in [payload : Payload, attempts : 0 .. MaximumAttempts, wait : {e.wait - 1},
                 delivered : BOOLEAN, dead : BOOLEAN]
      BY <3>1, <3>2 DEF Entry
    <3>4. /\ f.payload = e.payload /\ f.attempts = e.attempts
          /\ f.delivered = e.delivered /\ f.dead = e.dead
      BY <3>1, <3>2 DEF Entry
    <3>5. f # None
      <4>1. Tick => TypeOK'
        BY TypeStep DEF Next
      <4>2. e.wait \in 1 .. MaxDelay
        BY <2>2, <3>1, MaxDelayIsNat, ConstantsAssumption DEF Counting, Entry
      <4>3. e.wait - 1 \in 0 .. MaxDelay
        BY <4>2, MaxDelayIsNat
      <4>4. f \in Entry
        BY <3>3, <4>3 DEF Entry
      <4>5. QED
        BY <4>4, EntryAssumption
    <3>6. QED
      BY <3>1, <3>4, <3>5 DEF StatusOf, ContentOf, AttemptsOf
  <2>3. QED
    BY <2>1, <2>2
<1>2. QED
  BY <1>1, SameOutcomes DEF Tick, Delivery!vars

LEMMA RefinementStep ==
  ASSUME IInv, [Next]_vars
  PROVE  [Delivery!Next]_(Delivery!vars)
<1>1. ASSUME NEW t \in Thread, NEW i \in EntryId, Post(t, i)
      PROVE  [Delivery!Next]_(Delivery!vars)
  <2>1. UNCHANGED <<outbox, received>> /\ sent' = sent \cup {i}
    BY <1>1 DEF Post
  <2>2. StatusOf(i) = "pending"
    BY <1>1 DEF Post, IInv, OneSender, StatusOf
  <2>3. Delivery!Send(i)
    BY <2>1, <2>2, SameOutbox DEF Delivery!Send
  <2>4. QED
    BY <2>3 DEF Delivery!Next
<1>2. ASSUME NEW i \in EntryId, i \in sent, received' = received \cup {i},
             UNCHANGED <<outbox, sent>>
      PROVE  [Delivery!Next]_(Delivery!vars)
  <2>1. Delivery!Handle(i)
    BY <1>2, SameOutbox DEF Delivery!Handle
  <2>2. QED
    BY <2>1 DEF Delivery!Next
<1>3. ASSUME NEW t \in Thread, PeerAccepts(t)
      PROVE  [Delivery!Next]_(Delivery!vars)
  <2>1. posting[t] \in EntryId /\ posting[t] \in sent
    BY <1>3 DEF PeerAccepts, IInv, TypeOK, OneSender, PostedWasSent
  <2>2. QED
    BY <1>2, <1>3, <2>1 DEF PeerAccepts
<1>4. ASSUME NEW i \in EntryId, PeerHandles(i)
      PROVE  [Delivery!Next]_(Delivery!vars)
  BY <1>2, <1>4 DEF PeerHandles
<1>5. CASE UNCHANGED <<outbox, sent, received>>
  BY <1>5, SameOutbox DEF Delivery!vars
<1>6. QED
  BY <1>1, <1>3, <1>4, <1>5, EnqueueRefines, RecordRefines, RequeueRefines, TickRefines
     DEF Next, DrainStep, vars, StartDrain, DrainRefused, Skip, PeerFails, PostEscapes,
         FinishDrain, Crash

-----------------------------------------------------------------------------
(* Theorems *)

THEOREM InductiveInvariant == Spec => []IInv
BY InitIInv, InvStep, PTL DEF Spec

(* The outbox, the lock and the drains keep their types. *)
THEOREM TypeCorrect == Spec => []TypeOK
BY InductiveInvariant, PTL DEF IInv

(* An entry is posted and recorded by one thread at a time, and only while *)
(* it is pending. *)
THEOREM SingleSender == Spec => []OneSender
BY InductiveInvariant, PTL DEF IInv

(* Pending entries are scheduled with attempts left; dead letters have     *)
(* used exactly the attempts of the policy. *)
THEOREM AttemptBudget == Spec => []ScheduledUntilSettled
BY InductiveInvariant, PTL DEF IInv

(* What is recorded as delivered was handled by a peer. *)
THEOREM NoFalseDelivery == Spec => []DeliveredWasReceived
BY InductiveInvariant, PTL DEF IInv

(* Entries are never lost, rebound or undelivered.  *)
THEOREM Endurance == Spec => EntriesEndure
<1>1. IInv /\ [Next]_vars =>
        [\A id \in EntryId : outbox[id] # None =>
           /\ outbox'[id] # None
           /\ outbox'[id].payload = outbox[id].payload
           /\ outbox[id].delivered => outbox'[id] = outbox[id]]_vars
  BY EntryEffect DEF Kept
<1>2. QED
  BY <1>1, InductiveInvariant, PTL DEF Spec, EntriesEndure

(* The drains, the routes, time and crashes implement reliable delivery:   *)
(* what is sent was pending, what is recorded as delivered was handled,    *)
(* what is given up has used its attempts, and what is settled stays.      *)
THEOREM Implementation == Spec => ImplementsDelivery
<1>1. IInv /\ [Next]_vars => [Delivery!Next]_(Delivery!vars)
  BY RefinementStep
<1>2. QED
  BY <1>1, RefinementInit, InductiveInvariant, PTL
     DEF Spec, ImplementsDelivery, Delivery!Spec

=============================================================================
