------------------------------- MODULE Outbox -------------------------------
(***************************************************************************)
(* The retrying outbox of implementations/python/exp_http_node.py          *)
(* (ExpHttpNode.enqueue, drain_outbox, _drain_outbox, the delivery worker  *)
(* and the requeue route).  One background worker and the request threads  *)
(* of ThreadingHTTPServer call drain_outbox; delivery_lock, taken without  *)
(* waiting, keeps one drain at a time.  A drain copies the outbox, then    *)
(* for each candidate posts without any lock and records the outcome with  *)
(* one JsonStore.update.  The store is written with os.replace, so every   *)
(* update survives a crash whole or not at all; the threads and the lock   *)
(* do not survive one.                                                     *)
(*                                                                         *)
(* nextAttemptAt is modelled by the time left until it, which Tick counts  *)
(* down.  Candidates are taken from the copy in any order, a               *)
(* generalisation of list order.  The audit trail, lastAttemptAt and       *)
(* lastError are left out: nothing reads them.                             *)
(***************************************************************************)
EXTENDS Integers, FiniteSets

CONSTANTS
  EntryId,
  Payload,            \* destination, path and body of an entry
  Handler,            \* request threads
  None,               \* no entry, no lock holder, no nextAttemptAt
  MaximumAttempts,    \* delivery.maximumAttempts
  InitialBackoff,     \* delivery.initialBackoffMs, in ticks
  MaximumBackoff,     \* delivery.maximumBackoffMs, in ticks
  JitterPercent,      \* 100 * delivery.jitterRatio
  MaxCrashes          \* bound: crashes of the process

Worker == "worker"

Thread == {Worker} \cup Handler

JitterOf(delay) == (delay * JitterPercent) \div 100

MaxDelay == MaximumBackoff + JitterOf(MaximumBackoff)

ASSUME ConstantsAssumption ==
  /\ MaximumAttempts \in Nat \ {0}
  /\ MaximumBackoff \in Nat
  /\ JitterPercent \in 0 .. 100
  /\ MaxCrashes \in Nat
  /\ None \notin EntryId
  /\ None \notin Thread
  /\ None \notin Nat

VARIABLES
  outbox,             \* the durable entries, by identifier
  lock,               \* holder of delivery_lock
  pc,                 \* where each thread is in its drain
  todo,               \* the candidates of its copy not looked at yet
  posting,            \* the candidate it is posting
  workerAlive,        \* the worker thread runs
  sent,               \* ghost: what was ever posted
  received,           \* ghost: what the peers have handled
  crashes

vars == <<outbox, lock, pc, todo, posting, workerAlive, sent, received, crashes>>

Entry ==
  [payload : Payload, attempts : 0 .. MaximumAttempts,
   wait : {None} \cup 0 .. MaxDelay, delivered : BOOLEAN, dead : BOOLEAN]

ASSUME EntryAssumption == None \notin Entry

Pending(entry) == ~entry.delivered /\ ~entry.dead

Stored == {id \in EntryId : outbox[id] # None}

PendingIds == {id \in Stored : Pending(outbox[id])}

TypeOK ==
  /\ outbox \in [EntryId -> {None} \cup Entry]
  /\ lock \in {None} \cup Thread
  /\ pc \in [Thread -> {"idle", "enqueued", "draining", "posting",
                        "accepted", "failed", "stopped"}]
  /\ todo \in [Thread -> SUBSET EntryId]
  /\ posting \in [Thread -> {None} \cup EntryId]
  /\ workerAlive \in BOOLEAN
  /\ sent \in SUBSET EntryId
  /\ received \in SUBSET EntryId
  /\ crashes \in 0 .. MaxCrashes

Init ==
  /\ outbox = [id \in EntryId |-> None]
  /\ lock = None
  /\ pc = [t \in Thread |-> "idle"]
  /\ todo = [t \in Thread |-> {}]
  /\ posting = [t \in Thread |-> None]
  /\ workerAlive = TRUE
  /\ sent = {}
  /\ received = {}
  /\ crashes = 0

-----------------------------------------------------------------------------
(* enqueue: decide and the state-changes route, which then drain with force *)

Enqueued(existing, payload) ==
  IF existing # None THEN existing
  ELSE [payload |-> payload, attempts |-> 0, wait |-> 0,
        delivered |-> FALSE, dead |-> FALSE]

(* OUTBOX_CONFLICT, when the identifier carries another payload, ends the  *)
(* request; enqueueing the same payload again changes nothing but goes on. *)
Enqueue(t, id, payload) ==
  /\ pc[t] = "idle"
  /\ outbox' = [outbox EXCEPT ![id] = Enqueued(@, payload)]
  /\ pc' = [pc EXCEPT ![t] =
              IF outbox'[id].payload = payload THEN "enqueued" ELSE "idle"]
  /\ UNCHANGED <<lock, todo, posting, workerAlive, sent, received, crashes>>

-----------------------------------------------------------------------------
(* drain_outbox *)

(* Mutant: the drain does not ask whether another one holds the lock. *)
LockFreeAlways == TRUE

LockFree == lock = None

Runs(t) == t = Worker => workerAlive

(* The worker after its interval, a request after its enqueue, or the      *)
(* drain route.  Copying the outbox is one step with taking the lock: all  *)
(* a thread could see between the two is the lock. *)
StartDrain(t) ==
  /\ pc[t] \in {"idle", "enqueued"} /\ Runs(t)
  /\ LockFree
  /\ lock' = t
  /\ pc' = [pc EXCEPT ![t] = "draining"]
  /\ todo' = [todo EXCEPT ![t] = PendingIds]
  /\ UNCHANGED <<outbox, posting, workerAlive, sent, received, crashes>>

(* acquire(blocking=False) fails: the request answers without draining. *)
DrainRefused(t) ==
  /\ pc[t] = "enqueued"
  /\ ~LockFree
  /\ pc' = [pc EXCEPT ![t] = "idle"]
  /\ UNCHANGED <<outbox, lock, todo, posting, workerAlive, sent, received, crashes>>

Forced(t) == t # Worker

(* nextAttemptAt of a pending entry is written only by a drain, so its     *)
(* value in the copy is the stored one. *)
Due(t, id) == Forced(t) \/ outbox[id].wait = 0

Skip(t, id) ==
  /\ pc[t] = "draining" /\ id \in todo[t]
  /\ ~Due(t, id)
  /\ todo' = [todo EXCEPT ![t] = @ \ {id}]
  /\ UNCHANGED <<outbox, lock, pc, posting, workerAlive, sent, received, crashes>>

Post(t, id) ==
  /\ pc[t] = "draining" /\ id \in todo[t]
  /\ Due(t, id)
  /\ todo' = [todo EXCEPT ![t] = @ \ {id}]
  /\ posting' = [posting EXCEPT ![t] = id]
  /\ sent' = sent \cup {id}
  /\ pc' = [pc EXCEPT ![t] = "posting"]
  /\ UNCHANGED <<outbox, lock, workerAlive, received, crashes>>

(* The peer handles the request and its 2xx arrives. *)
PeerAccepts(t) ==
  /\ pc[t] = "posting"
  /\ received' = received \cup {posting[t]}
  /\ pc' = [pc EXCEPT ![t] = "accepted"]
  /\ UNCHANGED <<outbox, lock, todo, posting, workerAlive, sent, crashes>>

(* An HTTPError of any status, a URLError, or five seconds in which one    *)
(* read from the socket got nothing. *)
PeerFails(t) ==
  /\ pc[t] = "posting"
  /\ pc' = [pc EXCEPT ![t] = "failed"]
  /\ UNCHANGED <<outbox, lock, todo, posting, workerAlive, sent, received, crashes>>

(* A post that timed out, was cut off or was on the wire in a crash: the   *)
(* peer may handle it at any later time. *)
PeerHandles(id) ==
  /\ id \in sent
  /\ received' = received \cup {id}
  /\ UNCHANGED <<outbox, lock, pc, todo, posting, workerAlive, sent, crashes>>

(* Mutant: no `finally': what escapes keeps the lock. *)
ReleasedOnReturn == lock

ReleasedAlways == None

(* The peer closes the connection without an answer (RemoteDisconnected)   *)
(* or answers 2xx with a body that is not JSON: signed_post raises what    *)
(* _drain_outbox does not catch.  The lock is released; a request ends     *)
(* with 500, the worker's run ends and start_worker is called only once.   *)
PostEscapes(t) ==
  /\ pc[t] = "posting"
  /\ pc' = [pc EXCEPT ![t] = IF t = Worker THEN "stopped" ELSE "idle"]
  /\ workerAlive' = (workerAlive /\ t # Worker)
  /\ lock' = ReleasedAlways
  /\ todo' = [todo EXCEPT ![t] = {}]
  /\ posting' = [posting EXCEPT ![t] = None]
  /\ UNCHANGED <<outbox, sent, received, crashes>>

(* Mutant: delivery is recorded and the schedule is left in place. *)
AcceptedStillScheduled(entry) ==
  [entry EXCEPT !.attempts = @ + 1, !.delivered = TRUE]

Accepted(entry) ==
  [entry EXCEPT !.attempts = @ + 1, !.delivered = TRUE, !.wait = None]

RecordAccepted(t) ==
  /\ pc[t] = "accepted"
  /\ outbox' = [outbox EXCEPT ![posting[t]] = Accepted(@)]
  /\ posting' = [posting EXCEPT ![t] = None]
  /\ pc' = [pc EXCEPT ![t] = "draining"]
  /\ UNCHANGED <<lock, todo, workerAlive, sent, received, crashes>>

Backoff(attempts) ==
  LET exponential == InitialBackoff * 2 ^ (attempts - 1)
  IN  IF exponential <= MaximumBackoff THEN exponential ELSE MaximumBackoff

(* The delays the jitter may choose after that many attempts. *)
Delays(attempts) ==
  LET delay == Backoff(attempts)
  IN  {d \in 0 .. MaxDelay :
         delay - JitterOf(delay) <= d /\ d <= delay + JitterOf(delay)}

Exhausted(attempts) == attempts >= MaximumAttempts

(* Mutant: a failed attempt is not counted. *)
RejectedUncounted(entry, delay) ==
  [entry EXCEPT !.wait = delay]

(* Mutant: giving up is noted where delivery is. *)
RejectedAsDelivered(entry, delay) ==
  LET attempts == entry.attempts + 1 IN
  IF Exhausted(attempts)
  THEN [entry EXCEPT !.attempts = attempts, !.delivered = TRUE, !.wait = None]
  ELSE [entry EXCEPT !.attempts = attempts, !.wait = delay]

Rejected(entry, delay) ==
  LET attempts == entry.attempts + 1 IN
  IF Exhausted(attempts)
  THEN [entry EXCEPT !.attempts = attempts, !.dead = TRUE, !.wait = None]
  ELSE [entry EXCEPT !.attempts = attempts, !.wait = delay]

RecordRejected(t) ==
  /\ pc[t] = "failed"
  /\ \E delay \in Delays(outbox[posting[t]].attempts + 1) :
       outbox' = [outbox EXCEPT ![posting[t]] = Rejected(@, delay)]
  /\ posting' = [posting EXCEPT ![t] = None]
  /\ pc' = [pc EXCEPT ![t] = "draining"]
  /\ UNCHANGED <<lock, todo, workerAlive, sent, received, crashes>>

FinishDrain(t) ==
  /\ pc[t] = "draining" /\ todo[t] = {}
  /\ lock' = None
  /\ pc' = [pc EXCEPT ![t] = "idle"]
  /\ UNCHANGED <<outbox, todo, posting, workerAlive, sent, received, crashes>>

-----------------------------------------------------------------------------
(* The requeue route, time, and the process *)

Requeueable(entry) == entry.dead

Requeue(id) ==
  /\ outbox[id] # None /\ Requeueable(outbox[id])
  /\ outbox' = [outbox EXCEPT ![id].attempts = 0, ![id].wait = 0,
                              ![id].dead = FALSE]
  /\ UNCHANGED <<lock, pc, todo, posting, workerAlive, sent, received, crashes>>

Counting == {id \in Stored : outbox[id].wait # None /\ outbox[id].wait # 0}

Tick ==
  /\ Counting # {}
  /\ outbox' = [id \in EntryId |->
                  IF id \in Counting
                  THEN [outbox[id] EXCEPT !.wait = @ - 1] ELSE outbox[id]]
  /\ UNCHANGED <<lock, pc, todo, posting, workerAlive, sent, received, crashes>>

(* The process stops and starts again from the file: main starts a worker. *)
Crash ==
  /\ crashes < MaxCrashes
  /\ crashes' = crashes + 1
  /\ lock' = None
  /\ pc' = [t \in Thread |-> "idle"]
  /\ todo' = [t \in Thread |-> {}]
  /\ posting' = [t \in Thread |-> None]
  /\ workerAlive' = TRUE
  /\ UNCHANGED <<outbox, sent, received>>

(* What happens next to a thread inside drain_outbox. *)
DrainStep(t) ==
  \/ \E id \in EntryId : Skip(t, id) \/ Post(t, id)
  \/ PeerAccepts(t)
  \/ PeerFails(t)
  \/ PostEscapes(t)
  \/ RecordAccepted(t)
  \/ RecordRejected(t)
  \/ FinishDrain(t)

Next ==
  \/ \E t \in Handler, id \in EntryId, payload \in Payload : Enqueue(t, id, payload)
  \/ \E t \in Thread : StartDrain(t) \/ DrainRefused(t) \/ DrainStep(t)
  \/ \E id \in EntryId : PeerHandles(id) \/ Requeue(id)
  \/ Tick
  \/ Crash

Spec == Init /\ [][Next]_vars

(* What the thread does by itself: everything but the end of a post. *)
OwnStep(t) == pc[t] # "posting" /\ DrainStep(t)

(* The worker wakes after its interval and a thread inside a drain goes on.*)
(* Nothing makes requests arrive, and nothing ends a post: timeout=5       *)
(* bounds each wait on the socket, so a peer that goes on sending a byte   *)
(* now and then keeps response.read(), and the lock, for ever. *)
Fairness ==
  /\ WF_vars(StartDrain(Worker))
  /\ \A t \in Thread : WF_vars(OwnStep(t))
  /\ WF_vars(Tick)

FairSpec == Spec /\ Fairness

-----------------------------------------------------------------------------
(* Properties *)

(* Only the holder of delivery_lock is inside a drain, what it has still   *)
(* to look at is pending, and what it posts or records is pending: no      *)
(* entry is sent by two threads, sent after its delivery was recorded, or  *)
(* recorded twice. *)
OneSender ==
  \A t \in Thread :
    /\ pc[t] \in {"draining", "posting", "accepted", "failed"} <=> lock = t
    /\ \A id \in todo[t] \cup ({posting[t]} \ {None}) :
         /\ outbox[id] # None
         /\ ~outbox[id].delivered /\ ~outbox[id].dead
    /\ posting[t] \notin todo[t]
    /\ posting[t] # None <=> pc[t] \in {"posting", "accepted", "failed"}

(* A pending entry is always scheduled and still has attempts left, so the *)
(* worker, which reads nextAttemptAt, meets one on each; a dead letter has *)
(* used exactly its attempts, whatever mixture of worker, forced drains,   *)
(* requeues and crashes made them. *)
ScheduledUntilSettled ==
  \A id \in EntryId : outbox[id] # None =>
    LET entry == outbox[id] IN
    /\ ~(entry.delivered /\ entry.dead)
    /\ entry.wait # None <=> ~entry.delivered /\ ~entry.dead
    /\ entry.wait # None => entry.attempts < MaximumAttempts
    /\ entry.dead => entry.attempts = MaximumAttempts

(* What the outbox records as delivered a peer has handled. *)
DeliveredWasReceived ==
  \A id \in EntryId :
    outbox[id] # None /\ outbox[id].delivered => id \in received

(* An entry is never lost or bound to something else, and a delivered one  *)
(* never goes back to pending, across requeues and crashes. *)
EntriesEndure ==
  [][\A id \in EntryId : outbox[id] # None =>
       /\ outbox'[id] # None
       /\ outbox'[id].payload = outbox[id].payload
       /\ outbox[id].delivered => outbox'[id] = outbox[id]]_vars

(* No peer keeps a thread in its post for ever: what the properties below  *)
(* assume of the peers, since nothing in the code sees to it. *)
PostsEnd == \A t \in Thread : []<>(pc[t] # "posting")

(* As long as no peer keeps a post for ever: every pending entry is        *)
(* delivered or dead-lettered, again after each requeue and each restart,  *)
(* without any request thread's help, unless posts keep escaping the       *)
(* drain's except or the worker thread has died of one. *)
SettlesUnlessEscaped ==
  PostsEnd /\ <>[][\A t \in Thread : ~PostEscapes(t)]_vars =>
    \A id \in EntryId :
      (outbox[id] # None /\ ~outbox[id].delivered /\ ~outbox[id].dead)
        ~> \/ outbox[id] # None /\ (outbox[id].delivered \/ outbox[id].dead)
           \/ ~workerAlive

(* implementations/python/README.md, "a retrying outbox": every entry      *)
(* settles, without the exception of escaping posts, once requests leave   *)
(* the outbox to the worker.  One post that escapes the drain's except     *)
(* refutes it: the worker is dead from then on. *)
EveryEntrySettles ==
  PostsEnd /\ <>[](\A t \in Handler : pc[t] = "idle") => \A id \in EntryId :
    (outbox[id] # None /\ ~outbox[id].delivered /\ ~outbox[id].dead)
      ~> (outbox[id] # None /\ (outbox[id].delivered \/ outbox[id].dead))

(* Only a post that never ends keeps the lock: no drain, whatever else its *)
(* posts meet, shuts the others out for ever. *)
LockIsReleased == PostsEnd => (lock # None ~> lock = None)

-----------------------------------------------------------------------------
(* What the outbox stands for: reliable delivery.                          *)

StatusOf(id) ==
  IF outbox[id] = None THEN "absent"
  ELSE IF outbox[id].delivered THEN "delivered"
  ELSE IF outbox[id].dead THEN "dead"
  ELSE "pending"

ContentOf(id) == IF outbox[id] = None THEN None ELSE outbox[id].payload

AttemptsOf(id) == IF outbox[id] = None THEN 0 ELSE outbox[id].attempts

Delivery == INSTANCE ReliableDelivery WITH
  status <- [id \in EntryId |-> StatusOf(id)],
  content <- [id \in EntryId |-> ContentOf(id)],
  attempts <- [id \in EntryId |-> AttemptsOf(id)],
  sent <- sent,
  handled <- received

(* Every step of a drain, of the routes, of time and of a crash is a step  *)
(* of reliable delivery or leaves it alone: what was sent, recorded and    *)
(* given up agrees, whatever threads, requeues and crashes interleave      *)
(* (269-280, 290-327, 540-548). *)
ImplementsDelivery == Delivery!Spec

=============================================================================
