------------------------- MODULE InMemoryTransport -------------------------
(***************************************************************************)
(* The in-memory carrier of src/in-memory-transport.ts: the hub that two   *)
(* endpoints share, its replay map, and the delivery of a request within   *)
(* the caller's budget.                                                    *)
(*                                                                         *)
(* deliver is an async function: it runs without interruption up to an     *)
(* await.  With a verifier it suspends at line 128, after the budget and   *)
(* the expiry were checked and before the nonce is claimed, and it claims  *)
(* with the time it read at its start.  Without one, everything up to the  *)
(* call of the handler is one step.                                        *)
(*                                                                         *)
(* There are two clocks.  Every comparison uses the endpoint's now(), the  *)
(* timer of a deadline is set and runs by Date.now() (179), and the two    *)
(* need not agree.  A delay setTimeout cannot hold fires after 1 ms.       *)
(* The endpoints of a hub are taken to share one now(), neither clock to   *)
(* be set back, and the times of requests and options to be dates.         *)
(*                                                                         *)
(* External: the handler and the verifier may answer, fail or never        *)
(* return, and whether a request's sender, recipient and signature fit.    *)
(***************************************************************************)
EXTENDS Integers

CONSTANTS
  Send,               \* calls of send
  Key,                \* senderId:nonce of a request
  Request,            \* what requests carry: a key and an expiry
  Options,            \* what callers ask for: a deadline, a signal or not
  Verifying,          \* the keys whose receiving endpoint has a verifier
  Never,              \* no expiresAt, no deadlineAt, not handled
  Nothing,            \* no call yet, no entry, no answer
  MaxDelay,           \* the longest delay of setTimeout, 2^31 - 1 ms
  MaxTime             \* bound: the clocks run from 0 to MaxTime

Time == 0 .. MaxTime
Instant == {Never} \cup Nat

Settled == {"accepted", "failed"}
Budget == {"REQUEST_CANCELLED", "DEADLINE_EXCEEDED"}
Refused == {"MISMATCH", "REQUEST_EXPIRED", "SIGNATURE", "NONCE_REPLAY"}

(* A call of send, with the time it read at its start. *)
Call == [key : Key, expiresAt : Instant, deadlineAt : Instant,
         signal : BOOLEAN, at : Time]

ASSUME TransportAssumption ==
  /\ Verifying \subseteq Key
  /\ MaxDelay \in Nat
  /\ MaxTime \in Nat
  /\ Never \notin Nat
  /\ Nothing \notin Instant \cup Settled \cup Budget \cup Refused
  /\ Nothing \notin Call
  /\ Request \subseteq [key : Key, expiresAt : Instant]
  /\ Options \subseteq [deadlineAt : Instant, signal : BOOLEAN]

VARIABLES
  now,                \* the endpoint's now()
  wall,               \* Date.now()
  replayed,           \* the hub's map: key -> expiry, or Nothing
  call,               \* the call each send made, or Nothing
  aborted,            \* the sends whose signal is aborted
  verifying,          \* the sends suspended at the verifier
  handledAt,          \* when the handler was called for a send, by now
  armedAt,            \* when the timer of a send was set, by wall
  handling,           \* the sends whose handler has not returned
  answer              \* how each send settled, or Nothing

clocks == <<now, wall>>
timed == <<handledAt, armedAt>>
vars == <<clocks, replayed, call, aborted, verifying, timed, handling, answer>>

TypeOK ==
  /\ now \in Time
  /\ wall \in Time
  /\ replayed \in [Key -> {Nothing} \cup Instant]
  /\ call \in [Send -> {Nothing} \cup Call]
  /\ aborted \in SUBSET Send
  /\ verifying \in SUBSET Send
  /\ handledAt \in [Send -> Instant]
  /\ armedAt \in [Send -> Instant]
  /\ handling \in SUBSET Send
  /\ answer \in [Send -> {Nothing} \cup Settled \cup Budget \cup Refused]

Init ==
  /\ now = 0
  /\ wall = 0
  /\ replayed = [k \in Key |-> Nothing]
  /\ call = [s \in Send |-> Nothing]
  /\ aborted = {}
  /\ verifying = {}
  /\ handledAt = [s \in Send |-> Never]
  /\ armedAt = [s \in Send |-> Never]
  /\ handling = {}
  /\ answer = [s \in Send |-> Nothing]

Open(s) == call[s] # Nothing /\ answer[s] = Nothing

Answer(s, a) == answer' = [answer EXCEPT ![s] = a]

-----------------------------------------------------------------------------
(* claim *)

Expired(at, t) == at # Never /\ at <= t

Purged(t) ==
  [k \in Key |-> IF replayed[k] # Nothing /\ Expired(replayed[k], t)
                   THEN Nothing ELSE replayed[k]]

(* Mutant: a nonce is claimed with the caller's deadline. *)
ClaimedForDeadline(c) == [Purged(c.at) EXCEPT ![c.key] = c.deadlineAt]

Claimed(c) == [Purged(c.at) EXCEPT ![c.key] = c.expiresAt]

Replay(c) == Purged(c.at)[c.key] # Nothing

(* When the timer of a call is set, if it has a deadline. *)
Armed(c) == IF c.deadlineAt = Never THEN Never ELSE wall

(* The handler is called.  A budget already spent answers at once, unless  *)
(* the handler's promise is settled already, which goes first in the race. *)
Handle(s, c) ==
  /\ replayed' = Claimed(c)
  /\ handledAt' = [handledAt EXCEPT ![s] = now]
  /\ armedAt' = [armedAt EXCEPT ![s] = Armed(c)]
  /\ \/ /\ \/ s \notin aborted /\ UNCHANGED answer
           \/ s \in aborted /\ Answer(s, "REQUEST_CANCELLED")
        /\ handling' = handling \cup {s}
     \/ \E result \in Settled : Answer(s, result) /\ UNCHANGED handling

(* The end of deliver: claim, then the handler or NONCE_REPLAY. *)
Deliver(s, c) ==
  \/ /\ Replay(c)
     /\ replayed' = Purged(c.at)
     /\ Answer(s, "NONCE_REPLAY")
     /\ UNCHANGED <<timed, handling>>
  \/ /\ ~Replay(c)
     /\ Handle(s, c)

-----------------------------------------------------------------------------
(* deliver, up to the first await *)

(* Mutant: the expiry of a request is not checked. *)
RefusalsUnexpiring(c) == {"MISMATCH"}

(* What refuses a request before its nonce is claimed; sender, recipient   *)
(* and a missing signature are external. *)
Refusals(c) == {"MISMATCH"} \cup IF Expired(c.expiresAt, now) THEN {"REQUEST_EXPIRED"} ELSE {}

(* The error of the budget at the start. *)
BudgetError(c, cancelled) ==
  IF cancelled THEN {"REQUEST_CANCELLED"}
  ELSE IF Expired(c.deadlineAt, now) THEN {"DEADLINE_EXCEEDED"} ELSE {}

Begin(s, r, o, cancelled) ==
  LET c == [key |-> r.key, expiresAt |-> r.expiresAt,
            deadlineAt |-> o.deadlineAt, signal |-> o.signal, at |-> now]
  IN
  /\ call[s] = Nothing
  /\ cancelled => o.signal
  /\ call' = [call EXCEPT ![s] = c]
  /\ aborted' = IF cancelled THEN aborted \cup {s} ELSE aborted
  /\ \/ \E error \in IF BudgetError(c, cancelled) # {} THEN BudgetError(c, cancelled)
                                                       ELSE Refusals(c) :
          /\ Answer(s, error)
          /\ UNCHANGED <<replayed, verifying, timed, handling>>
     \/ /\ BudgetError(c, cancelled) = {}
        /\ "REQUEST_EXPIRED" \notin Refusals(c)
        /\ IF c.key \in Verifying
             THEN /\ verifying' = verifying \cup {s}
                  /\ UNCHANGED <<replayed, timed, handling, answer>>
             ELSE /\ Deliver(s, c)
                  /\ UNCHANGED verifying
  /\ UNCHANGED clocks

(* The verifier accepted the signature: the rest runs with the time read   *)
(* at the start, and neither budget nor expiry is looked at again. *)
Verified(s) ==
  /\ s \in verifying
  /\ verifying' = verifying \ {s}
  /\ Deliver(s, call[s])
  /\ UNCHANGED <<clocks, call, aborted>>

(* Mutant: the nonce is claimed before the signature is known to hold. *)
NotVerifiedClaimed(s) ==
  /\ s \in verifying
  /\ verifying' = verifying \ {s}
  /\ replayed' = Claimed(call[s])
  /\ \E error \in {"SIGNATURE", "failed"} : Answer(s, error)
  /\ UNCHANGED <<clocks, call, aborted, timed, handling>>

(* INVALID_SIGNATURE, or the verifier threw. *)
NotVerified(s) ==
  /\ s \in verifying
  /\ verifying' = verifying \ {s}
  /\ \E error \in {"SIGNATURE", "failed"} : Answer(s, error)
  /\ UNCHANGED <<clocks, replayed, call, aborted, timed, handling>>

-----------------------------------------------------------------------------
(* withBudget *)

(* The handler's promise settles; after the budget won, to no effect. *)
HandlerReturns(s, result) ==
  /\ s \in handling
  /\ handling' = handling \ {s}
  /\ answer' = IF Open(s) THEN [answer EXCEPT ![s] = result] ELSE answer
  /\ UNCHANGED <<clocks, replayed, call, aborted, verifying, timed>>

TimerRuns(s) == Open(s) /\ s \in handling

(* The delay of the timer is beyond the range of setTimeout. *)
Overlong(s) == call[s].deadlineAt - armedAt[s] > MaxDelay

(* The timer fires at the deadline, at once when the delay is not positive *)
(* or out of range. *)
Due(s) ==
  /\ armedAt[s] # Never
  /\ Overlong(s) \/ call[s].deadlineAt <= wall

Timeout(s) ==
  /\ TimerRuns(s)
  /\ Due(s)
  /\ Answer(s, "DEADLINE_EXCEEDED")
  /\ UNCHANGED <<clocks, replayed, call, aborted, verifying, timed, handling>>

(* The listener is registered: the handler was called and has not answered.*)
Cancels(s) == Open(s) /\ s \in handling

(* The caller aborts.  While the signature is verified nothing listens. *)
Abort(s) ==
  /\ Open(s)
  /\ call[s].signal
  /\ s \notin aborted
  /\ aborted' = aborted \cup {s}
  /\ IF Cancels(s) THEN Answer(s, "REQUEST_CANCELLED") ELSE UNCHANGED answer
  /\ UNCHANGED <<clocks, replayed, call, verifying, timed, handling>>

Carried == <<replayed, call, aborted, verifying, timed, handling, answer>>

Tick ==
  /\ now < MaxTime
  /\ now' = now + 1
  /\ UNCHANGED <<wall, Carried>>

WallTick ==
  /\ wall < MaxTime
  /\ wall' = wall + 1
  /\ UNCHANGED <<now, Carried>>

Next ==
  \/ \E s \in Send :
       \/ \E r \in Request, o \in Options, cancelled \in BOOLEAN : Begin(s, r, o, cancelled)
       \/ Verified(s)
       \/ NotVerified(s)
       \/ \E result \in Settled : HandlerReturns(s, result)
       \/ Timeout(s)
       \/ Abort(s)
  \/ Tick
  \/ WallTick

Spec == Init /\ [][Next]_vars

(* Time passes and a due timer fires.  Nothing is assumed of the handlers, *)
(* the callers, the verifiers and now(). *)
Fairness == WF_vars(WallTick) /\ \A s \in Send : WF_vars(Timeout(s))

-----------------------------------------------------------------------------
(* Properties *)

Handled(s) == handledAt[s] # Never

(* A nonce is not accepted again before the request it was accepted with   *)
(* has expired, however long the verifier takes: of two requests handled   *)
(* with one nonce, one was handled after the other had expired. *)
NonceHeldWhileValid ==
  \A s, u \in Send :
    Handled(s) /\ Handled(u) /\ s # u /\ call[s].key = call[u].key =>
      \/ call[s].expiresAt # Never /\ call[s].expiresAt <= handledAt[u]
      \/ call[u].expiresAt # Never /\ call[u].expiresAt <= handledAt[s]

(* in-memory-transport.ts:55: concurrent sends of the same request cannot  *)
(* both be accepted.  A verifier slower than the request's life breaks it. *)
SameRequestOnce ==
  \A s, u \in Send :
    Handled(s) /\ Handled(u) /\ s # u =>
      \/ call[s].key # call[u].key
      \/ call[s].expiresAt # call[u].expiresAt

(* At an endpoint without a verifier it holds, and the nonces of a         *)
(* verifying endpoint that shares the hub do not disturb it. *)
DirectRequestOnce ==
  \A s, u \in Send :
    Handled(s) /\ Handled(u) /\ s # u =>
      \/ call[s].key \in Verifying
      \/ call[s].key # call[u].key
      \/ call[s].expiresAt # call[u].expiresAt

(* What DEADLINE_EXCEEDED can mean: the deadline has passed by one of the  *)
(* clocks, or the handler was called so long before it that its timer      *)
(* fired at once (179-184). *)
DeadlineSpent(s) ==
  /\ call[s].deadlineAt # Never
  /\ \/ call[s].deadlineAt <= now
     \/ call[s].deadlineAt <= wall
     \/ armedAt[s] # Never /\ Overlong(s)

AnswerIsTrueOf(s) ==
  /\ answer[s] \in Refused => ~Handled(s)
  /\ answer[s] = "accepted" => Handled(s) /\ s \notin handling
  /\ answer[s] = "NONCE_REPLAY" =>
       \E u \in Send : Handled(u) /\ u # s /\ call[u].key = call[s].key
  /\ answer[s] = "REQUEST_CANCELLED" => s \in aborted
  /\ answer[s] = "DEADLINE_EXCEEDED" => DeadlineSpent(s)

(* What the caller is told is what happened: a refused request never       *)
(* reached the handler and an accepted one did, a replay has an earlier    *)
(* request with its nonce, and the budget's errors have their cause, but   *)
(* for a deadline too far for its timer. *)
AnswerIsTrue == \A s \in Send : AnswerIsTrueOf(s)

(* The promise of a send settles once: neither a late handler, nor a late  *)
(* timer or abort, changes what the caller was told. *)
AnswerIsFinal ==
  [][\A s \in Send : answer[s] # Nothing => answer'[s] = answer[s]]_vars

(* A caller with a deadline gets an answer even when the handler never     *)
(* returns, once the verifier has: no timer runs while it is awaited. *)
DeadlineSettles ==
  \A s \in Send :
    (call[s] # Nothing /\ s \notin verifying /\ call[s].deadlineAt # Never)
      ~> answer[s] # Nothing

=============================================================================
