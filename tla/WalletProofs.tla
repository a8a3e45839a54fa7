----------------------------- MODULE WalletProofs -----------------------------
(***************************************************************************)
(* Theorems about Wallet for every application, model, view definition,    *)
(* approval, deadline and timeout.                                         *)
(***************************************************************************)
EXTENDS Wallet, SequenceTheorems, WellFoundedInduction, TLAPS

(* The reason of an abort is written by a callback and read much later, by *)
(* the catch block: it must have been true when it was written and still   *)
(* be true of the request then. *)
ReasonIsReal(k) ==
  /\ k.reason = "caller" => k.signal /\ aborted
  /\ k.reason = "timeout" => k.since + timeoutMs <= now \/ Overlong(k)
  /\ k.reason = "deadline" =>
       k.deadlineAt # None /\ (k.deadlineAt <= now \/ Overlong(k))
  /\ k.listener => k.signal

(* And so is the outcome of a request that ended. *)
OutcomeIsReal(c, k) ==
  /\ k.outcome = "REQUEST_CANCELLED" => k.signal /\ aborted
  /\ k.outcome = "REQUEST_TIMEOUT" => k.since + timeoutMs <= now \/ Overlong(k)
  /\ k.outcome = "DEADLINE_EXCEEDED" =>
       k.deadlineAt # None /\ (k.deadlineAt <= now \/ Overlong(k))
  /\ c = "retrieve" /\ k.reason # None =>
       k.outcome \in {"ok", "REQUEST_CANCELLED", "REQUEST_TIMEOUT", "DEADLINE_EXCEEDED"}
  /\ ~k.timer /\ ~k.listener

CallInv ==
  \A c \in Fetching : call[c] \in Managed =>
    /\ ReasonIsReal(call[c])
    /\ Closed(c) => OutcomeIsReal(c, call[c])

(* The verifier is asked about a body whose origins are those of the       *)
(* endpoint. *)
Bound(b) == b \in Connect /\ b.origin = uri.origin /\ b.callback = uri.origin

RequestInv ==
  /\ call["retrieve"].state = "verify" => Bound(call["retrieve"].body)
  /\ request # None => Bound(request) /\ request.trusted /\ Closed("retrieve")

(* What createPresentation established when it built the presentation, as  *)
(* far as the passing of time leaves it true. *)
PresentationInv ==
  presentation # None =>
    /\ request # None
    /\ presentation.audience = request.origin
    /\ presentation.view = Materialize(source.model, source.definition)
    /\ presentation.principal = presentation.view.entity
    /\ presentation.scopes \subseteq request.scopes
    /\ presentation.expiresAt <= request.expiresAt
    /\ Covers(presentation)

IInv == TypeOK /\ CallInv /\ RequestInv /\ PresentationInv
-----------------------------------------------------------------------------
(* Managed requests *)

LEMMA OpenIsManaged ==
  ASSUME TypeOK, NEW c \in Fetching, Open(c)
  PROVE  call[c] \in Managed
BY DEF TypeOK, Open, Unopened

LEMMA SinceIsManaged ==
  ASSUME TypeOK, NEW c \in Fetching, "since" \in DOMAIN call[c]
  PROVE  call[c] \in Managed
BY DEF TypeOK, Unopened

LEMMA EndedFields ==
  ASSUME NEW k \in Managed, NEW o \in Code \cup {"ok"}
  PROVE  /\ Ended(k, o) \in Managed
         /\ Ended(k, o).state = "closed" /\ Ended(k, o).outcome = o
         /\ ~Ended(k, o).timer /\ ~Ended(k, o).listener
         /\ Ended(k, o).since = k.since /\ Ended(k, o).deadlineAt = k.deadlineAt
         /\ Ended(k, o).signal = k.signal /\ Ended(k, o).reason = k.reason
BY DEF Managed, Ended

(* The causes that only a reason may name. *)
Cause == {"REQUEST_CANCELLED", "REQUEST_TIMEOUT", "DEADLINE_EXCEEDED"}

(* What the catch blocks report is the reason, if there is one. *)
LEMMA FailureCause ==
  ASSUME NEW k \in Managed, NEW code \in Code \ Cause
  PROVE  /\ Failure(k, code) \in Code
         /\ k.reason # None => Failure(k, code) \in Cause
         /\ Failure(k, code) = "REQUEST_CANCELLED" => k.reason = "caller"
         /\ Failure(k, code) = "REQUEST_TIMEOUT" => k.reason = "timeout"
         /\ Failure(k, code) = "DEADLINE_EXCEEDED" => k.reason = "deadline"
<1>1. k.reason \in Reason \cup {None}
  BY DEF Managed
<1>2. QED
  BY <1>1 DEF Failure, Cause, Code, Reason

(* What is true of a reason and of an outcome stays true. *)
LEMMA CausesStay ==
  ASSUME NEW k \in Managed, NEW c, now \in Nat, now' \in Nat,
         now <= now', aborted => aborted',
         timeoutMs \in Nat, timeoutMs' = timeoutMs
  PROVE  /\ ReasonIsReal(k) => ReasonIsReal(k)'
         /\ OutcomeIsReal(c, k) => OutcomeIsReal(c, k)'
<1>1. k.since \in Nat /\ (k.deadlineAt # None => k.deadlineAt \in Nat)
  <2>1. k.since \in 0..MaxTime /\ k.deadlineAt \in Deadline \cup {None}
    BY DEF Managed
  <2>2. Deadline \subseteq Nat /\ MaxTime \in Nat
    BY WalletAssumption
  <2>3. k.since \in Nat
    BY <2>1, <2>2
  <2>4. k.deadlineAt # None => k.deadlineAt \in Nat
    BY <2>1, <2>2
  <2>5. QED
    BY <2>3, <2>4
<1>2. Overlong(k)' <=> Overlong(k)
  BY DEF Overlong, Delay, DeadlineFirst
<1>3. QED
  BY <1>1, <1>2 DEF ReasonIsReal, OutcomeIsReal

(* A request that fails reports a cause that is real. *)
LEMMA FailedIsReal ==
  ASSUME NEW c, NEW k \in Managed, NEW code \in Code \ Cause, ReasonIsReal(k)
  PROVE  /\ ReasonIsReal(Ended(k, Failure(k, code)))
         /\ OutcomeIsReal(c, Ended(k, Failure(k, code)))
<1> DEFINE e == Ended(k, Failure(k, code))
<1>1. Failure(k, code) \in Code
  BY FailureCause
<1>2. /\ e.state = "closed" /\ e.outcome = Failure(k, code)
      /\ ~e.timer /\ ~e.listener
      /\ e.since = k.since /\ e.deadlineAt = k.deadlineAt
      /\ e.signal = k.signal /\ e.reason = k.reason
  BY <1>1, EndedFields
<1> HIDE DEF e
<1>3. ReasonIsReal(e)
  BY <1>2 DEF ReasonIsReal, Overlong, Delay, DeadlineFirst
<1>4. OutcomeIsReal(c, e)
  BY <1>2, FailureCause DEF ReasonIsReal, OutcomeIsReal, Cause, Overlong, Delay, DeadlineFirst
<1>5. QED
  BY <1>3, <1>4 DEF e

(* A request that got its answer blames nothing. *)
LEMMA AnsweredIsReal ==
  ASSUME NEW c, NEW k \in Managed, ReasonIsReal(k), NEW o \in {"ok", "REQUEST_REJECTED"},
         c = "retrieve" => o = "ok"
  PROVE  ReasonIsReal(Ended(k, o)) /\ OutcomeIsReal(c, Ended(k, o))
<1> DEFINE e == Ended(k, o)
<1>1. /\ e.outcome = o
      /\ ~e.timer /\ ~e.listener
      /\ e.since = k.since /\ e.deadlineAt = k.deadlineAt
      /\ e.signal = k.signal /\ e.reason = k.reason
  BY EndedFields DEF Code
<1> HIDE DEF e
<1>2. ReasonIsReal(e) /\ OutcomeIsReal(c, e)
  BY <1>1 DEF ReasonIsReal, OutcomeIsReal, Overlong, Delay, DeadlineFirst
<1>3. QED
  BY <1>2 DEF e
LEMMA StartedIsReal ==
  ASSUME now \in 0..MaxTime, NEW options \in Option
  PROVE  /\ Started(options) \in Managed
         /\ Started(options).state = "fetch"
         /\ ReasonIsReal(Started(options))
<1>1. None \notin Reason
  BY WalletAssumption
<1>2. Started(options) \in Managed
  BY DEF Option, Started, Managed
<1>3. QED
  BY <1>1, <1>2 DEF Started, ReasonIsReal, Reason, Overlong, Delay, DeadlineFirst

LEMMA FiredIsReal ==
  ASSUME now \in Nat, timeoutMs \in Nat, NEW k \in Managed, Due(k) <= now, ReasonIsReal(k)
  PROVE  /\ Fired(k) \in Managed
         /\ Fired(k).state = k.state /\ Fired(k).body = k.body
         /\ ReasonIsReal(Fired(k))
<1>1. TimerReason(k) \in Reason
  BY DEF TimerReason, Reason
<1>2. Fired(k) \in Managed
  BY <1>1 DEF Fired, Managed
<1>3. /\ Fired(k).state = k.state /\ Fired(k).body = k.body
      /\ Fired(k).since = k.since /\ Fired(k).deadlineAt = k.deadlineAt
      /\ Fired(k).signal = k.signal /\ Fired(k).listener = k.listener
      /\ Fired(k).reason = TimerReason(k)
  BY DEF Fired, Managed
<1>4. ReasonIsReal(Fired(k))
  <2>1. k.since \in Nat /\ (DeadlineFirst(k) => k.deadlineAt \in Nat)
    <3>1. k.since \in 0..MaxTime /\ k.deadlineAt \in Deadline \cup {None}
      BY DEF Managed
    <3>2. Deadline \subseteq Nat /\ MaxTime \in Nat
      BY WalletAssumption
    <3>3. k.since \in Nat
      BY <3>1, <3>2
    <3>4. DeadlineFirst(k) => k.deadlineAt # None
      BY Zenon DEF DeadlineFirst
    <3>5. QED
      BY <3>1, <3>2, <3>3, <3>4
  <2>2. Overlong(Fired(k)) <=> Overlong(k)
    BY <1>3 DEF Overlong, Delay, DeadlineFirst
  <2>3. ~Overlong(k) => k.since + Delay(k) <= now
    BY DEF Due
  <2>4. CASE DeadlineFirst(k)
    <3>1. k.deadlineAt # None /\ (k.deadlineAt <= now \/ Overlong(k))
      BY <2>1, <2>3, <2>4 DEF DeadlineFirst, Delay
    <3>2. QED
      BY <1>3, <2>2, <2>4, <3>1 DEF ReasonIsReal, TimerReason
  <2>5. CASE ~DeadlineFirst(k)
    <3>1. k.since + timeoutMs <= now \/ Overlong(k)
      BY <2>3, <2>5 DEF Delay
    <3>2. QED
      BY <1>3, <2>2, <2>5, <3>1 DEF ReasonIsReal, TimerReason
  <2>6. QED
    BY <2>4, <2>5
<1>5. QED
  BY <1>2, <1>3, <1>4

LEMMA CancelledFields ==
  ASSUME NEW k \in Managed
  PROVE  /\ Cancelled(k) \in Managed
         /\ Cancelled(k).state = k.state /\ Cancelled(k).body = k.body
         /\ Cancelled(k).signal = k.signal
         /\ Cancelled(k).reason = "caller" /\ ~Cancelled(k).listener
BY DEF Managed, Cancelled, Reason

-----------------------------------------------------------------------------
(* Type correctness *)

LEMMA BindingErrorCode ==
  ASSUME NEW b, BindingError(b) # None
  PROVE  BindingError(b) \in Code \ Cause
BY DEF BindingError, Code, Cause

LEMMA ManagedRequestTypes ==
  ASSUME TypeOK, NEW options \in Option
  PROVE  ManagedRequest(options) \in Managed \cup Unopened
<1>1. Started(options) \in Managed
  BY StartedIsReal DEF TypeOK
<1>2. \A code \in Code : Refused(code) \in Unopened
  BY DEF Refused, Unopened
<1>3. QED
  BY <1>1, <1>2 DEF ManagedRequest, Code

LEMMA PresentationTypes ==
  ASSUME TypeOK, request # None, NEW approval \in Approval
  PROVE  PresentationFor(request, approval) \in Presentation
<1>1. request \in Connect
  BY DEF TypeOK
<1>2. Materialize(source.model, source.definition)
        \in {Materialize(m, d) : m \in Model, d \in Definition}
  BY DEF TypeOK
<1> HIDE DEF Materialize
<1>3. QED
  BY <1>1, <1>2 DEF PresentationFor, Presentation


-----------------------------------------------------------------------------
(* Every step leaves the calls well typed and their causes real. *)

CallsTyped == call \in [Fetching -> Managed \cup Unopened]

LEMMA OneCallChanges ==
  ASSUME TypeOK, CallInv, UNCHANGED <<now, aborted, timeoutMs>>,
         NEW c \in Fetching, NEW k \in Managed \cup Unopened,
         call' = [call EXCEPT ![c] = k],
         k \in Managed => ReasonIsReal(k),
         k \in Managed /\ k.state = "closed" => OutcomeIsReal(c, k)
  PROVE  CallsTyped' /\ CallInv'
<1>1. CallsTyped'
  BY DEF TypeOK, CallsTyped
<1>2. /\ call'[c] = k
      /\ \A d \in Fetching \ {c} : call'[d] = call[d]
  BY DEF TypeOK
<1>3. ASSUME NEW d \in Fetching, call'[d] \in Managed
      PROVE  /\ ReasonIsReal(call[d])'
             /\ Closed(d)' => OutcomeIsReal(d, call[d])'
  <2>1. CASE d = c
    BY <1>2, <1>3, <2>1 DEF ReasonIsReal, OutcomeIsReal, Closed, Overlong, Delay, DeadlineFirst
  <2>2. CASE d # c
    BY <1>2, <1>3, <2>2 DEF CallInv, ReasonIsReal, OutcomeIsReal, Closed, Overlong, Delay, DeadlineFirst
  <2>3. QED
    BY <2>1, <2>2
<1>4. QED
  BY <1>1, <1>3 DEF CallInv

LEMMA FailureStep ==
  ASSUME TypeOK, CallInv, UNCHANGED <<now, aborted, timeoutMs>>,
         NEW c \in Fetching, Open(c), NEW code \in Code \ Cause,
         call' = [call EXCEPT ![c] = Ended(@, Failure(@, code))]
  PROVE  CallsTyped' /\ CallInv'
<1> DEFINE e == Ended(call[c], Failure(call[c], code))
<1>1. call[c] \in Managed /\ ReasonIsReal(call[c])
  BY OpenIsManaged DEF CallInv
<1>2. e \in Managed
  BY <1>1, FailureCause, EndedFields
<1>3. ReasonIsReal(e) /\ OutcomeIsReal(c, e)
  BY <1>1, FailedIsReal
<1>4. call' = [call EXCEPT ![c] = e]
  OBVIOUS
<1> HIDE DEF e
<1>5. QED
  BY <1>2, <1>3, <1>4, OneCallChanges

LEMMA AnswerStep ==
  ASSUME TypeOK, CallInv, UNCHANGED <<now, aborted, timeoutMs>>,
         NEW c \in Fetching, Open(c),
         NEW o \in {"ok", "REQUEST_REJECTED"}, c = "retrieve" => o = "ok",
         call' = [call EXCEPT ![c] = Ended(@, o)]
  PROVE  CallsTyped' /\ CallInv'
<1> DEFINE e == Ended(call[c], o)
<1>1. call[c] \in Managed /\ ReasonIsReal(call[c])
  BY OpenIsManaged DEF CallInv
<1>2. e \in Managed
  BY <1>1, EndedFields DEF Code
<1>3. ReasonIsReal(e) /\ OutcomeIsReal(c, e)
  BY <1>1, AnsweredIsReal
<1>4. call' = [call EXCEPT ![c] = e]
  OBVIOUS
<1> HIDE DEF e
<1>5. QED
  BY <1>2, <1>3, <1>4, OneCallChanges

(* A request that goes on to its next await. *)
LEMMA OnwardStep ==
  ASSUME TypeOK, CallInv, UNCHANGED <<now, aborted, timeoutMs>>,
         NEW c \in Fetching, Open(c), NEW k \in Managed, k.state # "closed",
         k.since = call[c].since, k.deadlineAt = call[c].deadlineAt,
         k.signal = call[c].signal, k.reason = call[c].reason,
         k.listener = call[c].listener,
         call' = [call EXCEPT ![c] = k]
  PROVE  CallsTyped' /\ CallInv'
<1>1. call[c] \in Managed /\ ReasonIsReal(call[c])
  BY OpenIsManaged DEF CallInv
<1>2. ReasonIsReal(k)
  BY <1>1 DEF ReasonIsReal, Overlong, Delay, DeadlineFirst
<1>3. QED
  BY <1>2, OneCallChanges

LEMMA StartStep ==
  ASSUME TypeOK, CallInv, UNCHANGED <<now, aborted, timeoutMs>>,
         NEW c \in Fetching, NEW options \in Option,
         NEW k, k = ManagedRequest(options) \/ \E code \in Code : k = Refused(code),
         call' = [call EXCEPT ![c] = k]
  PROVE  CallsTyped' /\ CallInv'
<1>1. \A code \in Code : Refused(code) \in Unopened /\ Refused(code) \notin Managed
  BY DEF Refused, Unopened, Managed
<1>2. /\ Started(options) \in Managed
      /\ Started(options).state = "fetch"
      /\ ReasonIsReal(Started(options))
  BY StartedIsReal DEF TypeOK
<1>3. k = Started(options) \/ \E code \in Code : k = Refused(code)
  BY DEF ManagedRequest, Code
<1>4. /\ k \in Managed \cup Unopened
      /\ k \in Managed => ReasonIsReal(k) /\ k.state = "fetch"
  BY <1>1, <1>2, <1>3
<1>5. QED
  BY <1>4, OneCallChanges

LEMMA TimerStep ==
  ASSUME TypeOK, CallInv, NEW c \in Fetching, TimerFires(c)
  PROVE  CallsTyped' /\ CallInv'
<1> DEFINE k == Fired(call[c])
<1>1. Open(c) /\ call[c] \in Managed /\ ReasonIsReal(call[c])
  BY OpenIsManaged DEF CallInv, TimerFires
<1>2. /\ Due(call[c]) <= now /\ now \in Nat /\ timeoutMs \in Nat
      /\ UNCHANGED <<now, aborted, timeoutMs>>
  BY WalletAssumption DEF TimerFires, TypeOK, fixed
<1>3. k \in Managed /\ k.state = call[c].state /\ ReasonIsReal(k)
  BY <1>1, <1>2, FiredIsReal
<1>4. k.state # "closed"
  BY <1>1, <1>3 DEF Open
<1>5. call' = [call EXCEPT ![c] = k]
  BY DEF TimerFires
<1> HIDE DEF k
<1>6. QED
  BY <1>2, <1>3, <1>4, <1>5, OneCallChanges

LEMMA AbortStep ==
  ASSUME TypeOK, CallInv, CallerAborts
  PROVE  CallsTyped' /\ CallInv'
<1>1. /\ aborted' /\ now' = now /\ now \in Nat
      /\ timeoutMs' = timeoutMs /\ timeoutMs \in Nat
  BY WalletAssumption DEF CallerAborts, TypeOK, fixed
<1>2. \A c \in Fetching :
        call'[c] = IF Open(c) /\ call[c].listener THEN Cancelled(call[c]) ELSE call[c]
  BY DEF CallerAborts
<1>3. \A c \in Fetching : call'[c] \in Managed \cup Unopened
  BY <1>2, OpenIsManaged, CancelledFields DEF TypeOK
<1>4. CallsTyped'
  BY <1>3 DEF CallsTyped, CallerAborts
<1>5. ASSUME NEW c \in Fetching, call'[c] \in Managed
      PROVE  /\ ReasonIsReal(call[c])'
             /\ Closed(c)' => OutcomeIsReal(c, call[c])'
  <2>1. CASE Open(c) /\ call[c].listener
    <3>1. call[c] \in Managed /\ ReasonIsReal(call[c])
      BY <2>1, OpenIsManaged DEF CallInv
    <3>2. call'[c] = Cancelled(call[c])
      BY <1>2, <2>1
    <3>3. /\ call'[c].state = call[c].state /\ call'[c].signal = call[c].signal
          /\ call'[c].reason = "caller" /\ ~call'[c].listener
      BY <3>1, <3>2, CancelledFields
    <3>4. QED
      BY <1>1, <2>1, <3>1, <3>3 DEF ReasonIsReal, Closed, Open, Overlong, Delay, DeadlineFirst
  <2>2. CASE ~(Open(c) /\ call[c].listener)
    <3>1. call'[c] = call[c] /\ call[c] \in Managed
      BY <1>2, <1>5, <2>2
    <3>2. QED
      BY <1>1, <3>1, CausesStay DEF CallInv, Closed, ReasonIsReal, OutcomeIsReal, Overlong, Delay, DeadlineFirst
  <2>3. QED
    BY <2>1, <2>2
<1>6. QED
  BY <1>4, <1>5 DEF CallInv
LEMMA RetrievalStep ==
  ASSUME TypeOK, CallInv,
         \/ \E ok \in BOOLEAN : RetrieveAnswered(ok)
         \/ BodyFails \/ VerifierAnswers \/ VerifierFails
         \/ \E b \in Connect : BodyDecoded(b)
  PROVE  CallsTyped' /\ CallInv'
<1> DEFINE k == call["retrieve"]
<1>1. "retrieve" \in Fetching
  BY DEF Fetching
<1>2. Open("retrieve") /\ UNCHANGED <<now, aborted, timeoutMs>>
  BY DEF Open, RetrieveAnswered, BodyFails, BodyDecoded, VerifierAnswers, VerifierFails,
         fixed
<1>3. k \in Managed
  BY <1>1, <1>2, OpenIsManaged
<1>4. ASSUME NEW code \in Code \ Cause,
             call' = [call EXCEPT !["retrieve"] = Ended(@, Failure(@, code))]
      PROVE  CallsTyped' /\ CallInv'
  BY <1>1, <1>2, <1>4, FailureStep
<1>5. {"REQUEST_REJECTED", "INVALID_RESPONSE", "TRANSPORT_FAILURE",
       "INVALID_REQUEST_SIGNATURE"} \subseteq Code \ Cause
  BY DEF Code, Cause
<1>6. ASSUME NEW ok \in BOOLEAN, RetrieveAnswered(ok)
      PROVE  CallsTyped' /\ CallInv'
  <2>1. CASE ok
    <3> DEFINE n == [k EXCEPT !.state = "body"]
    <3>1. call' = [call EXCEPT !["retrieve"] = n]
      BY <1>6, <2>1 DEF RetrieveAnswered
    <3>2. /\ n \in Managed /\ n.state = "body"
          /\ n.since = k.since /\ n.deadlineAt = k.deadlineAt
          /\ n.signal = k.signal /\ n.reason = k.reason /\ n.listener = k.listener
      BY <1>3 DEF Managed
    <3> HIDE DEF n
    <3>3. QED
      BY <1>1, <1>2, <3>1, <3>2, OnwardStep
  <2>2. CASE ~ok
    BY <1>4, <1>5, <1>6, <2>2 DEF RetrieveAnswered
  <2>3. QED
    BY <2>1, <2>2
<1>7. CASE BodyFails
  BY <1>4, <1>5, <1>7 DEF BodyFails
<1>8. ASSUME NEW b \in Connect, BodyDecoded(b)
      PROVE  CallsTyped' /\ CallInv'
  <2>1. CASE BindingError(b) = None
    <3> DEFINE n == [k EXCEPT !.state = "verify", !.body = b]
    <3>1. call' = [call EXCEPT !["retrieve"] = n]
      BY <1>8, <2>1 DEF BodyDecoded
    <3>2. /\ n \in Managed /\ n.state = "verify"
          /\ n.since = k.since /\ n.deadlineAt = k.deadlineAt
          /\ n.signal = k.signal /\ n.reason = k.reason /\ n.listener = k.listener
      BY <1>3 DEF Managed
    <3> HIDE DEF n
    <3>3. QED
      BY <1>1, <1>2, <3>1, <3>2, OnwardStep
  <2>2. CASE BindingError(b) # None
    BY <1>4, <1>8, <2>2, BindingErrorCode DEF BodyDecoded
  <2>3. QED
    BY <2>1, <2>2
<1>9. CASE VerifierAnswers
  <2>1. CASE k.body.trusted
    <3>1. call' = [call EXCEPT !["retrieve"] = Ended(@, "ok")]
      BY <1>9, <2>1 DEF VerifierAnswers
    <3>2. QED
      BY <1>1, <1>2, <3>1, AnswerStep
  <2>2. CASE ~k.body.trusted
    <3>1. call' = [call EXCEPT !["retrieve"] =
                     Ended(@, Failure(@, "INVALID_REQUEST_SIGNATURE"))]
      BY <1>9, <2>2 DEF VerifierAnswers
    <3>2. QED
      BY <1>4, <1>5, <3>1
  <2>3. QED
    BY <2>1, <2>2
<1>10. CASE VerifierFails
  BY <1>4, <1>5, <1>10 DEF VerifierFails
<1>11. QED
  BY <1>6, <1>7, <1>8, <1>9, <1>10

LEMMA CallStep ==
  ASSUME TypeOK, CallInv, [Next]_vars
  PROVE  CallsTyped' /\ CallInv'
<1>1. ASSUME NEW options \in Option, Retrieve(options)
      PROVE  CallsTyped' /\ CallInv'
  <2> DEFINE k == IF ~uri.valid THEN Refused("INVALID_REQUEST_URL")
                  ELSE IF ~uri.secure THEN Refused("INSECURE_TRANSPORT")
                  ELSE ManagedRequest(options)
  <2>1. /\ call' = [call EXCEPT !["retrieve"] = k]
        /\ UNCHANGED <<now, aborted, timeoutMs>>
    BY <1>1 DEF Retrieve, fixed
  <2>2. k = ManagedRequest(options) \/ \E code \in Code : k = Refused(code)
    BY DEF Code
  <2> HIDE DEF k
  <2>3. QED
    BY <1>1, <2>1, <2>2, StartStep DEF Fetching
<1>2. ASSUME NEW options \in Option, Submit(options)
      PROVE  CallsTyped' /\ CallInv'
  <2>1. /\ call' = [call EXCEPT !["submit"] = ManagedRequest(options)]
        /\ UNCHANGED <<now, aborted, timeoutMs>>
    BY <1>2 DEF Submit, fixed
  <2> HIDE DEF ManagedRequest
  <2>2. QED
    BY <1>2, <2>1, StartStep DEF Fetching
<1>3. ASSUME NEW c \in Fetching, FetchRejects(c)
      PROVE  CallsTyped' /\ CallInv'
  <2>1. /\ call' = [call EXCEPT ![c] = Ended(@, Failure(@, "TRANSPORT_FAILURE"))]
        /\ Open(c) /\ UNCHANGED <<now, aborted, timeoutMs>>
    BY <1>3 DEF FetchRejects, Open, fixed
  <2>2. "TRANSPORT_FAILURE" \in Code \ Cause
    BY DEF Code, Cause
  <2>3. QED
    BY <1>3, <2>1, <2>2, FailureStep
<1>4. ASSUME NEW ok \in BOOLEAN, SubmitAnswered(ok)
      PROVE  CallsTyped' /\ CallInv'
  <2> DEFINE o == IF ok THEN "ok" ELSE "REQUEST_REJECTED"
  <2>1. /\ call' = [call EXCEPT !["submit"] = Ended(@, o)]
        /\ Open("submit") /\ UNCHANGED <<now, aborted, timeoutMs>>
    BY <1>4 DEF SubmitAnswered, Open, fixed
  <2>2. o \in {"ok", "REQUEST_REJECTED"} /\ "submit" \in Fetching /\ "submit" # "retrieve"
    BY DEF Fetching
  <2> HIDE DEF o
  <2>3. QED
    BY <2>1, <2>2, AnswerStep
<1>5. ASSUME \/ \E approval \in Approval : CreatePresentation(approval)
             \/ Signed \/ SignerFails \/ Tick \/ UNCHANGED vars
      PROVE  CallsTyped' /\ CallInv'
  <2>1. /\ UNCHANGED <<call, aborted, timeoutMs>> /\ timeoutMs \in Nat
        /\ now \in Nat /\ now' \in Nat /\ now <= now'
    BY <1>5, WalletAssumption
       DEF CreatePresentation, Signed, SignerFails, Tick, vars, fixed, TypeOK
  <2>2. ASSUME NEW c \in Fetching, call'[c] \in Managed
        PROVE  /\ ReasonIsReal(call[c])'
               /\ Closed(c)' => OutcomeIsReal(c, call[c])'
    <3>1. call'[c] = call[c] /\ call[c] \in Managed
      BY <2>1, <2>2
    <3>2. ReasonIsReal(call[c]) /\ (Closed(c) => OutcomeIsReal(c, call[c]))
      BY <3>1 DEF CallInv
    <3>3. QED
      BY <2>1, <3>1, <3>2, CausesStay DEF Closed, ReasonIsReal, OutcomeIsReal, Overlong, Delay, DeadlineFirst
  <2>3. QED
    BY <2>1, <2>2 DEF CallsTyped, CallInv, TypeOK
<1>6. QED
  BY <1>1, <1>2, <1>3, <1>4, <1>5, TimerStep, AbortStep, RetrievalStep DEF Next

LEMMA TypeStep ==
  ASSUME TypeOK, CallInv, [Next]_vars
  PROVE  TypeOK'
<1>1. CallsTyped'
  BY CallStep
<1>2. /\ now' \in 0..MaxTime /\ aborted' \in BOOLEAN /\ uri' \in Uri
      /\ timeoutMs' \in TimeoutMs
      /\ source' \in [model : Model, definition : Definition]
  <2>1. UNCHANGED <<uri, timeoutMs, source>>
    BY DEF fixed, Next, vars, Retrieve, Submit, TimerFires, FetchRejects,
           RetrieveAnswered, SubmitAnswered, BodyFails, BodyDecoded,
           VerifierAnswers, VerifierFails, CreatePresentation, Signed,
           SignerFails, CallerAborts, Tick
  <2>2. now' = now \/ Tick
    BY DEF Next, vars, Retrieve, Submit, TimerFires, FetchRejects,
           RetrieveAnswered, SubmitAnswered, BodyFails, BodyDecoded,
           VerifierAnswers, VerifierFails, CreatePresentation, Signed,
           SignerFails, CallerAborts
  <2>3. aborted' = aborted \/ CallerAborts
    BY DEF Next, vars, Retrieve, Submit, TimerFires, FetchRejects,
           RetrieveAnswered, SubmitAnswered, BodyFails, BodyDecoded,
           VerifierAnswers, VerifierFails, CreatePresentation, Signed,
           SignerFails, Tick
  <2>4. MaxTime \in Nat
    BY WalletAssumption
  <2>5. now' \in 0..MaxTime
    BY <2>2, <2>4 DEF Tick, TypeOK
  <2>6. aborted' \in BOOLEAN
    BY <2>3 DEF CallerAborts, TypeOK
  <2>7. QED
    BY <2>1, <2>5, <2>6 DEF TypeOK
<1>3. request' \in Connect \cup {None}
  <2>1. CASE VerifierAnswers
    <3>1. call["retrieve"] \in Managed
      BY <2>1, OpenIsManaged DEF VerifierAnswers, Open, Fetching
    <3>2. call["retrieve"].body \in Connect \cup {None}
      BY <3>1 DEF Managed
    <3>3. QED
      BY <2>1, <3>2 DEF VerifierAnswers
  <2>2. CASE ~VerifierAnswers
    BY <2>2
       DEF TypeOK, Next, vars, Retrieve, Submit, TimerFires, FetchRejects,
           RetrieveAnswered, SubmitAnswered, BodyFails, BodyDecoded,
           VerifierFails, CreatePresentation, Signed, SignerFails,
           CallerAborts, Tick
  <2>3. QED
    BY <2>1, <2>2
<1>4. /\ presentation' \in Presentation \cup {None}
      /\ signing' \in BOOLEAN
      /\ signing' => presentation' # None
  <2>1. ASSUME NEW approval \in Approval, CreatePresentation(approval)
        PROVE  presentation' \in Presentation /\ signing' = TRUE
    BY <2>1, PresentationTypes DEF CreatePresentation
  <2>2. ASSUME \A approval \in Approval : ~CreatePresentation(approval)
        PROVE  \/ UNCHANGED <<presentation, signing>>
               \/ signing' = FALSE /\ presentation' \in {presentation, None}
    BY <2>2
       DEF Next, vars, Retrieve, Submit, TimerFires, FetchRejects,
           RetrieveAnswered, SubmitAnswered, BodyFails, BodyDecoded,
           VerifierAnswers, VerifierFails, Signed, SignerFails,
           CallerAborts, Tick
  <2>3. None \notin Presentation
    BY WalletAssumption
  <2>4. CASE \E approval \in Approval : CreatePresentation(approval)
    BY <2>1, <2>3, <2>4
  <2>5. CASE UNCHANGED <<presentation, signing>>
    BY <2>5 DEF TypeOK
  <2>6. CASE signing' = FALSE /\ presentation' \in {presentation, None}
    BY <2>6 DEF TypeOK
  <2>7. QED
    BY <2>2, <2>4, <2>5, <2>6
<1>5. QED
  BY <1>1, <1>2, <1>3, <1>4 DEF TypeOK, CallsTyped

-----------------------------------------------------------------------------
(* What retrieveRequest returns is a trusted request bound to the endpoint. *)

(* A step that leaves the retrieval where it is, or moves it elsewhere     *)
(* than to the verifier. *)
LEMMA RetrievalKept ==
  ASSUME RequestInv, UNCHANGED <<uri, request>>,
         \/ /\ call'["retrieve"].state = call["retrieve"].state
            /\ call["retrieve"].state = "verify" =>
                 call'["retrieve"].body = call["retrieve"].body
         \/ /\ ~Closed("retrieve")
            /\ call'["retrieve"].state # "verify"
  PROVE  RequestInv'
BY DEF RequestInv, Bound, Closed

LEMMA RequestStep ==
  ASSUME TypeOK, CallInv, RequestInv, [Next]_vars
  PROVE  RequestInv'
<1> DEFINE k == call["retrieve"]
<1>1. "retrieve" \in Fetching /\ "submit" \in Fetching /\ "submit" # "retrieve"
  BY DEF Fetching
<1>2. DOMAIN call = Fetching
  BY DEF TypeOK
<1>3. \A o \in Code \cup {"ok"} : k \in Managed => Ended(k, o).state = "closed"
  BY EndedFields
<1>4. \A code \in Code \ Cause : k \in Managed => Failure(k, code) \in Code
  BY FailureCause
<1>5. {"REQUEST_REJECTED", "INVALID_RESPONSE", "TRANSPORT_FAILURE",
       "INVALID_REQUEST_SIGNATURE"} \subseteq Code \ Cause
  BY DEF Code, Cause
<1>6. ASSUME NEW options \in Option, Retrieve(options)
      PROVE  RequestInv'
  <2>1. k.state = "idle" /\ UNCHANGED <<uri, request>>
    BY <1>6 DEF fixed, Retrieve, Unused
  <2>2. k'.state \in {"fetch", "closed"}
    BY <1>1, <1>2, <1>6 DEF Retrieve, ManagedRequest, Refused, Started
  <2>3. QED
    BY <2>1, <2>2, RetrievalKept DEF Closed
<1>7. ASSUME NEW options \in Option, Submit(options)
      PROVE  RequestInv'
  <2>1. k' = k /\ UNCHANGED <<uri, request>>
    BY <1>1, <1>2, <1>7 DEF fixed, Submit
  <2>2. QED
    BY <2>1, RetrievalKept
<1>8. ASSUME NEW c \in Fetching, TimerFires(c)
      PROVE  RequestInv'
  <2>1. /\ k' = IF c = "retrieve" THEN Fired(k) ELSE k
        /\ UNCHANGED <<uri, request>>
    BY <1>1, <1>2, <1>8 DEF fixed, TimerFires
  <2>2. c = "retrieve" => Fired(k).state = k.state /\ Fired(k).body = k.body
    <3>1. c = "retrieve" => k \in Managed
      BY <1>8, OpenIsManaged DEF TimerFires
    <3>2. QED
      BY <3>1 DEF Fired, Managed
  <2>3. QED
    BY <2>1, <2>2, RetrievalKept
<1>9. ASSUME NEW c \in Fetching, FetchRejects(c)
      PROVE  RequestInv'
  <2>1. UNCHANGED <<uri, request>>
    BY <1>9 DEF fixed, FetchRejects
  <2>2. CASE c = "retrieve"
    <3>1. k.state = "fetch" /\ k \in Managed
      BY <1>9, <2>2, OpenIsManaged DEF FetchRejects, Open
    <3>2. k' = Ended(k, Failure(k, "TRANSPORT_FAILURE"))
      BY <1>1, <1>2, <1>9, <2>2 DEF FetchRejects
    <3>3. QED
      BY <1>3, <1>4, <1>5, <2>1, <3>1, <3>2, RetrievalKept DEF Closed
  <2>3. CASE c # "retrieve"
    <3>1. k' = k
      BY <1>1, <1>2, <1>9, <2>3 DEF FetchRejects
    <3>2. QED
      BY <2>1, <3>1, RetrievalKept
  <2>4. QED
    BY <2>2, <2>3
<1>10. ASSUME NEW ok \in BOOLEAN, SubmitAnswered(ok)
       PROVE  RequestInv'
  <2>1. k' = k /\ UNCHANGED <<uri, request>>
    BY <1>1, <1>2, <1>10 DEF fixed, SubmitAnswered
  <2>2. QED
    BY <2>1, RetrievalKept
<1>11. ASSUME UNCHANGED <<uri, request>>, Open("retrieve"), k'.state # "verify"
       PROVE  RequestInv'
  BY <1>11, RetrievalKept DEF Open, Closed
<1>12. ASSUME Open("retrieve"), NEW code \in Code \ Cause,
              k' = Ended(k, Failure(k, code))
       PROVE  k'.state = "closed"
  BY <1>1, <1>3, <1>4, <1>12, OpenIsManaged
<1>13. ASSUME NEW ok \in BOOLEAN, RetrieveAnswered(ok)
       PROVE  RequestInv'
  <2>1. Open("retrieve") /\ UNCHANGED <<uri, request>>
    BY <1>13 DEF fixed, RetrieveAnswered, Open
  <2>2. k' = IF ok THEN [k EXCEPT !.state = "body"]
                   ELSE Ended(k, Failure(k, "REQUEST_REJECTED"))
    BY <1>1, <1>2, <1>13 DEF RetrieveAnswered
  <2>3. k'.state # "verify"
    <3>1. k \in Managed
      BY <1>1, <2>1, OpenIsManaged
    <3>2. [k EXCEPT !.state = "body"].state = "body"
      BY <3>1 DEF Managed
    <3>3. QED
      BY <1>5, <1>12, <2>1, <2>2, <3>2
  <2>4. QED
    BY <1>11, <2>1, <2>3
<1>14. CASE BodyFails
  <2>1. Open("retrieve") /\ UNCHANGED <<uri, request>>
    BY <1>14 DEF fixed, BodyFails, Open
  <2>2. k' = Ended(k, Failure(k, "INVALID_RESPONSE"))
    BY <1>1, <1>2, <1>14 DEF BodyFails
  <2>3. QED
    BY <1>5, <1>11, <1>12, <2>1, <2>2
<1>15. ASSUME NEW b \in Connect, BodyDecoded(b)
       PROVE  RequestInv'
  <2>1. Open("retrieve") /\ UNCHANGED <<uri, request>>
    BY <1>15 DEF fixed, BodyDecoded, Open
  <2>2. CASE BindingError(b) # None
    <3>1. k' = Ended(k, Failure(k, BindingError(b)))
      BY <1>1, <1>2, <1>15, <2>2 DEF BodyDecoded
    <3>2. QED
      BY <1>11, <1>12, <2>1, <2>2, <3>1, BindingErrorCode
  <2>3. CASE BindingError(b) = None
    <3>1. Bound(b)
      BY <2>3, WalletAssumption DEF BindingError, Bound, Code
    <3>2. k' = [k EXCEPT !.state = "verify", !.body = b]
      BY <1>1, <1>2, <1>15, <2>3 DEF BodyDecoded
    <3>3. k \in Managed
      BY <1>1, <2>1, OpenIsManaged
    <3>4. k'.body = b
      BY <3>2, <3>3 DEF Managed
    <3>5. request = None
      BY <2>1 DEF RequestInv, Open, Closed
    <3>6. QED
      BY <2>1, <3>1, <3>4, <3>5 DEF RequestInv, Bound
  <2>4. QED
    BY <2>2, <2>3
<1>16. CASE VerifierAnswers
  <2>1. Open("retrieve") /\ UNCHANGED uri /\ Bound(k.body)
    BY <1>16 DEF fixed, VerifierAnswers, Open, RequestInv
  <2>2. k \in Managed
    BY <1>1, <2>1, OpenIsManaged
  <2>3. k'.state = "closed"
    <3>1. CASE k.body.trusted
      BY <1>1, <1>2, <1>3, <1>16, <2>2, <3>1 DEF VerifierAnswers
    <3>2. CASE ~k.body.trusted
      <4>1. k' = Ended(k, Failure(k, "INVALID_REQUEST_SIGNATURE"))
        BY <1>1, <1>2, <1>16, <3>2 DEF VerifierAnswers
      <4>2. QED
        BY <1>5, <1>12, <2>1, <4>1
    <3>3. QED
      BY <3>1, <3>2
  <2>4. request' = IF k.body.trusted THEN k.body ELSE None
    BY <1>16 DEF VerifierAnswers
  <2>5. QED
    BY <2>1, <2>3, <2>4 DEF RequestInv, Bound, Closed
<1>17. CASE VerifierFails
  <2>1. Open("retrieve") /\ UNCHANGED <<uri, request>>
    BY <1>17 DEF fixed, VerifierFails, Open
  <2>2. k' = Ended(k, Failure(k, "TRANSPORT_FAILURE"))
    BY <1>1, <1>2, <1>17 DEF VerifierFails
  <2>3. QED
    BY <1>5, <1>11, <1>12, <2>1, <2>2
<1>18. CASE CallerAborts
  <2>1. /\ k' = IF Open("retrieve") /\ call["retrieve"].listener THEN Cancelled(k) ELSE k
        /\ UNCHANGED <<uri, request>>
    BY <1>1, <1>18 DEF fixed, CallerAborts
  <2>2. Open("retrieve") => Cancelled(k).state = k.state /\ Cancelled(k).body = k.body
    BY <1>1, OpenIsManaged, CancelledFields
  <2>3. QED
    BY <2>1, <2>2, RetrievalKept
<1>19. ASSUME \/ \E approval \in Approval : CreatePresentation(approval)
              \/ Signed \/ SignerFails \/ Tick \/ UNCHANGED vars
       PROVE  RequestInv'
  <2>1. UNCHANGED <<call, uri, request>>
    BY <1>19 DEF fixed, CreatePresentation, Signed, SignerFails, Tick, vars
  <2>2. QED
    BY <2>1 DEF RequestInv, Bound, Closed
<1>20. QED
  BY <1>6, <1>7, <1>8, <1>9, <1>10, <1>13, <1>14, <1>15, <1>16, <1>17, <1>18, <1>19
     DEF Next

-----------------------------------------------------------------------------
(* What is presented is what the request, the view and the approval allow. *)

LEMMA PresentationStep ==
  ASSUME TypeOK, RequestInv, PresentationInv, [Next]_vars
  PROVE  PresentationInv'
<1>1. ASSUME NEW approval \in Approval, CreatePresentation(approval)
      PROVE  PresentationInv'
  <2> DEFINE p == PresentationFor(request, approval)
  <2>1. /\ request # None /\ UNCHANGED <<request, source>>
        /\ Narrows(approval, request) /\ Validates(p, request)
        /\ presentation' = p
    BY <1>1 DEF fixed, CreatePresentation
  <2>2. /\ p.audience = request.origin
        /\ p.view = Materialize(source.model, source.definition)
        /\ p.scopes = approval.scopes
    BY DEF PresentationFor
  <2> HIDE DEF p
  <2>3. QED
    BY <2>1, <2>2 DEF PresentationInv, Narrows, Validates, Covers
<1>2. ASSUME UNCHANGED <<request, source>>, presentation' \in {presentation, None}
      PROVE  PresentationInv'
  BY <1>2 DEF PresentationInv, Covers
<1>3. CASE VerifierAnswers
  <2>1. request = None /\ UNCHANGED presentation
    BY <1>3 DEF VerifierAnswers, RequestInv, Closed
  <2>2. QED
    BY <2>1 DEF PresentationInv
<1>4. ASSUME ~VerifierAnswers, \A approval \in Approval : ~CreatePresentation(approval)
      PROVE  UNCHANGED <<request, source>> /\ presentation' \in {presentation, None}
  BY <1>4
     DEF Next, vars, fixed, Retrieve, Submit, TimerFires, FetchRejects,
         RetrieveAnswered, SubmitAnswered, BodyFails, BodyDecoded,
         VerifierFails, Signed, SignerFails, CallerAborts, Tick
<1>5. QED
  BY <1>1, <1>2, <1>3, <1>4
-----------------------------------------------------------------------------
(* The projection *)

(* A prefix is the segments a name starts with. *)
LEMMA PrefixIsAncestor ==
  ASSUME NEW namespace \in Name, NEW prefix \in Name
  PROVE  /\ Under(namespace, prefix) <=>
              Len(prefix) <= Len(namespace) /\ prefix = SubSeq(namespace, 1, Len(prefix))
         /\ Under(namespace, prefix) <=> prefix \in Ancestors(namespace)
<1>1. Len(namespace) \in Nat /\ Len(prefix) \in Nat \ {0}
  BY DEF Name
<1>2. SubSeq(prefix, 1, Len(prefix)) = prefix
  BY SubSeqFull DEF Name
<1>3. Under(namespace, prefix) <=>
        Len(prefix) <= Len(namespace) /\ prefix = SubSeq(namespace, 1, Len(prefix))
  BY <1>2 DEF Under, IsPrefix
<1>4. ASSUME NEW n \in 1..Len(namespace), prefix = SubSeq(namespace, 1, n)
      PROVE  n = Len(prefix)
  <2>1. \A i \in 1..n : namespace[i] \in STRING
    BY <1>1 DEF Name
  <2>2. Len(SubSeq(namespace, 1, n)) = IF 1 <= n THEN n - 1 + 1 ELSE 0
    BY <1>1, <2>1, SubSeqProperties
  <2>3. QED
    BY <1>1, <1>4, <2>2
<1>5. QED
  BY <1>1, <1>3, <1>4 DEF Ancestors

(* The rule the sort puts first is the one of the nearest ancestor that    *)
(* has a rule, and the first given of those. *)
LEMMA RuleGoverns ==
  ASSUME NEW namespace \in Name, NEW rules \in Seq(Rule),
         NEW r \in RuleFor(namespace, rules)
  PROVE  r.action = GoverningAction(namespace, rules)
<1> DEFINE for == RulesFor(namespace, rules)
           ruled == {p \in Ancestors(namespace) :
                       \E i \in DOMAIN rules : rules[i].prefix = p}
<1>1. \A i \in DOMAIN rules : rules[i] \in Rule /\ rules[i].prefix \in Name /\ i \in Nat
  <2>1. \A i \in DOMAIN rules : rules[i] \in Rule /\ i \in Nat
    OBVIOUS
  <2>2. \A q \in Rule : q.prefix \in Name
    BY DEF Rule
  <2>3. QED
    BY <2>1, <2>2
<1>2. PICK k \in for :
        /\ r = rules[k]
        /\ \A j \in for :
             \/ Len(rules[j].prefix) < Len(rules[k].prefix)
             \/ Len(rules[j].prefix) = Len(rules[k].prefix) /\ k <= j
  BY DEF RuleFor
<1> DEFINE best == rules[k].prefix
<1>3. k \in DOMAIN rules /\ best \in Name /\ Under(namespace, best)
  BY <1>1, <1>2 DEF RulesFor
<1>4. best \in ruled
  BY <1>3, PrefixIsAncestor
<1>5. ASSUME NEW q \in ruled
      PROVE  /\ q \in Name
             /\ Len(q) <= Len(best)
             /\ Len(q) = Len(best) => q = best
  <2>1. PICK i \in DOMAIN rules : rules[i].prefix = q
    OBVIOUS
  <2>2. q \in Name /\ i \in for
    BY <1>1, <2>1, <1>5, PrefixIsAncestor DEF RulesFor
  <2>3. Len(q) <= Len(best)
    BY <1>2, <1>3, <2>1, <2>2 DEF Name
  <2>4. Under(namespace, q)
    BY <1>5, <2>2, PrefixIsAncestor
  <2>5. q = SubSeq(namespace, 1, Len(q)) /\ best = SubSeq(namespace, 1, Len(best))
    BY <1>3, <2>2, <2>4, PrefixIsAncestor
  <2>6. QED
    BY <2>2, <2>3, <2>5
<1> DEFINE nearest == CHOOSE p \in ruled : \A q \in ruled : Len(q) <= Len(p)
<1>6. nearest = best
  <2>1. nearest \in ruled /\ \A q \in ruled : Len(q) <= Len(nearest)
    BY <1>4, <1>5
  <2> HIDE DEF nearest, ruled, best
  <2>2. Len(best) \in Nat /\ Len(nearest) \in Nat
    BY <1>3, <1>5, <2>1 DEF Name
  <2>3. QED
    BY <1>4, <1>5, <2>1, <2>2
<1>7. ActionAt(best, rules) = rules[k].action
  <2> DEFINE IsFirst(i) == /\ rules[i].prefix = best
                           /\ \A j \in DOMAIN rules : rules[j].prefix = best => i <= j
  <2>1. IsFirst(k)
    <3>1. ASSUME NEW j \in DOMAIN rules, rules[j].prefix = best
          PROVE  k <= j
      <4>1. j \in for
        BY <1>3, <3>1 DEF RulesFor
      <4>2. Len(best) \in Nat
        BY <1>3 DEF Name
      <4>3. QED
        BY <1>2, <3>1, <4>1, <4>2
    <3>2. QED
      BY <3>1
  <2>2. \A i \in DOMAIN rules : IsFirst(i) => i = k
    BY <1>1, <1>3, <2>1
  <2>3. k = CHOOSE i \in DOMAIN rules : IsFirst(i)
    BY <1>3, <2>1, <2>2
  <2>4. QED
    BY <2>3 DEF ActionAt
<1>8. GoverningAction(namespace, rules) = ActionAt(nearest, rules)
  BY <1>4 DEF GoverningAction
<1>9. QED
  BY <1>2, <1>6, <1>7, <1>8

LEMMA LeastExists ==
  ASSUME NEW T, T \subseteq Nat, T # {}
  PROVE  \E x \in T : \A y \in T : x <= y
<1>1. PICK x \in T : \A y \in T : <<y, x>> \notin OpToRel(<, Nat)
  BY NatLessThanWellFounded, WFMin
<1>2. \A y \in T : ~(y < x)
  BY <1>1 DEF OpToRel
<1>3. QED
  BY <1>2

(* Where a rule applies the sort finds one. *)
LEMMA RuleIsFound ==
  ASSUME NEW namespace \in Name, NEW rules \in Seq(Rule),
         RulesFor(namespace, rules) # {}
  PROVE  RuleFor(namespace, rules) # {}
<1> DEFINE for == RulesFor(namespace, rules)
           length(i) == Len(rules[i].prefix)
           slack(i) == Len(namespace) - length(i)
<1>1. \A i \in for : i \in Nat /\ length(i) \in Nat /\ slack(i) \in Nat
  <2>1. \A i \in for : i \in Nat /\ rules[i] \in Rule /\ Under(namespace, rules[i].prefix)
    BY DEF RulesFor
  <2>2. \A q \in Rule : q.prefix \in Name
    BY DEF Rule
  <2>3. \A i \in for : length(i) \in Nat /\ length(i) <= Len(namespace)
    BY <2>1, <2>2, PrefixIsAncestor DEF Name
  <2>4. Len(namespace) \in Nat
    BY DEF Name
  <2> HIDE DEF length
  <2>5. QED
    BY <2>1, <2>3, <2>4
<1> HIDE DEF length
<1>2. Len(namespace) \in Nat
  BY DEF Name
<1>3. PICK k \in for : \A j \in for : slack(k) <= slack(j)
  <2> DEFINE T == {slack(i) : i \in for}
  <2>1. T \subseteq Nat /\ T # {}
    BY <1>1
  <2>2. PICK least \in T : \A y \in T : least <= y
    BY <2>1, LeastExists
  <2>3. QED
    BY <2>2
<1>4. \A j \in for : length(j) <= length(k)
  BY <1>1, <1>2, <1>3
<1> DEFINE longest == {i \in for : length(i) = length(k)}
<1>5. PICK f \in longest : \A j \in longest : f <= j
  <2>1. longest \subseteq Nat /\ longest # {}
    BY <1>1
  <2> HIDE DEF longest
  <2>2. QED
    BY <2>1, LeastExists
<1>6. \A j \in for : length(j) < length(f) \/ (length(j) = length(f) /\ f <= j)
  BY <1>1, <1>4, <1>5
<1>7. f \in for
  BY <1>5
<1>8. rules[f] \in RuleFor(namespace, rules)
  BY <1>6, <1>7 DEF RuleFor, length
<1>9. QED
  BY <1>8

(* An attribute is left out exactly when it is not confirmed, has no rule  *)
(* or is governed by one that omits it: nothing is lost to the sort.       *)
THEOREM OmittedAsGoverned ==
  ASSUME NEW attribute, attribute.namespace \in Name, NEW rules \in Seq(Rule)
  PROVE  Projected(attribute, rules) = {} <=>
           \/ attribute.state # "confirmed"
           \/ GoverningAction(attribute.namespace, rules) = "omit"
<1> DEFINE namespace == attribute.namespace
<1>1. \A r \in RuleFor(namespace, rules) : r.action = GoverningAction(namespace, rules)
  BY RuleGoverns
<1>2. RuleFor(namespace, rules) = {} => GoverningAction(namespace, rules) = "omit"
  <2> SUFFICES ASSUME RuleFor(namespace, rules) = {}
               PROVE  GoverningAction(namespace, rules) = "omit"
    OBVIOUS
  <2>1. RulesFor(namespace, rules) = {}
    BY RuleIsFound
  <2>2. \A i \in DOMAIN rules : rules[i].prefix \in Name
    <3>1. \A i \in DOMAIN rules : rules[i] \in Rule
      OBVIOUS
    <3>2. \A q \in Rule : q.prefix \in Name
      BY DEF Rule
    <3>3. QED
      BY <3>1, <3>2
  <2>3. \A i \in DOMAIN rules : rules[i].prefix \notin Ancestors(namespace)
    BY <2>1, <2>2, PrefixIsAncestor DEF RulesFor
  <2>4. QED
    BY <2>3 DEF GoverningAction
<1>3. Projected(attribute, rules) = {} <=>
        \A r \in RuleFor(namespace, rules) :
          ~(attribute.state = "confirmed" /\ r.action # "omit")
  BY DEF Projected
<1> HIDE DEF namespace
<1>4. QED
  BY <1>1, <1>2, <1>3 DEF namespace

(* A view shows confirmed attributes of the model alone, each as the rule  *)
(* that governs it says. *)
LEMMA ViewIsGoverned ==
  ASSUME NEW model, NEW definition,
         \A m \in model.attributes : m.namespace \in Name,
         definition.rules \in Seq(Rule),
         NEW a \in Materialize(model, definition).attributes
  PROVE  /\ \E m \in model.attributes :
              m.id = a.id /\ m.namespace = a.namespace /\ m.state = "confirmed"
         /\ a.disclosure = GoverningAction(a.namespace, definition.rules)
         /\ a.disclosure # "omit"
         /\ a.plain => a.disclosure # "sealed"
<1>1. PICK m \in model.attributes : a \in Projected(m, definition.rules)
  BY DEF Materialize
<1>2. PICK r \in RuleFor(m.namespace, definition.rules) :
        /\ m.state = "confirmed" /\ r.action # "omit"
        /\ a = [id |-> m.id, namespace |-> m.namespace,
                disclosure |-> r.action, plain |-> r.action # "sealed"]
  BY <1>1 DEF Projected
<1>3. /\ a.id = m.id /\ a.namespace = m.namespace /\ a.disclosure = r.action
      /\ a.plain = (r.action # "sealed")
  BY <1>2
<1>4. r.action = GoverningAction(m.namespace, definition.rules)
  BY RuleGoverns
<1>5. QED
  BY <1>2, <1>3, <1>4

-----------------------------------------------------------------------------
(* The invariant of the specification *)

LEMMA InitInvariant == Init => IInv
<1> SUFFICES ASSUME Init PROVE IInv
  OBVIOUS
<1>1. /\ MaxTime \in Nat
  BY WalletAssumption
<1>2. Unused \in Unopened /\ Unused \notin Managed /\ Unused.state = "idle"
  BY DEF Unused, Unopened, Managed
<1>3. call = [c \in Fetching |-> Unused]
  BY DEF Init
<1>4. TypeOK
  <2>1. now \in 0..MaxTime
    BY <1>1 DEF Init
  <2>2. call \in [Fetching -> Managed \cup Unopened]
    BY <1>2, <1>3
  <2>3. QED
    BY <2>1, <2>2 DEF Init, TypeOK
<1>5. CallInv
  BY <1>2, <1>3 DEF CallInv
<1>6. RequestInv /\ PresentationInv
  BY <1>2, <1>3 DEF Init, RequestInv, PresentationInv, Fetching
<1>7. QED
  BY <1>4, <1>5, <1>6 DEF IInv

LEMMA StepInvariant == IInv /\ [Next]_vars => IInv'
<1> SUFFICES ASSUME IInv, [Next]_vars PROVE IInv'
  OBVIOUS
<1>1. TypeOK /\ CallInv /\ RequestInv /\ PresentationInv
  BY DEF IInv
<1>2. TypeOK'
  BY <1>1, TypeStep
<1>3. CallInv'
  BY <1>1, CallStep
<1>4. RequestInv'
  BY <1>1, RequestStep
<1>5. PresentationInv'
  BY <1>1, PresentationStep
<1>6. QED
  BY <1>2, <1>3, <1>4, <1>5 DEF IInv

THEOREM Invariant == Spec => []IInv
BY InitInvariant, StepInvariant, PTL DEF Spec

(* The variables keep their types: a request is opened once, fetched, read *)
(* and verified in order, and nothing is signed that was not built.        *)
THEOREM TypeCorrect == Spec => []TypeOK
<1>1. IInv => TypeOK
  BY DEF IInv
<1>2. QED
  BY <1>1, Invariant, PTL

LEMMA CausesAreReal == IInv => CauseIsReal /\ NothingLeftBehind
<1> SUFFICES ASSUME IInv, NEW c \in Fetching, Closed(c), "since" \in DOMAIN call[c]
             PROVE  /\ OutcomeIsReal(c, call[c])
                    /\ call[c] \in Managed
  BY DEF CauseIsReal, NothingLeftBehind, OutcomeIsReal
<1>1. call[c] \in Managed
  BY SinceIsManaged DEF IInv
<1>2. QED
  BY <1>1 DEF IInv, CallInv

(* For every timeout, deadline and order in which signal, timer and answer *)
(* race: the error a caller sees names something that happened to this     *)
(* request (220-227). *)
THEOREM CausesNamed == Spec => []CauseIsReal
BY Invariant, CausesAreReal, PTL

(* On every way out of a managed request its timer is cleared and its      *)
(* listener removed (182-185). *)
THEOREM NothingIsLeft == Spec => []NothingLeftBehind
BY Invariant, CausesAreReal, PTL

LEMMA ConsentBounds == IInv => PresentedWithinConsent
<1> SUFFICES ASSUME IInv, presentation # None
             PROVE  PresentedWithinConsent
  BY DEF PresentedWithinConsent
<1> DEFINE model == source.model
           definition == source.definition
<1>1. /\ request # None
      /\ presentation.audience = request.origin
      /\ presentation.view = Materialize(model, definition)
      /\ presentation.principal = presentation.view.entity
      /\ presentation.scopes \subseteq request.scopes
      /\ presentation.expiresAt <= request.expiresAt
      /\ Covers(presentation)
  BY DEF IInv, PresentationInv
<1>2. request.trusted /\ request.origin = uri.origin /\ request.callback = uri.origin
  BY <1>1 DEF IInv, RequestInv, Bound
<1>3. model \in Model /\ definition \in Definition
  BY DEF IInv, TypeOK
<1>4. presentation.principal = model.entity
  BY <1>1 DEF Materialize
<1>5. ASSUME NEW a \in presentation.view.attributes
      PROVE  /\ \E m \in model.attributes :
                  m.id = a.id /\ m.namespace = a.namespace /\ m.state = "confirmed"
             /\ a.disclosure = GoverningAction(a.namespace, definition.rules)
             /\ a.disclosure # "omit"
             /\ a.plain => a.disclosure # "sealed"
  <2>1. a \in Materialize(model, definition).attributes
    BY <1>1
  <2>2. \A m \in model.attributes : m.namespace \in Name
    BY <1>3, WalletAssumption
  <2>3. definition.rules \in Seq(Rule)
    BY <1>3, WalletAssumption
  <2> HIDE DEF model, definition
  <2>4. QED
    BY <2>1, <2>2, <2>3, ViewIsGoverned
<1>6. ASSUME NEW a \in presentation.view.attributes
      PROVE  \E s \in presentation.scopes : s \in request.scopes /\ IsPrefix(s, a.namespace)
  BY <1>1 DEF Covers, Under
<1>7. QED
  BY <1>1, <1>2, <1>4, <1>5, <1>6 DEF PresentedWithinConsent

(* For every application, model, definition and approval: what is          *)
(* presented goes to the origin that asked, under scopes asked for and     *)
(* approved, and shows each attribute as its most specific rule says.      *)
THEOREM ConsentRespected == Spec => []PresentedWithinConsent
BY Invariant, ConsentBounds, PTL
=============================================================================
