------------------------------- MODULE Wallet -------------------------------
(***************************************************************************)
(* One connection of a wallet to an application: ExpWalletSdk in           *)
(* src/wallet-sdk.ts retrieves and verifies the application's connect      *)
(* request, signs a presentation of an Entity View, and submits it.        *)
(*                                                                         *)
(* retrieveRequest and submitPresentation each run under a managedRequest: *)
(* an AbortController fed by the caller's signal and by one timer.  Their  *)
(* awaits (fetch, body, verifier) are where the signal, the timer and the  *)
(* answer race; between awaits the code runs to completion.  The fetch,    *)
(* the verifier and the signer are the host's and external.  options.now,  *)
(* which a call reads once to turn its deadline into a delay, is taken to  *)
(* run with the clock of setTimeout. *)
(***************************************************************************)
EXTENDS EntityView

CONSTANTS
  Uri,                \* request endpoints: valid, secure, origin
  Connect,            \* bodies of a connect answer; see IsRequest
  Model,              \* the principal's models
  Definition,         \* approved view definitions
  Approval,           \* what the user may approve
  Deadline,           \* instants a caller may give as deadlineAt
  None,               \* no deadline, no abort, no record
  TimeoutMs,          \* the values of options.timeoutMs
  MaxDelay,           \* the longest delay of setTimeout, 2^31 - 1 ms
  MaxTime             \* bound: the clock runs from 0 to MaxTime

Fetching == {"retrieve", "submit"}

Reason == {"caller", "timeout", "deadline"}

Code == {"REQUEST_CANCELLED", "INVALID_REQUEST_URL", "INSECURE_TRANSPORT",
         "REQUEST_TIMEOUT", "DEADLINE_EXCEEDED", "TRANSPORT_FAILURE",
         "INVALID_RESPONSE", "REQUEST_REJECTED", "INVALID_REQUEST_SIGNATURE",
         "ORIGIN_MISMATCH", "CALLBACK_ORIGIN_MISMATCH"}

Presentation ==
  [audience : {b.origin : b \in Connect}, purpose : {b.purpose : b \in Connect},
   principal : {a.principal : a \in Approval}, scopes : {a.scopes : a \in Approval},
   operations : {a.operations : a \in Approval},
   expiresAt : {a.expiresAt : a \in Approval},
   view : {Materialize(m, d) : m \in Model, d \in Definition}]

(* What the schemas say of names, rules and times. *)
ASSUME WalletAssumption ==
  /\ TimeoutMs \subseteq Nat \ {0}
  /\ MaxDelay \in Nat
  /\ MaxTime \in Nat
  /\ Deadline \subseteq Nat
  /\ None \notin Code \cup Reason \cup {"ok"}
  /\ None \notin Connect
  /\ None \notin Presentation
  /\ \A b \in Connect :
       b.trusted \in BOOLEAN /\ b.expiresAt \in Nat /\ b.scopes \subseteq Name
  /\ \A m \in Model : \A a \in m.attributes : a.namespace \in Name
  /\ \A d \in Definition : d.rules \in Seq(Rule)
  /\ \A a \in Approval : a.expiresAt \in Nat

VARIABLES
  now,
  aborted,            \* the caller's signal was aborted
  call,               \* the managed request of each of the two operations
  uri,                \* the endpoint the request is asked of
  timeoutMs,          \* the timeout the SDK was built with
  request,            \* what retrieveRequest returned
  source,             \* the model and the definition of the user's view
  presentation,       \* what createPresentation returned or is signing
  signing             \* createPresentation awaits the signer

fixed == <<uri, timeoutMs, source>>
vars == <<now, aborted, call, fixed, request, presentation, signing>>

Unused == [state |-> "idle", outcome |-> None]

Open(c) == call[c].state \in {"fetch", "body", "verify"}

Closed(c) == call[c].state = "closed"

Managed ==
  [state : {"fetch", "body", "verify", "closed"},
   since : 0..MaxTime,
   deadlineAt : Deadline \cup {None},
   signal : BOOLEAN,
   timer : BOOLEAN,
   listener : BOOLEAN,
   reason : Reason \cup {None},
   body : Connect \cup {None},
   outcome : Code \cup {"ok", None}]

(* Idle, or refused before anything was opened. *)
Unopened == [state : {"idle", "closed"}, outcome : Code \cup {None}]

TypeOK ==
  /\ now \in 0..MaxTime
  /\ aborted \in BOOLEAN
  /\ call \in [Fetching -> Managed \cup Unopened]
  /\ uri \in Uri
  /\ timeoutMs \in TimeoutMs
  /\ request \in Connect \cup {None}
  /\ source \in [model : Model, definition : Definition]
  /\ presentation \in Presentation \cup {None}
  /\ signing \in BOOLEAN
  /\ signing => presentation # None

Init ==
  /\ now = 0
  /\ aborted = FALSE
  /\ call = [c \in Fetching |-> Unused]
  /\ uri \in Uri
  /\ timeoutMs \in TimeoutMs
  /\ request = None
  /\ source \in [model : Model, definition : Definition]
  /\ presentation = None
  /\ signing = FALSE

-----------------------------------------------------------------------------
(* managedRequest: one signal, one timer.                                  *)

Refused(code) == [state |-> "closed", outcome |-> code]

Started(options) ==
  [state |-> "fetch", since |-> now, deadlineAt |-> options.deadlineAt,
   signal |-> options.signal, timer |-> TRUE, listener |-> options.signal,
   reason |-> None, body |-> None, outcome |-> None]

ManagedRequest(options) ==
  IF options.signal /\ aborted THEN Refused("REQUEST_CANCELLED")
  ELSE IF options.deadlineAt # None /\ options.deadlineAt <= now
       THEN Refused("DEADLINE_EXCEEDED")
       ELSE Started(options)

DeadlineFirst(k) == k.deadlineAt # None /\ k.deadlineAt - k.since <= timeoutMs

(* The delay given to setTimeout. *)
Delay(k) == IF DeadlineFirst(k) THEN k.deadlineAt - k.since ELSE timeoutMs

Overlong(k) == Delay(k) > MaxDelay

(* Mutant: the timer is set for the caller's deadline alone. *)
DueAtDeadline(k) == IF k.deadlineAt # None THEN k.deadlineAt ELSE MaxTime + 1

(* When the timer fires: at once, if setTimeout cannot hold the delay. *)
Due(k) == k.since + IF Overlong(k) THEN 0 ELSE Delay(k)

(* Mutant: a caller that gave a deadline is always told of it. *)
TimerReasonDeadline(k) == IF k.deadlineAt # None THEN "deadline" ELSE "timeout"

TimerReason(k) == IF DeadlineFirst(k) THEN "deadline" ELSE "timeout"

(* The timer's callback; it does not ask whether the caller was first. *)
Fired(k) == [k EXCEPT !.timer = FALSE, !.reason = TimerReason(k)]

TimerFires(c) ==
  /\ Open(c) /\ call[c].timer
  /\ Due(call[c]) <= now
  /\ call' = [call EXCEPT ![c] = Fired(@)]
  /\ UNCHANGED <<now, aborted, fixed, request, presentation, signing>>

(* onCallerAbort, registered for one call. *)
Cancelled(k) == [k EXCEPT !.reason = "caller", !.listener = FALSE]

(* The caller aborts the signal it gave; every registered listener hears. *)
CallerAborts ==
  /\ ~aborted
  /\ aborted' = TRUE
  /\ call' = [c \in Fetching |->
       IF Open(c) /\ call[c].listener THEN Cancelled(call[c]) ELSE call[c]]
  /\ UNCHANGED <<now, fixed, request, presentation, signing>>

(* Mutant: the timer is cleared and the caller's signal still listened to. *)
EndedListening(k, outcome) ==
  [k EXCEPT !.state = "closed", !.outcome = outcome, !.timer = FALSE]

(* cleanup, and the promise is settled. *)
Ended(k, outcome) ==
  [k EXCEPT !.state = "closed", !.outcome = outcome,
            !.timer = FALSE, !.listener = FALSE]

(* The catch blocks: why it was aborted outweighs what went wrong. *)
Failure(k, code) ==
  CASE k.reason = "caller"   -> "REQUEST_CANCELLED"
    [] k.reason = "deadline" -> "DEADLINE_EXCEEDED"
    [] k.reason = "timeout"  -> "REQUEST_TIMEOUT"
    [] OTHER                 -> code

-----------------------------------------------------------------------------
(* retrieveRequest.                                                        *)

Option == [deadlineAt : Deadline \cup {None}, signal : BOOLEAN]

(* Bound: no request starts so late that its timer lies beyond MaxTime. *)
InTime == now + timeoutMs <= MaxTime

Retrieve(options) ==
  /\ call["retrieve"] = Unused
  /\ InTime
  /\ call' = [call EXCEPT !["retrieve"] =
       IF ~uri.valid THEN Refused("INVALID_REQUEST_URL")
       ELSE IF ~uri.secure THEN Refused("INSECURE_TRANSPORT")
       ELSE ManagedRequest(options)]
  /\ UNCHANGED <<now, aborted, fixed, request, presentation, signing>>

(* fetch rejects: the network failed, or it obeyed the aborted signal. *)
FetchRejects(c) ==
  /\ call[c].state = "fetch"
  /\ call' = [call EXCEPT ![c] = Ended(@, Failure(@, "TRANSPORT_FAILURE"))]
  /\ UNCHANGED <<now, aborted, fixed, request, presentation, signing>>

RetrieveAnswered(ok) ==
  /\ call["retrieve"].state = "fetch"
  /\ call' = [call EXCEPT !["retrieve"] =
       IF ok THEN [@ EXCEPT !.state = "body"]
       ELSE Ended(@, Failure(@, "REQUEST_REJECTED"))]
  /\ UNCHANGED <<now, aborted, fixed, request, presentation, signing>>

(* The body cannot be read, is not JSON or is no connect request. *)
BodyFails ==
  /\ call["retrieve"].state = "body"
  /\ call' = [call EXCEPT !["retrieve"] = Ended(@, Failure(@, "INVALID_RESPONSE"))]
  /\ UNCHANGED <<now, aborted, fixed, request, presentation, signing>>

BindingError(b) ==
  IF b.origin # uri.origin THEN "ORIGIN_MISMATCH"
  ELSE IF b.callback # b.origin THEN "CALLBACK_ORIGIN_MISMATCH"
  ELSE None

BodyDecoded(b) ==
  /\ call["retrieve"].state = "body"
  /\ call' = [call EXCEPT !["retrieve"] =
       IF BindingError(b) # None THEN Ended(@, Failure(@, BindingError(b)))
       ELSE [@ EXCEPT !.state = "verify", !.body = b]]
  /\ UNCHANGED <<now, aborted, fixed, request, presentation, signing>>

(* The verifier is not given the signal: its answer counts even after an   *)
(* abort. *)
VerifierAnswers ==
  /\ call["retrieve"].state = "verify"
  /\ LET b == call["retrieve"].body IN
       /\ call' = [call EXCEPT !["retrieve"] =
            IF b.trusted THEN Ended(@, "ok")
            ELSE Ended(@, Failure(@, "INVALID_REQUEST_SIGNATURE"))]
       /\ request' = IF b.trusted THEN b ELSE None
  /\ UNCHANGED <<now, aborted, fixed, presentation, signing>>

VerifierFails ==
  /\ call["retrieve"].state = "verify"
  /\ call' = [call EXCEPT !["retrieve"] = Ended(@, Failure(@, "TRANSPORT_FAILURE"))]
  /\ UNCHANGED <<now, aborted, fixed, request, presentation, signing>>

-----------------------------------------------------------------------------
(* createPresentation and validateWalletPresentation.                      *)

Narrows(approval, r) ==
  /\ approval.scopes \subseteq r.scopes
  /\ approval.operations \subseteq r.operations

PresentationFor(r, approval) ==
  [audience |-> r.origin, purpose |-> r.purpose,
   principal |-> approval.principal, scopes |-> approval.scopes,
   operations |-> approval.operations, expiresAt |-> approval.expiresAt,
   view |-> Materialize(source.model, source.definition)]

Covers(p) ==
  \A a \in p.view.attributes : \E s \in p.scopes : Under(a.namespace, s)

(* Bindings that hold by construction are left out: requestId, nonce,      *)
(* audience and requester are copied from the request. *)
Validates(p, r) ==
  /\ p.scopes # {} /\ p.operations # {}
  /\ p.principal = p.view.entity
  /\ p.view.purpose = r.purpose
  /\ now < r.expiresAt
  /\ now < p.expiresAt
  /\ p.expiresAt <= r.expiresAt
  /\ Covers(p)

CreatePresentation(approval) ==
  /\ request # None
  /\ presentation = None
  /\ Narrows(approval, request)
  /\ Validates(PresentationFor(request, approval), request)
  /\ presentation' = PresentationFor(request, approval)
  /\ signing' = TRUE
  /\ UNCHANGED <<now, aborted, call, fixed, request>>

Signed ==
  /\ signing
  /\ signing' = FALSE
  /\ UNCHANGED <<now, aborted, call, fixed, request, presentation>>

SignerFails ==
  /\ signing
  /\ signing' = FALSE
  /\ presentation' = None
  /\ UNCHANGED <<now, aborted, call, fixed, request>>

-----------------------------------------------------------------------------
(* submitPresentation.                                                     *)

Submit(options) ==
  /\ presentation # None /\ ~signing
  /\ call["submit"] = Unused
  /\ InTime
  /\ call' = [call EXCEPT !["submit"] = ManagedRequest(options)]
  /\ UNCHANGED <<now, aborted, fixed, request, presentation, signing>>

(* Any answer ends the managed request first, whether it was aborted or    *)
(* not. *)
SubmitAnswered(ok) ==
  /\ call["submit"].state = "fetch"
  /\ call' = [call EXCEPT !["submit"] =
       Ended(@, IF ok THEN "ok" ELSE "REQUEST_REJECTED")]
  /\ UNCHANGED <<now, aborted, fixed, request, presentation, signing>>

Tick ==
  /\ now < MaxTime
  /\ now' = now + 1
  /\ UNCHANGED <<aborted, call, fixed, request, presentation, signing>>

Next ==
  \/ \E options \in Option : Retrieve(options) \/ Submit(options)
  \/ \E c \in Fetching : TimerFires(c) \/ FetchRejects(c)
  \/ \E ok \in BOOLEAN : RetrieveAnswered(ok) \/ SubmitAnswered(ok)
  \/ BodyFails
  \/ \E b \in Connect : BodyDecoded(b)
  \/ VerifierAnswers
  \/ VerifierFails
  \/ \E approval \in Approval : CreatePresentation(approval)
  \/ Signed
  \/ SignerFails
  \/ CallerAborts
  \/ Tick

Spec == Init /\ [][Next]_vars

(* Time passes and timers fire, and a fetch and the reading of its body    *)
(* obey the signal they were given.  Nothing else is promised: neither the *)
(* application nor the verifier, which gets no signal, need ever answer. *)
Fairness ==
  /\ WF_vars(Tick)
  /\ \A c \in Fetching : WF_vars(TimerFires(c))
  /\ \A c \in Fetching : WF_vars(FetchRejects(c) /\ call[c].reason # None)
  /\ WF_vars(BodyFails /\ call["retrieve"].reason # None)

FairSpec == Spec /\ Fairness

-----------------------------------------------------------------------------
(* Properties.                                                             *)

(* The error a caller sees names something that really happened to this    *)
(* request: its signal was aborted, its timeout passed, or its deadline    *)
(* did, in whatever order signal, timer and answer raced (167-178), or the *)
(* delay was beyond setTimeout, whose timer then fires at once; and a      *)
(* retrieval that fails after it was aborted reports that and never blames *)
(* the application: "preserve cancellation and timeout causes",            *)
(* docs/platform-sdks.md (220-227). *)
CauseIsReal ==
  \A c \in Fetching : Closed(c) /\ "since" \in DOMAIN call[c] =>
    /\ call[c].outcome = "REQUEST_CANCELLED" => call[c].signal /\ aborted
    /\ call[c].outcome = "REQUEST_TIMEOUT" =>
         call[c].since + timeoutMs <= now \/ Overlong(call[c])
    /\ call[c].outcome = "DEADLINE_EXCEEDED" =>
         /\ call[c].deadlineAt # None
         /\ call[c].deadlineAt <= now \/ Overlong(call[c])
    /\ c = "retrieve" /\ call[c].reason # None =>
         call[c].outcome \in {"ok", "REQUEST_CANCELLED", "REQUEST_TIMEOUT",
                              "DEADLINE_EXCEEDED"}

(* On every way out the timer is cleared and the listener removed from the *)
(* caller's signal, which may serve many requests (182-185, 229, 273, 279). *)
NothingLeftBehind ==
  \A c \in Fetching : Closed(c) /\ "since" \in DOMAIN call[c] =>
    ~call[c].timer /\ ~call[c].listener

(* Model, rules, request and approval together bound what is presented: it *)
(* goes back to the origin that asked and signed for it (213-218), every   *)
(* attribute is a confirmed one of the principal, lies under a scope both  *)
(* asked for and approved, and appears as its most specific rule says,     *)
(* never in plain when that rule seals it (wallet.ts 160-165,              *)
(* entity-model.ts 127-160). *)
PresentedWithinConsent ==
  presentation # None =>
    /\ request.trusted
    /\ presentation.audience = uri.origin /\ request.callback = uri.origin
    /\ presentation.principal = source.model.entity
    /\ presentation.expiresAt <= request.expiresAt
    /\ \A a \in presentation.view.attributes :
         /\ \E m \in source.model.attributes :
              m.id = a.id /\ m.namespace = a.namespace /\ m.state = "confirmed"
         /\ \E s \in presentation.scopes :
              s \in request.scopes /\ IsPrefix(s, a.namespace)
         /\ a.disclosure = GoverningAction(a.namespace, source.definition.rules)
         /\ a.disclosure # "omit"
         /\ a.plain => a.disclosure # "sealed"

(* Whatever the application does, a request the SDK opened ends, since the *)
(* timer aborts it (175-178), or has got as far as the verifier, which no  *)
(* timer ends (217). *)
CallsSettle == \A c \in Fetching : Open(c) ~> (Closed(c) \/ call[c].state = "verify")

=============================================================================
