---------------------- MODULE InMemoryTransportProofs ----------------------
(***************************************************************************)
(* Theorems about InMemoryTransport for every set of sends, requests and   *)
(* options, with and without a verifier, and about McpDelivery, which      *)
(* inherits them, for every set of arguments.                              *)
(***************************************************************************)
EXTENDS McpDelivery, TLAPS

(* Where a send stands, as far as the argument needs it. *)
Stage(s) ==
  /\ call[s] = Nothing => /\ answer[s] = Nothing
                          /\ s \notin aborted
                          /\ s \notin verifying
                          /\ ~Handled(s)
  /\ s \in verifying => answer[s] = Nothing /\ ~Handled(s)
  /\ s \in handling => Handled(s)
  /\ call[s] # Nothing => call[s].at <= now
  /\ Handled(s) => handledAt[s] <= now
  /\ armedAt[s] # Never => Handled(s) /\ call[s].deadlineAt # Never

(* A handled request has expired or its entry is still in the map.  The    *)
(* map is purged with a time that has passed, so never too early. *)
Remembered(s) ==
  Handled(s) => \/ call[s].expiresAt # Never /\ call[s].expiresAt <= now
                \/ replayed[call[s].key] = call[s].expiresAt

(* Every entry of the map is that of a handled request. *)
Explained(k) ==
  replayed[k] # Nothing => \E u \in Send : Handled(u) /\ call[u].key = k

IInv ==
  /\ TypeOK
  /\ \A s \in Send : Stage(s) /\ Remembered(s)
  /\ \A k \in Key : Explained(k)
  /\ NonceHeldWhileValid
  /\ AnswerIsTrue

-----------------------------------------------------------------------------
(* Facts about types *)

LEMMA NothingIsNoCall == Nothing \notin Call /\ Never # Nothing
BY TransportAssumption DEF TransportAssumption, Instant

LEMMA CallFields ==
  ASSUME NEW c \in Call
  PROVE  /\ c.key \in Key
         /\ c.expiresAt \in {Never} \cup Nat
         /\ c.deadlineAt \in {Never} \cup Nat
         /\ c.at \in Nat
         /\ c.expiresAt # Nothing
BY TransportAssumption DEF TransportAssumption, Call, Instant, Time

LEMMA CallOf ==
  ASSUME TypeOK, NEW s \in Send, call[s] # Nothing
  PROVE  call[s] \in Call
BY DEF TypeOK

LEMMA HandledCall ==
  ASSUME IInv, NEW s \in Send, Handled(s)
  PROVE  /\ call[s] \in Call
         /\ handledAt[s] \in Nat /\ handledAt[s] <= now
         /\ now \in Nat
BY CallOf DEF IInv, Stage, TypeOK, Handled, Instant, Time

(* What purging leaves. *)
LEMMA PurgedEntries ==
  ASSUME TypeOK, NEW t \in Time
  PROVE  /\ Purged(t) \in [Key -> {Nothing} \cup Instant]
         /\ \A k \in Key : \/ Purged(t)[k] = replayed[k]
                           \/ /\ Purged(t)[k] = Nothing
                              /\ replayed[k] # Nothing
                              /\ replayed[k] # Never /\ replayed[k] <= t
BY DEF TypeOK, Purged, Expired

-----------------------------------------------------------------------------
(* Claiming and handling *)

(* What the end of deliver, for the call c of s, finds and leaves alone. *)
Delivering(s, c) ==
  /\ c \in Call
  /\ c.at <= now
  /\ answer[s] = Nothing
  /\ ~Handled(s)
  /\ call[s] = Nothing \/ call[s] = c
  /\ call' = [call EXCEPT ![s] = c]
  /\ aborted' = aborted
  /\ s \in aborted => call[s] = c
  /\ verifying' \in SUBSET verifying
  /\ s \notin verifying'
  /\ now' = now /\ wall' = wall

(* Calls of the other sends stay, and a call once made does not change. *)
LEMMA OtherCalls ==
  ASSUME IInv, NEW s \in Send, NEW c, Delivering(s, c)
  PROVE  /\ call' \in [Send -> {Nothing} \cup Call]
         /\ call'[s] = c /\ c # Nothing
         /\ \A u \in Send : u # s => call'[u] = call[u]
BY NothingIsNoCall DEF IInv, TypeOK, Delivering

(* After a replay is refused. *)
LEMMA ReplayStep ==
  ASSUME IInv, NEW s \in Send, NEW c, Delivering(s, c),
         Replay(c), replayed' = Purged(c.at), Answer(s, "NONCE_REPLAY"),
         UNCHANGED <<timed, handling>>
  PROVE  IInv'
<1>0. handledAt' = handledAt /\ armedAt' = armedAt /\ handling' = handling
  BY DEF timed
<1>1. /\ call' \in [Send -> {Nothing} \cup Call]
      /\ call'[s] = c /\ c # Nothing
      /\ \A u \in Send : u # s => call'[u] = call[u]
  BY OtherCalls
<1>2. /\ c.key \in Key /\ c.at \in Time /\ now \in Nat /\ c.at \in Nat
  BY CallFields DEF Delivering, Call, IInv, TypeOK, Time
<1>3. /\ replayed' \in [Key -> {Nothing} \cup Instant]
      /\ \A k \in Key : \/ replayed'[k] = replayed[k]
                        \/ /\ replayed'[k] = Nothing
                           /\ replayed[k] # Nothing
                           /\ replayed[k] # Never /\ replayed[k] <= c.at
  BY <1>2, PurgedEntries DEF IInv
<1>4. /\ answer' \in [Send -> {Nothing} \cup Settled \cup Budget \cup Refused]
      /\ answer'[s] = "NONCE_REPLAY"
      /\ \A u \in Send : u # s => answer'[u] = answer[u]
  BY DEF IInv, TypeOK, Answer, Refused
<1>5. TypeOK'
  BY <1>0, <1>1, <1>3, <1>4 DEF IInv, TypeOK, Delivering
<1>6. \A u \in Send : (Handled(u))' = Handled(u) /\ (Handled(u) => u # s)
  BY <1>0 DEF Handled, Delivering
<1>7. "NONCE_REPLAY" # Nothing /\ s \notin handling
  BY <1>4, <1>6, TransportAssumption DEF TransportAssumption, IInv, Stage, Refused, Delivering
<1>armed. armedAt[s] = Never
  BY DEF IInv, Stage, Delivering
<1>8. ASSUME NEW u \in Send
      PROVE  Stage(u)' /\ Remembered(u)'
  <2>1. CASE u = s
    <3>1. Stage(u)'
      BY <2>1, <1>0, <1>1, <1>2, <1>6, <1>7, <1>armed DEF Delivering, Stage
    <3>2. QED
      BY <2>1, <1>6, <3>1 DEF Remembered, Delivering
  <2>2. CASE u # s
    <3>1. Stage(u)'
      BY <2>2, <1>0, <1>1, <1>4, <1>6 DEF IInv, Stage, Delivering
    <3>2. ASSUME Handled(u) PROVE Remembered(u)'
      <4>1. call[u] \in Call /\ call'[u] = call[u] /\ call[u].key \in Key
        BY <2>2, <1>1, <3>2, HandledCall, CallFields
      <4>2. CASE call[u].expiresAt # Never /\ call[u].expiresAt <= now
        BY <4>1, <4>2 DEF Remembered, Delivering
      <4>3. CASE replayed[call[u].key] = call[u].expiresAt
        <5>1. CASE replayed'[call[u].key] = replayed[call[u].key]
          BY <4>1, <4>3, <5>1 DEF Remembered
        <5>2. CASE replayed[call[u].key] # Never /\ replayed[call[u].key] <= c.at
          <6>1. call[u].expiresAt \in Nat /\ call[u].expiresAt <= c.at
            BY <4>1, <4>3, <5>2, CallFields
          <6>2. call[u].expiresAt # Never /\ call[u].expiresAt <= now
            BY <6>1, <1>2, <4>3, <5>2 DEF Delivering
          <6>3. QED
            BY <4>1, <6>2 DEF Remembered, Delivering
        <5>3. QED
          BY <4>1, <5>1, <5>2, <1>3
      <4>4. QED
        BY <3>2, <4>2, <4>3 DEF IInv, Remembered
    <3>3. ASSUME ~Handled(u) PROVE Remembered(u)'
      BY <3>3, <1>6 DEF Remembered
    <3>4. QED
      BY <3>1, <3>2, <3>3
  <2>3. QED
    BY <2>1, <2>2
<1>9. \A k \in Key : Explained(k)'
  BY <1>1, <1>3, <1>6 DEF IInv, Explained
<1>10. NonceHeldWhileValid'
  <2>1. \A u \in Send : Handled(u) => call'[u] = call[u]
    BY <1>1, <1>6
  <2>2. handledAt' = handledAt
    BY <1>0
  <2>3. QED
    BY <2>1, <2>2, <1>6 DEF IInv, NonceHeldWhileValid
<1>11. AnswerIsTrue'
  <2>1. \E v \in Send : Handled(v) /\ v # s /\ call[v].key = c.key
    <3>1. replayed[c.key] # Nothing
      BY <1>2, PurgedEntries DEF IInv, Replay
    <3>2. QED
      BY <3>1, <1>2, <1>6 DEF IInv, Explained
  <2>2. AnswerIsTrueOf(s)'
    BY <2>1, <1>1, <1>4, <1>6 DEF AnswerIsTrueOf
  <2>3. ASSUME NEW u \in Send, u # s
        PROVE  AnswerIsTrueOf(u)'
    <3>1. AnswerIsTrueOf(u) /\ answer'[u] = answer[u] /\ call'[u] = call[u]
      BY <2>3, <1>1, <1>4 DEF IInv, AnswerIsTrue
    <3>2. DeadlineSpent(u) => DeadlineSpent(u)'
      BY <1>0, <3>1 DEF DeadlineSpent, Overlong, Delivering
    <3>3. \A v \in Send : Handled(v) => call'[v] = call[v]
      BY <1>1, <1>6
    <3>4. QED
      BY <3>1, <3>2, <3>3, <1>0, <1>6 DEF AnswerIsTrueOf, Delivering
  <2>4. QED
    BY <2>2, <2>3 DEF AnswerIsTrue
<1>12. QED
  BY <1>5, <1>8, <1>9, <1>10, <1>11 DEF IInv

(* After the handler was called. *)
LEMMA HandleStep ==
  ASSUME IInv, NEW s \in Send, NEW c, Delivering(s, c),
         ~Replay(c), Handle(s, c)
  PROVE  IInv'
<1>1. /\ call' \in [Send -> {Nothing} \cup Call]
      /\ call'[s] = c /\ c # Nothing
      /\ \A u \in Send : u # s => call'[u] = call[u]
  BY OtherCalls
<1>2. /\ c.key \in Key /\ c.at \in Time /\ now \in Nat /\ c.at \in Nat
      /\ c.expiresAt \in Instant /\ c.expiresAt # Nothing
  BY CallFields DEF Delivering, Call, IInv, TypeOK, Time
<1>3. /\ replayed' \in [Key -> {Nothing} \cup Instant]
      /\ replayed'[c.key] = c.expiresAt
      /\ \A k \in Key \ {c.key} : \/ replayed'[k] = replayed[k]
                                  \/ /\ replayed'[k] = Nothing
                                     /\ replayed[k] # Nothing
                                     /\ replayed[k] # Never /\ replayed[k] <= c.at
  BY <1>2, PurgedEntries DEF IInv, Handle, Claimed
<1>4. \/ replayed[c.key] = Nothing
      \/ replayed[c.key] # Never /\ replayed[c.key] <= c.at
  BY <1>2, PurgedEntries DEF IInv, Replay
<1>5. /\ handledAt' \in [Send -> Instant]
      /\ handledAt'[s] = now
      /\ \A u \in Send : u # s => handledAt'[u] = handledAt[u]
  BY <1>2 DEF IInv, TypeOK, Handle, Instant
<1>armed. /\ armedAt' \in [Send -> Instant]
          /\ armedAt'[s] # Never => c.deadlineAt # Never
          /\ \A u \in Send : u # s => armedAt'[u] = armedAt[u]
  BY DEF IInv, TypeOK, Handle, Armed, Time, Instant
<1>6. /\ answer' \in [Send -> {Nothing} \cup Settled \cup Budget \cup Refused]
      /\ \A u \in Send : u # s => answer'[u] = answer[u]
      /\ \A u \in Send : u # s => (u \in handling' <=> u \in handling)
      /\ handling' \in SUBSET Send
  BY DEF IInv, TypeOK, Handle, Answer, Budget
<1>7. \/ answer'[s] = Nothing
      \/ answer'[s] = "REQUEST_CANCELLED" /\ s \in aborted
      \/ answer'[s] \in Settled /\ handling' = handling
  BY DEF IInv, TypeOK, Handle, Answer, Delivering
<1>8. TypeOK'
  BY <1>1, <1>3, <1>5, <1>6, <1>armed DEF IInv, TypeOK, Delivering
<1>9. now # Never /\ now # Nothing /\ Never # Nothing
  BY <1>2, TransportAssumption DEF TransportAssumption, Instant
<1>10. /\ Handled(s)' /\ ~Handled(s)
       /\ \A u \in Send : u # s => (Handled(u)' <=> Handled(u))
  BY <1>5, <1>9 DEF Handled, Delivering
(* What was handled before with this nonce has expired. *)
<1>11. ASSUME NEW u \in Send, Handled(u), call[u].key = c.key
       PROVE  call[u].expiresAt # Never /\ call[u].expiresAt <= now
  <2>1. CASE replayed[c.key] = call[u].expiresAt
    <3>1. call[u].expiresAt # Nothing /\ call[u].expiresAt \in {Never} \cup Nat
      BY <1>11, HandledCall, CallFields
    <3>2. call[u].expiresAt # Never /\ call[u].expiresAt <= c.at
      BY <2>1, <3>1, <1>4
    <3>3. QED
      BY <3>1, <3>2, <1>2 DEF Delivering
  <2>2. QED
    BY <2>1, <1>11 DEF IInv, Remembered
<1>12. ASSUME NEW u \in Send
       PROVE  Stage(u)' /\ Remembered(u)'
  <2>1. CASE u = s
    <3>1. Stage(u)'
      BY <2>1, <1>1, <1>2, <1>5, <1>10, <1>armed DEF Delivering, Stage
    <3>2. QED
      BY <2>1, <1>1, <1>3, <3>1 DEF Remembered
  <2>2. CASE u # s
    <3>1. Stage(u)'
      BY <2>2, <1>1, <1>5, <1>6, <1>10, <1>armed DEF IInv, Stage, Delivering
    <3>2. ASSUME Handled(u) PROVE Remembered(u)'
      <4>1. call[u] \in Call /\ call'[u] = call[u] /\ call[u].key \in Key
        BY <2>2, <1>1, <3>2, HandledCall, CallFields
      <4>2. CASE call[u].expiresAt # Never /\ call[u].expiresAt <= now
        BY <4>1, <4>2 DEF Remembered, Delivering
      <4>3. CASE replayed[call[u].key] = call[u].expiresAt /\ call[u].key # c.key
        <5>1. CASE replayed'[call[u].key] = replayed[call[u].key]
          BY <4>1, <4>3, <5>1 DEF Remembered
        <5>2. CASE replayed[call[u].key] # Never /\ replayed[call[u].key] <= c.at
          <6>1. call[u].expiresAt \in Nat /\ call[u].expiresAt <= c.at
            BY <4>1, <4>3, <5>2, CallFields
          <6>2. call[u].expiresAt # Never /\ call[u].expiresAt <= now
            BY <6>1, <1>2, <4>3, <5>2 DEF Delivering
          <6>3. QED
            BY <4>1, <6>2 DEF Remembered, Delivering
        <5>3. QED
          BY <4>1, <4>3, <5>1, <5>2, <1>3
      <4>4. CASE call[u].key = c.key
        BY <3>2, <4>2, <4>4, <1>11
      <4>5. QED
        BY <3>2, <4>2, <4>3, <4>4 DEF IInv, Remembered
    <3>3. ASSUME ~Handled(u) PROVE Remembered(u)'
      BY <2>2, <3>3, <1>10 DEF Remembered
    <3>4. QED
      BY <3>1, <3>2, <3>3
  <2>3. QED
    BY <2>1, <2>2
<1>13. ASSUME NEW k \in Key
       PROVE  Explained(k)'
  <2>1. CASE k = c.key
    BY <2>1, <1>1, <1>10 DEF Explained
  <2>2. CASE k # c.key
    <3>1. \A u \in Send : Handled(u) => Handled(u)' /\ call'[u] = call[u]
      BY <1>1, <1>10
    <3>2. QED
      BY <2>2, <3>1, <1>3 DEF IInv, Explained
  <2>3. QED
    BY <2>1, <2>2
<1>14. NonceHeldWhileValid'
  <2> SUFFICES ASSUME NEW u \in Send, NEW v \in Send,
                      Handled(u)', Handled(v)', u # v, call'[u].key = call'[v].key
               PROVE  \/ call'[u].expiresAt # Never /\ call'[u].expiresAt <= handledAt'[v]
                      \/ call'[v].expiresAt # Never /\ call'[v].expiresAt <= handledAt'[u]
    BY DEF NonceHeldWhileValid
  <2>1. CASE u # s /\ v # s
    <3>1. /\ call'[u] = call[u] /\ call'[v] = call[v] /\ Handled(u) /\ Handled(v)
          /\ handledAt'[u] = handledAt[u] /\ handledAt'[v] = handledAt[v]
      BY <2>1, <1>1, <1>5, <1>10
    <3>2. QED
      BY <3>1 DEF IInv, NonceHeldWhileValid
  <2>2. CASE u = s
    BY <2>2, <1>1, <1>5, <1>10, <1>11
  <2>3. CASE v = s
    BY <2>3, <1>1, <1>5, <1>10, <1>11
  <2>4. QED
    BY <2>1, <2>2, <2>3
<1>15. ASSUME NEW u \in Send
       PROVE  AnswerIsTrueOf(u)'
  <2>1. CASE u = s
    <3>1. s \notin handling
      BY <1>10 DEF IInv, Stage
    <3>2. Nothing \notin Settled \cup Budget \cup Refused
      BY TransportAssumption DEF TransportAssumption
    <3>3. s \in aborted <=> s \in aborted'
      BY DEF Delivering
    <3>4. QED
      BY <2>1, <1>7, <1>10, <3>1, <3>2, <3>3 DEF AnswerIsTrueOf, Settled, Budget, Refused
  <2>2. CASE u # s
    <3>1. /\ answer'[u] = answer[u] /\ call'[u] = call[u]
          /\ Handled(u)' <=> Handled(u)
          /\ aborted' = aborted /\ now' = now
          /\ u \in handling' <=> u \in handling
      BY <2>2, <1>1, <1>6, <1>10 DEF Delivering
    <3>2. \A v \in Send : Handled(v) => Handled(v)' /\ call'[v] = call[v]
      BY <1>1, <1>10
    <3>3. DeadlineSpent(u) => DeadlineSpent(u)'
      BY <2>2, <3>1, <1>armed DEF DeadlineSpent, Overlong, Delivering
    <3>4. QED
      BY <3>1, <3>2, <3>3 DEF IInv, AnswerIsTrue, AnswerIsTrueOf
  <2>3. QED
    BY <2>1, <2>2
<1>16. QED
  BY <1>8, <1>12, <1>13, <1>14, <1>15 DEF IInv, AnswerIsTrue

LEMMA DeliverStep ==
  ASSUME IInv, NEW s \in Send, NEW c, Delivering(s, c), Deliver(s, c)
  PROVE  IInv'
BY ReplayStep, HandleStep DEF Deliver

-----------------------------------------------------------------------------
(* Steps that neither claim nor handle *)

Quiet ==
  /\ UNCHANGED <<replayed, handledAt, armedAt>>
  /\ now <= now' /\ wall <= wall'
  /\ \A u \in Send :
       /\ call'[u] = call[u] \/ (call[u] = Nothing /\ call'[u].at <= now')
       /\ call'[u] = Nothing => u \notin aborted' \cup verifying'
       /\ \/ answer'[u] = answer[u]
          \/ /\ answer[u] = Nothing
             /\ call'[u] # Nothing
             /\ u \notin verifying'
             /\ AnswerIsTrueOf(u)'
       /\ u \in verifying' => answer'[u] = Nothing /\ ~Handled(u)
  /\ aborted \subseteq aborted'
  /\ handling' \subseteq handling

LEMMA QuietStep ==
  ASSUME IInv, TypeOK', Quiet
  PROVE  IInv'
<1>1. \A u \in Send : Handled(u)' <=> Handled(u)
  BY DEF Quiet, Handled
<1>2. \A u \in Send : Handled(u) => call'[u] = call[u]
  BY DEF Quiet, IInv, Stage
<1>3. /\ now \in Nat /\ now' \in Nat /\ now <= now'
      /\ wall \in Nat /\ wall' \in Nat /\ wall <= wall'
  BY DEF IInv, TypeOK, Quiet, Time
<1>4. ASSUME NEW u \in Send
      PROVE  Stage(u)'
  <2>1. u \in handling' => Handled(u)'
    BY <1>1 DEF Quiet, IInv, Stage
  <2>2. call'[u] # Nothing => call'[u].at <= now'
    <3>1. CASE call'[u] = call[u] /\ call[u] # Nothing
      <4>1. call[u].at \in Nat /\ call[u].at <= now
        BY <3>1, CallOf, CallFields DEF IInv, Stage
      <4>2. QED
        BY <3>1, <4>1, <1>3
    <3>2. QED
      BY <3>1 DEF Quiet
  <2>3. Handled(u)' => handledAt'[u] <= now'
    BY <1>1, <1>3, HandledCall DEF Quiet
  <2>4. call'[u] = Nothing => answer'[u] = Nothing /\ ~Handled(u)'
    BY <1>1, NothingIsNoCall DEF Quiet, IInv, Stage, TypeOK
  <2>5. armedAt'[u] # Never => Handled(u)' /\ call'[u].deadlineAt # Never
    BY <1>1, <1>2 DEF Quiet, IInv, Stage
  <2>6. QED
    BY <2>1, <2>2, <2>3, <2>4, <2>5, <1>1 DEF Quiet, Stage
<1>5. ASSUME NEW u \in Send, Handled(u)
      PROVE  Remembered(u)'
  <2>1. call[u].expiresAt # Never /\ call[u].expiresAt <= now => call[u].expiresAt <= now'
    <3>1. call[u].expiresAt \in {Never} \cup Nat
      BY <1>5, HandledCall, CallFields
    <3>2. QED
      BY <3>1, <1>3
  <2>2. QED
    BY <2>1, <1>2, <1>5 DEF Quiet, IInv, Remembered
<1>6. ASSUME NEW k \in Key
      PROVE  Explained(k)'
  BY <1>1, <1>2 DEF Quiet, IInv, Explained
<1>7. NonceHeldWhileValid'
  BY <1>1, <1>2 DEF Quiet, IInv, NonceHeldWhileValid
<1>8. ASSUME NEW u \in Send, answer'[u] = answer[u], answer[u] # Nothing
      PROVE  AnswerIsTrueOf(u)'
  <2>1. call[u] # Nothing /\ call'[u] = call[u] /\ call[u] \in Call
    BY <1>8, CallOf DEF Quiet, IInv, Stage
  <2>2. DeadlineSpent(u) => DeadlineSpent(u)'
    <3>1. call[u].deadlineAt \in {Never} \cup Nat
      BY <2>1, CallFields
    <3>2. armedAt' = armedAt
      BY DEF Quiet
    <3>3. QED
      BY <3>1, <3>2, <2>1, <1>3 DEF DeadlineSpent, Overlong
  <2>3. \A v \in Send : Handled(v) => Handled(v)' /\ call'[v] = call[v]
    BY <1>1, <1>2
  <2>4. Handled(u)' <=> Handled(u)
    BY <1>1
  <2>5. u \in handling' => u \in handling
    BY DEF Quiet
  <2>6. u \in aborted => u \in aborted'
    BY DEF Quiet
  <2>7. QED
    BY <1>8, <2>1, <2>2, <2>3, <2>4, <2>5, <2>6 DEF IInv, AnswerIsTrue, AnswerIsTrueOf
<1>9. ASSUME NEW u \in Send, answer'[u] = Nothing
      PROVE  AnswerIsTrueOf(u)'
  <2>1. Nothing \notin Settled \cup Budget \cup Refused
    BY TransportAssumption DEF TransportAssumption
  <2>2. QED
    BY <1>9, <2>1 DEF AnswerIsTrueOf, Settled, Budget, Refused
<1>10. AnswerIsTrue'
  BY <1>8, <1>9 DEF Quiet, AnswerIsTrue
<1>11. ASSUME NEW u \in Send, ~Handled(u)
       PROVE  Remembered(u)'
  BY <1>1, <1>11 DEF Remembered
<1>12. QED
  BY <1>4, <1>5, <1>6, <1>7, <1>10, <1>11 DEF IInv

LEMMA NotVerifiedStep ==
  ASSUME IInv, NEW s \in Send, NotVerified(s)
  PROVE  IInv'
<1>1. /\ call[s] # Nothing /\ answer[s] = Nothing /\ ~Handled(s) /\ s \in verifying
      /\ verifying' = verifying \ {s}
  BY DEF NotVerified, IInv, Stage
<1>2. /\ answer' \in [Send -> {Nothing} \cup Settled \cup Budget \cup Refused]
      /\ answer'[s] \in {"SIGNATURE", "failed"}
      /\ \A u \in Send : u # s => answer'[u] = answer[u]
      /\ UNCHANGED <<now, wall, replayed, call, aborted, handledAt, armedAt, handling>>
  BY DEF IInv, TypeOK, NotVerified, Answer, Refused, Settled, clocks, timed
<1>3. TypeOK'
  BY <1>1, <1>2 DEF IInv, TypeOK
<1>4. AnswerIsTrueOf(s)'
  BY <1>1, <1>2 DEF AnswerIsTrueOf, Handled
<1>5. Quiet
  BY <1>1, <1>2, <1>4 DEF Quiet, IInv, Stage, TypeOK, Time
<1>6. QED
  BY <1>3, <1>5, QuietStep

LEMMA HandlerReturnsStep ==
  ASSUME IInv, NEW s \in Send, NEW result \in Settled, HandlerReturns(s, result)
  PROVE  IInv'
<1>1. /\ s \in handling /\ Handled(s) /\ s \notin verifying /\ call[s] # Nothing
      /\ handling' = handling \ {s}
      /\ UNCHANGED <<now, wall, replayed, call, aborted, verifying, handledAt, armedAt>>
  BY DEF HandlerReturns, IInv, Stage, clocks, timed
<1>2. /\ answer' \in [Send -> {Nothing} \cup Settled \cup Budget \cup Refused]
      /\ \A u \in Send : u # s => answer'[u] = answer[u]
      /\ answer'[s] = answer[s] \/ (answer[s] = Nothing /\ answer'[s] = result)
  BY DEF IInv, TypeOK, HandlerReturns, Open
<1>3. TypeOK'
  BY <1>1, <1>2 DEF IInv, TypeOK
<1>4. answer'[s] = result => AnswerIsTrueOf(s)'
  BY <1>1 DEF AnswerIsTrueOf, Handled, Settled, Refused
<1>5. Quiet
  BY <1>1, <1>2, <1>4 DEF Quiet, IInv, Stage, TypeOK, Time
<1>6. QED
  BY <1>3, <1>5, QuietStep

LEMMA TimeoutStep ==
  ASSUME IInv, NEW s \in Send, Timeout(s)
  PROVE  IInv'
<1>1. /\ s \in handling /\ Handled(s) /\ s \notin verifying /\ call[s] # Nothing
      /\ answer[s] = Nothing
      /\ DeadlineSpent(s)
      /\ UNCHANGED <<now, wall, replayed, call, aborted, verifying,
                     handledAt, armedAt, handling>>
  BY DEF Timeout, TimerRuns, Open, Due, DeadlineSpent, IInv, Stage, clocks, timed
<1>2. /\ answer' \in [Send -> {Nothing} \cup Settled \cup Budget \cup Refused]
      /\ \A u \in Send : u # s => answer'[u] = answer[u]
      /\ answer'[s] = "DEADLINE_EXCEEDED"
  BY DEF IInv, TypeOK, Timeout, Answer, Budget
<1>3. TypeOK'
  BY <1>1, <1>2 DEF IInv, TypeOK
<1>4. AnswerIsTrueOf(s)'
  BY <1>1, <1>2 DEF AnswerIsTrueOf, DeadlineSpent, Overlong, Refused
<1>5. Quiet
  BY <1>1, <1>2, <1>4 DEF Quiet, IInv, Stage, TypeOK, Time
<1>6. QED
  BY <1>3, <1>5, QuietStep

LEMMA AbortStep ==
  ASSUME IInv, NEW s \in Send, Abort(s)
  PROVE  IInv'
<1>1. /\ call[s] # Nothing /\ answer[s] = Nothing
      /\ aborted' = aborted \cup {s}
      /\ UNCHANGED <<now, wall, replayed, call, verifying, handledAt, armedAt, handling>>
  BY DEF Abort, Open, clocks, timed
<1>2. /\ answer' \in [Send -> {Nothing} \cup Settled \cup Budget \cup Refused]
      /\ \A u \in Send : u # s => answer'[u] = answer[u]
      /\ answer'[s] = answer[s]
           \/ (answer'[s] = "REQUEST_CANCELLED" /\ s \in handling /\ s \notin verifying)
  BY DEF IInv, TypeOK, Abort, Answer, Budget, Cancels, Stage
<1>3. TypeOK'
  BY <1>1, <1>2 DEF IInv, TypeOK
<1>4. answer'[s] = "REQUEST_CANCELLED" => AnswerIsTrueOf(s)'
  BY <1>1 DEF AnswerIsTrueOf, Refused
<1>5. Quiet
  BY <1>1, <1>2, <1>4 DEF Quiet, IInv, Stage, TypeOK, Time
<1>6. QED
  BY <1>3, <1>5, QuietStep

LEMMA BeginStep ==
  ASSUME IInv, NEW s \in Send, NEW r \in Request, NEW o \in Options,
         NEW cancelled \in BOOLEAN, Begin(s, r, o, cancelled)
  PROVE  IInv'
<1> DEFINE c == [key |-> r.key, expiresAt |-> r.expiresAt,
                 deadlineAt |-> o.deadlineAt, signal |-> o.signal, at |-> now]
<1>1. /\ call[s] = Nothing /\ answer[s] = Nothing /\ s \notin aborted
      /\ s \notin verifying /\ ~Handled(s)
      /\ call' = [call EXCEPT ![s] = c]
      /\ aborted' = IF cancelled THEN aborted \cup {s} ELSE aborted
      /\ now' = now /\ wall' = wall
  BY DEF Begin, IInv, Stage, clocks
<1>2. now \in Time /\ now \in Nat /\ c.at = now /\ c.at <= now /\ wall <= wall
  BY DEF IInv, TypeOK, Time
<1>3. c \in Call
  BY <1>2, TransportAssumption DEF TransportAssumption, Call
<1>4. /\ call' \in [Send -> {Nothing} \cup Call]
      /\ call'[s] = c /\ c # Nothing
      /\ \A u \in Send : u # s => call'[u] = call[u]
  BY <1>1, <1>3, NothingIsNoCall DEF IInv, TypeOK
<1> HIDE DEF c
<1>5. ASSUME NEW error \in {"MISMATCH", "REQUEST_EXPIRED", "REQUEST_CANCELLED", "DEADLINE_EXCEEDED"},
             error = "REQUEST_CANCELLED" => cancelled,
             error = "DEADLINE_EXCEEDED" => Expired(c.deadlineAt, now),
             Answer(s, error),
             UNCHANGED <<replayed, verifying, timed, handling>>
      PROVE  IInv'
  <2>1. /\ answer' \in [Send -> {Nothing} \cup Settled \cup Budget \cup Refused]
        /\ \A u \in Send : u # s => answer'[u] = answer[u]
        /\ answer'[s] = error
    BY <1>5 DEF IInv, TypeOK, Answer, Budget, Refused
  <2>2. TypeOK'
    BY <1>1, <1>4, <1>5, <2>1 DEF IInv, TypeOK, timed
  <2>3. AnswerIsTrueOf(s)'
    BY <1>1, <1>4, <1>5, <2>1 DEF AnswerIsTrueOf, DeadlineSpent, Handled, Expired, timed
  <2>4. Quiet
    BY <1>1, <1>2, <1>4, <1>5, <2>1, <2>3 DEF Quiet, IInv, Stage, timed
  <2>5. QED
    BY <2>2, <2>4, QuietStep
<1>6. CASE /\ verifying' = verifying \cup {s}
           /\ UNCHANGED <<replayed, timed, handling, answer>>
  <2>1. TypeOK'
    BY <1>1, <1>4, <1>6 DEF IInv, TypeOK, timed
  <2>2. Quiet
    BY <1>1, <1>2, <1>4, <1>6 DEF Quiet, IInv, Stage, timed
  <2>3. QED
    BY <2>1, <2>2, QuietStep
<1>7. CASE Deliver(s, c) /\ ~cancelled /\ UNCHANGED verifying
  <2>1. Delivering(s, c)
    BY <1>1, <1>2, <1>3, <1>7 DEF Delivering
  <2>2. QED
    BY <2>1, <1>7, DeliverStep
<1>8. \/ \E error \in {"MISMATCH", "REQUEST_EXPIRED", "REQUEST_CANCELLED", "DEADLINE_EXCEEDED"} :
           /\ error = "REQUEST_CANCELLED" => cancelled
           /\ error = "DEADLINE_EXCEEDED" => Expired(c.deadlineAt, now)
           /\ Answer(s, error)
           /\ UNCHANGED <<replayed, verifying, timed, handling>>
      \/ /\ verifying' = verifying \cup {s}
         /\ UNCHANGED <<replayed, timed, handling, answer>>
      \/ Deliver(s, c) /\ ~cancelled /\ UNCHANGED verifying
  <2>1. \A error \in IF BudgetError(c, cancelled) # {} THEN BudgetError(c, cancelled)
                                                       ELSE Refusals(c) :
          /\ error \in {"MISMATCH", "REQUEST_EXPIRED", "REQUEST_CANCELLED", "DEADLINE_EXCEEDED"}
          /\ error = "REQUEST_CANCELLED" => cancelled
          /\ error = "DEADLINE_EXCEEDED" => Expired(c.deadlineAt, now)
    BY DEF BudgetError, Refusals
  <2>2. BudgetError(c, cancelled) = {} => ~cancelled
    BY DEF BudgetError
  <2>3. \/ \E error \in IF BudgetError(c, cancelled) # {} THEN BudgetError(c, cancelled)
                                                          ELSE Refusals(c) :
             /\ Answer(s, error)
             /\ UNCHANGED <<replayed, verifying, timed, handling>>
        \/ /\ BudgetError(c, cancelled) = {}
           /\ IF c.key \in Verifying
                THEN /\ verifying' = verifying \cup {s}
                     /\ UNCHANGED <<replayed, timed, handling, answer>>
                ELSE /\ Deliver(s, c)
                     /\ UNCHANGED verifying
    BY DEF Begin, c
  <2>4. QED
    BY <2>1, <2>2, <2>3
<1>9. QED
  BY <1>5, <1>6, <1>7, <1>8

LEMMA VerifiedStep ==
  ASSUME IInv, NEW s \in Send, Verified(s)
  PROVE  IInv'
<1>1. /\ s \in verifying /\ verifying' = verifying \ {s}
      /\ Deliver(s, call[s])
      /\ UNCHANGED <<now, wall, call, aborted>>
      /\ call[s] # Nothing /\ answer[s] = Nothing /\ ~Handled(s)
      /\ call[s].at <= now
  BY DEF Verified, IInv, Stage, clocks
<1>2. call[s] \in Call /\ call' = [call EXCEPT ![s] = call[s]]
  BY <1>1 DEF IInv, TypeOK
<1>3. Delivering(s, call[s])
  BY <1>1, <1>2 DEF Delivering
<1>4. QED
  BY <1>1, <1>3, DeliverStep

-----------------------------------------------------------------------------
(* The invariant *)

LEMMA Invariance == IInv /\ [Next]_vars => IInv'
<1> SUFFICES ASSUME IInv, [Next]_vars PROVE IInv'
  OBVIOUS
<1>1. CASE Tick \/ WallTick \/ UNCHANGED vars
  <2>1. TypeOK' /\ UNCHANGED <<replayed, call, aborted, verifying, handledAt, armedAt, handling, answer>>
        /\ now <= now' /\ wall <= wall'
    <3>1. /\ now' \in Time /\ wall' \in Time /\ now <= now' /\ wall <= wall'
          /\ UNCHANGED <<replayed, call, aborted, verifying, handledAt, armedAt, handling, answer>>
      BY <1>1, TransportAssumption
         DEF TransportAssumption, Tick, WallTick, Carried, vars, clocks, timed, IInv, TypeOK, Time
    <3>2. QED
      BY <3>1 DEF IInv, TypeOK
  <2>2. Quiet
    BY <2>1 DEF Quiet, IInv, Stage
  <2>3. QED
    BY <2>1, <2>2, QuietStep
<1>2. QED
  BY <1>1, BeginStep, VerifiedStep, NotVerifiedStep, HandlerReturnsStep, TimeoutStep, AbortStep
     DEF Next

THEOREM InductiveInvariant == Spec => []IInv
<1>1. Init => IInv
  <2> SUFFICES ASSUME Init PROVE IInv
    OBVIOUS
  <2>1. TypeOK
    BY TransportAssumption DEF TransportAssumption, Init, TypeOK, Time, Instant
  <2>2. \A s \in Send : ~Handled(s) /\ answer[s] = Nothing /\ call[s] = Nothing
    BY DEF Init, Handled
  <2>3. Nothing \notin Settled \cup Budget \cup Refused
    BY TransportAssumption DEF TransportAssumption
  <2>4. AnswerIsTrue
    BY <2>2, <2>3 DEF AnswerIsTrue, AnswerIsTrueOf, Settled, Budget, Refused
  <2>5. \A s \in Send : Stage(s) /\ Remembered(s)
    BY <2>2 DEF Init, Stage, Remembered
  <2>6. (\A k \in Key : Explained(k)) /\ NonceHeldWhileValid
    BY <2>2 DEF Init, Explained, NonceHeldWhileValid
  <2>7. QED
    BY <2>1, <2>4, <2>5, <2>6 DEF IInv
<1>2. QED
  BY <1>1, Invariance, PTL DEF Spec

-----------------------------------------------------------------------------
(* Theorems *)

(* Every variable keeps its type. *)
THEOREM TypeCorrect == Spec => []TypeOK
<1>1. IInv => TypeOK
  BY DEF IInv
<1>2. QED
  BY <1>1, InductiveInvariant, PTL

(* However long the verifier takes, a nonce is not accepted again before   *)
(* the request it was accepted with has expired. *)
THEOREM NonceHeld == Spec => []NonceHeldWhileValid
<1>1. IInv => NonceHeldWhileValid
  BY DEF IInv
<1>2. QED
  BY <1>1, InductiveInvariant, PTL

(* What the caller is told is what happened to the request. *)
THEOREM TrueAnswers == Spec => []AnswerIsTrue
<1>1. IInv => AnswerIsTrue
  BY DEF IInv
<1>2. QED
  BY <1>1, InductiveInvariant, PTL

(* The one answer of a send. *)
LEMMA SettledStep ==
  ASSUME IInv, [Next]_vars, NEW s \in Send, answer[s] # Nothing
  PROVE  answer'[s] = answer[s]
<1>1. ASSUME NEW u \in Send, NEW a, answer[u] = Nothing, Answer(u, a)
      PROVE  answer'[s] = answer[s]
  BY <1>1 DEF IInv, TypeOK, Answer
<1>2. ASSUME NEW u \in Send, NEW c, answer[u] = Nothing, Deliver(u, c)
      PROVE  answer'[s] = answer[s]
  BY <1>1, <1>2 DEF Deliver, Handle
<1>3. ASSUME NEW u \in Send, NEW r \in Request, NEW o \in Options,
             NEW cancelled \in BOOLEAN, Begin(u, r, o, cancelled)
      PROVE  answer'[s] = answer[s]
  <2>1. answer[u] = Nothing
    BY <1>3 DEF Begin, IInv, Stage
  <2>2. \/ \E error : Answer(u, error)
        \/ answer' = answer
        \/ \E c : Deliver(u, c)
    BY <1>3 DEF Begin
  <2>3. QED
    BY <2>1, <2>2, <1>1, <1>2
<1>4. ASSUME NEW u \in Send, Verified(u) \/ NotVerified(u)
      PROVE  answer'[s] = answer[s]
  <2>1. answer[u] = Nothing
    BY <1>4 DEF Verified, NotVerified, IInv, Stage
  <2>2. QED
    BY <2>1, <1>4, <1>1, <1>2 DEF Verified, NotVerified
<1>5. ASSUME NEW u \in Send, NEW result \in Settled, HandlerReturns(u, result)
      PROVE  answer'[s] = answer[s]
  BY <1>5 DEF HandlerReturns, Open, IInv, TypeOK
<1>6. ASSUME NEW u \in Send, Timeout(u) \/ Abort(u)
      PROVE  answer'[s] = answer[s]
  BY <1>6, <1>1 DEF Timeout, TimerRuns, Abort, Cancels, Open
<1>7. CASE Tick \/ WallTick \/ UNCHANGED vars
  BY <1>7 DEF Tick, WallTick, Carried, vars
<1>8. QED
  BY <1>3, <1>4, <1>5, <1>6, <1>7 DEF Next

(* A send settles once, whatever the handler, the timer and the caller do  *)
(* afterwards. *)
THEOREM FinalAnswers == Spec => AnswerIsFinal
<1>1. IInv /\ [Next]_vars => [\A s \in Send : answer[s] # Nothing => answer'[s] = answer[s]]_vars
  BY SettledStep
<1>2. QED
  BY <1>1, InductiveInvariant, PTL DEF Spec, AnswerIsFinal

-----------------------------------------------------------------------------
(* Endpoints without a verifier *)

(* Only a verifying endpoint suspends a send, and what the others handled  *)
(* was handled before it expired. *)
Direct(s) ==
  /\ s \in verifying => call[s].key \in Verifying
  /\ Handled(s) /\ call[s].key \notin Verifying =>
       call[s].expiresAt = Never \/ handledAt[s] < call[s].expiresAt

(* deliver without an await: expiry and handler are one step. *)
LEMMA BeginDirect ==
  ASSUME IInv, \A v \in Send : Direct(v),
         NEW s \in Send, NEW r \in Request, NEW o \in Options, NEW cancelled \in BOOLEAN,
         Begin(s, r, o, cancelled)
  PROVE  \A v \in Send : Direct(v)'
<1> DEFINE c == [key |-> r.key, expiresAt |-> r.expiresAt,
                 deadlineAt |-> o.deadlineAt, signal |-> o.signal, at |-> now]
<1>1. r.expiresAt \in Instant /\ now \in Nat
  BY TransportAssumption DEF TransportAssumption, IInv, TypeOK, Time
<1>2. /\ c.key = r.key /\ c.expiresAt = r.expiresAt
      /\ call[s] = Nothing /\ call' = [call EXCEPT ![s] = c]
  BY DEF Begin
<1>3. \/ UNCHANGED <<verifying, handledAt>>
      \/ c.key \in Verifying /\ verifying' = verifying \cup {s} /\ handledAt' = handledAt
      \/ /\ UNCHANGED verifying
         /\ handledAt' = handledAt \/ handledAt' = [handledAt EXCEPT ![s] = now]
         /\ "REQUEST_EXPIRED" \notin Refusals(c)
  BY DEF Begin, Deliver, Handle, timed
<1>4. ~Handled(s) /\ s \notin verifying
  BY <1>2 DEF IInv, Stage
<1>5. /\ call'[s] = c
      /\ \A v \in Send : v # s => call'[v] = call[v]
  BY <1>2 DEF IInv, TypeOK
<1>6. "REQUEST_EXPIRED" \notin Refusals(c) => c.expiresAt = Never \/ now < c.expiresAt
  BY <1>1, <1>2 DEF Refusals, Expired, Instant
<1>7. handledAt[s] = Never /\ (handledAt' = handledAt \/ handledAt' = [handledAt EXCEPT ![s] = now])
  BY <1>3, <1>4 DEF Handled
<1>8. \A v \in Send : v # s => handledAt'[v] = handledAt[v]
  BY <1>7 DEF IInv, TypeOK
<1>9. handledAt'[s] = Never \/ handledAt'[s] = now
  BY <1>7 DEF IInv, TypeOK
<1>10. handledAt' = handledAt \/ c.expiresAt = Never \/ now < c.expiresAt
  BY <1>3, <1>6
<1> HIDE DEF c
<1>11. ASSUME NEW v \in Send, v # s PROVE Direct(v)'
  <2>1. call'[v] = call[v] /\ handledAt'[v] = handledAt[v] /\ (v \in verifying' => v \in verifying)
    BY <1>3, <1>5, <1>8, <1>11
  <2>2. QED
    BY <2>1 DEF Direct, Handled
<1>12. Direct(s)'
  <2>1. s \in verifying' => c.key \in Verifying
    BY <1>3, <1>4
  <2>2. QED
    BY <2>1, <1>5, <1>7, <1>9, <1>10 DEF Direct, Handled
<1>13. QED
  BY <1>11, <1>12

LEMMA VerifiedDirect ==
  ASSUME IInv, \A v \in Send : Direct(v), NEW s \in Send, Verified(s)
  PROVE  \A v \in Send : Direct(v)'
<1>1. /\ s \in verifying /\ verifying' = verifying \ {s} /\ call' = call
      /\ handledAt' = handledAt \/ handledAt' = [handledAt EXCEPT ![s] = now]
  BY DEF Verified, Deliver, Handle, timed
<1>2. call[s].key \in Verifying
  BY <1>1 DEF Direct
<1>3. \A v \in Send : v # s => handledAt'[v] = handledAt[v]
  BY <1>1 DEF IInv, TypeOK
<1>4. QED
  BY <1>1, <1>2, <1>3 DEF Direct, Handled

LEMMA OthersDirect ==
  ASSUME IInv, \A v \in Send : Direct(v),
         UNCHANGED <<call, handledAt>>, verifying' \subseteq verifying
  PROVE  \A v \in Send : Direct(v)'
BY DEF Direct, Handled

LEMMA DirectStep ==
  ASSUME IInv, \A v \in Send : Direct(v), [Next]_vars
  PROVE  \A v \in Send : Direct(v)'
<1>1. CASE \E s \in Send, r \in Request, o \in Options, cancelled \in BOOLEAN :
             Begin(s, r, o, cancelled)
  BY <1>1, BeginDirect
<1>2. CASE \E s \in Send : Verified(s)
  BY <1>2, VerifiedDirect
<1>3. CASE \/ \E s \in Send : NotVerified(s) \/ Timeout(s) \/ Abort(s)
           \/ \E s \in Send, result \in Settled : HandlerReturns(s, result)
           \/ Tick \/ WallTick
           \/ UNCHANGED vars
  <2>1. UNCHANGED <<call, handledAt>> /\ verifying' \subseteq verifying
    BY <1>3 DEF NotVerified, Timeout, Abort, HandlerReturns, Tick, WallTick, Carried, vars, timed
  <2>2. QED
    BY <2>1, OthersDirect
<1>4. QED
  BY <1>1, <1>2, <1>3 DEF Next

LEMMA DirectInvariant == Spec => [](IInv /\ \A s \in Send : Direct(s))
<1>1. Init => \A s \in Send : Direct(s)
  BY DEF Init, Direct, Handled
<1>2. IInv /\ (\A s \in Send : Direct(s)) /\ [Next]_vars => (\A s \in Send : Direct(s))'
  BY DirectStep
<1>3. QED
  BY <1>1, <1>2, InductiveInvariant, PTL DEF Spec

(* Line 55 for an endpoint without a verifier: concurrent sends of one     *)
(* request are not both accepted, whoever else uses the hub (75-83). *)
THEOREM OneAcceptance == Spec => []DirectRequestOnce
<1>1. IInv /\ (\A s \in Send : Direct(s)) => DirectRequestOnce
  <2> SUFFICES ASSUME IInv, \A s \in Send : Direct(s),
                      NEW s \in Send, NEW u \in Send, Handled(s), Handled(u), s # u,
                      call[s].key \notin Verifying, call[s].key = call[u].key,
                      call[s].expiresAt = call[u].expiresAt
               PROVE  FALSE
    BY DEF DirectRequestOnce
  <2>1. /\ handledAt[s] \in Nat /\ handledAt[u] \in Nat
        /\ call[s].expiresAt \in {Never} \cup Nat
    BY HandledCall, CallFields
  <2>2. /\ call[s].expiresAt = Never \/ handledAt[s] < call[s].expiresAt
        /\ call[s].expiresAt = Never \/ handledAt[u] < call[s].expiresAt
    BY DEF Direct
  <2>3. call[s].expiresAt # Never
        /\ (call[s].expiresAt <= handledAt[u] \/ call[s].expiresAt <= handledAt[s])
    BY DEF IInv, NonceHeldWhileValid
  <2>4. QED
    BY <2>1, <2>2, <2>3
<1>2. QED
  BY <1>1, DirectInvariant, PTL

-----------------------------------------------------------------------------
(* The MCP adapter *)

Result ==
  {ToolResult(a) : a \in Settled \cup Budget \cup Refused}
    \cup {ReadResult(a) : a \in Settled \cup Budget \cup Refused}

(* What the agent asked is what the carrier was given, without a signal,   *)
(* and what he was told is what the carrier answered. *)
Relayed(s) ==
  /\ asked[s] # Nothing => call[s] # Nothing /\ ~call[s].signal
  /\ asked[s] # Nothing /\ asked[s] # Context =>
       /\ call[s].key = asked[s].key
       /\ call[s].expiresAt = asked[s].expiresAt
       /\ call[s].deadlineAt = asked[s].deadlineAt
  /\ s \in aborted => call[s] # Nothing /\ call[s].signal
  /\ told[s] # Nothing =>
       /\ asked[s] # Nothing
       /\ answer[s] # Nothing
       /\ told[s] = IF asked[s] = Context THEN ReadResult(answer[s])
                                          ELSE ToolResult(answer[s])

AgentTypes ==
  /\ asked \in [Send -> {Nothing, Context} \cup Arguments]
  /\ told \in [Send -> {Nothing} \cup Result]

McpInv == AgentTypes /\ \A s \in Send : Relayed(s)

(* Every step of the composition is a step of the carrier or leaves it     *)
(* alone (113-163). *)
LEMMA McpStep == [McpNext]_allVars => [Next]_vars
<1> SUFFICES ASSUME [McpNext]_allVars PROVE [Next]_vars
  OBVIOUS
<1>1. ASSUME NEW s \in Send, NEW r \in Request, NEW o \in Options, Begin(s, r, o, FALSE)
      PROVE  Next
  BY <1>1 DEF Next
<1>2. ASSUME NEW s \in Send, NEW input \in Arguments, CallTool(s, input)
      PROVE  Next
  BY <1>1, <1>2, ArgumentsAssumption
     DEF CallTool, ToRequest, ToOptions, ArgumentsAssumption
<1>3. ASSUME NEW s \in Send, NEW r \in Request, ReadContext(s, r)
      PROVE  Next
  BY <1>1, <1>3, ArgumentsAssumption DEF ReadContext, ArgumentsAssumption
<1>4. ASSUME NEW s \in Send, Respond(s) \/ GiveUp(s)
      PROVE  UNCHANGED vars
  BY <1>4 DEF Respond, GiveUp
<1>5. QED
  BY <1>2, <1>3, <1>4 DEF McpNext, Carry, allVars

(* The adapter adds nothing to what the carrier can do: every theorem      *)
(* above holds of it.  *)
THEOREM McpImplementsTransport == McpSpec => Spec
<1>1. McpInit => Init
  BY DEF McpInit
<1>2. QED
  BY <1>1, McpStep, PTL DEF McpSpec, Spec

(* What a send was called with does not change, and only a send that has a *)
(* signal is aborted. *)
LEMMA CallStep ==
  ASSUME IInv, [Next]_vars, NEW s \in Send
  PROVE  /\ call[s] # Nothing => call'[s] = call[s]
         /\ s \in aborted' =>
              s \in aborted \/ (call'[s] # Nothing /\ call'[s].signal)
<1>1. ASSUME NEW u \in Send, NEW r \in Request, NEW o \in Options,
             NEW cancelled \in BOOLEAN, Begin(u, r, o, cancelled)
      PROVE  /\ call[s] # Nothing => call'[s] = call[s]
             /\ s \in aborted' =>
                  s \in aborted \/ (call'[s] # Nothing /\ call'[s].signal)
  <2> DEFINE c == [key |-> r.key, expiresAt |-> r.expiresAt,
                   deadlineAt |-> o.deadlineAt, signal |-> o.signal, at |-> now]
  <2>1. /\ call[u] = Nothing
        /\ cancelled => o.signal
        /\ call' = [call EXCEPT ![u] = c]
        /\ aborted' = IF cancelled THEN aborted \cup {u} ELSE aborted
    BY <1>1 DEF Begin
  <2>2. c \in Call
    BY TransportAssumption DEF TransportAssumption, Call, IInv, TypeOK
  <2>3. c # Nothing /\ (cancelled => c.signal)
    BY <2>1, <2>2, NothingIsNoCall
  <2>4. call'[u] = c /\ (s # u => call'[s] = call[s])
    BY <2>1 DEF IInv, TypeOK
  <2> HIDE DEF c
  <2>5. QED
    BY <2>1, <2>3, <2>4
<1>2. ASSUME NEW u \in Send, Abort(u)
      PROVE  /\ call' = call
             /\ s \in aborted' =>
                  s \in aborted \/ (call'[s] # Nothing /\ call'[s].signal)
  BY <1>2 DEF Abort, Open
<1>3. ASSUME NEW u \in Send, \/ Verified(u) \/ NotVerified(u) \/ Timeout(u)
                             \/ \E result \in Settled : HandlerReturns(u, result)
      PROVE  UNCHANGED <<call, aborted>>
  BY <1>3 DEF Verified, NotVerified, Timeout, HandlerReturns
<1>4. CASE Tick \/ WallTick \/ UNCHANGED vars
  BY <1>4 DEF Tick, WallTick, Carried, vars
<1>5. QED
  BY <1>1, <1>2, <1>3, <1>4 DEF Next

(* Nobody asked through the adapter before his send was made. *)
LEMMA NotAsked ==
  ASSUME IInv, McpInv, NEW s \in Send, call[s] = Nothing
  PROVE  asked[s] = Nothing /\ told[s] = Nothing /\ s \notin aborted
BY DEF IInv, Stage, McpInv, Relayed

(* The record a call makes. *)
LEMMA Asking ==
  ASSUME IInv, NEW s \in Send, NEW r \in Request, NEW o \in Options,
         ~o.signal, Begin(s, r, o, FALSE)
  PROVE  /\ call[s] = Nothing
         /\ call'[s] # Nothing /\ ~call'[s].signal
         /\ call'[s].key = r.key /\ call'[s].expiresAt = r.expiresAt
         /\ call'[s].deadlineAt = o.deadlineAt
         /\ aborted' = aborted
<1> DEFINE c == [key |-> r.key, expiresAt |-> r.expiresAt,
                 deadlineAt |-> o.deadlineAt, signal |-> o.signal, at |-> now]
<1>1. /\ call[s] = Nothing
      /\ call' = [call EXCEPT ![s] = c]
      /\ aborted' = aborted
  BY DEF Begin
<1>2. c \in Call
  BY TransportAssumption DEF TransportAssumption, Call, IInv, TypeOK
<1>3. c # Nothing
  BY <1>2, NothingIsNoCall
<1>4. call'[s] = c
  BY <1>1 DEF IInv, TypeOK
<1>5. QED
  BY <1>1, <1>3, <1>4

(* A send the adapter has nothing new to do with. *)
LEMMA RelayedStays ==
  ASSUME IInv, McpInv, [Next]_vars, NEW s \in Send,
         asked'[s] = asked[s], told'[s] = told[s]
  PROVE  Relayed(s)'
<1>1. /\ call[s] # Nothing => call'[s] = call[s]
      /\ s \in aborted' => s \in aborted \/ (call'[s] # Nothing /\ call'[s].signal)
  BY CallStep
<1>2. answer[s] # Nothing => answer'[s] = answer[s]
  BY SettledStep
<1>3. Relayed(s)
  BY DEF McpInv
<1>4. QED
  BY <1>1, <1>2, <1>3 DEF Relayed, ReadResult, ToolResult

LEMMA RespondStep ==
  ASSUME IInv, McpInv, NEW s \in Send, Respond(s)
  PROVE  McpInv'
<1> DEFINE result == IF asked[s] = Context THEN ReadResult(answer[s])
                                           ELSE ToolResult(answer[s])
<1>1. /\ UNCHANGED <<vars, asked>>
      /\ told' = [told EXCEPT ![s] = result]
      /\ asked[s] # Nothing /\ answer[s] # Nothing
  BY DEF Respond, Calls
<1>2. result \in Result
  BY <1>1 DEF Result, IInv, TypeOK
<1>3. AgentTypes'
  <2> HIDE DEF result
  <2>1. QED
    BY <1>1, <1>2 DEF McpInv, AgentTypes
<1>4. told'[s] = result /\ \A u \in Send \ {s} : told'[u] = told[u]
  BY <1>1 DEF McpInv, AgentTypes
<1>5. Relayed(s)'
  BY <1>1, <1>4 DEF McpInv, Relayed, vars, ReadResult, ToolResult
<1>6. ASSUME NEW u \in Send \ {s} PROVE Relayed(u)'
  BY <1>1, <1>4, RelayedStays
<1>7. QED
  BY <1>3, <1>5, <1>6 DEF McpInv

(* The call of a send that was free. *)
LEMMA CallStarts ==
  ASSUME IInv, McpInv, NEW s \in Send, NEW r \in Request, NEW o \in Options,
         ~o.signal, Begin(s, r, o, FALSE), NEW a \in {Context} \cup Arguments,
         a # Context => /\ r.key = a.key
                        /\ r.expiresAt = a.expiresAt
                        /\ o.deadlineAt = a.deadlineAt,
         asked' = [asked EXCEPT ![s] = a], told' = told
  PROVE  McpInv'
<1>1. AgentTypes'
  BY DEF McpInv, AgentTypes
<1>2. [Next]_vars
  BY DEF Next
<1>3. asked'[s] = a /\ \A u \in Send \ {s} : asked'[u] = asked[u]
  BY DEF McpInv, AgentTypes
<1>4. ASSUME NEW u \in Send \ {s} PROVE Relayed(u)'
  BY <1>2, <1>3, RelayedStays
<1>5. call[s] = Nothing
  BY Asking
<1>6. told'[s] = Nothing /\ s \notin aborted'
  BY <1>5, NotAsked, Asking
<1>7. Relayed(s)'
  BY <1>3, <1>6, Asking DEF Relayed
<1>8. QED
  BY <1>1, <1>4, <1>7 DEF McpInv

LEMMA McpInvStep == IInv /\ McpInv /\ [McpNext]_allVars => McpInv'
<1> SUFFICES ASSUME IInv, McpInv, [McpNext]_allVars PROVE McpInv'
  OBVIOUS
<1>1. ASSUME NEW s \in Send, NEW input \in Arguments, CallTool(s, input)
      PROVE  McpInv'
  <2>1. /\ ToRequest(input) \in Request
        /\ ToOptions(input) \in Options
    BY ArgumentsAssumption DEF ArgumentsAssumption, ToRequest, ToOptions
  <2>2. /\ Begin(s, ToRequest(input), ToOptions(input), FALSE)
        /\ asked' = [asked EXCEPT ![s] = input]
        /\ told' = told
    BY <1>1 DEF CallTool
  <2>3. /\ ~ToOptions(input).signal
        /\ ToRequest(input).key = input.key
        /\ ToRequest(input).expiresAt = input.expiresAt
        /\ ToOptions(input).deadlineAt = input.deadlineAt
    BY DEF ToRequest, ToOptions
  <2>4. QED
    BY <2>1, <2>2, <2>3, CallStarts
<1>2. ASSUME NEW s \in Send, NEW r \in Request, ReadContext(s, r)
      PROVE  McpInv'
  <2> DEFINE o == [deadlineAt |-> Never, signal |-> FALSE]
  <2>1. o \in Options /\ ~o.signal
    BY ArgumentsAssumption DEF ArgumentsAssumption
  <2>2. /\ Begin(s, r, o, FALSE)
        /\ asked' = [asked EXCEPT ![s] = Context]
        /\ told' = told
    BY <1>2 DEF ReadContext
  <2> HIDE DEF o
  <2>3. QED
    BY <2>1, <2>2, CallStarts
<1>3. ASSUME NEW s \in Send, Respond(s)
      PROVE  McpInv'
  BY <1>3, RespondStep
<1>4. ASSUME [Next]_vars, UNCHANGED <<asked, told>>
      PROVE  McpInv'
  <2>1. ASSUME NEW s \in Send PROVE Relayed(s)'
    BY <1>4, RelayedStays
  <2>2. QED
    BY <1>4, <2>1 DEF McpInv, AgentTypes
<1>5. ASSUME NEW s \in Send, GiveUp(s)
      PROVE  McpInv'
  BY <1>4, <1>5 DEF GiveUp
<1>6. CASE Carry \/ UNCHANGED allVars
  BY <1>4, <1>6 DEF Carry, agent, allVars
<1>7. QED
  BY <1>1, <1>2, <1>3, <1>5, <1>6 DEF McpNext

LEMMA McpInvariant == McpSpec => [](IInv /\ McpInv)
<1>1. McpInit => McpInv
  BY DEF McpInit, Init, McpInv, AgentTypes, Relayed
<1>2. QED
  BY <1>1, McpInvStep, McpImplementsTransport, InductiveInvariant, PTL DEF McpSpec

(* Line 126, idempotentHint: however often a call is cancelled and         *)
(* repeated, the handler runs once for it where no verifier is awaited. *)
THEOREM RepeatsRunOnce == McpSpec => []RepeatRunsOnce
<1>1. McpInv /\ DirectRequestOnce => RepeatRunsOnce
  BY DEF McpInv, Relayed, RepeatRunsOnce, DirectRequestOnce, ToolCalls, Calls, ToRequest
<1>2. QED
  BY <1>1, McpInvariant, McpImplementsTransport, OneAcceptance, PTL

LEMMA ToolResultIsError ==
  ASSUME NEW a PROVE ToolResult(a).isError <=> a # "accepted"
BY DEF ToolResult

(* What the agent is told is what happened to its own call, and contents   *)
(* of the context are shown only of an accepted read (127-133, 146-151). *)
THEOREM TrueResults == McpSpec => []ToldIsTrue
<1>1. IInv /\ McpInv => ToldIsTrue
  <2> SUFFICES ASSUME IInv, McpInv, NEW s \in Send, told[s] # Nothing
               PROVE  /\ ~told[s].isError <=> answer[s] = "accepted" /\ Handled(s)
                      /\ told[s].code # "REQUEST_CANCELLED"
                      /\ told[s].code = "NONCE_REPLAY" =>
                           \E u \in Send \ {s} : Handled(u) /\ call[u].key = call[s].key
                      /\ told[s].code = "DEADLINE_EXCEEDED" =>
                           /\ asked[s].deadlineAt # Never
                           /\ \/ asked[s].deadlineAt <= now \/ asked[s].deadlineAt <= wall
                              \/ armedAt[s] # Never /\ asked[s].deadlineAt - armedAt[s] > MaxDelay
    BY DEF ToldIsTrue
  <2>1. AnswerIsTrueOf(s)
    BY DEF IInv, AnswerIsTrue
  <2>2. Relayed(s)
    BY DEF McpInv
  <2>3. CASE asked[s] = Context
    <3>1. told[s] = ReadResult(answer[s])
      BY <2>2, <2>3 DEF Relayed
    <3>2. /\ told[s].isError <=> answer[s] # "accepted"
          /\ told[s].code \in {"accepted", "failed"}
      BY <3>1 DEF ReadResult
    <3>3. QED
      BY <2>1, <3>2 DEF AnswerIsTrueOf
  <2>4. CASE asked[s] # Context
    <3>1. told[s] = ToolResult(answer[s])
      BY <2>2, <2>4 DEF Relayed
    <3>2. told[s].code = answer[s]
      BY <3>1 DEF ToolResult
    <3>3. told[s].isError <=> answer[s] # "accepted"
      BY <3>1, ToolResultIsError
    <3>4. answer[s] # "REQUEST_CANCELLED" /\ call[s].deadlineAt = asked[s].deadlineAt
      BY <2>1, <2>2, <2>4 DEF Relayed, AnswerIsTrueOf
    <3>5. QED
      BY <2>1, <3>2, <3>4, <3>3 DEF AnswerIsTrueOf, DeadlineSpent, Overlong
  <2>5. QED
    BY <2>3, <2>4
<1>2. QED
  BY <1>1, McpInvariant, PTL

=============================================================================
