------------------------ MODULE FederationGateProofs ------------------------
(***************************************************************************)
(* Theorems about FederationGate for every set of identities, nonces and   *)
(* request threads and every policy.                                       *)
(***************************************************************************)
EXTENDS FederationGate, FiniteSetTheorems, TLAPS

(* What has been accepted is remembered, in memory and in the file. *)
AcceptedIsConsumed ==
  /\ saved \subseteq consumed
  /\ \A n \in Nonce : accepted[n] # 0 => n \in saved

(* What op[t].nonce and op[t].time are where a step reads them. *)
LEMMA OperationTypes ==
  ASSUME TypeOK, NEW t \in Handler
  PROVE  /\ op[t].step \in {"idle", "timed", "limited", "fresh"}
         /\ op[t].step \in {"limited", "fresh"} => op[t].nonce \in Nonce
         /\ op[t].step = "timed" => op[t].time \in 0 .. MaxTime
BY DEF TypeOK, Operation

LEMMA InitTypes == Init => TypeOK
<1> SUFFICES ASSUME Init PROVE TypeOK
  OBVIOUS
<1>1. Idle \in Operation
  BY DEF Idle, Operation
<1>2. [i \in Identity |-> <<>>] \in [Identity -> Seq(0 .. MaxTime)]
  OBVIOUS
<1>3. QED
  BY <1>1, <1>2, GateAssumption DEF Init, TypeOK, GateAssumption

(* Everything a thread can turn to is an operation. *)
LEMMA OperationValues ==
  /\ Idle \in Operation
  /\ \A time \in 0 .. MaxTime : [step |-> "timed", time |-> time] \in Operation
  /\ \A n \in Nonce : /\ [step |-> "limited", nonce |-> n] \in Operation
                      /\ [step |-> "fresh", nonce |-> n] \in Operation
BY DEF Idle, Operation

LEMMA NonceCheckEffect ==
  ASSUME TypeOK, NEW t \in Handler, NonceCheck(t)
  PROVE  /\ op[t].nonce \in Nonce /\ op[t].nonce \notin consumed
         /\ op' = [op EXCEPT ![t] = [step |-> "fresh", nonce |-> op[t].nonce]]
<1>1. /\ op[t].step = "limited" /\ op[t].nonce \notin consumed
      /\ op' = [op EXCEPT ![t].step = "fresh"]
  BY DEF NonceCheck, Unused
<1>2. op[t] \in [step : {"limited", "fresh"}, nonce : Nonce]
  BY <1>1 DEF TypeOK, Operation
<1>3. op[t] = [step |-> op[t].step, nonce |-> op[t].nonce]
  BY <1>2
<1>4. [op[t] EXCEPT !.step = "fresh"] = [step |-> "fresh", nonce |-> op[t].nonce]
  BY <1>2
<1>5. QED
  BY <1>1, <1>2, <1>4

LEMMA TypeStep == TypeOK /\ [Next]_vars => TypeOK'
<1> SUFFICES ASSUME TypeOK, [Next]_vars PROVE TypeOK'
  OBVIOUS
<1>1. ASSUME NEW t \in Handler, ReadClock(t)
      PROVE  TypeOK'
  BY <1>1, OperationValues DEF ReadClock, TypeOK
<1>2. ASSUME NEW t \in Handler, NEW i \in Identity, NEW n \in Nonce, RateLimit(t, i, n)
      PROVE  TypeOK'
  <2>1. op[t].time \in 0 .. MaxTime
    BY <1>2, OperationTypes DEF RateLimit
  <2>2. /\ windows' = [windows EXCEPT ![i] = Active(i, op[t].time) \cup {Len(admitted[i]) + 1}]
        /\ admitted' = [admitted EXCEPT ![i] = Append(admitted[i], op[t].time)]
        /\ op' = [op EXCEPT ![t] = [step |-> "limited", nonce |-> n]]
        /\ UNCHANGED <<now, consumed, saved, accepted, crashes>>
    BY <1>2 DEF RateLimit
  <2>3. windows' \in [Identity -> SUBSET Nat]
    <3>1. Active(i, op[t].time) \cup {Len(admitted[i]) + 1} \in SUBSET Nat
      BY DEF TypeOK, Active
    <3>2. QED
      BY <2>2, <3>1 DEF TypeOK
  <2>4. admitted' \in [Identity -> Seq(0 .. MaxTime)]
    BY <2>1, <2>2 DEF TypeOK
  <2>5. op' \in [Handler -> Operation]
    BY <2>2, OperationValues DEF TypeOK
  <2>6. QED
    BY <2>2, <2>3, <2>4, <2>5 DEF TypeOK
<1>3. ASSUME NEW t \in Handler, NonceCheck(t)
      PROVE  TypeOK'
  <2>1. /\ op[t].nonce \in Nonce
        /\ op' = [op EXCEPT ![t] = [step |-> "fresh", nonce |-> op[t].nonce]]
    BY <1>3, NonceCheckEffect
  <2>2. [step |-> "fresh", nonce |-> op[t].nonce] \in Operation
    BY <2>1, OperationValues
  <2>3. op' \in [Handler -> Operation]
    BY <2>1, <2>2 DEF TypeOK
  <2>4. QED
    BY <1>3, <2>3 DEF NonceCheck, TypeOK
<1>4. ASSUME NEW t \in Handler, Refuse(t)
      PROVE  TypeOK'
  BY <1>4, OperationValues DEF Refuse, TypeOK
<1>5. ASSUME NEW t \in Handler, Consume(t) \/ ConsumeUnsaved(t)
      PROVE  TypeOK'
  <2>1. op[t].nonce \in Nonce
    BY <1>5, OperationTypes DEF Consume, ConsumeUnsaved
  <2>2. op' \in [Handler -> Operation]
    BY <1>5, OperationValues DEF Consume, ConsumeUnsaved, TypeOK
  <2>3. accepted' \in [Nonce -> Nat]
    BY <1>5, <2>1 DEF Consume, ConsumeUnsaved, TypeOK
  <2>4. QED
    BY <1>5, <2>1, <2>2, <2>3 DEF Consume, ConsumeUnsaved, ConsumedWith, TypeOK
<1>6. CASE Save
  BY <1>6 DEF Save, TypeOK
<1>7. CASE Tick
  BY <1>7, GateAssumption DEF Tick, TypeOK, GateAssumption
<1>8. CASE Crash
  <2>1. [i \in Identity |-> <<>>] \in [Identity -> Seq(0 .. MaxTime)]
    OBVIOUS
  <2>2. QED
    BY <1>8, <2>1, OperationValues, GateAssumption DEF Crash, TypeOK, GateAssumption
<1>9. CASE UNCHANGED vars
  BY <1>9 DEF vars, TypeOK
<1>10. QED
  BY <1>1, <1>2, <1>3, <1>4, <1>5, <1>6, <1>7, <1>8, <1>9 DEF Next

(* The store, the windows and the threads stay what they are declared to   *)
(* be. *)
THEOREM TypeCorrect == Spec => []TypeOK
<1>1. QED
  BY InitTypes, TypeStep, PTL DEF Spec

-----------------------------------------------------------------------------
(* What one step does to the nonces *)

(* A thread goes on to a step that has no part in it, finds a nonce unused *)
(* or consumes one, with or without the file, or the process restarts. *)
LEMMA NonceEffect ==
  ASSUME TypeOK, [Next]_vars
  PROVE  \/ /\ UNCHANGED <<consumed, accepted>>
            /\ saved' \in {saved, consumed}
            /\ \A u \in Handler :
                 \/ op'[u] = op[u]
                 \/ op'[u].step \in {"idle", "timed", "limited"}
                 \/ /\ op[u].nonce \notin consumed
                    /\ op[u].nonce \in Nonce
                    /\ op'[u] = [step |-> "fresh", nonce |-> op[u].nonce]
         \/ \E t \in Handler :
              /\ op[t].step = "fresh"
              /\ op[t].nonce \in Nonce
              /\ consumed' = consumed \cup {op[t].nonce}
              /\ saved' = consumed'
              /\ accepted' = [accepted EXCEPT ![op[t].nonce] = @ + 1]
              /\ op' = [op EXCEPT ![t] = Idle]
         \/ \E t \in Handler :
              /\ op[t].step = "fresh"
              /\ op[t].nonce \in Nonce
              /\ consumed' = consumed \cup {op[t].nonce}
              /\ UNCHANGED <<saved, accepted>>
              /\ op' = [op EXCEPT ![t] = Idle]
         \/ /\ consumed' = saved
            /\ UNCHANGED <<saved, accepted>>
            /\ op' = [t \in Handler |-> Idle]
<1> DEFINE Kept == /\ UNCHANGED <<consumed, accepted>>
                   /\ saved' \in {saved, consumed}
                   /\ \A u \in Handler :
                        \/ op'[u] = op[u]
                        \/ op'[u].step \in {"idle", "timed", "limited"}
                        \/ /\ op[u].nonce \notin consumed
                           /\ op[u].nonce \in Nonce
                           /\ op'[u] = [step |-> "fresh", nonce |-> op[u].nonce]
<1>1. ASSUME NEW t \in Handler, NEW x, op' = [op EXCEPT ![t] = x]
      PROVE  \A u \in Handler : op'[u] = IF u = t THEN x ELSE op[u]
  BY <1>1 DEF TypeOK
<1>2. ASSUME NEW t \in Handler, NEW i \in Identity, NEW n \in Nonce, RateLimit(t, i, n)
      PROVE  Kept
  <2>1. op' = [op EXCEPT ![t] = [step |-> "limited", nonce |-> n]]
        /\ UNCHANGED <<consumed, saved, accepted>>
    BY <1>2 DEF RateLimit
  <2>2. QED
    BY <1>1, <2>1
<1>3. ASSUME NEW t \in Handler, NonceCheck(t)
      PROVE  Kept
  <2>1. UNCHANGED <<consumed, saved, accepted>>
    BY <1>3 DEF NonceCheck
  <2>2. QED
    BY <1>1, <1>3, <2>1, NonceCheckEffect
<1>4. ASSUME NEW t \in Handler, Refuse(t) \/ ReadClock(t)
      PROVE  Kept
  <2>1. UNCHANGED <<consumed, saved, accepted>>
    BY <1>4 DEF Refuse, ReadClock
  <2>2. CASE op' = [op EXCEPT ![t] = Idle]
    BY <1>1, <2>1, <2>2 DEF Idle
  <2>3. CASE op' = [op EXCEPT ![t] = [step |-> "timed", time |-> now]]
    BY <1>1, <2>1, <2>3
  <2>4. QED
    BY <1>4, <2>2, <2>3 DEF Refuse, ReadClock
<1>5. ASSUME Tick \/ Save \/ UNCHANGED vars
      PROVE  Kept
  BY <1>5 DEF Tick, Save, vars
<1>6. ASSUME NEW t \in Handler, Consume(t)
      PROVE  /\ op[t].step = "fresh"
             /\ op[t].nonce \in Nonce
             /\ consumed' = consumed \cup {op[t].nonce}
             /\ saved' = consumed'
             /\ accepted' = [accepted EXCEPT ![op[t].nonce] = @ + 1]
             /\ op' = [op EXCEPT ![t] = Idle]
  BY <1>6, OperationTypes DEF Consume, ConsumedWith
<1>7. ASSUME NEW t \in Handler, ConsumeUnsaved(t)
      PROVE  /\ op[t].step = "fresh"
             /\ op[t].nonce \in Nonce
             /\ consumed' = consumed \cup {op[t].nonce}
             /\ UNCHANGED <<saved, accepted>>
             /\ op' = [op EXCEPT ![t] = Idle]
  BY <1>7, OperationTypes DEF ConsumeUnsaved, ConsumedWith
<1>8. ASSUME Crash
      PROVE  /\ consumed' = saved
             /\ UNCHANGED <<saved, accepted>>
             /\ op' = [t \in Handler |-> Idle]
  BY <1>8 DEF Crash
<1> HIDE DEF Kept
<1>9. Kept \/ (\E t \in Handler : Consume(t) \/ ConsumeUnsaved(t)) \/ Crash
  BY <1>2, <1>3, <1>4, <1>5 DEF Next
<1>10. QED
  BY <1>6, <1>7, <1>8, <1>9 DEF Kept

-----------------------------------------------------------------------------

(* Whatever the overlap of the requests, and however often the process     *)
(* crashes and its file is not written, a nonce that was accepted is in    *)
(* the store. *)
THEOREM AcceptedRemembered == Spec => []AcceptedIsConsumed
<1>1. Init => AcceptedIsConsumed
  BY DEF Init, AcceptedIsConsumed
<1>2. TypeOK /\ AcceptedIsConsumed /\ [Next]_vars => AcceptedIsConsumed'
  BY NonceEffect, TypeStep DEF TypeOK, AcceptedIsConsumed
<1>3. QED
  BY <1>1, <1>2, TypeCorrect, PTL DEF Spec

-----------------------------------------------------------------------------
(* The table of peers *)

(* PeersAreBounded, with what makes its cardinality mean something. *)
PeerInv ==
  /\ IsFiniteSet(Tracked)
  /\ Cardinality(Tracked) <= MaximumPeers

(* The table of peers stays within its bound, whatever the policy, the     *)
(* identities and the overlap of the requests: the check and the insertion *)
(* are one step, under rate_lock. *)
THEOREM PeerTableBounded == Spec => []PeersAreBounded
<1>1. Init => PeerInv
  <2> SUFFICES ASSUME Init PROVE PeerInv
    OBVIOUS
  <2>1. Tracked = {}
    BY DEF Init, Tracked
  <2>2. QED
    BY <2>1, FS_EmptySet, GateAssumption DEF Init, PeerInv, GateAssumption
<1>2. TypeOK /\ PeerInv /\ [Next]_vars => PeerInv'
  <2> SUFFICES ASSUME TypeOK, PeerInv, [Next]_vars PROVE PeerInv'
    OBVIOUS
  <2>1. ASSUME NEW t \in Handler, NEW i \in Identity, NEW n \in Nonce, RateLimit(t, i, n)
        PROVE  PeerInv'
    <3>1. windows[i] # {} \/ Cardinality(Tracked) < MaximumPeers
      BY <2>1 DEF RateLimit, Trackable
    <3>2. \A j \in Identity : j # i => windows'[j] = windows[j]
      BY <2>1 DEF RateLimit, TypeOK
    <3>4. Tracked' \subseteq Tracked \cup {i}
      BY <3>2 DEF Tracked
    <3>5. /\ IsFiniteSet(Tracked \cup {i})
          /\ Cardinality(Tracked \cup {i}) = IF i \in Tracked THEN Cardinality(Tracked)
                                                         ELSE Cardinality(Tracked) + 1
      BY FS_AddElement DEF PeerInv
    <3>6. Cardinality(Tracked) \in Nat
      BY FS_CardinalityType DEF PeerInv
    <3>7. Cardinality(Tracked \cup {i}) <= MaximumPeers
      <4>1. CASE i \in Tracked
        BY <4>1, <3>5 DEF PeerInv
      <4>2. CASE i \notin Tracked
        BY <4>2, <3>1, <3>5, <3>6, GateAssumption DEF Tracked, GateAssumption
      <4>3. QED
        BY <4>1, <4>2
    <3>8. /\ IsFiniteSet(Tracked')
          /\ Cardinality(Tracked') <= Cardinality(Tracked \cup {i})
      BY <3>4, <3>5, FS_Subset
    <3>9. Cardinality(Tracked') \in Nat /\ Cardinality(Tracked \cup {i}) \in Nat
      BY <3>5, <3>8, FS_CardinalityType
    <3>10. Cardinality(Tracked') <= MaximumPeers
      BY <3>7, <3>8, <3>9, GateAssumption DEF GateAssumption
    <3>11. QED
      BY <3>8, <3>10 DEF PeerInv
  <2>2. CASE Crash
    <3>1. Tracked' = {}
      BY <2>2 DEF Crash, Tracked
    <3>2. QED
      BY <3>1, FS_EmptySet, GateAssumption DEF PeerInv, GateAssumption
  <2>3. CASE UNCHANGED windows
    BY <2>3 DEF PeerInv, Tracked
  <2>4. QED
    BY <2>1, <2>2, <2>3
       DEF Next, vars, ReadClock, NonceCheck, Refuse, Consume, ConsumeUnsaved, Save, Tick
<1>3. PeerInv => PeersAreBounded
  BY DEF PeerInv, PeersAreBounded, Tracked
<1>4. QED
  BY <1>1, <1>2, <1>3, TypeCorrect, PTL DEF Spec

-----------------------------------------------------------------------------
(* Any number of request threads *)

(* The threads that found a nonce unused and have not consumed it yet. *)
Fresh(n) == {t \in Handler : op[t].step = "fresh" /\ op[t].nonce = n}

LEMMA FreshCount ==
  ASSUME NEW T \in SUBSET Handler
  PROVE  /\ IsFiniteSet(T)
         /\ Cardinality(T) \in Nat /\ Cardinality(Handler) \in Nat
         /\ Cardinality(T) <= Cardinality(Handler)
BY GateAssumption, FS_Subset, FS_CardinalityType

(* A nonce found unused is accepted for the first time by one of those who *)
(* found it so, and nobody finds it unused afterwards. *)
LEMMA OverlapStep ==
  ASSUME TypeOK, AcceptedIsConsumed, ReuseNeedsOverlap, [Next]_vars,
         NEW n \in Nonce
  PROVE  accepted'[n] + Cardinality(Fresh(n)') <= Cardinality(Handler)
<1>1. /\ accepted[n] \in Nat
      /\ accepted[n] + Cardinality(Fresh(n)) <= Cardinality(Handler)
      /\ accepted[n] # 0 => n \in consumed
  BY DEF TypeOK, ReuseNeedsOverlap, AcceptedIsConsumed, Fresh
<1>2. /\ Cardinality(Fresh(n)) \in Nat /\ Cardinality(Fresh(n)') \in Nat
      /\ Cardinality(Handler) \in Nat /\ Cardinality(Fresh(n)') <= Cardinality(Handler)
      /\ IsFiniteSet(Fresh(n))
  BY FreshCount DEF Fresh
<1>3. CASE /\ UNCHANGED <<consumed, accepted>>
           /\ \A u \in Handler :
                \/ op'[u] = op[u]
                \/ op'[u].step \in {"idle", "timed", "limited"}
                \/ /\ op[u].nonce \notin consumed
                   /\ op[u].nonce \in Nonce
                   /\ op'[u] = [step |-> "fresh", nonce |-> op[u].nonce]
  <2>1. CASE n \in consumed
    <3>1. Fresh(n)' \subseteq Fresh(n)
      <4> SUFFICES ASSUME NEW u \in Handler, op'[u].step = "fresh", op'[u].nonce = n
                   PROVE  op[u].step = "fresh" /\ op[u].nonce = n
        BY DEF Fresh
      <4>1. ~ /\ op[u].nonce \notin consumed
              /\ op'[u] = [step |-> "fresh", nonce |-> op[u].nonce]
        BY <2>1
      <4>2. op'[u] = op[u]
        BY <1>3, <4>1
      <4>3. QED
        BY <4>2
    <3>2. Cardinality(Fresh(n)') <= Cardinality(Fresh(n))
      BY <1>2, <3>1, FS_Subset
    <3>3. QED
      BY <1>1, <1>2, <1>3, <3>2
  <2>2. CASE n \notin consumed
    BY <1>1, <1>2, <1>3, <2>2
  <2>3. QED
    BY <2>1, <2>2
<1>4. CASE \E t \in Handler :
              /\ op[t].step = "fresh"
              /\ op[t].nonce \in Nonce
              /\ consumed' = consumed \cup {op[t].nonce}
              /\ accepted' = [accepted EXCEPT ![op[t].nonce] = @ + 1]
              /\ op' = [op EXCEPT ![t] = Idle]
  <2> PICK t \in Handler :
              /\ op[t].step = "fresh"
              /\ op[t].nonce \in Nonce
              /\ accepted' = [accepted EXCEPT ![op[t].nonce] = @ + 1]
              /\ op' = [op EXCEPT ![t] = Idle]
    BY <1>4
  <2>1. op'[t] = Idle /\ \A u \in Handler : u # t => op'[u] = op[u]
    BY DEF TypeOK
  <2>2. Fresh(n)' = Fresh(n) \ {t}
    BY <2>1 DEF Fresh, Idle
  <2>3. accepted'[n] = IF n = op[t].nonce THEN accepted[n] + 1 ELSE accepted[n]
    BY DEF TypeOK
  <2>4. t \in Fresh(n) <=> n = op[t].nonce
    BY DEF Fresh
  <2>5. Cardinality(Fresh(n)') = IF t \in Fresh(n) THEN Cardinality(Fresh(n)) - 1
                                 ELSE Cardinality(Fresh(n))
    BY <1>2, <2>2, FS_RemoveElement
  <2>6. QED
    BY <1>1, <1>2, <2>3, <2>4, <2>5
<1>5. ASSUME UNCHANGED accepted, \A u \in Handler : op'[u] = op[u] \/ op'[u] = Idle
      PROVE  accepted'[n] + Cardinality(Fresh(n)') <= Cardinality(Handler)
  <2>1. Fresh(n)' \subseteq Fresh(n)
    BY <1>5 DEF Fresh, Idle
  <2>2. Cardinality(Fresh(n)') <= Cardinality(Fresh(n))
    BY <1>2, <2>1, FS_Subset
  <2>3. QED
    BY <1>1, <1>2, <1>5, <2>2
<1>6. ASSUME NEW t \in Handler, op' = [op EXCEPT ![t] = Idle]
      PROVE  \A u \in Handler : op'[u] = op[u] \/ op'[u] = Idle
  BY <1>6 DEF TypeOK
<1>7. QED
  BY <1>3, <1>4, <1>5, <1>6, NonceEffect

(* However many threads overlap, however often the process restarts and    *)
(* its file is not written, a nonce is accepted at most once by each of    *)
(* the threads that overlapped (165-178). *)
THEOREM OverlapBounds == Spec => []ReuseNeedsOverlap
<1>1. Init => ReuseNeedsOverlap
  <2> SUFFICES ASSUME Init, NEW n \in Nonce
               PROVE  accepted[n] + Cardinality(Fresh(n)) <= Cardinality(Handler)
    BY DEF ReuseNeedsOverlap, Fresh
  <2>1. Fresh(n) = {}
    BY DEF Init, Fresh, Idle
  <2>2. accepted[n] = 0
    BY DEF Init
  <2>3. QED
    BY <2>1, <2>2, FS_EmptySet, GateAssumption, FS_CardinalityType
<1>2. ReuseNeedsOverlap /\ TypeOK /\ AcceptedIsConsumed /\ [Next]_vars
        => ReuseNeedsOverlap'
  BY OverlapStep DEF ReuseNeedsOverlap, Fresh
<1>3. QED
  BY <1>1, <1>2, TypeCorrect, AcceptedRemembered, PTL DEF Spec

-----------------------------------------------------------------------------
(* The rate windows *)

(* A request that a window no longer keeps was dropped by one that read    *)
(* the clock a window's length or more after it. *)
DroppedByLater ==
  \A i \in Identity :
    /\ windows[i] \subseteq DOMAIN admitted[i]
    /\ \A k \in DOMAIN admitted[i] \ windows[i] :
         \E j \in DOMAIN admitted[i] : admitted[i][k] + Window <= admitted[i][j]

RateInv == DroppedByLater /\ RateIsBounded

LEMMA PassedInTypes ==
  ASSUME TypeOK, NEW i \in Identity, NEW from \in 0 .. MaxTime
  PROVE  /\ PassedIn(i, from) \subseteq 1 .. Len(admitted[i])
         /\ IsFiniteSet(PassedIn(i, from))
         /\ Cardinality(PassedIn(i, from)) \in Nat
<1>1. admitted[i] \in Seq(0 .. MaxTime)
  BY DEF TypeOK
<1>2. DOMAIN admitted[i] = 1 .. Len(admitted[i]) /\ Len(admitted[i]) \in Nat
  BY <1>1
<1>3. PassedIn(i, from) \subseteq 1 .. Len(admitted[i])
  BY <1>2 DEF PassedIn
<1>4. IsFiniteSet(1 .. Len(admitted[i]))
  BY <1>2, FS_Interval
<1>5. IsFiniteSet(PassedIn(i, from))
  BY <1>3, <1>4, FS_Subset
<1>6. QED
  BY <1>3, <1>5, FS_CardinalityType

(* A request of the window that nothing later overtook is still kept when  *)
(* another one of the window passes. *)
LEMMA WindowIsKept ==
  ASSUME TypeOK, DroppedByLater,
         NEW i \in Identity, NEW from \in 0 .. MaxTime, NEW time \in 0 .. MaxTime,
         time < from + Window,
         \A j \in DOMAIN admitted[i] : admitted[i][j] < from + Window
  PROVE  PassedIn(i, from) \subseteq Active(i, time)
<1>1. admitted[i] \in Seq(0 .. MaxTime) /\ Window \in Nat /\ MaxTime \in Nat
  BY GateAssumption DEF TypeOK, GateAssumption
<1> SUFFICES ASSUME NEW k \in PassedIn(i, from)
             PROVE  k \in Active(i, time)
  OBVIOUS
<1>2. k \in DOMAIN admitted[i] /\ from <= admitted[i][k] /\ admitted[i][k] \in 0 .. MaxTime
  BY <1>1 DEF PassedIn
<1>3. k \in windows[i]
  <2> SUFFICES ASSUME k \notin windows[i] PROVE FALSE
    OBVIOUS
  <2>1. PICK j \in DOMAIN admitted[i] : admitted[i][k] + Window <= admitted[i][j]
    BY <1>2 DEF DroppedByLater
  <2>2. admitted[i][j] \in 0 .. MaxTime /\ admitted[i][j] < from + Window
    BY <1>1, <2>1
  <2>3. QED
    BY <1>1, <1>2, <2>1, <2>2
<1>4. QED
  BY <1>1, <1>2, <1>3 DEF Active

LEMMA RateLimitKeeps ==
  ASSUME TypeOK, RateInv, NEW t \in Handler, NEW i \in Identity, NEW n \in Nonce,
         RateLimit(t, i, n)
  PROVE  RateInv'
<1> DEFINE time == op[t].time
           last == Len(admitted[i]) + 1
<1>1. /\ time \in 0 .. MaxTime
      /\ Window \in Nat \ {0} /\ MaxTime \in Nat /\ MaximumRequests \in Nat \ {0}
      /\ admitted[i] \in Seq(0 .. MaxTime)
  BY OperationTypes, GateAssumption DEF RateLimit, TypeOK, GateAssumption
<1>2. /\ windows'[i] = Active(i, time) \cup {last}
      /\ admitted'[i] = Append(admitted[i], time)
      /\ \A j \in Identity \ {i} : windows'[j] = windows[j] /\ admitted'[j] = admitted[j]
      /\ Cardinality(Active(i, time)) < MaximumRequests
  BY DEF RateLimit, TypeOK
<1> HIDE DEF time
<1>3. /\ last \in Nat
      /\ DOMAIN admitted[i] = 1 .. Len(admitted[i]) /\ Len(admitted[i]) \in Nat
      /\ DOMAIN admitted'[i] = 1 .. last
      /\ admitted'[i][last] = time
      /\ \A k \in DOMAIN admitted[i] :
           admitted'[i][k] = admitted[i][k] /\ admitted[i][k] \in 0 .. MaxTime
  BY <1>1, <1>2
<1>4. DOMAIN admitted'[i] = DOMAIN admitted[i] \cup {last} /\ last \notin DOMAIN admitted[i]
  BY <1>3
<1> HIDE DEF last
<1>5. DroppedByLater'
  <2> SUFFICES ASSUME NEW j \in Identity
               PROVE  /\ windows'[j] \subseteq DOMAIN admitted'[j]
                      /\ \A k \in DOMAIN admitted'[j] \ windows'[j] :
                           \E l \in DOMAIN admitted'[j] :
                             admitted'[j][k] + Window <= admitted'[j][l]
    BY DEF DroppedByLater
  <2>1. CASE j # i
    BY <1>2, <2>1 DEF RateInv, DroppedByLater
  <2>2. CASE j = i
    <3>1. windows'[i] \subseteq DOMAIN admitted'[i]
      BY <1>2, <1>4 DEF RateInv, DroppedByLater, Active
    <3>2. ASSUME NEW k \in DOMAIN admitted'[i] \ windows'[i]
          PROVE  \E l \in DOMAIN admitted'[i] : admitted'[i][k] + Window <= admitted'[i][l]
      <4>1. k \in DOMAIN admitted[i] /\ k \notin Active(i, time)
        BY <1>2, <1>4, <3>2
      <4>2. CASE k \in windows[i]
        <5>1. ~(admitted[i][k] > time - Window)
          BY <4>1, <4>2 DEF Active
        <5>2. /\ admitted'[i][last] = time
              /\ admitted'[i][k] = admitted[i][k] /\ admitted[i][k] \in 0 .. MaxTime
          BY <1>3, <4>1
        <5>3. admitted[i][k] + Window <= time
          <6>1. \A m, x, w, u : m \in Nat /\ x \in 0 .. m /\ u \in 0 .. m /\ w \in Nat
                               /\ ~(x > u - w) => x + w <= u
            OBVIOUS
          <6>2. QED
            BY <1>1, <5>1, <5>2, <6>1
        <5>4. QED
          BY <1>4, <5>2, <5>3
      <4>3. CASE k \notin windows[i]
        <5>1. PICK l \in DOMAIN admitted[i] : admitted[i][k] + Window <= admitted[i][l]
          BY <4>1, <4>3 DEF RateInv, DroppedByLater
        <5>2. QED
          BY <1>3, <1>4, <4>1, <5>1
      <4>4. QED
        BY <4>2, <4>3
    <3>3. QED
      BY <2>2, <3>1, <3>2
  <2>3. QED
    BY <2>1, <2>2
<1>6. RateIsBounded'
  <2> SUFFICES ASSUME NEW j \in Identity, NEW from \in 0 .. MaxTime
               PROVE  Cardinality(PassedIn(j, from)') <= MaximumRequests
    BY DEF RateIsBounded
  <2> DEFINE inTime == /\ time < from + Window
                       /\ \A k \in DOMAIN admitted[i] : admitted[i][k] < from + Window
  <2>1. /\ IsFiniteSet(PassedIn(j, from)) /\ Cardinality(PassedIn(j, from)) \in Nat
        /\ Cardinality(PassedIn(j, from)) <= MaximumRequests
    BY PassedInTypes DEF RateInv, RateIsBounded
  <2>2. CASE j # i
    <3>1. PassedIn(j, from)' = PassedIn(j, from)
      BY <1>2, <2>2 DEF PassedIn
    <3>2. QED
      BY <2>1, <3>1
  <2>3. CASE j = i /\ inTime
    <3>1. PassedIn(i, from)' \subseteq PassedIn(i, from) \cup {last}
      BY <1>3, <1>4 DEF PassedIn
    <3>2. PassedIn(i, from) \subseteq Active(i, time)
      BY <1>1, <2>3, WindowIsKept DEF RateInv
    <3>3. IsFiniteSet(Active(i, time)) /\ Cardinality(Active(i, time)) \in Nat
      <4>1. Active(i, time) \subseteq 1 .. Len(admitted[i])
        BY <1>3 DEF RateInv, DroppedByLater, Active
      <4>2. IsFiniteSet(1 .. Len(admitted[i]))
        <5>1. Len(admitted[i]) \in Int /\ 1 \in Int
          BY <1>3
        <5>2. QED
          BY <5>1, FS_Interval
      <4>3. IsFiniteSet(Active(i, time))
        BY <4>1, <4>2, FS_Subset
      <4>4. QED
        BY <4>3, FS_CardinalityType
    <3>4. Cardinality(PassedIn(i, from)) <= Cardinality(Active(i, time))
      BY <3>2, <3>3, FS_Subset
    <3>5. /\ IsFiniteSet(PassedIn(i, from) \cup {last})
          /\ Cardinality(PassedIn(i, from) \cup {last}) \in Nat
          /\ Cardinality(PassedIn(i, from) \cup {last}) <= Cardinality(PassedIn(i, from)) + 1
      <4>1. IsFiniteSet(PassedIn(i, from)) /\ Cardinality(PassedIn(i, from)) \in Nat
        BY <2>1, <2>3
      <4>2. /\ IsFiniteSet(PassedIn(i, from) \cup {last})
            /\ Cardinality(PassedIn(i, from) \cup {last})
                 = IF last \in PassedIn(i, from) THEN Cardinality(PassedIn(i, from))
                                                 ELSE Cardinality(PassedIn(i, from)) + 1
        BY <4>1, FS_AddElement
      <4>3. QED
        BY <4>1, <4>2
    <3>6. /\ Cardinality(PassedIn(i, from)') \in Nat
          /\ Cardinality(PassedIn(i, from)') <= Cardinality(PassedIn(i, from) \cup {last})
      BY <3>1, <3>5, FS_Subset, FS_CardinalityType
    <3>7. QED
      BY <1>1, <1>2, <2>1, <2>3, <3>3, <3>4, <3>5, <3>6
  <2>4. CASE j = i /\ ~inTime
    <3>1. last \notin PassedIn(i, from)'
      <4> SUFFICES ASSUME last \in PassedIn(i, from)' PROVE FALSE
        OBVIOUS
      <4>1. \A k \in 1 .. last : admitted'[i][k] < from + Window
        BY DEF PassedIn
      <4>2. time < from + Window
        BY <1>3, <4>1 DEF PassedIn
      <4>3. \A k \in DOMAIN admitted[i] : admitted[i][k] < from + Window
        BY <1>3, <1>4, <4>1
      <4>4. QED
        BY <2>4, <4>2, <4>3
    <3>2. PassedIn(i, from)' \subseteq PassedIn(i, from)
      BY <1>3, <1>4, <3>1 DEF PassedIn
    <3>3. /\ Cardinality(PassedIn(i, from)') \in Nat
          /\ Cardinality(PassedIn(i, from)') <= Cardinality(PassedIn(i, from))
      BY <2>1, <2>4, <3>2, FS_Subset, FS_CardinalityType
    <3>4. QED
      BY <1>1, <2>1, <2>4, <3>3
  <2> HIDE DEF inTime
  <2>5. QED
    BY <2>2, <2>3, <2>4
<1>7. QED
  BY <1>5, <1>6 DEF RateInv

(* In no window of the policy's length do more requests of an identity     *)
(* pass than the policy allows, until one with a time after the window has *)
(* passed, for any number of threads between the clock and the lock. *)
THEOREM WindowsBounded == Spec => []RateIsBounded
<1>1. Init => RateInv
  <2> SUFFICES ASSUME Init PROVE RateInv
    OBVIOUS
  <2>1. DroppedByLater
    BY DEF Init, DroppedByLater
  <2>2. \A i \in Identity, from \in 0 .. MaxTime : PassedIn(i, from) = {}
    BY DEF Init, PassedIn
  <2>3. QED
    BY <2>1, <2>2, FS_EmptySet, GateAssumption DEF RateInv, RateIsBounded, GateAssumption
<1>2. TypeOK /\ RateInv /\ [Next]_vars => RateInv'
  <2> SUFFICES ASSUME TypeOK, RateInv, [Next]_vars PROVE RateInv'
    OBVIOUS
  <2>1. ASSUME NEW t \in Handler, NEW i \in Identity, NEW n \in Nonce, RateLimit(t, i, n)
        PROVE  RateInv'
    BY <2>1, RateLimitKeeps
  <2>2. CASE Crash
    <3>1. windows' = [i \in Identity |-> {}] /\ admitted' = [i \in Identity |-> <<>>]
      BY <2>2 DEF Crash
    <3>2. DroppedByLater'
      BY <3>1 DEF DroppedByLater
    <3>3. \A i \in Identity, from \in 0 .. MaxTime : PassedIn(i, from)' = {}
      BY <3>1 DEF PassedIn
    <3>4. QED
      BY <3>2, <3>3, FS_EmptySet, GateAssumption DEF RateInv, RateIsBounded, GateAssumption
  <2>3. CASE UNCHANGED <<windows, admitted>>
    BY <2>3 DEF RateInv, DroppedByLater, RateIsBounded, PassedIn
  <2>4. QED
    BY <2>1, <2>2, <2>3
       DEF Next, vars, ReadClock, NonceCheck, Refuse, Consume, ConsumeUnsaved, Save, Tick
<1>3. RateInv => RateIsBounded
  BY DEF RateInv
<1>4. QED
  BY <1>1, <1>2, <1>3, TypeCorrect, PTL DEF Spec

=============================================================================
