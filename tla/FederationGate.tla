--------------------------- MODULE FederationGate ---------------------------
(***************************************************************************)
(* What every signed request passes before its handler runs:               *)
(* ExpHttpNode.verify_federation and consume_rate_limit in                 *)
(* implementations/python/exp_http_node.py.  The clock is read, the rate   *)
(* window is updated under rate_lock, the nonce is looked up in a copy of  *)
(* the store, the peer's descriptor is fetched over the network, and only  *)
(* then is the nonce appended: four steps of a request thread, with other  *)
(* threads in between.  Rate windows live in memory.  Consumed nonces are  *)
(* in the store: JsonStore.update changes them in memory and writes the    *)
(* file, and when the write fails the request ends in an error and the     *)
(* memory keeps the change.                                                *)
(*                                                                         *)
(* A request is a place in the history of its identity, and a rate window  *)
(* the set of the places whose times it keeps; an identity has a window    *)
(* once a request of it passed, and it is never empty then.                *)
(*                                                                         *)
(* Whether the peer is trusted, the descriptor and grant hold and the      *)
(* signature verifies is external: any request may fail there.             *)
(***************************************************************************)
EXTENDS Integers, Sequences, FiniteSets

CONSTANTS
  Identity,           \* client address and claimed node
  Nonce,
  Handler,            \* request threads
  Window,             \* abuse.windowSeconds, in ticks
  MaximumRequests,    \* abuse.maximumRequests
  MaximumPeers,       \* abuse.maximumTrackedPeers
  MaxTime,            \* bound: the clock runs from 0 to MaxTime
  MaxCrashes          \* bound: crashes of the process

ASSUME GateAssumption ==
  /\ Window \in Nat \ {0}
  /\ MaximumRequests \in Nat \ {0}
  /\ MaximumPeers \in Nat
  /\ MaxTime \in Nat
  /\ MaxCrashes \in Nat
  /\ IsFiniteSet(Handler)

VARIABLES
  now,                \* time.monotonic
  windows,            \* rate_windows: identity -> the requests kept for it
  consumed,           \* the nonces in the store, in memory
  saved,              \* and in its file
  op,                 \* what each thread is in the middle of
  admitted,           \* identity -> the times of the requests that passed
  accepted,           \* ghost: how often each nonce was accepted
  crashes

vars == <<now, windows, consumed, saved, op, admitted, accepted, crashes>>

Operation ==
  {[step |-> "idle"]} \cup [step : {"timed"}, time : 0 .. MaxTime]
    \cup [step : {"limited", "fresh"}, nonce : Nonce]

Idle == [step |-> "idle"]

TypeOK ==
  /\ now \in 0 .. MaxTime
  /\ windows \in [Identity -> SUBSET Nat]
  /\ consumed \in SUBSET Nonce
  /\ saved \in SUBSET Nonce
  /\ op \in [Handler -> Operation]
  /\ admitted \in [Identity -> Seq(0 .. MaxTime)]
  /\ accepted \in [Nonce -> Nat]
  /\ crashes \in 0 .. MaxCrashes

Init ==
  /\ now = 0
  /\ windows = [i \in Identity |-> {}]
  /\ consumed = {}
  /\ saved = {}
  /\ op = [t \in Handler |-> Idle]
  /\ admitted = [i \in Identity |-> <<>>]
  /\ accepted = [n \in Nonce |-> 0]
  /\ crashes = 0

-----------------------------------------------------------------------------
(* consume_rate_limit *)

Tracked == {i \in Identity : windows[i] # {}}

(* The clock is read before the lock is taken. *)
ReadClock(t) ==
  /\ op[t] = Idle
  /\ op' = [op EXCEPT ![t] = [step |-> "timed", time |-> now]]
  /\ UNCHANGED <<now, windows, consumed, saved, admitted, accepted, crashes>>

(* Mutant: an entry leaves the window one tick early. *)
ActiveEarly(i, time) == {k \in windows[i] : admitted[i][k] > time - Window + 1}

Active(i, time) == {k \in windows[i] : admitted[i][k] > time - Window}

(* RATE_LIMIT_CARDINALITY; an identity is never dropped from the table. *)
Trackable(i) == windows[i] # {} \/ Cardinality(Tracked) < MaximumPeers

(* The thread holds the lock.  RATE_LIMITED leaves the window as it was,   *)
(* entries that expired included. *)
RateLimit(t, i, n) ==
  /\ op[t].step = "timed"
  /\ Trackable(i)
  /\ Cardinality(Active(i, op[t].time)) < MaximumRequests
  /\ windows' = [windows EXCEPT ![i] = Active(i, op[t].time) \cup {Len(admitted[i]) + 1}]
  /\ admitted' = [admitted EXCEPT ![i] = Append(@, op[t].time)]
  /\ op' = [op EXCEPT ![t] = [step |-> "limited", nonce |-> n]]
  /\ UNCHANGED <<now, consumed, saved, accepted, crashes>>

-----------------------------------------------------------------------------
(* verify_federation *)

(* Mutant: the nonce is not looked up. *)
UnusedAlways(n) == TRUE

Unused(n) == n \notin consumed

(* The nonce is looked up in a copy of the store. *)
NonceCheck(t) ==
  /\ op[t].step = "limited"
  /\ Unused(op[t].nonce)
  /\ op' = [op EXCEPT ![t].step = "fresh"]
  /\ UNCHANGED <<now, windows, consumed, saved, admitted, accepted, crashes>>

(* RATE_LIMITED or RATE_LIMIT_CARDINALITY; NONCE_REPLAY, an unknown peer   *)
(* or a stale time; a descriptor that cannot be fetched, or a signature    *)
(* that does not verify. *)
Refuse(t) ==
  /\ \/ /\ op[t].step = "timed"
        /\ \E i \in Identity :
             ~Trackable(i) \/ Cardinality(Active(i, op[t].time)) >= MaximumRequests
     \/ op[t].step = "limited"
     \/ op[t].step = "fresh"
  /\ op' = [op EXCEPT ![t] = Idle]
  /\ UNCHANGED <<now, windows, consumed, saved, admitted, accepted, crashes>>

ConsumedWith(n) == consumed \cup {n}

(* The descriptor was fetched and everything verified. *)
Consume(t) ==
  /\ op[t].step = "fresh"
  /\ consumed' = ConsumedWith(op[t].nonce)
  /\ saved' = consumed'
  /\ accepted' = [accepted EXCEPT ![op[t].nonce] = @ + 1]
  /\ op' = [op EXCEPT ![t] = Idle]
  /\ UNCHANGED <<now, windows, admitted, crashes>>

(* JsonStore.save fails: the request is not accepted, and the nonce stays  *)
(* in memory. *)
ConsumeUnsaved(t) ==
  /\ op[t].step = "fresh"
  /\ consumed' = ConsumedWith(op[t].nonce)
  /\ op' = [op EXCEPT ![t] = Idle]
  /\ UNCHANGED <<now, windows, saved, admitted, accepted, crashes>>

(* Any other update of the store writes all of it. *)
Save ==
  /\ saved' = consumed
  /\ UNCHANGED <<now, windows, consumed, op, admitted, accepted, crashes>>

-----------------------------------------------------------------------------

Tick ==
  /\ now < MaxTime
  /\ now' = now + 1
  /\ UNCHANGED <<windows, consumed, saved, op, admitted, accepted, crashes>>

(* The rate windows are lost, what was admitted is counted from here on,   *)
(* and the store is what the file holds. *)
Crash ==
  /\ crashes < MaxCrashes
  /\ crashes' = crashes + 1
  /\ windows' = [i \in Identity |-> {}]
  /\ admitted' = [i \in Identity |-> <<>>]
  /\ op' = [t \in Handler |-> Idle]
  /\ consumed' = saved
  /\ UNCHANGED <<now, saved, accepted>>

Next ==
  \/ \E t \in Handler :
       \/ ReadClock(t)
       \/ \E i \in Identity, n \in Nonce : RateLimit(t, i, n)
       \/ NonceCheck(t)
       \/ Refuse(t)
       \/ Consume(t)
       \/ ConsumeUnsaved(t)
  \/ Save
  \/ Tick
  \/ Crash

Spec == Init /\ [][Next]_vars

-----------------------------------------------------------------------------
(* Properties *)

(* The requests of i with times in the window that starts at `from', as    *)
(* long as none with a time after that window has passed. *)
PassedIn(i, from) ==
  {k \in DOMAIN admitted[i] :
     /\ from <= admitted[i][k] /\ admitted[i][k] < from + Window
     /\ \A j \in 1 .. k : admitted[i][j] < from + Window}

(* In no window of the policy's length does the limiter let an identity    *)
(* pass more often than the policy allows, although it keeps only the      *)
(* entries it saw as recent on the last request that passed (139-146).  A  *)
(* request that read the clock within the window and got the lock after a  *)
(* later one is not counted: what it should have been compared with was    *)
(* dropped. *)
RateIsBounded ==
  \A i \in Identity, from \in 0 .. MaxTime :
    Cardinality(PassedIn(i, from)) <= MaximumRequests

(* The table of peers stays within its bound. *)
PeersAreBounded ==
  Cardinality({i \in Identity : windows[i] # {}}) <= MaximumPeers

(* A nonce is accepted by requests that overlap only: however long the     *)
(* process runs, restarts and fails to write its file, a nonce is accepted *)
(* no more often than there are request threads. *)
ReuseNeedsOverlap ==
  \A n \in Nonce :
    accepted[n] + Cardinality({t \in Handler : op[t].step = "fresh" /\ op[t].nonce = n})
      <= Cardinality(Handler)

=============================================================================
