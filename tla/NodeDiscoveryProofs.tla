------------------------ MODULE NodeDiscoveryProofs ------------------------
(***************************************************************************)
(* Theorems about NodeDiscovery for any number of threads, queries,        *)
(* records and descriptors.                                                *)
(***************************************************************************)
EXTENDS NodeDiscovery, FiniteSetTheorems, TLAPS

Ended == revoked \/ AuthorizedUntil <= now

(* Discovery answered a query like this request with this record. *)
Backed(given, request, recordId) ==
  \E a \in given :
    /\ a.query.id = request.query
    /\ a.query.requester = request.requester
    /\ a.query.authorization = request.authorization
    /\ a.query.purpose = request.purpose
    /\ a.record = recordId

(* A record this node held has what the query asks for. *)
Offered(records, q, recordId) ==
  \E r \in records :
    /\ r.recordId = recordId
    /\ r.active
    /\ r.purpose = q.purpose
    /\ r.profile \in q.profiles
    /\ \E kind \in q.kinds : kind \in r.kinds
    /\ \A tag \in q.tags : tag \in r.tags

(* What a thread has in hand is backed by the store, although it was read  *)
(* earlier: nothing it relies on is ever taken back. *)
Underway(t) ==
  /\ op[t].step \in {"idle", "fetched", "verified", "matched", "granted", "replaced"}
  /\ op[t].step \in {"fetched", "verified", "matched"} =>
       /\ op[t].query \in Query
       /\ op[t].late \in BOOLEAN
       /\ op[t].late => Ended
  /\ op[t].step = "matched" =>
       /\ ~op[t].late
       /\ op[t].record \in RecordId
       /\ Offered(held, op[t].query, op[t].record)
  /\ op[t].step = "granted" =>
       /\ op[t].request \in Request
       /\ op[t].named \in RecordId
       /\ Backed(answers, op[t].request, op[t].named)
  /\ op[t].step = "replaced" =>
       /\ op[t].announcement \in Announcement
       /\ \E r \in held : r.registration = op[t].announcement.registration

GrantsAreAnswered ==
  \A g \in discoveryGrants : \E a \in answers : g = GrantFor(a.query, a.record)

IInv ==
  /\ TypeOK
  /\ DOMAIN op = Handler
  /\ \A t \in Handler : Underway(t)
  /\ GrantsAreAnswered
  /\ DereferenceIsGranted
  /\ AuthorizationIsFelt
  /\ CandidateWasOffered
  /\ AnnouncementFollowsRecord

-----------------------------------------------------------------------------
(* Lemmas *)

LEMMA InitIInv == Init => IInv
<1> SUFFICES ASSUME Init PROVE IInv
  OBVIOUS
<1> USE DiscoveryAssumption DEF Init
<1>1. TypeOK
  <2>1. 0 \in 0 .. MaxTime
    OBVIOUS
  <2>2. \A t \in Handler : op[t].step = "idle"
    BY DEF Idle
  <2>3. \A f, g \in discoveryGrants : f.id = g.id => f = g
    OBVIOUS
  <2>4. QED
    BY <2>1, <2>2, <2>3 DEF TypeOK
<1>2. DOMAIN op = Handler /\ \A t \in Handler : Underway(t)
  BY DEF Underway, Idle
<1>3. GrantsAreAnswered /\ DereferenceIsGranted
  BY DEF GrantsAreAnswered, DereferenceIsGranted
<1>4. AuthorizationIsFelt /\ CandidateWasOffered /\ AnnouncementFollowsRecord
  BY DEF AuthorizationIsFelt, CandidateWasOffered, AnnouncementFollowsRecord
<1>5. QED
  BY <1>1, <1>2, <1>3, <1>4 DEF IInv

(* What one thread has in hand stays backed while others work. *)
LEMMA Undisturbed ==
  ASSUME NEW t, Underway(t), op'[t] = op[t], Ended => Ended',
         answers \subseteq answers', held \subseteq held'
  PROVE  Underway(t)'
<1>1. op[t].step = "matched" => Offered(held', op[t].query, op[t].record)
  BY DEF Underway, Offered
<1>2. op[t].step = "granted" => Backed(answers', op[t].request, op[t].named)
  BY DEF Underway, Backed
<1>3. op[t].step = "replaced" =>
        \E r \in held' : r.registration = op[t].announcement.registration
  BY DEF Underway
<1>4. QED
  BY <1>1, <1>2, <1>3 DEF Underway

LEMMA OthersUndisturbed ==
  ASSUME IInv, NEW t \in Handler, NEW v, op' = [op EXCEPT ![t] = v],
         Ended => Ended', answers \subseteq answers', held \subseteq held'
  PROVE  /\ DOMAIN op' = Handler
         /\ op'[t] = v
         /\ \A u \in Handler \ {t} : Underway(u)'
<1>1. DOMAIN op = Handler /\ \A u \in Handler : Underway(u)
  BY DEF IInv
<1>2. DOMAIN op' = Handler /\ op'[t] = v
  BY <1>1
<1>3. ASSUME NEW u \in Handler \ {t} PROVE Underway(u)'
  <2>1. op'[u] = op[u]
    BY <1>1
  <2>2. QED
    BY <1>1, <2>1, Undisturbed
<1>4. QED
  BY <1>2, <1>3

(* A thread that only moves on within its request keeps the invariant if   *)
(* what it then has in hand is backed. *)
LEMMA Advance ==
  ASSUME IInv, NEW t \in Handler, NEW v, op' = [op EXCEPT ![t] = v],
         Underway(t)',
         UNCHANGED <<now, descriptor, record, revoked, discoveryGrants, outbox,
                     held, answers, returned>>
  PROVE  IInv'
<1>1. Ended => Ended'
  BY DEF Ended
<1>2. DOMAIN op' = Handler /\ \A u \in Handler : Underway(u)'
  BY <1>1, OthersUndisturbed
<1>3. TypeOK'
  BY <1>2 DEF IInv, TypeOK, Underway
<1>4. /\ GrantsAreAnswered' /\ DereferenceIsGranted' /\ AuthorizationIsFelt'
      /\ CandidateWasOffered' /\ AnnouncementFollowsRecord'
  BY DEF IInv, GrantsAreAnswered, DereferenceIsGranted, AuthorizationIsFelt,
         CandidateWasOffered, AnnouncementFollowsRecord
<1>5. QED
  BY <1>2, <1>3, <1>4 DEF IInv

LEMMA IdleIsBacked == ASSUME NEW t, op'[t] = Idle PROVE Underway(t)'
BY DEF Underway, Idle

-----------------------------------------------------------------------------
(* discover *)

LEMMA FetchKeeps ==
  ASSUME IInv, NEW t \in Handler, NEW q \in Query, DiscoverFetch(t, q)
  PROVE  IInv'
<1> DEFINE v == [step |-> "fetched", query |-> q, descriptor |-> descriptor,
                 late |-> revoked \/ AuthorizedUntil <= now]
<1>1. op' = [op EXCEPT ![t] = v] /\ UNCHANGED <<now, descriptor, record, revoked,
        discoveryGrants, outbox, held, answers, returned>>
  BY DEF DiscoverFetch
<1>2. op'[t] = v
  BY <1>1 DEF IInv
<1>3. v.step = "fetched" /\ v.query = q /\ v.late = (revoked \/ AuthorizedUntil <= now)
  OBVIOUS
<1>4. v.late \in BOOLEAN /\ (v.late => Ended)
  BY <1>3 DEF Ended
<1>5. Ended => Ended'
  BY <1>1 DEF Ended
<1> HIDE DEF v
<1>6. Underway(t)'
  BY <1>2, <1>3, <1>4, <1>5 DEF Underway
<1>7. QED
  BY <1>1, <1>6, Advance

LEMMA VerifyKeeps ==
  ASSUME IInv, NEW t \in Handler, DiscoverVerify(t)
  PROVE  IInv'
<1> DEFINE w == [step |-> "verified", query |-> op[t].query, late |-> op[t].late]
           v == IF Admitted(op[t].query, op[t].descriptor) THEN w ELSE Idle
<1>1. /\ op[t].step = "fetched"
      /\ op' = [op EXCEPT ![t] = v]
      /\ UNCHANGED <<now, descriptor, record, revoked,
           discoveryGrants, outbox, held, answers, returned>>
  BY DEF DiscoverVerify
<1>2. op'[t] = v
  BY <1>1 DEF IInv
<1>3. w.step = "verified" /\ w.query = op[t].query /\ w.late = op[t].late
  OBVIOUS
<1>4. op[t].query \in Query /\ op[t].late \in BOOLEAN /\ (op[t].late => Ended)
  BY <1>1 DEF IInv, Underway
<1>5. Ended => Ended'
  BY <1>1 DEF Ended
<1>6. v = w \/ v = Idle
  OBVIOUS
<1> HIDE DEF v, w
<1>7. CASE v = w
  <2>1. Underway(t)'
    BY <1>2, <1>3, <1>4, <1>5, <1>7 DEF Underway
  <2>2. QED
    BY <1>1, <2>1, Advance
<1>8. CASE v = Idle
  BY <1>1, <1>2, <1>8, Advance, IdleIsBacked
<1>9. QED
  BY <1>6, <1>7, <1>8

(* The match reads the present record, and a late query finds nothing. *)
LEMMA MatchKeeps ==
  ASSUME IInv, NEW t \in Handler, DiscoverMatch(t)
  PROVE  IInv'
<1> DEFINE w == [step |-> "matched", query |-> op[t].query, late |-> op[t].late,
                 record |-> record.recordId]
           v == IF ~AuthorizationEnded /\ Matches(op[t].query, record) THEN w ELSE Idle
<1>1. /\ op[t].step = "verified"
      /\ op' = [op EXCEPT ![t] = v]
      /\ UNCHANGED <<now, descriptor, record, revoked,
           discoveryGrants, outbox, held, answers, returned>>
  BY DEF DiscoverMatch
<1>2. op'[t] = v
  BY <1>1 DEF IInv
<1>3. /\ w.step = "matched" /\ w.query = op[t].query /\ w.late = op[t].late
      /\ w.record = record.recordId
  OBVIOUS
<1>4. op[t].query \in Query /\ op[t].late \in BOOLEAN /\ (op[t].late => Ended)
  BY <1>1 DEF IInv, Underway
<1>5. Ended => Ended'
  BY <1>1 DEF Ended
<1>6. record \in Record /\ record \in held /\ held' = held
  BY <1>1 DEF IInv, TypeOK
<1>7. \/ v = w /\ ~Ended /\ Matches(op[t].query, record)
      \/ v = Idle
  BY DEF Ended, AuthorizationEnded
<1> HIDE DEF v, w
<1>8. CASE v = w /\ ~Ended /\ Matches(op[t].query, record)
  <2>1. ~op[t].late
    BY <1>4, <1>8
  <2>2. Offered(held', op[t].query, record.recordId)
    BY <1>6, <1>8 DEF Offered, Matches
  <2>3. record.recordId \in RecordId
    BY <1>6 DEF RecordId
  <2>4. Underway(t)'
    BY <1>2, <1>3, <1>4, <1>5, <1>8, <2>1, <2>2, <2>3 DEF Underway
  <2>5. QED
    BY <1>1, <2>4, Advance
<1>9. CASE v = Idle
  BY <1>1, <1>2, <1>9, Advance, IdleIsBacked
<1>10. QED
  BY <1>7, <1>8, <1>9

(* The answer joins the grant that stands for it; a grant it displaces     *)
(* leaves its own answer behind. *)
LEMMA GrantKeeps ==
  ASSUME IInv, NEW t \in Handler, DiscoverGrant(t)
  PROVE  IInv'
<1> DEFINE q == op[t].query
           r == op[t].record
           a == [query |-> q, record |-> r, late |-> op[t].late]
           g == GrantFor(q, r)
<1>1. /\ op[t].step = "matched"
      /\ discoveryGrants' = {f \in discoveryGrants : f.id # q.id} \cup {g}
      /\ answers' = answers \cup {a}
      /\ op' = [op EXCEPT ![t] = Idle]
      /\ UNCHANGED <<now, descriptor, record, revoked, outbox, held, returned>>
  BY DEF DiscoverGrant, Granted
<1>2. /\ q \in Query /\ r \in RecordId /\ op[t].late \in BOOLEAN /\ ~op[t].late
      /\ Offered(held, q, r)
  BY <1>1 DEF IInv, Underway
<1>3. a.query = q /\ a.record = r /\ a.late = op[t].late
  OBVIOUS
<1>4. a \in [query : Query, record : RecordId, late : BOOLEAN]
  BY <1>2
<1>5. g.id = q.id /\ g \in Grant
  BY <1>2 DEF GrantFor, Grant, QueryId
<1>6. Ended => Ended'
  BY <1>1 DEF Ended
<1>7. g = GrantFor(a.query, a.record)
  BY <1>3
<1> HIDE DEF a, g, q, r
<1>8. DOMAIN op' = Handler /\ \A u \in Handler : Underway(u)'
  BY <1>1, <1>6, OthersUndisturbed, IdleIsBacked
<1>9. TypeOK'
  <2>1. discoveryGrants' \subseteq Grant
    BY <1>1, <1>5 DEF IInv, TypeOK
  <2>2. \A e, f \in discoveryGrants' : e.id = f.id => e = f
    BY <1>1, <1>5 DEF IInv, TypeOK
  <2>3. answers' \subseteq [query : Query, record : RecordId, late : BOOLEAN]
    BY <1>1, <1>4 DEF IInv, TypeOK
  <2>4. QED
    BY <1>1, <1>8, <2>1, <2>2, <2>3 DEF IInv, TypeOK, Underway
<1>10. GrantsAreAnswered'
  BY <1>1, <1>7 DEF IInv, GrantsAreAnswered
<1>11. DereferenceIsGranted'
  BY <1>1 DEF IInv, DereferenceIsGranted
<1>12. AuthorizationIsFelt'
  BY <1>1, <1>2, <1>3 DEF IInv, AuthorizationIsFelt
<1>13. CandidateWasOffered'
  <2>1. ASSUME NEW b \in answers' PROVE Offered(held, b.query, b.record)
    BY <1>1, <1>2, <1>3 DEF IInv, CandidateWasOffered, Offered
  <2>2. QED
    BY <1>1, <2>1 DEF CandidateWasOffered, Offered
<1>14. AnnouncementFollowsRecord'
  BY <1>1 DEF IInv, AnnouncementFollowsRecord
<1>15. QED
  BY <1>8, <1>9, <1>10, <1>11, <1>12, <1>13, <1>14 DEF IInv

-----------------------------------------------------------------------------
(* dereference *)

LEMMA CheckKeeps ==
  ASSUME IInv, NEW t \in Handler, NEW request \in Request, NEW recordId \in RecordId,
         DereferenceCheck(t, request, recordId)
  PROVE  IInv'
<1> DEFINE v == [step |-> "granted", request |-> request, named |-> recordId]
<1>1. /\ op' = [op EXCEPT ![t] = v]
      /\ UNCHANGED <<now, descriptor, record, revoked,
           discoveryGrants, outbox, held, answers, returned>>
  BY DEF DereferenceCheck
<1>2. PICK g \in discoveryGrants : Authorizes(g, request, recordId)
  BY DEF DereferenceCheck
<1>3. PICK a \in answers : g = GrantFor(a.query, a.record)
  BY DEF IInv, GrantsAreAnswered
<1>4. Backed(answers', request, recordId)
  BY <1>1, <1>2, <1>3 DEF Backed, Authorizes, GrantFor
<1>5. v.step = "granted" /\ v.request = request /\ v.named = recordId
  OBVIOUS
<1>6. op'[t] = v
  BY <1>1 DEF IInv
<1> HIDE DEF v
<1>7. Underway(t)'
  BY <1>4, <1>5, <1>6 DEF Underway
<1>8. QED
  BY <1>1, <1>7, Advance

(* The record an answer named was held, and is another than one with an    *)
(* identifier of its own. *)
LEMMA ReadKeeps ==
  ASSUME IInv, NEW t \in Handler, DereferenceRead(t)
  PROVE  IInv'
<1> DEFINE d == [request |-> op[t].request, named |-> op[t].named, record |-> record]
<1>1. /\ op[t].step = "granted"
      /\ returned' = {d}
      /\ op' = [op EXCEPT ![t] = Idle]
      /\ UNCHANGED <<now, descriptor, record, revoked, discoveryGrants, outbox,
                     held, answers>>
  BY DEF DereferenceRead
<1>2. /\ op[t].request \in Request /\ op[t].named \in RecordId
      /\ Backed(answers, op[t].request, op[t].named)
      /\ record \in Record /\ record \in held
  BY <1>1 DEF IInv, Underway, TypeOK
<1>3. /\ d.request = op[t].request /\ d.named = op[t].named /\ d.record = record
      /\ d \in [request : Request, named : RecordId, record : Record]
  BY <1>2
<1>4. Ended => Ended'
  BY <1>1 DEF Ended
<1> HIDE DEF d
<1>5. DOMAIN op' = Handler /\ \A u \in Handler : Underway(u)'
  BY <1>1, <1>4, OthersUndisturbed, IdleIsBacked
<1>6. TypeOK'
  <2>1. returned' \subseteq [request : Request, named : RecordId, record : Record]
    BY <1>1, <1>3
  <2>2. QED
    BY <1>1, <1>5, <2>1 DEF IInv, TypeOK, Underway
<1>7. DereferenceIsGranted'
  <2>1. PICK a \in answers : /\ a.query.id = d.request.query
                             /\ a.query.requester = d.request.requester
                             /\ a.query.authorization = d.request.authorization
                             /\ a.query.purpose = d.request.purpose
                             /\ a.record = d.named
    BY <1>2, <1>3 DEF Backed
  <2>2. \E r \in held : r.recordId = d.named /\ r.active
    BY <2>1 DEF IInv, CandidateWasOffered
  <2>3. d.record \in held
    BY <1>2, <1>3
  <2>4. d.named # d.record.recordId =>
          \E r \in held \ {d.record} : r.recordId = d.named /\ r.active
    BY <2>2
  <2>5. QED
    BY <1>1, <2>1, <2>3, <2>4 DEF DereferenceIsGranted
<1>8. /\ GrantsAreAnswered' /\ AuthorizationIsFelt'
      /\ CandidateWasOffered' /\ AnnouncementFollowsRecord'
  BY <1>1 DEF IInv, GrantsAreAnswered, AuthorizationIsFelt, CandidateWasOffered,
              AnnouncementFollowsRecord
<1>9. QED
  BY <1>5, <1>6, <1>7, <1>8 DEF IInv

-----------------------------------------------------------------------------
(* The operator of this node *)

LEMMA StateChangeKeeps ==
  ASSUME IInv, NEW t \in Handler, NEW next \in Record, NEW a \in Announcement,
         StateChange(t, next, a)
  PROVE  IInv'
<1> DEFINE v == [step |-> "replaced", announcement |-> a]
<1>1. /\ next.registration = a.registration
      /\ record' = next /\ held' = held \cup {next}
      /\ op' = [op EXCEPT ![t] = v]
      /\ UNCHANGED <<now, descriptor, revoked, discoveryGrants, outbox,
                     answers, returned>>
  BY DEF StateChange, Bound
<1>2. v.step = "replaced" /\ v.announcement = a
  OBVIOUS
<1>3. Ended => Ended'
  BY <1>1 DEF Ended
<1> HIDE DEF v
<1>4. op'[t] = v
  BY <1>1 DEF IInv
<1>5. Underway(t)'
  BY <1>1, <1>2, <1>4 DEF Underway
<1>6. DOMAIN op' = Handler /\ \A u \in Handler : Underway(u)'
  BY <1>1, <1>3, <1>5, OthersUndisturbed
<1>7. TypeOK'
  BY <1>1, <1>6 DEF IInv, TypeOK, Underway
<1>8. CandidateWasOffered'
  <2>1. ASSUME NEW b \in answers PROVE Offered(held', b.query, b.record)
    BY <1>1 DEF IInv, CandidateWasOffered, Offered
  <2>2. QED
    BY <1>1, <2>1 DEF CandidateWasOffered, Offered
<1>9. AnnouncementFollowsRecord'
  BY <1>1 DEF IInv, AnnouncementFollowsRecord
<1>10. GrantsAreAnswered' /\ DereferenceIsGranted' /\ AuthorizationIsFelt'
  BY <1>1 DEF IInv, GrantsAreAnswered, DereferenceIsGranted, AuthorizationIsFelt
<1>11. QED
  BY <1>6, <1>7, <1>8, <1>9, <1>10 DEF IInv

LEMMA AnnounceKeeps ==
  ASSUME IInv, NEW t \in Handler, Announce(t)
  PROVE  IInv'
<1> DEFINE a == op[t].announcement
<1>1. /\ op[t].step = "replaced"
      /\ outbox' = IF \E b \in outbox : b.event = a.event THEN outbox ELSE outbox \cup {a}
      /\ op' = [op EXCEPT ![t] = Idle]
      /\ UNCHANGED <<now, descriptor, record, revoked, discoveryGrants,
                     held, answers, returned>>
  BY DEF Announce, Announced
<1>2. a \in Announcement /\ \E r \in held : r.registration = a.registration
  BY <1>1 DEF IInv, Underway
<1>3. Ended => Ended'
  BY <1>1 DEF Ended
<1> HIDE DEF a
<1>4. DOMAIN op' = Handler /\ \A u \in Handler : Underway(u)'
  BY <1>1, <1>3, OthersUndisturbed, IdleIsBacked
<1>5. TypeOK'
  <2>1. outbox' \subseteq Announcement
    BY <1>1, <1>2 DEF IInv, TypeOK
  <2>2. \A b, c \in outbox' : b.event = c.event => b = c
    BY <1>1 DEF IInv, TypeOK
  <2>3. QED
    BY <1>1, <1>4, <2>1, <2>2 DEF IInv, TypeOK, Underway
<1>6. AnnouncementFollowsRecord'
  BY <1>1, <1>2 DEF IInv, AnnouncementFollowsRecord
<1>7. /\ GrantsAreAnswered' /\ DereferenceIsGranted' /\ AuthorizationIsFelt'
      /\ CandidateWasOffered'
  BY <1>1 DEF IInv, GrantsAreAnswered, DereferenceIsGranted, AuthorizationIsFelt,
              CandidateWasOffered
<1>8. QED
  BY <1>4, <1>5, <1>6, <1>7 DEF IInv

-----------------------------------------------------------------------------
(* The world around the handlers *)

(* Revocation, a new descriptor and the clock end no thread's grounds.     *)
LEMMA WorldKeeps ==
  ASSUME IInv, Revoke \/ Publish \/ Tick
  PROVE  IInv'
<1>1. UNCHANGED <<record, discoveryGrants, outbox, op, held, answers, returned>>
  BY DEF Revoke, Publish, Tick
<1>2. now' \in 0 .. MaxTime /\ now <= now'
  BY DiscoveryAssumption DEF IInv, TypeOK, Revoke, Publish, Tick
<1>3. descriptor' \in Descriptor
  BY DEF IInv, TypeOK, Revoke, Publish, Tick
<1>4. revoked' \in BOOLEAN /\ (revoked => revoked')
  BY DEF IInv, TypeOK, Revoke, Publish, Tick
<1>5. Ended => Ended'
  BY <1>2, <1>4, DiscoveryAssumption DEF Ended, IInv, TypeOK
<1>6. DOMAIN op' = Handler /\ \A u \in Handler : Underway(u)'
  <2>1. ASSUME NEW u \in Handler PROVE Underway(u)'
    BY <1>1, <1>5, Undisturbed DEF IInv
  <2>2. QED
    BY <1>1, <2>1 DEF IInv
<1>7. TypeOK'
  BY <1>1, <1>2, <1>3, <1>4 DEF IInv, TypeOK
<1>8. /\ GrantsAreAnswered' /\ DereferenceIsGranted' /\ AuthorizationIsFelt'
      /\ CandidateWasOffered' /\ AnnouncementFollowsRecord'
  BY <1>1 DEF IInv, GrantsAreAnswered, DereferenceIsGranted, AuthorizationIsFelt,
              CandidateWasOffered, AnnouncementFollowsRecord
<1>9. QED
  BY <1>6, <1>7, <1>8 DEF IInv

LEMMA CrashKeeps == ASSUME IInv, Crash PROVE IInv'
<1>1. /\ op' = [t \in Handler |-> Idle]
      /\ UNCHANGED <<now, descriptor, record, revoked, discoveryGrants, outbox,
                     held, answers, returned>>
  BY DEF Crash
<1>2. DOMAIN op' = Handler /\ \A u \in Handler : Underway(u)'
  BY <1>1, IdleIsBacked
<1>3. TypeOK'
  BY <1>1, <1>2 DEF IInv, TypeOK, Underway
<1>4. /\ GrantsAreAnswered' /\ DereferenceIsGranted' /\ AuthorizationIsFelt'
      /\ CandidateWasOffered' /\ AnnouncementFollowsRecord'
  BY <1>1 DEF IInv, GrantsAreAnswered, DereferenceIsGranted, AuthorizationIsFelt,
              CandidateWasOffered, AnnouncementFollowsRecord
<1>5. QED
  BY <1>2, <1>3, <1>4 DEF IInv

LEMMA StutterKeeps == ASSUME IInv, UNCHANGED vars PROVE IInv'
<1>1. UNCHANGED <<now, descriptor, record, revoked, discoveryGrants, outbox, op,
                  held, answers, returned>>
  BY DEF vars
<1>2. \A u \in Handler : Underway(u)'
  <2>1. Ended => Ended'
    BY <1>1 DEF Ended
  <2>2. QED
    BY <1>1, <2>1, Undisturbed DEF IInv
<1>3. QED
  BY <1>1, <1>2 DEF IInv, TypeOK, GrantsAreAnswered, DereferenceIsGranted,
       AuthorizationIsFelt, CandidateWasOffered, AnnouncementFollowsRecord

LEMMA NextKeeps == ASSUME IInv, [Next]_vars PROVE IInv'
<1>1. ASSUME NEW t \in Handler, DiscoverStep(t) PROVE IInv'
  BY <1>1, FetchKeeps, VerifyKeeps, MatchKeeps, GrantKeeps DEF DiscoverStep
<1>2. ASSUME NEW t \in Handler, DereferenceStep(t) PROVE IInv'
  BY <1>2, CheckKeeps, ReadKeeps DEF DereferenceStep
<1>3. ASSUME NEW t \in Handler, StateChangeStep(t) PROVE IInv'
  BY <1>3, StateChangeKeeps, AnnounceKeeps DEF StateChangeStep
<1>4. CASE Revoke \/ Publish \/ Tick
  BY <1>4, WorldKeeps
<1>5. CASE Crash
  BY <1>5, CrashKeeps
<1>6. CASE UNCHANGED vars
  BY <1>6, StutterKeeps
<1>7. QED
  BY <1>1, <1>2, <1>3, <1>4, <1>5, <1>6 DEF Next

LEMMA InductiveInvariant == Spec => []IInv
<1>1. Init => IInv
  BY InitIInv
<1>2. IInv /\ [Next]_vars => IInv'
  BY NextKeeps
<1>3. QED
  BY <1>1, <1>2, PTL DEF Spec

-----------------------------------------------------------------------------
(* Theorems *)

(* The grants, announcements and ghost records keep their types, with one  *)
(* grant for a query and one announcement for an event (377-380, 268-280). *)
THEOREM TypeCorrect == Spec => []TypeOK
<1>1. IInv => TypeOK
  BY DEF IInv
<1>2. QED
  BY <1>1, InductiveInvariant, PTL

(* Any number of threads, changes and crashes: dereference serves only the *)
(* requesters discovery answered (385-392). *)
THEOREM Granting == Spec => []DereferenceIsGranted
<1>1. IInv => DereferenceIsGranted
  BY DEF IInv
<1>2. QED
  BY <1>1, InductiveInvariant, PTL

(* Whatever else runs, a query that came after revocation or expiry of the *)
(* authorization gets no candidate (364-366, 466-474). *)
THEOREM Revocation == Spec => []AuthorizationIsFelt
<1>1. IInv => AuthorizationIsFelt
  BY DEF IInv
<1>2. QED
  BY <1>1, InductiveInvariant, PTL

(* Whatever replaced the record meanwhile, a candidate is one this node    *)
(* held and offered (364-372). *)
THEOREM Candidates == Spec => []CandidateWasOffered
<1>1. IInv => CandidateWasOffered
  BY DEF IInv
<1>2. QED
  BY <1>1, InductiveInvariant, PTL

(* No announcement runs ahead of the record it is about (529-533). *)
THEOREM Announcements == Spec => []AnnouncementFollowsRecord
<1>1. IInv => AnnouncementFollowsRecord
  BY DEF IInv
<1>2. QED
  BY <1>1, InductiveInvariant, PTL

(* A queued announcement is never replaced or dropped here (268-280). *)
THEOREM AnnouncementsKept == Spec => AnnouncementsEndure
<1>1. [Next]_vars => [outbox \subseteq outbox']_vars
  <2> SUFFICES ASSUME [Next]_vars PROVE outbox \subseteq outbox'
    OBVIOUS
  <2>1. ASSUME NEW t \in Handler, Announce(t) PROVE outbox \subseteq outbox'
    BY <2>1 DEF Announce, Announced
  <2>2. ASSUME NEW t \in Handler,
               DiscoverStep(t) \/ DereferenceStep(t)
                 \/ \E next \in Record, a \in Announcement : StateChange(t, next, a)
        PROVE  outbox' = outbox
    BY <2>2 DEF DiscoverStep, DereferenceStep, DiscoverFetch, DiscoverVerify,
         DiscoverMatch, DiscoverGrant, DereferenceCheck, DereferenceRead, StateChange
  <2>3. Revoke \/ Publish \/ Tick \/ Crash \/ UNCHANGED vars => outbox' = outbox
    BY DEF Revoke, Publish, Tick, Crash, vars
  <2>4. QED
    BY <2>1, <2>2, <2>3 DEF Next, StateChangeStep
<1>2. QED
  BY <1>1, PTL DEF Spec, AnnouncementsEndure

-----------------------------------------------------------------------------
(* The two verifiers *)

(* Identifiers that are as many as the keys name one key each. *)
LEMMA DistinctIdentifiers ==
  ASSUME NEW keys, IsFiniteSet(keys),
         Cardinality({k.id : k \in keys}) = Cardinality(keys),
         NEW j \in keys, NEW k \in keys, j.id = k.id
  PROVE  j = k
<1> DEFINE ids == {i.id : i \in keys}
           f == [i \in keys |-> i.id]
<1>1. f \in Surjection(keys, ids)
  <2>1. f \in [keys -> ids]
    OBVIOUS
  <2>2. \A id \in ids : \E i \in keys : f[i] = id
    OBVIOUS
  <2>3. QED
    BY <2>1, <2>2 DEF Surjection
<1>2. f[j] = f[k]
  OBVIOUS
<1> HIDE DEF f
<1>3. f \in Injection(keys, ids)
  BY <1>1, FS_Surjection
<1>4. QED
  BY <1>2, <1>3 DEF Injection, IsInjective

(* The node's loop over all entries of an identifier and the adapter's     *)
(* look at the first one come to the same on a consistent descriptor. *)
LEMMA SameDecision ==
  ASSUME NEW d, NEW a, NEW keyId, NEW operation, NEW at,
         IsFiniteSet(d.keys), IsConsistent(d), d.secure, operation \in a.operations
  PROVE  NodeAccepts(d, a, keyId, operation, at)
           <=> AdapterAccepts(d, a, keyId, "transport", operation, at)
<1> DEFINE Good(k) == InForce(k) /\ "transport" \in k.purposes /\ During(k, at)
<1>1. ASSUME NEW j \in d.keys, NEW k \in d.keys, j.id = k.id PROVE j = k
  BY <1>1, DistinctIdentifiers DEF IsConsistent
<1>2. (\E k \in d.keys : k.id = keyId /\ Good(k))
        <=> /\ \E k \in d.keys : k.id = keyId
            /\ \A k \in d.keys : k.id = keyId => Good(k)
  <2> HIDE DEF Good
  <2> QED BY <1>1
<1>3. NodeAccepts(d, a, keyId, operation, at) <=>
        /\ IsAnchored(d, a) /\ at < d.expiresAt /\ RootSigned(d, a, at)
        /\ \E g \in d.grants : Grants(d, g, operation) /\ InForce(g) /\ During(g, at)
        /\ \E k \in d.keys : k.id = keyId /\ Good(k)
  BY Zenon DEF NodeAccepts
<1>4. AdapterAccepts(d, a, keyId, "transport", operation, at) <=>
        /\ IsAnchored(d, a) /\ at < d.expiresAt /\ RootSigned(d, a, at)
        /\ \E g \in d.grants : Grants(d, g, operation) /\ InForce(g) /\ During(g, at)
        /\ \E k \in d.keys : k.id = keyId
        /\ \A k \in d.keys : k.id = keyId => Good(k)
  BY Zenon DEF AdapterAccepts, RootSigned
<1> HIDE DEF Good
<1>5. QED
  BY <1>2, <1>3, <1>4

(* For every descriptor an operator may publish, every key a query may     *)
(* name and every moment, node and adapter decide alike                    *)
(* (exp_http_node.py 191-237, exp_adapter.py 152-215). *)
THEOREM OneVerdict == Spec => []VerifiersAgree
<1>1. IInv => VerifiersAgree
  <2> SUFFICES ASSUME IInv, NEW keyId \in {q.key : q \in Query},
                      IsConsistent(descriptor), descriptor.secure
               PROVE  NodeAccepts(descriptor, Anchor, keyId, Operation, now)
                        <=> AdapterAccepts(descriptor, Anchor, keyId, "transport", Operation, now)
    BY DEF VerifiersAgree
  <2>1. IsFiniteSet(descriptor.keys) /\ Operation \in Anchor.operations
    BY DiscoveryAssumption DEF IInv, TypeOK
  <2>2. QED
    BY <2>1, SameDecision
<1>2. QED
  BY <1>1, InductiveInvariant, PTL

=============================================================================
