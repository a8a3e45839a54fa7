---------------------------- MODULE ContractProofs ----------------------------
(***************************************************************************)
(* Theorems about what two parties decide by code of their own and must    *)
(* decide alike: PresentationExchange, for every set of requests, views,   *)
(* approvals and times; VersionNegotiation, for every list of versions a   *)
(* release may support and a party may name; CanonicalJson, for every set  *)
(* of records parsers can return; and ConformanceSuite, the runner that    *)
(* tells whether they do, for any candidate.                               *)
(***************************************************************************)
EXTENDS PresentationExchange, VersionNegotiation, ConformanceSuite,
        CanonicalJson, FiniteSetTheorems, WellFoundedInduction, TLAPS

-----------------------------------------------------------------------------
(* Presentations *)

(* What both wallets have established about what they sign for r, apart    *)
(* from the order of issue and expiry. *)
FitFor(p, r) ==
  /\ r \in Request
  /\ WellFormedRequest(r)
  /\ p.scopes # <<>> /\ p.operations # <<>>
  /\ Unique(p.scopes) /\ Unique(p.operations)
  /\ BoundTo(p, r)
  /\ Within(p.scopes, r.scopes)
  /\ Within(p.operations, r.operations)
  /\ Covered(p.view, p.scopes)
  /\ p.expiresAt \in Int
  /\ p.expiresAt <= r.expiresAt

IInv ==
  /\ now \in Nat
  /\ presentation # None =>
       /\ FitFor(presentation, builtFor)
       /\ presentation.issuedAt \in Nat
       /\ presentation.issuedAt <= now
  /\ verdict # None => presentation # None
  /\ BuiltIsAccepted
  /\ AcceptedWhereAsked

(* What createPresentation signs passed the validation it ends with, and   *)
(* build_presentation asks for the same by checks of its own. *)
LEMMA SignedFits ==
  ASSUME now \in Nat, NEW r \in Request, NEW in \in Input,
         PythonSigns(r, in) \/ TypeScriptSigns(r, in)
  PROVE  FitFor(PresentationFor(r, in), r)
<1> DEFINE p == PresentationFor(r, in)
<1>1. /\ p.requestId = r.id /\ p.audience = r.origin /\ p.nonce = r.nonce
      /\ p.requester = r.requester /\ p.purpose = r.purpose
      /\ p.principal = in.principal /\ p.view = in.view
      /\ p.scopes = in.scopes /\ p.operations = in.operations
      /\ p.expiresAt = in.expiresAt
  BY DEF PresentationFor
<1>2. p.expiresAt \in Int
  BY <1>1, PresentationAssumption
<1> SUFFICES FitFor(p, r)
  OBVIOUS
<1> HIDE DEF p
<1>3. CASE PythonSigns(r, in)
  BY <1>1, <1>2, <1>3 DEF PythonSigns, PythonExpiry, FitFor, BoundTo
<1>4. CASE TypeScriptSigns(r, in)
  <2>1. ValidateWalletPresentation(p, r)
    BY <1>4 DEF TypeScriptSigns, p
  <2>2. QED
    BY <1>2, <2>1
       DEF ValidateWalletPresentation, WellFormedPresentation, Lasts, FitFor
<1>5. QED
  BY <1>3, <1>4

(* A fit presentation passes as long as it lasts, if zod takes the strings *)
(* in it and in its request. *)
LEMMA FitPasses ==
  ASSUME now \in Nat, NEW p, NEW r, FitFor(p, r), r.formatted, p.formatted,
         p.issuedAt \in Nat, p.issuedAt <= now, now < p.expiresAt
  PROVE  ValidateWalletPresentation(p, r)
<1>1. p.issuedAt < p.expiresAt /\ r.expiresAt \in Int
  BY PresentationAssumption DEF FitFor
<1>2. now < r.expiresAt
  BY <1>1 DEF FitFor
<1>3. QED
  BY <1>1, <1>2
     DEF FitFor, ValidateWalletPresentation, WellFormedPresentation, Lasts

LEMMA SignKeeps ==
  ASSUME IInv, NEW r \in Request, NEW in \in Input, Sign(r, in)
  PROVE  IInv'
<1>1. verdict = None /\ verdict' = None /\ now \in Nat /\ now' = now
  BY DEF IInv, Sign
<1>2. presentation' = PresentationFor(r, in) /\ builtFor' = r
  BY DEF Sign
<1>3. FitFor(PresentationFor(r, in), r)
  BY <1>1, SignedFits DEF Sign
<1>4. PresentationFor(r, in).issuedAt = now
  BY DEF PresentationFor
<1>5. BuiltIsAccepted' /\ AcceptedWhereAsked'
  BY <1>1 DEF BuiltIsAccepted, AcceptedWhereAsked
<1>6. FitFor(presentation, builtFor)'
  BY <1>2, <1>3 DEF FitFor, WellFormedRequest, BoundTo, Within, Covered, Unique
<1>7. QED
  BY <1>1, <1>2, <1>4, <1>5, <1>6 DEF IInv

LEMMA ValidateKeeps ==
  ASSUME IInv, NEW r \in Request, Validate(r)
  PROVE  IInv'
<1>1. /\ presentation # None /\ FitFor(presentation, builtFor)
      /\ presentation.issuedAt \in Nat /\ presentation.issuedAt <= now
      /\ now \in Nat
      /\ UNCHANGED <<now, presentation, builtFor>>
  BY DEF IInv, Validate
<1> DEFINE passes == ValidateWalletPresentation(presentation, r)
<1>2. verdict' = [request |-> r, at |-> now, accepted |-> passes]
  BY DEF Validate
<1>3. verdict'.request = r /\ verdict'.at = now
  BY <1>2
<1>4. verdict'.accepted = passes
  BY <1>2
<1>5. BuiltIsAccepted'
  <2>1. ASSUME r = builtFor, now < presentation.expiresAt,
               r.formatted, presentation.formatted
        PROVE  passes
    BY <1>1, <2>1, FitPasses
  <2>2. passes => r.formatted /\ presentation.formatted
    BY DEF ValidateWalletPresentation, WellFormedPresentation
  <2>3. ASSUME r = builtFor', now < presentation'.expiresAt
        PROVE  passes <=> r.formatted /\ presentation'.formatted
    BY <1>1, <2>1, <2>2, <2>3
  <2> HIDE DEF passes
  <2>4. QED
    BY <1>3, <1>4, <2>3, Zenon DEF BuiltIsAccepted
<1>6. AcceptedWhereAsked'
  <2>1. ASSUME passes
        PROVE  /\ r = builtFor
               /\ now < builtFor.expiresAt
               /\ \A namespace \in presentation.view.attributes :
                    \E s \in ToSet(builtFor.scopes) \cap ToSet(presentation.scopes) :
                      IsPrefix(s, namespace)
    <3>1. r = builtFor
      BY <1>1, <2>1, PresentationAssumption
         DEF ValidateWalletPresentation, BoundTo, FitFor
    <3>2. now < r.expiresAt
      BY <2>1 DEF ValidateWalletPresentation, Lasts
    <3>3. QED
      BY <1>1, <3>1, <3>2 DEF FitFor, Covered, Within, Under
  <2> HIDE DEF passes
  <2>2. QED
    BY <1>1, <1>3, <1>4, <2>1 DEF AcceptedWhereAsked
<1> HIDE DEF passes
<1>7. FitFor(presentation, builtFor)'
  BY <1>1 DEF FitFor, WellFormedRequest, BoundTo, Within, Covered, Unique
<1>8. QED
  BY <1>1, <1>5, <1>6, <1>7 DEF IInv

(* The clock and a stuttering step leave everything but the time alone. *)
LEMMA TimeKeeps ==
  ASSUME IInv, Tick \/ UNCHANGED vars
  PROVE  IInv'
<1>1. now' \in Nat /\ now <= now' /\ UNCHANGED <<presentation, builtFor, verdict>>
  BY DEF IInv, Tick, vars
<1>2. FitFor(presentation, builtFor) => FitFor(presentation, builtFor)'
  BY <1>1 DEF FitFor, WellFormedRequest, BoundTo, Within, Covered, Unique
<1>3. BuiltIsAccepted' /\ AcceptedWhereAsked'
  BY <1>1 DEF IInv, BuiltIsAccepted, AcceptedWhereAsked
<1>4. now \in Nat
  BY DEF IInv
<1>5. QED
  BY <1>1, <1>2, <1>3, <1>4 DEF IInv

LEMMA InductiveInvariant == Spec => []IInv
<1>1. Init => IInv
  BY DEF Init, IInv, BuiltIsAccepted, AcceptedWhereAsked
<1>2. IInv /\ [Next]_vars => IInv'
  BY SignKeeps, ValidateKeeps, TimeKeeps DEF Next
<1>3. QED
  BY <1>1, <1>2, PTL DEF Spec

(* Until it expires, what either wallet signs is accepted for the request  *)
(* it was signed for exactly if zod takes the strings of both. *)
THEOREM Acceptance == Spec => []BuiltIsAccepted
<1>1. IInv => BuiltIsAccepted
  BY DEF IInv
<1>2. QED
  BY <1>1, InductiveInvariant, PTL

(* What is accepted is accepted for its own request, in time, and shows    *)
(* only what was both asked for and approved. *)
THEOREM Binding == Spec => []AcceptedWhereAsked
<1>1. IInv => AcceptedWhereAsked
  BY DEF IInv
<1>2. QED
  BY <1>1, InductiveInvariant, PTL

-----------------------------------------------------------------------------
(* Versions *)

LEMMA RankIsPlace ==
  ASSUME NEW tag \in ToSet(Collation)
  PROVE  Rank(tag) \in Nat /\ Collation[Rank(tag)] = tag
<1>1. PICK i \in DOMAIN Collation : Collation[i] = tag
  BY DEF ToSet
<1>2. Rank(tag) \in DOMAIN Collation /\ Collation[Rank(tag)] = tag
  BY <1>1 DEF Rank
<1>3. DOMAIN Collation \subseteq Nat
  BY CollationAssumption
<1>4. QED
  BY <1>2, <1>3

LEMMA TagsAreOrdered ==
  ASSUME NEW a \in ToSet(Collation), NEW b \in ToSet(Collation)
  PROVE  /\ LocaleCompare(a, b) \in Int
         /\ LocaleCompare(a, b) = -LocaleCompare(b, a)
         /\ a # b => LocaleCompare(a, b) # 0
<1>1. Rank(a) \in Nat /\ Rank(b) \in Nat /\ (a # b => Rank(a) # Rank(b))
  BY RankIsPlace
<1>2. QED
  BY <1>1 DEF LocaleCompare

(* Of two triples that differ first at i the one with the more at i is     *)
(* above. *)
LEMMA DecidedHere ==
  ASSUME NEW f \in [1 .. 3 -> Nat], NEW g \in [1 .. 3 -> Nat], NEW i \in 1 .. 3,
         f[i] # g[i], \A j \in 1 .. i - 1 : f[j] = g[j]
  PROVE  /\ f # g
         /\ (\E k \in 1 .. 3 : f[k] > g[k] /\ \A j \in 1 .. k - 1 : f[j] = g[j])
              <=> f[i] > g[i]
<1>1. ASSUME NEW k \in 1 .. 3, f[k] > g[k], \A j \in 1 .. k - 1 : f[j] = g[j]
      PROVE  f[i] > g[i]
  <2>1. f[k] \in Nat /\ g[k] \in Nat
    OBVIOUS
  <2>2. ~(k < i)
    <3>1. SUFFICES ASSUME k < i PROVE FALSE
      OBVIOUS
    <3>2. k \in 1 .. i - 1
      BY <3>1
    <3>3. QED
      BY <1>1, <2>1, <3>2
  <2>3. ~(i < k)
    <3>1. SUFFICES ASSUME i < k PROVE FALSE
      OBVIOUS
    <3>2. i \in 1 .. k - 1
      BY <3>1
    <3>3. QED
      BY <1>1, <3>2
  <2>4. i = k
    BY <2>2, <2>3
  <2>5. QED
    BY <1>1, <2>4
<1>2. QED
  BY <1>1

(* Where the numbers differ, the first difference decides. *)
LEMMA FirstDifference ==
  ASSUME NEW v \in Version, NEW w \in Version, v.number # w.number
  PROVE  \E i \in 1 .. 3 :
           /\ v.number[i] # w.number[i]
           /\ \A j \in 1 .. i - 1 : v.number[j] = w.number[j]
           /\ CompareVersions(v, w) = v.number[i] - w.number[i]
           /\ Above(v, w) <=> v.number[i] > w.number[i]
           /\ Above(w, v) <=> w.number[i] > v.number[i]
<1> DEFINE differing == {i \in 1 .. 3 : v.number[i] # w.number[i]}
<1>1. v.number \in [1 .. 3 -> Nat] /\ w.number \in [1 .. 3 -> Nat]
  BY DEF Version
<1>2. differing # {}
  BY <1>1
<1>3. \E i \in differing : \A j \in differing : i <= j
  BY <1>2
<1>4. Min(differing) \in differing /\ \A j \in differing : Min(differing) <= j
  <2> HIDE DEF differing
  <2>1. QED
    BY <1>3 DEF Min
<1>5. CompareVersions(v, w) = v.number[Min(differing)] - w.number[Min(differing)]
  BY <1>2 DEF CompareVersions
<1>6. PICK i \in 1 .. 3 : i = Min(differing)
  BY <1>4
<1>7. /\ v.number[i] # w.number[i]
      /\ \A j \in 1 .. i - 1 : v.number[j] = w.number[j]
  BY <1>4, <1>6
<1> HIDE DEF differing
<1>8. Above(v, w) <=> v.number[i] > w.number[i]
  BY <1>1, <1>7, DecidedHere DEF Above
<1>9. Above(w, v) <=> w.number[i] > v.number[i]
  BY <1>1, <1>7, DecidedHere DEF Above
<1>10. QED
  BY <1>5, <1>6, <1>7, <1>8, <1>9

(* The comparator of the sort orders different versions by their numbers,  *)
(* a release after its drafts and drafts by their tags, whichever of the   *)
(* two it is asked first (compatibility.ts 99-106). *)
THEOREM VersionsAreOrdered == ComparatorOrders(Version)
<1> SUFFICES ASSUME NEW v \in Version, NEW w \in Version, v # w
             PROVE  /\ CompareVersions(v, w) > 0 <=> Above(v, w)
                    /\ CompareVersions(v, w) < 0 <=> Above(w, v)
                    /\ Above(v, w) <=> ~Above(w, v)
  BY DEF ComparatorOrders
<1>1. /\ v.number \in [1 .. 3 -> Nat] /\ w.number \in [1 .. 3 -> Nat]
      /\ v.prerelease \in ToSet(Collation) \cup {Undefined}
      /\ w.prerelease \in ToSet(Collation) \cup {Undefined}
  BY DEF Version
<1>2. CASE v.number # w.number
  BY <1>1, <1>2, FirstDifference
<1>3. CASE v.number = w.number
  <2>1. v.prerelease # w.prerelease
    BY <1>3 DEF Version
  <2>2. CompareVersions(v, w) =
          IF v.prerelease = Undefined THEN 1
          ELSE IF w.prerelease = Undefined THEN -1
          ELSE LocaleCompare(v.prerelease, w.prerelease)
    BY <1>3 DEF CompareVersions
  <2>3. Above(v, w) <=>
          /\ w.prerelease # Undefined
          /\ \/ v.prerelease = Undefined
             \/ v.prerelease # Undefined /\ LocaleCompare(v.prerelease, w.prerelease) > 0
    BY <1>1, <1>3 DEF Above
  <2>4. Above(w, v) <=>
          /\ v.prerelease # Undefined
          /\ \/ w.prerelease = Undefined
             \/ w.prerelease # Undefined /\ LocaleCompare(w.prerelease, v.prerelease) > 0
    BY <1>1, <1>3 DEF Above
  <2>5. v.prerelease # Undefined /\ w.prerelease # Undefined =>
          /\ LocaleCompare(v.prerelease, w.prerelease) \in Int
          /\ LocaleCompare(v.prerelease, w.prerelease) # 0
          /\ LocaleCompare(w.prerelease, v.prerelease) \in Int
          /\ LocaleCompare(v.prerelease, w.prerelease) =
               -LocaleCompare(w.prerelease, v.prerelease)
    BY <1>1, <2>1, TagsAreOrdered
  <2>6. QED
    BY <2>1, <2>2, <2>3, <2>4, <2>5
<1>4. QED
  BY <1>2, <1>3

-----------------------------------------------------------------------------
(* Negotiation *)

LEMMA TripleAbove ==
  ASSUME NEW f \in [1 .. 3 -> Nat], NEW g \in [1 .. 3 -> Nat]
  PROVE  /\ f = g <=> f[1] = g[1] /\ f[2] = g[2] /\ f[3] = g[3]
         /\ (\E k \in 1 .. 3 : f[k] > g[k] /\ \A j \in 1 .. k - 1 : f[j] = g[j])
              <=> \/ f[1] > g[1]
                  \/ f[1] = g[1] /\ f[2] > g[2]
                  \/ f[1] = g[1] /\ f[2] = g[2] /\ f[3] > g[3]
<1>1. \A k \in 1 .. 3 : k = 1 \/ k = 2 \/ k = 3
  OBVIOUS
<1>2. f = g <=> f[1] = g[1] /\ f[2] = g[2] /\ f[3] = g[3]
  BY <1>1
<1>3. /\ \A j \in 1 .. 1 - 1 : FALSE
      /\ \A j \in 1 .. 2 - 1 : j = 1
      /\ \A j \in 1 .. 3 - 1 : j = 1 \/ j = 2
      /\ 1 \in 1 .. 2 - 1 /\ 1 \in 1 .. 3 - 1 /\ 2 \in 1 .. 3 - 1
      /\ 1 \in 1 .. 3 /\ 2 \in 1 .. 3 /\ 3 \in 1 .. 3
  OBVIOUS
<1> DEFINE same(k) == \A j \in 1 .. k - 1 : f[j] = g[j]
<1>4. same(1) /\ (same(2) <=> f[1] = g[1]) /\ (same(3) <=> f[1] = g[1] /\ f[2] = g[2])
  BY <1>3
<1> HIDE DEF same
<1>5. (\E k \in 1 .. 3 : f[k] > g[k] /\ same(k))
        <=> \/ f[1] > g[1] /\ same(1)
            \/ f[2] > g[2] /\ same(2)
            \/ f[3] > g[3] /\ same(3)
  BY <1>1, <1>3
<1>6. QED
  BY <1>2, <1>4, <1>5 DEF same

LEMMA AboveTransitive ==
  ASSUME NEW u \in Version, NEW v \in Version, NEW w \in Version,
         Above(u, v), Above(v, w)
  PROVE  Above(u, w)
<1> DEFINE over(f, g) ==
             \/ f[1] > g[1]
             \/ f[1] = g[1] /\ f[2] > g[2]
             \/ f[1] = g[1] /\ f[2] = g[2] /\ f[3] > g[3]
           tagOver(a, b) ==
             /\ b.prerelease # Undefined
             /\ \/ a.prerelease = Undefined
                \/ a.prerelease # Undefined /\ LocaleCompare(a.prerelease, b.prerelease) > 0
<1>1. \A a, b \in Version :
        Above(a, b) <=> over(a.number, b.number) \/ (a.number = b.number /\ tagOver(a, b))
  <2>1. SUFFICES ASSUME NEW a \in Version, NEW b \in Version
                 PROVE  Above(a, b) <=>
                          over(a.number, b.number) \/ (a.number = b.number /\ tagOver(a, b))
    OBVIOUS
  <2>2. a.number \in [1 .. 3 -> Nat] /\ b.number \in [1 .. 3 -> Nat]
    BY DEF Version
  <2>3. (\E k \in 1 .. 3 : /\ a.number[k] > b.number[k]
                           /\ \A j \in 1 .. k - 1 : a.number[j] = b.number[j])
          <=> over(a.number, b.number)
    BY <2>2, TripleAbove
  <2> HIDE DEF over
  <2>4. QED
    BY <2>3 DEF Above
<1>2. tagOver(u, v) /\ tagOver(v, w) => tagOver(u, w)
  <2>1. SUFFICES ASSUME tagOver(u, v), tagOver(v, w)
                 PROVE  tagOver(u, w)
    OBVIOUS
  <2>2. /\ v.prerelease \in ToSet(Collation) /\ w.prerelease \in ToSet(Collation)
        /\ u.prerelease \in ToSet(Collation) \cup {Undefined}
    BY <2>1 DEF Version
  <2>3. CASE u.prerelease = Undefined
    BY <2>1, <2>3
  <2>4. CASE u.prerelease # Undefined
    <3>1. Rank(u.prerelease) \in Nat /\ Rank(v.prerelease) \in Nat /\ Rank(w.prerelease) \in Nat
      BY <2>2, <2>4, RankIsPlace
    <3>2. QED
      BY <2>1, <2>4, <3>1 DEF LocaleCompare
  <2>5. QED
    BY <2>3, <2>4
<1>3. /\ u.number \in [1 .. 3 -> Nat] /\ v.number \in [1 .. 3 -> Nat]
      /\ w.number \in [1 .. 3 -> Nat]
  BY DEF Version
<1>4. over(u.number, v.number) /\ over(v.number, w.number) => over(u.number, w.number)
  BY <1>3
<1> HIDE DEF over, tagOver
<1>5. QED
  BY <1>1, <1>2, <1>4

LEMMA LeastExists ==
  ASSUME NEW T, T \subseteq Nat, T # {}
  PROVE  \E x \in T : \A y \in T : x <= y
<1>1. PICK x \in T : \A y \in T : <<y, x>> \notin OpToRel(<, Nat)
  BY NatLessThanWellFounded, WFMin
<1>2. \A y \in T : ~(y < x)
  BY <1>1 DEF OpToRel
<1>3. QED
  BY <1>2

IsHighest(v, S) == v \in S /\ \A w \in S \ {v} : Above(v, w)

(* Any finite set of versions has a highest one: a smallest set without    *)
(* one would leave a smaller set without one. *)
LEMMA HighestExists ==
  ASSUME NEW S, S \subseteq Version, IsFiniteSet(S), S # {}
  PROVE  \E v \in S : IsHighest(v, S)
<1> DEFINE headless == {T \in SUBSET Version :
                          /\ IsFiniteSet(T) /\ T # {}
                          /\ \A v \in T : ~IsHighest(v, T)}
           sizes == {Cardinality(T) : T \in headless}
<1>1. SUFFICES ASSUME headless # {} PROVE FALSE
  OBVIOUS
<1>2. sizes \subseteq Nat /\ sizes # {}
  BY <1>1, FS_CardinalityType
<1>3. PICK T \in headless : \A U \in headless : Cardinality(T) <= Cardinality(U)
  <2>1. PICK least \in sizes : \A y \in sizes : least <= y
    <3> HIDE DEF sizes
    <3>1. QED
      BY <1>2, LeastExists
  <2>2. QED
    BY <2>1
<1>4. T \subseteq Version /\ IsFiniteSet(T) /\ T # {} /\ \A v \in T : ~IsHighest(v, T)
  BY <1>3
<1>5. PICK x \in T : TRUE
  BY <1>4
<1> DEFINE rest == T \ {x}
<1>6. IsFiniteSet(rest) /\ Cardinality(rest) < Cardinality(T)
  <2>1. /\ IsFiniteSet(rest)
        /\ Cardinality(rest) =
             IF x \in T THEN Cardinality(T) - 1 ELSE Cardinality(T)
    BY <1>4, FS_RemoveElement
  <2>2. Cardinality(T) \in Nat
    BY <1>4, FS_CardinalityType
  <2>3. x \in T
    OBVIOUS
  <2> HIDE DEF rest, headless
  <2>4. QED
    BY <2>1, <2>2, <2>3
<1>7. rest # {}
  BY <1>4 DEF IsHighest
<1>8. rest \notin headless
  <2>1. Cardinality(rest) \in Nat /\ Cardinality(T) \in Nat
    BY <1>4, <1>6, FS_CardinalityType
  <2> HIDE DEF rest, headless
  <2>2. QED
    BY <1>3, <1>6, <2>1
<1>9. PICK v \in rest : IsHighest(v, rest)
  BY <1>4, <1>6, <1>7, <1>8
<1>10. v \in Version /\ x \in Version /\ v # x
  BY <1>4
<1>11. Above(v, x) \/ Above(x, v)
  BY <1>10, VersionsAreOrdered DEF ComparatorOrders
<1>12. CASE Above(v, x)
  BY <1>4, <1>9, <1>12 DEF IsHighest
<1>13. CASE Above(x, v)
  <2>1. \A w \in T \ {x} : Above(x, w)
    BY <1>4, <1>9, <1>10, <1>13, AboveTransitive DEF IsHighest
  <2>2. QED
    BY <1>4, <2>1 DEF IsHighest
<1>14. QED
  BY <1>11, <1>12, <1>13

LEMMA ListIsFinite ==
  ASSUME NEW seq \in Seq(Version)
  PROVE  IsFiniteSet(ToSet(seq)) /\ ToSet(seq) \subseteq Version
<1> DEFINE n == Len(seq)
<1>1. n \in Nat /\ DOMAIN seq = 1 .. n /\ \A i \in 1 .. n : seq[i] \in Version
  OBVIOUS
<1>2. IsFiniteSet(1 .. n)
  BY <1>1, FS_Interval
<1> DEFINE f == [i \in 1 .. n |-> seq[i]]
<1>3. f \in Surjection(1 .. n, ToSet(seq))
  BY <1>1 DEF ToSet, Surjection
<1>4. QED
  BY <1>1, <1>2, <1>3, FS_Surjection DEF ToSet

(* What two lists of versions negotiate, whatever they name: the highest   *)
(* version both name and the release has, found from either side, and no   *)
(* version only where there is none (compatibility.ts 124-134). *)
THEOREM HighestNegotiated ==
  ASSUME NEW family \in Family, NEW l, NEW r
  PROVE  NegotiatesHighest(family, l, r)
<1> DEFINE shared == {v \in ToSet(l) \cap ToSet(r) : SupportsVersion(family, v)}
<1>1. /\ NegotiateVersion(family, l, r) = LastSorted(shared)
      /\ NegotiateVersion(family, r, l) = LastSorted(shared)
  <2>1. /\ {v \in ToSet(r) : /\ v \in {x \in ToSet(l) : SupportsVersion(family, x)}
                             /\ SupportsVersion(family, v)} = shared
        /\ {v \in ToSet(l) : /\ v \in {x \in ToSet(r) : SupportsVersion(family, x)}
                             /\ SupportsVersion(family, v)} = shared
    OBVIOUS
  <2> HIDE DEF shared
  <2>2. QED
    BY <2>1 DEF NegotiateVersion
<1>2. shared \subseteq Version /\ IsFiniteSet(shared)
  <2>1. Supported[family] \in Seq(Version)
    BY SupportedAssumption
  <2>2. shared \subseteq ToSet(Supported[family])
    BY DEF SupportsVersion
  <2>3. QED
    BY <2>1, <2>2, ListIsFinite, FS_Subset
<1> HIDE DEF shared
<1>3. shared = {} => LastSorted(shared) = Undefined
  BY DEF LastSorted
<1>4. ASSUME shared # {}
      PROVE  IsHighest(LastSorted(shared), shared)
  <2>1. PICK top \in shared : IsHighest(top, shared)
    BY <1>2, <1>4, HighestExists
  <2>2. \A v \in shared : IsHighest(v, shared) <=>
                            \A w \in shared \ {v} : CompareVersions(w, v) < 0
    <3>1. \A v, w \in shared : v # w => (CompareVersions(w, v) < 0 <=> Above(v, w))
      BY <1>2, VersionsAreOrdered DEF ComparatorOrders
    <3>2. QED
      BY <3>1 DEF IsHighest
  <2>3. LastSorted(shared) =
          CHOOSE v \in shared : \A w \in shared \ {v} : CompareVersions(w, v) < 0
    BY <1>4 DEF LastSorted
  <2>4. QED
    BY <2>1, <2>2, <2>3
<1>5. Undefined \notin Version
  BY CollationAssumption
<1>6. QED
  BY <1>1, <1>2, <1>3, <1>4, <1>5 DEF NegotiatesHighest, IsHighest, shared

-----------------------------------------------------------------------------
(* The conformance runner *)

IsList(s) == s \in Seq(ToSet(s))

(* Places of the lines that are not noise. *)
Answers == {i \in DOMAIN stdout : stdout[i].id # Nothing}

Asked == [k \in DOMAIN results |-> results[k].case]

(* The request that main awaits, or the answer to it. *)
Fresh(line) ==
  /\ awaited # Nothing
  /\ line.id = awaited /\ line.case = next /\ line.at = clock

SuiteTyped ==
  /\ profile \in Profiles \cup {Nothing}
  /\ next \in 1 .. Len(Cases) + 1
  /\ clock \in Nat
  /\ results \in Seq([case : Nat, passed : BOOLEAN])
  /\ skippedCases \in Seq(Nat)
  /\ IsList(stdin) /\ IsList(stdout)
  /\ repeated \in BOOLEAN

(* The cases behind main were asked or skipped, in order. *)
Accounted ==
  /\ profile = Nothing => next = 1
  /\ Ascending(Asked) /\ Ascending(skippedCases)
  /\ ToSet(Asked) = {k \in 1 .. next - 1 : Selected(k)}
  /\ ToSet(skippedCases) = {k \in 1 .. next - 1 : ~Selected(k)}

Awaiting ==
  outcome = "running" =>
    /\ pending = IF awaited = Nothing THEN {} ELSE {awaited}
    /\ awaited # Nothing => /\ awaited = <<0, clock>>
                            /\ profile # Nothing /\ next <= Len(Cases) /\ Selected(next)

(* An identifier is the millisecond of its request, since no other request *)
(* is pending when one is made. *)
Timed ==
  /\ \A i \in DOMAIN stdin : stdin[i].id = <<0, stdin[i].at>>
  /\ read # Nothing => read.id = <<0, read.at>>
  /\ \A i \in Answers : stdout[i].id = <<0, stdout[i].at>>

(* Of a candidate that has not answered a request twice there is at most   *)
(* one line under way, and it is about the request that main awaits. *)
OneLine ==
  outcome = "running" /\ ~repeated =>
    /\ stdin # <<>> => /\ Len(stdin) = 1 /\ Fresh(stdin[1])
                       /\ Answers = {} /\ (read = Nothing \/ written = 1)
    /\ read # Nothing /\ written # 1 => stdin = <<>> /\ Fresh(read) /\ Answers = {}
    /\ \A i \in Answers : /\ Fresh(stdout[i])
                          /\ stdin = <<>> /\ (read = Nothing \/ written = 1)
                          /\ Answers = {i}

SuiteInv ==
  SuiteTyped /\ Accounted /\ Awaiting /\ Timed /\ OneLine
    /\ CreditedToItsCase /\ ReportIsComplete

LEMMA ListAppended ==
  ASSUME NEW s, IsList(s), NEW e
  PROVE  /\ Len(s) \in Nat /\ DOMAIN s = 1 .. Len(s)
         /\ IsList(Append(s, e)) /\ Append(s, e) # <<>>
         /\ Len(Append(s, e)) = Len(s) + 1
         /\ DOMAIN Append(s, e) = 1 .. Len(s) + 1
         /\ \A i \in 1 .. Len(s) : Append(s, e)[i] = s[i]
         /\ Append(s, e)[Len(s) + 1] = e
<1> DEFINE t == Append(s, e)
<1>1. s \in Seq(ToSet(s) \cup {e})
  BY DEF IsList
<1>2. t \in Seq(ToSet(s) \cup {e})
  BY <1>1
<1>3. /\ Len(s) \in Nat /\ DOMAIN s = 1 .. Len(s)
      /\ Len(t) = Len(s) + 1 /\ DOMAIN t = 1 .. Len(s) + 1
      /\ \A i \in 1 .. Len(s) : t[i] = s[i]
      /\ t[Len(s) + 1] = e
  BY <1>1
<1>4. t # <<>>
  BY <1>3
<1> HIDE DEF t
<1>5. \A i \in 1 .. Len(t) : t[i] \in ToSet(t)
  BY <1>3 DEF ToSet
<1>6. t \in Seq(ToSet(t))
  BY <1>2, <1>5
<1>7. QED
  BY <1>3, <1>4, <1>6 DEF IsList, t

LEMMA ListShortened ==
  ASSUME NEW s, IsList(s), s # <<>>
  PROVE  /\ Len(s) \in Nat /\ DOMAIN s = 1 .. Len(s) /\ 1 \in DOMAIN s
         /\ Head(s) = s[1]
         /\ IsList(Tail(s))
         /\ Len(Tail(s)) = Len(s) - 1
         /\ DOMAIN Tail(s) = 1 .. Len(s) - 1
         /\ \A i \in 1 .. Len(s) - 1 : Tail(s)[i] = s[i + 1]
<1> DEFINE t == Tail(s)
<1>1. s \in Seq(ToSet(s))
  BY DEF IsList
<1>2. /\ Len(s) \in Nat /\ DOMAIN s = 1 .. Len(s) /\ 1 \in DOMAIN s
      /\ Head(s) = s[1]
  BY <1>1
<1>3. t \in Seq(ToSet(s))
  BY <1>1
<1>4. /\ Len(t) = Len(s) - 1 /\ DOMAIN t = 1 .. Len(s) - 1
      /\ \A i \in 1 .. Len(s) - 1 : t[i] = s[i + 1]
  BY <1>1
<1> HIDE DEF t
<1>5. \A i \in 1 .. Len(t) : t[i] \in ToSet(t)
  BY <1>2, <1>4 DEF ToSet
<1>6. t \in Seq(ToSet(t))
  BY <1>3, <1>5
<1>7. QED
  BY <1>2, <1>4, <1>6 DEF IsList, t

LEMMA ListsJoined ==
  ASSUME NEW s, NEW t, IsList(s), IsList(t)
  PROVE  IsList(s \o t)
<1> DEFINE both == ToSet(s) \cup ToSet(t)
           u == s \o t
<1>1. s \in Seq(both) /\ t \in Seq(both)
  BY DEF IsList
<1>2. u \in Seq(both)
  BY <1>1
<1>3. DOMAIN u = 1 .. Len(u) /\ Len(u) \in Nat
  BY <1>2
<1> HIDE DEF u
<1>4. \A i \in 1 .. Len(u) : u[i] \in ToSet(u)
  BY <1>3 DEF ToSet
<1>5. u \in Seq(ToSet(u))
  BY <1>2, <1>4
<1>6. QED
  BY <1>5 DEF IsList, u

LEMMA AscendingOn ==
  ASSUME NEW list \in Seq(Nat), NEW n \in Nat, Ascending(list),
         \A k \in ToSet(list) : k < n
  PROVE  /\ Append(list, n) \in Seq(Nat)
         /\ Ascending(Append(list, n))
         /\ ToSet(Append(list, n)) = ToSet(list) \cup {n}
<1> DEFINE on == Append(list, n)
<1>1. /\ on \in Seq(Nat) /\ Len(list) \in Nat
      /\ DOMAIN list = 1 .. Len(list) /\ DOMAIN on = 1 .. Len(list) + 1
      /\ \A i \in 1 .. Len(list) : on[i] = list[i]
      /\ on[Len(list) + 1] = n
  OBVIOUS
<1>2. \A i \in 1 .. Len(list) : list[i] < n
  BY <1>1 DEF ToSet
<1> HIDE DEF on
<1>3. Ascending(on)
  <2>1. SUFFICES ASSUME NEW i \in 1 .. Len(list) + 1, NEW j \in 1 .. Len(list) + 1, i < j
                 PROVE  on[i] < on[j]
    BY <1>1 DEF Ascending
  <2>2. i \in 1 .. Len(list)
    BY <1>1, <2>1
  <2>3. CASE j = Len(list) + 1
    BY <1>1, <1>2, <2>2, <2>3
  <2>4. CASE j # Len(list) + 1
    <3>1. j \in 1 .. Len(list)
      BY <1>1, <2>4
    <3>2. list[i] < list[j]
      BY <1>1, <2>1, <2>2, <3>1 DEF Ascending
    <3>3. QED
      BY <1>1, <2>2, <3>1, <3>2
  <2>5. QED
    BY <2>3, <2>4
<1>4. ToSet(on) = ToSet(list) \cup {n}
  BY <1>1 DEF ToSet
<1>5. QED
  BY <1>1, <1>3, <1>4 DEF on

LEMMA EightListed ==
  ASSUME NEW a, NEW b, NEW c, NEW d, NEW e, NEW f, NEW g, NEW h
  PROVE  IsList(<<a, b, c, d, e, f, g, h>>)
BY SMTT(30) DEF IsList, ToSet

LEMMA TenListed ==
  ASSUME NEW a, NEW b, NEW c, NEW d, NEW e, NEW f, NEW g, NEW h, NEW i, NEW j
  PROVE  IsList(<<a, b, c, d, e, f, g, h, i, j>>)
BY SMTT(30) DEF IsList, ToSet

LEMMA ElevenListed ==
  ASSUME NEW a, NEW b, NEW c, NEW d, NEW e, NEW f, NEW g, NEW h, NEW i, NEW j, NEW k
  PROVE  IsList(<<a, b, c, d, e, f, g, h, i, j, k>>)
BY SMTT(30) DEF IsList, ToSet

LEMMA SuiteIsList ==
  Len(Cases) \in Nat /\ DOMAIN Cases = 1 .. Len(Cases)
<1>1. IsList(DescriptorCases)
  BY ElevenListed, Zenon DEF DescriptorCases
<1>2. IsList(TransportCases)
  BY EightListed, Zenon DEF TransportCases
<1>3. IsList(WalletCases)
  BY DEF IsList, ToSet, WalletCases
<1>4. IsList(FirstProposalCases)
  BY TenListed, Zenon DEF FirstProposalCases
<1>5. IsList(SecondProposalCases)
  BY TenListed, Zenon DEF SecondProposalCases
<1>6. IsList(CoreCases)
  BY DEF IsList, ToSet, CoreCases
<1>7. IsList(Cases)
  BY <1>1, <1>2, <1>3, <1>4, <1>5, <1>6, ListsJoined DEF Cases
<1>8. Cases \in Seq(ToSet(Cases))
  BY <1>7 DEF IsList
<1>9. QED
  BY <1>8

(* Each part of the invariant stays while what it is about stays. *)
LEMMA SuiteFrames ==
  /\ Accounted /\ UNCHANGED <<profile, next, results, skippedCases>> => Accounted'
  /\ Awaiting /\ UNCHANGED <<outcome, pending, awaited, clock, profile, next>> => Awaiting'
  /\ Timed /\ UNCHANGED <<stdin, stdout, read>> => Timed'
  /\ OneLine /\ UNCHANGED <<outcome, repeated, stdin, stdout, read, written,
                            awaited, next, clock>> => OneLine'
  /\ CreditedToItsCase /\ UNCHANGED <<credit, repeated>> => CreditedToItsCase'
  /\ ReportIsComplete /\ UNCHANGED <<outcome, profile, results, skippedCases>>
       => ReportIsComplete'
<1>1. Accounted /\ UNCHANGED <<profile, next, results, skippedCases>> => Accounted'
  BY DEF Accounted, Asked, Selected
<1>2. Awaiting /\ UNCHANGED <<outcome, pending, awaited, clock, profile, next>> => Awaiting'
  BY DEF Awaiting, Selected
<1>3. Timed /\ UNCHANGED <<stdin, stdout, read>> => Timed'
  BY DEF Timed, Answers
<1>4. OneLine /\ UNCHANGED <<outcome, repeated, stdin, stdout, read, written,
                             awaited, next, clock>> => OneLine'
  BY DEF OneLine, Answers, Fresh
<1>5. CreditedToItsCase /\ UNCHANGED <<credit, repeated>> => CreditedToItsCase'
  BY DEF CreditedToItsCase
<1>6. ReportIsComplete /\ UNCHANGED <<outcome, profile, results, skippedCases>>
        => ReportIsComplete'
  BY DEF ReportIsComplete
<1>7. QED
  BY <1>1, <1>2, <1>3, <1>4, <1>5, <1>6

(* What every step of the runner leaves to the candidate. *)
LEMMA RunningOnly ==
  ASSUME outcome = "running"
  PROVE  /\ outcome' = "running" => (ReportIsComplete => ReportIsComplete')
         /\ outcome' = "thrown" => /\ Awaiting' /\ OneLine' /\ ReportIsComplete'
<1>1. "thrown" # "running" /\ "thrown" # "reported" /\ "running" # "reported"
  OBVIOUS
<1>2. QED
  BY <1>1 DEF Awaiting, OneLine, ReportIsComplete

LEMMA ParseArgvKeeps ==
  ASSUME SuiteInv, NEW argument \in Argument, ParseArgv(argument),
         UNCHANGED <<candidate, adapterVars, erraticVars>>
  PROVE  SuiteInv'
<1>1. /\ UNCHANGED <<next, clock, pending, awaited, stdin, stdout, results, skippedCases,
                     credit, read, written, repeated>>
      /\ profile = Nothing /\ outcome = "running"
  BY DEF ParseArgv, erraticVars
<1>2. \/ profile' \in Profiles /\ outcome' = outcome
      \/ profile' = profile /\ outcome' = "thrown"
  <2>1. \A a \in DOMAIN Aliases : Aliases[a] \in Profiles
    BY DEF Aliases, Profiles
  <2>2. QED
    BY <2>1 DEF ParseArgv
<1>3. SuiteTyped'
  BY <1>1, <1>2 DEF SuiteInv, SuiteTyped
<1>4. Accounted'
  <2>1. next = 1
    BY <1>1 DEF SuiteInv, Accounted
  <2>2. 1 .. next - 1 = {}
    BY <2>1
  <2>3. ToSet(Asked') = {} /\ ToSet(skippedCases') = {} /\ Asked' = Asked
    BY <1>1, <2>2 DEF SuiteInv, Accounted, Asked
  <2>4. QED
    BY <1>1, <2>1, <2>2, <2>3 DEF SuiteInv, Accounted
<1>5. awaited = Nothing
  BY <1>1 DEF SuiteInv, Awaiting
<1>6. Awaiting'
  BY <1>1, <1>5 DEF SuiteInv, Awaiting
<1>7. Timed' /\ CreditedToItsCase'
  BY <1>1, SuiteFrames DEF SuiteInv
<1>8. OneLine' /\ ReportIsComplete'
  <2>1. CASE outcome' = "thrown"
    BY <1>1, <2>1, RunningOnly
  <2>2. CASE outcome' = outcome
    BY <1>1, <2>2, SuiteFrames, RunningOnly DEF SuiteInv
  <2>3. QED
    BY <1>2, <2>1, <2>2
<1>9. QED
  BY <1>3, <1>4, <1>6, <1>7, <1>8 DEF SuiteInv

LEMMA SkipKeeps ==
  ASSUME SuiteInv, Skip, UNCHANGED <<candidate, adapterVars, erraticVars>>
  PROVE  SuiteInv'
<1>1. /\ UNCHANGED <<profile, clock, pending, awaited, stdin, stdout, results, credit,
                     outcome, read, written, repeated>>
      /\ outcome = "running" /\ profile # Nothing /\ awaited = Nothing
      /\ next <= Len(Cases) /\ ~Selected(next)
      /\ next' = next + 1 /\ skippedCases' = Append(skippedCases, next)
  BY DEF Skip, AtCase, erraticVars
<1>2. /\ next \in Nat /\ next' \in 1 .. Len(Cases) + 1
      /\ 1 .. next' - 1 = (1 .. next - 1) \cup {next}
  BY <1>1, SuiteIsList DEF SuiteInv, SuiteTyped
<1>3. /\ skippedCases' \in Seq(Nat) /\ Ascending(skippedCases')
      /\ ToSet(skippedCases') = ToSet(skippedCases) \cup {next}
  <2>1. /\ skippedCases \in Seq(Nat) /\ Ascending(skippedCases)
        /\ \A k \in ToSet(skippedCases) : k < next
    BY <1>2 DEF SuiteInv, SuiteTyped, Accounted
  <2>2. QED
    BY <1>1, <1>2, <2>1, AscendingOn
<1>4. SuiteTyped'
  BY <1>1, <1>2, <1>3 DEF SuiteInv, SuiteTyped
<1>5. Accounted'
  <2>1. Asked' = Asked /\ \A k : Selected(k)' <=> Selected(k)
    BY <1>1 DEF Asked, Selected
  <2>2. ToSet(Asked') = {k \in 1 .. next' - 1 : Selected(k)'}
    BY <1>1, <1>2, <2>1 DEF SuiteInv, Accounted
  <2>3. ToSet(skippedCases') = {k \in 1 .. next' - 1 : ~Selected(k)'}
    BY <1>1, <1>2, <1>3, <2>1 DEF SuiteInv, Accounted
  <2>4. QED
    BY <1>1, <1>3, <2>1, <2>2, <2>3 DEF SuiteInv, Accounted
<1>6. Awaiting'
  BY <1>1 DEF SuiteInv, Awaiting
<1>7. Timed' /\ CreditedToItsCase' /\ ReportIsComplete'
  BY <1>1, SuiteFrames, RunningOnly DEF SuiteInv
<1>8. OneLine'
  BY <1>1 DEF SuiteInv, OneLine, Fresh, Answers
<1>9. QED
  BY <1>4, <1>5, <1>6, <1>7, <1>8 DEF SuiteInv

LEMMA AskKeeps ==
  ASSUME SuiteInv, Ask, UNCHANGED <<candidate, adapterVars, erraticVars>>
  PROVE  SuiteInv'
<1> PICK request : request = [id |-> awaited', case |-> next, at |-> clock']
  OBVIOUS
<1>1. /\ UNCHANGED <<profile, next, stdout, results, skippedCases, credit, outcome,
                     read, written, repeated>>
      /\ outcome = "running" /\ profile # Nothing /\ awaited = Nothing
      /\ next <= Len(Cases) /\ Selected(next)
      /\ clock' \in Nat
      /\ pending' = pending \cup {awaited'}
      /\ stdin' = Append(stdin, request)
  BY RunnerAssumption DEF Ask, AtCase, erraticVars, SuiteInv, SuiteTyped
<1>2. pending = {}
  BY <1>1 DEF SuiteInv, Awaiting
<1>3. awaited' = <<0, clock'>>
  BY <1>2, FS_EmptySet DEF Ask, RequestId
<1>4. awaited' # Nothing
  BY <1>1, <1>3, RunnerAssumption
<1>5. request.id = awaited' /\ request.case = next /\ request.at = clock'
  OBVIOUS
<1>6. /\ Len(stdin) \in Nat /\ DOMAIN stdin = 1 .. Len(stdin)
      /\ IsList(stdin') /\ stdin' # <<>>
      /\ Len(stdin') = Len(stdin) + 1 /\ DOMAIN stdin' = 1 .. Len(stdin) + 1
      /\ \A i \in 1 .. Len(stdin) : stdin'[i] = stdin[i]
      /\ stdin'[Len(stdin) + 1] = request
  BY <1>1, ListAppended DEF SuiteInv, SuiteTyped
<1>7. SuiteTyped'
  BY <1>1, <1>6 DEF SuiteInv, SuiteTyped
<1>8. Accounted' /\ CreditedToItsCase' /\ ReportIsComplete'
  BY <1>1, SuiteFrames DEF SuiteInv
<1>9. Awaiting'
  BY <1>1, <1>2, <1>3, <1>4 DEF Awaiting, Selected
<1>10. Timed'
  <2>1. \A i \in DOMAIN stdin' : stdin'[i].id = <<0, stdin'[i].at>>
    <3>1. SUFFICES ASSUME NEW i \in 1 .. Len(stdin) + 1
                   PROVE  stdin'[i].id = <<0, stdin'[i].at>>
      BY <1>6
    <3>2. CASE i \in 1 .. Len(stdin)
      BY <1>6, <3>2 DEF SuiteInv, Timed
    <3>3. CASE i = Len(stdin) + 1
      BY <1>3, <1>5, <1>6, <3>3
    <3>4. QED
      BY <1>6, <3>2, <3>3
  <2>2. QED
    BY <1>1, <2>1 DEF SuiteInv, Timed, Answers
<1>11. OneLine'
  <2>1. SUFFICES ASSUME ~repeated PROVE OneLine'
    BY <1>1 DEF OneLine
  <2>2. stdin = <<>> /\ (read = Nothing \/ written = 1) /\ Answers = {}
    BY <1>1, <2>1 DEF SuiteInv, OneLine, Fresh
  <2>3. Len(stdin') = 1 /\ stdin'[1] = request
    BY <1>6, <2>2
  <2>4. Fresh(request)'
    BY <1>1, <1>4, <1>5 DEF Fresh
  <2>5. Answers' = {}
    BY <1>1, <2>2 DEF Answers
  <2>6. QED
    BY <1>1, <1>6, <2>2, <2>3, <2>4, <2>5 DEF OneLine
<1>12. QED
  BY <1>7, <1>8, <1>9, <1>10, <1>11 DEF SuiteInv

LEMMA AskedIsList ==
  ASSUME SuiteInv
  PROVE  Asked \in Seq(Nat) /\ \A k \in ToSet(Asked) : k < next
<1>1. next \in Nat
  BY SuiteIsList DEF SuiteInv, SuiteTyped
<1> DEFINE Result == [case : Nat, passed : BOOLEAN]
<1>2. Asked \in Seq(Nat)
  <2>1. results \in Seq(Result) /\ \A r \in Result : r.case \in Nat
    BY DEF SuiteInv, SuiteTyped
  <2> HIDE DEF Result
  <2>2. /\ Len(results) \in Nat /\ DOMAIN results = 1 .. Len(results)
        /\ \A i \in 1 .. Len(results) : results[i].case \in Nat
    BY <2>1
  <2>3. Asked \in [1 .. Len(results) -> Nat]
    BY <2>2 DEF Asked
  <2>4. QED
    BY <2>2, <2>3
<1>3. QED
  BY <1>1, <1>2 DEF SuiteInv, Accounted

LEMMA LineDropped ==
  ASSUME SuiteInv, Line, Head(stdout).id \notin pending,
         UNCHANGED <<candidate, adapterVars, erraticVars>>
  PROVE  SuiteInv'
<1>1. /\ UNCHANGED <<profile, next, clock, pending, awaited, stdin, results, skippedCases,
                     credit, outcome, read, written, repeated>>
      /\ stdout # <<>> /\ stdout' = Tail(stdout)
  BY DEF Line, erraticVars
<1>2. /\ Len(stdout) \in Nat /\ DOMAIN stdout = 1 .. Len(stdout)
      /\ IsList(stdout') /\ DOMAIN stdout' = 1 .. Len(stdout) - 1
      /\ \A i \in 1 .. Len(stdout) - 1 : stdout'[i] = stdout[i + 1]
  BY <1>1, ListShortened DEF SuiteInv, SuiteTyped
<1>3. \A i \in Answers' : i \in Nat /\ i + 1 \in Answers /\ stdout'[i] = stdout[i + 1]
  BY <1>2 DEF Answers
<1>4. SuiteTyped'
  BY <1>1, <1>2 DEF SuiteInv, SuiteTyped
<1>5. Accounted' /\ Awaiting' /\ CreditedToItsCase' /\ ReportIsComplete'
  BY <1>1, SuiteFrames DEF SuiteInv
<1>6. Timed'
  BY <1>1, <1>3 DEF SuiteInv, Timed
<1>7. OneLine'
  <2>1. SUFFICES ASSUME outcome = "running", ~repeated PROVE OneLine'
    BY <1>1 DEF OneLine
  <2>2. Answers = {} => Answers' = {}
    BY <1>3
  <2>3. ASSUME NEW i \in Answers'
        PROVE  /\ Fresh(stdout[i + 1]) /\ stdout'[i] = stdout[i + 1]
               /\ stdin = <<>> /\ (read = Nothing \/ written = 1)
               /\ Answers' = {i}
    <3>1. /\ Fresh(stdout[i + 1]) /\ stdin = <<>> /\ (read = Nothing \/ written = 1)
          /\ Answers = {i + 1}
      BY <1>3, <2>1 DEF SuiteInv, OneLine
    <3>2. \A j \in Answers' : j = i
      BY <1>3, <3>1
    <3>3. QED
      BY <1>3, <3>1, <3>2
  <2>4. QED
    BY <1>1, <2>1, <2>2, <2>3 DEF SuiteInv, OneLine, Fresh
<1>8. QED
  BY <1>4, <1>5, <1>6, <1>7 DEF SuiteInv

LEMMA LineCredited ==
  ASSUME SuiteInv, Line, Head(stdout).id \in pending,
         UNCHANGED <<candidate, adapterVars, erraticVars>>
  PROVE  SuiteInv'
<1> PICK line : line = Head(stdout)
  OBVIOUS
<1>1. /\ UNCHANGED <<profile, clock, stdin, skippedCases, outcome, read, written, repeated>>
      /\ outcome = "running" /\ stdout # <<>> /\ stdout' = Tail(stdout)
      /\ line.id \in pending /\ pending' = pending \ {line.id} /\ awaited' = Nothing
      /\ results' = Append(results, [case |-> next, passed |-> Passed(line)])
      /\ credit' = [case |-> next, at |-> clock, line |-> line]
      /\ next' = next + 1
  BY DEF Line, erraticVars
<1>2. /\ Len(stdout) \in Nat /\ DOMAIN stdout = 1 .. Len(stdout) /\ 1 \in DOMAIN stdout
      /\ line = stdout[1]
      /\ IsList(stdout') /\ DOMAIN stdout' = 1 .. Len(stdout) - 1
      /\ \A i \in 1 .. Len(stdout) - 1 : stdout'[i] = stdout[i + 1]
  BY <1>1, ListShortened DEF SuiteInv, SuiteTyped
<1>3. \A i \in Answers' : i \in Nat /\ i + 1 \in Answers /\ i >= 1 /\ stdout'[i] = stdout[i + 1]
  BY <1>2 DEF Answers
<1>4. /\ pending = {awaited} /\ line.id = awaited /\ awaited # Nothing
      /\ awaited = <<0, clock>>
      /\ profile # Nothing /\ next <= Len(Cases) /\ Selected(next)
  BY <1>1 DEF SuiteInv, Awaiting
<1>5. 1 \in Answers
  BY <1>2, <1>4 DEF Answers
<1>6. /\ next \in Nat /\ next' \in 1 .. Len(Cases) + 1
      /\ 1 .. next' - 1 = (1 .. next - 1) \cup {next}
  BY <1>1, <1>4, SuiteIsList DEF SuiteInv, SuiteTyped
<1>7. results' \in Seq([case : Nat, passed : BOOLEAN])
  <2>1. Passed(line) \in BOOLEAN
    BY DEF Passed
  <2> PICK passed : passed = Passed(line)
    OBVIOUS
  <2>2. [case |-> next, passed |-> passed] \in [case : Nat, passed : BOOLEAN]
    BY <1>6, <2>1
  <2>3. results' = Append(results, [case |-> next, passed |-> passed])
    BY <1>1
  <2>4. results \in Seq([case : Nat, passed : BOOLEAN])
    BY DEF SuiteInv, SuiteTyped
  <2>5. QED
    BY <2>2, <2>3, <2>4
<1>8. SuiteTyped'
  BY <1>1, <1>2, <1>6, <1>7 DEF SuiteInv, SuiteTyped
<1>9. Asked' = Append(Asked, next)
  <2> DEFINE Result == [case : Nat, passed : BOOLEAN]
  <2>1. results \in Seq(Result)
    BY DEF SuiteInv, SuiteTyped
  <2> HIDE DEF Result
  <2> PICK result : result = [case |-> next, passed |-> Passed(line)]
    OBVIOUS
  <2>2. result.case = next /\ results' = Append(results, result)
    BY <1>1
  <2>3. /\ Len(results) \in Nat /\ DOMAIN results = 1 .. Len(results)
        /\ DOMAIN results' = 1 .. Len(results) + 1
        /\ \A i \in 1 .. Len(results) : results'[i] = results[i]
        /\ results'[Len(results) + 1] = result
    <3>1. results \in Seq(Result \cup {result})
      BY <2>1
    <3>2. QED
      BY <2>2, <3>1
  <2>4. Asked' = [i \in 1 .. Len(results) + 1 |->
                    IF i <= Len(results) THEN results[i].case ELSE next]
    BY <2>2, <2>3 DEF Asked
  <2>5. Len(Asked) = Len(results) /\ Asked \in Seq(Nat) /\ Asked = [i \in 1 .. Len(results) |-> results[i].case]
    BY <2>3, AskedIsList DEF Asked
  <2>6. Append(Asked, next) = [i \in 1 .. Len(results) + 1 |->
                    IF i <= Len(results) THEN results[i].case ELSE next]
    BY <1>6, <2>3, <2>5
  <2>7. QED
    BY <2>4, <2>6
<1>10. Accounted'
  <2>1. \A k : Selected(k)' <=> Selected(k)
    BY <1>1 DEF Selected
  <2>2. Ascending(Asked') /\ ToSet(Asked') = ToSet(Asked) \cup {next}
    <3>1. Ascending(Asked)
      BY DEF SuiteInv, Accounted
    <3>2. QED
      BY <1>6, <1>9, <3>1, AskedIsList, AscendingOn
  <2>3. ToSet(Asked') = {k \in 1 .. next' - 1 : Selected(k)'}
    BY <1>4, <1>6, <2>1, <2>2 DEF SuiteInv, Accounted
  <2>4. ToSet(skippedCases') = {k \in 1 .. next' - 1 : ~Selected(k)'}
    BY <1>1, <1>4, <1>6, <2>1 DEF SuiteInv, Accounted
  <2>5. QED
    BY <1>1, <1>4, <2>2, <2>3, <2>4 DEF SuiteInv, Accounted
<1>11. Awaiting'
  BY <1>1, <1>4 DEF Awaiting
<1>12. Timed'
  BY <1>1, <1>3 DEF SuiteInv, Timed
<1>13. OneLine'
  <2>1. SUFFICES ASSUME ~repeated PROVE OneLine'
    BY <1>1 DEF OneLine
  <2>2. Answers = {1} /\ stdin = <<>> /\ (read = Nothing \/ written = 1)
    BY <1>1, <1>5, <2>1 DEF SuiteInv, OneLine
  <2>3. Answers' = {}
    BY <1>3, <2>2
  <2>4. QED
    BY <1>1, <2>2, <2>3 DEF OneLine
<1>14. CreditedToItsCase'
  <2>1. credit'.case = next /\ credit'.at = clock /\ credit'.line = line
    BY <1>1
  <2>2. line.id = <<0, line.at>>
    BY <1>2, <1>5 DEF SuiteInv, Timed
  <2>3. line.at = clock
    BY <1>4, <2>2
  <2>4. ~repeated => line.case = next
    BY <1>1, <1>2, <1>5 DEF SuiteInv, OneLine, Fresh
  <2>5. QED
    BY <1>1, <2>1, <2>3, <2>4 DEF CreditedToItsCase
<1>15. ReportIsComplete'
  BY <1>1 DEF ReportIsComplete
<1>16. QED
  BY <1>8, <1>10, <1>11, <1>12, <1>13, <1>14, <1>15 DEF SuiteInv

(* A timer or a failed write ends the run without a report. *)
LEMMA ThrownKeeps ==
  ASSUME SuiteInv, Timeout \/ WriteFails,
         UNCHANGED <<candidate, adapterVars, erraticVars>>
  PROVE  SuiteInv'
<1>1. /\ UNCHANGED <<profile, next, clock, stdin, stdout, results, skippedCases, credit,
                     read, written, repeated>>
      /\ outcome = "running" /\ outcome' = "thrown"
  BY DEF Timeout, Rejected, WriteFails, erraticVars
<1>2. SuiteTyped'
  BY <1>1 DEF SuiteInv, SuiteTyped
<1>3. Accounted' /\ Timed' /\ CreditedToItsCase'
  BY <1>1, SuiteFrames DEF SuiteInv
<1>4. Awaiting' /\ OneLine' /\ ReportIsComplete'
  BY <1>1, RunningOnly
<1>5. QED
  BY <1>2, <1>3, <1>4 DEF SuiteInv

LEMMA ReportKeeps ==
  ASSUME SuiteInv, Report, UNCHANGED <<candidate, adapterVars, erraticVars>>
  PROVE  SuiteInv'
<1>1. /\ UNCHANGED <<profile, next, clock, pending, awaited, stdin, stdout, results,
                     skippedCases, credit, read, written, repeated>>
      /\ profile # Nothing /\ next > Len(Cases) /\ outcome' = "reported"
  BY DEF Report, erraticVars
<1>2. profile \in Profiles /\ 1 .. next - 1 = DOMAIN Cases
  BY <1>1, SuiteIsList DEF SuiteInv, SuiteTyped
<1>3. SuiteTyped'
  BY <1>1 DEF SuiteInv, SuiteTyped
<1>4. Accounted' /\ Timed' /\ CreditedToItsCase'
  BY <1>1, SuiteFrames DEF SuiteInv
<1>5. Awaiting' /\ OneLine'
  BY <1>1 DEF Awaiting, OneLine
<1>6. ReportIsComplete'
  <2> DEFINE OfHttp(k) == Cases[k].command \in {"verify_transport", "transport_policy"}
             InProfile(k) == profile = "all" \/ (profile = "transport:http" <=> OfHttp(k))
  <2>1. ASSUME NEW k PROVE Selected(k) <=> InProfile(k)
    BY <1>2 DEF Selected, CaseProfile, Profiles
  <2>2. /\ Ascending(Asked) /\ Ascending(skippedCases)
        /\ ToSet(Asked) = {k \in DOMAIN Cases : InProfile(k)}
        /\ ToSet(skippedCases) = {k \in DOMAIN Cases : ~InProfile(k)}
    <3> HIDE DEF InProfile
    <3>1. QED
      BY <1>2, <2>1 DEF SuiteInv, Accounted
  <2>3. QED
    BY <1>1, <2>2 DEF ReportIsComplete, Asked
<1>7. QED
  BY <1>3, <1>4, <1>5, <1>6 DEF SuiteInv

LEMMA AnswerAppended ==
  ASSUME IsList(stdout), NEW line, stdout' = Append(stdout, line)
  PROVE  /\ IsList(stdout')
         /\ Answers' = Answers \cup IF line.id = Nothing THEN {} ELSE {Len(stdout) + 1}
         /\ \A i \in Answers : stdout'[i] = stdout[i]
         /\ stdout'[Len(stdout) + 1] = line
<1>1. /\ Len(stdout) \in Nat /\ DOMAIN stdout = 1 .. Len(stdout)
      /\ IsList(stdout') /\ DOMAIN stdout' = 1 .. Len(stdout) + 1
      /\ \A i \in 1 .. Len(stdout) : stdout'[i] = stdout[i]
      /\ stdout'[Len(stdout) + 1] = line
  BY ListAppended
<1>2. Answers' = Answers \cup IF line.id = Nothing THEN {} ELSE {Len(stdout) + 1}
  <2>1. DOMAIN stdout' = DOMAIN stdout \cup {Len(stdout) + 1}
    BY <1>1
  <2>2. Len(stdout) + 1 \notin DOMAIN stdout
    BY <1>1
  <2>3. QED
    BY <1>1, <2>1, <2>2 DEF Answers
<1>3. \A i \in Answers : stdout'[i] = stdout[i]
  BY <1>1 DEF Answers
<1>4. QED
  BY <1>1, <1>2, <1>3

LEMMA ServeKeeps ==
  ASSUME SuiteInv, Serve
  PROVE  SuiteInv'
<1>1. PICK request : request = Head(stdin)
  OBVIOUS
<1>2. /\ UNCHANGED <<profile, next, clock, pending, awaited, results, skippedCases, credit,
                     outcome, read, written, repeated>>
      /\ stdin # <<>> /\ stdin' = Tail(stdin)
      /\ \E reply : stdout' = Append(stdout, [id |-> request.id, case |-> request.case,
                                              at |-> request.at, answer |-> reply])
  BY <1>1 DEF Serve, erraticVars
<1>3. PICK reply : stdout' = Append(stdout, [id |-> request.id, case |-> request.case,
                                             at |-> request.at, answer |-> reply])
  BY <1>2
<1> PICK line : line = [id |-> request.id, case |-> request.case,
                        at |-> request.at, answer |-> reply]
  OBVIOUS
<1>4. line.id = request.id /\ line.case = request.case /\ line.at = request.at
  OBVIOUS
<1>5. /\ Len(stdin) \in Nat /\ DOMAIN stdin = 1 .. Len(stdin) /\ 1 \in DOMAIN stdin
      /\ request = stdin[1]
      /\ IsList(stdin') /\ Len(stdin') = Len(stdin) - 1 /\ DOMAIN stdin' = 1 .. Len(stdin) - 1
      /\ \A i \in 1 .. Len(stdin) - 1 : stdin'[i] = stdin[i + 1]
  BY <1>1, <1>2, ListShortened DEF SuiteInv, SuiteTyped
<1>6. /\ IsList(stdout')
      /\ Answers' = Answers \cup IF line.id = Nothing THEN {} ELSE {Len(stdout) + 1}
      /\ \A i \in Answers : stdout'[i] = stdout[i]
      /\ stdout'[Len(stdout) + 1] = line
  BY <1>3, AnswerAppended DEF SuiteInv, SuiteTyped
<1>7. SuiteTyped'
  BY <1>2, <1>5, <1>6 DEF SuiteInv, SuiteTyped
<1>8. Accounted' /\ Awaiting' /\ CreditedToItsCase' /\ ReportIsComplete'
  BY <1>2, SuiteFrames DEF SuiteInv
<1>9. line.id = <<0, line.at>>
  BY <1>4, <1>5 DEF SuiteInv, Timed
<1>10. Timed'
  <2>1. \A i \in DOMAIN stdin' : i + 1 \in DOMAIN stdin /\ stdin'[i] = stdin[i + 1]
    BY <1>5
  <2>2. \A i \in DOMAIN stdin' : stdin'[i].id = <<0, stdin'[i].at>>
    BY <2>1 DEF SuiteInv, Timed
  <2>3. \A i \in Answers' : stdout'[i].id = <<0, stdout'[i].at>>
    BY <1>6, <1>9 DEF SuiteInv, Timed
  <2>4. QED
    BY <1>2, <2>2, <2>3 DEF SuiteInv, Timed
<1>11. OneLine'
  <2>1. SUFFICES ASSUME outcome = "running", ~repeated PROVE OneLine'
    BY <1>2 DEF OneLine
  <2>2. /\ Len(stdin) = 1 /\ Fresh(line)
        /\ Answers = {} /\ (read = Nothing \/ written = 1)
    BY <1>2, <1>4, <1>5, <2>1 DEF SuiteInv, OneLine, Fresh
  <2>3. Len(stdin') = 0 /\ stdin' = <<>>
    <3>1. stdin' \in Seq(ToSet(stdin'))
      BY <1>5 DEF IsList
    <3>2. QED
      BY <1>5, <2>2, <3>1
  <2>4. Answers' = {Len(stdout) + 1}
    BY <1>6, <2>2 DEF Fresh
  <2>5. QED
    BY <1>2, <1>6, <2>2, <2>3, <2>4 DEF OneLine, Fresh
<1>12. QED
  BY <1>7, <1>8, <1>10, <1>11 DEF SuiteInv

LEMMA ReadKeeps ==
  ASSUME SuiteInv, Read
  PROVE  SuiteInv'
<1>1. /\ UNCHANGED <<profile, next, clock, pending, awaited, results, skippedCases, credit,
                     outcome, stdout, repeated>>
      /\ outcome = "running" /\ stdin # <<>> /\ stdin' = Tail(stdin)
      /\ read' = Head(stdin) /\ written' = 0
  BY DEF Read, Erratic, OnlyPipes
<1>2. /\ Len(stdin) \in Nat /\ DOMAIN stdin = 1 .. Len(stdin) /\ 1 \in DOMAIN stdin
      /\ read' = stdin[1]
      /\ IsList(stdin') /\ Len(stdin') = Len(stdin) - 1 /\ DOMAIN stdin' = 1 .. Len(stdin) - 1
      /\ \A i \in 1 .. Len(stdin) - 1 : stdin'[i] = stdin[i + 1]
  BY <1>1, ListShortened DEF SuiteInv, SuiteTyped
<1>3. SuiteTyped'
  BY <1>1, <1>2 DEF SuiteInv, SuiteTyped
<1>4. Accounted' /\ Awaiting' /\ CreditedToItsCase' /\ ReportIsComplete'
  BY <1>1, SuiteFrames DEF SuiteInv
<1>5. Timed'
  <2>1. \A i \in DOMAIN stdin' : i + 1 \in DOMAIN stdin /\ stdin'[i] = stdin[i + 1]
    BY <1>2
  <2>2. \A i \in DOMAIN stdin' : stdin'[i].id = <<0, stdin'[i].at>>
    BY <2>1 DEF SuiteInv, Timed
  <2>3. read'.id = <<0, read'.at>>
    BY <1>2 DEF SuiteInv, Timed
  <2>4. QED
    BY <1>1, <2>2, <2>3 DEF SuiteInv, Timed, Answers
<1>6. OneLine'
  <2>1. SUFFICES ASSUME ~repeated PROVE OneLine'
    BY <1>1 DEF OneLine
  <2>2. Len(stdin) = 1 /\ Fresh(stdin[1]) /\ Answers = {}
    BY <1>1, <2>1 DEF SuiteInv, OneLine
  <2>3. stdin' = <<>>
    <3>1. stdin' \in Seq(ToSet(stdin'))
      BY <1>2 DEF IsList
    <3>2. QED
      BY <1>2, <2>2, <3>1
  <2>4. Answers' = {}
    BY <1>1, <2>2 DEF Answers
  <2>5. QED
    BY <1>1, <1>2, <2>2, <2>3, <2>4 DEF OneLine, Fresh
<1>7. QED
  BY <1>3, <1>4, <1>5, <1>6 DEF SuiteInv

LEMMA WriteKeeps ==
  ASSUME SuiteInv, Write
  PROVE  SuiteInv'
<1> PICK line : line = [id |-> read.id, case |-> read.case, at |-> read.at, answer |-> Ok]
  OBVIOUS
<1>1. /\ UNCHANGED <<profile, next, clock, pending, awaited, results, skippedCases, credit,
                     outcome, stdin, read>>
      /\ outcome = "running" /\ read # Nothing
      /\ stdout' = Append(stdout, line)
      /\ written' = 1 /\ repeated' = (repeated \/ written = 1)
  BY DEF Write, Erratic, OnlyPipes
<1>2. line.id = read.id /\ line.case = read.case /\ line.at = read.at
  OBVIOUS
<1>3. /\ IsList(stdout')
      /\ Answers' = Answers \cup IF line.id = Nothing THEN {} ELSE {Len(stdout) + 1}
      /\ \A i \in Answers : stdout'[i] = stdout[i]
      /\ stdout'[Len(stdout) + 1] = line
  BY <1>1, AnswerAppended DEF SuiteInv, SuiteTyped
<1>4. repeated' \in BOOLEAN /\ (repeated => repeated') /\ (~repeated' => ~repeated /\ written # 1)
  BY <1>1 DEF SuiteInv, SuiteTyped
<1>5. SuiteTyped'
  BY <1>1, <1>3, <1>4 DEF SuiteInv, SuiteTyped
<1>6. Accounted' /\ Awaiting' /\ ReportIsComplete'
  BY <1>1, SuiteFrames DEF SuiteInv
<1>7. CreditedToItsCase'
  BY <1>1, <1>4 DEF SuiteInv, CreditedToItsCase
<1>8. Timed'
  BY <1>1, <1>2, <1>3 DEF SuiteInv, Timed
<1>9. OneLine'
  <2>1. SUFFICES ASSUME ~repeated' PROVE OneLine'
    BY DEF OneLine
  <2>2. stdin = <<>> /\ Fresh(line) /\ Answers = {}
    BY <1>1, <1>2, <1>4, <2>1 DEF SuiteInv, OneLine, Fresh
  <2>3. Answers' = {Len(stdout) + 1}
    BY <1>3, <2>2 DEF Fresh
  <2>4. QED
    BY <1>1, <1>3, <2>2, <2>3 DEF OneLine, Fresh
<1>10. QED
  BY <1>5, <1>6, <1>7, <1>8, <1>9 DEF SuiteInv

LEMMA NoiseKeeps ==
  ASSUME SuiteInv, Noise
  PROVE  SuiteInv'
<1> PICK line : line = [id |-> Nothing]
  OBVIOUS
<1>1. /\ UNCHANGED <<profile, next, clock, pending, awaited, results, skippedCases, credit,
                     outcome, stdin, read, written, repeated>>
      /\ stdout' = Append(stdout, line)
  BY DEF Noise, Erratic, OnlyPipes
<1>2. IsList(stdout') /\ Answers' = Answers /\ \A i \in Answers : stdout'[i] = stdout[i]
  <2>1. line.id = Nothing
    OBVIOUS
  <2>2. QED
    BY <1>1, <2>1, AnswerAppended DEF SuiteInv, SuiteTyped
<1>3. SuiteTyped'
  BY <1>1, <1>2 DEF SuiteInv, SuiteTyped
<1>4. Accounted' /\ Awaiting' /\ CreditedToItsCase' /\ ReportIsComplete'
  BY <1>1, SuiteFrames DEF SuiteInv
<1>5. Timed'
  BY <1>1, <1>2 DEF SuiteInv, Timed
<1>6. OneLine'
  BY <1>1, <1>2 DEF SuiteInv, OneLine, Fresh
<1>7. QED
  BY <1>3, <1>4, <1>5, <1>6 DEF SuiteInv

LEMMA SuiteStays ==
  ASSUME SuiteInv, Stop \/ UNCHANGED suiteVars
  PROVE  SuiteInv'
<1>1. UNCHANGED <<profile, next, clock, pending, awaited, stdin, stdout, results,
                  skippedCases, credit, outcome, read, written, repeated>>
  BY DEF Stop, OnlyPipes, suiteVars, runnerVars, erraticVars
<1>2. SuiteTyped'
  BY <1>1 DEF SuiteInv, SuiteTyped
<1>3. QED
  BY <1>1, <1>2, SuiteFrames DEF SuiteInv

LEMMA SuiteInvariant == SuiteSpec => []SuiteInv
<1>1. SuiteInit => SuiteInv
  <2>1. SUFFICES ASSUME SuiteInit PROVE SuiteInv
    OBVIOUS
  <2>2. /\ profile = Nothing /\ next = 1 /\ clock = 0 /\ pending = {} /\ awaited = Nothing
        /\ stdin = <<>> /\ stdout = <<>> /\ results = <<>> /\ skippedCases = <<>>
        /\ credit = Nothing /\ outcome = "running"
        /\ read = Nothing /\ repeated = FALSE
    BY <2>1 DEF SuiteInit, RunnerInit
  <2>3. SuiteTyped
    <3>1. \A S : <<>> \in Seq(S)
      OBVIOUS
    <3>2. next \in 1 .. Len(Cases) + 1
      BY <2>2, SuiteIsList
    <3>3. IsList(stdin) /\ IsList(stdout)
      BY <2>2, <3>1 DEF IsList
    <3>4. QED
      BY <2>2, <3>1, <3>2, <3>3 DEF SuiteTyped
  <2>4. Accounted
    <3>1. DOMAIN results = {} /\ DOMAIN skippedCases = {} /\ 1 .. next - 1 = {}
      BY <2>2
    <3>2. DOMAIN Asked = {}
      BY <3>1 DEF Asked
    <3>3. QED
      BY <2>2, <3>1, <3>2 DEF Accounted, Ascending, ToSet
  <2>5. Awaiting
    BY <2>2 DEF Awaiting
  <2>6. Answers = {} /\ DOMAIN stdin = {}
    BY <2>2 DEF Answers
  <2>7. Timed /\ OneLine
    BY <2>2, <2>6 DEF Timed, OneLine
  <2>8. CreditedToItsCase /\ ReportIsComplete
    BY <2>2 DEF CreditedToItsCase, ReportIsComplete
  <2>9. QED
    BY <2>3, <2>4, <2>5, <2>7, <2>8 DEF SuiteInv
<1>2. SuiteInv /\ [SuiteNext]_suiteVars => SuiteInv'
  <2>1. ASSUME SuiteInv, RunnerStep PROVE SuiteInv'
    <3>1. CASE \E argument \in Argument : ParseArgv(argument)
      BY <2>1, <3>1, ParseArgvKeeps DEF RunnerStep
    <3>2. CASE MainStep
      BY <2>1, <3>2, SkipKeeps, AskKeeps, ReportKeeps DEF RunnerStep, MainStep
    <3>3. CASE Line
      BY <2>1, <3>3, LineDropped, LineCredited DEF RunnerStep
    <3>4. CASE Timeout \/ WriteFails
      BY <2>1, <3>4, ThrownKeeps DEF RunnerStep
    <3>5. QED
      BY <2>1, <3>1, <3>2, <3>3, <3>4 DEF RunnerStep
  <2>2. ASSUME SuiteInv, CandidateStep PROVE SuiteInv'
    BY <2>2, ServeKeeps, ReadKeeps, WriteKeeps, NoiseKeeps, SuiteStays DEF CandidateStep
  <2>3. QED
    BY <2>1, <2>2, SuiteStays DEF SuiteNext
<1>3. QED
  BY <1>1, <1>2, PTL DEF SuiteSpec

(* An answer counts for the case it was written for: only a candidate that *)
(* answers a request twice, within the millisecond in which main asks the  *)
(* next case, has one counted for another (run.mjs 218-232). *)
THEOREM Credits == SuiteSpec => []CreditedToItsCase
<1>1. SuiteInv => CreditedToItsCase
  BY DEF SuiteInv
<1>2. QED
  BY <1>1, SuiteInvariant, PTL

(* A report has every case once and in order, asked if it is of the        *)
(* profile and skipped if not, whatever the candidate did (357-386).       *)
THEOREM Reports == SuiteSpec => []ReportIsComplete
<1>1. SuiteInv => ReportIsComplete
  BY DEF SuiteInv
<1>2. QED
  BY <1>1, SuiteInvariant, PTL

-----------------------------------------------------------------------------
(* Canonical signing *)

NodeType == {"literal", "text", "number", "list", "object"}

(* What stays of a parsed tree however it is carried. *)
Shaped(node) ==
  /\ node.type \in NodeType
  /\ node.type = "number" => IsNumber(node)
  /\ node.type = "object" => node = [type |-> "object", position |-> node.position]

ShapedRecord(v) ==
  /\ <<>> \in DOMAIN v /\ v[<<>>].type = "object"
  /\ \A p \in DOMAIN v : Shaped(v[p])

PortableNumber(by, x) == by = "python" /\ x.integral => Safe(x)

(* The bytes by makes of v, when it does not refuse. *)
Readable(by, v) == SignedPayloadBytes(by, v) # Refused

LEMMA NodeIsShaped ==
  ASSUME NEW node, IsNode(node)
  PROVE  Shaped(node)
BY DEF IsNode, IsNumber, IsObject, Shaped, NodeType

LEMMA RecordIsShaped == \A r \in Record : ShapedRecord(r)
BY SigningAssumption, NodeIsShaped DEF IsTree, ShapedRecord

(* Either implementation writes a number that is not zero in decimal       *)
(* exactly from 1e-6 up to 1e21: a whole number outside is refused. *)
LEMMA NotationAgrees ==
  ASSUME NEW x, IsNumber(x), x.digits # <<>>, NEW by \in Implementation,
         PortableNumber(by, x)
  PROVE  NumberText(by, x) =
           [type |-> "number", negative |-> x.negative, digits |-> x.digits,
            layout |-> IF -6 <= x.exponent /\ x.exponent < 21
                       THEN Decimal(x) ELSE Scientific(x)]
<1>1. x.exponent \in Int /\ Len(x.digits) \in Nat
  BY DEF IsNumber
<1>2. Len(x.digits) >= 1
  BY <1>1 DEF IsNumber
<1>3. CASE by = "python"
  <2>1. x.integral => 0 <= x.exponent /\ x.exponent <= 15
    BY <1>1, <1>2, <1>3 DEF IsNumber, PortableNumber, Safe
  <2>2. PythonNumber(x) = IF -6 <= x.exponent /\ x.exponent < 21
                          THEN Decimal(x) ELSE Scientific(x)
    BY <1>1, <2>1 DEF PythonNumber, ReprIsDecimal
  <2> QED
    BY <1>3, <2>2 DEF NumberText
<1>4. CASE by # "python"
  <2>1. NumberToString(x) = IF -6 <= x.exponent /\ x.exponent < 21
                            THEN Decimal(x) ELSE Scientific(x)
    BY <1>1 DEF NumberToString
  <2> QED
    BY <1>4, <2>1 DEF NumberText
<1> QED
  BY <1>3, <1>4

(* Given the digits, the layout says the exponent. *)
LEMMA LayoutSaysExponent ==
  ASSUME NEW x, IsNumber(x), x.digits # <<>>, NEW y, IsNumber(y),
         x.digits = y.digits,
         (IF -6 <= x.exponent /\ x.exponent < 21 THEN Decimal(x) ELSE Scientific(x))
         = (IF -6 <= y.exponent /\ y.exponent < 21 THEN Decimal(y) ELSE Scientific(y))
  PROVE  x.exponent = y.exponent
<1> DEFINE Layout(n) == IF -6 <= n.exponent /\ n.exponent < 21
                        THEN Decimal(n) ELSE Scientific(n)
<1>1. x.exponent \in Int /\ y.exponent \in Int /\ Len(x.digits) \in Nat
  BY DEF IsNumber
<1>2. Decimal(x).style # "scientific" /\ Decimal(y).style # "scientific"
  BY DEF Decimal
<1>3. CASE Layout(x).style = "scientific"
  <2>1. Layout(x) = Scientific(x) /\ Layout(y) = Scientific(y)
    BY <1>2, <1>3
  <2> QED
    BY <2>1 DEF Scientific
<1>4. CASE Layout(x).style # "scientific"
  <2>1. Layout(x) = Decimal(x) /\ Layout(y) = Decimal(y)
    BY <1>2, <1>4 DEF Scientific
  <2>2. Decimal(x) = Decimal(y)
    BY <2>1
  <2>3. CASE Decimal(x).style = "fraction"
    BY <1>1, <2>2, <2>3 DEF Decimal
  <2>4. CASE Decimal(x).style = "whole"
    BY <1>1, <2>2, <2>4 DEF Decimal
  <2>5. CASE Decimal(x).style = "split"
    BY <1>1, <2>2, <2>5 DEF Decimal
  <2> QED
    BY <2>3, <2>4, <2>5 DEF Decimal
<1> QED
  BY <1>3, <1>4

LEMMA NumbersAgree ==
  ASSUME NEW x, IsNumber(x), NEW y, IsNumber(y),
         NEW by \in Implementation, PortableNumber(by, x),
         NEW other \in Implementation, PortableNumber(other, y)
  PROVE  ContentOf(x) = ContentOf(y) <=> NumberText(by, x) = NumberText(other, y)
<1>0. x.type = "number" /\ y.type = "number"
  BY DEF IsNumber
<1>1. CASE x.digits = <<>> /\ y.digits = <<>>
  BY <1>0, <1>1 DEF ContentOf, NumberText
<1>2. CASE x.digits = <<>> /\ y.digits # <<>>
  BY <1>0, <1>2, NotationAgrees DEF ContentOf, NumberText
<1>3. CASE x.digits # <<>> /\ y.digits = <<>>
  BY <1>0, <1>3, NotationAgrees DEF ContentOf, NumberText
<1>4. CASE x.digits # <<>> /\ y.digits # <<>>
  <2>1. /\ NumberText(by, x) =
             [type |-> "number", negative |-> x.negative, digits |-> x.digits,
              layout |-> IF -6 <= x.exponent /\ x.exponent < 21
                         THEN Decimal(x) ELSE Scientific(x)]
        /\ NumberText(other, y) =
             [type |-> "number", negative |-> y.negative, digits |-> y.digits,
              layout |-> IF -6 <= y.exponent /\ y.exponent < 21
                         THEN Decimal(y) ELSE Scientific(y)]
    BY <1>4, NotationAgrees
  <2>2. /\ ContentOf(x) = [type |-> "number", negative |-> x.negative,
                           digits |-> x.digits, exponent |-> x.exponent]
        /\ ContentOf(y) = [type |-> "number", negative |-> y.negative,
                           digits |-> y.digits, exponent |-> y.exponent]
    BY <1>0, <1>4 DEF ContentOf
  <2>3. ASSUME ContentOf(x) = ContentOf(y)
        PROVE  NumberText(by, x) = NumberText(other, y)
    <3>1. x.negative = y.negative /\ x.digits = y.digits /\ x.exponent = y.exponent
      BY <2>2, <2>3
    <3>2. Decimal(x) = Decimal(y) /\ Scientific(x) = Scientific(y)
      BY <3>1 DEF Decimal, Scientific
    <3> QED
      BY <2>1, <3>1, <3>2
  <2>4. ASSUME NumberText(by, x) = NumberText(other, y)
        PROVE  ContentOf(x) = ContentOf(y)
    <3>1. x.negative = y.negative /\ x.digits = y.digits
      BY <2>1, <2>4
    <3>2. (IF -6 <= x.exponent /\ x.exponent < 21 THEN Decimal(x) ELSE Scientific(x))
          = (IF -6 <= y.exponent /\ y.exponent < 21 THEN Decimal(y) ELSE Scientific(y))
      BY <2>1, <2>4
    <3>3. x.exponent = y.exponent
      BY <1>4, <3>1, <3>2, LayoutSaysExponent
    <3> QED
      BY <2>2, <3>1, <3>3
  <2> QED
    BY <2>3, <2>4
<1> QED
  BY <1>1, <1>2, <1>3, <1>4

LEMMA NodesAgree ==
  ASSUME NEW a, Shaped(a), NEW b, Shaped(b),
         NEW by \in Implementation, a.type = "number" => PortableNumber(by, a),
         NEW other \in Implementation, b.type = "number" => PortableNumber(other, b)
  PROVE  ContentOf(a) = ContentOf(b) <=> CanonicalNode(by, a) = CanonicalNode(other, b)
<1>1. CASE a.type = "number" /\ b.type = "number"
  BY <1>1, NumbersAgree DEF Shaped, CanonicalNode
<1>2. CASE a.type = "object" /\ b.type = "object"
  <2>1. /\ ContentOf(a) = [type |-> "object", names |-> DOMAIN a.position]
        /\ ContentOf(b) = [type |-> "object", names |-> DOMAIN b.position]
    BY <1>2 DEF ContentOf
  <2>2. /\ CanonicalNode(by, a) =
             [type |-> "object", members |-> Sorted(by, DOMAIN a.position)]
        /\ CanonicalNode(other, b) =
             [type |-> "object", members |-> Sorted(other, DOMAIN b.position)]
    BY <1>2 DEF CanonicalNode
  <2>3. Sorted(by, DOMAIN a.position) = Sorted(other, DOMAIN a.position)
    BY DEF Sorted, SortKey
  <2>4. /\ DOMAIN Sorted(by, DOMAIN a.position) = DOMAIN a.position
        /\ DOMAIN Sorted(other, DOMAIN b.position) = DOMAIN b.position
    BY DEF Sorted
  <2> QED
    BY <2>1, <2>2, <2>3, <2>4
<1>3. CASE a.type # b.type
  <2> DEFINE Kind(c) == c.type
  <2>1. ASSUME NEW c, Shaped(c), NEW i
        PROVE  CanonicalNode(i, c).type = c.type
    BY <2>1 DEF Shaped, NodeType, CanonicalNode, NumberText
  <2>2. ASSUME NEW c, Shaped(c)
        PROVE  \/ ContentOf(c).type = c.type
               \/ c.type = "number" /\ ContentOf(c).type = "zero"
    BY <2>2 DEF Shaped, NodeType, ContentOf
  <2> QED
    BY <1>3, <2>1, <2>2 DEF Shaped, NodeType
<1>4. CASE a.type = b.type /\ a.type \notin {"number", "object"}
  BY <1>4 DEF ContentOf, CanonicalNode
<1> QED
  BY <1>1, <1>2, <1>3, <1>4

LEMMA PayloadIsShaped ==
  ASSUME NEW v, ShapedRecord(v)
  PROVE  /\ DOMAIN WithoutFields(v) = {p \in DOMAIN v : Kept(p)}
         /\ \A p \in DOMAIN WithoutFields(v) : Shaped(WithoutFields(v)[p])
<1>1. DOMAIN WithoutFields(v) = {p \in DOMAIN v : Kept(p)}
  BY DEF WithoutFields
<1>2. ASSUME NEW p \in DOMAIN WithoutFields(v)
      PROVE  Shaped(WithoutFields(v)[p])
  <2>1. CASE p = <<>>
    <3>1. WithoutFields(v)[p] =
            [v[p] EXCEPT !.position = Restrict(@, DOMAIN @ \ Envelope)]
      BY <1>1, <2>1 DEF WithoutFields
    <3>2. v[p] = [type |-> "object", position |-> v[p].position]
      BY <1>1, <2>1 DEF ShapedRecord, Shaped
    <3> HIDE DEF WithoutFields
    <3> QED
      BY <3>1, <3>2 DEF Shaped, NodeType
  <2>2. CASE p # <<>>
    BY <1>1, <2>2 DEF WithoutFields, ShapedRecord
  <2> QED
    BY <2>1, <2>2
<1> QED
  BY <1>1, <1>2

(* Two payloads have the same canonical bytes, whoever writes them, exactly *)
(* when they have the same content. *)
LEMMA CanonicalAgrees ==
  ASSUME NEW a, \A p \in DOMAIN a : Shaped(a[p]),
         NEW b, \A p \in DOMAIN b : Shaped(b[p]),
         NEW by \in Implementation, Portable(by, a),
         NEW other \in Implementation, Portable(other, b)
  PROVE  Canonical(by, a) = Canonical(other, b) <=> Content(a) = Content(b)
<1>1. /\ \A p \in DOMAIN a : a[p].type = "number" => PortableNumber(by, a[p])
      /\ \A p \in DOMAIN b : b[p].type = "number" => PortableNumber(other, b[p])
  BY DEF Portable, PortableNumber
<1>2. \A p \in DOMAIN a \cap DOMAIN b :
        ContentOf(a[p]) = ContentOf(b[p])
        <=> CanonicalNode(by, a[p]) = CanonicalNode(other, b[p])
  BY <1>1, NodesAgree
<1>3. Canonical(by, a) = Canonical(other, b)
      <=> /\ DOMAIN a = DOMAIN b
          /\ \A p \in DOMAIN a : CanonicalNode(by, a[p]) = CanonicalNode(other, b[p])
  BY DEF Canonical
<1>4. Content(a) = Content(b)
      <=> /\ DOMAIN a = DOMAIN b
          /\ \A p \in DOMAIN a : ContentOf(a[p]) = ContentOf(b[p])
  BY DEF Content
<1> QED
  BY <1>2, <1>3, <1>4

LEMMA BytesAgree ==
  ASSUME NEW a, ShapedRecord(a), NEW b, ShapedRecord(b),
         NEW by \in Implementation, Readable(by, a),
         NEW other \in Implementation, Readable(other, b)
  PROVE  SignedPayloadBytes(by, a) = SignedPayloadBytes(other, b)
         <=> Content(WithoutFields(a)) = Content(WithoutFields(b))
<1>1. /\ Portable(by, WithoutFields(a)) /\ Portable(other, WithoutFields(b))
      /\ SignedPayloadBytes(by, a) = Canonical(by, WithoutFields(a))
      /\ SignedPayloadBytes(other, b) = Canonical(other, WithoutFields(b))
  BY DEF Readable, SignedPayloadBytes
<1> QED
  BY <1>1, PayloadIsShaped, CanonicalAgrees

(* A signature does not cover the member that carries it. *)
LEMMA SignatureOutsidePayload ==
  ASSUME NEW v, ShapedRecord(v)
  PROVE  /\ ShapedRecord(WithSignature(v))
         /\ WithoutFields(WithSignature(v)) = WithoutFields(v)
<1> DEFINE name == Signature[1]
           place == <<[name |-> name]>>
           w == WithSignature(v)
<1>1. name \in Envelope /\ Shaped(Signature[2])
  BY SigningAssumption, NodeIsShaped
<1>2. place # <<>> /\ ~Kept(place)
  BY <1>1 DEF Kept
<1>3. /\ <<>> \in DOMAIN v
      /\ v[<<>>] = [type |-> "object", position |-> v[<<>>].position]
  BY DEF ShapedRecord, Shaped
<1>4. /\ DOMAIN w = DOMAIN v \cup {place}
      /\ w[<<>>] = [v[<<>>] EXCEPT !.position = WithName(@, name)]
      /\ w[place] = Signature[2]
      /\ \A p \in DOMAIN v \ {<<>>, place} : w[p] = v[p]
  BY <1>2, <1>3 DEF WithSignature
<1> HIDE DEF w, place, name
<1>5. w[<<>>] = [type |-> "object", position |-> WithName(v[<<>>].position, name)]
  BY <1>3, <1>4
<1>6. ShapedRecord(w)
  <2>1. Shaped(w[<<>>])
    BY <1>5 DEF Shaped, NodeType
  <2>2. \A p \in DOMAIN v : Shaped(v[p])
    BY DEF ShapedRecord
  <2> QED
    BY <1>1, <1>2, <1>3, <1>4, <1>5, <2>1, <2>2 DEF ShapedRecord
<1>7. {p \in DOMAIN w : Kept(p)} = {p \in DOMAIN v : Kept(p)}
  BY <1>2, <1>4
<1>8. Restrict(WithName(v[<<>>].position, name),
               DOMAIN WithName(v[<<>>].position, name) \ Envelope)
      = Restrict(v[<<>>].position, DOMAIN v[<<>>].position \ Envelope)
  BY <1>1 DEF Restrict, WithName
<1>9. [w[<<>>] EXCEPT !.position = Restrict(@, DOMAIN @ \ Envelope)]
      = [v[<<>>] EXCEPT !.position = Restrict(@, DOMAIN @ \ Envelope)]
  BY <1>3, <1>5, <1>8
<1>10. \A p \in {q \in DOMAIN v : Kept(q)} : p # <<>> => w[p] = v[p]
  BY <1>2, <1>4
<1>11. WithoutFields(w) = WithoutFields(v)
  BY <1>7, <1>9, <1>10 DEF WithoutFields
<1> QED
  BY <1>6, <1>11 DEF w

(* The order of members is not content. *)
LEMMA OrderIsNotContent ==
  ASSUME NEW v, ShapedRecord(v), NEW q \in DOMAIN v, v[q].type = "object",
         NEW n \in DOMAIN v[q].position, NEW m \in DOMAIN v[q].position
  PROVE  ShapedRecord([v EXCEPT ![q].position = Swapped(@, n, m)])
<1> DEFINE w == [v EXCEPT ![q].position = Swapped(@, n, m)]
<1>1. DOMAIN w = DOMAIN v /\ \A p \in DOMAIN v \ {q} : w[p] = v[p]
  OBVIOUS
<1>2. w[q] = [v[q] EXCEPT !.position = Swapped(@, n, m)]
  OBVIOUS
<1>3. v[q] = [type |-> "object", position |-> v[q].position]
  BY DEF ShapedRecord, Shaped
<1>4. w[q] = [type |-> "object", position |-> Swapped(v[q].position, n, m)]
  BY <1>2, <1>3
<1> HIDE DEF w
<1>5. ShapedRecord(w)
  BY <1>1, <1>4 DEF ShapedRecord, Shaped, NodeType
<1> QED
  BY <1>5 DEF w

(* While a record is carried, the bytes signed are those somebody made of  *)
(* the original, and the last answer was right. *)
SigningInv ==
  /\ original \in Record
  /\ ShapedRecord(record)
  /\ signed = Unsigned => WithoutFields(record) = WithoutFields(original)
  /\ signed \in {Unsigned, Refused} => verified = "pending"
  /\ signed \notin {Unsigned, Refused} =>
       \E by \in Implementation : signed = SignedPayloadBytes(by, original)
  /\ SignedVerifies
  /\ ChangesAreSeen

LEMMA SignRecordKeeps ==
  ASSUME SigningInv, NEW by \in Implementation, SignRecord(by)
  PROVE  SigningInv'
<1>1. /\ signed = Unsigned /\ verified = "pending"
      /\ original' = original /\ verified' = verified
      /\ signed' = SignedPayloadBytes(by, original)
  BY DEF SigningInv, SignRecord, SignedPayloadBytes
<1>2. /\ ShapedRecord(record')
      /\ WithoutFields(record') = WithoutFields(original)
  BY SignatureOutsidePayload DEF SigningInv, SignRecord
<1> QED
  BY <1>1, <1>2 DEF SigningInv, SignedVerifies, ChangesAreSeen

LEMMA ReorderKeeps ==
  ASSUME SigningInv, Reorder
  PROVE  SigningInv'
<1>1. ShapedRecord(record')
  <2>1. PICK q \in DOMAIN record :
          /\ record[q].type = "object"
          /\ \E n, m \in DOMAIN record[q].position :
               record' = [record EXCEPT ![q].position = Swapped(@, n, m)]
    BY DEF Reorder
  <2>2. PICK n \in DOMAIN record[q].position, m \in DOMAIN record[q].position :
          record' = [record EXCEPT ![q].position = Swapped(@, n, m)]
    BY <2>1
  <2>3. ShapedRecord(record)
    BY DEF SigningInv
  <2>4. ShapedRecord([record EXCEPT ![q].position = Swapped(@, n, m)])
    BY <2>1, <2>3, OrderIsNotContent
  <2> QED
    BY <2>2, <2>4
<1>2. /\ UNCHANGED <<original, signed, verified>> /\ verified = "pending"
      /\ signed # Unsigned
  BY DEF Reorder, Carried
<1> QED
  BY <1>1, <1>2 DEF SigningInv, SignedVerifies, ChangesAreSeen

LEMMA ReplaceKeeps ==
  ASSUME SigningInv, NEW other \in Record, Replace(other)
  PROVE  SigningInv'
<1>1. ShapedRecord(record')
  BY RecordIsShaped, SignatureOutsidePayload DEF Replace
<1>2. /\ UNCHANGED <<original, signed, verified>> /\ verified = "pending"
      /\ signed # Unsigned
  BY DEF Replace, Carried
<1> QED
  BY <1>1, <1>2 DEF SigningInv, SignedVerifies, ChangesAreSeen

LEMMA VerifyRecordKeeps ==
  ASSUME SigningInv, NEW by \in Implementation, VerifyRecord(by)
  PROVE  SigningInv'
<1>1. /\ UNCHANGED <<original, record, signed>>
      /\ signed # Unsigned /\ signed # Refused
  BY DEF VerifyRecord, Carried
<1>2. PICK signer \in Implementation : signed = SignedPayloadBytes(signer, original)
  BY <1>1 DEF SigningInv
<1>3. ShapedRecord(record) /\ ShapedRecord(original)
  BY RecordIsShaped DEF SigningInv
<1>4. Readable(signer, original)
  BY <1>1, <1>2 DEF Readable
<1>5. Readable(by, record) => (SignedPayloadBytes(by, record) = signed <=> Unchanged)
  BY <1>2, <1>3, <1>4, BytesAgree DEF Unchanged
<1>6. Unchanged' <=> Unchanged
  BY <1>1 DEF Unchanged
<1>7. /\ verified' = "invalid" => ~Unchanged
      /\ verified' = "valid" => Unchanged
  BY <1>5 DEF VerifyRecord, Readable
<1>8. SignedVerifies' /\ ChangesAreSeen'
  BY <1>6, <1>7 DEF SignedVerifies, ChangesAreSeen
<1> QED
  BY <1>1, <1>8 DEF SigningInv

LEMMA SigningInvariant == SigningSpec => []SigningInv
<1>1. SigningInit => SigningInv
  BY RecordIsShaped DEF SigningInit, SigningInv, SignedVerifies, ChangesAreSeen
<1>2. SigningInv /\ [SigningNext]_signingVars => SigningInv'
  <2> SUFFICES ASSUME SigningInv, [SigningNext]_signingVars
               PROVE  SigningInv'
    OBVIOUS
  <2>1. ASSUME NEW by \in Implementation, SignRecord(by)
        PROVE  SigningInv'
    BY <2>1, SignRecordKeeps
  <2>2. ASSUME NEW by \in Implementation, VerifyRecord(by)
        PROVE  SigningInv'
    BY <2>2, VerifyRecordKeeps
  <2>3. CASE Reorder
    BY <2>3, ReorderKeeps
  <2>4. ASSUME NEW other \in Record, Replace(other)
        PROVE  SigningInv'
    BY <2>4, ReplaceKeeps
  <2>5. CASE UNCHANGED signingVars
    <3>1. UNCHANGED <<original, record, signed, verified>>
      BY <2>5 DEF signingVars
    <3> QED
      BY <3>1 DEF SigningInv, SignedVerifies, ChangesAreSeen, Unchanged
  <2> QED
    BY <2>1, <2>2, <2>3, <2>4, <2>5 DEF SigningNext
<1> QED
  BY <1>1, <1>2, PTL DEF SigningSpec

(* For every record two parsers can return, whichever implementation signs *)
(* and verifies it and however the members of its objects are reordered on *)
(* the way, content that is unchanged is never called invalid              *)
(* (canonical-json.ts 35-64, canonical_json.py 57-126). *)
THEOREM SignaturesHold == SigningSpec => []SignedVerifies
<1>1. SigningInv => SignedVerifies
  BY DEF SigningInv
<1> QED
  BY <1>1, SigningInvariant, PTL

(* For every record that may arrive in the place of another, a signature   *)
(* is called valid only over the content that was signed                   *)
(* (canonical-json.ts 42-62, canonical_json.py 62-125). *)
THEOREM ChangesSeen == SigningSpec => []ChangesAreSeen
<1>1. SigningInv => ChangesAreSeen
  BY DEF SigningInv
<1> QED
  BY <1>1, SigningInvariant, PTL

LEMMA SequenceElements ==
  ASSUME NEW S, NEW a \in Seq(S)
  PROVE  Len(a) \in Nat /\ \A j \in 1 .. Len(a) : a[j] \in S
OBVIOUS

LEMMA SameSequence ==
  ASSUME NEW S, NEW a \in Seq(S), NEW b \in Seq(S), Len(a) = Len(b),
         \A j \in 1 .. Len(a) : a[j] = b[j]
  PROVE  a = b
OBVIOUS

LEMMA UnitsAreSequences == \E S : CodeUnits = Seq(S) /\ S \subseteq Int
<1> DEFINE S == 0 .. 65535
<1>1. CodeUnits = Seq(S)
  BY DEF CodeUnits
<1>2. S \subseteq Int
  OBVIOUS
<1> HIDE DEF S
<1> QED
  BY <1>1, <1>2, Zenon

LEMMA UnitsAreIntegers ==
  \A a \in CodeUnits : Len(a) \in Nat /\ \A j \in 1 .. Len(a) : a[j] \in Int
<1>1. PICK S : CodeUnits = Seq(S) /\ S \subseteq Int
  BY UnitsAreSequences
<1> QED
  BY <1>1, SequenceElements

(* The order of names is that of their first different code unit. *)
LEMMA PrecedesIrreflexive == \A a \in CodeUnits : ~Precedes(a, a)
BY UnitsAreIntegers DEF Precedes

LEMMA PrecedesTransitive ==
  ASSUME NEW a \in CodeUnits, NEW b \in CodeUnits, NEW c \in CodeUnits,
         Precedes(a, b), Precedes(b, c)
  PROVE  Precedes(a, c)
<1>1. PICK i \in 1 .. Len(b) :
        /\ \A j \in 1 .. i - 1 : j <= Len(a) /\ a[j] = b[j]
        /\ i > Len(a) \/ a[i] < b[i]
  BY DEF Precedes
<1>2. PICK k \in 1 .. Len(c) :
        /\ \A j \in 1 .. k - 1 : j <= Len(b) /\ b[j] = c[j]
        /\ k > Len(b) \/ b[k] < c[k]
  BY DEF Precedes
<1>3. /\ Len(a) \in Nat /\ Len(b) \in Nat /\ Len(c) \in Nat
      /\ \A j \in 1 .. Len(a) : a[j] \in Int
      /\ \A j \in 1 .. Len(b) : b[j] \in Int
      /\ \A j \in 1 .. Len(c) : c[j] \in Int
  BY UnitsAreIntegers
<1>4. CASE i < k
  <2>1. i \in 1 .. Len(c) /\ b[i] = c[i]
    BY <1>2, <1>3, <1>4
  <2>2. \A j \in 1 .. i - 1 : j <= Len(a) /\ a[j] = c[j]
    BY <1>1, <1>2, <1>3, <1>4
  <2>3. i > Len(a) \/ a[i] < c[i]
    BY <1>1, <2>1
  <2> QED
    BY <2>1, <2>2, <2>3 DEF Precedes
<1>5. CASE i = k
  <2>1. \A j \in 1 .. i - 1 : j <= Len(a) /\ a[j] = c[j]
    BY <1>1, <1>2, <1>3, <1>5
  <2>2. i > Len(a) \/ a[i] < c[i]
    BY <1>1, <1>2, <1>3, <1>5
  <2> QED
    BY <1>2, <1>5, <2>1, <2>2 DEF Precedes
<1>6. CASE k < i
  <2>1. k <= Len(a) /\ a[k] = b[k] /\ k <= Len(b)
    BY <1>1, <1>2, <1>3, <1>6
  <2>2. \A j \in 1 .. k - 1 : j <= Len(a) /\ a[j] = c[j]
    BY <1>1, <1>2, <1>3, <1>6
  <2>3. a[k] < c[k]
    BY <1>2, <1>3, <2>1
  <2> QED
    BY <1>2, <2>2, <2>3 DEF Precedes
<1> QED
  BY <1>1, <1>2, <1>3, <1>4, <1>5, <1>6

LEMMA PrecedesTotal ==
  ASSUME NEW a \in CodeUnits, NEW b \in CodeUnits, a # b
  PROVE  Precedes(a, b) \/ Precedes(b, a)
<1>1. /\ Len(a) \in Nat /\ Len(b) \in Nat
      /\ \A j \in 1 .. Len(a) : a[j] \in Int
      /\ \A j \in 1 .. Len(b) : b[j] \in Int
  BY UnitsAreIntegers
<1> DEFINE Differ == {i \in Nat \ {0} : i > Len(a) \/ i > Len(b) \/ a[i] # b[i]}
<1>2. Len(a) + 1 \in Differ /\ Differ \subseteq Nat
  BY <1>1
<1>3. PICK i \in Differ : \A j \in Differ : i <= j
  <2> HIDE DEF Differ
  <2> QED
    BY <1>2, LeastExists
<1>4. \A j \in 1 .. i - 1 : j <= Len(a) /\ j <= Len(b) /\ a[j] = b[j]
  BY <1>1, <1>3
<1>5. CASE i <= Len(a) /\ i <= Len(b)
  <2>1. a[i] < b[i] \/ b[i] < a[i]
    BY <1>1, <1>3, <1>5
  <2>2. i \in 1 .. Len(a) /\ i \in 1 .. Len(b)
    BY <1>1, <1>3, <1>5
  <2> HIDE DEF Differ
  <2> QED
    BY <1>4, <2>1, <2>2 DEF Precedes
<1>6. CASE i > Len(a) /\ i <= Len(b)
  <2>1. i \in 1 .. Len(b)
    BY <1>1, <1>3, <1>6
  <2> HIDE DEF Differ
  <2> QED
    BY <1>4, <1>6, <2>1 DEF Precedes
<1>7. CASE i <= Len(a) /\ i > Len(b)
  <2>1. i \in 1 .. Len(a)
    BY <1>1, <1>3, <1>7
  <2> HIDE DEF Differ
  <2> QED
    BY <1>4, <1>7, <2>1 DEF Precedes
<1>8. CASE i > Len(a) /\ i > Len(b)
  <2>1. Len(a) = i - 1 /\ Len(b) = i - 1
    <3>1. i \in Nat \ {0}
      BY <1>3
    <3>2. i - 1 > 0 => i - 1 <= Len(a) /\ i - 1 <= Len(b)
      BY <1>4, <3>1
    <3> QED
      BY <1>1, <1>8, <3>1, <3>2
  <2>2. \A j \in 1 .. Len(a) : a[j] = b[j]
    BY <1>4, <2>1
  <2>3. a = b
    BY <2>1, <2>2, UnitsAreSequences, SameSequence
  <2> QED
    BY <2>3
<1> QED
  BY <1>1, <1>3, <1>5, <1>6, <1>7, <1>8

(* Both implementations write the members of every object in one order:    *)
(* each name has a place of its own among them, and a name is before       *)
(* another exactly when its code units are (canonical-json.ts 56-57,       *)
(* canonical_json.py 57-59, 122). *)
THEOREM MembersAreOrdered ==
  ASSUME NEW names \in SUBSET CodeUnits, IsFiniteSet(names), NEW by \in Implementation
  PROVE  /\ Sorted(by, names) \in [names -> 0 .. Cardinality(names) - 1]
         /\ IsInjective(Sorted(by, names))
         /\ \A n, m \in names :
              Precedes(n, m) <=> Sorted(by, names)[n] < Sorted(by, names)[m]
<1> DEFINE Before(n) == {m \in names : Precedes(m, n)}
           rank == Sorted(by, names)
<1>1. rank = [n \in names |-> Cardinality(Before(n))]
  BY DEF Sorted, SortKey
<1>2. Cardinality(names) \in Nat
  BY FS_CardinalityType
<1>3. \A n \in names : IsFiniteSet(Before(n)) /\ Cardinality(Before(n)) \in Nat
  BY FS_Subset, FS_CardinalityType
<1>4. \A n \in names : rank[n] \in 0 .. Cardinality(names) - 1
  <2> SUFFICES ASSUME NEW n \in names
               PROVE  rank[n] \in 0 .. Cardinality(names) - 1
    OBVIOUS
  <2>1. n \notin Before(n) /\ Before(n) \in SUBSET names
    BY PrecedesIrreflexive
  <2>2. Before(n) # names
    BY <2>1
  <2>3. /\ Cardinality(Before(n)) <= Cardinality(names)
        /\ Cardinality(Before(n)) # Cardinality(names)
    <3> HIDE DEF Before
    <3> QED
      BY <2>1, <2>2, FS_Subset
  <2>4. rank[n] = Cardinality(Before(n))
    BY <1>1
  <2> HIDE DEF Before, rank
  <2> QED
    BY <1>2, <1>3, <2>3, <2>4
<1>5. ASSUME NEW n \in names, NEW m \in names, Precedes(n, m)
      PROVE  rank[n] < rank[m]
  <2>1. Before(n) \in SUBSET Before(m)
    BY <1>5, PrecedesTransitive
  <2>2. n \in Before(m) /\ n \notin Before(n)
    BY <1>5, PrecedesIrreflexive
  <2>3. /\ Cardinality(Before(n)) <= Cardinality(Before(m))
        /\ Cardinality(Before(n)) # Cardinality(Before(m))
    <3> HIDE DEF Before
    <3> QED
      BY <1>3, <2>1, <2>2, FS_Subset
  <2>4. rank[n] = Cardinality(Before(n)) /\ rank[m] = Cardinality(Before(m))
    BY <1>1
  <2> HIDE DEF Before, rank
  <2> QED
    BY <1>3, <2>3, <2>4
<1>6. DOMAIN rank = names
  BY <1>1
<1>7. rank = [n \in names |-> rank[n]]
  BY <1>1
<1> HIDE DEF rank, Before
<1>8. \A n, m \in names : Precedes(n, m) <=> rank[n] < rank[m]
  <2> SUFFICES ASSUME NEW n \in names, NEW m \in names
               PROVE  Precedes(n, m) <=> rank[n] < rank[m]
    OBVIOUS
  <2>1. CASE n = m
    BY <1>2, <1>4, <2>1, PrecedesIrreflexive
  <2>2. CASE n # m
    <3>1. Precedes(n, m) \/ Precedes(m, n)
      BY <2>2, PrecedesTotal
    <3> QED
      BY <1>2, <1>4, <1>5, <3>1
  <2> QED
    BY <2>1, <2>2
<1>9. IsInjective(rank)
  <2>1. ASSUME NEW n \in names, NEW m \in names, rank[n] = rank[m]
        PROVE  n = m
    <3>1. ~(rank[n] < rank[m]) /\ ~(rank[m] < rank[n])
      BY <1>2, <1>4, <2>1
    <3> QED
      BY <1>8, <3>1, PrecedesTotal
  <2> QED
    BY <1>6, <2>1 DEF IsInjective
<1> QED
  BY <1>4, <1>7, <1>8, <1>9 DEF rank

LEMMA NoMoreCodePoints ==
  \A units \in CodeUnits : CodePoints(units) \in Int /\ CodePoints(units) <= Len(units)
<1> SUFFICES ASSUME NEW units \in CodeUnits
             PROVE  CodePoints(units) \in Int /\ CodePoints(units) <= Len(units)
  OBVIOUS
<1> DEFINE Pairs == {i \in 1 .. Len(units) - 1 :
                       units[i] \in HighSurrogate /\ units[i + 1] \in LowSurrogate}
<1>1. Len(units) \in Nat
  BY UnitsAreIntegers
<1>2. Pairs \in SUBSET (1 .. Len(units) - 1) /\ IsFiniteSet(1 .. Len(units) - 1)
  BY <1>1, FS_Interval
<1>3. CodePoints(units) = Len(units) - Cardinality(Pairs)
  BY DEF CodePoints
<1> HIDE DEF Pairs
<1>4. Cardinality(Pairs) \in Nat
  BY <1>2, FS_Subset, FS_CardinalityType
<1> QED
  BY <1>1, <1>3, <1>4

LEMMA StringsAreUnits ==
  ASSUME NEW r \in Record, NEW p \in DOMAIN WithoutFields(r)
  PROVE  Strings(WithoutFields(r)[p]) \subseteq CodeUnits
<1>1. ASSUME NEW node, IsNode(node)
      PROVE  Strings(node) \subseteq CodeUnits
  BY <1>1 DEF IsNode, IsNumber, IsObject, Strings
<1>2. p \in DOMAIN r /\ IsNode(r[p])
  BY SigningAssumption DEF IsTree, WithoutFields
<1>3. CASE p = <<>>
  <2>1. ShapedRecord(r)
    BY RecordIsShaped
  <2>2. r[p] = [type |-> "object", position |-> r[p].position]
    BY <1>3, <2>1 DEF ShapedRecord, Shaped
  <2>3. DOMAIN r[p].position \subseteq CodeUnits
    BY <1>1, <1>2, <2>2 DEF Strings
  <2>4. WithoutFields(r)[p] =
          [r[p] EXCEPT !.position = Restrict(@, DOMAIN @ \ Envelope)]
    BY <1>3 DEF WithoutFields
  <2>5. WithoutFields(r)[p] =
          [type |-> "object",
           position |-> Restrict(r[p].position, DOMAIN r[p].position \ Envelope)]
    BY <2>2, <2>4
  <2> QED
    BY <2>3, <2>5 DEF Strings, Restrict
<1>4. CASE p # <<>>
  <2>1. WithoutFields(r)[p] = r[p]
    BY <1>4 DEF WithoutFields
  <2> QED
    BY <1>1, <1>2, <2>1
<1> QED
  BY <1>3, <1>4

(* The two implementations refuse different records, and this is all the   *)
(* difference: Python a whole number beyond 2^53 - 1 (canonical_json.py    *)
(* 65-68), TypeScript a string that is too long only when the halves of    *)
(* its surrogate pairs are counted (resource-limits.ts 30,                 *)
(* canonical_json.py 23). *)
THEOREM RefusalsDiffer ==
  ASSUME NEW r \in Record
  PROVE  /\ Readable("typescript", r) /\ ~Readable("python", r) =>
              \E p \in DOMAIN WithoutFields(r) :
                /\ WithoutFields(r)[p].type = "number"
                /\ WithoutFields(r)[p].integral /\ ~Safe(WithoutFields(r)[p])
         /\ Readable("python", r) /\ ~Readable("typescript", r) =>
              \E p \in DOMAIN WithoutFields(r) :
                \E units \in Strings(WithoutFields(r)[p]) :
                  CodePoints(units) <= MaxUnits /\ MaxUnits < Len(units)
<1> DEFINE Accepts(by) == /\ WithinLimits(by, WithoutFields(r))
                          /\ Portable(by, WithoutFields(r))
<1>1. "typescript" \in Implementation /\ "python" \in Implementation
  BY DEF Implementation
<1>2. ASSUME NEW by \in Implementation, Readable(by, r),
             NEW other \in Implementation, Accepts(other)
      PROVE  Readable(other, r)
  <2>1. Accepts(by) /\ SignedPayloadBytes(by, r) = Canonical(by, WithoutFields(r))
    BY <1>2 DEF Readable, SignedPayloadBytes
  <2>2. Canonical(by, WithoutFields(r)) = Canonical(other, WithoutFields(r))
    BY <1>2, <2>1, RecordIsShaped, PayloadIsShaped, CanonicalAgrees
  <2>3. SignedPayloadBytes(other, r) = Canonical(other, WithoutFields(r))
    BY <1>2 DEF SignedPayloadBytes
  <2> QED
    BY <1>2, <2>1, <2>2, <2>3 DEF Readable
<1>3. ASSUME NEW by \in Implementation, Readable(by, r)
      PROVE  Accepts(by)
  BY <1>3 DEF Readable, SignedPayloadBytes
<1>4. \A p \in DOMAIN WithoutFields(r) : \A units \in Strings(WithoutFields(r)[p]) :
        /\ Len(units) \in Int /\ CodePoints(units) \in Int
        /\ CodePoints(units) <= Len(units)
  BY StringsAreUnits, NoMoreCodePoints, UnitsAreIntegers
<1>5. MaxUnits \in Nat
  BY SigningAssumption
<1>6. ASSUME Readable("typescript", r), ~Readable("python", r)
      PROVE  \E p \in DOMAIN WithoutFields(r) :
               /\ WithoutFields(r)[p].type = "number"
               /\ WithoutFields(r)[p].integral /\ ~Safe(WithoutFields(r)[p])
  <2>1. Accepts("typescript") /\ ~Accepts("python")
    BY <1>1, <1>2, <1>3, <1>6
  <2>2. WithinLimits("python", WithoutFields(r))
    BY <1>4, <1>5, <2>1 DEF WithinLimits, Length
  <2> QED
    BY <2>1, <2>2 DEF Portable
<1>7. ASSUME Readable("python", r), ~Readable("typescript", r)
      PROVE  \E p \in DOMAIN WithoutFields(r) :
               \E units \in Strings(WithoutFields(r)[p]) :
                 CodePoints(units) <= MaxUnits /\ MaxUnits < Len(units)
  <2>1. Accepts("python") /\ ~Accepts("typescript")
    BY <1>1, <1>2, <1>3, <1>7
  <2>2. ~WithinLimits("typescript", WithoutFields(r))
    BY <2>1 DEF Portable
  <2> QED
    BY <1>4, <1>5, <2>1, <2>2 DEF WithinLimits, Length
<1> QED
  BY <1>6, <1>7

=============================================================================
