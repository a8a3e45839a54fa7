------------------------- MODULE VersionNegotiation -------------------------
(***************************************************************************)
(* The version contracts of src/compatibility.ts: which versions a release *)
(* supports, how two versions compare, and what two capability lists       *)
(* negotiate.  Everything is a function of its arguments; nothing is kept. *)
(*                                                                         *)
(* A version is its three numbers and its prerelease tag, or Undefined     *)
(* without one.  Tags are compared by localeCompare, which is given as     *)
(* their order: "draft.10" comes before "draft.2".                         *)
(***************************************************************************)
EXTENDS Integers, Sequences, SequencesExt

CONSTANTS
  Family,
  Supported,          \* EXP_SUPPORTED_VERSIONS: the list of each family
  Collation,          \* the prerelease tags as localeCompare orders them
  Undefined

(* versionCapabilitiesSchema: every family has a list of its own, and      *)
(* names no version twice. *)
Capabilities(lists) ==
  /\ DOMAIN lists = Family
  /\ \A family \in Family : Len(lists[family]) > 0 /\ IsInjective(lists[family])

(* parseVersion *)
Version == [number : [1 .. 3 -> Nat], prerelease : ToSet(Collation) \cup {Undefined}]

ASSUME SupportedAssumption ==
  /\ Capabilities(Supported)
  /\ \A family \in Family : Supported[family] \in Seq(Version)

ASSUME CollationAssumption ==
  /\ Collation \in Seq(ToSet(Collation)) /\ IsInjective(Collation)
  /\ Undefined \notin ToSet(Collation) \cup Version

Rank(tag) == CHOOSE i \in DOMAIN Collation : Collation[i] = tag

LocaleCompare(a, b) == Rank(a) - Rank(b)

(* The first difference that is not zero.  Two equal versions compare as 1,*)
(* since the left one is asked first whether it has a tag. *)
CompareVersions(left, right) ==
  LET differing == {i \in 1 .. 3 : left.number[i] # right.number[i]}
  IN  IF differing # {}
      THEN left.number[Min(differing)] - right.number[Min(differing)]
      ELSE IF left.prerelease = Undefined THEN 1
      ELSE IF right.prerelease = Undefined THEN -1
      ELSE LocaleCompare(left.prerelease, right.prerelease)

SupportsVersion(family, version) == version \in ToSet(Supported[family])

(* The last of the sorted versions, or Undefined: no two of them are equal.*)
LastSorted(versions) ==
  IF versions = {} THEN Undefined
  ELSE CHOOSE v \in versions : \A w \in versions \ {v} : CompareVersions(w, v) < 0

NegotiateVersion(family, localVersions, remoteVersions) ==
  LET local == {v \in ToSet(localVersions) : SupportsVersion(family, v)}
  IN  LastSorted({v \in ToSet(remoteVersions) : v \in local /\ SupportsVersion(family, v)})

-----------------------------------------------------------------------------
(* Properties *)

(* The order of versions: SemVer's but for the tags (SPECIFICATION.md      *)
(* 37-41). *)
Above(v, w) ==
  \/ \E i \in 1 .. 3 :
       v.number[i] > w.number[i] /\ \A j \in 1 .. i - 1 : v.number[j] = w.number[j]
  \/ /\ v.number = w.number /\ w.prerelease # Undefined
     /\ \/ v.prerelease = Undefined
        \/ v.prerelease # Undefined /\ LocaleCompare(v.prerelease, w.prerelease) > 0

(* compareVersions orders different versions, whichever is asked first, so *)
(* the sort has one result (99-106). *)
ComparatorOrders(versions) ==
  \A v, w \in versions : v # w =>
    /\ CompareVersions(v, w) > 0 <=> Above(v, w)
    /\ CompareVersions(v, w) < 0 <=> Above(w, v)
    /\ Above(v, w) <=> ~Above(w, v)

(* What is negotiated is the highest version that both sides name and this *)
(* release has; it is Undefined only when there is none, and a neighbour   *)
(* with the same release reaches the same result from its side (126-136).  *)
NegotiatesHighest(family, l, r) ==
  LET result == NegotiateVersion(family, l, r)
      shared == {v \in ToSet(l) \cap ToSet(r) : SupportsVersion(family, v)}
  IN  /\ result = Undefined <=> shared = {}
      /\ shared # {} => result \in shared /\ \A w \in shared \ {result} : Above(result, w)
      /\ NegotiateVersion(family, r, l) = result

=============================================================================
