----------------------------- MODULE CanonicalJson -----------------------------
(***************************************************************************)
(* Canonical signing: src/canonical-json.ts with src/resource-limits.ts,   *)
(* and implementations/python/canonical_json.py.  A record is signed by    *)
(* one implementation over the canonical bytes of all but its envelope,    *)
(* carried by something that may write its members in another order, and   *)
(* verified by either.  Canonical bytes are modelled up to what decides    *)
(* them: member order, the text of a number, what is refused.              *)
(*                                                                         *)
(* A parsed value is a tree, a function from the places of its parts to    *)
(* nodes.  A place is the sequence of steps that leads to it, [name |-> n] *)
(* into an object and [index |-> i] into a list.  A node is                *)
(*   [type |-> "literal", value]         null, true, false                 *)
(*   [type |-> "text", units]            UTF-16 code units                 *)
(*   [type |-> "number", negative, digits, exponent, integral]             *)
(*        the shortest digits of a double, d.ddd * 10^exponent; integral   *)
(*        when it was written without point and exponent                   *)
(*   [type |-> "list", size]                                               *)
(*   [type |-> "object", position]       where each name was written       *)
(* What the code does to each part as it recurses is said of each place.   *)
(* The limit of the encoded payload in bytes and the escapes inside a      *)
(* string are left out: both sides have the same ones.                     *)
(***************************************************************************)
EXTENDS Integers, Sequences, FiniteSets, Functions

CONSTANTS
  Record,             \* objects to be signed
  Envelope,           \* names of the members a signature does not cover
  Signature,          \* the member a signer adds: <<name, node>>
  Unsigned,
  Refused,            \* the implementation raised an error
  MaxDepth, MaxItems, MaxUnits    \* EXP_RESOURCE_LIMITS, MAX_...

VARIABLES
  original,           \* ghost: what was signed
  record,             \* the record as it is carried
  signed,             \* the bytes the signature is over
  verified

signingVars == <<original, record, signed, verified>>

Implementation == {"typescript", "python"}

-----------------------------------------------------------------------------
(* What JSON.parse and json.loads return *)

IsContainer(node) == node.type \in {"list", "object"}

CodeUnits == Seq(0 .. 65535)

(* A whole number ends before the point. *)
IsNumber(x) ==
  /\ x \in [type : {"number"}, negative : BOOLEAN, digits : Seq(0 .. 9),
            exponent : Int, integral : BOOLEAN]
  /\ x.integral => x.exponent >= Len(x.digits) - 1

(* No name is written twice. *)
IsObject(node) ==
  /\ node.type = "object"
  /\ node = [type |-> "object", position |-> node.position]
  /\ IsFiniteSet(DOMAIN node.position) /\ DOMAIN node.position \subseteq CodeUnits
  /\ IsInjective(node.position)

IsNode(node) ==
  \/ node \in [type : {"literal"}, value : {"null", "true", "false"}]
  \/ node \in [type : {"text"}, units : CodeUnits]
  \/ IsNumber(node)
  \/ node \in [type : {"list"}, size : Nat]
  \/ IsObject(node)

Steps(node) ==
  CASE node.type = "list"   -> {[index |-> i] : i \in 1 .. node.size}
    [] node.type = "object" -> {[name |-> n] : n \in DOMAIN node.position}
    [] OTHER                -> {}

(* The places are the root and every step from a place. *)
IsTree(v) ==
  /\ DOMAIN v = {<<>>} \cup UNION {{Append(p, s) : s \in Steps(v[p])} : p \in DOMAIN v}
  /\ \A p \in DOMAIN v : IsNode(v[p])

ASSUME SigningAssumption ==
  /\ \A r \in Record : IsTree(r) /\ r[<<>>].type = "object"
  /\ Signature[1] \in CodeUnits \cap Envelope
  /\ IsNode(Signature[2]) /\ ~IsContainer(Signature[2])
  /\ {MaxDepth, MaxItems, MaxUnits} \subseteq Nat

-----------------------------------------------------------------------------
(* Strings *)

HighSurrogate == 55296 .. 56319

LowSurrogate == 56320 .. 57343

WellFormed(units) ==
  \A i \in DOMAIN units :
    /\ units[i] \in HighSurrogate => i < Len(units) /\ units[i + 1] \in LowSurrogate
    /\ units[i] \in LowSurrogate => i > 1 /\ units[i - 1] \in HighSurrogate

CodePoints(units) ==
  Len(units) - Cardinality({i \in 1 .. Len(units) - 1 :
                              units[i] \in HighSurrogate /\ units[i + 1] \in LowSurrogate})

(* value.length of a JavaScript string, len of a Python string. *)
Length(by, units) == IF by = "python" THEN CodePoints(units) ELSE Len(units)

(* Mutant: names are ordered by Unicode scalar values. *)
SortKeyScalar(by, units) ==
  [i \in DOMAIN units |->
     IF by = "python" /\ units[i] \in HighSurrogate THEN units[i] + 65536 ELSE units[i]]

(* The order of JavaScript strings; the utf-16-be bytes in Python. *)
SortKey(by, units) == units

Precedes(a, b) ==
  \E i \in 1 .. Len(b) :
    /\ \A j \in 1 .. i - 1 : j <= Len(a) /\ a[j] = b[j]
    /\ i > Len(a) \/ a[i] < b[i]

-----------------------------------------------------------------------------
(* Numbers *)

MaxSafeInteger == <<9, 0, 0, 7, 1, 9, 9, 2, 5, 4, 7, 4, 0, 9, 9, 1>>

Safe(x) ==
  \/ x.exponent < 15
  \/ x.exponent = 15 /\ ~Precedes(MaxSafeInteger, x.digits)

(* Mutant: a whole number loses its zeros. *)
DecimalUnpadded(x) ==
  LET position == x.exponent + 1 IN
  IF position <= 0 THEN [style |-> "fraction", zeros |-> -position]
  ELSE [style |-> "split", point |-> IF position < Len(x.digits) THEN position ELSE 0]

Decimal(x) ==
  LET position == x.exponent + 1 IN
  IF position <= 0 THEN [style |-> "fraction", zeros |-> -position]
  ELSE IF position >= Len(x.digits)
       THEN [style |-> "whole", zeros |-> position - Len(x.digits)]
       ELSE [style |-> "split", point |-> position]

Scientific(x) == [style |-> "scientific", exponent |-> x.exponent]

(* JSON.stringify of a number: decimal from 1e-6 up to 1e21. *)
NumberToString(x) ==
  IF -6 < x.exponent + 1 /\ x.exponent + 1 <= 21 THEN Decimal(x) ELSE Scientific(x)

(* Python's repr of a float. *)
ReprIsDecimal(x) == -4 <= x.exponent /\ x.exponent < 16

(* str of an int; repr of a float, its point and zeros rearranged. *)
PythonNumber(x) ==
  IF x.integral \/ ReprIsDecimal(x) \/ (-6 <= x.exponent /\ x.exponent < 21)
  THEN Decimal(x) ELSE Scientific(x)

NumberText(by, x) ==
  IF x.digits = <<>> THEN [type |-> "number", digits |-> <<>>]
  ELSE [type |-> "number", negative |-> x.negative, digits |-> x.digits,
        layout |-> IF by = "python" THEN PythonNumber(x) ELSE NumberToString(x)]

-----------------------------------------------------------------------------
(* Values *)

Size(node) == IF node.type = "list" THEN node.size ELSE Cardinality(DOMAIN node.position)

Strings(node) ==
  CASE node.type = "text"   -> {node.units}
    [] node.type = "object" -> DOMAIN node.position
    [] OTHER                -> {}

(* walk, _resource_check: the depth of a part is the length of its place. *)
WithinLimits(by, v) ==
  \A p \in DOMAIN v :
    /\ \A units \in Strings(v[p]) : Length(by, units) <= MaxUnits
    /\ IsContainer(v[p]) => Len(p) <= MaxDepth /\ Size(v[p]) <= MaxItems

(* What canonicalizeValue and canonical_json do not throw at. *)
Portable(by, v) ==
  \A p \in DOMAIN v :
    /\ \A units \in Strings(v[p]) : WellFormed(units)
    /\ v[p].type = "number" /\ by = "python" /\ v[p].integral => Safe(v[p])

(* The place of each name in the sorted list: how many come before it. *)
Sorted(by, names) ==
  [n \in names |-> Cardinality({m \in names : Precedes(SortKey(by, m), SortKey(by, n))})]

CanonicalNode(by, node) ==
  CASE node.type = "number" -> NumberText(by, node)
    [] node.type = "object" ->
         [type |-> "object", members |-> Sorted(by, DOMAIN node.position)]
    [] OTHER -> node

Canonical(by, v) == [p \in DOMAIN v |-> CanonicalNode(by, v[p])]

Kept(p) == p # <<>> => p[1].name \notin Envelope

WithoutFields(v) ==
  [p \in {q \in DOMAIN v : Kept(q)} |->
     IF p = <<>> THEN [v[p] EXCEPT !.position = Restrict(@, DOMAIN @ \ Envelope)] ELSE v[p]]

SignedPayloadBytes(by, v) ==
  LET payload == WithoutFields(v) IN
  IF WithinLimits(by, payload) /\ Portable(by, payload)
  THEN Canonical(by, payload) ELSE Refused

-----------------------------------------------------------------------------
(* A signer, a carrier and a verifier *)

SigningInit ==
  /\ original \in Record
  /\ record = original
  /\ signed = Unsigned
  /\ verified = "pending"

WithName(position, name) ==
  [n \in DOMAIN position \cup {name} |->
     IF n \in DOMAIN position THEN position[n] ELSE Cardinality(DOMAIN position) + 1]

WithSignature(v) ==
  LET place == <<[name |-> Signature[1]]>>
  IN  [p \in DOMAIN v \cup {place} |->
         CASE p = <<>>  -> [v[p] EXCEPT !.position = WithName(@, Signature[1])]
           [] p = place -> Signature[2]
           [] OTHER     -> v[p]]

SignRecord(by) ==
  /\ signed = Unsigned
  /\ signed' = SignedPayloadBytes(by, record)
  /\ record' = IF signed' = Refused THEN record ELSE WithSignature(record)
  /\ UNCHANGED <<original, verified>>

Carried == signed \notin {Unsigned, Refused} /\ verified = "pending"

Swapped(position, n, m) == [position EXCEPT ![n] = position[m], ![m] = position[n]]

(* The order of members is the carrier's. *)
Reorder ==
  /\ Carried
  /\ \E p \in DOMAIN record :
       /\ record[p].type = "object"
       /\ \E n, m \in DOMAIN record[p].position :
            record' = [record EXCEPT ![p].position = Swapped(@, n, m)]
  /\ UNCHANGED <<original, signed, verified>>

(* Another record arrives with this signature. *)
Replace(other) ==
  /\ Carried
  /\ record' = WithSignature(other)
  /\ UNCHANGED <<original, signed, verified>>

VerifyRecord(by) ==
  /\ Carried
  /\ LET bytes == SignedPayloadBytes(by, record) IN
       verified' = IF bytes = Refused THEN "refused"
                   ELSE IF bytes = signed THEN "valid" ELSE "invalid"
  /\ UNCHANGED <<original, record, signed>>

SigningNext ==
  \/ \E by \in Implementation : SignRecord(by) \/ VerifyRecord(by)
  \/ Reorder
  \/ \E other \in Record : Replace(other)

SigningSpec == SigningInit /\ [][SigningNext]_signingVars

-----------------------------------------------------------------------------
(* Properties *)

(* What a JSON value is: members have no order, a number is its value. *)
ContentOf(node) ==
  CASE node.type = "number" ->
         IF node.digits = <<>> THEN [type |-> "zero"]
         ELSE [type |-> "number", negative |-> node.negative,
               digits |-> node.digits, exponent |-> node.exponent]
    [] node.type = "object" -> [type |-> "object", names |-> DOMAIN node.position]
    [] OTHER -> node

Content(v) == [p \in DOMAIN v |-> ContentOf(v[p])]

Unchanged == Content(WithoutFields(record)) = Content(WithoutFields(original))

(* A record that arrives with the content that was signed never fails its  *)
(* signature, whichever implementation signed and verifies it and however  *)
(* its members are ordered; the verifier may refuse to read it             *)
(* (canonical-json.ts 35-64, canonical_json.py 57-126). *)
SignedVerifies == verified = "invalid" => ~Unchanged

(* A record whose content differs in anything but the envelope never       *)
(* passes: canonical bytes of either implementation determine the value    *)
(* (canonical-json.ts 42-62, canonical_json.py 62-125). *)
ChangesAreSeen == verified = "valid" => Unchanged

=============================================================================
