--------------------------- MODULE MCCanonicalJson ---------------------------
(* Names and strings around the surrogates, numbers around every change of *)
(* notation and the largest safe integer, containers at and beyond their   *)
(* limits.  The instance of the other pure contract, VersionNegotiation,   *)
(* is evaluated with it. *)
EXTENDS CanonicalJson, MCVersionNegotiation

Latin == <<97>>
Astral == <<55357, 56832>>
Private == <<64256>>
Lone == <<55357>>
SignatureName == <<115>>

(* Values are put together from their parts: Leaf, List and Object give    *)
(* the tree of a value from those of the values in it. *)
Leaf(node) == [p \in {<<>>} |-> node]

Nested(root, parts) ==
  [p \in {<<>>} \cup UNION {{<<s>> \o q : q \in DOMAIN parts[s]} : s \in DOMAIN parts} |->
     IF p = <<>> THEN root ELSE parts[Head(p)][Tail(p)]]

List(items) ==
  LET step == {[index |-> i] : i \in DOMAIN items}
  IN  Nested([type |-> "list", size |-> Len(items)], [s \in step |-> items[s.index]])

Object(members) ==
  LET names == {members[i][1] : i \in DOMAIN members}
      at(n) == CHOOSE i \in DOMAIN members : members[i][1] = n
  IN  Nested([type |-> "object", position |-> [n \in names |-> at(n)]],
             [s \in {[name |-> n] : n \in names} |-> members[at(s.name)][2]])

Text(units) == [type |-> "text", units |-> units]

Texted == {Leaf(Text(u)) : u \in {Latin, Astral, Lone, <<56832>>, <<97, 97>>,
                                  <<97, 97, 97>>, <<55357, 56832, 97>>}}

Literals == {Leaf([type |-> "literal", value |-> w]) : w \in {"null", "true", "false"}}

Number(negative, digits, exponent, integral) ==
  Leaf([type |-> "number", negative |-> negative, digits |-> digits,
        exponent |-> exponent, integral |-> integral])

Numbers ==
  {Number(FALSE, d, e, FALSE) : d \in {<<1>>, <<1, 5>>},
                                e \in {-8, -7, -6, -5, -4, -1, 0, 1, 15, 16, 20, 21, 22}}
  \cup {Number(TRUE, <<1, 5>>, e, TRUE) : e \in {1, 15, 16, 20}}
  \cup {Number(n, <<>>, 0, i) : n \in BOOLEAN, i \in BOOLEAN}
  \cup {Number(FALSE, MaxSafeInteger, 15, TRUE),
        Number(FALSE, [MaxSafeInteger EXCEPT ![16] = 2], 15, TRUE),
        Number(FALSE, [MaxSafeInteger EXCEPT ![16] = 2], 15, FALSE)}

One == Number(FALSE, <<1>>, 0, TRUE)
Letter == Leaf(Text(Latin))

Pair == Object(<< <<Astral, One>>, <<Private, Letter>> >>)

Containers ==
  { List(<<>>), List(<<One, Letter>>), List(<<Letter, One>>), List(<<One, One, One>>),
    Object(<<>>), Pair, Object(<< <<Private, Letter>>, <<Latin, One>> >>),
    Object(<< <<Latin, List(<<One>>)>> >>), Object(<< <<Latin, List(<<List(<<>>)>>)>> >>),
    Object(<< <<Lone, One>> >>) }

MCRecord ==
  {Object(<< <<Latin, v>> >>) : v \in Texted \cup Literals \cup Numbers \cup Containers}
  \cup {Object(<< <<n, One>>, <<m, v>> >>) :
          n \in {Astral}, m \in {Private, Latin, <<97, 97>>}, v \in {One, Letter, Pair}}
  \cup {Object(<<>>), Object(<< <<Astral, One>>, <<Private, One>>, <<Latin, One>> >>)}

MCSignature == <<SignatureName, Text(Latin)>>
MCEnvelope == {SignatureName}
=============================================================================
