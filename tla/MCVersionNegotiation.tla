------------------------ MODULE MCVersionNegotiation ------------------------
(* The versions around one release with two families: the same numbers     *)
(* with and without a tag, tags that localeCompare and their numbers order *)
(* differently, one version that only a neighbour has.                     *)
EXTENDS VersionNegotiation

Numbered(number, prerelease) == [number |-> number, prerelease |-> prerelease]

MCFamily == {"protocol", "trust"}

MCCollation == <<"draft.1", "draft.10", "draft.2">>

Released == Numbered(<<0, 1, 0>>, Undefined)
Drafts == [i \in 1 .. 3 |-> Numbered(<<0, 1, 0>>, MCCollation[i])]
Next010 == Numbered(<<0, 2, 0>>, "draft.1")
Major == Numbered(<<1, 0, 0>>, Undefined)

MCSupported ==
  [family \in MCFamily |->
     IF family = "protocol" THEN <<Released, Next010>> ELSE Drafts \o <<Released>>]

Versions == {Released, Next010, Major} \cup ToSet(Drafts)

Offers == {offer \in SeqOf(Versions, 3) : IsInjective(offer)} \cup {<<Major, Released, Released>>}

ASSUME ComparatorIsAnOrder == ComparatorOrders(Versions)

ASSUME NegotiatesTheHighest ==
  \A family \in MCFamily, l, r \in Offers : NegotiatesHighest(family, l, r)

=============================================================================
