------------------------------ MODULE MCWallet ------------------------------
(* Small sets for Wallet: an application that asks for two scopes, three   *)
(* connect bodies that must be refused, two models, rules that overlap.    *)
EXTENDS Wallet

CONSTANTS ann, shop, other

Apparel == <<"commerce", "apparel">>
Style == <<"commerce", "apparel", "style">>
Contact == <<"identity", "contact">>

MCUri == { [valid |-> TRUE, secure |-> TRUE, origin |-> shop],
           [valid |-> TRUE, secure |-> FALSE, origin |-> shop],
           [valid |-> FALSE, secure |-> FALSE, origin |-> None] }

Asked(origin, callback, trusted) ==
  [origin |-> origin, callback |-> callback, trusted |-> trusted,
   purpose |-> "styling", scopes |-> {Apparel, Contact},
   operations |-> {"evaluate", "personalize"}, expiresAt |-> 3]

MCConnect == { Asked(shop, shop, TRUE), Asked(shop, shop, FALSE),
               Asked(other, other, TRUE), Asked(shop, other, TRUE) }

Attribute(id, namespace, state) == [id |-> id, namespace |-> namespace, state |-> state]

MCModel ==
  { [entity |-> ann, attributes |-> {Attribute(1, Style, "confirmed"), Attribute(2, Contact, "confirmed")}],
    [entity |-> ann, attributes |-> {Attribute(1, Style, "confirmed"), Attribute(2, Contact, "unconfirmed")}] }

Ruled(prefix, action) == [prefix |-> prefix, action |-> action]

Defined(rules) == [purpose |-> "styling", expiresAt |-> 3, rules |-> rules]

MCDefinition ==
  { Defined(<<Ruled(<<"commerce">>, "public"), Ruled(Apparel, "sealed"), Ruled(Contact, "omit")>>),
    Defined(<<Ruled(Style, "consented"), Ruled(Style, "omit"), Ruled(Contact, "sealed")>>),
    Defined(<<Ruled(<<"identity">>, "public")>>) }

MCApproval ==
  [principal : {ann}, scopes : {{Apparel}, {Apparel, Contact}, {<<"health">>}},
   operations : {{"evaluate"}}, expiresAt : {3}]
  \cup [principal : {shop}, scopes : {{Apparel}}, operations : {{"evaluate"}},
        expiresAt : {3}]
  \cup [principal : {ann}, scopes : {{Apparel, Contact}}, operations : {{"evaluate"}},
        expiresAt : {4}]
=============================================================================
