------------------------- MODULE MCPresentationExchange -------------------------
(* Two requests of one application and some of another, views that fit and *)
(* views that do not, approvals that narrow, repeat, widen or are empty;   *)
(* and of each one whose times carry an offset.                            *)
EXTENDS PresentationExchange

CONSTANTS ann, bob, shop, other

Apparel == <<"commerce", "apparel">>
Style == <<"commerce", "apparel", "style">>
Contact == <<"identity", "contact">>

Asked(id, origin, nonce, scopes, operations, expiresAt, formatted) ==
  [id |-> id, origin |-> origin, requester |-> origin, nonce |-> nonce,
   purpose |-> "styling", scopes |-> scopes, operations |-> operations,
   issuedAt |-> 0, expiresAt |-> expiresAt, formatted |-> formatted]

MCRequest ==
  { Asked(1, shop, "n1", <<Apparel, Contact>>, <<"evaluate">>, 3, TRUE),
    Asked(2, shop, "n2", <<Apparel>>, <<"evaluate", "personalize">>, 2, TRUE),
    Asked(3, other, "n1", <<Apparel>>, <<"evaluate">>, 3, TRUE),
    Asked(4, other, "n4", <<Apparel, Apparel>>, <<"evaluate">>, 3, TRUE),
    Asked(5, other, "n5", <<Apparel>>, <<"evaluate">>, 0, TRUE),
    Asked(6, other, "n6", <<Apparel>>, <<"evaluate">>, 3, FALSE) }

View(entity, purpose, attributes, expiresAt, formatted) ==
  [entity |-> entity, purpose |-> purpose, attributes |-> attributes,
   createdAt |-> 0, expiresAt |-> expiresAt, formatted |-> formatted]

MCView ==
  { View(ann, "styling", {}, 2, TRUE), View(ann, "styling", {Style}, 2, TRUE),
    View(ann, "styling", {Style, Contact}, 3, TRUE),
    View(ann, "styling", {Style}, 4, TRUE), View(bob, "styling", {Style}, 2, TRUE),
    View(ann, "resale", {Style}, 2, TRUE), View(ann, "styling", {Style}, 2, FALSE) }

MCInput ==
  [view : MCView, principal : {ann},
   scopes : {<<>>, <<Apparel>>, <<Apparel, Apparel>>, <<Contact, Apparel>>, <<Style>>},
   operations : {<<"evaluate">>, <<"personalize">>}, expiresAt : 0 .. 4,
   formatted : BOOLEAN]
=============================================================================
