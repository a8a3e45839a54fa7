----------------------------- MODULE EntityView -----------------------------
(***************************************************************************)
(* The projection of a principal's model into a purpose-specific view      *)
(* (src/entity-model.ts, materializeEntityView and ruleFor) and the scope  *)
(* test of wallet.ts (scopeAllows).                                        *)
(*                                                                         *)
(* A namespace is a dotted name; the code compares it for equality or for  *)
(* a prefix followed by a dot, and orders prefixes of one namespace by     *)
(* their length.  As the sequence of its segments that is the prefix       *)
(* relation and the number of segments.                                    *)
(***************************************************************************)
EXTENDS Integers, Sequences, SequencesExt

(* A name is not empty; whether it is dotted well is not looked at. *)
Name == Seq(STRING) \ {<<>>}

Action == {"omit", "consented", "public", "sealed"}

Rule == [prefix : Name, action : Action]

(* Both tests of the code, namespace === scope and startsWith. *)
Under(namespace, scope) == IsPrefix(scope, namespace)

(* The places of the rules for a namespace: filter. *)
RulesFor(namespace, rules) == {i \in DOMAIN rules : Under(namespace, rules[i].prefix)}

(* Mutant: the order of the rules decides, not how specific they are. *)
FirstRuleFor(namespace, rules) ==
  {rules[i] : i \in {k \in RulesFor(namespace, rules) :
                       \A j \in RulesFor(namespace, rules) : k <= j}}

(* A stable sort by descending length, and its first element. *)
RuleFor(namespace, rules) ==
  LET IsFirst(i) ==
        \A j \in RulesFor(namespace, rules) :
          \/ Len(rules[j].prefix) < Len(rules[i].prefix)
          \/ Len(rules[j].prefix) = Len(rules[i].prefix) /\ i <= j
  IN {rules[i] : i \in {k \in RulesFor(namespace, rules) : IsFirst(k)}}

(* What the view says of an attribute; one that is not confirmed, without  *)
(* a rule or omitted leaves only its namespace behind. *)
Projected(attribute, rules) ==
  {[id |-> attribute.id, namespace |-> attribute.namespace,
    disclosure |-> r.action,
    plain |-> r.action # "sealed"] :
     r \in {q \in RuleFor(attribute.namespace, rules) :
              attribute.state = "confirmed" /\ q.action # "omit"}}

Materialize(model, definition) ==
  [entity     |-> model.entity,
   purpose    |-> definition.purpose,
   expiresAt  |-> definition.expiresAt,
   attributes |-> UNION {Projected(a, definition.rules) : a \in model.attributes},
   omitted    |-> {a.namespace : a \in {b \in model.attributes :
                                          Projected(b, definition.rules) = {}}}]

-----------------------------------------------------------------------------
(* The reference: the rule of the nearest ancestor that has one, the first *)
(* given when it has several; an attribute without any is omitted.         *)

Ancestors(namespace) == {SubSeq(namespace, 1, n) : n \in 1..Len(namespace)}

ActionAt(prefix, rules) ==
  rules[CHOOSE i \in DOMAIN rules :
          /\ rules[i].prefix = prefix
          /\ \A j \in DOMAIN rules : rules[j].prefix = prefix => i <= j].action

GoverningAction(namespace, rules) ==
  LET ruled == {p \in Ancestors(namespace) :
                  \E i \in DOMAIN rules : rules[i].prefix = p}
  IN IF ruled = {} THEN "omit"
     ELSE ActionAt(CHOOSE p \in ruled : \A q \in ruled : Len(q) <= Len(p), rules)
=============================================================================
