-------------------------- MODULE PresentationExchange --------------------------
(***************************************************************************)
(* Two wallets and an application.  build_presentation of                  *)
(* implementations/python/exp_wallet.py and createPresentation of          *)
(* src/wallet-sdk.ts each decide by themselves whether to sign; whatever   *)
(* was signed reaches, later, an application that calls                    *)
(* validateWalletPresentation of src/wallet.ts with one of the requests it *)
(* stored.  Lists that a schema cannot keep free of duplicates are         *)
(* sequences.  Times are instants in whole milliseconds, and how they and  *)
(* the other strings are written is one flag, formatted: whether zod takes *)
(* them.  exp_wallet.py checks the published schemas without the optional  *)
(* format checkers of jsonschema, and reads "+00:00" as well as "Z".  A    *)
(* record that fails both schemas, and the signature, are left out.        *)
(***************************************************************************)
EXTENDS EntityView, Functions

CONSTANTS
  Request,            \* connect requests, see MCPresentationExchange
  Input,              \* view and approval a wallet is run with
  None,
  MaxTime             \* bound: the clock runs from 0 to MaxTime

(* Identifiers are UUIDs. *)
ASSUME PresentationAssumption ==
  /\ MaxTime \in Nat
  /\ \A r, s \in Request : r.id = s.id => r = s
  /\ \A r \in Request : r.expiresAt \in Int /\ r.formatted \in BOOLEAN
  /\ \A in \in Input : /\ in.expiresAt \in Int
                     /\ {in.formatted, in.view.formatted} \subseteq BOOLEAN

VARIABLES
  now,
  presentation,       \* what a wallet signed
  builtFor,           \* ghost: the request it was signed for
  verdict             \* the application's last answer

vars == <<now, presentation, builtFor, verdict>>

(* require_unique; new Set(list).size === list.length *)
Unique(list) == IsInjective(list)

Within(list, other) == ToSet(list) \subseteq ToSet(other)

(* Every attribute of the view lies under an approved scope. *)
Covered(view, scopes) ==
  \A namespace \in view.attributes : \E s \in ToSet(scopes) : Under(namespace, s)

(* The refinement of walletConnectRequestSchema, which build_presentation  *)
(* has as checks of its own. *)
WellFormedRequest(r) ==
  /\ r.issuedAt < r.expiresAt
  /\ Unique(r.scopes) /\ Unique(r.operations)

PresentationFor(r, in) ==
  [requestId |-> r.id, audience |-> r.origin, nonce |-> r.nonce, view |-> in.view,
   principal |-> in.principal, requester |-> r.requester, purpose |-> r.purpose,
   scopes |-> in.scopes, operations |-> in.operations,
   issuedAt |-> now, expiresAt |-> in.expiresAt,
   formatted |-> in.formatted /\ in.view.formatted]

-----------------------------------------------------------------------------
(* validateWalletPresentation *)

(* walletPresentationSchema, walletConsentReceiptSchema, their refinements *)
WellFormedPresentation(p) ==
  /\ p.formatted
  /\ p.issuedAt < p.expiresAt
  /\ p.scopes # <<>> /\ p.operations # <<>>
  /\ Unique(p.scopes) /\ Unique(p.operations)

(* Mutant: the request is recognized by its origin. *)
BoundToOrigin(p, r) == p.audience = r.origin /\ p.requester = r.requester

BoundTo(p, r) ==
  /\ p.requestId = r.id
  /\ p.audience = r.origin
  /\ p.nonce = r.nonce
  /\ p.requester = r.requester
  /\ p.principal = p.view.entity
  /\ p.purpose = r.purpose /\ p.view.purpose = r.purpose

Lasts(p, r) ==
  /\ now < r.expiresAt
  /\ now < p.expiresAt
  /\ p.expiresAt <= r.expiresAt

ValidateWalletPresentation(p, r) ==
  /\ r.formatted /\ WellFormedRequest(r)
  /\ WellFormedPresentation(p)
  /\ BoundTo(p, r)
  /\ Lasts(p, r)
  /\ Within(p.scopes, r.scopes)
  /\ Within(p.operations, r.operations)
  /\ Covered(p.view, p.scopes)

-----------------------------------------------------------------------------
(* build_presentation *)

(* Mutant: a presentation may outlive its request. *)
PythonExpiryUnbounded(r, in) == now <= in.expiresAt

(* A presentation may expire at the instant it is issued. *)
PythonExpiry(r, in) == now <= in.expiresAt /\ in.expiresAt <= r.expiresAt

PythonSigns(r, in) ==
  /\ WellFormedRequest(r)
  /\ now < r.expiresAt
  /\ Unique(in.scopes) /\ Unique(in.operations)
  /\ Within(in.scopes, r.scopes)
  /\ Within(in.operations, r.operations)
  /\ Covered(in.view, in.scopes)
  /\ in.view.entity = in.principal
  /\ in.view.purpose = r.purpose
  /\ in.view.createdAt < in.view.expiresAt
  /\ in.view.expiresAt <= r.expiresAt
  /\ PythonExpiry(r, in)
  /\ in.scopes # <<>> /\ in.operations # <<>>

(* createPresentation: Within is APPROVAL_EXCEEDS_REQUEST. *)
TypeScriptSigns(r, in) ==
  /\ Within(in.scopes, r.scopes)
  /\ Within(in.operations, r.operations)
  /\ ValidateWalletPresentation(PresentationFor(r, in), r)

-----------------------------------------------------------------------------

Init ==
  /\ now = 0
  /\ presentation = None
  /\ builtFor = None
  /\ verdict = None

Sign(r, in) ==
  /\ presentation = None
  /\ \/ PythonSigns(r, in)
     \/ TypeScriptSigns(r, in)
  /\ presentation' = PresentationFor(r, in)
  /\ builtFor' = r
  /\ UNCHANGED <<now, verdict>>

Validate(r) ==
  /\ presentation # None
  /\ verdict' = [request |-> r, at |-> now,
                 accepted |-> ValidateWalletPresentation(presentation, r)]
  /\ UNCHANGED <<now, presentation, builtFor>>

Tick ==
  /\ now < MaxTime
  /\ now' = now + 1
  /\ UNCHANGED <<presentation, builtFor, verdict>>

Next ==
  \/ \E r \in Request, in \in Input : Sign(r, in)
  \/ \E r \in Request : Validate(r)
  \/ Tick

Spec == Init /\ [][Next]_vars

-----------------------------------------------------------------------------
(* Properties *)

(* Two implementations and one rule: until it expires, what either wallet  *)
(* signs is accepted for the request it was signed for exactly if zod      *)
(* takes the times and names in both, which the Python wallet does not     *)
(* ask; none of the other checks, which each has on its own, disagree      *)
(* (exp_wallet.py 23, 46-71, wallet.ts 48-49, 72-73, 93-94, 145-165). *)
BuiltIsAccepted ==
  verdict # None /\ verdict.request = builtFor /\ verdict.at < presentation.expiresAt
    => (verdict.accepted <=> builtFor.formatted /\ presentation.formatted)

(* What is accepted is accepted for the request it was signed for, among   *)
(* all the application stored, before both expired, and shows nothing that *)
(* does not lie under a scope both asked for and approved (wallet.ts       *)
(* 145-165). *)
AcceptedWhereAsked ==
  verdict # None /\ verdict.accepted =>
    /\ verdict.request = builtFor
    /\ verdict.at < builtFor.expiresAt
    /\ \A namespace \in presentation.view.attributes :
         \E s \in ToSet(builtFor.scopes) \cap ToSet(presentation.scopes) :
           IsPrefix(s, namespace)

=============================================================================
