-------------------------- MODULE ConformanceSuite --------------------------
(***************************************************************************)
(* The conformance runner and its candidate.  One candidate is the         *)
(* repository's own, implementations/python/exp_adapter.py: its commands   *)
(* are those of StandingCoordinator, NodeTrust and PresentationExchange,   *)
(* with the transport nonces it keeps, and it answers each line once, in   *)
(* order.  The other one is any program: it may answer a request wrongly,  *)
(* more than once or not at all, write lines nobody waits for, and stop.   *)
(***************************************************************************)
EXTENDS ConformanceRunner, SequencesExt, Functions

CONSTANTS
  ErraticArgument,    \* bound: profiles the erratic candidate is run with
  MaxLines            \* bound: lines it may be ahead of the runner

VARIABLES
  candidate,          \* adapter or erratic
  alive,
  nonces, proposals, notifications, decisions, releases, invalidations, answer,
  read,               \* the erratic candidate: the request read last
  written,            \* and the lines written for it
  repeated            \* ghost: it wrote two lines for a request

adapterVars == <<nonces, proposals, notifications, decisions, releases, invalidations, answer>>

erraticVars == <<alive, read, written, repeated>>

suiteVars == <<runnerVars, candidate, adapterVars, erraticVars>>

Standing == INSTANCE StandingCoordinator WITH
  ProposalId <- {"9012", "9021", "9026", "9031", "9033"},
  NotificationId <- {"9014", "9022", "9027", "9032", "9034"},
  InvalidationId <- {"9020", "9023", "9024", "9030"},
  DecisionId <- {"9016", "9017", "9018", "9019", "9025", "9028", "9029"},
  Entity <- {"9010", "9011"}, Purpose <- {"Conformance standing connection"},
  Scope <- {"identity", "contact", "private"}, MaxTime <- 2 * Day, None <- Nothing,
  ProposalInput <- {}, NotificationInput <- {}, DecisionInput <- {}, InvalidationInput <- {}

Trust == INSTANCE NodeTrust

Wallet == INSTANCE PresentationExchange WITH
  now <- 0, presentation <- Nothing, builtFor <- Nothing, verdict <- Nothing,
  Request <- {}, Input <- {}, None <- Nothing, MaxTime <- 0

-----------------------------------------------------------------------------
(* exp_adapter.py, commands without a store: the first check that fails    *)
(* gives the error code. *)

FirstFailure(checks) ==
  LET failed == SelectSeq(checks, LAMBDA c : ~c[1]) IN
  IF failed = <<>> THEN "ok" ELSE failed[1][2]

VerifyDescriptorKey(input) ==
  LET d == input.descriptor
      a == input.anchor
  IN FirstFailure(
       << <<d.node = a.node /\ d.operator = a.operator, "DESCRIPTOR_IDENTITY_MISMATCH">>,
          <<d.origin = a.origin, "DESCRIPTOR_ORIGIN_MISMATCH">>,
          <<input.now < d.expiresAt, "DESCRIPTOR_EXPIRED">>,
          <<Trust!IsConsistent(d), "INVALID_DESCRIPTOR_TIMESTAMP">>,
          <<d.keyId = a.root \/ Trust!Endorsed(d, a, input.now), "INVALID_ROOT_TRANSITION">>,
          <<d.by = d.keyId, "INVALID_DESCRIPTOR_SIGNATURE">>,
          <<input.operation \in a.operations, "OPERATION_NOT_ALLOWED">>,
          <<\E g \in d.grants : /\ Trust!Grants(d, g, input.operation)
                                /\ Trust!InForce(g) /\ Trust!During(g, input.now),
            "NO_ACTIVE_GRANT">>,
          <<Trust!AdapterAccepts(d, a, input.keyId, input.purpose, input.operation, input.now),
            "KEY_NOT_AUTHORIZED">> >>)

TransportPolicy(input) ==
  FirstFailure(
    << <<input.secure \/ (input.allowInsecureLoopback /\ input.loopback),
         "INSECURE_TRANSPORT">> >>)

BuildWalletPresentation(input) ==
  LET r == input.request
      in == input.config
  IN FirstFailure(
       << <<r.issuedAt < r.expiresAt /\ 0 < r.expiresAt, "INVALID_REQUEST_TIMESTAMP">>,
          <<Wallet!Unique(r.scopes), "DUPLICATE_SCOPE">>,
          <<Wallet!Unique(r.operations), "DUPLICATE_OPERATION">>,
          <<Wallet!Unique(in.scopes), "DUPLICATE_SCOPE">>,
          <<Wallet!Unique(in.operations), "DUPLICATE_OPERATION">>,
          <<Wallet!Within(in.scopes, r.scopes) /\ Wallet!Within(in.operations, r.operations),
            "APPROVAL_EXCEEDS_REQUEST">>,
          <<Wallet!Covered(in.view, in.scopes), "VIEW_EXCEEDS_APPROVAL">>,
          <<in.view.entity = in.principal /\ in.view.purpose = r.purpose,
            "VIEW_BINDING_MISMATCH">>,
          <<Wallet!PythonSigns(r, in), "INVALID_PRESENTATION_TIMESTAMP">> >>)

ValidateCore(input) ==
  FirstFailure(
    << <<input.schema \in {"consent", "wallet-connect-request", "node-authority-grant",
                           "connection-proposal"}, "UNKNOWN_CORE_SCHEMA">>,
       <<IsInjective(input.parties), "INVALID_BINDING">>,
       <<input.schema = "consent" \/ IsInjective(input.scopes), "DUPLICATE_SCOPE">>,
       <<IsInjective(input.operations), "DUPLICATE_OPERATION">> >>)

-----------------------------------------------------------------------------
(* Commands with a store *)

MaxSkew == 300

Distance(a, b) == IF a < b THEN b - a ELSE a - b

VerifyTransport(input) ==
  LET headers == input.headers IN
  /\ answer' = FirstFailure(
       << <<Distance(input.now, headers.signedAt) <= MaxSkew, "STALE_TRANSPORT_SIGNATURE">>,
          <<headers.nonce \notin nonces, "NONCE_REPLAY">>,
          <<headers.signed = <<input.method, input.body>>, "INVALID_TRANSPORT_SIGNATURE">> >>)
  /\ nonces' = nonces \cup {n \in {headers.nonce} : answer' = "ok"}
  /\ UNCHANGED <<proposals, notifications, decisions, releases, invalidations>>

WithScopeSet(p) == [p EXCEPT !.requested = ToSet(@)]

BindingRefusal ==
  {"PROPOSAL_EXPIRED", "NOTIFICATION_EXPIRED", "PROPOSAL_BINDING_MISMATCH", "INVALID_BINDING"}

(* The schema comes before the handler of StandingCoordinator, the test    *)
(* for duplicate scopes between its binding and its conflict checks. *)
ProposalRefusal(p, n, now) ==
  CASE n.containsIdentity -> "INVALID_NOTIFICATION_SCHEMA"
    [] /\ ~n.containsIdentity /\ ~IsInjective(p.requested)
       /\ Standing!ReceiveProposalAnswer(WithScopeSet(p), n, now) \notin BindingRefusal
         -> "DUPLICATE_SCOPE"
    [] OTHER -> Nothing

ReceiveProposal(input) ==
  LET refusal == ProposalRefusal(input.proposal, input.notification, input.now) IN
  /\ \/ /\ refusal = Nothing
        /\ Standing!ReceiveProposal(WithScopeSet(input.proposal), input.notification, input.now)
     \/ /\ refusal # Nothing
        /\ answer' = refusal
        /\ UNCHANGED <<proposals, notifications, decisions, releases, invalidations>>
  /\ UNCHANGED nonces

Stateless(code) ==
  /\ answer' = code
  /\ UNCHANGED <<nonces, proposals, notifications, decisions, releases, invalidations>>

Execute(command, input) ==
  CASE command = "verify_descriptor_key"     -> Stateless(VerifyDescriptorKey(input))
    [] command = "transport_policy"          -> Stateless(TransportPolicy(input))
    [] command = "build_wallet_presentation" -> Stateless(BuildWalletPresentation(input))
    [] command = "validate_core"             -> Stateless(ValidateCore(input))
    [] command = "verify_transport"          -> VerifyTransport(input)
    [] command = "receive_proposal"          -> ReceiveProposal(input)
    [] command = "record_decision" ->
         Standing!RecordDecision(input.decision, input.now) /\ UNCHANGED nonces
    [] command = "receive_invalidation" ->
         Standing!ReceiveInvalidation(input.invalidation, input.now) /\ UNCHANGED nonces

(* What the result shows besides its code. *)
Shown(command, input) ==
  CASE command = "record_decision" /\ answer' = "released" ->
         releases'[input.decision.proposalId].releasedScopes
    [] command = "build_wallet_presentation" /\ answer' = "ok" -> ToSet(input.config.scopes)
    [] OTHER -> {}

(* main of exp_adapter.py: read a line, execute, write a line. *)
Serve ==
  /\ candidate = "adapter" /\ stdin # <<>>
  /\ LET request == Head(stdin)
         command == Cases[request.case].command
         input == Cases[request.case].input
     IN /\ Execute(command, input)
        /\ stdout' = Append(stdout, [id |-> request.id, case |-> request.case, at |-> request.at,
                                     answer |-> Answer(answer', Shown(command, input))])
  /\ stdin' = Tail(stdin)
  /\ UNCHANGED <<profile, next, clock, pending, awaited, results, skippedCases, credit,
                 outcome, candidate, erraticVars>>

-----------------------------------------------------------------------------
(* The erratic candidate *)

Erratic == candidate = "erratic" /\ alive /\ outcome = "running"

OnlyPipes ==
  UNCHANGED <<profile, next, clock, pending, awaited, results, skippedCases, credit,
              outcome, candidate, adapterVars>>

Read ==
  /\ Erratic /\ stdin # <<>>
  /\ read' = Head(stdin)
  /\ written' = 0
  /\ stdin' = Tail(stdin)
  /\ OnlyPipes /\ UNCHANGED <<stdout, alive, repeated>>

(* It says ok to everything. *)
Write ==
  /\ Erratic /\ read # Nothing /\ Len(stdout) < MaxLines
  /\ stdout' = Append(stdout, [id |-> read.id, case |-> read.case, at |-> read.at,
                               answer |-> Ok])
  /\ written' = 1
  /\ repeated' = (repeated \/ written = 1)
  /\ OnlyPipes /\ UNCHANGED <<stdin, alive, read>>

(* Not JSON, or an identifier that was never asked. *)
Noise ==
  /\ Erratic /\ Len(stdout) < MaxLines
  /\ stdout' = Append(stdout, [id |-> Nothing])
  /\ OnlyPipes /\ UNCHANGED <<stdin, alive, read, written, repeated>>

Stop ==
  /\ Erratic
  /\ alive' = FALSE
  /\ OnlyPipes /\ UNCHANGED <<stdin, stdout, read, written, repeated>>

-----------------------------------------------------------------------------

SuiteInit ==
  /\ RunnerInit
  /\ Standing!Init
  /\ nonces = {}
  /\ candidate \in {"adapter", "erratic"}
  /\ alive = TRUE
  /\ read = Nothing /\ written = 0 /\ repeated = FALSE

MainStep == Skip \/ Ask \/ Report

RunnerStep ==
  /\ \/ \E argument \in Argument :
          /\ candidate = "erratic" => argument \in ErraticArgument
          /\ ParseArgv(argument)
     \/ MainStep
     \/ Line
     \/ Timeout
     \/ ~alive /\ WriteFails
  /\ UNCHANGED <<candidate, adapterVars, erraticVars>>

CandidateStep ==
  \/ Serve
  \/ Read
  \/ Write
  \/ Noise
  \/ Stop

SuiteNext == RunnerStep \/ CandidateStep

(* The event loop of the runner: main goes on once its promise is settled, *)
(* a line that was written is read, a timer fires.  Nothing is assumed of  *)
(* a candidate. *)
Fairness ==
  /\ WF_suiteVars(RunnerStep /\ MainStep)
  /\ WF_suiteVars(RunnerStep /\ Line)
  /\ WF_suiteVars(RunnerStep /\ Timeout)

SuiteSpec == SuiteInit /\ [][SuiteNext]_suiteVars /\ Fairness

-----------------------------------------------------------------------------
(* Properties *)

(* A run of the adapter that reports exits with 0, in each profile and     *)
(* however late the answers come: the cases share one store, and a profile *)
(* leaves some of them out (run.mjs 281-322 and 358-364, exp_adapter.py    *)
(* 84-354).                                                                *)
SuitePasses == candidate = "adapter" /\ outcome = "reported" => ExitCode = 0

(* An answer is credited to the case it was written for.  The one way out  *)
(* the identifiers leave: the candidate wrote two lines for a request, and *)
(* main asked the next case within the same millisecond (run.mjs 220-227). *)
CreditedToItsCase ==
  credit # Nothing /\ credit.line.case # credit.case =>
    repeated /\ credit.line.at = credit.at

Ascending(list) == \A i, j \in DOMAIN list : i < j => list[i] < list[j]

(* A report accounts for every case: in order, each once, asked if it is   *)
(* of the profile and skipped if not (run.mjs 357-386). *)
ReportIsComplete ==
  outcome = "reported" =>
    LET OfHttp(k) == Cases[k].command \in {"verify_transport", "transport_policy"}
        InProfile(k) == profile = "all" \/ (profile = "transport:http" <=> OfHttp(k))
        asked == [k \in DOMAIN results |-> results[k].case]
    IN /\ Ascending(asked) /\ Ascending(skippedCases)
       /\ ToSet(asked) = {k \in DOMAIN Cases : InProfile(k)}
       /\ ToSet(skippedCases) = {k \in DOMAIN Cases : ~InProfile(k)}

(* However the candidate behaves, the run ends: with a report, or with an  *)
(* exception (run.mjs 226-233). *)
RunEnds == profile # Nothing ~> outcome # "running"
=============================================================================
