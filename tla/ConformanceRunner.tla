------------------------- MODULE ConformanceRunner -------------------------
(***************************************************************************)
(* The conformance runner, conformance/run.mjs: main asks one candidate    *)
(* process the cases of the suite one after the other, over two pipes of   *)
(* JSON lines, and reports.  A request carries an identifier made of the   *)
(* size of the pending map and the clock in milliseconds; the line handler *)
(* gives an answer to the pending request of its identifier; a timer of    *)
(* three seconds, or a failed write, rejects the request and ends the run  *)
(* without a report.                                                       *)
(*                                                                         *)
(* The candidate is another program: module ConformanceSuite.  How long    *)
(* three seconds are is left out: as long as no answer came, the timer may *)
(* fire.  A case is [name, command, input, expected], where expected is    *)
(* the set of answers that expected and validate let pass.                 *)
(***************************************************************************)
EXTENDS ConformanceCases, FiniteSets

CONSTANT MaxClock     \* bound: milliseconds that pass between requests

Profiles == {"all", "core", "transport:http"}

(* undefined is no profile and no identifier. *)
ASSUME RunnerAssumption ==
  /\ MaxClock \in Nat
  /\ Nothing \notin Profiles \cup (Nat \X Nat)

VARIABLES
  profile,            \* selectedProfile
  next,               \* the case main is at
  clock,              \* Date.now() at the last request
  pending,            \* the keys of the pending map
  awaited,            \* the identifier main awaits
  stdin, stdout,      \* lines not yet read by the other side
  results,            \* [case, passed] of the cases answered
  skippedCases,
  credit,             \* ghost: the case last answered, when asked, the line
  outcome             \* running, reported or thrown

runnerVars == <<profile, next, clock, pending, awaited, stdin, stdout,
                results, skippedCases, credit, outcome>>

RunnerInit ==
  /\ profile = Nothing
  /\ next = 1
  /\ clock = 0
  /\ pending = {}
  /\ awaited = Nothing
  /\ stdin = <<>> /\ stdout = <<>>
  /\ results = <<>> /\ skippedCases = <<>>
  /\ credit = Nothing
  /\ outcome = "running"

-----------------------------------------------------------------------------
(* parseRunnerArgv *)

Argument == Profiles \cup {"http", "unknown"}

Aliases ==
  [argument \in Profiles \cup {"http"} |->
     IF argument = "http" THEN "transport:http" ELSE argument]

(* An unknown profile throws before the candidate is started. *)
ParseArgv(argument) ==
  /\ profile = Nothing /\ outcome = "running"
  /\ \/ /\ argument \in DOMAIN Aliases
        /\ profile' = Aliases[argument]
        /\ UNCHANGED outcome
     \/ /\ argument \notin DOMAIN Aliases
        /\ outcome' = "thrown"
        /\ UNCHANGED profile
  /\ UNCHANGED <<next, clock, pending, awaited, stdin, stdout, results, skippedCases, credit>>

-----------------------------------------------------------------------------
(* main: the loop over the cases *)

(* Mutant: the transport policy is not listed. *)
CaseProfileUnlisted(command) ==
  IF command = "verify_transport" THEN "transport:http" ELSE "core"

CaseProfile(command) ==
  IF command \in {"verify_transport", "transport_policy"} THEN "transport:http" ELSE "core"

Selected(k) == profile = "all" \/ CaseProfile(Cases[k].command) = profile

AtCase == outcome = "running" /\ profile # Nothing /\ awaited = Nothing /\ next <= Len(Cases)

Skip ==
  /\ AtCase /\ ~Selected(next)
  /\ skippedCases' = Append(skippedCases, next)
  /\ next' = next + 1
  /\ UNCHANGED <<profile, clock, pending, awaited, stdin, stdout, results, credit, outcome>>

(* Mutant: the identifier is the size of the map alone. *)
RequestIdUntimed(ms) == <<Cardinality(pending), 0>>

RequestId(ms) == <<Cardinality(pending), ms>>

(* Candidate.request: the clock may not have moved since the last one.     *)
Ask ==
  /\ AtCase /\ Selected(next)
  /\ clock' \in {clock, clock + 1} \cap 0..MaxClock
  /\ awaited' = RequestId(clock')
  /\ pending' = pending \cup {awaited'}
  /\ stdin' = Append(stdin, [id |-> awaited', case |-> next, at |-> clock'])
  /\ UNCHANGED <<profile, next, stdout, results, skippedCases, credit, outcome>>

Passed(line) == line.answer \in Cases[next].expected

(* A line that is not JSON, or that no pending request waits for, is       *)
(* dropped; any other one is the answer, whichever case it was written     *)
(* for, and main goes on. *)
Line ==
  /\ outcome = "running" /\ stdout # <<>>
  /\ stdout' = Tail(stdout)
  /\ LET line == Head(stdout) IN
     \/ /\ line.id \in pending
        /\ pending' = pending \ {line.id}
        /\ awaited' = Nothing
        /\ results' = Append(results, [case |-> next, passed |-> Passed(line)])
        /\ credit' = [case |-> next, at |-> clock, line |-> line]
        /\ next' = next + 1
     \/ /\ line.id \notin pending
        /\ UNCHANGED <<pending, awaited, results, credit, next>>
  /\ UNCHANGED <<profile, clock, stdin, skippedCases, outcome>>

TimerRuns == awaited \in pending

(* Mutant: the timer deletes the entry and rejects nothing. *)
RejectedSilently == UNCHANGED <<awaited, outcome>>

(* The rejection leaves the loop: close, no report, exit code 1. *)
Rejected == awaited' = Nothing /\ outcome' = "thrown"

Timeout ==
  /\ outcome = "running" /\ TimerRuns
  /\ pending' = pending \ {awaited}
  /\ Rejected
  /\ UNCHANGED <<profile, next, clock, stdin, stdout, results, skippedCases, credit>>

(* The candidate is gone: the write's callback rejects, the entry stays in *)
(* the map. *)
WriteFails ==
  /\ outcome = "running" /\ awaited # Nothing
  /\ outcome' = "thrown"
  /\ UNCHANGED <<profile, next, clock, pending, awaited, stdin, stdout,
                 results, skippedCases, credit>>

Report ==
  /\ outcome = "running" /\ profile # Nothing /\ next > Len(Cases)
  /\ outcome' = "reported"
  /\ UNCHANGED <<profile, next, clock, pending, awaited, stdin, stdout,
                 results, skippedCases, credit>>

(* A failed case, or what main threw. *)
ExitCode ==
  IF outcome = "reported" /\ \A k \in DOMAIN results : results[k].passed THEN 0 ELSE 1
=============================================================================
