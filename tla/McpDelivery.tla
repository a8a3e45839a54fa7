---------------------------- MODULE McpDelivery ----------------------------
(***************************************************************************)
(* The MCP adapter of adapters/mcp/src/server.ts over the in-memory        *)
(* carrier: an agent calls the tool exp_deliver or reads the resource      *)
(* exp://authorized-context, the adapter sends one request for it and      *)
(* turns the response into a tool result or the contents of the resource.  *)
(*                                                                         *)
(* The tool is declared idempotent (126), so an agent that has no answer   *)
(* may repeat a call with the same arguments.  It may also cancel one: the *)
(* adapter gives the carrier no signal, so the carrier does not hear of it.*)
(*                                                                         *)
(* External: the MCP SDK, which refuses arguments outside requestSchema    *)
(* before the adapter sees them and drops the answer to a cancelled call,  *)
(* and the application's reader of the context, which is taken to ask for  *)
(* it with a request over the same carrier.                                *)
(***************************************************************************)
EXTENDS InMemoryTransport

CONSTANTS
  Arguments,          \* of exp_deliver: a key, an expiry, a deadline
  Context             \* a call that reads the resource

ASSUME ArgumentsAssumption ==
  /\ Arguments \subseteq [key : Key, expiresAt : Instant, deadlineAt : Instant]
  /\ \A input \in Arguments :
       /\ [key |-> input.key, expiresAt |-> input.expiresAt] \in Request
       /\ [deadlineAt |-> input.deadlineAt, signal |-> FALSE] \in Options
  /\ [deadlineAt |-> Never, signal |-> FALSE] \in Options
  /\ {Nothing, Context} \cap Arguments = {}
  /\ Nothing # Context

VARIABLES
  asked,              \* the arguments of the tool call, Context or Nothing
  gone,               \* the calls the agent has cancelled
  told                \* the result the agent got, or Nothing

agent == <<asked, gone, told>>
allVars == <<vars, agent>>

Calls == {s \in Send : asked[s] # Nothing}
ToolCalls == {s \in Calls : asked[s] # Context}

McpInit ==
  /\ Init
  /\ asked = [s \in Send |-> Nothing]
  /\ gone = {}
  /\ told = [s \in Send |-> Nothing]

-----------------------------------------------------------------------------
(* toRequest *)

ToRequest(input) == [key |-> input.key, expiresAt |-> input.expiresAt]

(* Mutant: the deadline is taken for a field of the request and lost. *)
ToOptionsUndated(input) == [deadlineAt |-> Never, signal |-> FALSE]

ToOptions(input) == [deadlineAt |-> input.deadlineAt, signal |-> FALSE]

(* The tool's handler up to its await. *)
CallTool(s, input) ==
  /\ Begin(s, ToRequest(input), ToOptions(input), FALSE)
  /\ asked' = [asked EXCEPT ![s] = input]
  /\ UNCHANGED <<gone, told>>

(* The resource's handler up to its await; the reader's request is its own.*)
ReadContext(s, r) ==
  /\ Begin(s, r, [deadlineAt |-> Never, signal |-> FALSE], FALSE)
  /\ asked' = [asked EXCEPT ![s] = Context]
  /\ UNCHANGED <<gone, told>>

-----------------------------------------------------------------------------
(* toResponse *)

(* isError is set for every response that is not accepted, and for a       *)
(* handler that threw. *)
ToolResult(response) == [isError |-> response # "accepted", code |-> response]

(* Mutant: contents are returned for every response there is. *)
ReadResultUnchecked(response) == [isError |-> FALSE, code |-> response]

(* The contents, or the error that hides why they were refused. *)
ReadResult(response) ==
  IF response = "accepted" THEN [isError |-> FALSE, code |-> response]
                           ELSE [isError |-> TRUE, code |-> "failed"]

(* The carrier's promise has settled and the handler ends. *)
Respond(s) ==
  /\ s \in Calls \ gone
  /\ answer[s] # Nothing
  /\ told[s] = Nothing
  /\ told' = [told EXCEPT ![s] = IF asked[s] = Context THEN ReadResult(answer[s])
                                                         ELSE ToolResult(answer[s])]
  /\ UNCHANGED <<vars, asked, gone>>

(* The agent gives up on a call: nothing reaches the carrier. *)
GiveUp(s) ==
  /\ s \in Calls \ gone
  /\ told[s] = Nothing
  /\ gone' = gone \cup {s}
  /\ UNCHANGED <<vars, asked, told>>

(* The carrier goes on, also with the sends of others. *)
Carry == Next /\ UNCHANGED agent

McpNext ==
  \/ \E s \in Send :
       \/ \E input \in Arguments : CallTool(s, input)
       \/ \E r \in Request : ReadContext(s, r)
       \/ Respond(s)
       \/ GiveUp(s)
  \/ Carry

McpSpec == McpInit /\ [][McpNext]_allVars

(* The carrier's fairness, and a settled promise resumes its handler. *)
McpFairSpec == McpSpec /\ Fairness /\ \A s \in Send : WF_allVars(Respond(s))

-----------------------------------------------------------------------------
(* Properties *)

(* server.ts:126, idempotentHint: calls of the tool that name the same     *)
(* message and expiry make the handler run at most once, however many are  *)
(* in flight, cancelled and repeated, whatever their deadlines, and        *)
(* whatever else uses the carrier; a verifier that outlives the request is *)
(* the exception (transport_same_request_twice). *)
RepeatRunsOnce ==
  \A s, u \in ToolCalls :
    /\ s # u
    /\ ToRequest(asked[s]) = ToRequest(asked[u])
    /\ asked[s].key \notin Verifying
    => ~(Handled(s) /\ Handled(u))

(* What the agent is told is what happened to its own call: a result is no *)
(* error exactly when the handler ran and accepted, contents are shown     *)
(* only of a read that was accepted, NONCE_REPLAY means that another call  *)
(* with the nonce was let through, DEADLINE_EXCEEDED that the deadline in  *)
(* the arguments has passed by one of the clocks or was out of the timer's *)
(* range when the handler was called, and nobody is told he cancelled. *)
ToldIsTrue ==
  \A s \in Send : told[s] # Nothing =>
    /\ ~told[s].isError <=> answer[s] = "accepted" /\ Handled(s)
    /\ told[s].code # "REQUEST_CANCELLED"
    /\ told[s].code = "NONCE_REPLAY" =>
         \E u \in Send \ {s} : Handled(u) /\ call[u].key = call[s].key
    /\ told[s].code = "DEADLINE_EXCEEDED" =>
         /\ asked[s].deadlineAt # Never
         /\ \/ asked[s].deadlineAt <= now \/ asked[s].deadlineAt <= wall
            \/ armedAt[s] # Never /\ asked[s].deadlineAt - armedAt[s] > MaxDelay

(* README.md of the adapter: deadlines are preserved.  Whoever names a     *)
(* deadline gets an answer though the handler may never return: the        *)
(* application from the carrier, with or without a signal, and the agent,  *)
(* unless he gave up, from the tool.  No timer runs before a verifier has  *)
(* answered. *)
DeadlineIsAnswered ==
  /\ DeadlineSettles
  /\ \A s \in Send :
       (s \in ToolCalls /\ s \notin verifying /\ asked[s].deadlineAt # Never)
         ~> (told[s] # Nothing \/ s \in gone)

=============================================================================
