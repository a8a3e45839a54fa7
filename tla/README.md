# Verification of the Entity Exchange Protocol

TLA+ specifications of the Entity Exchange Protocol repository (under `src/`
beside this directory), the TLC configurations that check them on small
instances, and TLAPS proofs of the theorems that matter most. Every definition
is translated from the code; documents are quoted only where the code and a
document disagree. Paths below are relative to `src/`; `ND` stands for
`implementations/python/exp_http_node.py` and `AD` for
`implementations/python/exp_adapter.py`.

## 1. The system

| Part | Source | State | Operations |
|---|---|---|---|
| Standing coordinator | AD 258-341, driven by `main` from stdin | proposals, notifications, decisions, releases, invalidations: process-wide dictionaries | `receive_proposal`, `record_decision`, `receive_invalidation` |
| HTTP node: store | ND 58-84 `JsonStore` | one JSON document in memory and on disk, one lock | `read` (a deep copy), `update` (change, then write and `os.replace`) |
| HTTP node: standing handlers | ND 397-491 | proposals, notices, decisions, releases, invalidations, operator marks | proposal, decide, release, invalidation, operator's invalidate |
| HTTP node: outbox | ND 252-338, 494-540 | outbox entries, `delivery_lock`, the worker thread | enqueue, drain, requeue, worker loop |
| HTTP node: federation gate | ND 126-190 | consumed nonces (durable), rate windows (memory) | `consume_rate_limit`, `verify_federation` |
| HTTP node: discovery | ND 341-395, 494-535 | configured record, grants by query, revocations, state changes | discover, dereference, revoke, state change |
| Descriptor verification | ND 191-237, AD 152-215 | none | two implementations of one check |
| In-memory transport | `src/in-memory-transport.ts` | map of claimed nonces; one timer and listener per call | `send` |
| Wallet SDK | `src/wallet-sdk.ts`, `src/wallet.ts` | per call: controller, timer, listener | retrieve a request, create a presentation, submit it |
| Entity View projection | `src/entity-model.ts` | none | `ruleFor`, `materializeEntityView` |
| Schema contracts | `src/foundation.ts`, `src/standing.ts`, ... | none | validation |
| Python wallet | `implementations/python/exp_wallet.py` | none | `build_presentation`, a second way to a presentation |
| Canonical signing | `src/canonical-json.ts`, `src/resource-limits.ts`, `implementations/python/canonical_json.py` | none | two implementations of the bytes a signature covers |
| MCP adapter | `adapters/mcp/src/server.ts` | none of its own: each call waits for the carrier | the tool `exp_deliver`, the resource `exp://authorized-context` |
| Version negotiation | `src/compatibility.ts` | none | compare, support, negotiate |
| Conformance runner | `conformance/run.mjs` and a candidate process, AD | map of pending requests with a timer each, results; the adapter's stores | ask a case, take an answer, report |
| Others | platforms, scripts, examples | none, or key storage | see section 8 |

How they interact: a peer's signed request passes the federation gate and then
a standing or discovery handler; a handler that has something to say to other
peers enqueues it, and the outbox delivers it to the peer's node, where it
passes that node's gate. The coordinator is the authority that turns two
approvals into a release; nodes hold the parties' side of it. The wallet talks
to an application's endpoints and never to a node. The in-memory transport is
the reference for a message's life inside one process; the MCP adapter turns an
agent's tool call into one `send` of it. The conformance runner starts a
candidate, such as the adapter that holds the coordinator, and asks it the cases
of the suite over two pipes of JSON lines.

What is hard about it:

* **Threads.** `ThreadingHTTPServer` gives each request a thread; a handler
  checks a copy of the store (`read`) and changes the store later (`update`),
  with network calls in between. The worker thread drains the same outbox.
* **Awaits.** In the transport and the wallet an answer, a timer and an abort
  race, and values read before an `await` are used after it. The runner pairs
  answers with requests by an identifier made of a count and a clock.
* **Crash and restart.** The store survives, threads, locks and rate windows do
  not; a handler may stop between two updates, an update may raise after it has
  changed the memory, and a write of the file may fail.
* **Unreliable delivery.** A post that timed out may have been handled; it is
  retried with a backoff until it is dead-lettered; messages arrive late, twice
  and in any order.
* **Time.** Expiry of proposals, grants, keys, nonces and deadlines, each with
  its own convention about the boundary; a timer that runs on another clock than
  the checks and has 32 bits.
* **Two implementations.** TypeScript and Python each sign and verify, and each
  decides expiry, scopes, member order, numbers and limits by code of its own.

The hazards of the code, at their lines and with the properties that watch each
of them, are listed in `PROJECT.json` under `hazards`.

## 2. Modules

| Module | Models | Extends |
|---|---|---|
| `GovernedDisclosure` | abstract: a proposal is undecided, then released or invalidated, for good, and each party decides once | |
| `StandingCoordinator` | AD 258-341, one action per command; `Disclosure` is its refinement mapping | |
| `ReliableDelivery` | abstract: a message is queued, sent while pending, handled any number of times, and delivered, given up or requeued | |
| `Outbox` | ND 252-338 and the drain and requeue routes; `Delivery` is its refinement mapping | |
| `StandingNode` | ND 397-491, each handler split where another thread can run | |
| `FederationGate` | ND 126-190 | |
| `InMemoryTransport` | `in-memory-transport.ts`, split at its awaits | |
| `McpDelivery` | `adapters/mcp/src/server.ts`: an agent's calls composed with the carrier and with other sends | `InMemoryTransport` |
| `NodeTrust` | `verify_descriptor` and `verify_descriptor_key` as predicates | |
| `NodeDiscovery` | ND 341-395 and the revocation and state-change routes | `NodeTrust` |
| `EntityView` | `ruleFor`, `materializeEntityView`, with a reference definition of the governing rule | |
| `Wallet` | the three asynchronous operations of `wallet-sdk.ts`, split at their awaits | `EntityView` |
| `PresentationExchange` | `build_presentation`, `createPresentation` and `validateWalletPresentation` between two wallets and an application | `EntityView` |
| `CanonicalJson` | both canonicalizers and resource checks, with a signer, a carrier and a verifier | |
| `VersionNegotiation` | `compareVersions`, `supportsVersion`, `negotiateVersion` as operators | |
| `ConformanceCases` | the fixtures and cases of `conformance/run.mjs`, in order | |
| `ConformanceRunner` | its `main`, its line handler, its timers | `ConformanceCases` |
| `ConformanceSuite` | the runner with the repository's adapter (instances of `StandingCoordinator`, `NodeTrust` and `PresentationExchange` serve the commands) or with an erratic candidate | `ConformanceRunner` |
| `MC...` | the small instance of each | its module |
| `...Proofs` | theorems and their proofs | its module; `ContractProofs` is about `PresentationExchange`, `VersionNegotiation`, `CanonicalJson` and `ConformanceSuite` |

Correspondence of steps. A **store update** is one action: `JsonStore.update`
holds the lock from the deep copy to `os.replace`. A **store read** followed by
an update is two actions, with the decision taken on the copy kept in `op[t]`,
so another thread or a crash can come between. A Python **stdin command** is one
action, because `main` serves one line at a time. A JavaScript function is split
at each `await` and nowhere else. `Crash` keeps exactly what
the file holds.

What is abstracted everywhere: signatures by who signed what, JSON by the fields
the control reads, identifiers by model values, times by small integers, whole milliseconds.
Requests that a schema rejects change no state and are left out. A value named
`None`, `Never` or `Nothing` is an absent field, entry or instant.

Per module:

* `StandingCoordinator`: the time that comes with a command is an input and not
  monotone, as in the code. `...Answer` operators give the code's result or the
  first error in the order of its raises.
* `Outbox`: `nextAttemptAt` is the time left until it; `Tick` counts it down.
  `PeerAccepts`, `PeerFails` and `PostEscapes` are what `signed_post` can do:
  return, raise one of the exceptions the drain catches, raise another.
  `sent` and `received` are ghosts: what was ever posted, and what peers have
  handled. A post that timed out, was cut off or was on the wire in a crash may
  be handled at any later time, which is `PeerHandles`. `StatusOf`, `ContentOf`
  and `AttemptsOf` map an entry to its message in `ReliableDelivery`; locks,
  threads and schedules have no image there.
* `StandingNode`: `op[t]` carries a checked operation from its read to its
  update. An update whose change raises (a `correlationId` or a
  `coordinatorEndpoint` the request lacks, both read after the appends) changes
  the memory and not `disk`; `Save` is any other update, which writes all of the
  memory. A notice is kept under its proposal with the proposals whose notices
  stand before it in the list (`after`), so that `FirstOf` is what `next()` of
  line 459 finds. The operator's invalidation and a peer's are different actions on
  different state, as in the code. `coordinatorEndpoint` is the one field that
  every new proposal overwrites, `snapshot[t]` what the copy of a deciding thread
  holds of it, `destination` where the outbox entry of a decision goes. Four
  ghosts say when the code's checks suffice: `overlapped` (proposals two threads
  were between check and write of at once), `origin` and `overtaken` (where a
  proposal came from, and whether another coordinator's came after it), and
  `uncorrelated` (decisions whose request had no `correlationId`).
* `FederationGate`: `ReadClock` comes before `RateLimit`, which is the section
  under `rate_lock`, so that threads may take the lock in another order than
  they read the clock. A rate window is the set of the places, in the history of
  its identity, of the requests whose times it keeps; the identity is tracked
  when that set is not empty. `consumed` is the store in memory and `saved` its file.
  `ConsumeUnsaved` is the write that fails, `Save` any later update of the store,
  and `Crash` loads the file. Whether descriptor and signature verify is an outcome; what
  decides it is `NodeTrust`. `admitted` and `accepted` are ghosts; the first is
  the history that the places refer to.
* `InMemoryTransport`: whether an endpoint has a verifier is given by the
  request's key (`Verifying`): the nonce's scope names the receiving node.
  A verifier or a handler may return, fail or never settle. `now` is the
  endpoints' `now()`, which all checks use, `wall` is `Date.now()`, on which the
  timer alone runs; they advance independently. A delay beyond
  `MaxDelay` (2^31-1 ms in the code) makes the timer due at once. The endpoints
  of a hub are taken to share one `now()`, clocks are not set back, and times
  are dates (a string that is none compares false everywhere).
* `McpDelivery`: `CallTool` and `ReadContext` begin a send without a signal,
  `Respond` turns its answer into a tool result or contents, `GiveUp` is the
  agent's cancellation, of which the carrier does not hear. `Carry` is any step
  of the carrier, sends of other callers included. The MCP SDK is external.
* `ConformanceSuite`: a case is an index; the adapter's commands are the actions
  of the other modules, so the suite's expectations are compared with what those
  modules say the code does. The erratic candidate reads, writes, repeats and
  stops as it likes. `clock` is the milliseconds in a request's identifier, and
  two requests may fall in one.
* `NodeDiscovery`: the peer's operator publishes descriptors in order (rotation
  of a key, rollover of the root); this operator revokes; the ghost fields of
  grants and answers remember what the world was when they were decided.
* `Wallet`: timeouts are positive (`INVALID_TIMEOUT` ends a call before any
  state exists) and deadlines parsable; a delay beyond `MaxDelay` makes the timer
  due at once. `options.now`, which a call reads once to make its deadline a
  delay, is taken to run with the clock of `setTimeout`. `INVALID_PRESENTATION`
  and `APPROVAL_EXCEEDS_REQUEST` of `createPresentation`, where nothing is
  registered, are the disabled guard of the action that would go on; a verifier
  that throws at line 217, with timer and listener registered, is
  `VerifierFails`. A namespace is the sequence of
  its segments and not empty (`Name`); `WalletAssumption` holds what the schemas
  say of requests, rules and approvals, and `None` apart from them.
* `PresentationExchange`: a wallet signs once, the application validates as
  often as it likes, at any later time, against any request it holds. `Wallet`
  has the asynchronous life of one such call; here the decisions of both
  implementations are complete, schemas included where they relate two fields
  or where zod asks for a format (`formatted`: a time that ends in `Z`, an address
  that is a URL) which `jsonschema` does not check without its optional checkers.
* `CanonicalJson`: a parsed value is a tree, a function from the places of its
  parts (sequences of names and indices) to nodes. What `canonicalizeValue`,
  `canonical_json` and `walk` do to each part as they recurse is said of each
  place; the depth of a part is the length of its place. Canonical bytes are the
  same tree with exactly what decides them: for an object how many names come
  before each, for a number its digits with the layout chosen for them, for a
  string its code units. Escapes inside a string and the limit of the payload in
  bytes are the same on both sides and left out. A number is the shortest digits
  of a double, which both languages print. `Reorder` and `Replace` are what a
  carrier may do. `SigningAssumption` says what parsers return: finitely many
  distinct names, whole numbers that end before the point; and that the envelope
  contains the signature.

## 3. Runs that pass

All runs take two workers and less than four minutes.

| Run | Instance | Distinct states |
|---|---|---|
| `coordinator` | two proposals (one in two versions), two notifications, nine decisions, four invalidations, notices that arrive in several states, times 0..3 | 11,792 |
| `outbox` | two entries, two payloads, worker and one request thread, three attempts, one crash | 105,894 |
| `node` | two request threads, two proposals of two coordinators or of none, notices with one identifier or two, requests without `correlationId`, one crash | 3,162,452 |
| `gate` | two threads, three identities for a table of two, two nonces, window of two ticks, times 0..3, writes that fail, one crash | 1,422,707 |
| `transport` | two sends of an application or an agent, out of three requests and two tool calls, with and without deadline, signal and verifier; two clocks 0..2, delays up to 1 | 1,220,105 |
| `discovery` | two threads, two requesters with one query identifier, two record identifiers, three descriptors | 1,426,765 |
| `wallet` | four connect requests, two models, three view definitions, seven approvals, two deadlines, timeouts 2 and 3, delays up to 2, times 0..4 | 238,040 |
| `presentation` | six requests of two origins, seven views, five lists of scopes, with and without zod's formats, times 0..4 | 20,299 |
| `canonical` | 68 records at the limits of strings, numbers and containers, two implementations; version lists of up to three out of six versions | 26,797 |
| `conformance` | 46 cases, the adapter in every profile, an erratic candidate in the short one | 202,119 |

* **coordinator** - `StoresAgree`: the five stores refer to one another
  consistently. `ReleaseIsTheAgreement`: a release exists exactly when both
  parties approved, with the scopes both approved and both decisions cited.
  `ImplementsDisclosure`: the store refines `GovernedDisclosure`, in which
  release and invalidation exclude each other and are final, and each party
  decides once.
* **outbox** - `OneSender`: one drain at a time, and what it posts is pending.
  `ScheduledUntilSettled`: every pending entry has a next attempt and attempts
  left, every dead letter used them all. `ImplementsDelivery`: the outbox
  refines `ReliableDelivery`, so that nothing is sent, recorded as delivered or
  given up but when it may be. Liveness, if every post comes to an end (which
  no timeout of the code provides, section 5): `LockIsReleased`, whatever a post
  raised; `SettlesUnlessEscaped`: each pending entry is delivered or
  dead-lettered by the worker alone, if posts stop raising what the drain does
  not catch.
* **node** - with checks made on an older copy and a crash at any point:
  `RecordsAreBound` (in memory and on the file a decision, release or
  invalidation belongs to a proposal, and an invalidation marked the notice it
  names or an earlier one of that identifier), `RecordedIsQueued` (a decision is
  queued, or its thread is about to queue it, or a crash or one of two
  `KeyError`s came in between), `DecisionFindsCoordinator` (a decision goes to
  the coordinator of its proposal unless another coordinator's proposal came
  after it or its own named none). The specification's rules hold of every
  proposal on which no two requests overlapped, whatever the threads do
  elsewhere: `OneLocalDecision`, `InvalidationOnce`, `ReleasedNotInvalidated`,
  `NoDecisionAfterInvalidation`, and `ReleasedStaysUnmarked` (neither operator
  nor peer marks the notice of a released proposal, if no other has its
  identifier); section 5 says what the exceptions are.
* **gate** - `RateIsBounded`: no interval of the window's length holds more
  admissions than the policy's maximum, but for requests that read the clock
  before, and took the lock after, one with a time beyond the interval (section
  5). `ReuseNeedsOverlap`: a nonce is accepted
  again only by requests that were in flight together, over failed writes and
  restarts.
* **transport** - `NonceHeldWhileValid`: an accepted nonce stays claimed until
  the request expires. `AnswerIsTrue`: what the carrier answers is what
  happened, but that `DEADLINE_EXCEEDED` may mean a delay beyond the timer's
  range. `RepeatRunsOnce`: an agent that repeats a tool call makes the handler
  run at most once, whatever the deadlines and whatever it cancelled.
  `ToldIsTrue`: the tool's result or the resource's contents are what happened to
  that very call, with the same exception. Liveness, `DeadlineIsAnswered`: a tool
  call with a deadline is answered, or waits for the verifier, even if the
  handler never returns.
* **discovery** - `DereferenceIsGranted`: who gets a record names an identifier
  that a discovery answer granted to that requester, authorization and purpose,
  and gets a record the node held, another than the named one only if that had
  been active here and was replaced. `AuthorizationIsFelt`: a
  query that began after the authorization ended is not answered.
  `CandidateWasOffered`: what discovery names was on offer when it looked, to
  that query. `VerifiersAgree`: the node's and the adapter's verifier accept the
  same descriptors for the same key, at every time the model reaches.
* **wallet** - `CauseIsReal`: a call that reports an abort, a timeout or a
  deadline had one, or its delay was beyond the range of `setTimeout`; and an
  aborted call that fails says so. `NothingLeftBehind`: no timer or
  listener outlives its call. `PresentedWithinConsent`: a presentation goes to
  the origin that signed the request, and discloses only confirmed attributes of
  the model that the governing rule lets out, inside both request and approval,
  and nothing sealed in plain. Liveness, `CallsSettle`: every call ends although
  the application never answers, or has got as far as the verifier.
* **presentation** - `BuiltIsAccepted`: until it expires, what either wallet
  signs is accepted for its request exactly if zod takes the times and names of
  both as they are written; none of the checks each wallet has on its own
  disagrees.
  `AcceptedWhereAsked`: what is accepted is accepted for its own request among
  those the application holds, in time, and shows nothing outside a scope both
  asked for and approved.
* **canonical** - `SignedVerifies`: a record that arrives with the signed content
  never fails its signature, whoever signed, whoever verifies and in whatever
  order its members arrive; the verifier may refuse to read it (a whole number
  beyond 2^53-1 in Python, a limit). `ChangesAreSeen`: a record whose content
  differs never passes. With the same run TLC evaluates two assumptions about
  `VersionNegotiation`: `ComparatorIsAnOrder` (different versions are ordered by
  their numbers, a release after its drafts) and `NegotiatesTheHighest` (the
  result is the highest version both lists and this release have, the same from
  either side, and missing only when there is none).
* **conformance** - `SuitePasses`: every case of the suite gets an expected
  answer from the adapter, in each profile, although a profile leaves out cases
  and all of them share one process. `CreditedToItsCase`: an answer counts for
  the case it was written for, unless the candidate wrote two and the next case
  was asked within the same millisecond. `ReportIsComplete`: a report has each
  case once, in order, asked or skipped by its profile. Liveness, `RunEnds`: a
  run ends, with a report or an error, however the candidate behaves.

The properties proved for every instance and implied by those above, or simpler
than they are, are not repeated in the runs: the other modules' `TypeOK`, the
coordinator's `OneDecisionPerPrincipal`, `ApprovalsWithinRequest`,
`ReleaseExcludesInvalidation`, `NothingAtOrAfterExpiry` (expiry is inclusive:
the instant itself counts as expired), `NotificationTracksInvalidation`, `InvalidationIsFinal` (of accepted
invalidations: a notice that arrives in that state stops nothing) and
`ReleaseIsPermanent`, the outbox's `DeliveredWasReceived`
and `EntriesEndure`, the node's
`ReleaseIdIsUnique` and `RecordsEndure`, the gate's `PeersAreBounded`, the
transport's `AnswerIsFinal` and `DirectRequestOnce`, discovery's
`AnnouncementFollowsRecord` and `AnnouncementsEndure`. Section 7 lists their
theorems.

Bounds, and why they are enough. Every property relates at most two records of
a kind (two versions of one proposal, two decisions, two holders of a nonce),
so two of each, and a third where a second must be distinguished from a default,
reach the cases; two threads are enough for every check-then-act pair, and they
reach the overlaps the properties except. `MaxTime` reaches the
instant before, at and after each expiry. `MaximumAttempts = 3` makes first,
middle and last attempt different; `MaxDelay` lies between two delays that occur; `MaximumBackoff = 2` is reached on the second
attempt. One crash separates before from after; nothing counts restarts. In
`conformance`, `MaxLines = 2` lets an answer and one too many wait together,
`MaxClock = 2` gives neighbouring cases the same or different milliseconds, and
the erratic candidate is run with the profile of the eight transport cases,
since what it does depends on one case and the next only.
`CHECK_DEADLOCK FALSE` is set where the system really stops: bounded clocks and
inputs, all calls settled, a wallet session or a suite that ends. Symmetry is used for
threads (`discovery`), threads and decisions (`node`), and identities, nonces and
threads (`gate`), in runs without liveness.

Each property of these runs has a mutant in `PROJECT.json`: one mapped
definition changed the way a bug would change it, which makes the property fail.

## 4. Runs that find a violation

* `outbox_worker_dies` - a peer that closes the connection without an answer, or
  answers 2xx with a body that is not JSON, raises an exception `_drain_outbox`
  does not catch (ND 312). It ends the worker thread, which is started once (ND
  330); pending entries then stay pending
  (`implementations/python/README.md:12` promises a retrying outbox).
* `transport_same_request_twice` - with a verifier the claim uses the time read
  before an `await`; a claim by another request purged the nonce meanwhile, and
  the same request is handled twice, contrary to the comment at
  `src/in-memory-transport.ts:55`.

## 5. Other disagreements met while reading

The models do what the code does in each case; no property claims the contrary.

* `decide` checks a copy (ND 412-419) and appends later (ND 424); two concurrent
  requests record two decisions of one actor (`SPECIFICATION.md:175`). An
  invalidation is checked and appended in the same way (ND 443-464). Hence the
  exception for `overlapped` proposals in `OneLocalDecision`, `InvalidationOnce`,
  `ReleasedNotInvalidated`, `ReleasedStaysUnmarked` and
  `NoDecisionAfterInvalidation`; each is violated without it.
* `decide` reads `correlationId` after the append (ND 424-426) and
  `coordinatorEndpoint` in the call of `enqueue` (ND 428): a `KeyError` of either
  answers with an error a decision that is recorded, cannot be made again (ND
  418) and is never sent. `receive_proposal` reads both after its appends (ND
  406-408), so a refused proposal is there all the same, and a decision on it
  goes to the coordinator of an earlier one. What such an update changed is in
  memory only, until any other update writes the file or a crash loses it.
* `receive_invalidation` finds the notice by identifier and proposal (ND 449) and
  marks it by identifier alone (ND 459): if an earlier proposal's notice has the
  identifier, that one is marked and the proposal's own stays active.
* The node keeps one coordinator endpoint, of the proposal it stored last (ND
  407, 428): a decision on an earlier proposal goes to a coordinator that does
  not know it. Hence the exception for `overtaken` proposals.
* The gate looks a nonce up in a copy (ND 165-167) and consumes it after a
  network fetch (ND 178); two concurrent copies of one request are both accepted
  (`SPECIFICATION.md:200`). `ReuseNeedsOverlap` is what is left of the rule: at
  most as often as there are request threads, and only by checks that overlap.
* `timeout=5` (ND 262-263) bounds each wait on the socket and not the post: a peer
  that sends a byte now and then keeps `response.read()`, and with it
  `delivery_lock`, and nothing else is delivered for as long as it likes. A
  post's end is therefore an antecedent of the outbox's liveness (`PostsEnd`).
* `consume_rate_limit` reads the clock (ND 139) before it takes `rate_lock` (ND
  140). A thread overtaken in between is compared with a window from which a
  later request has dropped what was recent at its own time, so an interval may
  hold more than the policy allows. Hence the exception in `RateIsBounded`,
  which is violated without it.
* Python counts a string in code points (`canonical_json.py:23`), the limit is in
  UTF-16 code units (`SPECIFICATION.md:141`): Python signs strings that
  TypeScript refuses to read.
* The Python wallet lets a presentation expire at the instant it is issued
  (`exp_wallet.py:70`) and signs it; the schema refuses it (`src/wallet.ts:97`),
  and `SPECIFICATION.md:136-137` wants it rejected before it is signed.
* The Python wallet parses and signs times with an offset (`exp_wallet.py:23`;
  its schema check has no optional format checker), zod's `datetime()` takes only
  `Z` (`src/wallet.ts:48-49`, `72-73`, `93-94`): such a presentation is signed and
  never accepted. Hence `formatted` in `BuiltIsAccepted`.
* A repeated decision or release command is refused or repeated differently from
  `SPECIFICATION.md:180` (AD 267, 338-340); a decision on a proposal without
  `requestedDisclosureScopes` raises a `KeyError` that becomes `INTERNAL_ERROR`
  (AD 292), although `src/foundation.ts` makes the field optional.
* The coordinator stores a notice in whatever state it arrives (AD 250); only the
  invalidations it accepted itself stop a decision (AD 287), so a notice that
  arrives already `invalidated` stops none.
* The node retries a permanent refusal like a lost connection (ND 265-266,
  312-326; `SPECIFICATION.md:126-127`).
* `decide` never reads the proposal's `expiresAt` (ND 411-430;
  `SPECIFICATION.md:179`), and looks for invalidations sent by peers only, not
  for the operator's own (ND 415, 476-488; `SPECIFICATION.md:316-317`).
* The runner's request identifier is the size of the pending map and the
  milliseconds (`conformance/run.mjs:227`), and the map is empty between cases:
  the second of two answers to one request counts for the next case if that was
  asked within the same millisecond.
* `compareVersions` returns 1 for two equal versions, and `localeCompare` puts
  `draft.10` before `draft.2` (`src/compatibility.ts:105`); neither shows with
  the versions a release has now.
* A crash between ND 424 and 428 leaves a decision recorded and never sent.
* `verify_descriptor` raises `ConformanceError` outside discover's `try` (ND
  352): the answer is 500 and not 401. Neither verifier compares a descriptor's
  sequence with one it saw before (`SPECIFICATION.md:301-302`), and the pinned
  anchor is not moved by a root rollover.
* `dereference` returns the current record, whatever identifier the grant names
  and even if the record was withdrawn since, and does not ask again whether the
  authorization holds (ND 390-392).
* The transport checks its budget before it awaits the verifier and works on
  after it (128 to 150; `SPECIFICATION.md:125-126`), and a verifier that hangs
  leaves a send with a deadline unanswered.
* The transport arms its timer with `Date.parse(deadlineAt) - Date.now()` (179-184)
  while all its checks use `now()`: where the two differ `DEADLINE_EXCEEDED` is
  answered before or after the deadline by `now()`, and for a delay beyond 2^31-1
  ms after one millisecond. The wallet takes any finite `timeoutMs`
  (`src/wallet-sdk.ts:152`), with the same effect beyond that delay (175-178).
  Hence `Overlong` in `AnswerIsTrue`, `ToldIsTrue` and `CauseIsReal`.
* A verifier that hangs keeps `retrieveRequest` open for ever: it gets no signal,
  and the timer's abort does not end the await (`src/wallet-sdk.ts:217`).
* The wallet returns a request as retrieved if the caller aborts while the
  verifier runs (217-219), its timer overwrites an abort that came first
  (170-178), a refused submission after an abort is `REQUEST_REJECTED` (279-286),
  and a view's own expiry is not read.
* The Python wallet refuses a view that outlives its request
  (`exp_wallet.py:68`); `validateWalletPresentation` does not compare the two,
  so TypeScript signs presentations that Python would not.
* Python refuses whole numbers beyond 2^53-1 (`canonical_json.py:66`), which
  `JSON.stringify` renders. `RefusalsDiffer` proves that this and the length of
  strings above are all the difference between the two.

## 6. Fairness

Only liveness properties use fairness, and only weak fairness of steps that the
code or its runtime performs by itself. `Outbox`: the worker wakes after its
interval; a thread inside a drain goes on when it is not posting; time passes.
A post is not assumed to end; the properties have its end as an antecedent.
Requests are not assumed to arrive. `InMemoryTransport`: `Date.now()` advances
and a due timer fires; neither `now()` nor a verifier nor a handler is assumed to
get anywhere.
`McpDelivery` adds that a settled promise resumes the tool's handler; the agent
may give up at any time. `ConformanceSuite`: the runner goes on when its promise
is settled, reads a line that was written, and its timer fires; nothing is
assumed of a candidate.
`Wallet`: the clock and the timer, and a fetch or a body that obeys an abort of
its signal. Nothing is assumed of the verifier, the signer, the application and
the user.

## 7. Proofs

`tlapm` checks, for every value of the constants:

| Module | Theorems | Argument |
|---|---|---|
| `StandingCoordinatorProofs` | `TypeCorrect`, `OneDecision`, `DualApproval`, `Exclusion`, `Tracking`, `BeforeExpiry`, `InvalidationFinal`, `ReleasePermanent`, `Implementation` | inductive invariant of seven conjuncts |
| `OutboxProofs` | `TypeCorrect`, `SingleSender`, `AttemptBudget`, `NoFalseDelivery`, `Endurance`, `Implementation` | `IInv` adds: a thread outside a drain has nothing to do, what a thread posts was sent, an accepted post was received; each action maps to one of `ReliableDelivery` or a stutter |
| `StandingNodeProofs` | `TypeCorrect`, `Bound`, `UniqueReleases`, `Queued`, `Endurance`, `Addressed`, and outside overlaps `ApartDecision`, `ApartInvalidation`, `ApartRelease`, `ApartFinality`, `ReleaseStands` | `IInv` adds `CheckedIsBound` and that the file is an earlier, itself bound, state of the memory; what was checked on a proposal no one else is busy with still holds at the update; a copy of the endpoint is of the proposal's coordinator or of a later one |
| `FederationGateProofs` | `TypeCorrect`, `WindowsBounded`, `AcceptedRemembered`, `OverlapBounds`, `PeerTableBounded` | what a window dropped lies a window's length before a request that passed; an accepted nonce is in memory and in the file; who found it unused is counted with who had it accepted |
| `InMemoryTransportProofs` | `TypeCorrect`, `NonceHeld`, `TrueAnswers`, `FinalAnswers`, `OneAcceptance`, `McpImplementsTransport`, `RepeatsRunOnce`, `TrueResults` | `IInv` relates the stage of a send to what it holds, remembers and answered; a step of the adapter is a step of the carrier or none, so the carrier's invariant holds of the composition |
| `NodeDiscoveryProofs` | `TypeCorrect`, `Granting`, `Revocation`, `Candidates`, `Announcements`, `AnnouncementsKept`, `OneVerdict` | `IInv` says what each thread in the middle of a request has established; `OneVerdict` needs that key identifiers differ |
| `WalletProofs` | `TypeCorrect`, `CausesNamed`, `NothingIsLeft`, `ConsentRespected`, `OmittedAsGoverned` | `IInv` says what each recorded reason of an abort witnesses, that a retrieved request was bound and trusted, and what a presentation was validated against; the first rule after the sort is the governing one |
| `ContractProofs`, presentations | `Acceptance`, `Binding` | what is signed fits its request but for the formats, which the statement names, and the order of issue and expiry, which a validation before the expiry supplies |
| `ContractProofs`, versions | `VersionsAreOrdered`, `HighestNegotiated` | the first number that differs decides in the comparator and in the order; the order is transitive, so a smallest set without a highest version cannot exist and the sort of a finite list has a last one |
| `ContractProofs`, canonical signing | `SignaturesHold`, `ChangesSeen`, `MembersAreOrdered`, `RefusalsDiffer` | payloads have the same canonical bytes, whoever writes them, exactly when they have the same content, which is proved of numbers, then nodes, then trees; `SigningInv` adds that the bytes carried are somebody's of the original and that the signature lies outside what it covers |
| `ContractProofs`, conformance | `Credits`, `Reports` | `SuiteInv` adds: no other request is pending when an identifier is made, so it is its millisecond; a candidate that has answered nothing twice has at most one line under way, about the case main awaits; the cases behind main were asked or skipped in order |

Why the strengthening is needed. A coordinator's release is permanent only
because the decisions it cites are, which needs `OneDecisionPerPrincipal`, which
needs `StoresAgree`. A drain may record a delivery only because what it posts
was pending when taken and no other drain can have run since, which is
`OneSender` with its two auxiliary facts. A node's update is bound to existing
records although its check was made on a copy because records are never removed,
which is `CheckedIsBound`. A rate window, although it keeps only what the last
admitted request saw as recent, misses nothing it needs: what was dropped lies a
window's length before a request that passed, so no interval holds it and a
request admitted later that was not overtaken. A cause is real because a reason
is recorded only with its signal aborted or its timer due, and what that witnesses
stays so. Two
canonical texts of one number agree only because a whole number that Python would
print without a notation change, from 1e21 on, is not a safe one and was refused;
and a text determines its number because, given the digits, every layout
determines the exponent. An
answer counts for its own case only because nothing of an earlier one is still
on its way, which relates both pipes to what the candidate read last. A
nonce is held while valid only because every
claim that a purge may drop has expired, which relates the map to the sends. A
dereference belongs to a discovery answer, although thread and store change in
between, because every grant in the store was answered.

The two theorems named `Implementation` prove that `StandingCoordinator`
implements `GovernedDisclosure` and that `Outbox` implements `ReliableDelivery`:
initial states map to initial states, and every step to a step or a stutter.
A post is a send because what a drain posts is pending (`OneSender`), a recorded
failure gives up exactly at the last attempt because pending entries have
attempts left (`ScheduledUntilSettled`), and a recorded delivery was handled
because the answer came to the thread that records it.

`RuleFor` filters and sorts a list; `GoverningAction` goes up from a namespace to
the nearest ancestor that has a rule. That the two agree for every list of rules
(`ViewIsGoverned`, on which `ConsentRespected` and `OmittedAsGoverned` rest) needs
a first and a longest element among the places of the rules, which
`WellFoundedInduction` supplies as the minimum of a well-founded order.

Assumptions are on constants only, named in the module that declares them and
evaluated by TLC in each run: bounds are natural numbers, `None` is no entry,
what nodes and the coordinator are sent has the types its schemas give it (nothing
keeps identifiers apart), the requests an application holds have distinct
identifiers, names, rules and times are what the schemas let through, prerelease
tags are finitely many and in some order, the supported versions are finite
lists, records to be signed are trees parsers return. Two modules take requests
to carry every field their handler reads, which `StandingNode` does not: `Outbox`
(requeue) and `NodeDiscovery` (revocation and the state-changes route).

Model-checked only: all liveness (`LockIsReleased`, `SettlesUnlessEscaped`,
`DeadlineIsAnswered`, `CallsSettle`, `RunEnds`), which is beyond the prover;
and `SuitePasses`, which is about this one suite and its 46 answers: a
computation, not an argument.

## 8. Not modelled

* `platforms/` and `platform-browser.ts`: one HTTP call or key-store call each,
  no protocol state.
* The MCP adapter's stdio connection and tool descriptions, and the schemas the
  MCP SDK checks: refused arguments never reach the carrier.
* `assertSupportedVersion` and the format of a version string: one test and one
  pattern.
* Ed25519: every module says who signed what, or compares the bytes signed.
* A write of the store that fails in the handlers behind the gate (the gate has
  it), and the audit trail, which no handler reads.
* The runner's canonical JSON vectors (their subject is `CanonicalJson`), the
  report's wording, `scripts/`, examples, test vectors: drivers and data.

## 9. Plan

1. A composition of node, outbox and coordinator: a decision taken at a node
   reaches the coordinator and its release both nodes, with loss, duplication
   and restart.
2. What a failing write leaves in each handler behind the gate.
