# TLA+ models of OSL Agent Sentinel

OSL Agent Sentinel decides whether an AI agent's action may run. Before a tool is
called, the action goes through an interceptor and a decision pipeline that
resolves the agent's identity, runs detectors, matches policy rules, and answers
ALLOW, THROTTLE, ESCALATE or DENY. This directory holds TLA+ models of the parts
that carry state or concurrency, the TLC configurations that check them on small
instances, and TLAPS proofs of the main safety properties for every instance.

    tlc -workers 2 -config Pipeline.cfg MCPipeline     # model-check one run
    tlapm PipelineProofs.tla                           # check one proof module

`PROJECT.json` lists the runs, the correspondence of definitions and source lines,
the mutants that show that each property can fail, the hazards and the findings.

## The system

| Component | State | Operations | Interacts with |
|---|---|---|---|
| Circuit breaker (`core/circuit_breaker.py`) | state, failure count, time of the trip, probes in flight | `call` (admit, reject, record success or failure) | wraps the identity store's `get` |
| Identity store and resolver (`identity/resolver.py`) | identities by DID, with `revoked` | `get`, `put`, `revoke`, `resolve` | read by evaluations, written by operators meanwhile |
| Policy engine (`core/policy_engine.py`) | the active bundle | `evaluate`, `replace_bundle` | read once per evaluation, after the classifiers |
| Classifiers, DLP scanner (`classifiers/`, `dlp/`) | tool registry, per-agent action windows | `classify`, `validate`, `score`, `scan` | run concurrently in one `gather` |
| Decision pipeline (`core/pipeline.py`, `core/interceptor.py`) | the locals of each evaluation | `evaluate` | all of the above |
| Trust scorer (`identity/trust_scorer.py`) | none: the adjusted identity is not stored | `adjust` | gates ALLOW at the OBSERVE tier |
| MCP gateway (`gateway/mcp_gateway.py`) and the Envoy, Kong and AWS adapters (`adapters/`) | the locals of each call | `evaluate`, `invoke`; `check`, `authorize` | ask the interceptor; on ALLOW the gateway calls the tool, the adapters let the request pass |
| Tool sandbox (`gateway/sandbox.py`) | the workload of each call | `run` | an executor of the gateway runs the tool in it, under a timeout and a result budget |
| SIEM exporter (`observability/siem_exporter.py`) | bounded outbox, background task | `enqueue`, `start`, `stop`, the flush loop | an external collector |
| Rate limiter (`api/middleware/rate_limit.py`) | a token bucket per tenant | `dispatch` | in front of every API route |
| Policy loading (`bootstrap.py`, `core/cache.py`, `policy_pac/loader.py`) | policy file, cache files | `build_default_interceptor` | several processes may share the files |
| HTTP API (`api/`), tenancy manager (`tenancy/manager.py`) | registered tenants | middleware chain, `/v1/evaluate`, `register` | calls the interceptor |
| Client (`client.py`) | the request it waits for | `evaluate`, `allow` | posts to the API, answers by itself when that fails |
| Signing (`identity/signing.py`, `utils/crypto.py`), IATP (`comms/iatp.py`), CMVK (`verification/cmvk.py`), `sentinel policy` (`cli.py`) | signed actions, envelopes, receipts; signed policy files | `sign`, `seal`, `issue`, `policy_sign` and their `verify` | none is called by the service; the loader verifies policy files when it is given a key |
| Guard checker (`static_analysis/guard_checker.py`) | the stack of functions it is in, its findings | the AST visitor, `scan_paths`, `main` | run by CI |
| Red-team harness (`redteam/`) | its report | `run`, two command lines | evaluates scenarios with an interceptor |
| Approval workflow, safe mode, MCP validators, Rust engine, other HTTP routes | not modelled, see below | | |

All of the service is asyncio code on one thread: between two awaits a task runs
alone, and everything may happen at an await. What is hard to test is therefore
what other tasks do while one is suspended (in the identity store, in the gather, in a
send, in `stop`'s await of the cancelled task, between two middlewares, in a tool that runs), calls that complete in another
order than they began, cancellation at an await, clients that give up on a request
the server still works on, and, for the files, crashes between two writes.

## Modules

| Module | Models | Extends / instantiates |
|---|---|---|
| `CircuitBreaker` | `CircuitBreaker.call` and its record functions | |
| `Decision` | rule matching, risk aggregation, reconciliation, trust gate, as operators | |
| `DecisionGrowth`, `MCDecision` | walks through the inputs of `Decision` from each to the worse ones | `Decision` |
| `Pipeline`, `MCPipeline` | concurrent evaluations, identity store, bundle swaps, the tool call | `Decision`; `breaker == INSTANCE CircuitBreaker` |
| `Detectors` | intent, tool, anomaly, injection and DLP detectors, as operators | `Decision` |
| `Screening`, `MCScreening` | concurrent evaluations with these detectors, tool registry, anomaly windows | `Detectors` |
| `SiemExporter` | outbox, background tasks, `start`, `stop` | |
| `RateLimit` | token buckets | |
| `Remote`, `MCRemote` | a client's request through authentication, limiter and route, and back | `RateLimit` |
| `PolicyBoot` | starts of server processes on shared files | |
| `Gateway` | calls through the gateway and the adapters, and the sandboxed tool | |
| `Sealed` | what is signed, changed and verified | |
| `SecurityTools` | the guard checker's walk, the red-team report | |
| `Tooling` | an operator's commands, one after the other | `Sealed`, `SecurityTools` |
| `*Proofs` | theorems about the module they are named after; `DecisionProofs` about `DecisionGrowth`, `RemoteProofs` also about `RateLimit`, `OperationsProofs` about `PolicyBoot` and `Tooling` | TLAPS |

**CircuitBreaker.** One process per call. `Admit`/`Reject` are the locked block at
the head of `call`, with the half-opening it may do; `Succeed`/`Fail` are the
record functions; `Cancel` is a `CancelledError` at `await fn()`, which neither
records. The lock is never held over an await, so each locked block is one step.
`openAge` counts ticks since the trip up to `ResetTimeout`; `failures` is capped at
the threshold, beyond which the code makes no difference. `stale`, `streak` and
`leaks` are history variables.

**Decision.** Severities are in twentieths, risk in ten-thousandths, trust in
thousandths. A match is a function from the keys a rule gives; a key the engine does
not know holds of everything, as in the code. Priorities only order the list of
matches, whose set alone matters to `_reconcile`.

**Pipeline.** An evaluation suspends in the store's `get` ("resolving") and in the
gather ("classifying"). A store that raises ends it with that exception, or leaves it degraded
if the exception is the breaker's own `DependencyUnavailableError`. What follows the gather has no await and is one step,
`Decide`, which also is the gateway's call of the tool on ALLOW. A classifier returns
one of `Reports` or raises. `Upsert`, `Revoke`, `ReplaceBundle` and `CancelRequest`
interleave freely. `activeSeen` and `bundlesSeen` are history variables.

**Detectors, Screening.** A text is the set of the patterns that occur in it, an intent
the set of its words; what the detectors make of them is translated from the code, with
their constants. Severities are rounded to twentieths, which matters only to intents compared
with tool names of many words. None of the shipped detectors suspends, so the tasks of one
gather run in one step (`Detect`), in their order: the anomaly detector scores, then records.
Registrations of tools, other evaluations and the passing of time come before and after it.
`Pipeline` has the identities, outages and bundle swaps with detectors that report anything;
`Screening` has one bundle, which allows everything, so that the detectors alone refuse.
`entitled`, `recent` and `used` are history variables.

**SiemExporter.** Records are numbered; the deque is the interval `head+1 .. tail`.
A send that raises or is cut off by a cancellation may or may not have reached the
collector. `raced` records whether `start` ran while a `stop` was awaiting.

**RateLimit.** Tokens in sixtieths, so that the refill of a tick is a whole number;
`excess` is a history variable holding the maximum, over all windows that end now, of
what was served minus what was refilled.

**Remote.** A request stands at a place of the middleware chain and moves from one await to
the next: `Authenticate`, `Limit`, `Route`, `Evaluate`. A check that fails answers at once.
`Chain` has the order in which Starlette runs the middlewares, the reverse of the order
in which `create_app` adds them; `RequestIdMiddleware` only passes requests on and has no
place of its own (`Pass` is any middleware's `call_next`). Authentication lets the public paths through
(`Admitted`), the limiter exempts none; `Probe` is a request for one by a client of
`Probers`, which ends at a page and never at the interceptor. The limiter's buckets are named
by the header as it is, the registry's tenants by `TenantOf` the header, for which an empty one is
"default". `Lose` is the network (nothing arrives, or a page that is no
decision comes back), `GiveUp` the time-out, which the server does not notice. A client
has one request at a time; overlapping requests are those of different clients of a tenant.
The interceptor answers anything: what it decides is `Pipeline`'s.

**PolicyBoot.** `write_bytes` is two steps, the opening that empties the file and the
write, so a crash, a failed write or another process can come between. A bundle is
its version number.

**Gateway.** A call comes through one of four doors (`Invoke`, `EnvoyCheck`,
`KongAuthorize`, `AwsAuthorize`), suspends in the evaluation, which ends with any verdict
or raises, and, for the gateway on ALLOW, in the tool. The tool runs in the sandbox or
not; it returns, raises, times out by itself or hangs (`WorkEnds`, or no step). The
sandbox's timer (`TimerFires`) and the caller's cancellation (`CancelCaller`) tell the
tool to stop, and it may return a result all the same. `asyncio.wait_for` is external
and is modelled in both forms the supported Pythons have: up to 3.11 it waits for a task
of its own, and a second cancellation leaves that task behind (`StrayEnds`); from 3.12 on
it runs the workload in the caller's task. With the native engine `_run_native` fails
before it calls the workload, since the extension has no `guard` (`NativeFails`).
`expired` and `cancelled` are part of the state of `wait_for`.

**Sealed.** Signatures are ideal: a signature is the key with the signed payload, a
digest the payload. What is not ideal is `canonical_bytes`, which is modelled with both of its
encoders: orjson writes the float NaN as `null`, and the fallback for integers outside int64
writes `NaN`. An object is signed once (a policy file up to `MaxSignings` times) and then
altered, damaged or put back in any order; verification is a function of what is left. `unsigned`
stands for what no signature covers, a receipt's `id`, `issued_at` and `version` and an action's `key_id`,
which `Relabel` changes. `Intact` compares the object itself, not what is signed of it; `Confused`
names the one difference in a body that the canonical form does not show.
`policy_sign` writes YAML whatever the name of the file, and signs what it read, an older signature
included. `origin` is a history variable.

**SecurityTools.** What the parser holds for the visitor next is a choice: files, function
definitions with and without a guarding decorator, other constructs, calls. `stack`
is `_guarded_stack`; `nest`, `due` and `headers` are history variables that say where the visitor really
is: a guarded function is walked in the order of its fields, arguments, body, decorators (`NextPart`), all after
its entry is pushed. A file that does not parse is a finding; one that cannot be read or decoded ends the scan
with an exception. For the harness each scenario has any expected and any actual verdict, or raises;
`outcomes` is the history. `Tooling` lets these commands and those of `Sealed` follow
one another; nothing but files outlives a command.

## Runs

| Run | Bounds | Shows |
|---|---|---|
| `breaker` | 3 callers, threshold 2, 2 probes, timeout 2 | the six breaker properties; 3 callers suffice for a late completion from before a trip next to two probes |
| `decision` | 2 actions, 4 identities, 6 rules, up to 3 factors out of 4 | the strictest rule wins, risk decides without rules, nothing added loosens a refusal; the sets cover every match key and both sides of each threshold |
| `default_bundle` (violation) | the rules of the shipped bundle that matter | it denies every action |
| `pipeline` | 2 evaluations, 1 agent, 2 bundles, 2 classifiers | what runs was authorised during its own evaluation, degradation fails closed, the breaker is used as specified and no evaluation leaves a call in it (`BreakerSpec`, a refinement and what every step keeps beside it), every action is answered |
| `screening` | 2 evaluations of 1 agent, 1 tool with 4 registry entries, 5 actions that between them meet every detector, with intents that match, are excused, drift or are missing, horizon 1, windows of up to 3 | only entitled and clean actions run, the window holds the actions of the horizon, bursts and first uses are reported |
| `siem` | 4 records, outbox and batch of 2, 2 tasks, 2 stops | conservation of records, one task, drain, `stop` returns |
| `siem_retry` (violation) | no stop | a failed batch is not retried |
| `remote` | 3 clients: 2 of one tenant, with and without `fail_closed`, and one without the token, which also asks for public paths; all share one bucket; burst 1, 40/60 token per tick | only authorised requests are decided, ALLOW is the server's, a bucket pays exactly for the admitted requests that pass, the limiter is used as specified and keeps its rate in every window, a tenant that keeps asking is served; 40 does not divide 60, so fractions matter |
| `policy_boot` | 2 processes, 2 versions, 2 crashes | what runs was published, what breaks the cache, starts from the cache |
| `gateway` | 2 calls, both forms of `wait_for`, with and without the native engine | only allowed calls reach a tool or an upstream, no tool outlives its call but in the one case named, results are true, a sandboxed call ends |
| `tooling` | 2 keys, 2 subjects, bodies of 2 values out of null, NaN and a huge integer, both formats, 2 signings; scans of 2 files, depth 3, 3 calls; 3 scenarios | an object verifies exactly with the key it was signed with and exactly while what was signed is intact but for NaN and null; the guard checker misses nothing but what stands in headers of guarded functions and raises no false alarm; the harness's report is exact |
| `policy_resign` (violation) | 1 file, 2 signings | a signed policy file that is signed again does not verify |

Two evaluations are enough for the interference of one with another, since they meet
only in the breaker, whose own run has three callers, and in `screening` in one window and one registry entry.
A window of three exceeds both of the detector's thresholds there, and horizon 1 tells an
action of exactly that age from older ones. No evaluation in `screening` has more than
four factors, the most whose product TLC's integers hold. Two calls of `gateway` share
only the process; the second is there to show that they do not disturb each other. Depth 3 holds
a guarded function inside, outside and beside an unguarded one with a class between;
two values in a body suffice for one to choose the encoder and the other to be changed by it.
The type invariants of `DecisionGrowth`, `Pipeline`, `SiemExporter`, `Remote`, `PolicyBoot` and `Gateway` are proved
and no longer checked by a run. Deadlock is checked
except in `decision` and `default_bundle`, which end when no input is left to add, and
`siem_retry`, which ends when the records do.

**Fairness.** Only weak fairness, of what the event loop or the operating system does
by itself: calls of the store return or raise, gathers return (one
condition for both waits of an evaluation), sleeps end, cancellations
land, sends return or raise (the HTTP client has a timeout), time passes, a started
process goes on, a sandbox's timer fires, and a workload that was told to stop ends in some way
(one that nobody told may run for ever). Nothing is assumed of the choice between success and failure.
`KeepsServingUnlessLeaked` speaks of the runs in which the dependency is healthy from some point
on, and `RetriesServed` of those in which requests of the tenant keep reaching the limiter:
of the clients and the network nothing is assumed, only the clock is fair.

## Proofs

Each proof module states an inductive invariant, shows that `Init` implies it and that
every action keeps it, and derives the properties.

- `CircuitBreakerProofs`: types, that an open circuit has only calls from before the
  trip in flight, and the relation of `failures` to the streak. `NoPhantomSlots` needs
  a counting argument over the (finite) set of callers, in lemmas on cardinality.
- `DecisionProofs`: `Reconcile` returns the strictest effect, by cases, and the trust gate
  only touches ALLOW. What `_aggregate_risk` and the gather do with a list is recursion over
  its length, so the module first derives what it needs of induction: every non-empty set of
  numbers has a least one (`LeastNumber`), a set of numbers that contains 0 and each successor
  contains all (`Induction`), and a recursive function has the values its equation says
  (`Recursion`). From these: the product of a longer list (`ProductAppend`), that it lies
  between 0 and the whole (`SafeProductBound`), that the score is between 0 and 1 and only
  grows (`RiskBound`, `RiskGrows`), and that no report is lost on its way to the score
  (`ReportsReachTheScore`). `AllowedIff` says when a verdict is ALLOW; `CaseNeverLoosens`
  compares its conditions before and after a step. `GraveReportBlocks`, one factor of severity
  0.35 or more refuses, is what the next two modules build on.
- `PipelineProofs`: first, every step maps to a step of the breaker
  (`BreakerBehaves`), so that the breaker's invariant is available, and an evaluation's phase tells
  whether it has a call there; both are `ImplementsBreaker`. Then the
  invariant adds what an evaluation knows: an identity it holds was active during the
  evaluation (`IdentityEarned`), its own bundle history contains the bundle active now
  (`SeesBundle`), its agent's current activity is recorded (`SeesActive`). That ALLOW
  needs an identity and matches no deny rule are lemmas on `Verdict`; `EffectsOnlyGrow`
  says that a rule that matches without factors matches with them. `ErrorsBlock` needs that
  only `Decide` allows and that `classifier.error`, severity 0.6, is grave enough.
- `ScreeningProofs`: three invariants, the other two resting on the first. `TypeInv` bounds
  a window by `MaxWindow` and the evaluations that still wait to record (`Waiting`), and rests on one
  lemma per detector that its report is a list of factors. `JudgeInv`: an evaluation that the
  detectors have judged and that may not run (`Unfit`) carries a grave report, and the
  registry's entry of an evaluation that waits is accounted for in `entitled`; it is needed since the
  verdict falls in a later step than the report, and registrations may come between.
  `WindowInv`: ages fall along a window, which spans at most a horizon and ends with
  `recent`; without the order of the ages, `record`, which pops from the left, could
  keep an entry that is over the horizon behind one that is not.
- `SiemExporterProofs`: conservation needs that batches of different flushers are
  disjoint and lie below `head`; one task needs that `_task` is kept while a stop awaits it.
- `RemoteProofs`: for the limiter, `excess + Available <= Capacity` for every tenant with a
  bucket. For a remote evaluation, every step maps to a step of `RateLimit` (`ImplementsLimiter`), which
  carries the window bound over. The rest follows from what a call's place tells
  (`GoodCall`): past the first gate the client has the token, past the route its tenant is
  registered and the action its own, and an ALLOW it returned was the server's. `ChargedForAdmission` needs
  that no other step than `Limit` lowers what is available in a bucket (`OnlyLimitPasses`).
- `OperationsProofs`, policy start: every version anybody holds is published; without an
  interrupted write there is one writer, and the file it writes to is empty.
- `OperationsProofs`, guard checker: `ScanInv` says in which construct each entry of the
  visitor's stack was pushed (`Pushed`), so that the stack can be compared with the nesting at
  any depth, a pop removes the entry of the construct that is left, and the parts of a guarded
  function share its entry (`NextPartKeeps`), which is why its header goes unreported. Red-team harness:
  `TeamInv`, the property with types; each scenario adds to the total and to one counter, and
  to the false negatives exactly when it slips. Signed objects: `SealInv`, an object's signature
  and digest are those it was given, damaged or gone, and what was signed is the object as it then
  was. That two payloads with the same signature are the same needs the canonical forms to be
  told apart by their parts (`PlainSignature`, `ReceiptSignature`); `CanonicalTells` says which bodies
  have one canonical form.
- `GatewayProofs`: the three invariants together with what is settled in each phase of a
  call (`CallOK`): one that executes was allowed, its tool is active and it has not answered,
  so that `WorkEnds`, the only step that answers for a tool, answers once and truly.

`DecisionProofs` speaks of `DecisionGrowth`; `PipelineProofs` and `ScreeningProofs`
instantiate it for an empty case, since its lemmas are about the operators only, and show that
the operators are the same (`SameDecision`).

The assumptions are the ASSUMEs of the modules: positive thresholds and sizes, finite
sets of callers and of words, that rules have known effects, that trust and severities are
between 0 and 1 and factor codes those of the code (`models/decision.py` bounds the severity),
that texts hold the patterns the scanners know, that the anomaly detector's severity is given for
every window it can meet, and that names are not the model's words for "none".

Every invariant and action property of the passing runs is proved, and both refinements. Not proved,
only model-checked, are the liveness properties, which need fairness and ENABLED:
`KeepsServingUnlessLeaked`, `EveryActionAnswered`, `OutboxDrains`, `StopReturns`,
`RetriesServed`, `StartsFromCache`, `SandboxedEnd`.

## What the code does that the documents do not say

The three violation runs are described under `findings` in PROJECT.json. Six more
configurations, kept beside the others, end in a counterexample as well:

- `tlc -config CircuitBreakerCancel.cfg CircuitBreaker`: a cancelled probe keeps its slot
  for ever (`circuit_breaker.py:77`), so that the circuit never closes again, though the docstring
  says that probes are let through (lines 6-7). It takes a store that suspends; the `breaker` run's
  `KeepsServingUnlessLeaked` leaves out just this case.
- `tlc -config PipelineStrangers.cfg MCPipeline`: an unknown agent's `IdentityError` counts as a
  failure of the dependency (`pipeline.py:119`), so that unknown agents open the circuit of a healthy
  store (`circuit_breaker.py:3-4`).
- `tlc -config PolicyBootStale.cfg PolicyBoot`: when the cache cannot be written
  (`bootstrap.py:50`), the fresh bundle is discarded for an older one, though `cache.py:3-4`
  has the cache for sources that cannot be reached.
- `tlc -config SealedMutation.cfg Tooling`: a signed action in which null becomes NaN, or NaN null,
  still verifies, since orjson writes both as `null` (`canonical.py:44`), though the verifier "MUST reject any
  such mutation" (`signing.py:31`).
- `tlc -config SealedReceipt.cfg Tooling`: a memory receipt whose `id`, `issued_at` or `version` is changed
  still verifies, since none of them is signed (`cmvk.py:49`), though receipts are verified "to detect
  tampering" (`cmvk.py:5`).
- `tlc -config GuardHeaders.cfg Tooling`: a sensitive call in a decorator, default or annotation of a
  guarded function is not reported (`guard_checker.py:75-76`), though no guard is on its enclosing scope
  (lines 6-8): defaults and decorators run when the function is defined.

Further differences met while reading, which no run states.

Decisions: `evaluate` has no last-known-good
identity (ARCHITECTURE.md:60); ESCALATE is not submitted to the approval workflow
(ARCHITECTURE.md:52); the interceptor verifies no signature and writes no audit record;
a decision under a cached bundle is not flagged `degraded` (`core/cache.py:7-8`);
`reload_policy` always raises, as no loader is wired; `policy_breaker` and `dlp_breaker`
are not used; a THROTTLE or ESCALATE rule that matches hides a risk score that alone would
deny; the OBSERVE gate (`pipeline.py:161`) looks at the tier recomputed from the trust score
and never at the registered one, so an agent registered as OBSERVE, "read-only, no side
effects" (`models/identity.py:23`), with the default score may run tools; the scanners do not
read nested objects, though `dlp/scanner.py:94` says "every text field"; a burst counts
until the agent's next action, however long it pauses; an exception of the injection model
is taken for a score of 0.

Remote: a request for a public path needs no token and still draws on the bucket that its
`X-Tenant-Id` names (`auth.py:31`, `rate_limit.py:53-55`), so that `TokenPerAdmission` speaks of admitted requests
and not of clients with the token; an empty `X-Tenant-Id` is the tenant "default" for the registry and
another bucket than "default" for the limiter (`dependencies.py:39`, `rate_limit.py:54`); the route's `Action` and the
command line's `Path` are imported only for type checking, so that FastAPI and Typer may fail to resolve them
before any modelled code runs.

Gateway: with the native extension every sandboxed workload ends in an error without running,
since `_run_native` calls `engine.guard`, which the extension does not export, while
`sandbox.py:6-7` asks production to install it, and that path has no timeout; on Python
3.11 a second cancellation leaves a workload running unobserved; the adapters put headers and query in
nested objects, which the scanners do not read, and the AWS adapter sends no body;
`mcp_validators.py:6-7` says that the gateway denies on a validator's finding, but
nothing calls the validators; safe mode has no caller either.

Signatures: `policy_sign` writes YAML to a file named `.json`, which the loader then cannot read; IATP
keeps no nonces, so that a repeated envelope verifies, and so does an older receipt with its older value,
though `cmvk.py:5` speaks of replay.

Security tools: the harness counts DENY expected and ESCALATE or THROTTLE answered as "a stricter
direction" (`harness.py:214`); the workflow runs `python -m sentinel.redteam.harness`
(`security.yml`), a module without a main, so that it evaluates nothing, and ignores its exit code;
a file that is not UTF-8 ends the guard checker with a traceback and no report (`guard_checker.py:109-111`).

## Not modelled

- The approval workflow. Nothing reaches it in this commit: the pipeline never submits,
  `PendingApproval` refers to a type that is only imported for type checking and cannot be built
  without a `model_rebuild` that nobody calls, and the route passes `resolve` arguments that it does not take.
- Safe mode and the MCP validators: pure functions without state that no code calls.
- The Rust engine: another evaluator, which the Python service does not import.
- The routes for identities, policies and audit, and what the health routes answer; `serve` and `version` of the command line.
- The detectors' regular expressions, an embedding provider, the texts of the scenarios, loading of keys and
  HKDF, logging, metrics and telemetry: functions of strings, or output, without state that decisions depend on.
- Binary rounding of trust and tokens: the models are exact. The number of rate-limit buckets, which grows with
  the tenant names that clients send: a matter of memory, not of a state that could be wrong.

## Plan

1. Done: breaker, decision, pipeline, detectors, exporter, rate limiter, remote evaluation,
   policy start, gateway with adapters and sandbox, signed objects, security tools; proofs of
   all their safety properties.
2. What the liveness properties rest on, as theorems: that a suspended evaluation, a stop
   or a sandboxed call always has a step that some fairness condition covers, stated without ENABLED.
3. `Screening` as an implementation of the classifiers that `Pipeline` leaves open.
4. The Rust engine's rules, safe mode and the validators as operators beside `Decision`'s, compared with it.
