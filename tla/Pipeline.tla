------------------------------ MODULE Pipeline ------------------------------
(***************************************************************************)
(* The evaluation of concurrent actions: Interceptor.evaluate and          *)
(* DecisionPipeline.evaluate, behind the circuit breaker of the identity   *)
(* store, in front of the tool that MCPGateway runs on ALLOW.              *)
(*                                                                         *)
(* An evaluation suspends twice: in the store's `get`, called through the  *)
(* breaker, and in the gather of the classifiers.  Everything after the    *)
(* gather (policy, reconciliation, trust gate, and the gateway's call of   *)
(* the tool) runs without an await and is one step.  While an evaluation   *)
(* is suspended, others run, identities are upserted and revoked, and the  *)
(* policy bundle is swapped.                                               *)
(***************************************************************************)
EXTENDS Decision, FiniteSets

CONSTANTS
  Requests,       \* evaluations in progress at a time
  Actions,        \* actions agents may send
  Dids,           \* agent DIDs
  Identities,     \* identities an operator may register: [tier, trust]
  Bundles,        \* policy bundles that may be active
  Reports,        \* what a classifier may return: sequences of factors
  NClassifiers,   \* number of classifiers gathered
  StoreMayFail,   \* whether the identity store may raise by itself
  FailureThreshold, ResetTimeout, HalfOpenProbes

ASSUME PipelineAssumption ==
  /\ FailureThreshold \in Nat \ {0} /\ ResetTimeout \in Nat \ {0}
  /\ HalfOpenProbes \in Nat \ {0}
  /\ IsFiniteSet(Requests)
  /\ NClassifiers \in Nat
  /\ StoreMayFail \in BOOLEAN
  /\ NoIdentity \notin Identities
  /\ \A a \in Actions : a.did \in Dids
  /\ Reports \subseteq Seq(Factor)

VARIABLES
  store,       \* the identity store: for each DID an identity or Absent
  bundle,      \* PolicyEngine._bundle
  req,         \* the evaluations
  activeSeen,  \* history: requests whose agent was active at some moment
               \* of their evaluation
  bundlesSeen, \* history: the bundles active during each evaluation
  state, failures, openAge, probes, call, stale, streak, leaks

storeVars == <<store, bundle>>
seenVars == <<activeSeen, bundlesSeen>>
breakerVars == <<state, failures, openAge, probes, call, stale, streak, leaks>>
vars == <<store, bundle, req, activeSeen, bundlesSeen,
          state, failures, openAge, probes, call, stale, streak, leaks>>

\* identity_breaker, one for all evaluations.
breaker == INSTANCE CircuitBreaker WITH Calls <- Requests

Absent == [identity |-> NoIdentity, revoked |-> FALSE]
Entries == [identity : Identities, revoked : BOOLEAN]

\* IdentityResolver.resolve returns the identity and raises no IdentityError.
Active(entry) == entry # Absent /\ ~entry.revoked

NoAction == [type |-> "none", tool |-> "none", did |-> "none", args |-> {}]

IdleRequest == [phase |-> "idle", action |-> NoAction, identity |-> NoIdentity,
                degraded |-> FALSE, unknown |-> FALSE, errored |-> FALSE]

Suspended == {"resolving", "classifying"}
Answered == {"allowed", "blocked", "raised"}

\* Where an evaluation is, and what it has found out so far.
Evaluations ==
  [phase : {"idle"} \cup Suspended \cup Answered,
   action : Actions \cup {NoAction},
   identity : Identities \cup {NoIdentity},
   degraded : BOOLEAN, unknown : BOOLEAN, errored : BOOLEAN]

InProgress(r) == req[r].phase \in Suspended

Init ==
  /\ store \in [Dids -> Entries \cup {Absent}]
  /\ bundle \in Bundles
  /\ req = [r \in Requests |-> IdleRequest]
  /\ activeSeen = {}
  /\ bundlesSeen = [r \in Requests |-> {}]
  /\ breaker!Init

-----------------------------------------------------------------------------
(***************************************************************************)
(* An action arrives and asks the breaker.  DependencyUnavailableError     *)
(* makes the evaluation a degraded one without an identity.                *)
(***************************************************************************)
Submit(r, a) ==
  /\ req[r].phase = "idle"
  /\ \/ /\ breaker!Admit(r)
        /\ req' = [req EXCEPT ![r] = [IdleRequest EXCEPT
                     !.phase = "resolving", !.action = a]]
     \/ /\ breaker!Reject(r)
        /\ req' = [req EXCEPT ![r] = [IdleRequest EXCEPT
                     !.phase = "classifying", !.action = a, !.degraded = TRUE]]
  /\ activeSeen' = IF Active(store[a.did]) THEN activeSeen \cup {r}
                   ELSE activeSeen \ {r}
  /\ bundlesSeen' = [bundlesSeen EXCEPT ![r] = {bundle}]
  /\ UNCHANGED storeVars

\* resolve without its check of `revoked`.
Mutant_RevokedResolves(r) ==
  /\ req[r].phase = "resolving"
  /\ store[req[r].action.did] # Absent
  /\ breaker!Succeed(r)
  /\ req' = [req EXCEPT ![r].phase = "classifying",
                        ![r].identity = store[req[r].action.did].identity]
  /\ UNCHANGED <<storeVars, seenVars>>

\* The store answers with an active identity.
ResolveKnown(r) ==
  /\ req[r].phase = "resolving"
  /\ Active(store[req[r].action.did])
  /\ breaker!Succeed(r)
  /\ req' = [req EXCEPT ![r].phase = "classifying",
                        ![r].identity = store[req[r].action.did].identity]
  /\ UNCHANGED <<storeVars, seenVars>>

\* IdentityError, raised inside the breaker's call: the DID is unknown or
\* revoked.  The breaker records a failure.
ResolveUnknown(r) ==
  /\ req[r].phase = "resolving"
  /\ ~Active(store[req[r].action.did])
  /\ breaker!Fail(r)
  /\ req' = [req EXCEPT ![r].phase = "classifying", ![r].unknown = TRUE]
  /\ UNCHANGED <<storeVars, seenVars>>

\* The store raises something else.  Its own DependencyUnavailableError is
\* taken for the breaker's; `evaluate` lets any other exception go through,
\* and the caller gets no decision.
StoreFails(r) ==
  /\ StoreMayFail
  /\ req[r].phase = "resolving"
  /\ breaker!Fail(r)
  /\ \/ req' = [req EXCEPT ![r].phase = "raised"]
     \/ req' = [req EXCEPT ![r].phase = "classifying", ![r].degraded = TRUE]
  /\ UNCHANGED <<storeVars, seenVars>>

Resolve(r) == ResolveKnown(r) \/ ResolveUnknown(r) \/ StoreFails(r)

-----------------------------------------------------------------------------
\* A classifier returns a report, or raises.
Outcomes == [raised : {FALSE}, report : Reports]
              \cup {[raised |-> TRUE, report |-> <<>>]}

\* Whatever is not refused by a rule runs.
Mutant_ResumeWithoutIdentity(r, outcomes) ==
  LET q == req[r]
      v == Reconcile(Effects(bundle, q.action, q.identity,
                             RiskFactors(q.unknown, outcomes)),
                     AggregateRisk(RiskFactors(q.unknown, outcomes)),
                     [tier |-> "standard", trust |-> 750])
  IN  [q EXCEPT !.phase = IF v = "allow" THEN "allowed" ELSE "blocked",
                !.errored = \E i \in 1 .. NClassifiers : outcomes[i].raised]

\* No rule of the bundle is evaluated.
Mutant_IgnorePolicy(r, outcomes) ==
  LET q == req[r]
      v == Verdict({}, q.action, q.identity, RiskFactors(q.unknown, outcomes))
  IN  [q EXCEPT !.phase = IF v = "allow" THEN "allowed" ELSE "blocked",
                !.errored = \E i \in 1 .. NClassifiers : outcomes[i].raised]

\* An escalated action waits for an approval that nobody is asked for.
Mutant_EscalationParked(r, outcomes) ==
  LET q == req[r]
      v == Verdict(bundle, q.action, q.identity, RiskFactors(q.unknown, outcomes))
  IN  [q EXCEPT !.phase = CASE v = "allow" -> "allowed" [] v = "escalate" -> q.phase
                            [] OTHER -> "blocked"]

\* What the evaluation becomes once the classifiers have returned: its
\* verdict under the bundle active now, and the gateway's reaction to it.
Resume(r, outcomes) ==
  LET q == req[r]
      v == Verdict(bundle, q.action, q.identity, RiskFactors(q.unknown, outcomes))
  IN  [q EXCEPT !.phase = IF v = "allow" THEN "allowed" ELSE "blocked",
                !.errored = \E i \in 1 .. NClassifiers : outcomes[i].raised]

Decide(r) ==
  /\ req[r].phase = "classifying"
  /\ UNCHANGED <<storeVars, seenVars, breakerVars>>
  /\ \E outcomes \in [1 .. NClassifiers -> Outcomes] :
       req' = [req EXCEPT ![r] = Resume(r, outcomes)]

EndOf(r) ==
  /\ req' = [req EXCEPT ![r] = IdleRequest]
  /\ activeSeen' = activeSeen \ {r}
  /\ bundlesSeen' = [bundlesSeen EXCEPT ![r] = {}]

\* The breaker never hears of the cancellation.
Mutant_CallLeftBehind(r) ==
  /\ InProgress(r)
  /\ EndOf(r)
  /\ UNCHANGED <<storeVars, breakerVars>>

\* The caller of a suspended evaluation is cancelled.
CancelRequest(r) ==
  /\ InProgress(r)
  /\ IF req[r].phase = "resolving" THEN breaker!Cancel(r)
     ELSE UNCHANGED breakerVars
  /\ EndOf(r)
  /\ UNCHANGED storeVars

\* The tool has run, or the refusal was delivered; the task is free again.
Return(r) ==
  /\ req[r].phase \in Answered
  /\ EndOf(r)
  /\ UNCHANGED <<storeVars, breakerVars>>

-----------------------------------------------------------------------------
(***************************************************************************)
(* Changes of the shared state under the evaluations' feet.                *)
(***************************************************************************)
SetEntry(d, entry) ==
  /\ store' = [store EXCEPT ![d] = entry]
  /\ activeSeen' = activeSeen \cup
       {r \in Requests : InProgress(r) /\ req[r].action.did = d /\ Active(entry)}
  /\ UNCHANGED <<bundle, req, bundlesSeen, breakerVars>>

\* upsert_identity: `put` replaces the whole entry, its revocation too.
Upsert(d) == \E e \in Entries : e # store[d] /\ SetEntry(d, e)

Revoke(d) ==
  /\ Active(store[d])
  /\ SetEntry(d, [store[d] EXCEPT !.revoked = TRUE])

\* replace_bundle, between any two steps of the evaluations.
ReplaceBundle(b) ==
  /\ b # bundle
  /\ bundle' = b
  /\ bundlesSeen' = [r \in Requests |->
       IF InProgress(r) THEN bundlesSeen[r] \cup {b} ELSE bundlesSeen[r]]
  /\ UNCHANGED <<store, req, activeSeen, breakerVars>>

Tick == breaker!Tick /\ UNCHANGED <<storeVars, seenVars, req>>

Next ==
  \/ \E r \in Requests :
       \/ \E a \in Actions : Submit(r, a)
       \/ ResolveKnown(r) \/ ResolveUnknown(r) \/ StoreFails(r)
       \/ Decide(r) \/ CancelRequest(r) \/ Return(r)
  \/ \E d \in Dids : Upsert(d) \/ Revoke(d)
  \/ \E b \in Bundles : ReplaceBundle(b)
  \/ Tick

Spec == Init /\ [][Next]_vars

\* The store answers or fails, and the classifiers return.
Fairness == \A r \in Requests : WF_vars(Resolve(r) \/ Decide(r))

LiveSpec == Spec /\ Fairness

-----------------------------------------------------------------------------
TypeOK ==
  /\ store \in [Dids -> Entries \cup {Absent}]
  /\ bundle \in Bundles
  /\ req \in [Requests -> Evaluations]
  /\ activeSeen \subseteq Requests
  /\ bundlesSeen \in [Requests -> SUBSET Bundles]
  /\ breaker!TypeOK

(***************************************************************************)
(* An action runs only for an agent that was registered and not revoked at *)
(* some moment of its own evaluation: an identity read before a concurrent *)
(* revocation or upsert may be used, one from before the action arrived    *)
(* may not, and an open circuit never stands in for an identity.           *)
(***************************************************************************)
AllowedAgentWasActive ==
  \A r \in Requests : req[r].phase = "allowed" => r \in activeSeen

(***************************************************************************)
(* Degradation fails closed: no action runs whose identity could not be    *)
(* established, because the circuit was open or the DID unknown, whatever  *)
(* the classifiers and the rules say.                                      *)
(***************************************************************************)
FailsClosed ==
  \A r \in Requests : req[r].phase = "allowed" =>
    /\ ~req[r].degraded /\ ~req[r].unknown
    /\ req[r].identity # NoIdentity

(***************************************************************************)
(* No action runs when one of its classifiers raised, whatever the others  *)
(* found and the rules say.                                                *)
(***************************************************************************)
ClassifierErrorBlocks ==
  \A r \in Requests : req[r].phase = "allowed" => ~req[r].errored

(***************************************************************************)
(* No action runs that every bundle active during its evaluation denies,   *)
(* however the bundles were swapped meanwhile.                             *)
(***************************************************************************)
AllowedBySomeBundle ==
  \A r \in Requests : req[r].phase = "allowed" =>
    \E b \in bundlesSeen[r] :
      "deny" \notin Effects(b, req[r].action, req[r].identity, <<>>)

\* An evaluation holds a place in the breaker exactly while it waits for the
\* store.
BreakerCallsMatch ==
  \A r \in Requests :
    req[r].phase = "resolving" <=> call[r] \in breaker!InFlight

(***************************************************************************)
(* The pipeline uses its breaker as CircuitBreaker specifies, and no       *)
(* evaluation ends, by an answer, an exception or a cancellation, with its *)
(* call still counted there.                                               *)
(***************************************************************************)
BreakerSpec ==
  breaker!Spec /\ BreakerCallsMatch /\ [][BreakerCallsMatch']_vars

(***************************************************************************)
(* Every action that arrives is answered, or its caller gave up.           *)
(***************************************************************************)
EveryActionAnswered ==
  \A r \in Requests : InProgress(r) ~> ~InProgress(r)

(***************************************************************************)
(* "If a downstream dependency [...] fails repeatedly, we trip the breaker *)
(* for that dependency" (core/circuit_breaker.py:3-5): a store that never  *)
(* fails degrades no decision.                                             *)
(***************************************************************************)
DegradedOnlyOnOutage ==
  StoreMayFail \/ \A r \in Requests : ~req[r].degraded

=============================================================================
