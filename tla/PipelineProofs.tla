--------------------------- MODULE PipelineProofs ---------------------------
(***************************************************************************)
(* The safety properties of Pipeline, for every number of evaluations,     *)
(* every set of identities, bundles and classifier reports and every       *)
(* setting of the breaker.  What the breaker guarantees is taken from      *)
(* CircuitBreakerProofs, and what decisions do from DecisionProofs.        *)
(***************************************************************************)
EXTENDS Pipeline, TLAPS

B == INSTANCE CircuitBreakerProofs WITH Calls <- Requests

\* The facts about decisions do not depend on a case that grows.
D == INSTANCE DecisionProofs WITH
       BaseBundle <- {}, Rules <- {}, Factors <- {}, MaxFactors <- 0, Identities <- {},
       action <- NoAction, identity <- NoIdentity, factors <- <<>>

\* An evaluation past "idle" carries one of the actions.
HasAction == \A r \in Requests : req[r].phase # "idle" => req[r].action \in Actions

\* The histories keep up with the shared state while an evaluation lasts.
SeesBundle == \A r \in Requests : InProgress(r) => bundle \in bundlesSeen[r]

SeesActive ==
  \A r \in Requests :
    InProgress(r) /\ Active(store[req[r].action.did]) => r \in activeSeen

\* An identity comes from the store, and only while its agent was active.
IdentityEarned ==
  \A r \in Requests :
    /\ req[r].identity # NoIdentity =>
         /\ req[r].phase \notin {"idle", "resolving"}
         /\ r \in activeSeen
         /\ ~req[r].degraded /\ ~req[r].unknown
    /\ req[r].phase = "resolving" => ~req[r].degraded /\ ~req[r].unknown

\* What is needed besides the properties themselves.
IInv ==
  /\ TypeOK
  /\ B!IInv
  /\ BreakerCallsMatch
  /\ HasAction
  /\ SeesBundle
  /\ SeesActive
  /\ IdentityEarned
  /\ FailsClosed
  /\ AllowedBySomeBundle

-----------------------------------------------------------------------------
(***************************************************************************)
(* The pipeline's constants are constants for its breaker.                 *)
(***************************************************************************)
LEMMA BreakerAssumed == B!BreakerAssumption
BY PipelineAssumption
   DEF PipelineAssumption, B!BreakerAssumption, IsFiniteSet, B!IsFiniteSet

(***************************************************************************)
(* Every step of the pipeline is a step of its breaker, or leaves it alone.*)
(***************************************************************************)
LEMMA StepIsBreakerStep == [Next]_vars => [breaker!Next]_(breaker!vars)
<1> SUFFICES ASSUME [Next]_vars
             PROVE  [breaker!Next]_(breaker!vars)
  OBVIOUS
<1> USE DEF breaker!Next
<1>1. ASSUME NEW r \in Requests, NEW a \in Actions, Submit(r, a)
      PROVE  breaker!Next
  BY <1>1 DEF Submit
<1>2. ASSUME NEW r \in Requests, Resolve(r) PROVE breaker!Next
  BY <1>2 DEF Resolve, ResolveKnown, ResolveUnknown, StoreFails
<1>3. ASSUME NEW r \in Requests, CancelRequest(r)
      PROVE  [breaker!Next]_(breaker!vars)
  BY <1>3 DEF CancelRequest, breakerVars, breaker!vars
<1>4. ASSUME NEW r \in Requests, Decide(r) \/ Return(r)
      PROVE  UNCHANGED breaker!vars
  BY <1>4 DEF Decide, Return, breakerVars, breaker!vars
<1>5. ASSUME NEW d \in Dids, Upsert(d) \/ Revoke(d)
      PROVE  UNCHANGED breaker!vars
  BY <1>5 DEF Upsert, Revoke, SetEntry, breakerVars, breaker!vars
<1>6. ASSUME NEW b \in Bundles, ReplaceBundle(b)
      PROVE  UNCHANGED breaker!vars
  BY <1>6 DEF ReplaceBundle, breakerVars, breaker!vars
<1>7. CASE Tick
  BY <1>7 DEF Tick
<1>8. CASE UNCHANGED vars
  BY <1>8 DEF vars, breaker!vars
<1> QED BY <1>1, <1>2, <1>3, <1>4, <1>5, <1>6, <1>7, <1>8 DEF Next, Resolve

(***************************************************************************)
(* Within the pipeline the breaker behaves as it is specified.             *)
(***************************************************************************)
LEMMA BreakerBehaves == Spec => breaker!Spec
<1>1. Init => breaker!Init
  BY DEF Init
<1> QED BY <1>1, StepIsBreakerStep, PTL DEF Spec, breaker!Spec

(***************************************************************************)
(* The two instances of the breaker take the same steps.                   *)
(***************************************************************************)
LEMMA SameBreaker ==
  /\ breaker!Init => B!Init
  /\ [breaker!Next]_(breaker!vars) => [B!Next]_(B!vars)
<1>1. breaker!Init => B!Init
  BY DEF breaker!Init, B!Init
<1>2. UNCHANGED breaker!vars => UNCHANGED B!vars
  BY DEF breaker!vars, B!vars
<1>3. breaker!Tick => B!Tick
  BY DEF breaker!Tick, B!Tick
<1>4. ASSUME NEW c \in Requests
      PROVE  /\ breaker!Admit(c) => B!Admit(c)
             /\ breaker!Reject(c) => B!Reject(c)
  BY DEF breaker!Admit, B!Admit, breaker!Reject, B!Reject,
     breaker!SeenState, B!SeenState, breaker!SeenProbes, B!SeenProbes,
     breaker!TimeoutElapsed, B!TimeoutElapsed, breaker!Returned, B!Returned,
     breaker!ProbeBudgetExhausted, B!ProbeBudgetExhausted
<1>5. ASSUME NEW c \in Requests
      PROVE  /\ breaker!Succeed(c) => B!Succeed(c)
             /\ breaker!Fail(c) => B!Fail(c)
             /\ breaker!Cancel(c) => B!Cancel(c)
  BY DEF breaker!Succeed, B!Succeed, breaker!Fail, B!Fail, breaker!Cancel, B!Cancel,
     breaker!InFlight, B!InFlight, breaker!FailureTrips, B!FailureTrips,
     breaker!Trip, B!Trip, breaker!CappedAt, B!CappedAt,
     breaker!Running, B!Running, breaker!FreshProbes, B!FreshProbes
<1>6. breaker!Next => B!Next
  BY <1>3, <1>4, <1>5 DEF breaker!Next, B!Next
<1> QED BY <1>1, <1>2, <1>6

-----------------------------------------------------------------------------
(***************************************************************************)
(* An action without an identity is never allowed: the last branch of      *)
(* _reconcile escalates it.                                                *)
(***************************************************************************)
LEMMA AllowNeedsIdentity ==
  ASSUME NEW b, NEW a, NEW f
  PROVE  Verdict(b, a, NoIdentity, f) # "allow"
BY DEF Verdict, TrustGate, Reconcile

(***************************************************************************)
(* An allowed action matches no DENY rule.                                 *)
(***************************************************************************)
LEMMA AllowMatchesNoDeny ==
  ASSUME NEW b, NEW a, NEW i, NEW f, Verdict(b, a, i, f) = "allow"
  PROVE  "deny" \notin Effects(b, a, i, f)
BY DEF Verdict, TrustGate, Reconcile

(***************************************************************************)
(* A rule that matches before any detector has reported still matches      *)
(* afterwards: the match language has no negation.                         *)
(***************************************************************************)
LEMMA EffectsOnlyGrow ==
  ASSUME NEW b, NEW a, NEW i, NEW f
  PROVE  Effects(b, a, i, <<>>) \subseteq Effects(b, a, i, f)
<1>1. ToSet(<<>>) = {}
  BY DEF ToSet
<1>2. Codes(<<>>) = {}
  BY <1>1 DEF Codes
<1>3. ASSUME NEW k, NEW v, Satisfies(k, v, a, i, <<>>)
      PROVE  Satisfies(k, v, a, i, f)
  BY <1>1, <1>2, <1>3 DEF Satisfies
<1>4. ASSUME NEW s, Matches(s, a, i, <<>>) PROVE Matches(s, a, i, f)
  BY <1>3, <1>4 DEF Matches
<1> QED BY <1>4 DEF Effects

-----------------------------------------------------------------------------
(***************************************************************************)
(* The inductive invariant holds initially: no evaluation is in progress.  *)
(***************************************************************************)
LEMMA InitIInv == Init => IInv
<1> SUFFICES ASSUME Init PROVE IInv
  OBVIOUS
<1>1. B!IInv
  BY BreakerAssumed, SameBreaker, B!InitIInv DEF Init
<1>2. breaker!TypeOK
  BY <1>1 DEF B!IInv, B!TypeOK, breaker!TypeOK, B!CircuitState,
     breaker!CircuitState, B!InFlight, breaker!InFlight, B!Returned,
     breaker!Returned
<1>3. TypeOK
  BY <1>2 DEF Init, TypeOK, IdleRequest, Evaluations
<1>4. BreakerCallsMatch
  BY DEF Init, BreakerCallsMatch, IdleRequest, breaker!Init, breaker!InFlight
<1>5. /\ HasAction /\ SeesBundle /\ SeesActive /\ IdentityEarned
      /\ FailsClosed /\ AllowedBySomeBundle
  BY DEF Init, HasAction, SeesBundle, SeesActive, IdentityEarned, FailsClosed,
     AllowedBySomeBundle, InProgress, Suspended, IdleRequest
<1> QED BY <1>1, <1>3, <1>4, <1>5 DEF IInv

(***************************************************************************)
(* The breaker's part of the invariant is preserved by every step.         *)
(***************************************************************************)
LEMMA NextBreaker ==
  ASSUME IInv, [Next]_vars
  PROVE  B!IInv' /\ breaker!TypeOK'
<1>1. B!IInv'
  BY BreakerAssumed, StepIsBreakerStep, SameBreaker, B!NextIInv DEF IInv
<1> QED
  BY <1>1 DEF B!IInv, B!TypeOK, breaker!TypeOK, B!CircuitState,
     breaker!CircuitState, B!InFlight, breaker!InFlight, B!Returned,
     breaker!Returned

\* The part of the invariant that speaks of evaluations and histories only.
EvaluationsOK ==
  /\ HasAction /\ SeesBundle /\ SeesActive /\ IdentityEarned
  /\ FailsClosed /\ AllowedBySomeBundle

(***************************************************************************)
(* An evaluation that ends leaves no trace.                                *)
(***************************************************************************)
LEMMA EndKeepsRest ==
  ASSUME IInv, NEW r \in Requests, EndOf(r), UNCHANGED storeVars
  PROVE  /\ req' \in [Requests -> Evaluations]
         /\ activeSeen' \subseteq Requests
         /\ bundlesSeen' \in [Requests -> SUBSET Bundles]
         /\ EvaluationsOK'
<1>1. req'[r] = IdleRequest /\ \A q \in Requests \ {r} : req'[q] = req[q]
  BY DEF EndOf, IInv, TypeOK
<1>2. \A q \in Requests \ {r} : bundlesSeen'[q] = bundlesSeen[q]
                               /\ (q \in activeSeen' <=> q \in activeSeen)
  BY DEF EndOf, IInv, TypeOK
<1>3. HasAction' /\ SeesBundle' /\ SeesActive' /\ IdentityEarned'
  BY <1>1, <1>2 DEF IInv, HasAction, SeesBundle, SeesActive, IdentityEarned,
     InProgress, Suspended, IdleRequest, storeVars
<1>4. FailsClosed' /\ AllowedBySomeBundle'
  BY <1>1, <1>2 DEF IInv, FailsClosed, AllowedBySomeBundle, IdleRequest
<1>5. IdleRequest \in Evaluations
  BY DEF IdleRequest, Evaluations
<1> QED BY <1>3, <1>4, <1>5 DEF EndOf, IInv, TypeOK, EvaluationsOK

(***************************************************************************)
(* A step of one evaluation keeps the invariant of the evaluations if what *)
(* it makes of that evaluation satisfies it.                               *)
(***************************************************************************)
LEMMA OneMoves ==
  ASSUME IInv, UNCHANGED <<storeVars, seenVars>>,
         NEW r \in Requests, InProgress(r),
         NEW q \in Evaluations, req' = [req EXCEPT ![r] = q],
         q.phase # "idle", q.action = req[r].action,
         q.phase # "resolving",
         q.identity # NoIdentity =>
           r \in activeSeen /\ ~q.degraded /\ ~q.unknown,
         q.phase = "allowed" =>
           /\ q.identity # NoIdentity
           /\ "deny" \notin Effects(bundle, q.action, q.identity, <<>>)
  PROVE  req' \in [Requests -> Evaluations] /\ EvaluationsOK'
<1>1. req'[r] = q /\ \A p \in Requests \ {r} : req'[p] = req[p]
  BY DEF IInv, TypeOK
<1>2. HasAction' /\ SeesBundle' /\ SeesActive' /\ IdentityEarned'
  BY <1>1 DEF IInv, HasAction, SeesBundle, SeesActive, IdentityEarned,
     InProgress, Suspended, storeVars, seenVars
<1>3. FailsClosed'
  BY <1>1 DEF IInv, FailsClosed
<1>4. AllowedBySomeBundle'
  BY <1>1 DEF IInv, AllowedBySomeBundle, SeesBundle, storeVars, seenVars
<1> QED BY <1>2, <1>3, <1>4 DEF IInv, TypeOK, EvaluationsOK

(***************************************************************************)
(* Admission puts exactly one call in flight, and every return takes it    *)
(* out.                                                                    *)
(***************************************************************************)
LEMMA CallMoves ==
  ASSUME breaker!TypeOK, NEW c \in Requests
  PROVE  /\ breaker!Admit(c) =>
              /\ call'[c] \in breaker!InFlight
              /\ \A q \in Requests \ {c} : call'[q] = call[q]
         /\ breaker!Reject(c) \/ breaker!Succeed(c) \/ breaker!Fail(c)
              \/ breaker!Cancel(c) =>
              /\ call'[c] \notin breaker!InFlight
              /\ \A q \in Requests \ {c} : call'[q] = call[q]
<1>1. breaker!Admit(c) => /\ call'[c] \in breaker!InFlight
                          /\ \A q \in Requests \ {c} : call'[q] = call[q]
  BY DEF breaker!TypeOK, breaker!Admit, breaker!InFlight
<1>2. breaker!Reject(c) \/ breaker!Succeed(c) \/ breaker!Fail(c) \/ breaker!Cancel(c)
        => \E o \in {"rejected", "ok", "failed", "cancelled"} :
              call' = [call EXCEPT ![c] = o]
  BY DEF breaker!Reject, breaker!Succeed, breaker!Fail, breaker!Cancel
<1>3. ASSUME NEW o \in {"rejected", "ok", "failed", "cancelled"},
             call' = [call EXCEPT ![c] = o]
      PROVE  /\ call'[c] \notin breaker!InFlight
             /\ \A q \in Requests \ {c} : call'[q] = call[q]
  BY <1>3 DEF breaker!TypeOK, breaker!InFlight
<1> QED BY <1>1, <1>2, <1>3

(***************************************************************************)
(* Submitting an action preserves the invariant.                           *)
(***************************************************************************)
LEMMA SubmitIInv ==
  ASSUME IInv, NEW r \in Requests, NEW a \in Actions, Submit(r, a)
  PROVE  TypeOK' /\ BreakerCallsMatch' /\ EvaluationsOK'
<1> DEFINE q == req'[r]
<1>1. [Next]_vars
  BY DEF Next
<1>2. /\ q \in Evaluations
      /\ q.action = a /\ q.identity = NoIdentity
      /\ \/ breaker!Admit(r) /\ q.phase = "resolving" /\ ~q.degraded /\ ~q.unknown
         \/ breaker!Reject(r) /\ q.phase = "classifying"
      /\ \A p \in Requests \ {r} : req'[p] = req[p]
      /\ req' \in [Requests -> Evaluations]
  <2> DEFINE admitted == [IdleRequest EXCEPT !.phase = "resolving", !.action = a]
             rejected == [IdleRequest EXCEPT !.phase = "classifying", !.action = a,
                                             !.degraded = TRUE]
  <2>1. /\ admitted \in Evaluations
        /\ admitted.action = a /\ admitted.identity = NoIdentity
        /\ admitted.phase = "resolving" /\ ~admitted.degraded /\ ~admitted.unknown
    BY DEF IdleRequest, Evaluations, Suspended
  <2>2. /\ rejected \in Evaluations
        /\ rejected.action = a /\ rejected.identity = NoIdentity
        /\ rejected.phase = "classifying"
    BY DEF IdleRequest, Evaluations, Suspended
  <2>3. \/ breaker!Admit(r) /\ req' = [req EXCEPT ![r] = admitted]
        \/ breaker!Reject(r) /\ req' = [req EXCEPT ![r] = rejected]
    BY DEF Submit
  <2> HIDE DEF admitted, rejected
  <2> QED BY <2>1, <2>2, <2>3 DEF IInv, TypeOK
<1>3. /\ bundlesSeen'[r] = {bundle}
      /\ r \in activeSeen' <=> Active(store[a.did])
      /\ \A p \in Requests \ {r} : /\ bundlesSeen'[p] = bundlesSeen[p]
                                   /\ p \in activeSeen' <=> p \in activeSeen
  BY DEF Submit, IInv, TypeOK
<1>4. TypeOK'
  BY <1>1, <1>2, NextBreaker DEF Submit, IInv, TypeOK, storeVars
<1>5. BreakerCallsMatch'
  BY <1>2, CallMoves DEF IInv, TypeOK, BreakerCallsMatch
<1>6. HasAction' /\ SeesBundle' /\ SeesActive' /\ IdentityEarned'
  BY <1>2, <1>3 DEF Submit, IInv, HasAction, SeesBundle, SeesActive,
     IdentityEarned, InProgress, Suspended, storeVars
<1>7. FailsClosed' /\ AllowedBySomeBundle'
  BY <1>2, <1>3 DEF IInv, FailsClosed, AllowedBySomeBundle
<1> QED BY <1>4, <1>5, <1>6, <1>7 DEF EvaluationsOK

(***************************************************************************)
(* So does the store's answer, whatever it is.                             *)
(***************************************************************************)
LEMMA ResolveIInv ==
  ASSUME IInv, NEW r \in Requests, Resolve(r)
  PROVE  TypeOK' /\ BreakerCallsMatch' /\ EvaluationsOK'
<1> DEFINE q == req'[r]
<1>1. [Next]_vars
  BY DEF Next, Resolve
<1>2. /\ req[r].phase = "resolving"
      /\ UNCHANGED <<storeVars, seenVars>>
      /\ breaker!Succeed(r) \/ breaker!Fail(r)
  BY DEF Resolve, ResolveKnown, ResolveUnknown, StoreFails
<1>3. req[r] \in Evaluations /\ req[r].action.did \in Dids
      /\ store[req[r].action.did] \in Entries \cup {Absent}
  BY <1>2, PipelineAssumption DEF IInv, TypeOK, HasAction, PipelineAssumption
<1>4. req[r].identity = NoIdentity
  BY <1>2 DEF IInv, IdentityEarned
<1>5. InProgress(r)
  BY <1>2 DEF InProgress, Suspended
<1>6. PICK e \in Evaluations :
        /\ req' = [req EXCEPT ![r] = e]
        /\ e.phase \in {"classifying", "raised"}
        /\ e.action = req[r].action
        /\ e.identity # NoIdentity =>
             r \in activeSeen /\ ~e.degraded /\ ~e.unknown
  <2>1. CASE ResolveKnown(r)
    <3> DEFINE e == [req[r] EXCEPT !.phase = "classifying",
                                   !.identity = store[req[r].action.did].identity]
    <3>1. r \in activeSeen /\ ~req[r].degraded /\ ~req[r].unknown
      BY <1>2, <1>5, <2>1 DEF ResolveKnown, IInv, SeesActive, IdentityEarned
    <3>2. store[req[r].action.did].identity \in Identities
      BY <1>3, <2>1 DEF ResolveKnown, Active, Entries
    <3>3. /\ e \in Evaluations /\ e.phase = "classifying"
          /\ e.action = req[r].action
          /\ ~e.degraded /\ ~e.unknown
      BY <1>3, <3>1, <3>2 DEF Evaluations, Suspended
    <3>4. req' = [req EXCEPT ![r] = e]
      BY <2>1 DEF ResolveKnown
    <3> QED BY <3>1, <3>3, <3>4
  <2>2. CASE ResolveUnknown(r)
    <3> DEFINE e == [req[r] EXCEPT !.phase = "classifying", !.unknown = TRUE]
    <3>1. /\ e \in Evaluations /\ e.phase = "classifying"
          /\ e.action = req[r].action /\ e.identity = NoIdentity
      BY <1>3, <1>4 DEF Evaluations, Suspended
    <3>2. req' = [req EXCEPT ![r] = e]
      BY <2>2 DEF ResolveUnknown
    <3> QED BY <3>1, <3>2
  <2>3. CASE StoreFails(r)
    <3> DEFINE e1 == [req[r] EXCEPT !.phase = "raised"]
               e2 == [req[r] EXCEPT !.phase = "classifying", !.degraded = TRUE]
    <3>1. /\ e1 \in Evaluations /\ e1.phase = "raised"
          /\ e1.action = req[r].action /\ e1.identity = NoIdentity
      BY <1>3, <1>4 DEF Evaluations, Answered
    <3>2. /\ e2 \in Evaluations /\ e2.phase = "classifying"
          /\ e2.action = req[r].action /\ e2.identity = NoIdentity
      BY <1>3, <1>4 DEF Evaluations, Suspended
    <3>3. req' = [req EXCEPT ![r] = e1] \/ req' = [req EXCEPT ![r] = e2]
      BY <2>3 DEF StoreFails
    <3> QED BY <3>1, <3>2, <3>3
  <2> QED BY <2>1, <2>2, <2>3 DEF Resolve
<1>7. req' \in [Requests -> Evaluations] /\ EvaluationsOK'
  BY <1>2, <1>5, <1>6, OneMoves
<1>8. TypeOK'
  BY <1>1, <1>2, <1>7, NextBreaker DEF IInv, TypeOK, storeVars, seenVars
<1>9. BreakerCallsMatch'
  BY <1>2, <1>6, CallMoves DEF IInv, TypeOK, BreakerCallsMatch
<1> QED BY <1>7, <1>8, <1>9

(***************************************************************************)
(* The decision, from the policy to the gateway's reaction, preserves it.  *)
(***************************************************************************)
LEMMA DecideIInv ==
  ASSUME IInv, NEW r \in Requests, Decide(r)
  PROVE  TypeOK' /\ BreakerCallsMatch' /\ EvaluationsOK'
<1>1. [Next]_vars
  BY DEF Next
<1>2. /\ req[r].phase = "classifying" /\ InProgress(r)
      /\ req[r] \in Evaluations
      /\ UNCHANGED <<storeVars, seenVars, breakerVars>>
  BY DEF Decide, InProgress, Suspended, IInv, TypeOK
<1>3. PICK outcomes : req' = [req EXCEPT ![r] = Resume(r, outcomes)]
  BY DEF Decide
<1> DEFINE e == Resume(r, outcomes)
           f == RiskFactors(req[r].unknown, outcomes)
           v == Verdict(bundle, req[r].action, req[r].identity, f)
<1>4. /\ e \in Evaluations
      /\ e.phase = (IF v = "allow" THEN "allowed" ELSE "blocked")
      /\ e.action = req[r].action /\ e.identity = req[r].identity
      /\ e.degraded = req[r].degraded /\ e.unknown = req[r].unknown
  <2>1. (\E i \in 1 .. NClassifiers : outcomes[i].raised) \in BOOLEAN
    OBVIOUS
  <2> QED BY <1>2, <2>1 DEF Resume, Evaluations, Answered
<1>5. e.identity # NoIdentity => r \in activeSeen /\ ~e.degraded /\ ~e.unknown
  BY <1>4 DEF IInv, IdentityEarned
<1>6. e.phase = "allowed" =>
        /\ e.identity # NoIdentity
        /\ "deny" \notin Effects(bundle, e.action, e.identity, <<>>)
  <2> SUFFICES ASSUME e.phase = "allowed"
               PROVE  /\ e.identity # NoIdentity
                      /\ "deny" \notin Effects(bundle, e.action, e.identity, <<>>)
    OBVIOUS
  <2>1. v = "allow"
    BY <1>4
  <2>2. req[r].identity # NoIdentity
    BY <2>1, AllowNeedsIdentity
  <2>3. "deny" \notin Effects(bundle, req[r].action, req[r].identity, f)
    BY <2>1, AllowMatchesNoDeny
  <2> QED BY <1>4, <2>2, <2>3, EffectsOnlyGrow
<1> HIDE DEF e
<1>7. req' \in [Requests -> Evaluations] /\ EvaluationsOK'
  <2>1. e.phase # "idle" /\ e.phase # "resolving" /\ req' = [req EXCEPT ![r] = e]
    BY <1>3, <1>4 DEF e
  <2>2. UNCHANGED <<storeVars, seenVars>>
    BY <1>2
  <2> QED BY <1>2, <1>4, <1>5, <1>6, <2>1, <2>2, OneMoves
<1>8. TypeOK'
  BY <1>1, <1>2, <1>7, NextBreaker DEF IInv, TypeOK, storeVars, seenVars
<1>9. BreakerCallsMatch'
  <2>1. req'[r].phase # "resolving" /\ \A p \in Requests \ {r} : req'[p] = req[p]
    BY <1>3, <1>4 DEF IInv, TypeOK, e
  <2> QED BY <1>2, <2>1 DEF IInv, BreakerCallsMatch, breakerVars
<1> QED BY <1>7, <1>8, <1>9

(***************************************************************************)
(* So do a cancelled evaluation and one that returns.                      *)
(***************************************************************************)
LEMMA EndIInv ==
  ASSUME IInv, NEW r \in Requests, CancelRequest(r) \/ Return(r)
  PROVE  TypeOK' /\ BreakerCallsMatch' /\ EvaluationsOK'
<1>1. [Next]_vars
  BY DEF Next
<1>2. EndOf(r) /\ UNCHANGED storeVars
  BY DEF CancelRequest, Return
<1>3. TypeOK' /\ EvaluationsOK'
  BY <1>1, <1>2, EndKeepsRest, NextBreaker DEF IInv, TypeOK, storeVars
<1>4. BreakerCallsMatch'
  <2>1. req'[r] = IdleRequest /\ \A p \in Requests \ {r} : req'[p] = req[p]
    BY <1>2 DEF EndOf, IInv, TypeOK
  <2>2. CASE req[r].phase = "resolving"
    <3>1. breaker!Cancel(r)
      BY <2>2 DEF CancelRequest, Return, Answered
    <3> QED BY <2>1, <3>1, CallMoves DEF IInv, TypeOK, BreakerCallsMatch, IdleRequest
  <2>3. CASE req[r].phase # "resolving"
    <3>1. UNCHANGED call
      BY <2>3 DEF CancelRequest, Return, breakerVars
    <3> QED BY <2>1, <2>3, <3>1 DEF IInv, BreakerCallsMatch, IdleRequest
  <2> QED BY <2>2, <2>3
<1> QED BY <1>3, <1>4

(***************************************************************************)
(* And so do changes of the identity store and of the policy bundle, and   *)
(* the clock.                                                              *)
(***************************************************************************)
LEMMA EnvironmentIInv ==
  ASSUME IInv,
         \/ \E d \in Dids : Upsert(d) \/ Revoke(d)
         \/ \E b \in Bundles : ReplaceBundle(b)
         \/ Tick
         \/ UNCHANGED vars
  PROVE  TypeOK' /\ BreakerCallsMatch' /\ EvaluationsOK'
<1>0. B!IInv' /\ breaker!TypeOK'
  BY NextBreaker DEF Next
<1>1. UNCHANGED <<req, call>>
  BY DEF Upsert, Revoke, SetEntry, ReplaceBundle, Tick, breaker!Tick, vars, breakerVars
<1>2. BreakerCallsMatch' /\ HasAction' /\ FailsClosed'
  BY <1>1 DEF IInv, BreakerCallsMatch, HasAction, FailsClosed
<1>3. ASSUME NEW d \in Dids, NEW entry \in Entries \cup {Absent}, SetEntry(d, entry)
      PROVE  TypeOK' /\ EvaluationsOK'
  <2>1. TypeOK'
    BY <1>0, <1>3 DEF SetEntry, IInv, TypeOK
  <2>2. SeesActive'
    BY <1>1, <1>3 DEF SetEntry, IInv, TypeOK, SeesActive, InProgress
  <2>3. SeesBundle' /\ IdentityEarned' /\ AllowedBySomeBundle'
    BY <1>1, <1>3 DEF SetEntry, IInv, SeesBundle, IdentityEarned,
       AllowedBySomeBundle, InProgress
  <2> QED BY <1>2, <2>1, <2>2, <2>3 DEF EvaluationsOK
<1>4. ASSUME NEW d \in Dids, Upsert(d) \/ Revoke(d) PROVE TypeOK' /\ EvaluationsOK'
  <2>1. CASE Upsert(d)
    BY <1>3, <2>1 DEF Upsert
  <2>2. CASE Revoke(d)
    <3>1. store[d] \in Entries
      BY <2>2 DEF Revoke, Active, IInv, TypeOK
    <3>2. [store[d] EXCEPT !.revoked = TRUE] \in Entries
      BY <3>1 DEF Entries
    <3> QED BY <1>3, <2>2, <3>2 DEF Revoke
  <2> QED BY <1>4, <2>1, <2>2
<1>5. ASSUME NEW b \in Bundles, ReplaceBundle(b) PROVE TypeOK' /\ EvaluationsOK'
  <2>1. TypeOK'
    BY <1>0, <1>5 DEF ReplaceBundle, IInv, TypeOK
  <2>2. SeesBundle' /\ SeesActive' /\ IdentityEarned'
    BY <1>1, <1>5 DEF ReplaceBundle, IInv, TypeOK, SeesBundle, SeesActive,
       IdentityEarned, InProgress
  <2>3. \A r \in Requests : bundlesSeen[r] \subseteq bundlesSeen'[r]
    BY <1>5 DEF ReplaceBundle
  <2>4. AllowedBySomeBundle'
    BY <1>1, <2>3 DEF IInv, AllowedBySomeBundle
  <2> QED BY <1>2, <2>1, <2>2, <2>4 DEF EvaluationsOK
<1>6. CASE Tick \/ UNCHANGED vars
  <2>1. UNCHANGED <<store, bundle, req, activeSeen, bundlesSeen>>
    BY <1>6 DEF Tick, storeVars, seenVars, vars
  <2> QED BY <1>0, <1>2, <2>1 DEF IInv, TypeOK, SeesBundle, SeesActive,
             IdentityEarned, AllowedBySomeBundle, InProgress, EvaluationsOK
<1> QED BY <1>2, <1>4, <1>5, <1>6

(***************************************************************************)
(* The invariant is inductive.                                             *)
(***************************************************************************)
LEMMA NextIInv == IInv /\ [Next]_vars => IInv'
<1> SUFFICES ASSUME IInv, [Next]_vars PROVE IInv'
  OBVIOUS
<1>1. B!IInv'
  BY NextBreaker
<1>2. TypeOK' /\ BreakerCallsMatch' /\ EvaluationsOK'
  BY SubmitIInv, ResolveIInv, DecideIInv, EndIInv, EnvironmentIInv
     DEF Next, Resolve
<1> QED BY <1>1, <1>2 DEF IInv, EvaluationsOK

(***************************************************************************)
(* Type correctness of the pipeline and of the breaker inside it.          *)
(***************************************************************************)
THEOREM TypeCorrect == Spec => []TypeOK
<1>1. IInv => TypeOK
  BY DEF IInv
<1> QED BY <1>1, InitIInv, NextIInv, PTL DEF Spec

(***************************************************************************)
(* The pipeline implements its breaker's specification, and no evaluation  *)
(* ends with its call still counted by the breaker.                        *)
(***************************************************************************)
THEOREM ImplementsBreaker == Spec => BreakerSpec
<1>1. IInv => BreakerCallsMatch
  BY DEF IInv
<1> QED BY <1>1, InitIInv, NextIInv, BreakerBehaves, PTL DEF Spec, BreakerSpec

(***************************************************************************)
(* No action runs for an agent that was not active during its evaluation.  *)
(***************************************************************************)
THEOREM OnlyActiveAgents == Spec => []AllowedAgentWasActive
<1>1. IInv => AllowedAgentWasActive
  BY DEF IInv, AllowedAgentWasActive, FailsClosed, IdentityEarned
<1> QED BY <1>1, InitIInv, NextIInv, PTL DEF Spec

(***************************************************************************)
(* No action runs without an established identity.                         *)
(***************************************************************************)
THEOREM DegradationFailsClosed == Spec => []FailsClosed
<1>1. IInv => FailsClosed
  BY DEF IInv
<1> QED BY <1>1, InitIInv, NextIInv, PTL DEF Spec

(***************************************************************************)
(* No action runs that every bundle active during its evaluation denies.   *)
(***************************************************************************)
THEOREM SomeBundleAllows == Spec => []AllowedBySomeBundle
<1>1. IInv => AllowedBySomeBundle
  BY DEF IInv
<1> QED BY <1>1, InitIInv, NextIInv, PTL DEF Spec

-----------------------------------------------------------------------------
(***************************************************************************)
(* The decision of DecisionProofs is this one.                             *)
(***************************************************************************)
LEMMA SameDecision ==
  ASSUME NEW b, NEW a, NEW i, NEW unknown, NEW outcomes
  PROVE  /\ Verdict(b, a, i, RiskFactors(unknown, outcomes))
              = D!Verdict(b, a, i, D!RiskFactors(unknown, outcomes))
         /\ Factor = D!Factor
<1>1. \A u, o : RiskFactors(u, o) = D!RiskFactors(u, o)
  BY DEF RiskFactors, D!RiskFactors, SafeRun, D!SafeRun, FlattenSeq, D!FlattenSeq
<1>2. \A f : AggregateRisk(f) = D!AggregateRisk(f)
  <2>1. \A s : Product(s) = D!Product(s)
    BY DEF Product, D!Product
  <2>2. \A f : SafeProduct(f) = D!SafeProduct(f) /\ Whole(f) = D!Whole(f)
    BY <2>1 DEF SafeProduct, D!SafeProduct, Whole, D!Whole, Clamp, D!Clamp
  <2> QED BY <2>2 DEF AggregateRisk, D!AggregateRisk
<1>3. \A f : Effects(b, a, i, f) = D!Effects(b, a, i, f)
  BY DEF Effects, D!Effects, Matches, D!Matches, Satisfies, D!Satisfies, Codes, D!Codes,
     ToSet, D!ToSet, NoIdentity, D!NoIdentity
<1>4. \A E, s : Reconcile(E, s, i) = D!Reconcile(E, s, i)
  BY DEF Reconcile, D!Reconcile, DenyThreshold, D!DenyThreshold, EscalateThreshold,
     D!EscalateThreshold, ThrottleThreshold, D!ThrottleThreshold, NoIdentity, D!NoIdentity
<1>5. \A f, v : TrustGate(a, i, f, v) = D!TrustGate(a, i, f, v)
  BY DEF TrustGate, D!TrustGate, Adjust, D!Adjust, Tier, D!Tier, Clamp, D!Clamp,
     Penalty, D!Penalty, CleanRecovery, D!CleanRecovery, ReadOnlyTypes,
     D!ReadOnlyTypes, NoIdentity, D!NoIdentity
<1>6. Factor = D!Factor
  BY DEF Factor, D!Factor
<1> QED BY <1>1, <1>2, <1>3, <1>4, <1>5, <1>6 DEF Verdict, D!Verdict

(***************************************************************************)
(* The facts of DecisionProofs ask nothing of an empty case.               *)
(***************************************************************************)
LEMMA DecisionAssumed == D!GrowthAssumption
BY DEF D!GrowthAssumption

(***************************************************************************)
(* The error of one classifier is enough to refuse the action: its factor  *)
(* alone takes the risk score over the throttle threshold.                 *)
(***************************************************************************)
LEMMA ErrorRefuses ==
  ASSUME NEW b, NEW a, NEW d, NEW unknown \in BOOLEAN,
         NEW outcomes \in [1 .. NClassifiers -> Outcomes],
         NEW i \in 1 .. NClassifiers, outcomes[i].raised
  PROVE  Verdict(b, a, d, RiskFactors(unknown, outcomes)) # "allow"
<1> DEFINE x == [code |-> "classifier.error", severity |-> 12]
<1>1. Outcomes \subseteq D!Outcome
  <2>1. Reports \subseteq Seq(D!Factor)
    BY PipelineAssumption, SameDecision DEF PipelineAssumption
  <2>2. ASSUME NEW o \in [raised : {FALSE}, report : Reports] PROVE o \in D!Outcome
    BY <2>1 DEF D!Outcome
  <2>3. [raised |-> TRUE, report |-> <<>>] \in D!Outcome
    BY DEF D!Outcome
  <2> QED BY <2>2, <2>3 DEF Outcomes
<1>2. outcomes \in Seq(D!Outcome) /\ DOMAIN outcomes = 1 .. NClassifiers
  BY <1>1, PipelineAssumption DEF PipelineAssumption
<1>3. D!SafeRun(outcomes[i]) = <<x>>
  BY DEF D!SafeRun
<1>4. D!Occurs(x, <<x>>) /\ x.severity >= 7
  BY DEF D!Occurs
<1> HIDE DEF x
<1>5. D!Verdict(b, a, d, D!RiskFactors(unknown, outcomes)) # "allow"
  BY <1>2, <1>3, <1>4, DecisionAssumed, D!GraveReportBlocks
<1> QED BY <1>5, SameDecision

(***************************************************************************)
(* An evaluation comes to be allowed by its decision only.                 *)
(***************************************************************************)
LEMMA OnlyDecideAllows ==
  ASSUME IInv, [Next]_vars, NEW q \in Requests, req'[q].phase = "allowed"
  PROVE  req'[q] = req[q] \/ Decide(q)
<1>1. req \in [Requests -> Evaluations]
  BY DEF IInv, TypeOK
<1>2. ASSUME NEW r \in Requests, NEW e, req' = [req EXCEPT ![r] = e], e.phase # "allowed"
      PROVE  req'[q] = req[q]
  BY <1>1, <1>2
<1>3. ASSUME NEW r \in Requests, NEW a \in Actions, Submit(r, a) PROVE req'[q] = req[q]
  <2> DEFINE e1 == [IdleRequest EXCEPT !.phase = "resolving", !.action = a]
             e2 == [IdleRequest EXCEPT
                      !.phase = "classifying", !.action = a, !.degraded = TRUE]
  <2>1. req' = [req EXCEPT ![r] = e1] \/ req' = [req EXCEPT ![r] = e2]
    BY <1>3 DEF Submit
  <2>2. e1.phase # "allowed" /\ e2.phase # "allowed"
    BY DEF IdleRequest
  <2> HIDE DEF e1, e2
  <2> QED BY <1>2, <2>1, <2>2
<1>4. ASSUME NEW r \in Requests, Resolve(r) PROVE req'[q] = req[q]
  <2>1. req[r] \in Evaluations
    BY <1>1
  <2> QED BY <1>1, <1>4, <2>1 DEF Resolve, ResolveKnown, ResolveUnknown, StoreFails, Evaluations
<1>5. ASSUME NEW r \in Requests, Decide(r) PROVE req'[q] = req[q] \/ r = q
  BY <1>1, <1>5 DEF Decide
<1>6. ASSUME NEW r \in Requests, CancelRequest(r) \/ Return(r) PROVE req'[q] = req[q]
  <2>1. req' = [req EXCEPT ![r] = IdleRequest]
    BY <1>6 DEF CancelRequest, Return, EndOf
  <2> QED BY <1>2, <2>1 DEF IdleRequest
<1>7. ASSUME \/ \E d \in Dids : Upsert(d) \/ Revoke(d)
             \/ \E b \in Bundles : ReplaceBundle(b)
             \/ Tick \/ UNCHANGED vars
      PROVE  req'[q] = req[q]
  BY <1>7 DEF Upsert, Revoke, SetEntry, ReplaceBundle, Tick, vars
<1> QED BY <1>3, <1>4, <1>5, <1>6, <1>7 DEF Next, Resolve

(***************************************************************************)
(* No action runs when one of its classifiers raised, for every number of  *)
(* classifiers and every report of the others.                             *)
(***************************************************************************)
THEOREM ErrorsBlock == Spec => []ClassifierErrorBlocks
<1>1. Init => ClassifierErrorBlocks
  BY DEF Init, ClassifierErrorBlocks, IdleRequest
<1>2. IInv /\ ClassifierErrorBlocks /\ [Next]_vars => ClassifierErrorBlocks'
  <2> SUFFICES ASSUME IInv, ClassifierErrorBlocks, [Next]_vars,
                      NEW q \in Requests, req'[q].phase = "allowed", req'[q] # req[q]
               PROVE  ~req'[q].errored
    BY DEF ClassifierErrorBlocks
  <2>1. Decide(q)
    BY OnlyDecideAllows
  <2>2. PICK outcomes \in [1 .. NClassifiers -> Outcomes] :
          req' = [req EXCEPT ![q] = Resume(q, outcomes)]
    BY <2>1 DEF Decide
  <2>3. req[q] \in Evaluations /\ req'[q] = Resume(q, outcomes)
    BY <2>2 DEF IInv, TypeOK
  <2>4. /\ req[q].unknown \in BOOLEAN
        /\ Verdict(bundle, req[q].action, req[q].identity,
                   RiskFactors(req[q].unknown, outcomes)) = "allow"
        /\ req'[q].errored = \E i \in 1 .. NClassifiers : outcomes[i].raised
    BY <2>3 DEF Evaluations, Resume
  <2> QED BY <2>4, ErrorRefuses
<1> QED BY <1>1, <1>2, InitIInv, NextIInv, PTL DEF Spec

=============================================================================
