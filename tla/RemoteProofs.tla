---------------------------- MODULE RemoteProofs ----------------------------
(***************************************************************************)
(* What the token bucket guarantees by itself and the chain of checks with *)
(* it, for every set of clients, tenants and tokens, every burst and every *)
(* refill rate.                                                            *)
(***************************************************************************)
EXTENDS Remote, TLAPS

(***************************************************************************)
(* What a tenant was served beyond its refill, and what it may still take, *)
(* never exceed the capacity together.                                     *)
(***************************************************************************)
Budget ==
  \A t \in Tenants :
    IF t \in created THEN excess[t] + Available(t) <= Capacity ELSE excess[t] = 0

IInv == TypeOK /\ Budget

-----------------------------------------------------------------------------
(***************************************************************************)
(* A bucket holds between nothing and its capacity.                        *)
(***************************************************************************)
LEMMA AvailableInRange ==
  ASSUME TypeOK, NEW t \in Tenants
  PROVE  Available(t) \in 0 .. Capacity
BY LimitAssumption DEF LimitAssumption, TypeOK, Available, CappedAt, Capacity

(***************************************************************************)
(* The inductive invariant: a request moves its cost from one side of the  *)
(* budget to the other, a tick refills at most what it forgives.           *)
(***************************************************************************)
LEMMA InductiveBudget ==
  /\ Init => IInv
  /\ IInv /\ [Next]_vars => IInv'
<1> USE LimitAssumption DEF LimitAssumption
<1>1. Init => IInv
  BY DEF Init, IInv, TypeOK, Budget, Capacity
<1>2. ASSUME IInv, NEW t \in Tenants, Request(t) PROVE IInv'
  <2>1. Available(t) \in 0 .. Capacity /\ Capacity \in Nat
    BY <1>2, AvailableInRange DEF IInv, Capacity
  <2>2. TypeOK'
    BY <1>2, <2>1 DEF IInv, TypeOK, Request, Cost
  <2>3. excess[t] + Available(t) <= Capacity
    BY <1>2, <2>1 DEF IInv, TypeOK, Budget, Available
  <2>4. /\ t \in created'
        /\ excess'[t] + tokens'[t] = excess[t] + Available(t)
        /\ tokens'[t] \in 0 .. Capacity /\ owed'[t] = 0
    BY <1>2, <2>1 DEF IInv, TypeOK, Request, Cost
  <2>5. excess'[t] + Available(t)' <= Capacity
    BY <2>1, <2>2, <2>3, <2>4 DEF Available, CappedAt, TypeOK
  <2>6. ASSUME NEW u \in Tenants, u # t
        PROVE  IF u \in created' THEN excess'[u] + Available(u)' <= Capacity
               ELSE excess'[u] = 0
    <3>1. /\ u \in created' <=> u \in created
          /\ tokens'[u] = tokens[u] /\ owed'[u] = owed[u] /\ excess'[u] = excess[u]
      BY <1>2, <2>6 DEF IInv, TypeOK, Request
    <3>2. Available(u)' = Available(u)
      BY <3>1 DEF Available
    <3> QED BY <1>2, <3>1, <3>2 DEF IInv, Budget
  <2> QED BY <2>2, <2>4, <2>5, <2>6 DEF IInv, Budget
<1>3. ASSUME IInv, Tick PROVE IInv'
  <2>1. TypeOK'
    BY <1>3 DEF IInv, TypeOK, Tick, CappedAt, Capacity
  <2>2. ASSUME NEW t \in Tenants
        PROVE  IF t \in created' THEN excess'[t] + Available(t)' <= Capacity
               ELSE excess'[t] = 0
    <3>1. CASE t \in created
      <4>1. /\ owed'[t] = CappedAt(owed[t] + Refill, MaxOwed)
            /\ excess'[t] = IF excess[t] > Refill THEN excess[t] - Refill ELSE 0
            /\ tokens'[t] = tokens[t] /\ t \in created'
        BY <1>3, <3>1 DEF Tick
      <4>2. excess[t] + CappedAt(tokens[t] + owed[t], Capacity) <= Capacity
        BY <1>3, <3>1 DEF IInv, Budget, Available
      <4>3. excess'[t] + CappedAt(tokens'[t] + owed'[t], Capacity) <= Capacity
        BY <1>3, <4>1, <4>2 DEF IInv, TypeOK, CappedAt, Capacity
      <4> QED BY <4>1, <4>3 DEF Available
    <3>2. CASE t \notin created
      BY <1>3, <3>2 DEF IInv, Budget, Tick
    <3> QED BY <3>1, <3>2
  <2> QED BY <2>1, <2>2 DEF IInv, Budget
<1>4. ASSUME IInv, UNCHANGED vars PROVE IInv'
  BY <1>4 DEF vars, IInv, TypeOK, Budget, Available
<1> QED BY <1>1, <1>2, <1>3, <1>4 DEF Next

(***************************************************************************)
(* Type correctness: a bucket never holds less than nothing or more than   *)
(* its capacity.                                                           *)
(***************************************************************************)
THEOREM TypeCorrect == Spec => []TypeOK
<1>1. IInv => TypeOK
  BY DEF IInv
<1> QED BY <1>1, InductiveBudget, PTL DEF Spec

(***************************************************************************)
(* No window of time holds more served requests than the burst and the     *)
(* rate allow.                                                             *)
(***************************************************************************)
THEOREM RateIsKept == Spec => []WindowBound
<1>1. IInv => WindowBound
  <2> SUFFICES ASSUME IInv, NEW t \in Tenants PROVE excess[t] <= Capacity
    BY DEF WindowBound
  <2>1. Available(t) \in 0 .. Capacity /\ Capacity \in Nat
    BY LimitAssumption, AvailableInRange DEF LimitAssumption, IInv, Capacity
  <2> QED BY <2>1 DEF IInv, TypeOK, Budget
<1> QED BY <1>1, InductiveBudget, PTL DEF Spec

-----------------------------------------------------------------------------

\* What a request has passed on its way to where it is, and what its caller
\* may have made of it.
GoodCall(c, v) ==
  /\ v.at > 1 /\ v.at # 5 => v.public \/ c \in TrustedClients
  /\ v.at # 5 => v.reply = "none"
  /\ v.at = 4 \/ v.reply \in {"allow", "block"} =>
       c \in TrustedClients /\ KnownTenant(c) /\ ~v.foreign /\ ~v.public
  /\ v.reply = "page" => v.public
  /\ v.result = "allow" => v.reply = "allow"

RemoteInv ==
  /\ tenants \in SUBSET Names
  /\ call \in [Clients -> Calls]
  /\ \A c \in Clients : GoodCall(c, call[c])

-----------------------------------------------------------------------------
(***************************************************************************)
(* The places of the chain.                                                *)
(***************************************************************************)
LEMMA Places ==
  /\ Over = 5
  /\ \A c \in Clients :
       /\ At(c, "auth") <=> call[c].at = 1
       /\ At(c, "limit") <=> call[c].at = 2
       /\ At(c, "route") <=> call[c].at = 3
       /\ At(c, "interceptor") <=> call[c].at = 4
BY DEF Over, Chain, At

(***************************************************************************)
(* RateLimit's specification holds inside the chain: the limiter's buckets *)
(* are touched by its own steps alone.                                     *)
(***************************************************************************)
THEOREM ImplementsLimiter == RemoteSpec => LimiterSpec
<1>1. RemoteInit => Init
  BY DEF RemoteInit
<1>2. RemoteNext => [Next]_vars
  <2>1. ASSUME NEW c \in Clients, Limit(c) PROVE Next
    BY <2>1, RemoteAssumption DEF RemoteAssumption, Limit, Next
  <2>2. ASSUME NEW c \in Clients,
               \/ Submit(c) \/ Probe(c) \/ Authenticate(c) \/ Route(c) \/ Evaluate(c)
               \/ Lose(c) \/ Receive(c) \/ GiveUp(c) \/ Finish(c)
        PROVE  UNCHANGED vars
    BY <2>2 DEF Submit, Probe, Authenticate, Route, Evaluate, Lose, Receive, GiveUp, Finish
  <2>3. ASSUME NEW t \in Names, Register(t) PROVE UNCHANGED vars
    BY <2>3 DEF Register
  <2>4. ClockTick => Next
    BY DEF ClockTick, Next
  <2> QED BY <2>1, <2>2, <2>3, <2>4 DEF RemoteNext
<1>3. UNCHANGED allVars => UNCHANGED vars
  BY DEF allVars, vars
<1> QED BY <1>1, <1>2, <1>3, PTL DEF RemoteSpec, LimiterSpec, Spec

-----------------------------------------------------------------------------
(***************************************************************************)
(* The inductive invariant at the start.                                   *)
(***************************************************************************)
LEMMA RemoteStarts == RemoteInit => RemoteInv
<1> SUFFICES ASSUME RemoteInit PROVE RemoteInv
  OBVIOUS
<1>1. \A c \in Clients : call[c] = IdleCall
  BY DEF RemoteInit
<1>2. IdleCall \in Calls
  BY Places DEF IdleCall, CallAt, Calls
<1>3. call \in [Clients -> Calls] /\ tenants \in SUBSET Names
  BY <1>2, RemoteAssumption DEF RemoteInit, RemoteAssumption
<1>4. \A c \in Clients : GoodCall(c, call[c])
  BY <1>1 DEF GoodCall, IdleCall, CallAt
<1> QED BY <1>3, <1>4 DEF RemoteInv

(***************************************************************************)
(* A step that changes one client's call and no tenant keeps the invariant *)
(* if the call it leaves behind satisfies it.                              *)
(***************************************************************************)
LEMMA OneCall ==
  ASSUME RemoteInv, NEW c \in Clients, NEW v \in Calls, GoodCall(c, v),
         call' = [call EXCEPT ![c] = v], tenants' = tenants
  PROVE  RemoteInv'
<1>1. /\ call' \in [Clients -> Calls]
      /\ call'[c] = v
      /\ \A d \in Clients \ {c} : call'[d] = call[d]
  BY DEF RemoteInv
<1>2. ASSUME NEW d \in Clients PROVE GoodCall(d, call[d])'
  <2>1. CASE d = c
    BY <2>1, <1>1 DEF GoodCall, TrustedClients, KnownTenant
  <2>2. CASE d # c
    BY <2>2, <1>1 DEF GoodCall, TrustedClients, KnownTenant, RemoteInv
  <2> QED BY <2>1, <2>2
<1> QED BY <1>1, <1>2 DEF RemoteInv

(***************************************************************************)
(* Every step of a request keeps the invariant.                            *)
(***************************************************************************)
LEMMA RequestKeeps ==
  ASSUME RemoteInv, NEW c \in Clients,
         \/ Submit(c) \/ Probe(c) \/ Authenticate(c) \/ Limit(c) \/ Route(c) \/ Evaluate(c)
         \/ Lose(c) \/ Receive(c) \/ GiveUp(c) \/ Finish(c)
  PROVE  RemoteInv'
<1> DEFINE q == call[c]
<1>1. /\ q \in Calls /\ q.at \in 0 .. 5
      /\ q.foreign \in BOOLEAN /\ q.public \in BOOLEAN
      /\ GoodCall(c, q)
  BY Places DEF RemoteInv, Calls
<1> HIDE DEF q
<1>2. CASE Submit(c)
  <2>1. PICK foreign \in BOOLEAN : call' = [call EXCEPT ![c] = CallAt(1, FALSE, foreign)]
    BY <1>2 DEF Submit
  <2>2. CallAt(1, FALSE, foreign) \in Calls /\ GoodCall(c, CallAt(1, FALSE, foreign))
    BY Places DEF Calls, GoodCall, CallAt
  <2> QED BY <1>2, <2>1, <2>2, OneCall DEF Submit
<1>3. CASE Probe(c)
  <2>1. CallAt(1, TRUE, FALSE) \in Calls /\ GoodCall(c, CallAt(1, TRUE, FALSE))
    BY Places DEF Calls, GoodCall, CallAt
  <2> QED BY <1>3, <2>1, OneCall DEF Probe
<1>4. ASSUME Pass(c), q.at \in 1 .. 3, q.public \/ c \in TrustedClients,
             tenants' = tenants,
             q.at = 3 => KnownTenant(c) /\ ~q.foreign /\ ~q.public
      PROVE  RemoteInv'
  <2> DEFINE v == [q EXCEPT !.at = @ + 1]
  <2>1. call' = [call EXCEPT ![c] = v]
    BY <1>4 DEF Pass, q, RemoteInv, Calls
  <2>2. /\ v \in Calls /\ v.at = q.at + 1 /\ v.reply = q.reply
        /\ v.result = q.result /\ v.foreign = q.foreign /\ v.public = q.public
    BY <1>1, <1>4, Places DEF Calls
  <2> HIDE DEF v
  <2>3. GoodCall(c, v)
    BY <1>1, <1>4, <2>2 DEF GoodCall
  <2> QED BY <1>4, <2>1, <2>2, <2>3, OneCall
<1>5. ASSUME NEW reply \in {"allow", "block", "failed", "garbled", "page"},
             Reply(c, reply), q.at \in 1 .. 4, tenants' = tenants,
             reply \in {"allow", "block"} => q.at = 4,
             reply = "page" => q.public
      PROVE  RemoteInv'
  <2> DEFINE w == [q EXCEPT !.at = Over]
             v == [w EXCEPT !.reply = reply]
  <2>1. call' = [call EXCEPT ![c] = v]
    BY <1>5 DEF Reply, q, RemoteInv, Calls
  <2>2. /\ w \in Calls /\ w.at = 5 /\ w.result = q.result
        /\ w.foreign = q.foreign /\ w.public = q.public
    BY <1>1, Places DEF Calls
  <2> HIDE DEF w
  <2>3. /\ v \in Calls /\ v.at = 5 /\ v.reply = reply
        /\ v.result = q.result /\ v.foreign = q.foreign /\ v.public = q.public
    BY <2>2, <1>5 DEF Calls
  <2> HIDE DEF v
  <2>4. GoodCall(c, v)
    BY <1>1, <1>5, <2>3 DEF GoodCall
  <2> QED BY <1>5, <2>1, <2>3, <2>4, OneCall
<1>6. CASE Authenticate(c)
  <2>1. q.at = 1 /\ tenants' = tenants
    BY <1>6, Places DEF Authenticate, q
  <2> QED BY <1>4, <1>5, <1>6, <2>1 DEF Authenticate, Admitted, q
<1>7. CASE Limit(c)
  <2>1. q.at = 2 /\ tenants' = tenants
    BY <1>7, Places DEF Limit, q
  <2>2. q.public \/ c \in TrustedClients
    BY <2>1, <1>1 DEF GoodCall
  <2> QED BY <1>4, <1>5, <1>7, <2>1, <2>2 DEF Limit
<1>8. CASE Route(c)
  <2>1. q.at = 3 /\ tenants' = tenants
    BY <1>8, Places DEF Route, q
  <2>2. q.public \/ c \in TrustedClients
    BY <2>1, <1>1 DEF GoodCall
  <2> QED BY <1>4, <1>5, <1>8, <2>1, <2>2 DEF Route, q
<1>9. CASE Evaluate(c) \/ Lose(c)
  <2>1. tenants' = tenants
    BY <1>9 DEF Evaluate, Lose
  <2>2. CASE Evaluate(c)
    BY <1>5, <2>1, <2>2, Places DEF Evaluate, q
  <2>3. CASE Lose(c)
    BY <1>5, <2>1, <2>3 DEF Lose, q
  <2> QED BY <1>9, <2>2, <2>3
<1>10. ASSUME NEW result \in {"none", "allow", "block", "raised", "seen"},
             call' = [call EXCEPT ![c].result = result],
             result = "allow" => q.reply = "allow",
             tenants' = tenants
      PROVE  RemoteInv'
  <2> DEFINE v == [q EXCEPT !.result = result]
  <2>1. call' = [call EXCEPT ![c] = v]
    BY <1>10 DEF q, RemoteInv, Calls
  <2>2. /\ v \in Calls /\ v.at = q.at /\ v.reply = q.reply
        /\ v.result = result /\ v.foreign = q.foreign /\ v.public = q.public
    BY <1>1, <1>10 DEF Calls
  <2> HIDE DEF v
  <2>3. GoodCall(c, v)
    BY <1>1, <1>10, <2>2 DEF GoodCall
  <2> QED BY <1>10, <2>1, <2>2, <2>3, OneCall
<1>11. OnException(c) \in {"block", "raised"}
  BY DEF OnException
<1>12. CASE Receive(c)
  <2>1. q.reply \in {"none", "allow", "block", "failed", "garbled", "page"}
    BY <1>1 DEF Calls
  <2>2. /\ Result(c) \in {"none", "allow", "block", "raised", "seen"}
        /\ Result(c) = "allow" => q.reply = "allow"
    <3>1. CASE q.reply = "page"
      BY <3>1, <1>1 DEF Result, GoodCall, q
    <3>2. CASE q.reply # "page"
      BY <2>1, <3>2, <1>11 DEF Result, q
    <3> QED BY <3>1, <3>2
  <2> QED BY <2>2, <1>10, <1>12 DEF Receive
<1>13. CASE GiveUp(c)
  BY <1>10, <1>11, <1>13 DEF GiveUp
<1>14. CASE Finish(c)
  <2>1. IdleCall \in Calls /\ GoodCall(c, IdleCall)
    BY Places DEF IdleCall, CallAt, Calls, GoodCall
  <2>2. /\ call' = [call EXCEPT ![c] = IdleCall]
        /\ tenants' = tenants
    BY <1>14 DEF Finish
  <2> QED BY <2>1, <2>2, OneCall
<1> QED BY <1>2, <1>3, <1>6, <1>7, <1>8, <1>9, <1>12, <1>13, <1>14

(***************************************************************************)
(* RemoteInv is an invariant of remote evaluation.                         *)
(***************************************************************************)
LEMMA RemoteInvariance == RemoteSpec => []RemoteInv
<1>1. ASSUME RemoteInv, [RemoteNext]_allVars PROVE RemoteInv'
  <2>1. ASSUME NEW t \in Names, Register(t) PROVE RemoteInv'
    BY <1>1, <2>1 DEF Register, RemoteInv, GoodCall, KnownTenant, TrustedClients
  <2>2. CASE ClockTick \/ UNCHANGED allVars
    <3>1. UNCHANGED <<tenants, call>>
      BY <2>2 DEF ClockTick, remoteVars, allVars
    <3> QED BY <1>1, <3>1 DEF RemoteInv, GoodCall, KnownTenant, TrustedClients
  <2> QED BY <1>1, <2>1, <2>2, RequestKeeps DEF RemoteNext
<1> QED BY <1>1, RemoteStarts, PTL DEF RemoteSpec

-----------------------------------------------------------------------------
(***************************************************************************)
(* BearerAuthMiddleware, get_tenant and the route together: the            *)
(* interceptor sees authenticated requests of registered tenants about     *)
(* their own actions, and no others.                                       *)
(***************************************************************************)
THEOREM AuthorisedOnly == RemoteSpec => []OnlyAuthorisedEvaluated
<1>1. RemoteInv => OnlyAuthorisedEvaluated
  BY Places DEF RemoteInv, GoodCall, OnlyAuthorisedEvaluated
<1> QED BY <1>1, RemoteInvariance, PTL

(***************************************************************************)
(* Sentinel.evaluate never makes up an ALLOW.                              *)
(***************************************************************************)
THEOREM AllowComesFromServer == RemoteSpec => []AllowIsServers
<1>1. RemoteInv => AllowIsServers
  BY DEF RemoteInv, GoodCall, AllowIsServers
<1> QED BY <1>1, RemoteInvariance, PTL

(***************************************************************************)
(* The rate of RateLimit holds for what remote clients are served.         *)
(***************************************************************************)
THEOREM RateIsKeptRemotely == RemoteSpec => []WindowBound
BY ImplementsLimiter, RateIsKept, PTL DEF LimiterSpec

(***************************************************************************)
(* The variables keep their types.                                         *)
(***************************************************************************)
THEOREM RemoteTypeCorrect == RemoteSpec => []RemoteTypeOK
<1>1. RemoteInv /\ TypeOK => RemoteTypeOK
  BY DEF RemoteInv, RemoteTypeOK
<1> QED BY <1>1, RemoteInvariance, ImplementsLimiter, TypeCorrect, PTL DEF LimiterSpec

-----------------------------------------------------------------------------
(***************************************************************************)
(* Only the limiter moves a request on to the routes.                      *)
(***************************************************************************)
LEMMA OnlyLimitPasses ==
  ASSUME RemoteInv, NEW c \in Clients,
         \/ Submit(c) \/ Probe(c) \/ Authenticate(c) \/ Route(c) \/ Evaluate(c)
         \/ Lose(c) \/ Receive(c) \/ GiveUp(c) \/ Finish(c)
  PROVE  \A d \in Clients : call[d].at = 2 => call'[d].at # 3
<1>1. call \in [Clients -> Calls] /\ \A d \in Clients : call[d].at \in 0 .. 5
  BY Places DEF RemoteInv, Calls
<1>2. CASE Submit(c) \/ Probe(c) \/ Finish(c)
  <2>1. call[c].at \in {0, 5}
    <3>1. CASE Submit(c) \/ Probe(c)
      BY <3>1 DEF Submit, Probe
    <3>2. CASE Finish(c)
      BY <3>2, Places DEF Finish
    <3> QED BY <1>2, <3>1, <3>2
  <2>2. \A d \in Clients \ {c} : call'[d] = call[d]
    BY <1>1, <1>2 DEF Submit, Probe, Finish
  <2> QED BY <1>1, <2>1, <2>2
<1>3. CASE Authenticate(c) \/ Route(c) \/ Evaluate(c) \/ Lose(c)
  BY <1>1, <1>3, Places DEF Authenticate, Route, Evaluate, Lose, Pass, Reply
<1>4. CASE Receive(c) \/ GiveUp(c)
  BY <1>1, <1>4 DEF Receive, GiveUp, Calls
<1> QED BY <1>2, <1>3, <1>4

(***************************************************************************)
(* A bucket is charged for every request that BearerAuthMiddleware lets    *)
(* through and TenantRateLimitMiddleware serves, and for no other: refused *)
(* requests, of either middleware, and the passing of time take nothing.   *)
(***************************************************************************)
THEOREM ChargedForAdmission == RemoteSpec => TokenPerAdmission
<1> DEFINE Passed(t) == \E c \in Clients :
             Config[c].tenant = t /\ Admitted(c) /\ At(c, "limit") /\ At(c, "route")'
           Charged(t) == Available(t)' < Available(t) <=> Passed(t)
<1> USE LimitAssumption DEF LimitAssumption
<1>1. \A c \in Clients : /\ At(c, "limit") <=> call[c].at = 2
                         /\ At(c, "route")' <=> call'[c].at = 3
  BY DEF At, Chain
<1>2. ASSUME TypeOK, RemoteInv, NEW c \in Clients, Limit(c), NEW t \in Tenants
      PROVE  Charged(t)
  <2>1. /\ call[c].at = 2 /\ Config[c].tenant \in Tenants
        /\ call \in [Clients -> Calls]
        /\ Admitted(c)
    BY <1>1, <1>2, RemoteAssumption
       DEF RemoteAssumption, Limit, RemoteInv, GoodCall, Admitted
  <2>2. CASE Config[c].tenant # t
    <3>1. (t \in created' <=> t \in created) /\ tokens'[t] = tokens[t] /\ owed'[t] = owed[t]
      BY <1>2, <2>1, <2>2 DEF TypeOK, Limit, Request
    <3>2. Available(t)' = Available(t) /\ Available(t) \in 0 .. Capacity
      BY <1>2, <3>1, AvailableInRange DEF Available
    <3>3. \A d \in Clients : Config[d].tenant = t => call'[d] = call[d]
      BY <1>2, <2>1, <2>2 DEF Limit, Pass, Reply
    <3>4. ~Passed(t)
      BY <1>1, <3>3
    <3>5. ~(Available(t)' < Available(t))
      BY <3>2 DEF Capacity
    <3> QED BY <3>4, <3>5
  <2>3. CASE Config[c].tenant = t
    <3>1. Available(t) \in 0 .. Capacity /\ Capacity \in Nat
      BY <1>2, AvailableInRange DEF Capacity
    <3>2. CASE Available(t) >= Cost /\ Pass(c)
      <4>1. /\ t \in created' /\ owed'[t] = 0 /\ tokens'[t] = Available(t) - Cost
        BY <1>2, <2>3, <3>1, <3>2 DEF TypeOK, Limit, Request, Cost
      <4>2. Available(t)' < Available(t)
        BY <3>1, <3>2, <4>1 DEF Available, CappedAt, Cost
      <4>3. call'[c].at = 3
        BY <2>1, <3>2 DEF Pass, Calls
      <4> QED BY <1>1, <2>1, <2>3, <4>2, <4>3
    <3>3. CASE Available(t) < Cost /\ Reply(c, "failed")
      <4>1. /\ t \in created' /\ owed'[t] = 0 /\ tokens'[t] = Available(t)
        BY <1>2, <2>3, <3>1, <3>3 DEF TypeOK, Limit, Request, Cost
      <4>2. ~(Available(t)' < Available(t))
        BY <3>1, <4>1 DEF Available, CappedAt
      <4>3. \A d \in Clients : call[d].at = 2 => call'[d].at # 3
        BY <2>1, <3>3, Places DEF Reply, Calls
      <4> QED BY <1>1, <4>2, <4>3
    <3> QED BY <1>2, <2>3, <3>2, <3>3 DEF Limit
  <2> QED BY <2>2, <2>3
<1>3. ASSUME TypeOK, \A d \in Clients : call[d].at = 2 => call'[d].at # 3,
             UNCHANGED vars \/ Tick, NEW t \in Tenants
      PROVE  Charged(t)
  <2>1. ~Passed(t)
    BY <1>1, <1>3
  <2>2. CASE UNCHANGED vars
    <3>1. Available(t)' = Available(t) /\ Available(t) \in 0 .. Capacity
      BY <1>3, <2>2, AvailableInRange DEF vars, Available
    <3>2. ~(Available(t)' < Available(t))
      BY <3>1 DEF Capacity
    <3> QED BY <2>1, <3>2
  <2>3. CASE Tick
    <3>1. /\ (t \in created' <=> t \in created) /\ tokens'[t] = tokens[t]
          /\ t \in created => owed'[t] = CappedAt(owed[t] + Refill, MaxOwed)
      BY <2>3 DEF Tick
    <3>2. tokens[t] \in 0 .. Capacity /\ owed[t] \in 0 .. MaxOwed /\ Capacity \in Nat
      BY <1>3 DEF TypeOK, Capacity
    <3>3. CASE t \in created
      <4>1. owed'[t] \in Nat /\ owed'[t] >= owed[t]
        BY <3>1, <3>2, <3>3 DEF CappedAt
      <4>2. CappedAt(tokens'[t] + owed'[t], Capacity) >= CappedAt(tokens[t] + owed[t], Capacity)
        BY <3>1, <3>2, <4>1 DEF CappedAt
      <4>3. /\ CappedAt(tokens'[t] + owed'[t], Capacity) \in Nat
            /\ CappedAt(tokens[t] + owed[t], Capacity) \in Nat
        BY <3>1, <3>2, <4>1 DEF CappedAt
      <4>4. ~(Available(t)' < Available(t))
        BY <3>1, <3>3, <4>2, <4>3 DEF Available
      <4> QED BY <2>1, <4>4
    <3>4. CASE t \notin created
      <4>1. ~(Available(t)' < Available(t))
        BY <3>1, <3>2, <3>4 DEF Available
      <4> QED BY <2>1, <4>1
    <3> QED BY <3>3, <3>4
  <2> QED BY <1>3, <2>2, <2>3
<1> HIDE DEF Passed
<1>4. ASSUME TypeOK, RemoteInv, [RemoteNext]_allVars, NEW t \in Tenants
      PROVE  Charged(t)
  <2>1. ASSUME NEW c \in Clients,
               \/ Submit(c) \/ Probe(c) \/ Authenticate(c) \/ Route(c) \/ Evaluate(c)
               \/ Lose(c) \/ Receive(c) \/ GiveUp(c) \/ Finish(c)
        PROVE  Charged(t)
    <3>1. UNCHANGED vars
      BY <2>1 DEF Submit, Probe, Authenticate, Route, Evaluate, Lose, Receive, GiveUp, Finish
    <3> QED BY <1>3, <1>4, <2>1, <3>1, OnlyLimitPasses
  <2>2. CASE (\E u \in Names : Register(u)) \/ ClockTick \/ UNCHANGED allVars
    <3>1. UNCHANGED call /\ (UNCHANGED vars \/ Tick)
      BY <2>2 DEF Register, ClockTick, remoteVars, allVars, vars
    <3> QED BY <1>3, <1>4, <3>1
  <2> QED BY <1>2, <1>4, <2>1, <2>2 DEF RemoteNext
<1>5. TypeOK /\ RemoteInv /\ [RemoteNext]_allVars
        => [\A t \in Tenants : Available(t)' < Available(t) <=> Passed(t)]_allVars
  BY <1>4
<1> QED BY <1>5, RemoteInvariance, ImplementsLimiter, TypeCorrect, PTL
        DEF RemoteSpec, LimiterSpec, TokenPerAdmission, Passed

=============================================================================
