------------------------ MODULE CircuitBreakerProofs ------------------------
(***************************************************************************)
(* The safety properties of CircuitBreaker, for every number of calls and  *)
(* every setting of the breaker.                                           *)
(***************************************************************************)
EXTENDS CircuitBreaker, FiniteSetTheorems, TLAPS

\* In a closed circuit _failures is exactly the current run of failures.
ClosedCountsStreak ==
  state = "closed" => failures = streak /\ streak < FailureThreshold

\* What is needed besides the properties themselves.
IInv ==
  /\ TypeOK
  /\ stale \subseteq Running
  /\ FailFast
  /\ ClosedCountsStreak

-----------------------------------------------------------------------------
(***************************************************************************)
(* The inductive invariant holds initially: a breaker is built closed,     *)
(* with nothing in flight.                                                 *)
(***************************************************************************)
LEMMA InitIInv == Init => IInv
<1> SUFFICES ASSUME Init PROVE IInv
  OBVIOUS
<1> USE BreakerAssumption DEF Init
<1>1. TypeOK
  BY DEF TypeOK, CircuitState, Returned
<1>2. stale \subseteq Running /\ FailFast /\ ClosedCountsStreak
  BY DEF FailFast, ClosedCountsStreak
<1> QED BY <1>1, <1>2 DEF IInv

(***************************************************************************)
(* Every step of the breaker preserves it.                                 *)
(***************************************************************************)
LEMMA NextIInv == IInv /\ [Next]_vars => IInv'
<1> SUFFICES ASSUME IInv, [Next]_vars
             PROVE  IInv'
  OBVIOUS
<1> USE BreakerAssumption
<1>1. ASSUME NEW c \in Calls, Admit(c) PROVE IInv'
  BY <1>1 DEF Admit, IInv, TypeOK, CircuitState, InFlight, Returned, Running,
     FailFast, ClosedCountsStreak, SeenState, SeenProbes, TimeoutElapsed,
     ProbeBudgetExhausted
<1>2. ASSUME NEW c \in Calls, Reject(c) PROVE IInv'
  BY <1>2 DEF Reject, IInv, TypeOK, CircuitState, InFlight, Returned, Running,
     FailFast, ClosedCountsStreak, SeenState, SeenProbes, TimeoutElapsed,
     ProbeBudgetExhausted
<1>3. ASSUME NEW c \in Calls, Succeed(c) PROVE IInv'
  BY <1>3 DEF Succeed, IInv, TypeOK, CircuitState, InFlight, Returned, Running,
     FailFast, ClosedCountsStreak
<1>4. ASSUME NEW c \in Calls, Fail(c) PROVE IInv'
  <2>1. CASE FailureTrips
    BY <1>4, <2>1 DEF Fail, Trip, CappedAt, IInv, TypeOK, CircuitState,
       InFlight, Returned, Running, FailFast, ClosedCountsStreak
  <2>2. CASE ~FailureTrips
    BY <1>4, <2>2 DEF Fail, FailureTrips, CappedAt, IInv, TypeOK, CircuitState,
       InFlight, Returned, Running, FailFast, ClosedCountsStreak
  <2> QED BY <2>1, <2>2
<1>5. ASSUME NEW c \in Calls, Cancel(c) PROVE IInv'
  BY <1>5 DEF Cancel, CappedAt, IInv, TypeOK, CircuitState, InFlight, Returned,
     Running, FailFast, ClosedCountsStreak
<1>6. CASE Tick
  BY <1>6 DEF Tick, IInv, TypeOK, CircuitState, Running, FailFast,
     ClosedCountsStreak
<1>7. CASE UNCHANGED vars
  BY <1>7 DEF vars, IInv, TypeOK, Running, FailFast, ClosedCountsStreak
<1> QED BY <1>1, <1>2, <1>3, <1>4, <1>5, <1>6, <1>7 DEF Next

(***************************************************************************)
(* Type correctness, with _probes_in_flight never above half_open_probes   *)
(* and never negative.                                                     *)
(***************************************************************************)
THEOREM TypeCorrect == Spec => []TypeOK
<1>1. IInv => TypeOK
  BY DEF IInv
<1> QED BY <1>1, InitIInv, NextIInv, PTL DEF Spec

(***************************************************************************)
(* An open circuit admits nobody, and stays open for reset_timeout.        *)
(***************************************************************************)
THEOREM OpenFailsFast == Spec => []FailFast
<1>1. IInv => FailFast
  BY DEF IInv
<1> QED BY <1>1, InitIInv, NextIInv, PTL DEF Spec

(***************************************************************************)
(* A run of failure_threshold failures opens the circuit.                  *)
(***************************************************************************)
THEOREM ThresholdOpens == Spec => []ClosedBelowThreshold
<1>1. IInv => ClosedBelowThreshold
  BY DEF IInv, ClosedCountsStreak, ClosedBelowThreshold
<1> QED BY <1>1, InitIInv, NextIInv, PTL DEF Spec

(***************************************************************************)
(* Nothing less than such a run opens a closed circuit.                    *)
(***************************************************************************)
THEOREM OpensOnlyAtThreshold == Spec => TripIsEarned
<1>1. ASSUME IInv, [Next]_vars
      PROVE  [state = "closed" /\ state' = "open" => streak' = FailureThreshold]_vars
  <2> SUFFICES ASSUME state = "closed", state' = "open"
               PROVE  streak' = FailureThreshold
    OBVIOUS
  <2> USE BreakerAssumption
  <2>1. ASSUME NEW c \in Calls, Fail(c) PROVE streak' = FailureThreshold
    BY <1>1, <2>1 DEF Fail, FailureTrips, CappedAt, IInv, TypeOK,
       ClosedCountsStreak
  <2>2. ASSUME NEW c \in Calls, Admit(c) \/ Reject(c) \/ Succeed(c) \/ Cancel(c)
        PROVE  FALSE
    BY <2>2 DEF Admit, Reject, Succeed, Cancel, SeenState, TimeoutElapsed
  <2>3. ~(Tick \/ UNCHANGED vars)
    BY DEF Tick, vars
  <2> QED BY <1>1, <2>1, <2>2, <2>3 DEF Next
<1> QED BY <1>1, InitIInv, NextIInv, PTL DEF Spec, TripIsEarned

-----------------------------------------------------------------------------
(***************************************************************************)
(* What the probes in flight add up to after a call ends: one less if it   *)
(* was such a probe, as many as before if it was not.                      *)
(***************************************************************************)
LEMMA FreshProbesFinite ==
  ASSUME TypeOK
  PROVE  IsFiniteSet(FreshProbes) /\ Cardinality(FreshProbes) \in Nat
<1>1. FreshProbes \subseteq Calls
  BY DEF FreshProbes
<1> QED BY <1>1, BreakerAssumption, FS_Subset, FS_CardinalityType

LEMMA FreshProbesAfterReturn ==
  ASSUME TypeOK, NEW c \in Calls, NEW r \in Returned,
         call' = [call EXCEPT ![c] = r], stale' = stale \ {c}
  PROVE  /\ c \in FreshProbes =>
              Cardinality(FreshProbes') = Cardinality(FreshProbes) - 1
         /\ c \notin FreshProbes =>
              Cardinality(FreshProbes') = Cardinality(FreshProbes)
<1>1. FreshProbes' = FreshProbes \ {c}
  BY DEF FreshProbes, TypeOK, Returned
<1>2. ASSUME c \in FreshProbes
      PROVE  Cardinality(FreshProbes \ {c}) = Cardinality(FreshProbes) - 1
  BY <1>2, FreshProbesFinite, FS_RemoveElement
<1>3. ASSUME c \notin FreshProbes PROVE FreshProbes \ {c} = FreshProbes
  BY <1>3
<1> QED BY <1>1, <1>2, <1>3

LEMMA FreshProbesAfterAdmit ==
  ASSUME TypeOK, NEW c \in Calls, c \notin stale, call[c] \in Returned,
         call' = [call EXCEPT ![c] = "probing"], stale' = stale
  PROVE  Cardinality(FreshProbes') = Cardinality(FreshProbes) + 1
<1>1. FreshProbes' = FreshProbes \cup {c}
  BY DEF FreshProbes, TypeOK
<1>2. c \notin FreshProbes
  BY DEF FreshProbes, Returned
<1> QED BY <1>1, <1>2, FreshProbesFinite, FS_AddElement

(***************************************************************************)
(* The probe budget counts only probes in flight and cancelled ones, in    *)
(* every interleaving of admissions and of late completions.               *)
(***************************************************************************)
THEOREM BudgetHasNoPhantoms == Spec => []NoPhantomSlots
<1> DEFINE Inv == IInv /\ NoPhantomSlots
<1>1. Init => Inv
  BY InitIInv DEF Init, NoPhantomSlots
<1>2. Inv /\ [Next]_vars => Inv'
  <2> SUFFICES ASSUME Inv, [Next]_vars, IInv'
               PROVE  NoPhantomSlots'
    BY NextIInv
  <2> USE BreakerAssumption
  <2>0. /\ TypeOK /\ TypeOK' /\ stale \subseteq Running
        /\ Cardinality(FreshProbes) \in Nat
        /\ Cardinality(FreshProbes') \in Nat
    <3>1. FreshProbes' \subseteq Calls
      BY DEF FreshProbes
    <3>2. Cardinality(FreshProbes') \in Nat
      BY <3>1, FS_Subset, FS_CardinalityType
    <3> QED BY <3>2, FreshProbesFinite DEF IInv
  <2>1. ASSUME NEW c \in Calls, Admit(c) PROVE NoPhantomSlots'
    <3>1. CASE SeenState = "half_open"
      <4>1. c \notin stale
        BY <2>0, <2>1 DEF Admit, Running, InFlight, Returned
      <4>2. Cardinality(FreshProbes') = Cardinality(FreshProbes) + 1
        BY <2>0, <2>1, <3>1, <4>1, FreshProbesAfterAdmit DEF Admit
      <4> QED
        BY <2>0, <2>1, <3>1, <4>2 DEF Admit, NoPhantomSlots, SeenState,
           SeenProbes, TimeoutElapsed, TypeOK
    <3>2. CASE SeenState # "half_open"
      BY <2>1, <3>2 DEF Admit, NoPhantomSlots
    <3> QED BY <3>1, <3>2
  <2>2. ASSUME NEW c \in Calls, Reject(c) PROVE NoPhantomSlots'
    <3>1. FreshProbes' = FreshProbes
      BY <2>0, <2>2 DEF Reject, FreshProbes, TypeOK, Returned
    <3> QED
      BY <2>0, <2>2, <3>1 DEF Reject, NoPhantomSlots, SeenState, SeenProbes,
         TimeoutElapsed, ProbeBudgetExhausted, TypeOK
  <2>3. ASSUME NEW c \in Calls, Succeed(c) PROVE NoPhantomSlots'
    <3>1. call' = [call EXCEPT ![c] = "ok"] /\ stale' = stale \ {c}
      BY <2>3 DEF Succeed
    <3>2. "ok" \in Returned
      BY DEF Returned
    <3>3. \/ Cardinality(FreshProbes') = Cardinality(FreshProbes) - 1
          \/ Cardinality(FreshProbes') = Cardinality(FreshProbes)
      BY <2>0, <3>1, <3>2, FreshProbesAfterReturn, Zenon
    <3> QED BY <2>0, <2>3, <3>3 DEF Succeed, NoPhantomSlots, TypeOK
  <2>4. ASSUME NEW c \in Calls, Fail(c) PROVE NoPhantomSlots'
    BY <2>4 DEF Fail, Trip, FailureTrips, NoPhantomSlots
  <2>5. ASSUME NEW c \in Calls, Cancel(c) PROVE NoPhantomSlots'
    <3>1. /\ c \in FreshProbes =>
               Cardinality(FreshProbes') = Cardinality(FreshProbes) - 1
          /\ c \notin FreshProbes =>
               Cardinality(FreshProbes') = Cardinality(FreshProbes)
      BY <2>0, <2>5, FreshProbesAfterReturn DEF Cancel, Returned
    <3> QED
      BY <2>0, <2>5, <3>1 DEF Cancel, CappedAt, NoPhantomSlots, TypeOK
  <2>6. CASE Tick
    BY <2>6 DEF Tick, NoPhantomSlots
  <2>7. CASE UNCHANGED vars
    BY <2>7 DEF vars, NoPhantomSlots, FreshProbes
  <2> QED BY <2>1, <2>2, <2>3, <2>4, <2>5, <2>6, <2>7 DEF Next
<1> QED BY <1>1, <1>2, PTL DEF Spec

=============================================================================
