--------------------------- MODULE CircuitBreaker ---------------------------
(***************************************************************************)
(* The circuit breaker of src/src/sentinel/core/circuit_breaker.py, shared *)
(* by concurrent asyncio tasks.                                            *)
(*                                                                         *)
(* `call` suspends only in `await fn()`: the sections under `_lock` hold   *)
(* no await, so the lock is never contended and the admission check, and   *)
(* likewise the completion of fn with its _record_*, are single steps.     *)
(* Between the two the breaker may be tripped, half-opened and closed by   *)
(* other tasks.  The code keeps no generation number, so a completion is   *)
(* applied to whatever state it finds.                                     *)
(*                                                                         *)
(* The clock is read only as now - _opened_at, and only compared with      *)
(* reset_timeout: openAge is that difference, capped at ResetTimeout.      *)
(* _failures likewise is only compared with failure_threshold, and capped  *)
(* there.                                                                  *)
(***************************************************************************)
EXTENDS Integers, FiniteSets

CONSTANTS
  Calls,              \* tasks that use the breaker
  FailureThreshold,   \* failure_threshold
  ResetTimeout,       \* reset_timeout, in clock ticks
  HalfOpenProbes      \* half_open_probes

ASSUME BreakerAssumption ==
  /\ FailureThreshold \in Nat \ {0}
  /\ ResetTimeout \in Nat \ {0}
  /\ HalfOpenProbes \in Nat \ {0}
  /\ IsFiniteSet(Calls)

VARIABLES
  state,      \* _state
  failures,   \* min(_failures, failure_threshold)
  openAge,    \* min(now - _opened_at, reset_timeout)
  probes,     \* _probes_in_flight
  call,       \* where each task is, and what its last call returned
  stale,      \* history: calls in flight since before the latest trip
  streak,     \* history: failures recorded since the last success, capped
  leaks       \* history: probes cancelled in this half-open period, capped

breakerVars == <<state, failures, openAge, probes>>
historyVars == <<stale, streak, leaks>>
vars == <<state, failures, openAge, probes, call, stale, streak, leaks>>

CircuitState == {"closed", "open", "half_open"}
InFlight == {"running", "probing"}
Returned == {"idle", "ok", "failed", "rejected", "cancelled"}

TypeOK ==
  /\ state \in CircuitState
  /\ failures \in 0 .. FailureThreshold
  /\ openAge \in 0 .. ResetTimeout
  /\ probes \in 0 .. HalfOpenProbes
  /\ call \in [Calls -> InFlight \cup Returned]
  /\ stale \in SUBSET Calls
  /\ streak \in 0 .. FailureThreshold
  /\ leaks \in 0 .. HalfOpenProbes

CappedAt(n, bound) == IF n < bound THEN n ELSE bound

Running == {c \in Calls : call[c] \in InFlight}

\* Probes admitted since the breaker last tripped and still in flight.
FreshProbes == {c \in Calls : call[c] = "probing"} \ stale

(***************************************************************************)
(* A breaker is built closed.  _opened_at starts at 0.0 and means nothing  *)
(* before the first trip.                                                  *)
(***************************************************************************)
Init ==
  /\ state = "closed"
  /\ failures = 0
  /\ openAge \in 0 .. ResetTimeout
  /\ probes = 0
  /\ call = [c \in Calls |-> "idle"]
  /\ stale = {}
  /\ streak = 0
  /\ leaks = 0

-----------------------------------------------------------------------------
(***************************************************************************)
(* Admission.  _maybe_transition_to_half_open runs first on every call;    *)
(* SeenState and SeenProbes are what it leaves for the checks after it.    *)
(***************************************************************************)
Mutant_TimeoutIgnored == state = "open"

TimeoutElapsed == state = "open" /\ openAge >= ResetTimeout

SeenState  == IF TimeoutElapsed THEN "half_open" ELSE state
SeenProbes == IF TimeoutElapsed THEN 0 ELSE probes

Mutant_BudgetOffByOne == SeenProbes > HalfOpenProbes

ProbeBudgetExhausted == SeenProbes >= HalfOpenProbes

Admit(c) ==
  /\ call[c] \in Returned
  /\ SeenState # "open"
  /\ SeenState = "half_open" => ~ProbeBudgetExhausted
  /\ state' = SeenState
  /\ probes' = IF SeenState = "half_open" THEN SeenProbes + 1 ELSE SeenProbes
  /\ call' = [call EXCEPT ![c] =
                IF SeenState = "half_open" THEN "probing" ELSE "running"]
  /\ UNCHANGED <<failures, openAge, stale, streak, leaks>>

\* DependencyUnavailableError: the circuit is open, or its budget is used up.
Reject(c) ==
  /\ call[c] \in Returned
  /\ \/ SeenState = "open"
     \/ SeenState = "half_open" /\ ProbeBudgetExhausted
  /\ state' = SeenState
  /\ probes' = SeenProbes
  /\ call' = [call EXCEPT ![c] = "rejected"]
  /\ UNCHANGED <<failures, openAge, stale, streak, leaks>>

Arrive(c) == Admit(c) \/ Reject(c)

-----------------------------------------------------------------------------
(***************************************************************************)
(* Completion of fn.  _trip keeps _failures as it is.                      *)
(***************************************************************************)
Trip(c) ==
  /\ state' = "open"
  /\ openAge' = 0
  /\ probes' = 0
  /\ stale' = Running \ {c}
  /\ leaks' = 0

Mutant_ThresholdOffByOne == failures + 1 > FailureThreshold

FailureTrips == state = "half_open" \/ failures + 1 >= FailureThreshold

\* fn raised an Exception: _record_failure, then the exception goes on.
Fail(c) ==
  /\ call[c] \in InFlight
  /\ failures' = CappedAt(failures + 1, FailureThreshold)
  /\ IF FailureTrips
     THEN Trip(c)
     ELSE /\ stale' = stale \ {c}
          /\ UNCHANGED <<state, openAge, probes, leaks>>
  /\ streak' = CappedAt(streak + 1, FailureThreshold)
  /\ call' = [call EXCEPT ![c] = "failed"]

\* _record_success with the decrement of _probes_in_flight left out.
Mutant_SlotNotReleased(c) ==
  /\ call[c] \in InFlight
  /\ IF state = "half_open" /\ probes > 1
     THEN UNCHANGED <<state, failures, probes>>
     ELSE /\ state' = IF state = "half_open" THEN "closed" ELSE state
          /\ probes' = 0
          /\ failures' = 0
  /\ stale' = stale \ {c}
  /\ streak' = 0
  /\ call' = [call EXCEPT ![c] = "ok"]
  /\ UNCHANGED <<openAge, leaks>>

\* _record_success with the reset of _failures on closing left out.
Mutant_FailuresKeptOnClose(c) ==
  /\ call[c] \in InFlight
  /\ IF state = "half_open"
     THEN /\ probes' = IF probes > 0 THEN probes - 1 ELSE 0
          /\ state' = IF probes' = 0 THEN "closed" ELSE state
          /\ UNCHANGED failures
     ELSE /\ failures' = 0
          /\ UNCHANGED <<state, probes>>
  /\ stale' = stale \ {c}
  /\ streak' = 0
  /\ call' = [call EXCEPT ![c] = "ok"]
  /\ UNCHANGED <<openAge, leaks>>

\* fn returned: _record_success.  In OPEN and in CLOSED it only clears the
\* failure count; in HALF_OPEN it gives a slot back, whoever took it.
Succeed(c) ==
  /\ call[c] \in InFlight
  /\ IF state = "half_open"
     THEN LET left == IF probes > 0 THEN probes - 1 ELSE 0
          IN  /\ probes' = left
              /\ state' = IF left = 0 THEN "closed" ELSE state
              /\ failures' = IF left = 0 THEN 0 ELSE failures
     ELSE /\ failures' = 0
          /\ UNCHANGED <<state, probes>>
  /\ stale' = stale \ {c}
  /\ streak' = 0
  /\ call' = [call EXCEPT ![c] = "ok"]
  /\ UNCHANGED <<openAge, leaks>>

\* CancelledError is a BaseException: neither _record_* runs, and a probe's
\* slot is not given back.
Cancel(c) ==
  /\ call[c] \in InFlight
  /\ call' = [call EXCEPT ![c] = "cancelled"]
  /\ stale' = stale \ {c}
  /\ leaks' = IF state = "half_open" /\ c \in FreshProbes
              THEN CappedAt(leaks + 1, HalfOpenProbes) ELSE leaks
  /\ UNCHANGED <<state, failures, openAge, probes, streak>>

-----------------------------------------------------------------------------
\* The clock; its value matters only while the circuit is open.
Tick ==
  /\ state = "open"
  /\ openAge < ResetTimeout
  /\ openAge' = openAge + 1
  /\ UNCHANGED <<state, failures, probes, call, stale, streak, leaks>>

Finish(c) == Succeed(c) \/ Fail(c)

Next ==
  \/ \E c \in Calls : Admit(c) \/ Reject(c) \/ Succeed(c) \/ Fail(c) \/ Cancel(c)
  \/ Tick

Spec == Init /\ [][Next]_vars

(***************************************************************************)
(* The clock advances, the dependency answers every call in the end, and   *)
(* the agents keep sending actions.  Nothing is assumed of cancellations   *)
(* and of the dependency's health.                                         *)
(***************************************************************************)
Fairness ==
  /\ WF_vars(Tick)
  /\ \A c \in Calls : WF_vars(Arrive(c)) /\ WF_vars(Finish(c))

LiveSpec == Spec /\ Fairness

-----------------------------------------------------------------------------
(***************************************************************************)
(* While the circuit is open, calls fail fast: every call still in flight  *)
(* was admitted before the trip, and the circuit half-opens only after the *)
(* whole reset_timeout, however often late failures tripped it again.      *)
(***************************************************************************)
FailFast ==
  /\ state = "open" => Running \subseteq stale
  /\ state = "half_open" => openAge = ResetTimeout

(***************************************************************************)
(* FailureThreshold consecutive failures never leave the circuit closed,   *)
(* in whichever order the concurrent calls complete.                       *)
(***************************************************************************)
ClosedBelowThreshold == state = "closed" => streak < FailureThreshold

(***************************************************************************)
(* A closed circuit opens only on FailureThreshold failures in a row: what *)
(* was counted before an earlier recovery does not count again.            *)
(***************************************************************************)
TripIsEarned ==
  [][state = "closed" /\ state' = "open" => streak' = FailureThreshold]_vars

(***************************************************************************)
(* Every slot _probes_in_flight counts belongs to a probe that is in       *)
(* flight, or was lost to a cancellation: no other order of completions    *)
(* uses up the budget of the half-open circuit.                            *)
(***************************************************************************)
NoPhantomSlots ==
  state = "half_open" => probes <= Cardinality(FreshProbes) + leaks

\* The dependency fails nobody and nobody gives up waiting for it.
Healthy == \A c \in Calls : call[c] \notin {"failed", "cancelled"}

(***************************************************************************)
(* Once the dependency is healthy for good, and the callers patient, some  *)
(* call succeeds again and again: after reset_timeout the circuit lets     *)
(* probes through, it cannot reject everyone for ever.                     *)
(***************************************************************************)
KeepsServing == <>[]Healthy => []<>(\E c \in Calls : call[c] = "ok")

(***************************************************************************)
(* The same, where no probe of a half-open period was ever cancelled.      *)
(***************************************************************************)
KeepsServingUnlessLeaked == [](leaks = 0) => KeepsServing

=============================================================================
