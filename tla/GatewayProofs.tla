--------------------------- MODULE GatewayProofs ----------------------------
(***************************************************************************)
(* Proofs about Gateway, for every set of calls.  The three invariants are *)
(* inductive together with CallOK, which says what is settled in each      *)
(* phase: a tool can end a call with a true result only because a call     *)
(* that executes was allowed and has not answered yet.                     *)
(***************************************************************************)
EXTENDS Gateway, TLAPS

\* What holds of a call in each phase.
CallOK ==
  \A c \in Calls :
    /\ phase[c] \in {"idle", "evaluating"} =>
         /\ work[c] = "none" /\ answer[c] = "none"
         /\ verdict[c] = "none"
    /\ phase[c] = "executing" =>
         /\ work[c] \in Active /\ answer[c] = "none"
         /\ verdict[c] = "allow"

IInv ==
  /\ TypeOK /\ CallOK
  /\ OnlyAllowedReach /\ NothingOutlivesItsAnswer /\ ResultIsTrue

LEMMA InitEstablishes == Init => IInv
  BY DEF Init, IInv, TypeOK, CallOK, OnlyAllowedReach, NothingOutlivesItsAnswer,
         ResultIsTrue, Active, Ends, Values, Verdicts, Runners, Adapters, Answers


LEMMA TypeStep == TypeOK /\ [Next]_vars => TypeOK'
<1> SUFFICES ASSUME TypeOK, [Next]_vars PROVE TypeOK'
  OBVIOUS
<1> USE DEF TypeOK, Answer, process
<1>1. ASSUME NEW c \in Calls, NEW r \in Runners, Invoke(c, r) PROVE TypeOK'
  BY <1>1 DEF Invoke
<1>2. ASSUME NEW c \in Calls, NEW d \in Adapters, Authorize(c, d) PROVE TypeOK'
  BY <1>2 DEF Authorize, Answers
<1>3. ASSUME NEW c \in Calls, EvaluationRaises(c) PROVE TypeOK'
  BY <1>3 DEF EvaluationRaises, Answers
<1>4. ASSUME NEW c \in Calls, NEW v \in Verdicts, Evaluated(c, v) PROVE TypeOK'
  BY <1>4 DEF Evaluated, Answers, Active
<1>5. ASSUME NEW c \in Calls, TimerFires(c) PROVE TypeOK'
  BY <1>5 DEF TimerFires, Active
<1>6. ASSUME NEW c \in Calls, CancelCaller(c) PROVE TypeOK'
  BY <1>6 DEF CancelCaller, Answers, Active
<1>7. ASSUME NEW c \in Calls, NEW e \in Ends, WorkEnds(c, e) PROVE TypeOK'
  BY <1>7 DEF WorkEnds, SandboxAnswer, DirectAnswer, Answers
<1>8. ASSUME NEW c \in Calls, NEW e \in Ends, StrayEnds(c, e) PROVE TypeOK'
  BY <1>8 DEF StrayEnds
<1>9. ASSUME NEW c \in Calls, Leave(c) PROVE TypeOK'
  BY <1>9 DEF Leave, Runners, Answers
<1>10. CASE UNCHANGED vars
  BY <1>10 DEF vars
<1>. QED  BY <1>1, <1>2, <1>3, <1>4, <1>5, <1>6, <1>7, <1>8, <1>9, <1>10
     DEF Next, EnvoyCheck, KongAuthorize, AwsAuthorize, Adapters

LEMMA StepPreserves == IInv /\ [Next]_vars => IInv'
<1> SUFFICES ASSUME IInv, [Next]_vars PROVE IInv'
  OBVIOUS
<1>0. TypeOK'
  BY TypeStep DEF IInv
<1> DEFINE Safe == CallOK /\ OnlyAllowedReach /\ NothingOutlivesItsAnswer /\ ResultIsTrue
<1> USE DEF IInv, TypeOK, CallOK, OnlyAllowedReach, NothingOutlivesItsAnswer,
            ResultIsTrue, Active, Ends, Values, Answer, process
<1>1. ASSUME NEW c \in Calls, NEW r \in Runners, Invoke(c, r) PROVE Safe'
  BY <1>1 DEF Invoke
<1>2. ASSUME NEW c \in Calls, NEW d \in Adapters, Authorize(c, d) PROVE Safe'
  BY <1>2 DEF Authorize
<1>3. ASSUME NEW c \in Calls, EvaluationRaises(c) PROVE Safe'
  BY <1>3 DEF EvaluationRaises
<1>4. ASSUME NEW c \in Calls, NEW v \in Verdicts, Evaluated(c, v) PROVE Safe'
  <2>1. CASE phase'[c] = "executing"
    BY <1>4, <2>1 DEF Evaluated, Refuses, Verdicts
  <2>2. CASE phase'[c] # "executing"
    <3>1. /\ phase[c] = "evaluating"
          /\ phase' = [phase EXCEPT ![c] = "done"] /\ work' = work
          /\ verdict' = [verdict EXCEPT ![c] = v]
          /\ UNCHANGED <<runtime, runner, expired, cancelled>>
      BY <1>4, <2>2 DEF Evaluated
    <3>2. /\ answer'[c] \in {"blocked", "passed", "raised", "error"}
          /\ answer'[c] = "passed" => v = "allow"
          /\ \A d \in Calls : d # c => answer'[d] = answer[d]
      BY <1>4, <2>2 DEF Evaluated, Refuses
    <3>. QED  BY <3>1, <3>2
  <2>. QED  BY <2>1, <2>2
<1>5. ASSUME NEW c \in Calls, TimerFires(c) PROVE Safe'
  BY <1>5 DEF TimerFires
<1>6. ASSUME NEW c \in Calls, CancelCaller(c) PROVE Safe'
  BY <1>6 DEF CancelCaller
<1>7. ASSUME NEW c \in Calls, NEW e \in Ends, WorkEnds(c, e) PROVE Safe'
  BY <1>7 DEF WorkEnds, SandboxAnswer, DirectAnswer
<1>8. ASSUME NEW c \in Calls, NEW e \in Ends, StrayEnds(c, e) PROVE Safe'
  BY <1>8 DEF StrayEnds
<1>9. ASSUME NEW c \in Calls, Leave(c) PROVE Safe'
  BY <1>9 DEF Leave
<1>10. CASE UNCHANGED vars
  BY <1>10 DEF vars
<1>. QED  BY <1>0, <1>1, <1>2, <1>3, <1>4, <1>5, <1>6, <1>7, <1>8, <1>9, <1>10
     DEF Next, EnvoyCheck, KongAuthorize, AwsAuthorize, Adapters

LEMMA Invariance == Spec => []IInv
  BY InitEstablishes, StepPreserves, PTL DEF Spec

-----------------------------------------------------------------------------
(***************************************************************************)
(* The variables of Gateway keep their types.                              *)
(***************************************************************************)
THEOREM TypeCorrect == Spec => []TypeOK
  BY Invariance, PTL DEF IInv

(***************************************************************************)
(* No tool and no upstream is reached by a call that MCPGateway or an      *)
(* adapter did not see allowed.                                            *)
(***************************************************************************)
THEOREM AllowedOnly == Spec => []OnlyAllowedReach
  BY Invariance, PTL DEF IInv

(***************************************************************************)
(* Sandbox.run and the gateway answer only after the tool has ended, but   *)
(* for a caller cancelled while Python 3.11 waits for a workload that it   *)
(* has told to stop.                                                       *)
(***************************************************************************)
THEOREM AnswersComeLast == Spec => []NothingOutlivesItsAnswer
  BY Invariance, PTL DEF IInv

(***************************************************************************)
(* A SandboxResult says what became of the workload.                       *)
(***************************************************************************)
THEOREM ResultsAreTrue == Spec => []ResultIsTrue
  BY Invariance, PTL DEF IInv

=============================================================================
