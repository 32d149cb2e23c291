------------------------------ MODULE Gateway -------------------------------
(***************************************************************************)
(* The front doors: MCPGateway.evaluate and invoke, the Envoy, Kong and    *)
(* API Gateway adapters, and Sandbox.run, in which an application's        *)
(* executor runs the tool.  The evaluation itself is Pipeline's: here it   *)
(* ends with any verdict, or raises.                                       *)
(*                                                                         *)
(* A call suspends in the evaluation and in the tool.  The tool may return *)
(* something that fits the result budget or does not, raise, time out by   *)
(* itself, hang, and obey or ignore a cancellation, which comes from the   *)
(* sandbox's timer or from the caller.                                     *)
(***************************************************************************)
CONSTANTS
  Calls,      \* calls in progress at a time
  Runtimes,   \* asyncio.wait_for runs its awaitable in a task of its own
              \* ("task", Python 3.11), or in the caller's ("inline", 3.12 on)
  Engines     \* whether sentinel_engine can be imported

ASSUME GatewayAssumption ==
  /\ Runtimes \subseteq {"task", "inline"} /\ Runtimes # {}
  /\ Engines \subseteq {"python", "native"} /\ Engines # {}

VARIABLES
  runtime, engine,  \* of this process
  phase,      \* where a call is
  door,       \* the entry point it came through
  runner,     \* for MCPGateway: what runs the tool
  verdict,    \* the interceptor's verdict on it
  work,       \* its tool: not begun, running, told to stop, or how it ended
  expired,    \* the sandbox's timer has fired
  cancelled,  \* the caller was cancelled while the tool ran
  answer      \* what the call gave its caller

process == <<runtime, engine>>
vars == <<runtime, engine, phase, door, runner, verdict, work, expired,
          cancelled, answer>>

Verdicts == {"allow", "deny", "escalate", "throttle"}
Adapters == {"envoy", "kong", "aws"}
Runners == {"none", "direct", "sandbox"}

\* Values whose text is small enough, is too long, cannot be made.
Values == {"fits", "exceeds", "unprintable"}
Ends == Values \cup {"raises", "times_out", "cancelled"}
Active == {"running", "cancelling"}

Answers == {"none", "raised", "blocked", "passed", "output", "truncated",
            "timeout", "error", "cancelled"}

Init ==
  /\ runtime \in Runtimes /\ engine \in Engines
  /\ phase = [c \in Calls |-> "idle"]
  /\ door = [c \in Calls |-> "none"] /\ runner = [c \in Calls |-> "none"]
  /\ verdict = [c \in Calls |-> "none"] /\ work = [c \in Calls |-> "none"]
  /\ expired = [c \in Calls |-> FALSE] /\ cancelled = [c \in Calls |-> FALSE]
  /\ answer = [c \in Calls |-> "none"]

Answer(c, a) ==
  /\ phase' = [phase EXCEPT ![c] = "done"]
  /\ answer' = [answer EXCEPT ![c] = a]

-----------------------------------------------------------------------------
\* A tool call.  Its executor, or the handler bound to the gateway, calls
\* the tool, in the sandbox or not; there may be neither.
Invoke(c, r) ==
  /\ phase[c] = "idle"
  /\ phase' = [phase EXCEPT ![c] = "evaluating"]
  /\ door' = [door EXCEPT ![c] = "mcp"]
  /\ runner' = [runner EXCEPT ![c] = r]
  /\ UNCHANGED <<process, verdict, work, expired, cancelled, answer>>

\* What the adapters share: an event becomes an action of its own agent, or
\* raises before there is an action to evaluate.
Authorize(c, d) ==
  /\ phase[c] = "idle"
  /\ door' = [door EXCEPT ![c] = d]
  /\ \/ /\ phase' = [phase EXCEPT ![c] = "evaluating"]
        /\ UNCHANGED answer
     \/ Answer(c, "raised")
  /\ UNCHANGED <<process, runner, verdict, work, expired, cancelled>>

\* check: headers that are null, or a body that is no string, raise.
EnvoyCheck(c) == Authorize(c, "envoy")

\* authorize: an agent_did that is null raises; the body is made a string.
KongAuthorize(c) == Authorize(c, "kong")

\* authorize: headers that are null raise; the body is not looked at.
AwsAuthorize(c) == Authorize(c, "aws")

\* Interceptor.evaluate lets an exception of the pipeline through.
EvaluationRaises(c) ==
  /\ phase[c] = "evaluating"
  /\ Answer(c, "raised")
  /\ UNCHANGED <<process, door, runner, verdict, work, expired, cancelled>>

\* Only an outright denial stops the call.
Mutant_DenyOnly(v) == v = "deny"

Refuses(v) == v # "allow"

\* sentinel_engine has no `guard`, so that _run_native ends in its except
\* clause before it calls the workload.
NativeFails(c) == runner[c] = "sandbox" /\ engine = "native"

\* What evaluate, invoke and the adapters do with a verdict.
Evaluated(c, v) ==
  /\ phase[c] = "evaluating"
  /\ verdict' = [verdict EXCEPT ![c] = v]
  /\ LET begins == /\ ~Refuses(v) /\ door[c] = "mcp"
                   /\ runner[c] # "none" /\ ~NativeFails(c)
     IN  IF begins
         THEN /\ phase' = [phase EXCEPT ![c] = "executing"]
              /\ work' = [work EXCEPT ![c] = "running"]
              /\ UNCHANGED answer
         ELSE /\ Answer(c, IF Refuses(v) THEN "blocked"
                          ELSE IF door[c] # "mcp" THEN "passed"
                          ELSE IF runner[c] = "none" THEN "raised" ELSE "error")
              /\ UNCHANGED work
  /\ UNCHANGED <<process, door, runner, expired, cancelled>>

-----------------------------------------------------------------------------
\* A timeout that is noted and not acted upon.
Mutant_NoCancel(c) ==
  /\ phase[c] = "executing" /\ runner[c] = "sandbox" /\ work[c] = "running"
  /\ expired' = [expired EXCEPT ![c] = TRUE]
  /\ UNCHANGED <<process, phase, door, runner, verdict, work, cancelled, answer>>

\* wait_for's timeout cancels the workload and waits for it.
TimerFires(c) ==
  /\ phase[c] = "executing" /\ runner[c] = "sandbox" /\ work[c] = "running"
  /\ work' = [work EXCEPT ![c] = "cancelling"]
  /\ expired' = [expired EXCEPT ![c] = TRUE]
  /\ UNCHANGED <<process, phase, door, runner, verdict, cancelled, answer>>

\* A caller that is cancelled waits no longer, and the workload goes on.
Mutant_Abandon(c) ==
  /\ phase[c] \in {"evaluating", "executing"}
  /\ Answer(c, "cancelled")
  /\ UNCHANGED <<process, door, runner, verdict, work, expired, cancelled>>

(***************************************************************************)
(* The caller's task is cancelled.  No except clause catches               *)
(* CancelledError.  While it waits for a workload that was told to stop,   *)
(* the wait_for of Python 3.11 can be cancelled alone and leave it behind. *)
(***************************************************************************)
CancelCaller(c) ==
  LET leaves == \/ phase[c] = "evaluating"
                \/ /\ work[c] = "cancelling"
                   /\ runner[c] = "sandbox" /\ runtime = "task"
  IN  /\ phase[c] \in {"evaluating", "executing"}
      /\ cancelled' = [cancelled EXCEPT ![c] = TRUE]
      /\ work' = [work EXCEPT ![c] = IF @ = "running" THEN "cancelling" ELSE @]
      /\ IF leaves THEN Answer(c, "cancelled") ELSE UNCHANGED <<phase, answer>>
      /\ UNCHANGED <<process, door, runner, verdict, expired>>

\* A result that is too long is marked and handed out all the same.
Mutant_KeepsOutput(c, e) == IF e \in Values THEN "output" ELSE "error"

\* _run_python: a TimeoutError of the workload counts as the sandbox's own,
\* and a value whose text cannot be made counts as empty.
SandboxAnswer(c, e) ==
  IF cancelled[c] /\ (runtime = "task" \/ e = "cancelled") THEN "cancelled"
  ELSE CASE e = "cancelled" -> IF expired[c] THEN "timeout" ELSE "cancelled"
         [] e = "times_out" -> "timeout"
         [] e = "raises"    -> "error"
         [] e = "exceeds"   -> "truncated"
         [] OTHER           -> "output"

DirectAnswer(e) ==
  CASE e \in Values    -> "output"
    [] e = "cancelled" -> "cancelled"
    [] OTHER           -> "raised"

\* The tool returns or raises, and with it the call.
WorkEnds(c, e) ==
  /\ phase[c] = "executing" /\ work[c] \in Active
  /\ work' = [work EXCEPT ![c] = e]
  /\ Answer(c, IF runner[c] = "sandbox" THEN SandboxAnswer(c, e) ELSE DirectAnswer(e))
  /\ UNCHANGED <<process, door, runner, verdict, expired, cancelled>>

\* A workload that was left behind ends, unseen.
StrayEnds(c, e) ==
  /\ phase[c] = "done" /\ work[c] \in Active
  /\ work' = [work EXCEPT ![c] = e]
  /\ UNCHANGED <<process, phase, door, runner, verdict, expired, cancelled, answer>>

\* The caller has its answer; another call may come.
Leave(c) ==
  /\ phase[c] = "done" /\ work[c] \notin Active
  /\ phase' = [phase EXCEPT ![c] = "idle"]
  /\ door' = [door EXCEPT ![c] = "none"] /\ runner' = [runner EXCEPT ![c] = "none"]
  /\ verdict' = [verdict EXCEPT ![c] = "none"] /\ work' = [work EXCEPT ![c] = "none"]
  /\ expired' = [expired EXCEPT ![c] = FALSE]
  /\ cancelled' = [cancelled EXCEPT ![c] = FALSE]
  /\ answer' = [answer EXCEPT ![c] = "none"]
  /\ UNCHANGED process

Next ==
  \E c \in Calls :
    \/ \E r \in Runners : Invoke(c, r)
    \/ EnvoyCheck(c) \/ KongAuthorize(c) \/ AwsAuthorize(c)
    \/ EvaluationRaises(c)
    \/ \E v \in Verdicts : Evaluated(c, v)
    \/ TimerFires(c)
    \/ CancelCaller(c)
    \/ \E e \in Ends : WorkEnds(c, e) \/ StrayEnds(c, e)
    \/ Leave(c)

Spec == Init /\ [][Next]_vars

Stops(c) ==
  work[c] = "cancelling" /\ \E e \in Ends : WorkEnds(c, e) \/ StrayEnds(c, e)

(***************************************************************************)
(* Evaluations end (Pipeline's EveryActionAnswered), timers fire, and a    *)
(* workload that is told to stop does so in the end, by itself or by       *)
(* failing.  One that nobody told to stop may run for ever.                *)
(***************************************************************************)
Fairness ==
  \A c \in Calls :
    /\ WF_vars(EvaluationRaises(c) \/ \E v \in Verdicts : Evaluated(c, v))
    /\ WF_vars(TimerFires(c))
    /\ WF_vars(Stops(c))

LiveSpec == Spec /\ Fairness

-----------------------------------------------------------------------------
TypeOK ==
  /\ runtime \in Runtimes /\ engine \in Engines
  /\ phase \in [Calls -> {"idle", "evaluating", "executing", "done"}]
  /\ door \in [Calls -> Adapters \cup {"none", "mcp"}]
  /\ runner \in [Calls -> Runners]
  /\ verdict \in [Calls -> Verdicts \cup {"none"}]
  /\ work \in [Calls -> Active \cup Ends \cup {"none"}]
  /\ expired \in [Calls -> BOOLEAN] /\ cancelled \in [Calls -> BOOLEAN]
  /\ answer \in [Calls -> Answers]

(***************************************************************************)
(* Only what the interceptor allowed reaches a tool or an upstream, by     *)
(* whichever door it came, and a caller who is told that its call was      *)
(* refused or failed before the tool can rely on it.                       *)
(***************************************************************************)
OnlyAllowedReach ==
  \A c \in Calls :
    /\ work[c] # "none" \/ answer[c] = "passed" => verdict[c] = "allow"
    /\ answer[c] \in {"blocked", "passed"} => work[c] = "none"

(***************************************************************************)
(* Nothing outlives its answer: a tool still at work after its call is     *)
(* over was told to stop, and its caller gave up a second time, after the  *)
(* sandbox had already stopped waiting.                                    *)
(***************************************************************************)
NothingOutlivesItsAnswer ==
  \A c \in Calls :
    phase[c] = "done" /\ work[c] \in Active =>
      /\ work[c] = "cancelling" /\ answer[c] = "cancelled" /\ cancelled[c]
      /\ runtime = "task" /\ runner[c] = "sandbox"

(***************************************************************************)
(* The sandbox's result tells the truth: an output is what the tool        *)
(* returned, too long never, a timeout means that some timer did fire, and *)
(* nobody whose tool returned within both budgets, uncancelled, goes empty *)
(* handed.                                                                 *)
(***************************************************************************)
ResultIsTrue ==
  \A c \in Calls :
    runner[c] = "sandbox" /\ phase[c] = "done" /\ work[c] # "none" =>
      /\ answer[c] = "output" => work[c] \in Values \ {"exceeds"}
      /\ answer[c] = "truncated" => work[c] = "exceeds"
      /\ answer[c] = "timeout" => expired[c] \/ work[c] = "times_out"
      /\ work[c] = "fits" /\ ~cancelled[c] => answer[c] = "output"

(***************************************************************************)
(* However long a tool would run, its sandboxed call is over some time,    *)
(* and the tool with it.                                                   *)
(***************************************************************************)
SandboxedEnd ==
  \A c \in Calls :
    runner[c] = "sandbox" /\ phase[c] \in {"evaluating", "executing"}
      ~> phase[c] = "done" /\ work[c] \notin Active

=============================================================================
