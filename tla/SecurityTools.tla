--------------------------- MODULE SecurityTools ----------------------------
(***************************************************************************)
(* The two programs of the security workflow: the static guard checker     *)
(* (static_analysis/guard_checker.py) on its walk through source trees,    *)
(* and the red-team harness (redteam/).  A walk is any walk: what the      *)
(* parser has for the visitor next is a choice.                            *)
(***************************************************************************)
EXTENDS Naturals, Sequences, FiniteSets

CONSTANTS
  MaxDepth, MaxCalls, MaxFiles,  \* bounds of a scan
  MaxScenarios                   \* bound on the scenarios of a run

VARIABLES
  stack,     \* _GuardScanner._guarded_stack, <<>> between files
  nest,      \* history: the constructs the visitor is in
  files,     \* files scanned
  seen,      \* calls, and files that do not parse, met so far
  reported,  \* violations among them
  due,       \* history: those that ought to be reported
  headers,   \* history: those of them in the header of a guarded function
  report,    \* RedTeamReport
  outcomes,  \* history: expected and actual verdict of each scenario
  exit       \* exit code of the tool that ran last; 2 while there is none

scanVars == <<stack, nest, files, seen, reported, due, headers>>
teamVars == <<report, outcomes>>
toolVars == <<stack, nest, files, seen, reported, due, headers, report, outcomes, exit>>

NoReport == [total |-> 0, passed |-> 0, falseNegatives |-> 0, falsePositives |-> 0]
Running == 2

ToolsInit ==
  /\ stack = <<>> /\ nest = <<>> /\ files = 0
  /\ seen = 0 /\ reported = {} /\ due = {} /\ headers = {}
  /\ report = NoReport /\ outcomes = <<>> /\ exit = Running

-----------------------------------------------------------------------------
\* scan_paths takes up the next file: a path in an environment, a build or
\* the tests is skipped, and a file that does not parse is itself reported.
\* Only SyntaxError is caught: one that cannot be read or decoded ends the
\* program with an exception.
ScanFile(kind) ==
  /\ exit = Running /\ outcomes = <<>> /\ stack = <<>> /\ files < MaxFiles
  /\ files' = files + 1
  /\ IF kind = "tree" THEN stack' = <<FALSE>> ELSE UNCHANGED stack
  /\ IF kind = "unparsable"
     THEN /\ seen' = seen + 1
          /\ reported' = reported \cup {seen + 1} /\ due' = due \cup {seen + 1}
     ELSE UNCHANGED <<seen, reported, due>>
  /\ IF kind = "unreadable" THEN exit' = 1 ELSE UNCHANGED exit
  /\ UNCHANGED <<nest, headers, teamVars>>

\* A guarded function is walked in three parts: its arguments, with their
\* defaults and annotations, then its body, then its decorators and what it
\* returns.
Header == {"arguments", "decorators"}
GuardedFunction == Header \cup {"guarded body"}

\* What stands around the visitor's place.
Around == {nest[i] : i \in DOMAIN nest}

\* visit_FunctionDef and visit_AsyncFunctionDef, for one of the decorators
\* of which _has_guard_decorator holds, or none.  The entry is pushed before
\* any part is walked.  A header holds expressions, and so no functions.
EnterFunction(guarded) ==
  /\ stack # <<>> /\ Len(nest) < MaxDepth /\ Around \cap Header = {}
  /\ stack' = Append(stack, guarded)
  /\ nest' = Append(nest, IF guarded THEN "arguments" ELSE "function")
  /\ UNCHANGED <<files, seen, reported, due, headers, teamVars, exit>>

\* generic_visit goes on to the next part of a guarded function.
NextPart ==
  /\ nest # <<>>
  /\ \/ nest[Len(nest)] = "arguments" /\ nest' = [nest EXCEPT ![Len(nest)] = "guarded body"]
     \/ nest[Len(nest)] = "guarded body" /\ nest' = [nest EXCEPT ![Len(nest)] = "decorators"]
  /\ UNCHANGED <<stack, files, seen, reported, due, headers, teamVars, exit>>

\* A class, a lambda or another construct with children: generic_visit.
EnterOther ==
  /\ stack # <<>> /\ Len(nest) < MaxDepth
  /\ nest' = Append(nest, "other")
  /\ UNCHANGED <<stack, files, seen, reported, due, headers, teamVars, exit>>

\* Only the innermost function counts.
Mutant_Innermost(s) == s[Len(s)]

\* any(_guarded_stack).
AnyGuarded(s) == \E i \in DOMAIN s : s[i]

\* visit_Call.  The scope of a call in a function's header is the one around
\* the function.
VisitCall(sensitive) ==
  /\ stack # <<>> /\ seen < MaxCalls
  /\ seen' = seen + 1
  /\ reported' = IF sensitive /\ ~AnyGuarded(stack) THEN reported \cup {seen + 1} ELSE reported
  /\ due' = IF sensitive /\ "guarded body" \notin Around THEN due \cup {seen + 1} ELSE due
  /\ headers' = IF sensitive /\ "guarded body" \notin Around /\ Around \cap Header # {}
                THEN headers \cup {seen + 1} ELSE headers
  /\ UNCHANGED <<stack, nest, files, teamVars, exit>>

\* The visitor is done with a construct: a function's entry is popped.
LeaveConstruct ==
  /\ nest # <<>> /\ nest[Len(nest)] \notin {"arguments", "guarded body"}
  /\ nest' = SubSeq(nest, 1, Len(nest) - 1)
  /\ stack' = IF nest[Len(nest)] = "other" THEN stack ELSE SubSeq(stack, 1, Len(stack) - 1)
  /\ UNCHANGED <<files, seen, reported, due, headers, teamVars, exit>>

EndFile ==
  /\ stack # <<>> /\ nest = <<>>
  /\ stack' = <<>>
  /\ UNCHANGED <<nest, files, seen, reported, due, headers, teamVars, exit>>

\* main.
ScanExits ==
  /\ exit = Running /\ files > 0 /\ stack = <<>>
  /\ exit' = IF reported # {} THEN 1 ELSE 0
  /\ UNCHANGED <<scanVars, teamVars>>

-----------------------------------------------------------------------------
Expectable == {"allow", "deny", "escalate", "throttle"}

\* Only a scenario that ought to be denied can slip through.
Mutant_DenySlips(expected, verdict) ==
  IF expected = "deny" /\ verdict = "allow" THEN "falseNegatives"
  ELSE IF expected = "allow" /\ verdict # "allow" THEN "falsePositives"
  ELSE "passed"

\* RedTeamHarness.run's three counters.
Counter(expected, verdict) ==
  IF verdict = expected THEN "passed"
  ELSE IF expected # "allow" /\ verdict = "allow" THEN "falseNegatives"
  ELSE IF expected = "allow" THEN "falsePositives"
  ELSE "passed"

RunScenario(expected, verdict) ==
  /\ exit = Running /\ files = 0 /\ report.total < MaxScenarios
  /\ report' = [report EXCEPT !.total = @ + 1, ![Counter(expected, verdict)] = @ + 1]
  /\ outcomes' = Append(outcomes, <<expected, verdict>>)
  /\ UNCHANGED <<scanVars, exit>>

\* An evaluation raises and takes the program with it.
ScenarioRaises ==
  /\ exit = Running /\ files = 0 /\ report.total < MaxScenarios
  /\ exit' = 1
  /\ UNCHANGED <<scanVars, teamVars>>

TeamExits ==
  /\ exit = Running /\ outcomes # <<>>
  /\ exit' = IF report.falseNegatives = 0 THEN 0 ELSE 1
  /\ UNCHANGED <<scanVars, teamVars>>

\* `sentinel redteam run`.
RedTeamRunExits == TeamExits

\* `python -m sentinel.redteam --fail-on-allow`; without the flag its exit
\* code says nothing.
RedTeamMainExits == TeamExits

\* The next program is started.
Restart ==
  /\ exit # Running
  /\ stack' = <<>> /\ nest' = <<>> /\ files' = 0
  /\ seen' = 0 /\ reported' = {} /\ due' = {} /\ headers' = {}
  /\ report' = NoReport /\ outcomes' = <<>> /\ exit' = Running

ToolsNext ==
  \/ \E kind \in {"tree", "unparsable", "unreadable", "skipped"} : ScanFile(kind)
  \/ \E guarded \in BOOLEAN : EnterFunction(guarded)
  \/ EnterOther \/ NextPart \/ LeaveConstruct \/ EndFile \/ ScanExits
  \/ \E sensitive \in BOOLEAN : VisitCall(sensitive)
  \/ \E expected, verdict \in Expectable : RunScenario(expected, verdict)
  \/ ScenarioRaises \/ RedTeamRunExits \/ RedTeamMainExits \/ Restart

-----------------------------------------------------------------------------
(***************************************************************************)
(* The guard checker reports the sensitive calls that are in the body of   *)
(* no guarded function, at any depth and after any functions and classes,  *)
(* and no others, but for those in the header of a guarded function, which *)
(* it misses; it exits with 0 only if it has none else to report.          *)
(***************************************************************************)
GuardReportTrue ==
  /\ reported = due \ headers
  /\ exit = 0 /\ files > 0 => due \subseteq headers

(***************************************************************************)
(* "An *unguarded* tool call is a direct invocation of a function listed   *)
(* in a deny pattern set without any guard on the enclosing scope"         *)
(* (guard_checker.py:6-8): all of these are reported.                      *)
(***************************************************************************)
UnguardedCallsReported == due \subseteq reported

Slips == {i \in DOMAIN outcomes : outcomes[i][1] # "allow" /\ outcomes[i][2] = "allow"}

(***************************************************************************)
(* The red-team report accounts for every scenario, counts as a false      *)
(* negative each action that ought not to be allowed and was, and the exit *)
(* code says so.                                                           *)
(***************************************************************************)
RedTeamReportTrue ==
  /\ report.total = Len(outcomes)
  /\ report.total = report.passed + report.falseNegatives + report.falsePositives
  /\ report.falseNegatives = Cardinality(Slips)
  /\ exit = 0 /\ outcomes # <<>> => Slips = {}

=============================================================================
