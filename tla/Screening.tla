----------------------------- MODULE Screening ------------------------------
(***************************************************************************)
(* Concurrent evaluations with the detectors that bootstrap.py wires: the  *)
(* state the detectors share (the tool registry, the agents' windows) and  *)
(* what DecisionPipeline.evaluate makes of their reports.                  *)
(*                                                                         *)
(* None of these detectors suspends, so the five tasks of a gather run one *)
(* after the other in one step, Detect; the evaluation itself resumes some *)
(* time later.  How an identity is resolved is Pipeline's: an evaluation   *)
(* starts here with one, or without.                                       *)
(***************************************************************************)
EXTENDS Detectors

CONSTANTS
  Requests,     \* evaluations in progress at a time
  Actions,      \* actions agents may send
  Dids, Tools,  \* their agents and tools
  Identities,   \* identities an agent may have: [tier, trust, caps]
  Specs,        \* entries the tool registry may get
  Bundle,       \* the active policy bundle
  ModelScores,  \* for each action, what the injection model may answer
  Related,      \* related words, for IntentClassify
  Limits,       \* the anomaly detector's settings
  Horizon,      \* its horizon, in ticks of the clock
  MaxWindow     \* bound on the length of a window

ASSUME ScreeningAssumption ==
  /\ Horizon \in Nat /\ MaxWindow \in Nat \ {0} /\ IsFiniteSet(Requests)
  /\ \A a \in Actions :
       /\ a.did \in Dids /\ a.tool \in Tools \cup {"none"}
       /\ IsFiniteSet(a.intent) /\ IsFiniteSet(a.name)
       /\ a.fields \in Seq([shape : {"text", "list", "nested"},
                            texts : Seq(SUBSET Sensitive)])
  /\ ModelScores \in [Actions -> SUBSET (0 .. 20)]
  /\ NoIdentity \notin Identities /\ Unregistered \notin Specs
  /\ Specs \subseteq ToolSpecs({spec.capability : spec \in Specs}, 0 .. 20)
  /\ Limits.spikeMin \in Nat /\ Limits.spikeFactor \in Nat
  /\ Limits.seconds \in Nat /\ Limits.rareMin \in Nat
  /\ Limits.spikeSeverity \in
       [Limits.spikeMin + 1 .. MaxWindow + Cardinality(Requests) - 1 -> 0 .. 20]

VARIABLES
  registry,   \* ToolRegistry.tools
  windows,    \* InMemoryBaselineStore._windows
  req,        \* the evaluations
  found,      \* what the detectors of each have reported
  entitled,   \* history: requests whose tool's entry has once let them
              \* pass during their evaluation
  recent,     \* history: each agent's actions of the last horizon
  used        \* history: the tools each agent has ever been scored for

history == <<entitled, recent, used>>
vars == <<registry, windows, req, found, entitled, recent, used>>

IdleRequest == [phase |-> "idle", action |-> "none", identity |-> NoIdentity,
                unknown |-> FALSE]

Entry(tool) == IF tool = "none" THEN Unregistered ELSE registry[tool]

\* A registry entry that lets a request pass.
Entitles(spec, q) ==
  /\ spec # Unregistered /\ ~spec.quarantined
  /\ q.identity # NoIdentity /\ spec.capability \in q.identity.caps
  /\ spec.schema = "none" \/ (spec.schema = "good" /\ q.action.valid)

InProgress(r) == req[r].phase \in {"classifying", "classified"}

Init ==
  /\ registry = [t \in Tools |-> Unregistered]
  /\ windows = [d \in Dids |-> <<>>]
  /\ req = [r \in Requests |-> IdleRequest]
  /\ found = [r \in Requests |-> <<>>]
  /\ entitled = {}
  /\ recent = [d \in Dids |-> <<>>]
  /\ used = [d \in Dids |-> {}]

-----------------------------------------------------------------------------
\* An evaluation reaches the gather, its identity resolved or not.
Submit(r, a) ==
  /\ req[r].phase = "idle"
  /\ Len(windows[a.did]) < MaxWindow
  /\ \E i \in Identities \cup {NoIdentity}, unknown \in BOOLEAN :
       /\ unknown => i = NoIdentity
       /\ req' = [req EXCEPT ![r] = [phase |-> "classifying", action |-> a,
                                     identity |-> i, unknown |-> unknown]]
  /\ entitled' = IF Entitles(Entry(a.tool), req'[r]) THEN entitled \cup {r}
                 ELSE entitled \ {r}
  /\ UNCHANGED <<registry, windows, found, recent, used>>

Returned(report) == [raised |-> FALSE, report |-> report]

\* score after record: an agent's every tool is one it has just used.
Mutant_RecordFirst(a, identity, modelScore) ==
  << Returned(IntentClassify(a, Related)),
     [raised |-> ToolValidateRaises(a, Entry(a.tool)),
      report |-> ToolValidate(a, identity, Entry(a.tool))],
     Returned(AnomalyScore(a, Record(a, windows[a.did], Horizon), Limits)),
     Returned(InjectionScan(a, modelScore)),
     Returned(DlpScan(a)) >>

\* The five detectors, in the order of the gather.
Reports(a, identity, modelScore) ==
  << Returned(IntentClassify(a, Related)),
     [raised |-> ToolValidateRaises(a, Entry(a.tool)),
      report |-> ToolValidate(a, identity, Entry(a.tool))],
     Returned(AnomalyScore(a, windows[a.did], Limits)),
     Returned(InjectionScan(a, modelScore)),
     Returned(DlpScan(a)) >>

Detect(r) ==
  LET a == req[r].action
      d == a.did
  IN  /\ req[r].phase = "classifying"
      /\ \E modelScore \in ModelScores[a] :
           found' = [found EXCEPT ![r] = Reports(a, req[r].identity, modelScore)]
      /\ req' = [req EXCEPT ![r].phase = "classified"]
      /\ windows' = [windows EXCEPT ![d] = Record(a, @, Horizon)]
      /\ recent' = [recent EXCEPT ![d] = Append(@, Recorded(a))]
      /\ used' = [used EXCEPT ![d] = @ \cup {a.tool}]
      /\ UNCHANGED <<registry, entitled>>

\* The evaluation resumes and decides; the gateway runs the tool on ALLOW.
Decide(r) ==
  /\ req[r].phase = "classified"
  /\ LET v == Verdict(Bundle, req[r].action, req[r].identity,
                      RiskFactors(req[r].unknown, found[r]))
     IN  req' = [req EXCEPT ![r].phase = IF v = "allow" THEN "allowed" ELSE "blocked"]
  /\ found' = [found EXCEPT ![r] = <<>>]
  /\ UNCHANGED <<registry, windows, history>>

\* The evaluation is over, or its caller is cancelled; what the anomaly
\* detector has recorded stays.
Return(r) ==
  /\ req[r].phase # "idle"
  /\ req' = [req EXCEPT ![r] = IdleRequest]
  /\ found' = [found EXCEPT ![r] = <<>>]
  /\ entitled' = entitled \ {r}
  /\ UNCHANGED <<registry, windows, recent, used>>

\* ToolRegistry.register, which replaces an entry of the same name.
Register(t, spec) ==
  /\ registry[t] # spec
  /\ registry' = [registry EXCEPT ![t] = spec]
  /\ entitled' = entitled \cup {r \in Requests :
       InProgress(r) /\ req[r].action.tool = t /\ Entitles(spec, req[r])}
  /\ UNCHANGED <<windows, req, found, recent, used>>

Older(e) == [e EXCEPT !.age = IF @ > Horizon THEN @ ELSE @ + 1]

Aged(window) == [i \in DOMAIN window |-> Older(window[i])]

\* Time passes: the windows age, and are not looked at.
Elapse ==
  /\ \E d \in Dids : \E i \in DOMAIN windows[d] : windows[d][i].age <= Horizon
  /\ windows' = [d \in Dids |-> Aged(windows[d])]
  /\ recent' = [d \in Dids |-> PopOlder(Aged(recent[d]), Horizon)]
  /\ UNCHANGED <<registry, req, found, entitled, used>>

Next ==
  \/ \E r \in Requests :
       \/ \E a \in Actions : Submit(r, a)
       \/ Detect(r) \/ Decide(r) \/ Return(r)
  \/ \E t \in Tools, spec \in Specs : Register(t, spec)
  \/ Elapse

Spec == Init /\ [][Next]_vars

-----------------------------------------------------------------------------
TypeOK ==
  /\ registry \in [Tools -> Specs \cup {Unregistered}]
  /\ \A d \in Dids :
       /\ windows[d] \in Seq([age : 0 .. Horizon + 1, tool : Tools \cup {"none"}])
       /\ Len(windows[d]) < MaxWindow + Cardinality(Requests)
  /\ \A r \in Requests :
       /\ req[r].phase \in {"idle", "classifying", "classified", "allowed", "blocked"}
       /\ found[r] \in Seq([raised : BOOLEAN, report : Seq(Factor)])

(***************************************************************************)
(* A tool runs only for an identity that holds its capability, with        *)
(* arguments that satisfy its schema, as one of its entries in the         *)
(* registry during the evaluation says; an unregistered or quarantined     *)
(* tool does not run.  Registrations come at any time, and a validator     *)
(* that breaks on a bad schema is no excuse.                               *)
(***************************************************************************)
OnlyEntitledRun ==
  \A r \in Requests :
    req[r].phase = "allowed" /\ req[r].action.tool # "none" => r \in entitled

(***************************************************************************)
(* No action runs with a credential, a card or social security number or   *)
(* an injection pattern in any string or list of strings it carries,       *)
(* whatever the other detectors, the identity and the rules say.           *)
(***************************************************************************)
NothingSensitiveRuns ==
  \A r \in Requests :
    req[r].phase = "allowed" =>
      \A field \in ToSet(req[r].action.fields) :
        field.shape # "nested" => UNION ToSet(field.texts) \subseteq {"dlp.email"}

(***************************************************************************)
(* However evaluations, cancellations and pauses interleave, an agent's    *)
(* window ends with all its actions of the last horizon, what comes before *)
(* them is older, and the window never spans more than one horizon.        *)
(***************************************************************************)
WindowIsRecent ==
  \A d \in Dids :
    LET w == windows[d]
        stale == Len(w) - Len(recent[d])
    IN  /\ stale >= 0 /\ recent[d] = SubSeq(w, stale + 1, Len(w))
        /\ \A i \in DOMAIN w : w[i].age <= Horizon <=> i > stale
        /\ w # <<>> => w[1].age - w[Len(w)].age <= Horizon

AnomalyCodes(r) == Codes(found[r][3].report)

(***************************************************************************)
(* The anomaly detector misses no burst of the last horizon and no first   *)
(* use of a tool by a busy agent, and calls no tool novel that the agent   *)
(* has used within the horizon.                                            *)
(***************************************************************************)
UnusualReported ==
  [][\A r \in Requests :
       Detect(r) =>
         LET a == req[r].action
             n == Len(recent[a.did])
         IN  /\ n > Limits.spikeMin /\ 60 * n > Limits.spikeFactor * Limits.seconds
                  => "anomaly.rate_spike" \in AnomalyCodes(r)'
             /\ n >= Limits.rareMin /\ a.tool \notin used[a.did] \cup {"none"}
                  => "anomaly.novel_tool" \in AnomalyCodes(r)'
             /\ "anomaly.novel_tool" \in AnomalyCodes(r)'
                  => \A i \in 1 .. n : recent[a.did][i].tool # a.tool]_vars

=============================================================================
