----------------------------- MODULE Detectors ------------------------------
(***************************************************************************)
(* The five detectors of an evaluation, as operators from an action to its *)
(* risk factors: classifiers/ and dlp/scanner.py.  An action has, besides  *)
(* what Decision needs of it,                                              *)
(*   intent   the words of the declared intent, {} where there is none; an *)
(*            intent without any letter counts as one word that is no hint *)
(*   name     the words of the tool's name that are longer than two        *)
(*            letters                                                      *)
(*   valid    whether its arguments satisfy the tool's schema              *)
(*   fields   the intent and the arguments: [shape, texts], where a text   *)
(*            is the set of the patterns that occur in it (for the         *)
(*            injection patterns, in its first 16000 characters)           *)
(* and an identity has `caps`, the capabilities it holds unexpired.        *)
(* Severities are twentieths, to the nearest.  With the wiring of          *)
(* bootstrap.py there is no embedding provider and the scanner is enabled; *)
(* the model of the injection detector is optional.                        *)
(***************************************************************************)
EXTENDS Decision, FiniteSets

Found(code, severity) == << [code |-> code, severity |-> severity] >>
Nothing == <<>>

-----------------------------------------------------------------------------
(***************************************************************************)
(* IntentClassifier.classify.                                              *)
(***************************************************************************)
IntentHints ==
  [ file_write     |-> {"write", "save", "create", "update", "edit", "modify"},
    file_read      |-> {"read", "load", "open", "fetch", "review"},
    http_request   |-> {"request", "fetch", "post", "get", "call", "api"},
    shell_command  |-> {"run", "execute", "shell", "command"},
    code_execution |-> {"execute", "run", "evaluate", "compute"},
    payment        |-> {"pay", "charge", "refund", "transfer", "purchase"},
    database_query |-> {"query", "select", "insert", "update", "delete"} ]

\* `related` holds the pairs of words of four letters or more, one of which
\* contains the other.
IntentClassify(action, related) ==
  LET curated == action.type \in DOMAIN IntentHints
      hints   == action.name \cup IF curated THEN IntentHints[action.type] ELSE {}
      shared  == Cardinality(action.intent \cap hints)
      all     == Cardinality(hints)
      excused == /\ ~curated
                 /\ Cardinality(action.intent) <= 4
                 /\ (action.intent \X hints) \cap related = {}
      drift   == IF 100 * shared <= 20 * all THEN "intent.hard_drift"
                 ELSE "intent.soft_drift"
  IN  IF action.intent = {} THEN Found("intent.missing", 5)
      ELSE IF hints = {} \/ 100 * shared >= 45 * all \/ excused THEN Nothing
      ELSE Found(drift, (40 * (all - shared) + all) \div (2 * all))

-----------------------------------------------------------------------------
(***************************************************************************)
(* ToolValidator.validate, with the tool's entry in the registry.  A bad   *)
(* schema raises SchemaError, which is no ValidationError.                 *)
(***************************************************************************)
Unregistered ==
  [capability |-> "none", quarantined |-> FALSE, schema |-> "none", sensitivity |-> 0]

ToolSpecs(capabilities, sensitivities) ==
  [capability : capabilities, quarantined : BOOLEAN,
   schema : {"none", "good", "bad"}, sensitivity : sensitivities]

\* A missing capability as grave as the tool is sensitive, and no more.
Mutant_BySensitivity(action, identity, spec) ==
  IF identity # NoIdentity /\ spec.capability \notin identity.caps
  THEN Found("tool.no_capability", spec.sensitivity)
  ELSE Nothing

CapabilityFactors(action, identity, spec) ==
  IF identity # NoIdentity /\ spec.capability \notin identity.caps
  THEN Found("tool.no_capability",
             IF spec.sensitivity > 12 THEN spec.sensitivity ELSE 12)
  ELSE Nothing

ToolValidate(action, identity, spec) ==
  IF action.tool = "none" THEN Nothing
  ELSE IF spec = Unregistered THEN Found("tool.unknown", 14)
  ELSE IF spec.quarantined THEN Found("tool.quarantined", 19)
  ELSE CapabilityFactors(action, identity, spec)
         \o IF spec.schema = "good" /\ ~action.valid
            THEN Found("tool.args_invalid", 16) ELSE Nothing

ToolValidateRaises(action, spec) ==
  /\ action.tool # "none" /\ spec # Unregistered
  /\ ~spec.quarantined /\ spec.schema = "bad"

-----------------------------------------------------------------------------
(***************************************************************************)
(* AnomalyDetector.score on the agent's window, a sequence of [age, tool]. *)
(* limits.spikeSeverity tabulates the logarithm of the rate by the number  *)
(* of actions in the window.                                               *)
(***************************************************************************)
AnomalyScore(action, window, limits) ==
  LET n == Len(window)
      busy  == n > limits.spikeMin /\ 60 * n > limits.spikeFactor * limits.seconds
      novel == /\ action.tool # "none"
               /\ n >= limits.rareMin
               /\ \A i \in 1 .. n : window[i].tool # action.tool
  IN  (IF busy THEN Found("anomaly.rate_spike", limits.spikeSeverity[n]) ELSE Nothing)
        \o IF novel THEN Found("anomaly.novel_tool", 8) ELSE Nothing

\* What is left of a window once its oldest entries, as long as they are
\* over `limit`, have been popped.
PopOlder(window, limit) ==
  LET kept == {i \in DOMAIN window : window[i].age <= limit}
  IN  IF kept = {} THEN <<>> ELSE SubSeq(window, Min(kept), Len(window))

Recorded(action) == [age |-> 0, tool |-> action.tool]

\* The cutoff taken too early: an action exactly one horizon old is dropped.
Mutant_EarlyCutoff(action, window, horizon) ==
  PopOlder(Append(window, Recorded(action)), horizon - 1)

\* InMemoryBaselineStore.record.
Record(action, window, horizon) ==
  PopOlder(Append(window, Recorded(action)), horizon)

-----------------------------------------------------------------------------
(***************************************************************************)
(* The two scanners read the same texts: strings, and strings in lists,    *)
(* but nothing inside a nested object.                                     *)
(***************************************************************************)
Mutant_IntentOnly(action) == IF action.fields = <<>> THEN <<>> ELSE Head(action.fields).texts

IterText(action) ==
  FlattenSeq([i \in DOMAIN action.fields |->
                IF action.fields[i].shape \in {"text", "list"}
                THEN action.fields[i].texts ELSE <<>>])

Patterns == {"ignore", "disregard", "new_instructions", "persona", "reveal",
             "jailbreak", "override", "exfiltrate", "pipe_to_shell", "decode_and_run"}

\* The number of patterns found, each counted once in every text.
Hits(texts) ==
  Cardinality({hit \in (DOMAIN texts) \X Patterns : hit[2] \in texts[hit[1]]})

\* The severity without its upper bound.
Mutant_Unbounded(action, modelScore) ==
  LET hits == Hits(IterText(action))
  IN  IF hits = 0 THEN Nothing ELSE Found("injection.prompt_injection", 11 + 2 * hits)

\* PromptInjectionDetector.scan; modelScore is 0 without a model, and when
\* the model raises.
InjectionScan(action, modelScore) ==
  LET hits == Hits(IterText(action))
      byPattern == IF hits = 0 THEN 0 ELSE Clamp(11 + 2 * hits, 0, 20)
      byModel   == IF modelScore > 15 THEN modelScore ELSE 0
      severity  == IF byModel > byPattern THEN byModel ELSE byPattern
  IN  IF IterText(action) = <<>> \/ severity = 0 THEN Nothing
      ELSE Found(IF action.type \in {"memory_write", "memory_read"}
                 THEN "injection.memory_poisoning" ELSE "injection.prompt_injection",
                 severity)

\* default_rules.
DefaultRules ==
  << [code |-> "dlp.aws_access_key", severity |-> 19],
     [code |-> "dlp.private_key_block", severity |-> 20],
     [code |-> "dlp.bearer_token", severity |-> 14],
     [code |-> "dlp.email", severity |-> 3],
     [code |-> "dlp.credit_card", severity |-> 12],
     [code |-> "dlp.us_ssn", severity |-> 14] >>

RulesIn(text) ==
  FlattenSeq([k \in DOMAIN DefaultRules |->
                IF DefaultRules[k].code \in text THEN <<DefaultRules[k]>> ELSE <<>>])

\* DLPScanner.scan: one factor for each text and rule.
DlpScan(action) ==
  LET texts == IterText(action)
  IN  FlattenSeq([i \in DOMAIN texts |-> RulesIn(texts[i])])

\* What the two scanners can find.
Sensitive == Patterns \cup {DefaultRules[k].code : k \in DOMAIN DefaultRules}

=============================================================================
