------------------------------ MODULE Decision ------------------------------
(***************************************************************************)
(* The pure part of a decision: the rule matcher of core/policy_engine.py, *)
(* the risk aggregation and reconciliation of core/pipeline.py and the     *)
(* trust gate of identity/trust_scorer.py.                                 *)
(*                                                                         *)
(*   action    [type, tool, did, args]: args is the set of the facts that  *)
(*             argument predicates can test                                *)
(*   identity  [tier, trust], or NoIdentity where the code has None        *)
(*   factor    [code, severity], severity in twentieths: the severities    *)
(*             written in the code are multiples of 0.05, and the computed *)
(*             ones (intent, injection, anomaly) are taken at that grain   *)
(*   rule      [id, effect, enabled, match]: match is a function on the    *)
(*             keys the rule gives                                         *)
(*                                                                         *)
(* A trust score is in thousandths, a risk score in ten-thousandths.       *)
(***************************************************************************)
EXTENDS Integers, SequencesExt

Verdicts == {"allow", "throttle", "escalate", "deny"}

TrustTier == {"observe", "constrained", "standard", "elevated", "privileged"}

NoIdentity == [tier |-> "none", trust |-> 0]

\* RiskFactor, with the codes that the pipeline and its detectors report.
Factor ==
  [ code : {"identity.unknown", "classifier.error",
            "intent.missing", "intent.hard_drift", "intent.soft_drift",
            "tool.unknown", "tool.quarantined", "tool.no_capability",
            "tool.args_invalid", "anomaly.rate_spike", "anomaly.novel_tool",
            "injection.prompt_injection", "injection.memory_poisoning",
            "dlp.aws_access_key", "dlp.private_key_block", "dlp.bearer_token",
            "dlp.email", "dlp.credit_card", "dlp.us_ssn"},
    severity : 0 .. 20 ]

RiskScores == 0 .. 10000

Codes(factors) == {f.code : f \in ToSet(factors)}

-----------------------------------------------------------------------------
(***************************************************************************)
(* What the classifiers of an evaluation report: each returns its factors, *)
(* or raises.                                                              *)
(***************************************************************************)
\* A failing classifier reported as having found nothing.
Mutant_ErrorSwallowed(outcome) == outcome.report

\* _safe_run.
SafeRun(outcome) ==
  IF outcome.raised THEN << [code |-> "classifier.error", severity |-> 12] >>
  ELSE outcome.report

\* The risk factors: identity.unknown first, then those of the gather.
RiskFactors(unknown, outcomes) ==
  (IF unknown THEN << [code |-> "identity.unknown", severity |-> 12] >> ELSE <<>>)
    \o FlattenSeq([i \in DOMAIN outcomes |-> SafeRun(outcomes[i])])

-----------------------------------------------------------------------------
(***************************************************************************)
(* PolicyEngine._matches.  A rule holds when each of its keys does, and a  *)
(* key that the engine does not know holds of everything.  action.tool and *)
(* the risk keys take one string or a list: here always a set.  args holds *)
(* the facts all args.<path> keys ask for.                                 *)
(***************************************************************************)
\* factor_code_any read as "no other code": more evidence unmatches a rule.
Mutant_OnlyTheseCodes(k, v, action, identity, factors) ==
  CASE k = "risk.factor_code_any" -> Codes(factors) # {} /\ Codes(factors) \subseteq v
    [] k = "action.type" -> action.type = v
    [] OTHER -> TRUE

Satisfies(k, v, action, identity, factors) ==
  CASE k = "action.type"          -> action.type = v
    [] k = "action.tool"          -> action.tool \in v
    [] k = "identity.tier"        -> identity # NoIdentity /\ identity.tier = v
    [] k = "identity.did_prefix"  -> action.did \in v
    [] k = "risk.factor_code_any" -> v \cap Codes(factors) # {}
    [] k = "risk.factor_code_all" -> v \subseteq Codes(factors)
    [] k = "risk.min_severity"    -> \/ v <= 0
                                     \/ \E f \in ToSet(factors) : f.severity >= v
    [] k = "args"                 -> v \subseteq action.args
    [] k = "args_contains"        -> v \cap action.args # {}
    [] OTHER                      -> TRUE

Matches(rule, action, identity, factors) ==
  \A k \in DOMAIN rule.match :
    Satisfies(k, rule.match[k], action, identity, factors)

\* PolicyEngine.evaluate: the effects of the enabled rules that match.  The
\* priority only orders the list of matches, and _reconcile takes their set.
Effects(bundle, action, identity, factors) ==
  {r.effect : r \in {s \in bundle : s.enabled
                                    /\ Matches(s, action, identity, factors)}}

-----------------------------------------------------------------------------
(***************************************************************************)
(* _aggregate_risk: 1 - prod(1 - severity), rounded to four digits.        *)
(***************************************************************************)
Clamp(n, low, high) == IF n < low THEN low ELSE IF n > high THEN high ELSE n

\* The loop of _aggregate_risk: the numbers of a list, multiplied.
Product(s) ==
  LET product[n \in 0 .. Len(s)] == IF n = 0 THEN 1 ELSE product[n - 1] * s[n]
  IN  product[Len(s)]

\* The product of 1 - severity, over the Whole: 20 to the number of factors.
SafeProduct(factors) ==
  Product([i \in DOMAIN factors |-> 20 - Clamp(factors[i].severity, 0, 20)])

Whole(factors) == Product([i \in DOMAIN factors |-> 20])

\* The mean severity instead of the probabilistic OR.
Mutant_MeanRisk(factors) ==
  IF factors = <<>> THEN 0
  ELSE FoldLeft(LAMBDA acc, f : acc + 500 * f.severity, 0, factors)
         \div Len(factors)

AggregateRisk(factors) ==
  LET whole == Whole(factors)
  IN  (10000 * (whole - SafeProduct(factors)) + whole \div 2) \div whole

DenyThreshold == 8500
EscalateThreshold == 5500
ThrottleThreshold == 3500

\* The effects tried in the order of their restrictiveness, the wrong way up.
Mutant_MildestWins(effects, score, identity) ==
  CASE "throttle" \in effects -> "throttle"
    [] "throttle" \notin effects /\ "escalate" \in effects -> "escalate"
    [] effects \cap {"throttle", "escalate"} = {} /\ "deny" \in effects -> "deny"
    [] OTHER -> IF identity = NoIdentity THEN "escalate" ELSE "allow"

\* DecisionPipeline._reconcile.
Reconcile(effects, score, identity) ==
  IF "deny" \in effects THEN "deny"
  ELSE IF "escalate" \in effects THEN "escalate"
  ELSE IF "throttle" \in effects THEN "throttle"
  ELSE IF score >= DenyThreshold THEN "deny"
  ELSE IF score >= EscalateThreshold THEN "escalate"
  ELSE IF score >= ThrottleThreshold THEN "throttle"
  ELSE IF identity = NoIdentity THEN "escalate"
  ELSE "allow"

-----------------------------------------------------------------------------
\* _resolve_tier.
Tier(trust) ==
  CASE trust >= 900 -> "privileged"
    [] trust \in 700 .. 899 -> "elevated"
    [] trust \in 500 .. 699 -> "standard"
    [] trust \in 250 .. 499 -> "constrained"
    [] OTHER -> "observe"

Penalty == [deny |-> 200, escalate |-> 80, throttle |-> 30]
CleanRecovery == 5

\* TrustScorer.adjust of a resolved identity.
Adjust(identity, factors, verdict) ==
  LET moved == IF verdict = "allow"
               THEN identity.trust + (IF factors = <<>> THEN CleanRecovery ELSE 0)
               ELSE identity.trust - Penalty[verdict]
      trust == Clamp(moved, 0, 1000)
  IN  [tier |-> Tier(trust), trust |-> trust]

ReadOnlyTypes == {"file_read", "memory_read", "llm_prompt"}

\* Step 5 of DecisionPipeline.evaluate: at OBSERVE only reads pass.
TrustGate(action, identity, factors, verdict) ==
  IF /\ identity # NoIdentity
     /\ verdict = "allow"
     /\ Adjust(identity, factors, verdict).tier = "observe"
     /\ action.type \notin ReadOnlyTypes
  THEN "deny" ELSE verdict

\* Steps 3 to 5 of DecisionPipeline.evaluate: they hold no await.
Verdict(bundle, action, identity, factors) ==
  TrustGate(action, identity, factors,
            Reconcile(Effects(bundle, action, identity, factors),
                      AggregateRisk(factors), identity))

=============================================================================
