--------------------------- MODULE ScreeningProofs --------------------------
(***************************************************************************)
(* The safety properties of Screening, for every number of concurrent      *)
(* evaluations, every set of actions, agents, tools, identities and        *)
(* registry entries, every bundle, every answer of the injection model and *)
(* every horizon.  What a decision makes of a list of risk factors is      *)
(* taken from DecisionProofs.                                              *)
(***************************************************************************)
EXTENDS Screening, FiniteSetTheorems, TLAPS

\* The facts about decisions do not depend on a case that grows.
D == INSTANCE DecisionProofs WITH
       BaseBundle <- {}, Rules <- {}, Factors <- {}, MaxFactors <- 0, Identities <- {},
       action <- "none", identity <- NoIdentity, bundle <- {}, factors <- <<>>

-----------------------------------------------------------------------------
(***************************************************************************)
(* DecisionProofs speaks of the same operators.                            *)
(***************************************************************************)
LEMMA SameDecision ==
  ASSUME NEW b, NEW a, NEW i, NEW unknown, NEW outcomes
  PROVE  /\ Verdict(b, a, i, RiskFactors(unknown, outcomes))
              = D!Verdict(b, a, i, D!RiskFactors(unknown, outcomes))
         /\ Factor = D!Factor /\ SafeRun(outcomes) = D!SafeRun(outcomes)
<1>1. \A u, o : RiskFactors(u, o) = D!RiskFactors(u, o)
  BY DEF RiskFactors, D!RiskFactors, SafeRun, D!SafeRun, FlattenSeq, D!FlattenSeq
<1>2. \A f : AggregateRisk(f) = D!AggregateRisk(f)
  <2>1. \A s : Product(s) = D!Product(s)
    BY DEF Product, D!Product
  <2>2. \A f : SafeProduct(f) = D!SafeProduct(f) /\ Whole(f) = D!Whole(f)
    BY <2>1 DEF SafeProduct, D!SafeProduct, Whole, D!Whole, Clamp, D!Clamp
  <2> QED BY <2>2 DEF AggregateRisk, D!AggregateRisk
<1>3. \A f : Effects(b, a, i, f) = D!Effects(b, a, i, f)
  BY DEF Effects, D!Effects, Matches, D!Matches, Satisfies, D!Satisfies, Codes, D!Codes,
     ToSet, D!ToSet, NoIdentity, D!NoIdentity
<1>4. \A E, s : Reconcile(E, s, i) = D!Reconcile(E, s, i)
  BY DEF Reconcile, D!Reconcile, DenyThreshold, D!DenyThreshold, EscalateThreshold,
     D!EscalateThreshold, ThrottleThreshold, D!ThrottleThreshold, NoIdentity, D!NoIdentity
<1>5. \A f, v : TrustGate(a, i, f, v) = D!TrustGate(a, i, f, v)
  BY DEF TrustGate, D!TrustGate, Adjust, D!Adjust, Tier, D!Tier, Clamp, D!Clamp,
     Penalty, D!Penalty, CleanRecovery, D!CleanRecovery, ReadOnlyTypes,
     D!ReadOnlyTypes, NoIdentity, D!NoIdentity
<1>6. Factor = D!Factor /\ SafeRun(outcomes) = D!SafeRun(outcomes)
  BY DEF Factor, D!Factor, SafeRun, D!SafeRun
<1> QED BY <1>1, <1>2, <1>3, <1>4, <1>5, <1>6 DEF Verdict, D!Verdict

(***************************************************************************)
(* The facts of DecisionProofs ask nothing of an empty case.               *)
(***************************************************************************)
LEMMA DecisionAssumed == D!GrowthAssumption
BY DEF D!GrowthAssumption

(***************************************************************************)
(* A single factor.                                                        *)
(***************************************************************************)
LEMMA FoundOK ==
  ASSUME NEW x \in Factor
  PROVE  <<x>> \in Seq(Factor) /\ D!Occurs(x, <<x>>)
BY DEF D!Occurs

(***************************************************************************)
(* What the texts of an action are, and that none outside a nested object  *)
(* is left out.                                                            *)
(***************************************************************************)
LEMMA TextsKept ==
  ASSUME NEW a \in Actions
  PROVE  /\ IterText(a) \in Seq(SUBSET Sensitive)
         /\ \A i \in DOMAIN a.fields : a.fields[i].shape # "nested" =>
              \A x : D!Occurs(x, a.fields[i].texts) => D!Occurs(x, IterText(a))
<1> DEFINE T == SUBSET Sensitive
           Field == [shape : {"text", "list", "nested"}, texts : Seq(T)]
           ss == [i \in DOMAIN a.fields |->
                    IF a.fields[i].shape \in {"text", "list"}
                    THEN a.fields[i].texts ELSE <<>>]
<1>1. a.fields \in Seq(Field)
  BY ScreeningAssumption DEF ScreeningAssumption
<1>2. ASSUME NEW i \in DOMAIN a.fields
      PROVE  a.fields[i].shape \in {"text", "list", "nested"} /\ a.fields[i].texts \in Seq(T)
  <2>1. a.fields[i] \in Field
    <3> HIDE DEF Field
    <3> QED BY <1>1
  <2> QED BY <2>1
<1>3. DOMAIN a.fields = 1 .. Len(a.fields) /\ Len(a.fields) \in Nat
  <2> HIDE DEF Field
  <2> QED BY <1>1
<1>4. ss \in Seq(Seq(T)) /\ DOMAIN ss = DOMAIN a.fields
  BY <1>2, <1>3
<1>5. \A i \in DOMAIN a.fields : a.fields[i].shape # "nested" => ss[i] = a.fields[i].texts
  BY <1>2
<1>6. IterText(a) = FlattenSeq(ss)
  BY DEF IterText
<1> HIDE DEF ss, T
<1>7. FlattenSeq(ss) = D!FlattenSeq(ss)
  BY DEF FlattenSeq, D!FlattenSeq
<1>8. D!FlattenSeq(ss) \in Seq(T)
  BY <1>4, DecisionAssumed, D!FlattenKeeps
<1>9. \A i \in DOMAIN ss : \A x : D!Occurs(x, ss[i]) => D!Occurs(x, D!FlattenSeq(ss))
  BY <1>4, DecisionAssumed, D!FlattenKeeps
<1> QED BY <1>4, <1>5, <1>6, <1>7, <1>8, <1>9 DEF T

(***************************************************************************)
(* A set written out is finite.                                            *)
(***************************************************************************)
LEMMA FewAreFinite ==
  ASSUME NEW a, NEW b, NEW c, NEW d, NEW e, NEW f
  PROVE  IsFiniteSet({a, b, c, d, e, f})
<1>1. IsFiniteSet({a} \cup {b})
  BY FS_Singleton, FS_AddElement
<1>2. IsFiniteSet(({a} \cup {b}) \cup {c})
  BY <1>1, FS_AddElement
<1>3. IsFiniteSet((({a} \cup {b}) \cup {c}) \cup {d})
  BY <1>2, FS_AddElement
<1>4. IsFiniteSet(((({a} \cup {b}) \cup {c}) \cup {d}) \cup {e})
  BY <1>3, FS_AddElement
<1>5. IsFiniteSet((((({a} \cup {b}) \cup {c}) \cup {d}) \cup {e}) \cup {f})
  BY <1>4, FS_AddElement
<1>6. {a, b, c, d, e, f} = (((({a} \cup {b}) \cup {c}) \cup {d}) \cup {e}) \cup {f}
  OBVIOUS
<1> QED BY <1>5, <1>6

(***************************************************************************)
(* The intent's severity is a severity: no more hints are shared than      *)
(* there are.                                                              *)
(***************************************************************************)
LEMMA IntentOK ==
  ASSUME NEW a \in Actions, NEW related
  PROVE  IntentClassify(a, related) \in Seq(Factor)
<1> DEFINE curated == a.type \in DOMAIN IntentHints
           curatedHints == IF curated THEN IntentHints[a.type] ELSE {}
           hints == a.name \cup curatedHints
           shared == Cardinality(a.intent \cap hints)
           all == Cardinality(hints)
           severity == (40 * (all - shared) + all) \div (2 * all)
<1>1. IsFiniteSet(a.intent) /\ IsFiniteSet(a.name)
  BY ScreeningAssumption DEF ScreeningAssumption
<1>2. IsFiniteSet(curatedHints)
  <2>1. ASSUME NEW t \in DOMAIN IntentHints
        PROVE  \E x1, x2, x3, x4, x5, x6 : IntentHints[t] = {x1, x2, x3, x4, x5, x6}
    <3>1. CASE t = "file_write"
      BY <3>1 DEF IntentHints
    <3>2. CASE t = "file_read"
      <4>1. IntentHints[t] = {"read", "load", "open", "fetch", "review", "review"}
        BY <3>2 DEF IntentHints
      <4> QED BY <4>1
    <3>3. CASE t = "http_request"
      BY <3>3 DEF IntentHints
    <3>4. CASE t = "shell_command"
      <4>1. IntentHints[t] = {"run", "execute", "shell", "command", "command", "command"}
        BY <3>4 DEF IntentHints
      <4> QED BY <4>1
    <3>5. CASE t = "code_execution"
      <4>1. IntentHints[t] = {"execute", "run", "evaluate", "compute", "compute", "compute"}
        BY <3>5 DEF IntentHints
      <4> QED BY <4>1
    <3>6. CASE t = "payment"
      <4>1. IntentHints[t] = {"pay", "charge", "refund", "transfer", "purchase", "purchase"}
        BY <3>6 DEF IntentHints
      <4> QED BY <4>1
    <3>7. CASE t = "database_query"
      <4>1. IntentHints[t] = {"query", "select", "insert", "update", "delete", "delete"}
        BY <3>7 DEF IntentHints
      <4> QED BY <4>1
    <3> QED BY <3>1, <3>2, <3>3, <3>4, <3>5, <3>6, <3>7 DEF IntentHints
  <2>2. ASSUME curated PROVE IsFiniteSet(IntentHints[a.type])
    <3> DEFINE H == IntentHints[a.type]
    <3>1. PICK x1, x2, x3, x4, x5, x6 : H = {x1, x2, x3, x4, x5, x6}
      BY <2>1, <2>2
    <3> HIDE DEF H
    <3>2. IsFiniteSet(H)
      BY <3>1, FewAreFinite
    <3> QED BY <3>2 DEF H
  <2>3. CASE curated
    BY <2>2, <2>3
  <2>4. CASE ~curated
    BY <2>4, FS_EmptySet
  <2> QED BY <2>3, <2>4
<1> HIDE DEF curatedHints
<1>3. IsFiniteSet(hints)
  BY <1>1, <1>2, FS_Union
<1>4. all \in Nat /\ shared \in Nat /\ shared <= all
  <2> HIDE DEF hints
  <2> QED BY <1>3, FS_CardinalityType, FS_Intersection
<1>5. hints # {} => all # 0
  <2> HIDE DEF hints
  <2> QED BY <1>3, FS_EmptySet
<1> HIDE DEF curated, hints, all, shared
<1>6. hints # {} => severity \in 0 .. 20
  BY <1>4, <1>5
<1> HIDE DEF severity
<1>7. ASSUME NEW drift \in {"intent.hard_drift", "intent.soft_drift"}, hints # {}
      PROVE  Found(drift, severity) \in Seq(Factor)
  <2>1. [code |-> drift, severity |-> severity] \in Factor
    BY <1>6, <1>7 DEF Factor
  <2> QED BY <2>1, FoundOK DEF Found
<1>8. Found("intent.missing", 5) \in Seq(Factor)
  <2>1. [code |-> "intent.missing", severity |-> 5] \in Factor
    BY DEF Factor
  <2> QED BY <2>1, FoundOK DEF Found
<1>9. Nothing \in Seq(Factor)
  BY DEF Nothing
<1> QED BY <1>7, <1>8, <1>9
        DEF IntentClassify, curated, curatedHints, hints, all, shared, severity

\* A report with a factor that takes the risk over the throttle threshold.
Grave(report) == \E x : D!Occurs(x, report) /\ x.severity >= 7

(***************************************************************************)
(* A tool's entry that does not let a known agent pass makes the validator *)
(* report something grave, or raise.                                       *)
(***************************************************************************)
LEMMA ToolReport ==
  ASSUME NEW a \in Actions, NEW i, NEW spec \in Specs \cup {Unregistered}
  PROVE  /\ ToolValidate(a, i, spec) \in Seq(Factor)
         /\ ToolValidateRaises(a, spec) \in BOOLEAN
         /\ \A q : /\ q.action = a /\ q.identity = i /\ i # NoIdentity
                   /\ a.tool # "none" /\ ~Entitles(spec, q)
                   => ToolValidateRaises(a, spec) \/ Grave(ToolValidate(a, i, spec))
<1> DEFINE unknown == [code |-> "tool.unknown", severity |-> 14]
           quarantined == [code |-> "tool.quarantined", severity |-> 19]
           invalid == [code |-> "tool.args_invalid", severity |-> 16]
           lacking == [code |-> "tool.no_capability",
                       severity |-> IF spec.sensitivity > 12 THEN spec.sensitivity ELSE 12]
           Cap == CapabilityFactors(a, i, spec)
           Args == IF spec.schema = "good" /\ ~a.valid THEN <<invalid>> ELSE <<>>
<1>1. /\ unknown \in Factor /\ quarantined \in Factor /\ invalid \in Factor
      /\ unknown.severity >= 7 /\ quarantined.severity >= 7 /\ invalid.severity >= 7
  BY DEF Factor
<1>2. spec # Unregistered =>
        /\ lacking \in Factor /\ lacking.severity >= 7
        /\ spec.schema \in {"none", "good", "bad"}
  <2> SUFFICES ASSUME spec \in Specs
               PROVE  /\ lacking \in Factor /\ lacking.severity >= 7
                      /\ spec.schema \in {"none", "good", "bad"}
    OBVIOUS
  <2>1. spec \in ToolSpecs({s.capability : s \in Specs}, 0 .. 20)
    BY ScreeningAssumption DEF ScreeningAssumption
  <2>2. spec.sensitivity \in 0 .. 20 /\ spec.schema \in {"none", "good", "bad"}
    BY <2>1 DEF ToolSpecs
  <2>3. PICK n \in 12 .. 20 : n = IF spec.sensitivity > 12 THEN spec.sensitivity ELSE 12
    <3>1. PICK m \in 0 .. 20 : m = spec.sensitivity
      BY <2>2
    <3> QED BY <3>1
  <2>4. [code |-> "tool.no_capability", severity |-> n] \in Factor
    BY DEF Factor
  <2> QED BY <2>2, <2>3, <2>4
<1>3. Cap = IF i # NoIdentity /\ spec.capability \notin i.caps THEN <<lacking>> ELSE <<>>
  BY DEF CapabilityFactors, Found, Nothing
<1>4. ToolValidate(a, i, spec) =
        IF a.tool = "none" THEN <<>>
        ELSE IF spec = Unregistered THEN <<unknown>>
        ELSE IF spec.quarantined THEN <<quarantined>>
        ELSE Cap \o Args
  BY DEF ToolValidate, Found, Nothing
<1> HIDE DEF unknown, quarantined, invalid, lacking
<1>5. spec # Unregistered => Cap \in Seq(Factor) /\ Args \in Seq(Factor)
  BY <1>1, <1>2, <1>3, FoundOK
<1>6. ToolValidate(a, i, spec) \in Seq(Factor)
  <2> HIDE DEF Cap, Args
  <2>1. spec # Unregistered => Cap \o Args \in Seq(Factor)
    BY <1>5
  <2>2. <<unknown>> \in Seq(Factor) /\ <<quarantined>> \in Seq(Factor)
    BY <1>1
  <2>3. <<>> \in Seq(Factor)
    OBVIOUS
  <2> QED BY <1>4, <2>1, <2>2, <2>3
<1>7. ASSUME NEW x \in Factor, x.severity >= 7 PROVE Grave(<<x>>)
  BY <1>7, FoundOK DEF Grave
<1>8. ASSUME NEW q, q.action = a, q.identity = i, i # NoIdentity,
             a.tool # "none", ~Entitles(spec, q), ~ToolValidateRaises(a, spec)
      PROVE  Grave(ToolValidate(a, i, spec))
  <2>1. CASE spec = Unregistered
    BY <1>1, <1>4, <1>7, <1>8, <2>1
  <2>2. CASE spec # Unregistered /\ spec.quarantined
    BY <1>1, <1>4, <1>7, <1>8, <2>2
  <2>3. CASE spec # Unregistered /\ ~spec.quarantined /\ spec.capability \notin i.caps
    <3>1. Cap = <<lacking>>
      BY <1>3, <1>8, <2>3
    <3>2. ToolValidate(a, i, spec) = Cap \o Args
      BY <1>4, <1>8, <2>3
    <3>3. Args \in Seq(Factor) /\ lacking \in Factor /\ lacking.severity >= 7
      BY <1>2, <1>5, <2>3
    <3> HIDE DEF Args, Cap
    <3>4. D!Occurs(lacking, <<lacking>> \o Args)
      <4>1. 1 \in DOMAIN (<<lacking>> \o Args) /\ (<<lacking>> \o Args)[1] = lacking
        BY <3>3
      <4> QED BY <4>1 DEF D!Occurs
    <3> QED BY <3>1, <3>2, <3>3, <3>4 DEF Grave
  <2>4. CASE spec # Unregistered /\ ~spec.quarantined /\ spec.capability \in i.caps
    <3>1. spec.schema = "good" /\ ~a.valid
      BY <1>2, <1>8, <2>4 DEF Entitles, ToolValidateRaises
    <3>2. Cap = <<>> /\ Args = <<invalid>>
      BY <1>3, <2>4, <3>1
    <3>3. ToolValidate(a, i, spec) = Cap \o Args
      BY <1>4, <1>8, <2>4
    <3>4. <<>> \o <<invalid>> = <<invalid>>
      OBVIOUS
    <3> QED BY <1>1, <1>7, <3>2, <3>3, <3>4
  <2> QED BY <2>1, <2>2, <2>3, <2>4
<1>9. ToolValidateRaises(a, spec) \in BOOLEAN
  BY DEF ToolValidateRaises
<1> QED BY <1>6, <1>8, <1>9

(***************************************************************************)
(* The anomaly detector's factors, for a window within the bound.          *)
(***************************************************************************)
LEMMA AnomalyOK ==
  ASSUME NEW a \in Actions, NEW window, Len(window) \in Nat,
         Len(window) < MaxWindow + Cardinality(Requests)
  PROVE  AnomalyScore(a, window, Limits) \in Seq(Factor)
<1> DEFINE n == Len(window)
           spike == [code |-> "anomaly.rate_spike", severity |-> Limits.spikeSeverity[n]]
           novel == [code |-> "anomaly.novel_tool", severity |-> 8]
<1>1. n > Limits.spikeMin => spike \in Factor
  <2> SUFFICES ASSUME n > Limits.spikeMin PROVE spike \in Factor
    OBVIOUS
  <2>1. Limits.spikeMin \in Nat /\ MaxWindow \in Nat /\ Cardinality(Requests) \in Nat
    BY ScreeningAssumption, FS_CardinalityType DEF ScreeningAssumption
  <2>2. n \in Limits.spikeMin + 1 .. MaxWindow + Cardinality(Requests) - 1
    BY <2>1
  <2>3. PICK m \in 0 .. 20 : m = Limits.spikeSeverity[n]
    <3> HIDE DEF n
    <3> QED BY <2>2, ScreeningAssumption DEF ScreeningAssumption
  <2>4. [code |-> "anomaly.rate_spike", severity |-> m] \in Factor
    BY DEF Factor
  <2> QED BY <2>3, <2>4
<1>2. novel \in Factor
  BY DEF Factor
<1>3. PICK s \in {<<>>, <<spike>>}, t \in {<<>>, <<novel>>} :
        /\ AnomalyScore(a, window, Limits) = s \o t
        /\ s = <<spike>> => n > Limits.spikeMin
  BY DEF AnomalyScore, Found, Nothing
<1> HIDE DEF n, spike, novel
<1>4. <<>> \in Seq(Factor) /\ <<novel>> \in Seq(Factor)
  BY <1>2
<1>5. n > Limits.spikeMin => <<spike>> \in Seq(Factor)
  BY <1>1
<1>6. s \in Seq(Factor) /\ t \in Seq(Factor)
  BY <1>3, <1>4, <1>5, Zenon
<1> QED BY <1>3, <1>6

(***************************************************************************)
(* The patterns are counted: there are finitely many hits, and one at      *)
(* least where a pattern occurs.                                           *)
(***************************************************************************)
LEMMA HitsCount ==
  ASSUME NEW texts \in Seq(SUBSET Sensitive)
  PROVE  /\ Hits(texts) \in Nat
         /\ \A i \in DOMAIN texts : texts[i] \cap Patterns # {} => Hits(texts) >= 1
<1> DEFINE H == {hit \in (DOMAIN texts) \X Patterns : hit[2] \in texts[hit[1]]}
<1>1. IsFiniteSet(Patterns)
  <2>1. IsFiniteSet({"ignore", "disregard", "new_instructions", "persona", "reveal", "jailbreak"})
    BY FewAreFinite
  <2>2. IsFiniteSet({"override", "exfiltrate", "pipe_to_shell", "decode_and_run",
                     "decode_and_run", "decode_and_run"})
    BY FewAreFinite
  <2>3. Patterns =
          {"ignore", "disregard", "new_instructions", "persona", "reveal", "jailbreak"}
            \cup {"override", "exfiltrate", "pipe_to_shell", "decode_and_run",
                  "decode_and_run", "decode_and_run"}
    BY DEF Patterns
  <2> QED BY <2>1, <2>2, <2>3, FS_Union
<1>2. IsFiniteSet(DOMAIN texts)
  <2>1. DOMAIN texts = 1 .. Len(texts) /\ Len(texts) \in Int /\ 1 \in Int
    OBVIOUS
  <2> QED BY <2>1, FS_Interval
<1>3. H \in SUBSET ((DOMAIN texts) \X Patterns)
  OBVIOUS
<1>4. IsFiniteSet(H)
  <2> HIDE DEF H
  <2> QED BY <1>1, <1>2, <1>3, FS_Product, FS_Subset
<1>5. Hits(texts) = Cardinality(H)
  BY DEF Hits
<1>6. ASSUME NEW i \in DOMAIN texts, texts[i] \cap Patterns # {} PROVE H # {}
  <2>1. PICK p \in Patterns : p \in texts[i]
    BY <1>6
  <2>2. <<i, p>> \in H
    BY <2>1
  <2> QED BY <2>2
<1> HIDE DEF H
<1>7. Cardinality(H) \in Nat /\ (H # {} => Cardinality(H) # 0)
  BY <1>4, FS_CardinalityType, FS_EmptySet
<1> QED BY <1>5, <1>6, <1>7

(***************************************************************************)
(* An injection pattern in a text is a grave factor, whatever the model    *)
(* answers.                                                                *)
(***************************************************************************)
LEMMA InjectionReport ==
  ASSUME NEW a \in Actions, NEW m \in 0 .. 20
  PROVE  /\ InjectionScan(a, m) \in Seq(Factor)
         /\ \A text : D!Occurs(text, IterText(a)) /\ text \cap Patterns # {}
                      => Grave(InjectionScan(a, m))
<1> DEFINE texts == IterText(a)
           hits == Hits(texts)
           byPattern == IF hits = 0 THEN 0 ELSE Clamp(11 + 2 * hits, 0, 20)
           byModel == IF m > 15 THEN m ELSE 0
           severity == IF byModel > byPattern THEN byModel ELSE byPattern
           code == IF a.type \in {"memory_write", "memory_read"}
                   THEN "injection.memory_poisoning" ELSE "injection.prompt_injection"
           x == [code |-> code, severity |-> severity]
<1>1. texts \in Seq(SUBSET Sensitive)
  BY TextsKept
<1> HIDE DEF texts
<1>2. hits \in Nat /\ \A i \in DOMAIN texts : texts[i] \cap Patterns # {} => hits >= 1
  BY <1>1, HitsCount
<1>3. InjectionScan(a, m) = IF texts = <<>> \/ severity = 0 THEN <<>> ELSE <<x>>
  BY DEF InjectionScan, Found, Nothing, texts
<1> HIDE DEF hits
<1>4. severity \in 0 .. 20 /\ (hits >= 1 => severity >= 13)
  BY <1>2 DEF Clamp
<1> HIDE DEF severity
<1>5. x \in Factor /\ x.severity = severity
  BY <1>4 DEF Factor
<1> HIDE DEF x
<1>6. InjectionScan(a, m) \in Seq(Factor)
  BY <1>3, <1>5
<1>7. ASSUME NEW text, D!Occurs(text, texts), text \cap Patterns # {}
      PROVE  Grave(InjectionScan(a, m))
  <2>1. PICK i \in DOMAIN texts : texts[i] = text
    BY <1>7 DEF D!Occurs
  <2>2. severity >= 13 /\ texts # <<>>
    BY <1>1, <1>2, <1>4, <1>7, <2>1
  <2>3. InjectionScan(a, m) = <<x>> /\ x.severity >= 7
    BY <1>3, <1>4, <1>5, <2>2
  <2> QED BY <1>5, <2>3, FoundOK DEF Grave
<1> QED BY <1>6, <1>7 DEF texts

(***************************************************************************)
(* A text's factors are those of the rules whose pattern occurs in it, and *)
(* all but an e-mail address are grave.                                    *)
(***************************************************************************)
LEMMA RulesFound ==
  ASSUME NEW text \in SUBSET Sensitive
  PROVE  /\ RulesIn(text) \in Seq(Factor)
         /\ ~(text \subseteq Patterns \cup {"dlp.email"}) => Grave(RulesIn(text))
<1> DEFINE ss == [k \in DOMAIN DefaultRules |->
                    IF DefaultRules[k].code \in text THEN <<DefaultRules[k]>> ELSE <<>>]
<1>1. DefaultRules \in Seq(Factor) /\ DOMAIN DefaultRules = 1 .. 6
  BY DEF DefaultRules, Factor
<1>2. \A k \in 1 .. 6 : DefaultRules[k].code # "dlp.email" => DefaultRules[k].severity >= 7
  BY DEF DefaultRules
<1>0. \A k \in 1 .. 6 : DefaultRules[k] \in Factor
  <2>1. ASSUME NEW f \in Seq(Factor), NEW k \in DOMAIN f PROVE f[k] \in Factor
    OBVIOUS
  <2> QED BY <1>1, <2>1, Zenon
<1>3. ss \in Seq(Seq(Factor)) /\ DOMAIN ss = 1 .. 6
  <2>1. \A k \in 1 .. 6 : ss[k] \in Seq(Factor)
    <3> SUFFICES ASSUME NEW k \in 1 .. 6 PROVE ss[k] \in Seq(Factor)
      OBVIOUS
    <3>1. <<DefaultRules[k]>> \in Seq(Factor) /\ <<>> \in Seq(Factor)
      BY <1>0, FoundOK
    <3> QED BY <1>1, <3>1
  <2>2. ss = [k \in 1 .. 6 |-> ss[k]]
    BY <1>1
  <2> HIDE DEF ss
  <2> QED BY <2>1, <2>2
<1>4. RulesIn(text) = FlattenSeq(ss)
  BY DEF RulesIn
<1>5. \A k \in 1 .. 6 : DefaultRules[k].code \in text => ss[k] = <<DefaultRules[k]>>
  BY <1>1
<1> HIDE DEF ss
<1>6. FlattenSeq(ss) = D!FlattenSeq(ss)
  BY DEF FlattenSeq, D!FlattenSeq
<1>7. D!FlattenSeq(ss) \in Seq(Factor)
  BY <1>3, DecisionAssumed, D!FlattenKeeps
<1>8. \A k \in DOMAIN ss : \A x : D!Occurs(x, ss[k]) => D!Occurs(x, D!FlattenSeq(ss))
  BY <1>3, DecisionAssumed, D!FlattenKeeps
<1>9. ASSUME NEW p \in text, p \notin Patterns \cup {"dlp.email"} PROVE Grave(RulesIn(text))
  <2>1. PICK k \in 1 .. 6 : DefaultRules[k].code = p
    BY <1>1, <1>9 DEF Sensitive
  <2>2. DefaultRules[k] \in Factor /\ DefaultRules[k].severity >= 7
    BY <1>0, <1>2, <1>9, <2>1
  <2>3. D!Occurs(DefaultRules[k], ss[k])
    BY <1>5, <2>1, <2>2, FoundOK
  <2> QED BY <1>3, <1>4, <1>6, <1>8, <2>2, <2>3 DEF Grave
<1> QED BY <1>4, <1>6, <1>7, <1>9

(***************************************************************************)
(* The DLP scanner loses no text.                                          *)
(***************************************************************************)
LEMMA DlpReport ==
  ASSUME NEW a \in Actions
  PROVE  /\ DlpScan(a) \in Seq(Factor)
         /\ \A text : /\ D!Occurs(text, IterText(a))
                      /\ ~(text \subseteq Patterns \cup {"dlp.email"})
                      => Grave(DlpScan(a))
<1> DEFINE texts == IterText(a)
           ss == [i \in DOMAIN texts |-> RulesIn(texts[i])]
<1>1. DlpScan(a) = FlattenSeq(ss)
  BY DEF DlpScan
<1>2. texts \in Seq(SUBSET Sensitive)
  BY TextsKept
<1> HIDE DEF texts
<1>3. \A i \in DOMAIN texts : texts[i] \in SUBSET Sensitive
  BY <1>2
<1>4. ss \in Seq(Seq(Factor)) /\ DOMAIN ss = DOMAIN texts
  <2>1. \A i \in DOMAIN texts : RulesIn(texts[i]) \in Seq(Factor)
    BY <1>3, RulesFound
  <2>2. DOMAIN texts = 1 .. Len(texts) /\ Len(texts) \in Nat
    BY <1>2
  <2> QED BY <2>1, <2>2
<1>5. \A i \in DOMAIN texts : ss[i] = RulesIn(texts[i])
  OBVIOUS
<1> HIDE DEF ss
<1>6. FlattenSeq(ss) = D!FlattenSeq(ss)
  BY DEF FlattenSeq, D!FlattenSeq
<1>7. D!FlattenSeq(ss) \in Seq(Factor)
  BY <1>4, DecisionAssumed, D!FlattenKeeps
<1>8. \A i \in DOMAIN ss : \A x : D!Occurs(x, ss[i]) => D!Occurs(x, D!FlattenSeq(ss))
  BY <1>4, DecisionAssumed, D!FlattenKeeps
<1>9. ASSUME NEW text, D!Occurs(text, texts), ~(text \subseteq Patterns \cup {"dlp.email"})
      PROVE  Grave(DlpScan(a))
  <2>1. PICK i \in DOMAIN texts : texts[i] = text
    BY <1>9 DEF D!Occurs
  <2>2. Grave(ss[i])
    BY <1>3, <1>5, <1>9, <2>1, RulesFound
  <2> QED BY <1>1, <1>4, <1>6, <1>8, <2>2 DEF Grave
<1> QED BY <1>1, <1>6, <1>7, <1>9 DEF texts

-----------------------------------------------------------------------------
\* What a window holds of an action.
Event == [age : 0 .. Horizon + 1, tool : Tools \cup {"none"}]

(***************************************************************************)
(* What the popleft loop leaves starts with the first entry that is young  *)
(* enough, or is empty.                                                    *)
(***************************************************************************)
LEMMA PopOlderIs ==
  ASSUME NEW s \in Seq(Event)
  PROVE  \E m \in 1 .. Len(s) + 1 :
           /\ PopOlder(s, Horizon) = SubSeq(s, m, Len(s))
           /\ \A i \in 1 .. m - 1 : s[i].age > Horizon
           /\ m <= Len(s) => s[m].age <= Horizon
<1> DEFINE kept == {i \in DOMAIN s : s[i].age <= Horizon}
<1>1. Len(s) \in Nat /\ DOMAIN s = 1 .. Len(s) /\ Horizon \in Nat
  BY ScreeningAssumption DEF ScreeningAssumption
<1>2. ASSUME NEW i \in DOMAIN s PROVE s[i].age \in Int
  <2>1. s[i] \in Event
    OBVIOUS
  <2>2. ASSUME NEW e \in Event PROVE e.age \in Int
    BY <1>1 DEF Event
  <2> QED BY <2>1, <2>2
<1>3. CASE kept = {}
  <2>1. PopOlder(s, Horizon) = <<>>
    BY <1>3 DEF PopOlder
  <2>2. SubSeq(s, Len(s) + 1, Len(s)) = <<>>
    BY <1>1
  <2>3. \A i \in 1 .. Len(s) : s[i].age > Horizon
    BY <1>1, <1>2, <1>3
  <2>4. Len(s) + 1 \in 1 .. Len(s) + 1 /\ (Len(s) + 1) - 1 = Len(s) /\ ~(Len(s) + 1 <= Len(s))
    BY <1>1
  <2> QED BY <2>1, <2>2, <2>3, <2>4
<1>4. CASE kept # {}
  <2>1. kept \in SUBSET Nat
    BY <1>1
  <2>2. PICK m \in kept : \A k \in kept : m <= k
    <3> HIDE DEF kept
    <3> QED BY <1>4, <2>1, DecisionAssumed, D!LeastNumber
  <2>3. Min(kept) \in kept /\ \A k \in kept : Min(kept) <= k
    <3> HIDE DEF kept
    <3> QED BY <2>2 DEF Min
  <2>4. PopOlder(s, Horizon) = SubSeq(s, Min(kept), Len(s))
    BY <1>4 DEF PopOlder
  <2>5. PICK n : n = Min(kept)
    OBVIOUS
  <2>6. n \in 1 .. Len(s) + 1 /\ s[n].age <= Horizon
    BY <1>1, <2>3, <2>5
  <2>7. ASSUME NEW i \in 1 .. n - 1 PROVE s[i].age > Horizon
    <3>1. i \in DOMAIN s /\ ~(n <= i)
      BY <1>1, <2>3, <2>5
    <3>2. i \notin kept
      <4> HIDE DEF kept
      <4> QED BY <2>3, <2>5, <3>1
    <3> QED BY <1>1, <1>2, <3>1, <3>2
  <2> QED BY <2>4, <2>5, <2>6, <2>7
<1> QED BY <1>3, <1>4

(***************************************************************************)
(* A recorded action is the last of its agent's window, which grows by one *)
(* entry at most and only with it.                                         *)
(***************************************************************************)
LEMMA RecordOK ==
  ASSUME NEW a \in Actions, NEW w \in Seq(Event)
  PROVE  /\ Recorded(a) \in Event
         /\ Record(a, w, Horizon) \in Seq(Event)
         /\ Len(Record(a, w, Horizon)) <= Len(w) + 1
<1> DEFINE s == Append(w, Recorded(a))
<1>1. Recorded(a) \in Event
  <2>1. a.tool \in Tools \cup {"none"} /\ Horizon \in Nat
    BY ScreeningAssumption DEF ScreeningAssumption
  <2>2. 0 \in 0 .. Horizon + 1
    BY <2>1
  <2> QED BY <2>1, <2>2 DEF Recorded, Event
<1>2. s \in Seq(Event) /\ Len(s) = Len(w) + 1 /\ Len(s) \in Nat
  BY <1>1
<1>3. Record(a, w, Horizon) = PopOlder(s, Horizon)
  BY DEF Record
<1> HIDE DEF s
<1>4. PICK m \in 1 .. Len(s) + 1 : PopOlder(s, Horizon) = SubSeq(s, m, Len(s))
  BY <1>2, PopOlderIs
<1>5. SubSeq(s, m, Len(s)) \in Seq(Event) /\ Len(SubSeq(s, m, Len(s))) = Len(s) - m + 1
  BY <1>2
<1> QED BY <1>1, <1>2, <1>3, <1>4, <1>5

(***************************************************************************)
(* A tick of the clock changes the ages of a window's entries only.        *)
(***************************************************************************)
LEMMA AgedIs ==
  ASSUME NEW w \in Seq(Event)
  PROVE  /\ Aged(w) \in Seq(Event) /\ Len(Aged(w)) = Len(w)
         /\ \A i \in 1 .. Len(w) :
              /\ Aged(w)[i] = Older(w[i]) /\ Aged(w)[i].tool = w[i].tool
              /\ Aged(w)[i].age = IF w[i].age > Horizon THEN w[i].age ELSE w[i].age + 1
<1>1. ASSUME NEW e \in Event
      PROVE  /\ Older(e) \in Event /\ Older(e).tool = e.tool
             /\ Older(e).age = IF e.age > Horizon THEN e.age ELSE e.age + 1
  <2>1. PICK c \in 0 .. Horizon + 1, t \in Tools \cup {"none"} : e = [age |-> c, tool |-> t]
    BY DEF Event
  <2> DEFINE g == IF c > Horizon THEN c ELSE c + 1
  <2>2. g \in 0 .. Horizon + 1
    BY ScreeningAssumption DEF ScreeningAssumption
  <2>3. Older(e) = [age |-> g, tool |-> t]
    BY <2>1 DEF Older
  <2> HIDE DEF g
  <2>4. Older(e) \in Event /\ Older(e).tool = t /\ Older(e).age = g
    BY <2>2, <2>3 DEF Event
  <2> QED BY <2>1, <2>4 DEF g
<1>2. \A i \in 1 .. Len(w) : w[i] \in Event
  OBVIOUS
<1>3. DOMAIN w = 1 .. Len(w) /\ Len(w) \in Nat
  OBVIOUS
<1>4. \A i \in DOMAIN w : Older(w[i]) \in Event
  BY <1>1, <1>2, <1>3
<1>5. Aged(w) \in Seq(Event) /\ Len(Aged(w)) = Len(w)
  BY <1>3, <1>4 DEF Aged
<1>6. \A i \in 1 .. Len(w) : Aged(w)[i] = Older(w[i])
  BY <1>3 DEF Aged
<1> QED BY <1>1, <1>2, <1>5, <1>6

(***************************************************************************)
(* The end of a window after its first k entries.                          *)
(***************************************************************************)
LEMMA SuffixIs ==
  ASSUME NEW w \in Seq(Event), NEW k \in 0 .. Len(w), NEW s \in Seq(Event),
         Len(s) = Len(w) - k, \A i \in 1 .. Len(s) : s[i] = w[k + i]
  PROVE  SubSeq(w, k + 1, Len(w)) = s
<1> DEFINE z == SubSeq(w, k + 1, Len(w))
<1>1. PICK n \in Nat, m \in Nat : n = Len(w) /\ m = k + 1
  BY DEF Event
<1>2. m \in 1 .. n + 1 /\ n - m + 1 = Len(s)
  BY <1>1
<1>3. /\ SubSeq(w, m, n) \in Seq(Event) /\ Len(SubSeq(w, m, n)) = n - m + 1
      /\ \A i \in 1 .. n - m + 1 : SubSeq(w, m, n)[i] = w[m + i - 1]
  BY <1>1, <1>2
<1>4. z \in Seq(Event) /\ Len(z) = Len(s) /\ \A i \in 1 .. Len(s) : z[i] = w[m + i - 1]
  BY <1>1, <1>2, <1>3
<1>5. \A i \in 1 .. Len(s) : m + i - 1 = k + i
  BY <1>1
<1> HIDE DEF z
<1>6. \A i \in 1 .. Len(s) : z[i] = s[i]
  BY <1>4, <1>5
<1>7. ASSUME NEW p \in Seq(Event), NEW q \in Seq(Event), Len(p) = Len(q),
             \A i \in 1 .. Len(q) : p[i] = q[i]
      PROVE  p = q
  BY <1>7
<1>8. z = s
  BY <1>4, <1>6, <1>7
<1> QED BY <1>8 DEF z

-----------------------------------------------------------------------------
Evaluation ==
  [phase : {"idle", "classifying", "classified", "allowed", "blocked"},
   action : Actions \cup {"none"}, identity : Identities \cup {NoIdentity},
   unknown : BOOLEAN]

Outcome == [raised : BOOLEAN, report : Seq(Factor)]

\* The evaluations of an agent that have yet to record their action.
Waiting(d) == {r \in Requests : req[r].phase = "classifying" /\ req[r].action.did = d}

\* Type correctness, with what keeps the windows within their bound: what an
\* agent has recorded and what it may still record.
TypeInv ==
  /\ registry \in [Tools -> Specs \cup {Unregistered}]
  /\ windows \in [Dids -> Seq(Event)]
  /\ recent \in [Dids -> Seq(Event)]
  /\ used \in [Dids -> SUBSET (Tools \cup {"none"})]
  /\ req \in [Requests -> Evaluation]
  /\ found \in [Requests -> Seq(Outcome)]
  /\ \A r \in Requests : req[r].phase # "idle" => req[r].action \in Actions
  /\ \A d \in Dids : Len(windows[d]) + Cardinality(Waiting(d))
                       < MaxWindow + Cardinality(Requests)

(***************************************************************************)
(* TypeInv is stronger than TypeOK.                                        *)
(***************************************************************************)
LEMMA TypeInvSuffices == TypeInv => TypeOK
<1> SUFFICES ASSUME TypeInv PROVE TypeOK
  OBVIOUS
<1>1. ASSUME NEW d \in Dids PROVE Len(windows[d]) < MaxWindow + Cardinality(Requests)
  <2>1. Len(windows[d]) \in Nat
    BY DEF TypeInv
  <2>2. Waiting(d) \in SUBSET Requests /\ IsFiniteSet(Requests) /\ MaxWindow \in Nat
    BY ScreeningAssumption DEF ScreeningAssumption, Waiting
  <2>3. Cardinality(Waiting(d)) \in Nat /\ Cardinality(Requests) \in Nat
    BY <2>2, FS_Subset, FS_CardinalityType
  <2> QED BY <2>1, <2>2, <2>3 DEF TypeInv
<1>2. ASSUME NEW r \in Requests
      PROVE  req[r].phase \in {"idle", "classifying", "classified", "allowed", "blocked"}
  <2>1. req[r] \in Evaluation
    BY DEF TypeInv
  <2> QED BY <2>1 DEF Evaluation
<1> QED BY <1>1, <1>2 DEF TypeInv, TypeOK, Event, Outcome

(***************************************************************************)
(* A gather returns one outcome per detector, each of its type.            *)
(***************************************************************************)
LEMMA ReportsOK ==
  ASSUME TypeInv, NEW a \in Actions, NEW i, NEW m \in 0 .. 20
  PROVE  /\ Reports(a, i, m) \in Seq(Outcome)
         /\ DOMAIN Reports(a, i, m) = 1 .. 5
<1>1. ASSUME NEW s \in Seq(Factor), NEW b \in BOOLEAN
      PROVE  [raised |-> b, report |-> s] \in Outcome
  BY DEF Outcome
<1>2. Entry(a.tool) \in Specs \cup {Unregistered}
  BY ScreeningAssumption DEF ScreeningAssumption, TypeInv, Entry
<1>3. Returned(IntentClassify(a, Related)) \in Outcome
  BY <1>1, IntentOK DEF Returned
<1>4. [raised |-> ToolValidateRaises(a, Entry(a.tool)),
       report |-> ToolValidate(a, i, Entry(a.tool))] \in Outcome
  BY <1>1, <1>2, ToolReport
<1>5. Returned(AnomalyScore(a, windows[a.did], Limits)) \in Outcome
  <2>1. a.did \in Dids
    BY ScreeningAssumption DEF ScreeningAssumption
  <2>2. Len(windows[a.did]) \in Nat
    BY <2>1 DEF TypeInv
  <2>3. Len(windows[a.did]) < MaxWindow + Cardinality(Requests)
    BY <2>1, TypeInvSuffices DEF TypeOK
  <2> QED BY <1>1, <2>2, <2>3, AnomalyOK DEF Returned
<1>6. Returned(InjectionScan(a, m)) \in Outcome
  BY <1>1, InjectionReport DEF Returned
<1>7. Returned(DlpScan(a)) \in Outcome
  BY <1>1, DlpReport DEF Returned
<1> QED BY <1>3, <1>4, <1>5, <1>6, <1>7 DEF Reports

\* A gather with something grave in one of its outcomes.
GraveGather(outcomes) == \E i \in DOMAIN outcomes : Grave(SafeRun(outcomes[i]))

\* An action that no evaluation may let run.
Carries(a) ==
  \E field \in ToSet(a.fields) :
    field.shape # "nested" /\ ~(UNION ToSet(field.texts) \subseteq {"dlp.email"})

(***************************************************************************)
(* What the detectors must not miss they report gravely.                   *)
(***************************************************************************)
LEMMA GatherJudges ==
  ASSUME TypeInv, NEW r \in Requests, req[r].action \in Actions, NEW m \in 0 .. 20,
         \/ /\ req[r].action.tool # "none" /\ req[r].identity # NoIdentity
            /\ ~Entitles(Entry(req[r].action.tool), req[r])
         \/ Carries(req[r].action)
  PROVE  GraveGather(Reports(req[r].action, req[r].identity, m))
<1> DEFINE a == req[r].action
           i == req[r].identity
           spec == Entry(a.tool)
           outs == Reports(a, i, m)
<1>1. spec \in Specs \cup {Unregistered}
  BY ScreeningAssumption DEF ScreeningAssumption, TypeInv, Entry
<1>2. DOMAIN outs = 1 .. 5
  BY ReportsOK
<1>3. /\ outs[2] = [raised |-> ToolValidateRaises(a, spec), report |-> ToolValidate(a, i, spec)]
      /\ outs[4] = [raised |-> FALSE, report |-> InjectionScan(a, m)]
      /\ outs[5] = [raised |-> FALSE, report |-> DlpScan(a)]
  BY DEF Reports, Returned
<1> HIDE DEF outs
<1>4. CASE /\ a.tool # "none" /\ i # NoIdentity
           /\ ~Entitles(spec, req[r])
  <2>1. ToolValidateRaises(a, spec) \/ Grave(ToolValidate(a, i, spec))
    BY <1>1, <1>4, ToolReport
  <2>2. Grave(<< [code |-> "classifier.error", severity |-> 12] >>)
    <3> DEFINE x == [code |-> "classifier.error", severity |-> 12]
    <3>1. x \in Factor /\ x.severity >= 7
      BY DEF Factor
    <3> HIDE DEF x
    <3>2. D!Occurs(x, <<x>>)
      BY <3>1, FoundOK
    <3>3. Grave(<<x>>)
      BY <3>1, <3>2 DEF Grave
    <3> QED BY <3>3 DEF x
  <2>3. Grave(SafeRun(outs[2]))
    BY <1>3, <2>1, <2>2 DEF SafeRun
  <2> QED BY <1>2, <2>3 DEF GraveGather, outs
<1>5. CASE Carries(a)
  <2>1. PICK f \in DOMAIN a.fields :
          /\ a.fields[f].shape # "nested"
          /\ ~(UNION ToSet(a.fields[f].texts) \subseteq {"dlp.email"})
    BY <1>5 DEF Carries, ToSet
  <2>2. PICK text \in ToSet(a.fields[f].texts) : ~(text \subseteq {"dlp.email"})
    BY <2>1
  <2>3. D!Occurs(text, a.fields[f].texts)
    BY <2>2 DEF ToSet, D!Occurs
  <2>4. D!Occurs(text, IterText(a))
    BY <2>1, <2>3, TextsKept
  <2>5. CASE text \cap Patterns # {}
    <3>1. Grave(InjectionScan(a, m))
      BY <2>4, <2>5, InjectionReport
    <3>2. Grave(SafeRun(outs[4]))
      BY <1>3, <3>1 DEF SafeRun
    <3> QED BY <1>2, <3>2 DEF GraveGather, outs
  <2>6. CASE text \cap Patterns = {}
    <3>1. ~(text \subseteq Patterns \cup {"dlp.email"})
      BY <2>2, <2>6
    <3>2. Grave(SafeRun(outs[5]))
      BY <1>3, <2>4, <3>1, DlpReport DEF SafeRun
    <3> QED BY <1>2, <3>2 DEF GraveGather, outs
  <2> QED BY <2>5, <2>6
<1> QED BY <1>4, <1>5

(***************************************************************************)
(* A grave gather is refused, and so is an action without an identity.     *)
(***************************************************************************)
LEMMA GraveRefused ==
  ASSUME NEW b, NEW a, NEW i, NEW unknown \in BOOLEAN, NEW outcomes \in Seq(Outcome),
         i = NoIdentity \/ GraveGather(outcomes)
  PROVE  Verdict(b, a, i, RiskFactors(unknown, outcomes)) # "allow"
<1>1. CASE i = NoIdentity
  BY <1>1 DEF Verdict, TrustGate, Reconcile
<1>2. CASE GraveGather(outcomes)
  <2>1. Seq(Outcome) = Seq(D!Outcome)
    BY SameDecision DEF Outcome, D!Outcome
  <2>2. PICK k \in DOMAIN outcomes :
          \E x : D!Occurs(x, D!SafeRun(outcomes[k])) /\ x.severity >= 7
    BY <1>2, SameDecision DEF GraveGather, Grave
  <2>3. D!Verdict(b, a, i, D!RiskFactors(unknown, outcomes)) # "allow"
    BY <2>1, <2>2, DecisionAssumed, D!GraveReportBlocks
  <2> QED BY <2>3, SameDecision
<1> QED BY <1>1, <1>2

-----------------------------------------------------------------------------
(***************************************************************************)
(* Every step keeps the types and the bound of the windows: a window grows *)
(* when an evaluation stops waiting.                                       *)
(***************************************************************************)
LEMMA TypeInvariant == Spec => []TypeInv
<1> USE ScreeningAssumption DEF ScreeningAssumption
<1>1. Init => TypeInv
  <2> SUFFICES ASSUME Init PROVE TypeInv
    OBVIOUS
  <2>1. IdleRequest \in Evaluation
    BY DEF IdleRequest, Evaluation
  <2>2. \A d \in Dids : Waiting(d) = {} /\ Len(windows[d]) = 0
    BY DEF Init, Waiting, IdleRequest
  <2>3. Cardinality({}) = 0 /\ Cardinality(Requests) \in Nat
    BY FS_EmptySet, FS_CardinalityType
  <2>4. ASSUME NEW d \in Dids
        PROVE  Len(windows[d]) + Cardinality(Waiting(d)) < MaxWindow + Cardinality(Requests)
    <3>1. Len(windows[d]) = 0 /\ Cardinality(Waiting(d)) = 0
      BY <2>2, <2>3
    <3>2. MaxWindow \in Nat /\ MaxWindow # 0
      OBVIOUS
    <3> QED BY <2>3, <3>1, <3>2
  <2> QED BY <2>1, <2>4 DEF Init, TypeInv, IdleRequest
<1>2. TypeInv /\ [Next]_vars => TypeInv'
  <2> SUFFICES ASSUME TypeInv, [Next]_vars PROVE TypeInv'
    OBVIOUS
  <2> DEFINE R == Cardinality(Requests)
             Within(d) == Len(windows[d]) + Cardinality(Waiting(d)) < MaxWindow + R
  <2>1. R \in Nat /\ IsFiniteSet(Requests)
    BY FS_CardinalityType
  <2>2. ASSUME NEW d \in Dids
        PROVE  /\ IsFiniteSet(Waiting(d)) /\ IsFiniteSet(Waiting(d)')
               /\ Cardinality(Waiting(d)) \in Nat /\ Cardinality(Waiting(d)') \in Nat
               /\ Cardinality(Waiting(d)') <= R
               /\ Waiting(d)' \subseteq Waiting(d)
                    => Cardinality(Waiting(d)') <= Cardinality(Waiting(d))
    <3>1. Waiting(d) \in SUBSET Requests /\ Waiting(d)' \in SUBSET Requests
      BY DEF Waiting
    <3> QED BY <2>1, <3>1, FS_Subset, FS_CardinalityType
  <2>3. ASSUME NEW d \in Dids, Waiting(d)' \subseteq Waiting(d),
               Len(windows[d]') <= Len(windows[d]), Len(windows[d]') \in Nat
        PROVE  Within(d)'
    <3>1. Within(d) /\ Len(windows[d]) \in Nat /\ MaxWindow \in Nat
      BY DEF TypeInv
    <3>2. R' = R /\ MaxWindow' = MaxWindow
      OBVIOUS
    <3> HIDE DEF R
    <3> QED BY <2>1, <2>2, <2>3, <3>1, <3>2
  <2> HIDE DEF R
  <2>4. ASSUME NEW r \in Requests, NEW a \in Actions, Submit(r, a) PROVE TypeInv'
    <3>1. PICK i \in Identities \cup {NoIdentity}, unknown \in BOOLEAN :
            req' = [req EXCEPT ![r] = [phase |-> "classifying", action |-> a,
                                       identity |-> i, unknown |-> unknown]]
      BY <2>4 DEF Submit
    <3>2. req' \in [Requests -> Evaluation]
      BY <3>1 DEF TypeInv, Evaluation
    <3>3. \A q \in Requests : req'[q].phase # "idle" => req'[q].action \in Actions
      BY <3>1 DEF TypeInv
    <3>4. ASSUME NEW d \in Dids PROVE Within(d)'
      <4>1. windows' = windows /\ Len(windows[a.did]) < MaxWindow
        BY <2>4 DEF Submit
      <4>2. CASE d = a.did
        <5>1. Len(windows[d]') < MaxWindow /\ Len(windows[d]') \in Nat
          BY <4>1, <4>2 DEF TypeInv
        <5> QED BY <2>1, <2>2, <5>1 DEF R
      <4>3. CASE d # a.did
        <5>1. Waiting(d)' \subseteq Waiting(d)
          BY <3>1, <4>3 DEF TypeInv, Waiting
        <5>2. Len(windows[d]') <= Len(windows[d]) /\ Len(windows[d]') \in Nat
          BY <4>1 DEF TypeInv
        <5> QED BY <2>3, <5>1, <5>2
      <4> QED BY <4>2, <4>3
    <3> QED BY <2>4, <3>2, <3>3, <3>4 DEF TypeInv, Submit, R
  <2>5. ASSUME NEW r \in Requests, Detect(r) PROVE TypeInv'
    <3> DEFINE a == req[r].action
               e == a.did
    <3>1. a \in Actions /\ e \in Dids /\ req[r].phase = "classifying"
      BY <2>5 DEF Detect, TypeInv
    <3>2. PICK m \in ModelScores[a] :
            found' = [found EXCEPT ![r] = Reports(a, req[r].identity, m)]
      BY <2>5 DEF Detect
    <3>3. m \in 0 .. 20
      BY <3>1
    <3>4. found' \in [Requests -> Seq(Outcome)]
      BY <3>1, <3>2, <3>3, ReportsOK DEF TypeInv
    <3>5. /\ req' = [req EXCEPT ![r].phase = "classified"]
          /\ windows' = [windows EXCEPT ![e] = Record(a, @, Horizon)]
          /\ recent' = [recent EXCEPT ![e] = Append(@, Recorded(a))]
          /\ used' = [used EXCEPT ![e] = @ \cup {a.tool}]
          /\ registry' = registry
      BY <2>5 DEF Detect
    <3>6. /\ Recorded(a) \in Event /\ Record(a, windows[e], Horizon) \in Seq(Event)
          /\ Len(Record(a, windows[e], Horizon)) <= Len(windows[e]) + 1
      BY <3>1, RecordOK DEF TypeInv
    <3>7. req' \in [Requests -> Evaluation]
          /\ \A q \in Requests : req'[q].phase # "idle" => req'[q].action \in Actions
      BY <3>1, <3>5 DEF TypeInv, Evaluation
    <3>8. /\ windows' \in [Dids -> Seq(Event)] /\ recent' \in [Dids -> Seq(Event)]
          /\ used' \in [Dids -> SUBSET (Tools \cup {"none"})]
      <4>1. windows' \in [Dids -> Seq(Event)]
        BY <3>5, <3>6 DEF TypeInv
      <4>2. Append(recent[e], Recorded(a)) \in Seq(Event)
        BY <3>1, <3>6 DEF TypeInv
      <4>3. recent' \in [Dids -> Seq(Event)]
        BY <3>5, <4>2 DEF TypeInv
      <4>4. a.tool \in Tools \cup {"none"}
        BY <3>1
      <4>5. used' \in [Dids -> SUBSET (Tools \cup {"none"})]
        BY <3>5, <4>4 DEF TypeInv
      <4> QED BY <4>1, <4>3, <4>5
    <3>9. ASSUME NEW d \in Dids PROVE Within(d)'
      <4>1. CASE d = e
        <5>1. Waiting(d)' = Waiting(d) \ {r} /\ r \in Waiting(d)
          BY <3>1, <3>5, <4>1 DEF TypeInv, Waiting
        <5>2. Cardinality(Waiting(d)') = Cardinality(Waiting(d)) - 1
          BY <2>2, <5>1, FS_RemoveElement
        <5>3. Len(windows[d]') <= Len(windows[d]) + 1 /\ Len(windows[d]') \in Nat
              /\ Len(windows[d]) \in Nat
          BY <3>1, <3>5, <3>6, <4>1 DEF TypeInv
        <5>4. Within(d)
          BY DEF TypeInv, R
        <5> QED BY <2>1, <2>2, <5>2, <5>3, <5>4 DEF R
      <4>2. CASE d # e
        <5>1. Waiting(d)' \subseteq Waiting(d)
          BY <3>1, <3>5 DEF TypeInv, Waiting
        <5>2. Len(windows[d]') <= Len(windows[d]) /\ Len(windows[d]') \in Nat
          BY <3>5, <4>2 DEF TypeInv
        <5> QED BY <2>3, <5>1, <5>2
      <4> QED BY <4>1, <4>2
    <3> QED BY <3>4, <3>5, <3>7, <3>8, <3>9 DEF TypeInv, R
  <2>6. ASSUME NEW r \in Requests, Decide(r) \/ Return(r) PROVE TypeInv'
    <3>1. PICK e \in Evaluation :
            /\ req' = [req EXCEPT ![r] = e]
            /\ e.phase # "classifying"
            /\ e.phase # "idle" => e.action \in Actions
      <4>1. CASE Return(r)
        <5>1. IdleRequest \in Evaluation /\ IdleRequest.phase = "idle"
          BY DEF IdleRequest, Evaluation
        <5> QED BY <4>1, <5>1 DEF Return
      <4>2. CASE Decide(r)
        <5>1. PICK p \in {"allowed", "blocked"} : req' = [req EXCEPT ![r].phase = p]
          BY <4>2 DEF Decide
        <5>2. req[r] \in Evaluation /\ req[r].phase = "classified" /\ req[r].action \in Actions
          BY <4>2 DEF Decide, TypeInv
        <5>3. [req[r] EXCEPT !.phase = p] \in Evaluation
          BY <5>2 DEF Evaluation
        <5>4. req' = [req EXCEPT ![r] = [req[r] EXCEPT !.phase = p]]
          BY <5>1
        <5>5. /\ [req[r] EXCEPT !.phase = p].phase = p
              /\ [req[r] EXCEPT !.phase = p].action = req[r].action
          BY <5>2 DEF Evaluation
        <5> QED BY <5>2, <5>3, <5>4, <5>5
      <4> QED BY <2>6, <4>1, <4>2
    <3>2. /\ found' = [found EXCEPT ![r] = <<>>]
          /\ UNCHANGED <<registry, windows, recent, used>>
      BY <2>6 DEF Decide, Return, history
    <3>3. \A d \in Dids : Waiting(d)' \subseteq Waiting(d)
      BY <3>1 DEF TypeInv, Waiting
    <3>4. ASSUME NEW d \in Dids PROVE Within(d)'
      <4>1. Len(windows[d]') <= Len(windows[d]) /\ Len(windows[d]') \in Nat
        BY <3>2 DEF TypeInv
      <4> QED BY <2>3, <3>3, <4>1
    <3>5. found' \in [Requests -> Seq(Outcome)] /\ req' \in [Requests -> Evaluation]
      BY <3>1, <3>2 DEF TypeInv
    <3>6. \A q \in Requests : req'[q].phase # "idle" => req'[q].action \in Actions
      BY <3>1 DEF TypeInv
    <3> QED BY <3>2, <3>4, <3>5, <3>6 DEF TypeInv, R
  <2>7. ASSUME NEW t \in Tools, NEW spec \in Specs, Register(t, spec) PROVE TypeInv'
    <3>1. registry' \in [Tools -> Specs \cup {Unregistered}]
      BY <2>7 DEF Register, TypeInv
    <3>2. UNCHANGED <<windows, req, found, recent, used>>
      BY <2>7 DEF Register
    <3>3. \A d \in Dids : Waiting(d)' = Waiting(d)
      BY <3>2 DEF Waiting
    <3> QED BY <3>1, <3>2, <3>3 DEF TypeInv
  <2>8. CASE Elapse
    <3>1. ASSUME NEW w \in Seq(Event)
          PROVE  Aged(w) \in Seq(Event) /\ Len(Aged(w)) = Len(w)
      BY AgedIs
    <3>2. ASSUME NEW w \in Seq(Event) PROVE PopOlder(w, Horizon) \in Seq(Event)
      <4>1. PICK m \in 1 .. Len(w) + 1 : PopOlder(w, Horizon) = SubSeq(w, m, Len(w))
        BY PopOlderIs
      <4> QED BY <4>1
    <3>3. /\ windows' = [d \in Dids |-> Aged(windows[d])]
          /\ recent' = [d \in Dids |-> PopOlder(Aged(recent[d]), Horizon)]
          /\ UNCHANGED <<registry, req, found, used>>
      BY <2>8 DEF Elapse
    <3>4. windows' \in [Dids -> Seq(Event)] /\ recent' \in [Dids -> Seq(Event)]
      BY <3>1, <3>2, <3>3 DEF TypeInv
    <3>5. ASSUME NEW d \in Dids PROVE Within(d)'
      <4>1. Waiting(d)' \subseteq Waiting(d)
        BY <3>3 DEF Waiting
      <4>2. Len(windows[d]') <= Len(windows[d]) /\ Len(windows[d]') \in Nat
        BY <3>1, <3>3 DEF TypeInv
      <4> QED BY <2>3, <4>1, <4>2
    <3> QED BY <3>3, <3>4, <3>5 DEF TypeInv, R
  <2>9. CASE UNCHANGED vars
    <3>1. \A d \in Dids : Waiting(d)' = Waiting(d)
      BY <2>9 DEF vars, Waiting
    <3> QED BY <2>9, <3>1 DEF vars, TypeInv
  <2> QED BY <2>4, <2>5, <2>6, <2>7, <2>8, <2>9 DEF Next
<1> QED BY <1>1, <1>2, PTL DEF Spec

(***************************************************************************)
(* Type correctness: the detectors' reports are lists of factors with      *)
(* severities between 0 and 1, and the windows keep within their bound.    *)
(***************************************************************************)
THEOREM ScreeningTypeOK == Spec => []TypeOK
BY TypeInvariant, TypeInvSuffices, PTL

-----------------------------------------------------------------------------
\* An evaluation whose tool may not run, or whose action may not.
Unfit(r) ==
  \/ req[r].action.tool # "none" /\ req[r].identity # NoIdentity /\ r \notin entitled
  \/ Carries(req[r].action)

(***************************************************************************)
(* An evaluation that waits has in `entitled` what the registry says now;  *)
(* one the detectors have judged carries a grave report when it is unfit,  *)
(* whatever has been registered since; and none that is unfit is allowed.  *)
(***************************************************************************)
JudgeInv ==
  \A r \in Requests :
    /\ req[r].phase = "classifying" /\ Entitles(Entry(req[r].action.tool), req[r])
         => r \in entitled
    /\ req[r].phase = "classified" /\ Unfit(r) => GraveGather(found[r])
    /\ req[r].phase = "allowed" => ~Unfit(r) /\ req[r].identity # NoIdentity

(***************************************************************************)
(* Every step keeps JudgeInv.                                              *)
(***************************************************************************)
LEMMA JudgeInvariant == Spec => []JudgeInv
<1> USE ScreeningAssumption DEF ScreeningAssumption
<1>1. Init => JudgeInv
  BY DEF Init, JudgeInv, IdleRequest
<1>2. TypeInv /\ TypeInv' /\ JudgeInv /\ [Next]_vars => JudgeInv'
  <2> DEFINE Part(r) ==
               /\ req[r].phase = "classifying" /\ Entitles(Entry(req[r].action.tool), req[r])
                    => r \in entitled
               /\ req[r].phase = "classified" /\ Unfit(r) => GraveGather(found[r])
               /\ req[r].phase = "allowed" => ~Unfit(r) /\ req[r].identity # NoIdentity
  <2> SUFFICES ASSUME TypeInv, TypeInv', JudgeInv, [Next]_vars, NEW q \in Requests
               PROVE  Part(q)'
    BY DEF JudgeInv
  <2>1. Part(q)
    BY DEF JudgeInv
  <2>2. ASSUME req'[q] = req[q], found'[q] = found[q], q \in entitled' <=> q \in entitled,
               registry' = registry
        PROVE  Part(q)'
    <3>1. Entry(req[q].action.tool)' = Entry(req[q].action.tool)
      BY <2>2 DEF Entry
    <3>2. Unfit(q)' <=> Unfit(q)
      BY <2>2 DEF Unfit
    <3> QED BY <2>1, <2>2, <3>1, <3>2
  <2>3. ASSUME NEW r \in Requests, NEW a \in Actions, Submit(r, a) PROVE Part(q)'
    <3>1. PICK i \in Identities \cup {NoIdentity}, unknown \in BOOLEAN :
            req' = [req EXCEPT ![r] = [phase |-> "classifying", action |-> a,
                                       identity |-> i, unknown |-> unknown]]
      BY <2>3 DEF Submit
    <3>2. CASE q = r
      <4>1. req'[q].phase = "classifying" /\ req'[q].action = a
        BY <3>1, <3>2 DEF TypeInv
      <4>2. Entry(req[q].action.tool)' = Entry(a.tool)
        BY <2>3, <4>1 DEF Submit, Entry
      <4>3. Entitles(Entry(a.tool), req'[q]) => q \in entitled'
        BY <2>3, <3>2 DEF Submit
      <4> QED BY <4>1, <4>2, <4>3
    <3>3. CASE q # r
      BY <2>2, <2>3, <3>1, <3>3 DEF Submit, TypeInv
    <3> QED BY <3>2, <3>3
  <2>4. ASSUME NEW r \in Requests, Detect(r) PROVE Part(q)'
    <3> DEFINE a == req[r].action
    <3>1. a \in Actions /\ req[r].phase = "classifying"
      BY <2>4 DEF Detect, TypeInv
    <3>2. PICK m \in ModelScores[a] :
            found' = [found EXCEPT ![r] = Reports(a, req[r].identity, m)]
      BY <2>4 DEF Detect
    <3>3. m \in 0 .. 20
      BY <3>1
    <3>4. /\ req' = [req EXCEPT ![r].phase = "classified"]
          /\ registry' = registry /\ entitled' = entitled
      BY <2>4 DEF Detect
    <3>5. CASE q = r
      <4>1. /\ req'[q].phase = "classified" /\ req'[q].action = a
            /\ req'[q].identity = req[q].identity
        BY <3>4, <3>5 DEF TypeInv, Evaluation
      <4>2. found'[q] = Reports(a, req[q].identity, m)
        BY <3>2, <3>5 DEF TypeInv
      <4>3. ASSUME Unfit(q)' PROVE GraveGather(Reports(a, req[q].identity, m))
        <5>1. Unfit(q)
          BY <3>4, <3>5, <4>1, <4>3 DEF Unfit
        <5>2. \/ /\ a.tool # "none" /\ req[q].identity # NoIdentity
                 /\ ~Entitles(Entry(a.tool), req[q])
              \/ Carries(a)
          BY <2>1, <3>1, <3>5, <5>1 DEF Unfit
        <5> QED BY <3>1, <3>3, <3>5, <5>2, GatherJudges
      <4> QED BY <4>1, <4>2, <4>3 DEF GraveGather
    <3>6. CASE q # r
      BY <2>2, <3>2, <3>4, <3>6 DEF TypeInv
    <3> QED BY <3>5, <3>6
  <2>5. ASSUME NEW r \in Requests, Decide(r) PROVE Part(q)'
    <3> DEFINE v == Verdict(Bundle, req[r].action, req[r].identity,
                            RiskFactors(req[r].unknown, found[r]))
    <3>1. /\ req' = [req EXCEPT ![r].phase = IF v = "allow" THEN "allowed" ELSE "blocked"]
          /\ found' = [found EXCEPT ![r] = <<>>]
          /\ registry' = registry /\ entitled' = entitled /\ req[r].phase = "classified"
      BY <2>5 DEF Decide, history
    <3>2. CASE q = r
      <4>1. /\ req'[q].phase = IF v = "allow" THEN "allowed" ELSE "blocked"
            /\ req'[q].action = req[q].action /\ req'[q].identity = req[q].identity
        BY <3>1, <3>2 DEF TypeInv, Evaluation
      <4>2. Unfit(q)' <=> Unfit(q)
        BY <3>1, <4>1 DEF Unfit
      <4>3. found[q] \in Seq(Outcome) /\ req[q].unknown \in BOOLEAN
        BY DEF TypeInv, Evaluation
      <4>4. req[q].identity = NoIdentity \/ GraveGather(found[q]) => v # "allow"
        <5> HIDE DEF Part
        <5> QED BY <3>2, <4>3, GraveRefused
      <4>5. Unfit(q) => GraveGather(found[q])
        BY <2>1, <3>1, <3>2
      <4> HIDE DEF v
      <4> QED BY <4>1, <4>2, <4>4, <4>5
    <3>3. CASE q # r
      BY <2>2, <3>1, <3>3 DEF TypeInv
    <3> QED BY <3>2, <3>3
  <2>6. ASSUME NEW r \in Requests, Return(r) PROVE Part(q)'
    <3>1. /\ req' = [req EXCEPT ![r] = IdleRequest] /\ found' = [found EXCEPT ![r] = <<>>]
          /\ entitled' = entitled \ {r} /\ registry' = registry
      BY <2>6 DEF Return
    <3>2. CASE q = r
      <4>1. req'[q].phase = "idle"
        BY <3>1, <3>2 DEF TypeInv, IdleRequest
      <4> QED BY <4>1
    <3>3. CASE q # r
      BY <2>2, <3>1, <3>3 DEF TypeInv
    <3> QED BY <3>2, <3>3
  <2>7. ASSUME NEW t \in Tools, NEW spec \in Specs, Register(t, spec) PROVE Part(q)'
    <3>1. /\ req' = req /\ found' = found /\ registry' = [registry EXCEPT ![t] = spec]
          /\ entitled' = entitled \cup {r \in Requests :
               InProgress(r) /\ req[r].action.tool = t /\ Entitles(spec, req[r])}
      BY <2>7 DEF Register
    <3>2. Unfit(q)' => Unfit(q)
      BY <3>1 DEF Unfit
    <3>3. ASSUME req[q].phase = "classifying",
                 Entitles(Entry(req[q].action.tool)', req[q])
          PROVE  q \in entitled'
      <4>1. CASE req[q].action.tool = t /\ t # "none"
        <5>1. Entry(req[q].action.tool)' = spec
          BY <3>1, <4>1 DEF TypeInv, Entry
        <5> QED BY <3>1, <3>3, <4>1, <5>1 DEF InProgress
      <4>2. CASE ~(req[q].action.tool = t /\ t # "none")
        <5>0. req[q].action \in Actions
          BY <3>3 DEF TypeInv
        <5>1. Entry(req[q].action.tool)' = Entry(req[q].action.tool)
          BY <3>1, <4>2, <5>0 DEF TypeInv, Entry
        <5> QED BY <2>1, <3>1, <3>3, <5>1
      <4> QED BY <4>1, <4>2
    <3>4. Unfit(q)' /\ req[q].phase = "classified" => GraveGather(found[q])
      BY <2>1, <3>2
    <3> QED BY <2>1, <3>1, <3>2, <3>3, <3>4
  <2>8. CASE Elapse
    BY <2>2, <2>8 DEF Elapse
  <2>9. CASE UNCHANGED vars
    BY <2>2, <2>9 DEF vars
  <2> QED BY <2>3, <2>4, <2>5, <2>6, <2>7, <2>8, <2>9 DEF Next
<1> QED BY <1>1, <1>2, TypeInvariant, PTL DEF Spec

(***************************************************************************)
(* No tool runs for an identity without its capability, with arguments     *)
(* that break its schema, unregistered or quarantined, however evaluations *)
(* and registrations interleave and also when the validator raises.        *)
(***************************************************************************)
THEOREM OnlyTheEntitledRun == Spec => []OnlyEntitledRun
<1>1. JudgeInv => OnlyEntitledRun
  BY DEF JudgeInv, OnlyEntitledRun, Unfit
<1> QED BY <1>1, JudgeInvariant, PTL

(***************************************************************************)
(* No action runs that carries a credential, a card or social security     *)
(* number or an injection pattern where the scanners read, whatever the    *)
(* number of its texts, the identity and the rules of the bundle.          *)
(***************************************************************************)
THEOREM SensitiveNeverRuns == Spec => []NothingSensitiveRuns
<1>1. JudgeInv => NothingSensitiveRuns
  BY DEF JudgeInv, NothingSensitiveRuns, Unfit, Carries
<1> QED BY <1>1, JudgeInvariant, PTL

-----------------------------------------------------------------------------
Ages(w) == [i \in 1 .. Len(w) |-> w[i].age]

\* A window w that ends with s, what comes before being older than the
\* horizon; its entries are in the order they were recorded.
EndsWith(w, s) ==
  \E k \in 0 .. Len(w) :
    /\ Len(s) = Len(w) - k
    /\ \A i \in 1 .. Len(s) : s[i] = w[k + i]
    /\ \A i \in 1 .. Len(w) : Ages(w)[i] <= Horizon <=> i > k

Falls(w) == \A i, j \in 1 .. Len(w) : i <= j => Ages(w)[i] >= Ages(w)[j]

Spans(w) == Len(w) > 0 => Ages(w)[1] - Ages(w)[Len(w)] <= Horizon

(***************************************************************************)
(* WindowIsRecent is not inductive: that an entry over the horizon is      *)
(* never behind one within it needs the order of the ages.                 *)
(***************************************************************************)
WindowInv ==
  \A d \in Dids :
    /\ EndsWith(windows[d], recent[d])
    /\ Falls(windows[d])
    /\ Spans(windows[d])
    /\ \A i \in 1 .. Len(windows[d]) : windows[d][i].tool \in used[d]

(***************************************************************************)
(* The ages of a window are numbers within the bound.                      *)
(***************************************************************************)
LEMMA AgesOK ==
  ASSUME NEW w \in Seq(Event)
  PROVE  /\ Ages(w) \in [1 .. Len(w) -> 0 .. Horizon + 1] /\ Len(w) \in Nat
         /\ \A i \in 1 .. Len(w) : Ages(w)[i] = w[i].age
<1>1. ASSUME NEW e \in Event PROVE e.age \in 0 .. Horizon + 1
  BY DEF Event
<1>2. ASSUME NEW i \in 1 .. Len(w) PROVE w[i].age \in 0 .. Horizon + 1
  <2>1. w[i] \in Event
    OBVIOUS
  <2> QED BY <1>1, <2>1
<1> QED BY <1>2 DEF Ages

(***************************************************************************)
(* To record an action leaves exactly the actions of the last horizon,     *)
(* with the new one.                                                       *)
(***************************************************************************)
LEMMA RecordKeeps ==
  ASSUME NEW a \in Actions, NEW w \in Seq(Event), NEW s \in Seq(Event),
         EndsWith(w, s), Falls(w)
  PROVE  LET y == Append(s, Recorded(a))
         IN  /\ Record(a, w, Horizon) = y
             /\ EndsWith(y, y) /\ Falls(y) /\ Spans(y)
<1> DEFINE y == Append(s, Recorded(a))
           x == Append(w, Recorded(a))
           n == Len(w)
<1>1. Recorded(a) \in Event /\ Recorded(a).age = 0
  BY RecordOK DEF Recorded
<1>2. Horizon \in Nat /\ n \in Nat /\ Len(s) \in Nat
  BY ScreeningAssumption DEF ScreeningAssumption
<1>3. PICK k \in 0 .. n :
        /\ Len(s) = n - k
        /\ \A i \in 1 .. Len(s) : s[i] = w[k + i]
        /\ \A i \in 1 .. n : Ages(w)[i] <= Horizon <=> i > k
  BY DEF EndsWith
<1>4. /\ x \in Seq(Event) /\ Len(x) = n + 1 /\ x[n + 1] = Recorded(a)
      /\ \A i \in 1 .. n : x[i] = w[i]
  BY <1>1, <1>2
<1>5. /\ y \in Seq(Event) /\ Len(y) = Len(s) + 1 /\ y[Len(s) + 1] = Recorded(a)
      /\ \A i \in 1 .. Len(s) : y[i] = s[i]
  BY <1>1, <1>2
<1>6. Record(a, w, Horizon) = PopOlder(x, Horizon)
  BY DEF Record
<1> HIDE DEF x, y, n
<1>7. PICK m \in 1 .. Len(x) + 1 :
        /\ PopOlder(x, Horizon) = SubSeq(x, m, Len(x))
        /\ \A i \in 1 .. m - 1 : x[i].age > Horizon
        /\ m <= Len(x) => x[m].age <= Horizon
  BY <1>4, PopOlderIs
<1>8. /\ \A i \in 1 .. n : Ages(x)[i] = Ages(w)[i]
      /\ Ages(x)[n + 1] = 0
      /\ \A i \in 1 .. n + 1 : Ages(x)[i] = x[i].age /\ Ages(x)[i] \in Nat
  <2>1. \A i \in 1 .. n + 1 : Ages(x)[i] = x[i].age /\ Ages(x)[i] \in 0 .. Horizon + 1
    BY <1>2, <1>4, AgesOK
  <2>2. \A i \in 1 .. n : Ages(w)[i] = w[i].age
    BY AgesOK DEF n
  <2>3. \A i \in 1 .. n : i \in 1 .. n + 1
    BY <1>2
  <2>4. \A i \in 1 .. n : Ages(x)[i] = Ages(w)[i]
    BY <1>4, <2>1, <2>2, <2>3
  <2>5. n + 1 \in 1 .. n + 1 /\ 0 .. Horizon + 1 \subseteq Nat
    BY <1>2
  <2> QED BY <1>1, <1>4, <2>1, <2>4, <2>5
<1>9. m = k + 1
  <2>1. ASSUME NEW i \in 1 .. m - 1, i \in 1 .. n + 1 PROVE ~(Ages(x)[i] <= Horizon)
    <3>1. PICK c \in Nat : c = Ages(x)[i] /\ c = x[i].age
      BY <1>8, <2>1
    <3>2. x[i].age > Horizon
      BY <1>7
    <3> QED BY <1>2, <3>1, <3>2
  <2>2. m <= n + 1
    BY <1>2, <1>4, <1>7, <1>8, <2>1
  <2>3. Ages(x)[m] <= Horizon
    BY <1>2, <1>4, <1>7, <1>8, <2>2
  <2>4. ASSUME m <= k PROVE FALSE
    <3>1. m \in 1 .. n /\ ~(m > k)
      BY <1>2, <1>3, <1>7, <2>4
    <3> QED BY <1>3, <1>8, <2>3, <3>1
  <2>5. ASSUME k + 1 <= m - 1 PROVE FALSE
    <3>1. k + 1 \in 1 .. n /\ k + 1 \in 1 .. m - 1 /\ k + 1 \in 1 .. n + 1 /\ k + 1 > k
      BY <1>2, <1>3, <1>7, <2>2, <2>5
    <3> QED BY <1>3, <1>8, <2>1, <3>1
  <2> QED BY <1>2, <1>3, <1>7, <2>2, <2>4, <2>5
<1>10. SubSeq(x, k + 1, n + 1) = y
  <2>1. ASSUME NEW i \in 1 .. Len(y) PROVE y[i] = x[k + i]
    <3>1. CASE i = Len(s) + 1
      <4>1. k + i = n + 1
        BY <1>2, <1>3, <3>1
      <4> QED BY <1>4, <1>5, <3>1, <4>1
    <3>2. CASE i # Len(s) + 1
      <4>1. i \in 1 .. Len(s) /\ k + i \in 1 .. n
        BY <1>2, <1>3, <1>5, <3>2
      <4> QED BY <1>3, <1>4, <1>5, <4>1
    <3> QED BY <3>1, <3>2
  <2>2. k \in 0 .. Len(x) /\ Len(y) = Len(x) - k
    BY <1>2, <1>3, <1>4, <1>5
  <2>3. SubSeq(x, k + 1, Len(x)) = y
    BY <1>4, <1>5, <2>1, <2>2, SuffixIs
  <2> QED BY <1>4, <2>3
<1>11. /\ Len(y) \in Nat /\ Ages(y) \in [1 .. Len(y) -> 0 .. Horizon + 1]
       /\ Ages(y)[Len(y)] = 0
       /\ \A i \in 1 .. Len(s) : Ages(y)[i] = Ages(w)[k + i]
  <2>1. /\ Ages(y) \in [1 .. Len(y) -> 0 .. Horizon + 1]
        /\ \A i \in 1 .. Len(y) : Ages(y)[i] = y[i].age
    BY <1>5, AgesOK
  <2>2. \A i \in 1 .. n : Ages(w)[i] = w[i].age
    BY AgesOK DEF n
  <2>3. ASSUME NEW i \in 1 .. Len(s) PROVE Ages(y)[i] = Ages(w)[k + i]
    <3>1. k + i \in 1 .. n /\ i \in 1 .. Len(y)
      BY <1>2, <1>3, <1>5
    <3>2. y[i] = w[k + i]
      BY <1>3, <1>5
    <3> QED BY <2>1, <2>2, <3>1, <3>2
  <2>4. Len(y) \in 1 .. Len(y)
    BY <1>2, <1>5
  <2> QED BY <1>1, <1>2, <1>5, <2>1, <2>3, <2>4
<1>12. \A i \in 1 .. Len(y) : Ages(y)[i] <= Horizon
  <2> SUFFICES ASSUME NEW i \in 1 .. Len(y) PROVE Ages(y)[i] <= Horizon
    OBVIOUS
  <2>1. CASE i = Len(y)
    BY <1>2, <1>11, <2>1
  <2>2. CASE i # Len(y)
    <3>1. i \in 1 .. Len(s) /\ k + i \in 1 .. n /\ k + i > k
      BY <1>2, <1>3, <1>5, <2>2
    <3> QED BY <1>3, <1>11, <3>1
  <2> QED BY <2>1, <2>2
<1>13. EndsWith(y, y)
  <2>1. 0 \in 0 .. Len(y) /\ Len(y) = Len(y) - 0
    BY <1>11
  <2>2. \A i \in 1 .. Len(y) : y[i] = y[0 + i]
    BY <1>11
  <2>3. \A i \in 1 .. Len(y) : Ages(y)[i] <= Horizon <=> i > 0
    BY <1>11, <1>12
  <2> QED BY <2>1, <2>2, <2>3 DEF EndsWith
<1>14. Falls(y)
  <2>1. ASSUME NEW i \in 1 .. Len(y), NEW j \in 1 .. Len(y), i <= j
        PROVE  Ages(y)[i] >= Ages(y)[j]
    <3>1. CASE j = Len(y)
      BY <1>2, <1>11, <3>1
    <3>2. CASE j # Len(y)
      <4>1. /\ i \in 1 .. Len(s) /\ j \in 1 .. Len(s)
            /\ k + i \in 1 .. n /\ k + j \in 1 .. n /\ k + i <= k + j
        BY <1>2, <1>3, <1>5, <2>1, <3>2
      <4>2. Ages(w)[k + i] >= Ages(w)[k + j]
        BY <4>1 DEF Falls, n
      <4> QED BY <1>11, <4>1, <4>2
    <3> QED BY <3>1, <3>2
  <2> QED BY <2>1 DEF Falls
<1>15. Spans(y)
  <2> SUFFICES ASSUME Len(y) > 0 PROVE Ages(y)[1] - Ages(y)[Len(y)] <= Horizon
    BY DEF Spans
  <2>1. 1 \in 1 .. Len(y)
    BY <1>11
  <2>2. PICK c \in 0 .. Horizon + 1 : c = Ages(y)[1]
    BY <1>11, <2>1
  <2>3. c <= Horizon
    BY <1>12, <2>1, <2>2
  <2> QED BY <1>2, <1>11, <2>2, <2>3
<1> QED BY <1>4, <1>6, <1>7, <1>9, <1>10, <1>13, <1>14, <1>15 DEF y

(***************************************************************************)
(* As time passes a window keeps its entries, and those that pass the      *)
(* horizon are the first of the ones within it.                            *)
(***************************************************************************)
LEMMA AgedKeeps ==
  ASSUME NEW w \in Seq(Event), NEW s \in Seq(Event), EndsWith(w, s), Falls(w)
  PROVE  /\ Len(Aged(w)) = Len(w)
         /\ \A i \in 1 .. Len(w) : Aged(w)[i].tool = w[i].tool
         /\ EndsWith(Aged(w), PopOlder(Aged(s), Horizon))
         /\ Falls(Aged(w)) /\ Spans(Aged(w))
<1> DEFINE v == Aged(w)
           x == Aged(s)
           n == Len(w)
           Next1(c) == IF c > Horizon THEN c ELSE c + 1
<1>1. Horizon \in Nat /\ n \in Nat /\ Len(s) \in Nat
  BY ScreeningAssumption DEF ScreeningAssumption
<1>2. ASSUME NEW u \in Seq(Event)
      PROVE  /\ Aged(u) \in Seq(Event) /\ Len(Aged(u)) = Len(u)
             /\ \A i \in 1 .. Len(u) : Aged(u)[i] = Older(u[i])
  BY AgedIs
<1>3. \A i \in 1 .. n : v[i].age = Next1(w[i].age)
  BY AgedIs
<1>4. \A i \in 1 .. n : v[i].tool = w[i].tool
  BY AgedIs
<1>5. /\ v \in Seq(Event) /\ Len(v) = n /\ x \in Seq(Event) /\ Len(x) = Len(s)
      /\ \A i \in 1 .. n : v[i] = Older(w[i])
      /\ \A i \in 1 .. Len(s) : x[i] = Older(s[i])
  BY <1>2
<1>6. PICK k \in 0 .. n :
        /\ Len(s) = n - k
        /\ \A i \in 1 .. Len(s) : s[i] = w[k + i]
        /\ \A i \in 1 .. n : Ages(w)[i] <= Horizon <=> i > k
  BY DEF EndsWith
<1> HIDE DEF v, x, n, Next1
<1>7. /\ Ages(w) \in [1 .. n -> 0 .. Horizon + 1]
      /\ Ages(v) \in [1 .. n -> 0 .. Horizon + 1]
      /\ \A i \in 1 .. n : Ages(v)[i] = Next1(Ages(w)[i])
  <2>1. \A i \in 1 .. n : Ages(w)[i] = w[i].age /\ w[i] \in Event
    BY AgesOK DEF n
  <2>2. \A i \in 1 .. n : Ages(v)[i] = v[i].age
    BY <1>5, AgesOK
  <2>3. \A i \in 1 .. n : Ages(v)[i] = Next1(Ages(w)[i])
    BY <1>3, <2>1, <2>2
  <2>4. Ages(w) \in [1 .. n -> 0 .. Horizon + 1]
    BY AgesOK DEF n
  <2> QED BY <1>5, <2>3, <2>4, AgesOK
<1>8. PICK m \in 1 .. Len(x) + 1 :
        /\ PopOlder(x, Horizon) = SubSeq(x, m, Len(x))
        /\ \A i \in 1 .. m - 1 : x[i].age > Horizon
        /\ m <= Len(x) => x[m].age <= Horizon
  BY <1>5, PopOlderIs
<1>9. \A i \in 1 .. Len(s) : x[i] = v[k + i] /\ x[i].age = Ages(v)[k + i]
  <2> SUFFICES ASSUME NEW i \in 1 .. Len(s)
               PROVE  x[i] = v[k + i] /\ x[i].age = Ages(v)[k + i]
    OBVIOUS
  <2>1. k + i \in 1 .. n
    BY <1>1, <1>6
  <2>2. x[i] = v[k + i]
    BY <1>5, <1>6, <2>1
  <2>3. Ages(v)[k + i] = v[k + i].age
    BY <1>5, <2>1, AgesOK
  <2> QED BY <2>2, <2>3
<1>10. Falls(v)
  <2>1. ASSUME NEW i \in 1 .. n, NEW j \in 1 .. n, i <= j
        PROVE  Ages(v)[i] >= Ages(v)[j]
    <3>1. PICK c \in 0 .. Horizon + 1, d \in 0 .. Horizon + 1 :
            c = Ages(w)[i] /\ d = Ages(w)[j]
      BY <1>7
    <3>2. c >= d
      BY <2>1, <3>1 DEF Falls, n
    <3>3. Next1(c) >= Next1(d)
      BY <1>1, <3>2 DEF Next1
    <3> QED BY <1>7, <3>1, <3>3
  <2> QED BY <1>5, <2>1 DEF Falls
<1>11. Spans(v)
  <2> SUFFICES ASSUME n > 0 PROVE Ages(v)[1] - Ages(v)[n] <= Horizon
    BY <1>5 DEF Spans
  <2>1. 1 \in 1 .. n /\ n \in 1 .. n
    BY <1>1
  <2>2. PICK c \in 0 .. Horizon + 1, d \in 0 .. Horizon + 1 :
          c = Ages(w)[n] /\ d = Ages(v)[1]
    BY <1>7, <2>1
  <2>3. Next1(c) >= 1 /\ Next1(c) \in Nat
    BY <1>1 DEF Next1
  <2>4. d - Next1(c) <= Horizon
    BY <1>1, <2>3
  <2> QED BY <1>7, <2>1, <2>2, <2>4
<1> DEFINE z == PopOlder(x, Horizon)
           h == k + (m - 1)
<1>12. Len(z) = n - h /\ h \in 0 .. n /\ \A i \in 1 .. Len(z) : z[i] = v[h + i]
  <2>0. m \in Nat /\ m >= 1 /\ m <= Len(s) + 1 /\ k \in Nat /\ k + Len(s) = n
    BY <1>1, <1>5, <1>6
  <2>1. /\ Len(z) = Len(s) - (m - 1)
        /\ \A i \in 1 .. Len(s) - (m - 1) : z[i] = x[(m - 1) + i]
    BY <1>1, <1>5, <1>8, <2>0
  <2>2. Len(z) = n - h /\ h \in 0 .. n
    <3>1. ASSUME NEW N \in Nat, NEW K \in Nat, NEW S \in Nat, NEW M \in Nat,
                 M >= 1, M <= S + 1, K + S = N
          PROVE  S - (M - 1) = N - (K + (M - 1)) /\ K + (M - 1) \in 0 .. N
      BY <3>1
    <3>2. Len(s) - (m - 1) = n - (k + (m - 1)) /\ k + (m - 1) \in 0 .. n
      BY <1>1, <2>0, <3>1
    <3>3. Len(z) = Len(s) - (m - 1)
      BY <2>1
    <3> HIDE DEF z
    <3> QED BY <3>2, <3>3
  <2>3. ASSUME NEW i \in 1 .. Len(s) - (m - 1) PROVE z[i] = v[h + i]
    <3>1. (m - 1) + i \in 1 .. Len(s) /\ k + ((m - 1) + i) = h + i
      BY <1>1, <2>0
    <3>2. x[(m - 1) + i] = v[k + ((m - 1) + i)]
      BY <1>9, <3>1
    <3> QED BY <2>1, <3>1, <3>2
  <2> QED BY <2>1, <2>2, <2>3
<1>13. ASSUME NEW i \in 1 .. n PROVE Ages(v)[i] <= Horizon <=> i > h
  <2>0. m \in Nat /\ m >= 1 /\ m <= Len(s) + 1 /\ k \in Nat /\ k + Len(s) = n
    BY <1>1, <1>5, <1>6
  <2>1. PICK c \in 0 .. Horizon + 1, d \in 0 .. Horizon + 1 :
          c = Ages(w)[i] /\ d = Ages(v)[i] /\ d = Next1(c)
    BY <1>7
  <2>2. CASE i <= k
    <3>1. ~(c <= Horizon)
      BY <1>6, <2>0, <2>1, <2>2
    <3> QED BY <1>1, <2>0, <2>1, <2>2, <3>1 DEF Next1
  <2>3. CASE i > k /\ i <= h
    <3>1. i - k \in 1 .. m - 1 /\ i - k \in 1 .. Len(s) /\ k + (i - k) = i
      BY <1>1, <2>0, <2>3
    <3>2. d > Horizon
      BY <1>8, <1>9, <2>1, <3>1
    <3> QED BY <1>1, <2>1, <2>3, <3>2, <2>0
  <2>4. CASE i > h
    <3>1. m <= Len(s) /\ m \in 1 .. Len(s) /\ k + m \in 1 .. n /\ k + m <= i
      BY <1>1, <2>0, <2>4
    <3>2. PICK e \in 0 .. Horizon + 1 : e = Ages(v)[k + m]
      BY <1>7, <3>1
    <3>3. e <= Horizon
      BY <1>5, <1>8, <1>9, <3>1, <3>2
    <3>4. e >= d
      BY <1>5, <1>10, <2>1, <3>1, <3>2 DEF Falls
    <3> QED BY <1>1, <2>1, <2>4, <3>3, <3>4
  <2> QED BY <2>0, <2>2, <2>3, <2>4
<1>14. EndsWith(v, z)
  <2> HIDE DEF z, h
  <2> QED BY <1>5, <1>12, <1>13 DEF EndsWith
<1> QED BY <1>4, <1>5, <1>10, <1>11, <1>14 DEF v, x, n

(***************************************************************************)
(* Every step keeps WindowInv.                                             *)
(***************************************************************************)
LEMMA WindowInvariant == Spec => []WindowInv
<1> USE ScreeningAssumption DEF ScreeningAssumption
<1>1. Init => WindowInv
  <2> SUFFICES ASSUME Init, NEW d \in Dids
               PROVE  /\ EndsWith(windows[d], recent[d])
                      /\ Falls(windows[d]) /\ Spans(windows[d])
                      /\ \A i \in 1 .. Len(windows[d]) : windows[d][i].tool \in used[d]
    BY DEF WindowInv
  <2>1. windows[d] = <<>> /\ recent[d] = <<>>
    BY DEF Init
  <2>2. Len(<<>>) = 0 /\ 0 \in 0 .. 0 /\ 0 = 0 - 0 /\ 1 .. 0 = {} /\ ~(0 > 0)
    OBVIOUS
  <2>3. EndsWith(<<>>, <<>>)
    BY <2>2 DEF EndsWith
  <2>4. Falls(<<>>) /\ Spans(<<>>)
    BY <2>2 DEF Falls, Spans
  <2> QED BY <2>1, <2>2, <2>3, <2>4
<1>2. TypeInv /\ WindowInv /\ [Next]_vars => WindowInv'
  <2> DEFINE Part(d) ==
               /\ EndsWith(windows[d], recent[d])
               /\ Falls(windows[d]) /\ Spans(windows[d])
               /\ \A i \in 1 .. Len(windows[d]) : windows[d][i].tool \in used[d]
  <2> SUFFICES ASSUME TypeInv, WindowInv, [Next]_vars, NEW d \in Dids
               PROVE  Part(d)'
    BY DEF WindowInv
  <2>1. Part(d) /\ windows[d] \in Seq(Event) /\ recent[d] \in Seq(Event)
    BY DEF WindowInv, TypeInv
  <2>2. ASSUME windows'[d] = windows[d], recent'[d] = recent[d], used'[d] = used[d]
        PROVE  Part(d)'
    BY <2>1, <2>2 DEF EndsWith, Falls, Spans, Ages
  <2>3. ASSUME NEW r \in Requests, Detect(r) PROVE Part(d)'
    <3> DEFINE a == req[r].action
               e == a.did
    <3>1. a \in Actions /\ e \in Dids
      BY <2>3 DEF Detect, TypeInv
    <3>2. /\ windows' = [windows EXCEPT ![e] = Record(a, @, Horizon)]
          /\ recent' = [recent EXCEPT ![e] = Append(@, Recorded(a))]
          /\ used' = [used EXCEPT ![e] = @ \cup {a.tool}]
      BY <2>3 DEF Detect
    <3>3. CASE d = e
      <4> DEFINE y == Append(recent[d], Recorded(a))
      <4>1. Record(a, windows[d], Horizon) = y /\ EndsWith(y, y) /\ Falls(y) /\ Spans(y)
        BY <2>1, <3>1, RecordKeeps
      <4>2. windows'[d] = y /\ recent'[d] = y /\ used'[d] = used[d] \cup {a.tool}
        BY <3>1, <3>2, <3>3, <4>1 DEF TypeInv
      <4>3. Recorded(a) \in Event /\ Recorded(a).tool = a.tool
        <5>1. Recorded(a) \in Event
          BY <2>1, <3>1, RecordOK
        <5> QED BY <5>1 DEF Recorded
      <4>4. ASSUME NEW i \in 1 .. Len(y) PROVE y[i].tool \in used'[d]
        <5>1. CASE i = Len(recent[d]) + 1
          BY <2>1, <4>2, <4>3, <5>1
        <5>2. CASE i # Len(recent[d]) + 1
          <6>1. i \in 1 .. Len(recent[d]) /\ y[i] = recent[d][i]
            BY <2>1, <4>3, <5>2
          <6>2. PICK j \in 1 .. Len(windows[d]) : recent[d][i] = windows[d][j]
            <7>1. PICK k \in 0 .. Len(windows[d]) :
                    /\ Len(recent[d]) = Len(windows[d]) - k
                    /\ \A l \in 1 .. Len(recent[d]) : recent[d][l] = windows[d][k + l]
              BY <2>1 DEF EndsWith
            <7>2. Len(windows[d]) \in Nat
              BY <2>1
            <7>3. k + i \in 1 .. Len(windows[d])
              <8>1. PICK N \in Nat : N = Len(windows[d])
                BY <7>2
              <8>2. i \in 1 .. N - k /\ k \in 0 .. N
                BY <6>1, <7>1, <8>1
              <8>3. k + i \in 1 .. N
                BY <8>2
              <8> QED BY <8>1, <8>3
            <7> QED BY <6>1, <7>1, <7>3
          <6> QED BY <2>1, <4>2, <6>1, <6>2
        <5> QED BY <5>1, <5>2
      <4> HIDE DEF y
      <4> QED BY <4>1, <4>2, <4>4 DEF EndsWith, Falls, Spans, Ages
    <3>4. CASE d # e
      BY <2>2, <3>1, <3>2, <3>4 DEF TypeInv
    <3> QED BY <3>3, <3>4
  <2>4. CASE Elapse
    <3>1. /\ windows'[d] = Aged(windows[d])
          /\ recent'[d] = PopOlder(Aged(recent[d]), Horizon) /\ used' = used
      BY <2>4 DEF Elapse
    <3> DEFINE w == windows[d]
               z == PopOlder(Aged(recent[d]), Horizon)
    <3>2. /\ Len(Aged(w)) = Len(w)
          /\ \A i \in 1 .. Len(w) : Aged(w)[i].tool = w[i].tool
          /\ EndsWith(Aged(w), z) /\ Falls(Aged(w)) /\ Spans(Aged(w))
      BY <2>1, AgedKeeps
    <3>3. \A i \in 1 .. Len(Aged(w)) : Aged(w)[i].tool \in used'[d]
      BY <2>1, <3>1, <3>2
    <3> HIDE DEF z
    <3> QED BY <3>1, <3>2, <3>3 DEF EndsWith, Falls, Spans, Ages, z
  <2>5. CASE UNCHANGED <<windows, recent, used>>
    BY <2>2, <2>5
  <2>6. ASSUME NEW r \in Requests, NEW a \in Actions, Submit(r, a)
        PROVE  UNCHANGED <<windows, recent, used>>
    BY <2>6 DEF Submit
  <2>7. ASSUME NEW r \in Requests, Decide(r) \/ Return(r)
        PROVE  UNCHANGED <<windows, recent, used>>
    BY <2>7 DEF Decide, Return, history
  <2>8. ASSUME NEW t \in Tools, NEW spec \in Specs, Register(t, spec)
        PROVE  UNCHANGED <<windows, recent, used>>
    BY <2>8 DEF Register
  <2>9. CASE UNCHANGED vars
    BY <2>5, <2>9 DEF vars
  <2> QED BY <2>3, <2>4, <2>5, <2>6, <2>7, <2>8, <2>9 DEF Next
<1> QED BY <1>1, <1>2, TypeInvariant, PTL DEF Spec

(***************************************************************************)
(* What InMemoryBaselineStore keeps of an agent ends with all its actions  *)
(* of the last horizon, and spans no more than one horizon.                *)
(***************************************************************************)
THEOREM WindowKeepsRecent == Spec => []WindowIsRecent
<1>1. TypeInv /\ WindowInv => WindowIsRecent
  <2> SUFFICES ASSUME TypeInv, WindowInv, NEW d \in Dids
               PROVE  LET w == windows[d]
                          stale == Len(w) - Len(recent[d])
                      IN  /\ stale >= 0 /\ recent[d] = SubSeq(w, stale + 1, Len(w))
                          /\ \A i \in DOMAIN w : w[i].age <= Horizon <=> i > stale
                          /\ w # <<>> => w[1].age - w[Len(w)].age <= Horizon
    BY DEF WindowIsRecent
  <2> DEFINE w == windows[d]
             s == recent[d]
  <2>1. w \in Seq(Event) /\ s \in Seq(Event) /\ EndsWith(w, s) /\ Spans(w)
    BY DEF TypeInv, WindowInv
  <2> HIDE DEF w, s
  <2>2. Len(w) \in Nat /\ Len(s) \in Nat /\ DOMAIN w = 1 .. Len(w)
    BY <2>1
  <2>3. PICK k \in 0 .. Len(w) :
          /\ Len(s) = Len(w) - k
          /\ \A i \in 1 .. Len(s) : s[i] = w[k + i]
          /\ \A i \in 1 .. Len(w) : Ages(w)[i] <= Horizon <=> i > k
    BY <2>1 DEF EndsWith
  <2>4. Len(w) - Len(s) = k /\ k >= 0
    BY <2>2, <2>3
  <2>5. s = SubSeq(w, k + 1, Len(w))
    BY <2>1, <2>3, SuffixIs
  <2>6. \A i \in DOMAIN w : w[i].age <= Horizon <=> i > k
    BY <2>1, <2>2, <2>3, AgesOK
  <2>7. w # <<>> => w[1].age - w[Len(w)].age <= Horizon
    <3> SUFFICES ASSUME w # <<>> PROVE w[1].age - w[Len(w)].age <= Horizon
      OBVIOUS
    <3>1. Len(w) > 0 /\ 1 \in 1 .. Len(w) /\ Len(w) \in 1 .. Len(w)
      BY <2>1, <2>2
    <3> QED BY <2>1, <3>1, AgesOK DEF Spans
  <2> QED BY <2>4, <2>5, <2>6, <2>7 DEF w, s
<1> QED BY <1>1, TypeInvariant, WindowInvariant, PTL

(***************************************************************************)
(* What the anomaly detector reports of a window.                          *)
(***************************************************************************)
LEMMA AnomalyReports ==
  ASSUME NEW a, NEW w, Len(w) \in Nat
  PROVE  LET codes == Codes(AnomalyScore(a, w, Limits))
         IN  /\ Len(w) > Limits.spikeMin /\ 60 * Len(w) > Limits.spikeFactor * Limits.seconds
                  => "anomaly.rate_spike" \in codes
             /\ "anomaly.novel_tool" \in codes
                  <=> /\ a.tool # "none" /\ Len(w) >= Limits.rareMin
                      /\ \A i \in 1 .. Len(w) : w[i].tool # a.tool
<1> DEFINE spike == [code |-> "anomaly.rate_spike", severity |-> Limits.spikeSeverity[Len(w)]]
           novel == [code |-> "anomaly.novel_tool", severity |-> 8]
           busy  == Len(w) > Limits.spikeMin /\ 60 * Len(w) > Limits.spikeFactor * Limits.seconds
           new   == /\ a.tool # "none" /\ Len(w) >= Limits.rareMin
                    /\ \A i \in 1 .. Len(w) : w[i].tool # a.tool
<1>1. AnomalyScore(a, w, Limits) = (IF busy THEN <<spike>> ELSE <<>>)
                                     \o (IF new THEN <<novel>> ELSE <<>>)
  BY DEF AnomalyScore, Found, Nothing
<1>2. spike.code = "anomaly.rate_spike" /\ novel.code = "anomaly.novel_tool"
  OBVIOUS
<1> HIDE DEF spike, novel, busy, new
<1>3. /\ ToSet(<<spike>> \o <<novel>>) = {spike, novel}
      /\ ToSet(<<spike>> \o <<>>) = {spike}
      /\ ToSet(<<>> \o <<novel>>) = {novel}
      /\ ToSet(<<>> \o <<>>) = {}
  <2>1. /\ <<spike>> \o <<>> = <<spike>>
        /\ <<>> \o <<novel>> = <<novel>> /\ <<>> \o <<>> = <<>>
    <3>1. ASSUME NEW p PROVE <<p>> \o <<>> = <<p>>
      OBVIOUS
    <3>2. ASSUME NEW p PROVE <<>> \o <<p>> = <<p>>
      OBVIOUS
    <3>3. <<>> \o <<>> = <<>>
      OBVIOUS
    <3> QED BY <3>1, <3>2, <3>3
  <2>2. ToSet(<<spike>> \o <<novel>>) = {spike, novel}
    <3> DEFINE x == <<spike>> \o <<novel>>
    <3>1. DOMAIN x = 1 .. 2 /\ x[1] = spike /\ x[2] = novel
      OBVIOUS
    <3> HIDE DEF x
    <3>2. ToSet(x) = {spike, novel}
      BY <3>1 DEF ToSet
    <3> QED BY <3>2 DEF x
  <2>3. ASSUME NEW p PROVE ToSet(<<p>>) = {p}
    BY DEF ToSet
  <2>4. ToSet(<<>>) = {}
    BY DEF ToSet
  <2> QED BY <2>1, <2>2, <2>3, <2>4
<1>4. (busy => spike.code \in Codes(AnomalyScore(a, w, Limits)))
      /\ (novel.code \in Codes(AnomalyScore(a, w, Limits)) <=> new)
  BY <1>1, <1>2, <1>3 DEF Codes
<1> QED BY <1>2, <1>4 DEF busy, new

(***************************************************************************)
(* The anomaly detector misses no burst of the last horizon and no first   *)
(* use of a tool by a busy agent, and calls no tool novel that the agent   *)
(* has used within the horizon, whatever the interleaving.                 *)
(***************************************************************************)
THEOREM UnusualIsReported == Spec => UnusualReported
<1> DEFINE Right(r) ==
             LET a == req[r].action
                 n == Len(recent[a.did])
             IN  /\ n > Limits.spikeMin /\ 60 * n > Limits.spikeFactor * Limits.seconds
                      => "anomaly.rate_spike" \in AnomalyCodes(r)'
                 /\ n >= Limits.rareMin /\ a.tool \notin used[a.did] \cup {"none"}
                      => "anomaly.novel_tool" \in AnomalyCodes(r)'
                 /\ "anomaly.novel_tool" \in AnomalyCodes(r)'
                      => \A i \in 1 .. n : recent[a.did][i].tool # a.tool
<1>1. TypeInv /\ WindowInv /\ [Next]_vars => \A r \in Requests : Detect(r) => Right(r)
  <2> SUFFICES ASSUME TypeInv, WindowInv, NEW r \in Requests, Detect(r) PROVE Right(r)
    OBVIOUS
  <2> DEFINE a == req[r].action
             w == windows[a.did]
             s == recent[a.did]
  <2>1. a \in Actions /\ a.did \in Dids
    BY ScreeningAssumption DEF ScreeningAssumption, Detect, TypeInv
  <2>2. PICK m \in ModelScores[a] :
          found' = [found EXCEPT ![r] = Reports(a, req[r].identity, m)]
    BY DEF Detect
  <2>3. AnomalyCodes(r)' = Codes(AnomalyScore(a, w, Limits))
    <3>1. found'[r] = Reports(a, req[r].identity, m)
      BY <2>2 DEF TypeInv
    <3>2. Reports(a, req[r].identity, m)[3] = Returned(AnomalyScore(a, w, Limits))
      BY DEF Reports
    <3> QED BY <3>1, <3>2 DEF AnomalyCodes, Returned, Codes, ToSet
  <2>4. /\ Len(w) \in Nat /\ Len(s) \in Nat /\ EndsWith(w, s)
        /\ \A i \in 1 .. Len(w) : w[i].tool \in used[a.did]
    BY <2>1 DEF TypeInv, WindowInv
  <2> DEFINE codes == Codes(AnomalyScore(a, w, Limits))
  <2> HIDE DEF w, s, codes
  <2>5. PICK k \in 0 .. Len(w) :
          Len(s) = Len(w) - k /\ \A i \in 1 .. Len(s) : s[i] = w[k + i]
    BY <2>4 DEF EndsWith
  <2>6. /\ Len(w) > Limits.spikeMin /\ 60 * Len(w) > Limits.spikeFactor * Limits.seconds
             => "anomaly.rate_spike" \in codes
        /\ "anomaly.novel_tool" \in codes
             <=> /\ a.tool # "none" /\ Len(w) >= Limits.rareMin
                 /\ \A i \in 1 .. Len(w) : w[i].tool # a.tool
    BY <2>4, AnomalyReports DEF codes
  <2>7. PICK low \in Nat, rare \in Nat, f \in Nat, t \in Nat :
          /\ low = Limits.spikeMin /\ rare = Limits.rareMin
          /\ f = Limits.spikeFactor /\ t = Limits.seconds
    BY ScreeningAssumption DEF ScreeningAssumption
  <2>8. PICK p \in Nat : p = f * t
    BY <2>7
  <2>9. Len(s) > low /\ 60 * Len(s) > p => Len(w) > low /\ 60 * Len(w) > p
    BY <2>4, <2>5
  <2>10. Len(s) > Limits.spikeMin /\ 60 * Len(s) > Limits.spikeFactor * Limits.seconds
           => "anomaly.rate_spike" \in codes
    BY <2>6, <2>7, <2>8, <2>9
  <2>11. Len(s) >= Limits.rareMin => Len(w) >= Limits.rareMin
    BY <2>4, <2>5, <2>7
  <2>12. Len(s) >= Limits.rareMin /\ a.tool \notin used[a.did] \cup {"none"}
           => "anomaly.novel_tool" \in codes
    BY <2>4, <2>6, <2>11
  <2>13. "anomaly.novel_tool" \in codes => \A i \in 1 .. Len(s) : s[i].tool # a.tool
    <3>1. \A i \in 1 .. Len(s) : k + i \in 1 .. Len(w)
      BY <2>4, <2>5
    <3> QED BY <2>5, <2>6, <3>1
  <2> QED BY <2>3, <2>10, <2>12, <2>13 DEF s, codes
<1> QED BY <1>1, TypeInvariant, WindowInvariant, PTL DEF Spec, UnusualReported

=============================================================================
