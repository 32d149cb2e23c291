--------------------------- MODULE DecisionGrowth ---------------------------
(***************************************************************************)
(* One action's decision as the case against it grows: rules are added to  *)
(* the bundle, detectors report further factors, trust falls, and the      *)
(* identity may be lost to an outage.  Its states are the inputs of        *)
(* Decision!Verdict and its steps relate each input to the worse ones, so  *)
(* that TLC compares the decisions of neighbouring inputs.                 *)
(***************************************************************************)
EXTENDS Decision

CONSTANTS
  Actions,      \* actions an agent may send
  Identities,   \* what the resolver may return for it
  BaseBundle,   \* the rules loaded at startup
  Rules,        \* rules an operator may add
  Factors,      \* what a detector may report
  MaxFactors    \* bound on the number of reports

ASSUME GrowthAssumption ==
  /\ \A r \in BaseBundle \cup Rules : r.effect \in Verdicts
  /\ Factors \subseteq Factor
  /\ \A i \in Identities : i.trust \in 0 .. 1000

VARIABLES action, identity, bundle, factors

vars == <<action, identity, bundle, factors>>

verdict == Verdict(bundle, action, identity, factors)

Init ==
  /\ action \in Actions
  /\ identity \in Identities
  /\ bundle = BaseBundle
  /\ factors = <<>>

AddRule(r) ==
  /\ r \notin bundle
  /\ bundle' = bundle \cup {r}
  /\ UNCHANGED <<action, identity, factors>>

AddFactor(f) ==
  /\ Len(factors) < MaxFactors
  /\ factors' = Append(factors, f)
  /\ UNCHANGED <<action, identity, bundle>>

LowerTrust(i) ==
  /\ identity # NoIdentity
  /\ i.tier = identity.tier
  /\ i.trust < identity.trust
  /\ identity' = i
  /\ UNCHANGED <<action, bundle, factors>>

LoseIdentity ==
  /\ identity # NoIdentity
  /\ identity' = NoIdentity
  /\ UNCHANGED <<action, bundle, factors>>

Next ==
  \/ \E r \in Rules : AddRule(r)
  \/ \E f \in Factors : AddFactor(f)
  \/ \E i \in Identities : LowerTrust(i)
  \/ LoseIdentity

Spec == Init /\ [][Next]_vars

-----------------------------------------------------------------------------
\* Every input gets a verdict, and a risk score between 0 and 1.
TypeOK ==
  /\ identity \in Identities \cup {NoIdentity}
  /\ verdict \in Verdicts
  /\ AggregateRisk(factors) \in RiskScores

(***************************************************************************)
(* More rules, more risk factors, less trust or a lost identity never turn *)
(* a refusal into ALLOW: the match language has no negation, the risk      *)
(* score only grows, and neither an ALLOW rule nor clean recovery can      *)
(* outweigh the rest.                                                      *)
(***************************************************************************)
NeverLoosens == [][verdict # "allow" => verdict' # "allow"]_vars

Restrictiveness(v) ==
  CASE v = "allow" -> 0 [] v = "throttle" -> 1 [] v = "escalate" -> 2 [] v = "deny" -> 3

(***************************************************************************)
(* "The most restrictive matching rule wins" (docs/ARCHITECTURE.md:50),    *)
(* whatever the priorities and however low the risk: where a matching rule *)
(* restricts the action, the verdict is the strictest of their effects.    *)
(***************************************************************************)
MostRestrictiveRuleWins ==
  LET matched == Effects(bundle, action, identity, factors) \ {"allow"}
  IN  matched # {} =>
        /\ verdict \in matched
        /\ \A e \in matched : Restrictiveness(e) <= Restrictiveness(verdict)

(***************************************************************************)
(* A verdict softer than the risk score asks for comes from a rule: with   *)
(* no restricting rule, a score at the deny threshold denies and one at    *)
(* the escalate threshold is never merely throttled.                       *)
(***************************************************************************)
RiskDecidesWithoutRules ==
  Effects(bundle, action, identity, factors) \subseteq {"allow"} =>
    /\ SafeProduct(factors) * 20 <= 3 * Whole(factors) => verdict = "deny"
    /\ SafeProduct(factors) * 20 <= 9 * Whole(factors)
         => verdict \in {"escalate", "deny"}

(***************************************************************************)
(* An agent in good standing with nothing held against it is not denied:   *)
(* the rules of a bundle deny on the conditions they state.                *)
(***************************************************************************)
CleanActionNotDenied ==
  identity # NoIdentity /\ identity.trust >= 250 /\ factors = <<>>
    => verdict # "deny"

=============================================================================
