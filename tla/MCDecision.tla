----------------------------- MODULE MCDecision -----------------------------
(***************************************************************************)
(* Small sets of inputs for DecisionGrowth.  Every key of the match        *)
(* language appears in some rule; the severities lie on both sides of the  *)
(* three risk thresholds and on two of them, alone or in pairs; the trust  *)
(* scores lie on both sides of the OBSERVE band, with and without the      *)
(* clean recovery.                                                         *)
(***************************************************************************)
EXTENDS DecisionGrowth

MCActions ==
  { [type |-> "tool_call",   tool |-> "pay",  did |-> "a", args |-> {"x"}],
    [type |-> "memory_read", tool |-> "none", did |-> "b", args |-> {}] }

MCIdentities ==
  { [tier |-> "standard", trust |-> t] : t \in {200, 245, 250, 750} }

Rule(id, effect, enabled, match) ==
  [id |-> id, effect |-> effect, enabled |-> enabled, match |-> match]

MCRules ==
  { Rule("catch_all", "allow", TRUE, <<>>),
    Rule("tools", "escalate", TRUE,
         "action.type" :> "tool_call" @@ "action.tool" :> {"pay"}
           @@ "args" :> {"x"}),
    Rule("tier", "deny", TRUE,
         "identity.tier" :> "standard"
           @@ "risk.factor_code_any" :> {"dlp.email", "injection.prompt_injection"}),
    Rule("pair", "throttle", TRUE,
         "risk.factor_code_all" :> {"anomaly.rate_spike", "dlp.email"}
           @@ "identity.did_prefix" :> {"a"}),
    Rule("severe", "throttle", TRUE, "risk.min_severity" :> 11),
    Rule("off", "deny", FALSE, "args_contains" :> {"x", "y"}) }

MCFactors ==
  { [code |-> "anomaly.rate_spike", severity |-> 4],
    [code |-> "dlp.email", severity |-> 3],
    [code |-> "injection.prompt_injection", severity |-> 11],
    [code |-> "tool.no_capability", severity |-> 17] }

(***************************************************************************)
(* The unconditional part of config/policies/default.yaml: the rules whose *)
(* keys the engine does not know, next to two it does.                     *)
(***************************************************************************)
DefaultBundle ==
  { Rule("mem-poison-injection", "deny", TRUE,
         "action.type" :> "memory_write"
           @@ "risk.factor_code_any" :> {"injection.prompt", "injection.override"}),
    Rule("tool-no-capability", "deny", TRUE,
         "risk.factor_code_any" :> {"tool.no_capability"}),
    Rule("identity-unsigned-required", "deny", TRUE,
         "identity.signed" :> FALSE @@ "action.tenant_env" :> "production"),
    Rule("supply-chain-unverified-bundle", "deny", TRUE,
         "runtime.bundle_signature_valid" :> FALSE) }

=============================================================================
