---------------------------- MODULE MCScreening -----------------------------
(***************************************************************************)
(* One agent, with a tool whose registry entry changes under its actions.  *)
(* The actions without a tool carry what the scanners look for.  The       *)
(* intents match, are excused, drift or are missing.  No evaluation has    *)
(* more than four factors, the most that AggregateRisk can take in TLC's   *)
(* integers.                                                               *)
(***************************************************************************)
EXTENDS Screening

Text(patterns) == [shape |-> "text", texts |-> <<patterns>>]

Act(type, tool, intent, valid, fields) ==
  [type |-> type, tool |-> tool, did |-> "agent", args |-> {}, intent |-> intent,
   name |-> IF tool = "none" THEN {} ELSE {"transfer"}, valid |-> valid,
   fields |-> fields]

Transfer(valid) ==
  Act("tool_call", "transfer", IF valid THEN {"transfer"} ELSE {"fetch"}, valid,
      <<Text({})>>)

MCActions ==
  { Transfer(TRUE), Transfer(FALSE),
    Act("llm_prompt", "none", {}, TRUE, <<Text({})>>),
    Act("file_write", "none", {"note"}, TRUE,
        <<Text({"ignore", "disregard", "override"}), Text({"ignore", "reveal"})>>),
    Act("payment", "none", {"pay", "refund", "transfer"}, TRUE,
        <<Text({}), [shape |-> "nested", texts |-> <<{"dlp.aws_access_key"}>>],
          [shape |-> "list", texts |-> <<{"dlp.email"}, {"dlp.credit_card"}>>]>>) }

\* A model that suspects some texts and sees nothing in others.
MCModelScores ==
  [a \in MCActions |-> IF a.type = "llm_prompt" THEN {0, 16} ELSE {0}]

MCIdentities ==
  { [tier |-> "standard", trust |-> 750, caps |-> {"payments"}] }

ToolEntry(capability, quarantined, schema) ==
  [capability |-> capability, quarantined |-> quarantined, schema |-> schema,
   sensitivity |-> 0]

MCSpecs ==
  { ToolEntry("payments", FALSE, "good"), ToolEntry("payments", TRUE, "none"),
    ToolEntry("payments", FALSE, "bad"), ToolEntry("admin", FALSE, "none") }

Rule(id, effect, match) ==
  [id |-> id, effect |-> effect, enabled |-> TRUE, match |-> match]

MCBundle == {Rule("catch_all", "allow", <<>>)}

RequestSymmetry == Permutations(Requests)

MCLimits == [spikeMin |-> 1, spikeFactor |-> 4, seconds |-> 20,
             spikeSeverity |-> [n \in 2 .. 3 |-> 1], rareMin |-> 2]

=============================================================================
