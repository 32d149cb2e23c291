----------------------------- MODULE MCPipeline -----------------------------
(***************************************************************************)
(* Small instances of Pipeline: an agent that operators register and       *)
(* revoke while its actions are evaluated, and that is a stranger before.  *)
(***************************************************************************)
EXTENDS Pipeline

MCDids == {"agent"}

ToolCall(d) == [type |-> "tool_call", tool |-> "pay", did |-> d, args |-> {}]

MCActions == {ToolCall(d) : d \in MCDids}

OneIdentity == {[tier |-> "standard", trust |-> 750]}

Rule(id, effect, match) ==
  [id |-> id, effect |-> effect, enabled |-> TRUE, match |-> match]

Permissive == {Rule("catch_all", "allow", <<>>)}
Strict == Permissive \cup {Rule("no_pay", "deny", "action.tool" :> {"pay"})}

MCBundles == {Permissive, Strict}
PermissiveOnly == {Permissive}

NothingFound == {<<>>}

=============================================================================
