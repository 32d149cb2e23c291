------------------------------ MODULE Tooling -------------------------------
(***************************************************************************)
(* What an operator does from a shell, one command after the other: sign,  *)
(* keep and verify objects (Sealed), or run the checks of the security     *)
(* workflow (SecurityTools).  Files outlive the commands; nothing else     *)
(* does.                                                                   *)
(***************************************************************************)
EXTENDS Sealed, SecurityTools

ASSUME ToolingAssumption ==
  /\ "none" \notin Keys \cup Subjects
  /\ Formats \subseteq {"yaml", "json"}
  /\ MaxSignings \in Nat /\ MaxDepth \in Nat /\ MaxCalls \in Nat
  /\ MaxFiles \in Nat /\ MaxScenarios \in Nat

toolingVars == <<object, origin, stack, nest, files, seen, reported, due, headers, report,
                 outcomes, exit>>

ToolingInit == SealedInit /\ ToolsInit

ToolingNext ==
  \/ exit = Running /\ files = 0 /\ outcomes = <<>> /\ SealedNext /\ UNCHANGED toolVars
  \/ object = NoObject /\ ToolsNext /\ UNCHANGED sealedVars

ToolingSpec == ToolingInit /\ [][ToolingNext]_toolingVars

=============================================================================
