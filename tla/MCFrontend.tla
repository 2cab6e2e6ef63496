----------------------------- MODULE MCFrontend -----------------------------
(***************************************************************************)
(* One page with both of its parts.  They share nothing, so a behaviour    *)
(* has work for one of them and leaves the other at rest.                  *)
(***************************************************************************)
EXTENDS MetricsHook, AnalyzeFlow

MCSessions ==
  {[clicks |-> 3, faults |-> 1, reloads |-> 0], [clicks |-> 2, faults |-> 1, reloads |-> 1],
   [clicks |-> 0, faults |-> 0, reloads |-> 0]}

MCEditors ==
  {[edits |-> 2, clicks |-> 1, rules |-> TRUE], [edits |-> 2, clicks |-> 2, rules |-> FALSE],
   [edits |-> 0, clicks |-> 0, rules |-> FALSE]}

vars == <<hookVars, analyzeVars>>

OneAtWork == IF left.clicks = 0 THEN rest.edits > 0 ELSE rest.edits = 0 /\ blank = {0}

Init == HookInit /\ AnalyzeInit /\ OneAtWork

Next ==
  \/ HookNext /\ UNCHANGED analyzeVars
  \/ AnalyzeNext /\ UNCHANGED hookVars

Spec == Init /\ [][Next]_vars /\ HookFairness /\ AnalyzeFairness

(* What the page shows is of its types, and of a connection only while it  *)
(* looks after one (use-metrics.ts:34-39, :73-85).                         *)
PageIsTruthful == HookTypeOK /\ AnalyzeTypeOK /\ FrozenOnlyByLatePoll

=============================================================================
