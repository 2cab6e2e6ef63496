---------------------------- MODULE MCMetricsManager ----------------------------
(* An instance of MetricsManager for TLC: one caller who reconnects to      *)
(* another target, and two callers who interleave on one target.            *)
EXTENDS MetricsManager

CONSTANTS c1, e1

MCOneCaller == {<<{c1}, Endpoints>>}
MCSetups == MCOneCaller \union {<<Callers, {e1}>>}

=============================================================================
