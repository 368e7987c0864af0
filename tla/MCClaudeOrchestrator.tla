------------------------ MODULE MCClaudeOrchestrator ------------------------
(* Two new tasks, and two in the file an earlier version has left, one of them *)
(* as large as the whole token budget.                                         *)
EXTENDS ClaudeOrchestrator

CONSTANTS t1, t2, t3, big

MCTokens == [t \in Task |-> IF t = big THEN 3 ELSE 1]
=============================================================================
