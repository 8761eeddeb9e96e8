------------------------ MODULE MCAttackOrchestrator ------------------------
(* An instance of AttackOrchestrator and its inductive invariant for TLC.   *)
EXTENDS AttackOrchestratorInv

\* Of the two uuids, drawn by one run each or by a generation and its retry,
\* strip_pii rewrites the first.
SomePiiIds == {1}

=============================================================================
