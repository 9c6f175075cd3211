------------------------- MODULE MCSagaOrchestrator -------------------------
(* Instances of SagaOrchestrator for TLC. *)
EXTENDS SagaOrchestrator

CONSTANTS s1, s2, c1, c2, p1, p2
=============================================================================
