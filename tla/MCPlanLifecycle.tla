-------------------------- MODULE MCPlanLifecycle --------------------------
(* A small instance of PlanLifecycle for TLC. *)
EXTENDS PlanLifecycle
=============================================================================
