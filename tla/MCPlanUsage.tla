---------------------------- MODULE MCPlanUsage ----------------------------
(***************************************************************************)
(* A small instance of PlanUsage: a cadence of two ticks, a turn that may  *)
(* take one, and a Retry-After of three.                                   *)
(***************************************************************************)
EXTENDS PlanUsage

MCRetry == {3}
=============================================================================
