------------------------------ MODULE MCBaselines ------------------------------
(***************************************************************************)
(* Two runs that share two nodes, one of which needs a biting test; one    *)
(* warning allowed and coverage 0 or 1.                                    *)
(***************************************************************************)
EXTENDS Baselines, TLC

CONSTANTS r1, r2, s1, s2

MCPlan == r1 :> {s1, s2} @@ r2 :> {s1}
===============================================================================
