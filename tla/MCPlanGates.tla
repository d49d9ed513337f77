------------------------------ MODULE MCPlanGates ------------------------------
(***************************************************************************)
(* The gates on two nodes, both classified re_architect.  No shape fits    *)
(* the odd one; the plain one has two candidates.                          *)
(***************************************************************************)
EXTENDS PlanGates

CONSTANTS odd, plain, rap, cap, m1, m2

MCDisposition == {"re_architect", "retire"}
MCGated == {"re_architect"}
MCClassifiedAs == [n \in Node |-> "re_architect"]
MCFact == [n \in Node |-> n]
MCFits == [n \in Node |-> [re_architect |-> IF n = odd THEN {} ELSE {rap, cap}]]

\* The two shapes are alike to everything here, and so are the two models.
MCSymmetry == Permutations({rap, cap}) \cup Permutations({m1, m2})
===============================================================================
