----------------------------- MODULE MCOfflineLane -----------------------------
(***************************************************************************)
(* Three nodes for TLC: two that can be generated in parallel, one of them *)
(* arch-gated and handed off in the end, and one to retire after the first *)
(* of them.                                                                *)
(***************************************************************************)
EXTENDS OfflineLane, TLC

CONSTANTS Core, Extra, Legacy

MCNode == {Core, Extra, Legacy}
MCDeps == (Core :> {}) @@ (Extra :> {}) @@ (Legacy :> {Core})
MCDisposition ==
  (Core :> "rebuild") @@ (Extra :> "refactor") @@ (Legacy :> "retire")
MCRiskOrder == <<Core, Extra, Legacy>>
MCConflictKeys == [n \in MCNode |-> {}]
===============================================================================
