----------------------------- MODULE MCSchedDriver -----------------------------
(***************************************************************************)
(* A plan for TLC in which the driver has choices to make: two nodes that  *)
(* touch the same table and cannot be generated together, one of them      *)
(* arch-gated, and a node to retire that waits for the other one.  All of  *)
(* them belong to one transport request.                                   *)
(***************************************************************************)
EXTENDS ActivationMutex, TLC

CONSTANTS Core, Extra, Legacy, Table, Request

MCNode == {Core, Extra, Legacy}
MCDeps == (Core :> {}) @@ (Extra :> {}) @@ (Legacy :> {Core})
MCDisposition == (Core :> "refactor") @@ (Extra :> "rebuild") @@ (Legacy :> "retire")
MCRiskOrder == <<Extra, Core, Legacy>>
MCKey == {Table}
MCConflictKeys == (Core :> {Table}) @@ (Extra :> {Table}) @@ (Legacy :> {})
MCTransportOf == [n \in MCNode |-> Request]
===============================================================================
