------------------------------ MODULE MCSchedLoop ------------------------------
(***************************************************************************)
(* A plan of three nodes for TLC: a node to rebuild (arch-gated, built and *)
(* then handed off or verdicted green), and two that depend on it, both    *)
(* with sealed callers: a node to retire, which may enter all the same,    *)
(* and a node to refactor, which may not.  There is room for retries: for  *)
(* late and repeated reports, both ceilings, and re-entries.               *)
(***************************************************************************)
EXTENDS SchedDriver, TLC

CONSTANTS Core, Client, Legacy

MCNode == {Core, Client, Legacy}
MCDeps == (Core :> {}) @@ (Client :> {Core}) @@ (Legacy :> {Core})
MCDisposition ==
  (Core :> "rebuild") @@ (Client :> "refactor") @@ (Legacy :> "retire")
MCRiskOrder == <<Core, Client, Legacy>>
MCConflictKeys == [n \in MCNode |-> {}]
MCSealed == {Client, Legacy}
===============================================================================
