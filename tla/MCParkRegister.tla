----------------------------- MODULE MCParkRegister -----------------------------
(***************************************************************************)
(* Two runs whose plans share a node; one of them holds a second.          *)
(***************************************************************************)
EXTENDS ParkRegister, TLC

CONSTANTS Main, Other, Shared, Own, NewApi

MCNode == {Shared, Own}
MCHolds == (Main :> {Shared, Own}) @@ (Other :> {Shared})
===============================================================================
