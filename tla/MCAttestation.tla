----------------------------- MODULE MCAttestation -----------------------------
(***************************************************************************)
(* Two runs over two nodes, one of which is in both plans.                 *)
(***************************************************************************)
EXTENDS Attestation, TLC

CONSTANTS Main, Other, Shared, Own

MCRun == {Main, Other}
MCNode == {Shared, Own}
MCHolds == (Main :> {Shared, Own}) @@ (Other :> {Shared})
===============================================================================
