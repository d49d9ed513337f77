------------------------------ MODULE RunContract ------------------------------
(***************************************************************************)
(* What a modernisation run promises about the order of its work, without  *)
(* a word on how: each node waits, is worked on, is held back by a person  *)
(* or a gate, or is done; work on a node starts only over dependencies     *)
(* that are done; and done is final.  SchedLoop and SchedDriver implement  *)
(* it (moderniser/src/sched/loop.js, header lines 8 to 12).                *)
(***************************************************************************)
CONSTANTS Node, Deps

Phases == {"waiting", "working", "held", "done"}

VARIABLE phase

ContractTypeOK == phase \in [Node -> Phases]

Init == phase = [n \in Node |-> "waiting"]

Ready(n) == \A d \in Deps[n] : phase[d] = "done"

\* A node enters the lifecycle.
Start(n) ==
  /\ phase[n] = "waiting" /\ Ready(n)
  /\ phase' = [phase EXCEPT ![n] = "working"]

\* Quarantined, parked, or sent to a person.
Hold(n) ==
  /\ phase[n] \in {"waiting", "working"}
  /\ phase' = [phase EXCEPT ![n] = "held"]

\* A held node starts again from the beginning.
Readmit(n) ==
  /\ phase[n] = "held"
  /\ phase' = [phase EXCEPT ![n] = "waiting"]

\* Built, retired or handed off.
Finish(n) ==
  /\ phase[n] = "working"
  /\ phase' = [phase EXCEPT ![n] = "done"]

Next == \E n \in Node : Start(n) \/ Hold(n) \/ Readmit(n) \/ Finish(n)

Spec == Init /\ [][Next]_phase

-------------------------------------------------------------------------------
(***************************************************************************)
(* Bottom up: work is only ever done, or under way, over dependencies that *)
(* are done.                                                               *)
(***************************************************************************)
BottomUp == \A n \in Node : phase[n] \in {"working", "done"} => Ready(n)

(***************************************************************************)
(* What is done stays done.                                                *)
(***************************************************************************)
DoneIsFinal == [][\A n \in Node : phase[n] = "done" => phase'[n] = "done"]_phase
===============================================================================
