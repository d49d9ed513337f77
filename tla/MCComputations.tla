---------------------------- MODULE MCComputations ----------------------------
(***************************************************************************)
(* All that is computed without a state of its own, over every input of a  *)
(* bounded size: an initial state is one input, and the only step computes *)
(* what the code computes from it.                                         *)
(***************************************************************************)
EXTENDS MCJudging, MCBatch, MCRelease, MCPlanning

Inputs == JudgingInputs @@ BatchInputs @@ ReleaseInputs @@ DesignInputs @@ MigrationInputs @@ PlanningInputs

\* The kinds that take longest come last.
Costly == {"plan", "reach", "cut"}

Init ==
  /\ out = Pending
  /\ \/ kind \in DOMAIN Inputs \ Costly /\ input \in Inputs[kind]
     \/ kind \in Costly /\ input \in Inputs[kind]

Result ==
  CASE kind \in DOMAIN JudgingInputs -> Given(kind, input)
    [] kind \in DOMAIN BatchInputs -> Chosen(kind, input)
    [] kind \in DOMAIN DesignInputs -> Design(kind, input)
    [] kind \in DOMAIN MigrationInputs -> Migrated(kind, input)
    [] kind \in DOMAIN PlanningInputs -> Planned(kind, input)
    [] kind \in DOMAIN ReleaseInputs -> Release(kind, input)

Compute ==
  /\ ~ out.judged
  /\ out' = Result
  /\ UNCHANGED <<kind, input>>

Spec == Init /\ [][Compute]_inputVars
===============================================================================
