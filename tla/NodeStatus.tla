------------------------------ MODULE NodeStatus ------------------------------
(***************************************************************************)
(* The lifecycle of one plan node of the moderniser: the statuses, and the *)
(* transitions that are legal (moderniser/src/state/node-status.js), with  *)
(* the terminal vocabulary laid over them                                  *)
(* (moderniser/src/sched/terminals.js).  Every other move is refused, so   *)
(* the modules that extend this one use CanTransition as the guard of      *)
(* every action that changes a status.                                     *)
(***************************************************************************)
EXTENDS Naturals

CONSTANT MaxPhaseRetryCycles   \* MAX_PHASE_RETRY_CYCLES, 3 in the code

ASSUME MaxPhaseRetryCyclesAssumption == MaxPhaseRetryCycles \in Nat \ {0}

\* The in-flight statuses, from which a node can always escalate.
ActiveStates ==
  {"PENDING", "GROUNDED", "GENERATED", "SYNTAX_OK", "PUSHED", "ACTIVATED",
   "GATED", "PROVISIONAL_GATED"}

\* The outcomes only applyOutcome may set.
TerminalOutcomes ==
  {"GREEN", "BLOCK", "PARK", "NEEDS_MANUAL_SEAM", "RETIRED", "REBUILT_HANDOFF"}

\* The outcomes that resolve a node: they complete a run and free dependents.
RunCompleteTerminals == {"GREEN", "RETIRED", "REBUILT_HANDOFF"}

Statuses == ActiveStates \cup TerminalOutcomes

\* Where a refinement retry may leave from, back to GENERATED.
RetryStates == {"SYNTAX_OK", "GATED", "PROVISIONAL_GATED"}

\* The edges that need no further condition.
Forward ==
  {<<"PENDING", "GROUNDED">>,
   <<"GROUNDED", "GENERATED">>, <<"GROUNDED", "RETIRED">>,
   <<"GROUNDED", "REBUILT_HANDOFF">>,
   <<"GENERATED", "SYNTAX_OK">>,
   <<"SYNTAX_OK", "PUSHED">>, <<"SYNTAX_OK", "PROVISIONAL_GATED">>,
   <<"PUSHED", "ACTIVATED">>, <<"ACTIVATED", "GATED">>,
   <<"GATED", "GREEN">>, <<"GATED", "REBUILT_HANDOFF">>,
   <<"PROVISIONAL_GATED", "REBUILT_HANDOFF">>,
   <<"PARK", "PENDING">>, <<"NEEDS_MANUAL_SEAM", "PENDING">>}

\* Why a node is quarantined, or parked.  Defect stands for every reason other
\* than the one that parks, the driver's two ceilings included.
NoReleasedSuccessor == "NO_RELEASED_SUCCESSOR"
Defect == "DEFECT"
BlockReasons == {Defect, NoReleasedSuccessor}

\* A definition whose name ends in Variant is one a plausible bug would put in
\* the place of the next; only mutation runs use it.
IsRetryVariant(from, to) == to = "GENERATED"    \* a first pass counted too

IsRetry(from, to) == from \in RetryStates /\ to = "GENERATED"

(***************************************************************************)
(* canTransition(from, to, {cycle, reason}): cycle is the number of        *)
(* refinement retries already used, reason the one given with the call.    *)
(***************************************************************************)
CanTransition(from, to, cycle, reason) ==
  \/ from \in ActiveStates /\ to \in {"BLOCK", "NEEDS_MANUAL_SEAM"}
  \/ IsRetry(from, to) /\ cycle < MaxPhaseRetryCycles
  \/ from = "BLOCK" /\ to = "PARK" /\ reason = NoReleasedSuccessor
  \/ <<from, to>> \in Forward

(***************************************************************************)
(* Dispositions: what the plan froze a node to.                            *)
(***************************************************************************)
Dispositions ==
  {"refactor", "replace", "re_architect", "rebuild", "retire", "seal"}
NonBuildDispositions  == {"retire", "seal"}
ArchGatedDispositions == {"re_architect", "rebuild"}

\* The disposition a terminal reached without a verdict requires.
DispositionOf(terminal) ==
  IF terminal = "RETIRED" THEN "retire" ELSE "rebuild"
DispositionTerminals == {"RETIRED", "REBUILT_HANDOFF"}
===============================================================================
