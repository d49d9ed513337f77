------------------------------- MODULE SchedLoop -------------------------------
(***************************************************************************)
(* The scheduler reducer of the moderniser: the run state and the verbs    *)
(* that change it (moderniser/src/sched/loop.js, with the gates of         *)
(* terminals.js and the record verbs of verdict-ops.js).                   *)
(*                                                                         *)
(* Every verb of the code is a pure function from a state to a state which *)
(* throws when it is refused; the command that calls it persists the       *)
(* result with one atomic write.  An accepted call is one step here and a  *)
(* refused call is no step.  The commands run in no fixed order: a person, *)
(* an agent or a resumed session may issue any of them at any time, so     *)
(* Next offers every verb in every state.                                  *)
(*                                                                         *)
(* Left out: the plan hash (a state of another plan is refused by every    *)
(* verb), the cancel token (nothing reads it), the evidence kept for       *)
(* escalation only (verdict series, top failing rule, risk evidence), and  *)
(* the activation mutex, which module ActivationMutex lays over this one.  *)
(***************************************************************************)
EXTENDS NodeStatus, Integers, FiniteSets, Sequences

CONSTANTS
  Node,            \* the nodes (super-nodes) of the frozen plan
  Deps,            \* Deps[n]: the nearest in-plan nodes n depends on, through any others
  Disposition,     \* Disposition[n]: what the plan froze n to
  Sealed,          \* nodes with dynamic_seal = NEEDS_MANUAL_SEAM
  MaxGeneration    \* bound of the model: artifacts generated for one node

ASSUME PlanAssumption ==
  /\ IsFiniteSet(Node)
  /\ Deps \in [Node -> SUBSET Node]
  /\ \A n \in Node : n \notin Deps[n]
  /\ Disposition \in [Node -> Dispositions]
  /\ Sealed \subseteq Node
  /\ MaxGeneration \in Nat

VARIABLES
  status,              \* the lifecycle status of each node
  indegree,            \* live count of dependencies not yet resolved
  cycle,               \* refinement retries used
  syntaxAttempts,      \* failed syntax self-checks of the current artifact
  generation,          \* artifacts generated so far
  verdictGreen,        \* recorded live verdict
  verdictProvisional,  \* recorded offline verdict
  deferralTrack,       \* the node's quarantine rows, in order
  parkRegister,        \* the node's rows in the state's park register
  dispositionRegister, \* the node's disposition sign-offs
  archRatified,        \* isArchRatified(state, n)
  lastVerdict          \* history: what the last verdict said, of which artifact

artifactVars == <<generation, syntaxAttempts, verdictGreen, verdictProvisional,
                  lastVerdict>>
registerVars == <<deferralTrack, parkRegister, dispositionRegister>>
vars == <<status, indegree, cycle, artifactVars, registerVars,
          archRatified>>

Verdicts == {"none", "pass", "fail"}
Verdict(passed) == IF passed THEN "pass" ELSE "fail"

TypeOK ==
  /\ status \in [Node -> Statuses]
  /\ indegree \in [Node -> Int]
  /\ cycle \in [Node -> 0..MaxPhaseRetryCycles]
  /\ syntaxAttempts \in [Node -> Nat]
  /\ generation \in [Node -> 0..MaxGeneration]
  /\ verdictGreen \in [Node -> Verdicts]
  /\ verdictProvisional \in [Node -> Verdicts]
  /\ deferralTrack \in [Node -> Seq(BlockReasons)]
  /\ parkRegister \in [Node -> Seq(BlockReasons)]
  /\ dispositionRegister \in [Node -> Seq(DispositionTerminals)]
  /\ archRatified \in [Node -> BOOLEAN]
  /\ lastVerdict \in [Node -> [artifact : 0..MaxGeneration, said : Verdicts]]

(***************************************************************************)
(* initRun(plan).  No contract is ratified before the arch gate ran.       *)
(***************************************************************************)
Init ==
  /\ status = [n \in Node |-> "PENDING"]
  /\ indegree = [n \in Node |-> Cardinality(Deps[n])]
  /\ cycle = [n \in Node |-> 0]
  /\ syntaxAttempts = [n \in Node |-> 0]
  /\ generation = [n \in Node |-> 0]
  /\ verdictGreen = [n \in Node |-> "none"]
  /\ verdictProvisional = [n \in Node |-> "none"]
  /\ deferralTrack = [n \in Node |-> <<>>]
  /\ parkRegister = [n \in Node |-> <<>>]
  /\ dispositionRegister = [n \in Node |-> <<>>]
  /\ archRatified = [n \in Node |-> FALSE]
  /\ lastVerdict = [n \in Node |-> [artifact |-> 0, said |-> "none"]]

-------------------------------------------------------------------------------
\* The gates shared by the verbs.

BuildableVariant(n) == Disposition[n] # "seal"

Buildable(n) == Disposition[n] \notin NonBuildDispositions

ArchClear(n) == Disposition[n] \in ArchGatedDispositions => archRatified[n]

MayDispatchVariant(n) ==          \* readiness not checked again
  /\ parkRegister[n] = <<>>
  /\ Disposition[n] # "retire" => n \notin Sealed /\ Buildable(n)
  /\ ArchClear(n)

\* A sealed node, and one that is never built, do not enter; a node to retire
\* does, because RETIRED is reached from GROUNDED.
MayDispatch(n) ==
  /\ indegree[n] = 0
  /\ parkRegister[n] = <<>>
  /\ Disposition[n] # "retire" => n \notin Sealed /\ Buildable(n)
  /\ ArchClear(n)

VoidVerdictsVariant(n) ==         \* the live verdict survives a regeneration
  /\ verdictProvisional' = [verdictProvisional EXCEPT ![n] = "none"]
  /\ UNCHANGED verdictGreen

\* A verdict recorded for the node no longer counts.
VoidVerdicts(n) ==
  /\ verdictGreen' = [verdictGreen EXCEPT ![n] = "none"]
  /\ verdictProvisional' = [verdictProvisional EXCEPT ![n] = "none"]

\* Every entry to GENERATED is a new artifact: it voids what was recorded of
\* the one before, and starts with the given count of failed self-checks.
NewArtifact(n, attempts) ==
  /\ generation[n] < MaxGeneration
  /\ generation' = [generation EXCEPT ![n] = @ + 1]
  /\ VoidVerdicts(n)
  /\ syntaxAttempts' = [syntaxAttempts EXCEPT ![n] = attempts]

\* setStatus: a checked move, with the retry count and the new artifact.
SetStatus(n, to, reason) ==
  /\ CanTransition(status[n], to, cycle[n], reason)
  /\ status' = [status EXCEPT ![n] = to]
  /\ cycle' = [cycle EXCEPT ![n] = IF IsRetry(status[n], to) THEN @ + 1 ELSE @]

ReleaseDependentsVariant(n) ==    \* only a green outcome releases
  indegree' = [m \in Node |-> IF n \in Deps[m] /\ verdictGreen[n] = "pass"
                              THEN indegree[m] - 1 ELSE indegree[m]]

\* A resolved dependency stops blocking every node that depended on it.
ReleaseDependents(n) ==
  indegree' = [m \in Node |-> IF n \in Deps[m] THEN indegree[m] - 1
                              ELSE indegree[m]]

-------------------------------------------------------------------------------
\* The lifecycle verbs.

\* dispatch: hand a ready node to its driver.
Dispatch(n) ==
  /\ MayDispatch(n)
  /\ SetStatus(n, "GROUNDED", "none")
  /\ UNCHANGED <<indegree, artifactVars, registerVars, archRatified>>

\* applyProgress: a phase move.  Grounding and the terminals have verbs of
\* their own, and the move back to PENDING is ReEnter.
Progress(n, to) ==
  /\ to \in ActiveStates \ {"PENDING", "GROUNDED"}
  /\ Buildable(n)
  /\ ArchClear(n)
  /\ SetStatus(n, to, "none")
  /\ IF to = "GENERATED" THEN NewArtifact(n, 0) /\ UNCHANGED lastVerdict
                         ELSE UNCHANGED artifactVars
  /\ UNCHANGED <<indegree, registerVars, archRatified>>

ReEnterVariant(n) ==              \* the quarantine row is left behind
  /\ status[n] \in {"PARK", "NEEDS_MANUAL_SEAM"}
  /\ SetStatus(n, "PENDING", "none")
  /\ VoidVerdicts(n)
  /\ syntaxAttempts' = [syntaxAttempts EXCEPT ![n] = 0]
  /\ parkRegister' = [parkRegister EXCEPT ![n] = <<>>]
  /\ UNCHANGED <<indegree, generation, lastVerdict, deferralTrack,
                 dispositionRegister, archRatified>>

\* applyProgress(PENDING): the successor shipped, or the callers are confirmed.
ReEnter(n) ==
  /\ status[n] \in {"PARK", "NEEDS_MANUAL_SEAM"}
  /\ SetStatus(n, "PENDING", "none")
  /\ VoidVerdicts(n)
  /\ syntaxAttempts' = [syntaxAttempts EXCEPT ![n] = 0]
  /\ parkRegister' = [parkRegister EXCEPT ![n] = <<>>]
  /\ deferralTrack' = [deferralTrack EXCEPT ![n] = <<>>]
  /\ UNCHANGED <<indegree, generation, lastVerdict, dispositionRegister, archRatified>>

\* applyOutcome(GREEN): earned by a recorded verdict.
Green(n) ==
  /\ verdictGreen[n] = "pass"
  /\ SetStatus(n, "GREEN", "none")
  /\ ReleaseDependents(n)
  /\ UNCHANGED <<artifactVars, registerVars, archRatified>>

\* applyOutcome(BLOCK): quarantine.
Block(n, reason) ==
  /\ SetStatus(n, "BLOCK", reason)
  /\ deferralTrack' = [deferralTrack EXCEPT ![n] = Append(@, reason)]
  /\ UNCHANGED <<indegree, artifactVars, parkRegister, dispositionRegister,
                 archRatified>>

\* applyOutcome(PARK), signed: the reason checked is the caller's.
Park(n, reason) ==
  /\ SetStatus(n, "PARK", reason)
  /\ parkRegister' = [parkRegister EXCEPT ![n] = Append(@, reason)]
  /\ UNCHANGED <<indegree, artifactVars, deferralTrack, dispositionRegister,
                 archRatified>>

\* applyOutcome(NEEDS_MANUAL_SEAM).
Seam(n) ==
  /\ SetStatus(n, "NEEDS_MANUAL_SEAM", "none")
  /\ UNCHANGED <<indegree, artifactVars, registerVars, archRatified>>

\* assertDispositionTerminal, and applyOutcome(RETIRED | REBUILT_HANDOFF),
\* signed: the run completes on this node without a green verdict.
MayResolveUnbuilt(n, terminal) ==
  /\ verdictGreen[n] # "fail"
  /\ verdictProvisional[n] # "fail"
  /\ Disposition[n] = DispositionOf(terminal)

ResolveUnbuilt(n, terminal) ==
  /\ MayResolveUnbuilt(n, terminal)
  /\ SetStatus(n, terminal, "none")
  /\ ReleaseDependents(n)
  /\ dispositionRegister' = [dispositionRegister EXCEPT ![n] = Append(@, terminal)]
  /\ UNCHANGED <<artifactVars, deferralTrack, parkRegister, archRatified>>

-------------------------------------------------------------------------------
\* The record verbs, each at its checkpoint only.

\* History: what was said, of which artifact.
Judge(n, said) ==
  lastVerdict' = [lastVerdict EXCEPT ![n] = [artifact |-> generation[n], said |-> said]]

RecordVerdict(n, passed) ==
  /\ status[n] = "GATED"
  /\ verdictGreen' = [verdictGreen EXCEPT ![n] = Verdict(passed)]
  /\ Judge(n, Verdict(passed))
  /\ UNCHANGED <<status, indegree, cycle, generation, syntaxAttempts,
                 verdictProvisional, registerVars, archRatified>>

RecordProvisionalVerdict(n, passed) ==
  /\ status[n] = "PROVISIONAL_GATED"
  /\ verdictProvisional' = [verdictProvisional EXCEPT ![n] = Verdict(passed)]
  /\ Judge(n, Verdict(passed))
  /\ UNCHANGED <<status, indegree, cycle, generation, syntaxAttempts,
                 verdictGreen, registerVars, archRatified>>

-------------------------------------------------------------------------------
\* The arch gate, seen from the scheduler: an approval, or a rejection, a
\* refinement or a changed contract, makes isArchRatified true or false.
SetArchRatified(n, to) ==
  /\ Disposition[n] \in ArchGatedDispositions
  /\ archRatified' = [archRatified EXCEPT ![n] = to]
  /\ UNCHANGED <<status, indegree, cycle, artifactVars, registerVars>>

-------------------------------------------------------------------------------
\* The steps of applyOutcome.
Outcome(n) ==
  \/ Green(n)
  \/ \E reason \in BlockReasons : Block(n, reason)
  \/ \E reason \in BlockReasons : Park(n, reason)
  \/ Seam(n)
  \/ \E terminal \in DispositionTerminals : ResolveUnbuilt(n, terminal)

\* The other verbs.
OtherVerb(n) ==
  \/ Dispatch(n)
  \/ \E to \in Statuses : Progress(n, to)
  \/ ReEnter(n)
  \/ \E passed \in BOOLEAN : RecordVerdict(n, passed)
  \/ \E passed \in BOOLEAN : RecordProvisionalVerdict(n, passed)
  \/ \E to \in BOOLEAN : SetArchRatified(n, to)

NodeStep(n) == Outcome(n) \/ OtherVerb(n)

Next == \E n \in Node : NodeStep(n)

Spec == Init /\ [][Next]_vars
-------------------------------------------------------------------------------
\* What the reducer promises.

Resolved(n) == status[n] \in RunCompleteTerminals

\* Statuses a node can only have after it was dispatched.
Entered(n) == status[n] \notin {"PENDING", "BLOCK", "PARK", "NEEDS_MANUAL_SEAM"}

(***************************************************************************)
(* The readiness counter of a node is the number of its dependencies that  *)
(* are not resolved, whatever detour (quarantine, park, re-entry, a second *)
(* walk) each of them took: no terminal is counted twice or forgotten.     *)
(***************************************************************************)
IndegreeCoherent ==
  \A n \in Node : indegree[n] = Cardinality({d \in Deps[n] : ~ Resolved(d)})

(***************************************************************************)
(* A node that entered the lifecycle, and one that completed, has a closure *)
(* that is resolved, now and not only when it was dispatched.              *)
(***************************************************************************)
ClosureResolved ==
  \A n \in Node : Entered(n) => \A d \in Deps[n] : Resolved(d)

(***************************************************************************)
(* GREEN is earned: the last verdict recorded for a GREEN node passed, and *)
(* it judged the artifact the node has now, not one it had before a retry  *)
(* or a re-entry.                                                          *)
(***************************************************************************)
GreenEarned ==
  \A n \in Node : status[n] = "GREEN" =>
    /\ generation[n] > 0
    /\ lastVerdict[n] = [artifact |-> generation[n], said |-> "pass"]

(***************************************************************************)
(* The registers of live state agree with the statuses: one quarantine row *)
(* exactly while a node is blocked or parked, one park row exactly while   *)
(* it is parked, one sign-off exactly when it was retired or handed off,   *)
(* so that a node never re-enters with a row left behind nor is parked or  *)
(* dropped off the record.                                                 *)
(***************************************************************************)
RegistersMatchStatus ==
  \A n \in Node :
    /\ Len(deferralTrack[n]) = IF status[n] \in {"BLOCK", "PARK"} THEN 1 ELSE 0
    /\ Len(parkRegister[n]) = IF status[n] = "PARK" THEN 1 ELSE 0
    /\ dispositionRegister[n] =
         IF status[n] \in DispositionTerminals THEN <<status[n]>> ELSE <<>>

(***************************************************************************)
(* A node that is to be retired or sealed, or whose callers are sealed, is *)
(* never built: no artifact is generated for it whichever verbs are used   *)
(* and however it is escalated and re-entered.                             *)
(***************************************************************************)
NeverBuilt ==
  \A n \in Node :
    n \in Sealed \/ ~ Buildable(n) => /\ generation[n] = 0
                                     /\ status[n] \notin RetryStates
                                     /\ status[n] # "GREEN"

(***************************************************************************)
(* A resolved node is final: no later step changes its status, its         *)
(* artifact, its verdicts or its sign-off, so what its dependents were     *)
(* released on stays true.                                                 *)
(***************************************************************************)
ResolvedIsFinal ==
  [][\A n \in Node : Resolved(n) =>
       /\ status'[n] = status[n]
       /\ generation'[n] = generation[n]
       /\ verdictGreen'[n] = verdictGreen[n]
       /\ verdictProvisional'[n] = verdictProvisional[n]
       /\ dispositionRegister'[n] = dispositionRegister[n]]_vars

-------------------------------------------------------------------------------
\* The promise to the callers: an implementation of RunContract.

Phase(n) ==
  CASE status[n] = "PENDING" -> "waiting"
    [] status[n] \in {"BLOCK", "PARK", "NEEDS_MANUAL_SEAM"} -> "held"
    [] Resolved(n) -> "done"
    [] OTHER -> "working"

phases == [n \in Node |-> Phase(n)]

Contract == INSTANCE RunContract WITH phase <- phases

(***************************************************************************)
(* Every verb starts, holds, readmits or finishes a node as RunContract    *)
(* allows, or leaves the phases alone: in particular the readiness counter *)
(* stands for the dependencies it counts.                                  *)
(***************************************************************************)
ImplementsContract == Contract!Spec

-------------------------------------------------------------------------------
\* What the repository says of the reducer, and the reducer does not do.

(***************************************************************************)
(* loop.js, applyProgress, lines 142 and 143: "voiding a ratification ...  *)
(* must stop a node already in flight, or the build continues and the run  *)
(* COMPLETES on architecture the human rejected".                          *)
(***************************************************************************)
ArchHonoured ==
  [][\A n \in Node : Resolved(n)' /\ ~ Resolved(n) => ArchClear(n)]_vars
===============================================================================
