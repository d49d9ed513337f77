------------------------------ MODULE SchedDriver ------------------------------
(***************************************************************************)
(* The deterministic driver of a run (moderniser/src/sched/drive.js): the  *)
(* next action it answers, and the reports through which it moves a node   *)
(* several reducer verbs at a time, each report one atomic step; with the  *)
(* frontier it offers (moderniser/src/sched/frontier.js).                  *)
(*                                                                         *)
(* The granular verbs of SchedLoop stay available beside the reports, as   *)
(* they do on the command line.                                            *)
(***************************************************************************)
EXTENDS SchedLoop, Frontier

CONSTANTS
  RiskOrder,       \* the nodes, worst debt first
  Key,             \* resources two nodes may share
  ConflictKeys,    \* ConflictKeys[n]: the resources n touches
  TeamSize         \* generator_team_size

ASSUME DriverAssumption ==
  /\ RiskOrder \in Seq(Node)
  /\ Len(RiskOrder) = Cardinality(Node)
  /\ \A n \in Node : \E i \in 1..Len(RiskOrder) : RiskOrder[i] = n
  /\ ConflictKeys \in [Node -> SUBSET Key]
  /\ TeamSize \in Nat \ {0}

\* The nodes are the components of the code, so no set of them waits only for
\* itself.
ASSUME AcyclicAssumption ==
  \A S \in SUBSET Node : S # {} => \E n \in S : Deps[n] \cap S = {}

-------------------------------------------------------------------------------
\* nextDispatch: what may enter, and the batch of it.

ReadyVariant ==           \* nodes that wait for ratification not left out
  {n \in Node : /\ status[n] = "PENDING"
                /\ indegree[n] = 0
                /\ n \notin Sealed
                /\ parkRegister[n] = <<>>
                /\ Buildable(n)}

Ready ==
  {n \in Node : /\ status[n] = "PENDING"
                /\ indegree[n] = 0
                /\ n \notin Sealed
                /\ parkRegister[n] = <<>>
                /\ Buildable(n)
                /\ ArchClear(n)}

\* refEdges(plan).
Edges == {e \in Node \X Node : e[1] \in Deps[e[2]]}

BatchVariant ==        \* nodes that wait for ratification dropped afterwards
  LET unratified == {n \in Node : /\ status[n] = "PENDING"
                                  /\ indegree[n] = 0
                                  /\ ~ ArchClear(n)}
  IN  NextFrontier(Ready \cup unratified, RiskOrder, Edges, ConflictKeys, TeamSize)
        \ unratified

Batch == NextFrontier(Ready, RiskOrder, Edges, ConflictKeys, TeamSize)

-------------------------------------------------------------------------------
\* What the driver looks at, and what it answers.

RestedVariant ==          \* the disposition terminals forgotten
  {"GREEN", "SYNTAX_OK", "PROVISIONAL_GATED", "BLOCK", "PARK", "NEEDS_MANUAL_SEAM"}

Rested ==
  {"GREEN", "SYNTAX_OK", "PROVISIONAL_GATED", "BLOCK", "PARK",
   "NEEDS_MANUAL_SEAM", "RETIRED", "REBUILT_HANDOFF"}

RunComplete == \A n \in Node : Resolved(n)

Retiring ==
  {n \in Node : /\ Disposition[n] = "retire"
                /\ status[n] \in {"PENDING", "GROUNDED"}
                /\ indegree[n] = 0}

AwaitingArchVariant ==    \* a ratification voided in flight not seen
  {n \in Node : ~ ArchClear(n) /\ status[n] = "PENDING" /\ indegree[n] = 0}

\* Could move, but for a ratification that is missing or was voided.
AwaitingArch ==
  {n \in Node : /\ ~ ArchClear(n)
                /\ IF status[n] = "PENDING" THEN indegree[n] = 0
                   ELSE status[n] \in ActiveStates \ Rested}

Seamed ==
  {n \in Node : \/ status[n] = "NEEDS_MANUAL_SEAM"
                \/ /\ n \in Sealed \/ Disposition[n] = "seal"
                   /\ status[n] = "PENDING"}

AwaitingAttestation ==
  {n \in Node : status[n] = "PROVISIONAL_GATED" /\ verdictProvisional[n] = "fail"}

HumanGatedVariant ==      \* a failed verdict at rest not seen as a gate
  {n \in Node : parkRegister[n] # <<>>} \cup Seamed

HumanGated ==
  {n \in Node : parkRegister[n] # <<>>} \cup Seamed \cup AwaitingAttestation

Starved(n) == status[n] = "PENDING" /\ indegree[n] > 0

Wedged == {n \in Node : status[n] \notin Rested /\ ~ Starved(n)}

Answer(action, nodes) == [action |-> action, nodes |-> nodes]

\* driveDecision(plan, state).
Decision ==
  IF RunComplete THEN Answer("complete", {})
  ELSE IF Retiring # {} THEN Answer("retire", Retiring)
  ELSE IF Batch # {} THEN Answer("generate", Batch)
  ELSE IF AwaitingArch # {} THEN Answer("await_human", AwaitingArch)
  ELSE IF HumanGated # {} THEN Answer("await_human", HumanGated)
  ELSE IF Wedged = {} THEN Answer("provisional_complete", {})
  ELSE Answer("blocked", Wedged)

-------------------------------------------------------------------------------
\* The reports.

\* ensureGenerated: dispatch and generate what is not generated yet.
Ungenerated(n) == status[n] \in {"PENDING", "GROUNDED"}
MayGenerate(n) ==
  /\ status[n] = "PENDING" => MayDispatch(n)
  /\ Ungenerated(n) => Buildable(n) /\ ArchClear(n)

\* syntax_ok: bring the node to SYNTAX_OK from wherever it was before it.
ReportSyntaxOk(n) ==
  /\ Ungenerated(n) \/ status[n] = "GENERATED"
  /\ MayGenerate(n)
  /\ Buildable(n)
  /\ ArchClear(n)
  /\ status' = [status EXCEPT ![n] = "SYNTAX_OK"]
  /\ IF Ungenerated(n) THEN NewArtifact(n, 0) /\ UNCHANGED lastVerdict
                       ELSE UNCHANGED artifactVars
  /\ UNCHANGED <<indegree, cycle, registerVars, archRatified>>

\* A failed attempt, counted against the artifact the node has or now gets.
CountFailure(n) ==
  /\ IF Ungenerated(n)
     THEN NewArtifact(n, syntaxAttempts[n] + 1)
     ELSE /\ syntaxAttempts' = [syntaxAttempts EXCEPT ![n] = @ + 1]
          /\ UNCHANGED <<generation, verdictGreen, verdictProvisional>>
  /\ UNCHANGED lastVerdict

ReportSyntaxFailVariant(n) ==    \* one attempt too many
  /\ syntaxAttempts[n] < MaxPhaseRetryCycles
  /\ MayGenerate(n)
  /\ CountFailure(n)
  /\ status' = [status EXCEPT ![n] = IF Ungenerated(n) THEN "GENERATED" ELSE @]
  /\ UNCHANGED <<indegree, cycle, registerVars, archRatified>>

\* syntax_fail or generator_error below the ceiling: the answer is to
\* generate the node again, and a node that was generated stays where it is.
ReportSyntaxFail(n) ==
  /\ syntaxAttempts[n] + 1 < MaxPhaseRetryCycles
  /\ MayGenerate(n)
  /\ CountFailure(n)
  /\ status' = [status EXCEPT ![n] = IF Ungenerated(n) THEN "GENERATED" ELSE @]
  /\ UNCHANGED <<indegree, cycle, registerVars, archRatified>>

\* The same at the ceiling: quarantine.
ReportSyntaxCeiling(n) ==
  /\ syntaxAttempts[n] + 1 >= MaxPhaseRetryCycles
  /\ MayGenerate(n)
  /\ CountFailure(n)
  /\ SetStatus(n, "BLOCK", Defect)
  /\ deferralTrack' = [deferralTrack EXCEPT ![n] = Append(@, Defect)]
  /\ UNCHANGED <<indegree, parkRegister, dispositionRegister, archRatified>>

AtOfflineCheckpointVariant(n) ==  \* late verdicts taken
  \/ status[n] \in {"PROVISIONAL_GATED", "REBUILT_HANDOFF"}
  \/ status[n] = "SYNTAX_OK" /\ Buildable(n) /\ ArchClear(n)

\* driveOfflineVerdict, first part: to the offline checkpoint and judged.
AtOfflineCheckpoint(n) ==
  \/ status[n] = "PROVISIONAL_GATED"
  \/ status[n] = "SYNTAX_OK" /\ Buildable(n) /\ ArchClear(n)

\* A pass, and a failure that only a person's attestation can clear: the node
\* rests at the checkpoint with its retry budget untouched.
ReportOfflineVerdict(n, passed) ==
  /\ AtOfflineCheckpoint(n)
  /\ Judge(n, Verdict(passed))
  /\ status' = [status EXCEPT ![n] = "PROVISIONAL_GATED"]
  /\ verdictProvisional' = [verdictProvisional EXCEPT ![n] = Verdict(passed)]
  /\ UNCHANGED <<indegree, cycle, generation, syntaxAttempts, verdictGreen,
                 registerVars, archRatified>>

ReportOfflineDefectVariant(n) ==   \* one retry too many
  /\ AtOfflineCheckpoint(n)
  /\ cycle[n] <= MaxPhaseRetryCycles
  /\ Buildable(n)
  /\ ArchClear(n)
  /\ Judge(n, "fail")
  /\ status' = [status EXCEPT ![n] = "GENERATED"]
  /\ cycle' = [cycle EXCEPT ![n] = @ + 1]
  /\ NewArtifact(n, 0)
  /\ UNCHANGED <<indegree, registerVars, archRatified>>

ReportOfflineDefectUncounted(n) == \* the status is set, the retry not counted
  /\ AtOfflineCheckpoint(n)
  /\ Judge(n, "fail")
  /\ status' = [status EXCEPT ![n] = "GENERATED"]
  /\ VoidVerdicts(n)
  /\ UNCHANGED <<indegree, cycle, generation, syntaxAttempts, registerVars,
                 archRatified>>

\* A defect below the ceiling: regenerate.
ReportOfflineDefect(n) ==
  /\ AtOfflineCheckpoint(n)
  /\ cycle[n] < MaxPhaseRetryCycles
  /\ Buildable(n)
  /\ ArchClear(n)
  /\ Judge(n, "fail")
  /\ status' = [status EXCEPT ![n] = "GENERATED"]
  /\ cycle' = [cycle EXCEPT ![n] = @ + 1]
  /\ NewArtifact(n, 0)
  /\ UNCHANGED <<indegree, registerVars, archRatified>>

\* A defect at the ceiling: quarantine with the failing verdict on record.
ReportOfflineCeiling(n) ==
  /\ AtOfflineCheckpoint(n)
  /\ cycle[n] >= MaxPhaseRetryCycles
  /\ Judge(n, "fail")
  /\ verdictProvisional' = [verdictProvisional EXCEPT ![n] = "fail"]
  /\ status' = [status EXCEPT ![n] = "BLOCK"]
  /\ deferralTrack' = [deferralTrack EXCEPT ![n] = Append(@, Defect)]
  /\ UNCHANGED <<indegree, cycle, generation, syntaxAttempts, verdictGreen,
                 parkRegister, dispositionRegister, archRatified>>

-------------------------------------------------------------------------------
\* The reports that quarantine the node, by way of applyOutcome.
CeilingReport(n) == ReportSyntaxCeiling(n) \/ ReportOfflineCeiling(n)

OtherReport(n) ==
  \/ ReportSyntaxOk(n)
  \/ ReportSyntaxFail(n)
  \/ \E passed \in BOOLEAN : ReportOfflineVerdict(n, passed)
  \/ ReportOfflineDefect(n)

Report(n) == CeilingReport(n) \/ OtherReport(n)

DriveNext == \E n \in Node : NodeStep(n) \/ Report(n)

DriveSpec == Init /\ [][DriveNext]_vars
-------------------------------------------------------------------------------
\* What the driver promises.

(***************************************************************************)
(* What the driver asks for is accepted by the verbs that do it, node by   *)
(* node in any order: a node to generate may be reported, a node to retire *)
(* may be dispatched or, once grounded, retired.                           *)
(***************************************************************************)
OfferIsAccepted ==
  /\ Decision.action = "generate" => \A n \in Decision.nodes : MayGenerate(n)
  /\ Decision.action = "retire" => \A n \in Decision.nodes :
       /\ status[n] = "PENDING" => MayDispatch(n)
       /\ MayResolveUnbuilt(n, "RETIRED")

(***************************************************************************)
(* The run does not wait for a person while some node could be dispatched  *)
(* and generated, whatever the team size and the nodes that cannot run,    *)
(* and does not call itself wedged while a person is waited for.           *)
(***************************************************************************)
WorkFirst ==
  /\ (\E n \in Node : status[n] = "PENDING" /\ MayGenerate(n)) => Decision.action \in {"generate", "retire"}
  /\ Decision.action = "blocked" => HumanGated = {} /\ AwaitingArch = {}

(***************************************************************************)
(* provisional_complete means that the driver has nothing left to hand out *)
(* and nobody left to ask: no node is being generated, none rests on a     *)
(* failed verdict or waits for a person, and each node that never entered  *)
(* waits, perhaps through others, for one that is quarantined or rests at  *)
(* an offline state: a set of nodes with which all nodes are that its      *)
(* members wait for and that never entered either, leads to such a one.    *)
(* It does NOT mean that what rests was judged: SYNTAX_OK, a draft without *)
(* a verdict, is a rest state of the code, and so is the checkpoint        *)
(* without a verdict.  What the guide says of that is CompletionIsJudged   *)
(* (module OfflineLane), which the code refutes.                           *)
(***************************************************************************)
AtRestOffline(n) ==
  \/ status[n] \in {"SYNTAX_OK", "BLOCK"}
  \/ status[n] = "PROVISIONAL_GATED" /\ verdictProvisional[n] # "fail"

ClosedUnderWaiting(S) == \A m \in S : {d \in Deps[m] : status[d] = "PENDING"} \subseteq S

CompletionAtRest ==
  Decision.action = "provisional_complete" =>
    \A n \in Node :
      \/ Resolved(n) \/ AtRestOffline(n)
      \/ /\ status[n] = "PENDING"
         /\ \A S \in SUBSET Node :
              n \in S /\ ClosedUnderWaiting(S) => \E m \in S, d \in Node : d \in Deps[m] /\ AtRestOffline(d)

(***************************************************************************)
(* The syntax ceiling: no more failed attempts are counted than the        *)
(* ceiling allows, and a node that reached it is in quarantine, or parked  *)
(* from there, until it re-enters with a fresh count.                      *)
(***************************************************************************)
SyntaxCeiling ==
  \A n \in Node :
    /\ syntaxAttempts[n] <= MaxPhaseRetryCycles
    /\ syntaxAttempts[n] = MaxPhaseRetryCycles => status[n] \in {"BLOCK", "PARK"}

(***************************************************************************)
(* What is on record about a node is of the artifact it has now: no verdict *)
(* outlives the artifact it judged, an offline verdict stays only while the *)
(* node rests on it or was handed off or escalated with it, and the live   *)
(* and the offline book never both hold a verdict of one node.             *)
(***************************************************************************)
VerdictsAreCurrent ==
  \A n \in Node :
    /\ verdictGreen[n] # "none" \/ verdictProvisional[n] # "none" =>
         lastVerdict[n].artifact = generation[n]
    /\ verdictGreen[n] # "none" => status[n] \in
         {"GATED", "GREEN", "REBUILT_HANDOFF", "BLOCK", "PARK", "NEEDS_MANUAL_SEAM"}
    /\ verdictProvisional[n] # "none" => status[n] \in
         {"PROVISIONAL_GATED", "REBUILT_HANDOFF", "BLOCK", "PARK", "NEEDS_MANUAL_SEAM"}
    /\ verdictGreen[n] = "none" \/ verdictProvisional[n] = "none"

(***************************************************************************)
(* The books on a node are of its present attempt: the failures counted    *)
(* and the verdicts recorded.                                              *)
(***************************************************************************)
BooksAreCurrent ==
  /\ SyntaxCeiling
  /\ VerdictsAreCurrent
===============================================================================
