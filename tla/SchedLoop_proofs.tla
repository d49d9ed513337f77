---------------------------- MODULE SchedLoop_proofs ----------------------------
(***************************************************************************)
(* Proofs about the reducer: its type invariant and its safety invariants  *)
(* hold for every plan, every retry ceiling and every bound on artifacts.  *)
(***************************************************************************)
EXTENDS SchedLoop, FiniteSetTheorems, SequenceTheorems, TLAPS

-------------------------------------------------------------------------------
\* Type correctness.

\* A checked move keeps the types of what it changes.
LEMMA SetStatusType ==
  ASSUME TypeOK, NEW n \in Node, NEW to \in Statuses, NEW reason,
         SetStatus(n, to, reason)
  PROVE  /\ status' \in [Node -> Statuses]
         /\ cycle' \in [Node -> 0..MaxPhaseRetryCycles]
<1>1. IsRetry(status[n], to) => cycle[n] < MaxPhaseRetryCycles
  BY DEF SetStatus, CanTransition, IsRetry, RetryStates, Forward
<1> QED
  BY <1>1, MaxPhaseRetryCyclesAssumption DEF TypeOK, SetStatus

\* So does a new artifact, within the bound on artifacts.
LEMMA NewArtifactType ==
  ASSUME TypeOK, NEW n \in Node, NEW attempts \in Nat, NewArtifact(n, attempts)
  PROVE  /\ generation' \in [Node -> 0..MaxGeneration]
         /\ syntaxAttempts' \in [Node -> Nat]
         /\ verdictGreen' \in [Node -> Verdicts]
         /\ verdictProvisional' \in [Node -> Verdicts]
BY PlanAssumption DEF TypeOK, NewArtifact, VoidVerdicts, Verdicts

\* And releasing the dependents.
LEMMA ReleaseType ==
  ASSUME TypeOK, NEW n \in Node, ReleaseDependents(n)
  PROVE  indegree' \in [Node -> Int]
BY DEF TypeOK, ReleaseDependents

\* And judging the artifact.
LEMMA JudgeType ==
  ASSUME TypeOK, NEW n \in Node, NEW said \in Verdicts, Judge(n, said)
  PROVE  lastVerdict' \in [Node -> [artifact : 0..MaxGeneration, said : Verdicts]]
BY DEF TypeOK, Judge

\* A row added to, and the rows removed from, a register of rows per node.
LEMMA AddRow ==
  ASSUME NEW S, NEW register \in [Node -> Seq(S)], NEW n \in Node, NEW row \in S
  PROVE  [register EXCEPT ![n] = Append(@, row)] \in [Node -> Seq(S)]
<1>1. Append(register[n], row) \in Seq(S)
  BY AppendProperties
<1> QED
  BY <1>1

\* Emptying it.
LEMMA ClearRows ==
  ASSUME NEW S, NEW register \in [Node -> Seq(S)], NEW n \in Node
  PROVE  [register EXCEPT ![n] = <<>>] \in [Node -> Seq(S)]
<1>1. <<>> \in Seq(S)
  BY EmptySeq
<1> QED
  BY <1>1

\* One verb of one node keeps the types.
LEMMA NodeStepType ==
  ASSUME TypeOK, NEW n \in Node, NodeStep(n)
  PROVE  TypeOK'
<1> USE DEF registerVars, artifactVars
<1>1. CASE Dispatch(n)
  BY <1>1, SetStatusType DEF Dispatch, TypeOK, Statuses, ActiveStates
<1>2. ASSUME NEW to \in Statuses, Progress(n, to) PROVE TypeOK'
  <2>1. CASE to = "GENERATED"
    BY <1>2, <2>1, SetStatusType, NewArtifactType DEF Progress, TypeOK
  <2>2. CASE to # "GENERATED"
    BY <1>2, <2>2, SetStatusType DEF Progress, TypeOK
  <2> QED BY <2>1, <2>2
<1>3. CASE ReEnter(n)
  <2>1. /\ parkRegister' \in [Node -> Seq(BlockReasons)]
        /\ deferralTrack' \in [Node -> Seq(BlockReasons)]
    BY <1>3, ClearRows DEF ReEnter, TypeOK
  <2> QED
    BY <1>3, <2>1, SetStatusType
       DEF ReEnter, VoidVerdicts, Verdicts, TypeOK, Statuses, ActiveStates
<1>4. CASE Green(n)
  BY <1>4, SetStatusType, ReleaseType DEF Green, TypeOK, Statuses, TerminalOutcomes
<1>5. ASSUME NEW reason \in BlockReasons, Block(n, reason) PROVE TypeOK'
  <2>1. deferralTrack' \in [Node -> Seq(BlockReasons)]
    BY <1>5, AddRow DEF Block, TypeOK
  <2> QED
    BY <1>5, <2>1, SetStatusType DEF Block, TypeOK, Statuses, TerminalOutcomes
<1>6. ASSUME NEW reason \in BlockReasons, Park(n, reason) PROVE TypeOK'
  <2>1. parkRegister' \in [Node -> Seq(BlockReasons)]
    BY <1>6, AddRow DEF Park, TypeOK
  <2> QED
    BY <1>6, <2>1, SetStatusType DEF Park, TypeOK, Statuses, TerminalOutcomes
<1>7. CASE Seam(n)
  BY <1>7, SetStatusType DEF Seam, TypeOK, Statuses, TerminalOutcomes
<1>8. ASSUME NEW terminal \in DispositionTerminals, ResolveUnbuilt(n, terminal)
      PROVE  TypeOK'
  <2>1. dispositionRegister' \in [Node -> Seq(DispositionTerminals)]
    BY <1>8, AddRow DEF ResolveUnbuilt, TypeOK
  <2> QED
    BY <1>8, <2>1, SetStatusType, ReleaseType
       DEF ResolveUnbuilt, TypeOK, Statuses, TerminalOutcomes, DispositionTerminals
<1>9. ASSUME NEW passed \in BOOLEAN, RecordVerdict(n, passed) PROVE TypeOK'
  BY <1>9, JudgeType DEF RecordVerdict, TypeOK, Verdict, Verdicts
<1>10. ASSUME NEW passed \in BOOLEAN, RecordProvisionalVerdict(n, passed)
       PROVE  TypeOK'
  BY <1>10, JudgeType DEF RecordProvisionalVerdict, TypeOK, Verdict, Verdicts
<1>11. ASSUME NEW to \in BOOLEAN, SetArchRatified(n, to) PROVE TypeOK'
  BY <1>11 DEF SetArchRatified, TypeOK
<1> QED
  BY <1>1, <1>2, <1>3, <1>4, <1>5, <1>6, <1>7, <1>8, <1>9, <1>10, <1>11
     DEF NodeStep, Outcome, OtherVerb

\* The types hold at the start.
LEMMA InitType == Init => TypeOK
<1> SUFFICES ASSUME Init PROVE TypeOK
  OBVIOUS
<1>1. \A n \in Node : Cardinality(Deps[n]) \in Int
  BY PlanAssumption, FS_Subset, FS_CardinalityType
<1> QED
  BY <1>1, PlanAssumption, MaxPhaseRetryCyclesAssumption DEF Init, TypeOK, Statuses, ActiveStates, Verdicts

\* The types hold in every reachable state.
THEOREM TypeCorrect == Spec => []TypeOK
<1>1. TypeOK /\ [Next]_vars => TypeOK'
  <2>1. TypeOK /\ UNCHANGED vars => TypeOK'
    BY DEF TypeOK, vars, artifactVars, registerVars
  <2> QED
    BY <2>1, NodeStepType DEF Next
<1> QED
  BY <1>1, InitType, PTL DEF Spec

-------------------------------------------------------------------------------
\* The inductive invariant: what is true of each node by itself, and the
\* readiness counters, which relate the nodes.

\* The statuses with an artifact, and the ones a live verdict survives to.
BuiltStates ==
  {"GENERATED", "SYNTAX_OK", "PUSHED", "ACTIVATED", "GATED",
   "PROVISIONAL_GATED", "GREEN"}
JudgedStates ==
  {"GATED", "GREEN", "REBUILT_HANDOFF", "BLOCK", "PARK", "NEEDS_MANUAL_SEAM"}

VerdictInv(n) ==
  /\ verdictGreen[n] # "none" =>
       /\ status[n] \in JudgedStates
       /\ lastVerdict[n] = [artifact |-> generation[n], said |-> verdictGreen[n]]
  /\ status[n] \in BuiltStates => generation[n] > 0
  /\ status[n] = "GREEN" => verdictGreen[n] = "pass"

RegisterInv(n) ==
  /\ deferralTrack[n] = <<>> \/ Len(deferralTrack[n]) = 1
  /\ deferralTrack[n] = <<>> <=> status[n] \notin {"BLOCK", "PARK"}
  /\ parkRegister[n] = <<>> \/ Len(parkRegister[n]) = 1
  /\ parkRegister[n] = <<>> <=> status[n] # "PARK"
  /\ dispositionRegister[n] =
       IF status[n] \in DispositionTerminals THEN <<status[n]>> ELSE <<>>

UnbuiltInv(n) ==
  n \in Sealed \/ ~ Buildable(n) =>
    /\ generation[n] = 0
    /\ \/ status[n] \in {"PENDING", "BLOCK", "PARK", "NEEDS_MANUAL_SEAM"}
       \/ Disposition[n] = "retire" /\ status[n] \in {"GROUNDED", "RETIRED"}

NodeInv == \A n \in Node : VerdictInv(n) /\ RegisterInv(n) /\ UnbuiltInv(n)

IInv == TypeOK /\ NodeInv /\ IndegreeCoherent /\ ClosureResolved

-------------------------------------------------------------------------------
\* What a checked move may be, read off the transition relation once.

LEMMA Moves ==
  ASSUME NEW n \in Node, NEW to, NEW reason, SetStatus(n, to, reason)
  PROVE  /\ status[n] \notin RunCompleteTerminals
         /\ to = "PENDING" => status[n] \in {"PARK", "NEEDS_MANUAL_SEAM"}
         /\ to = "GROUNDED" => status[n] = "PENDING"
         /\ to = "GENERATED" => status[n] \in RetryStates \cup {"GROUNDED"}
         /\ to \in BuiltStates \ {"GENERATED", "GREEN"} =>
              status[n] \in BuiltStates \ {"GATED", "PROVISIONAL_GATED", "GREEN"}
         /\ to = "GREEN" => status[n] = "GATED"
         /\ to = "RETIRED" => status[n] = "GROUNDED"
         /\ to = "REBUILT_HANDOFF" =>
              status[n] \in {"GROUNDED", "GATED", "PROVISIONAL_GATED"}
         /\ to \in {"BLOCK", "NEEDS_MANUAL_SEAM"} => status[n] \in ActiveStates
         /\ to = "PARK" => status[n] = "BLOCK"
BY DEF SetStatus, CanTransition, IsRetry, Forward, RetryStates, ActiveStates,
       RunCompleteTerminals, BuiltStates

\* A step of one node is invisible in every other node's own state.
LEMMA OthersKeep ==
  ASSUME TypeOK, NEW n \in Node, NodeStep(n), NEW m \in Node, m # n
  PROVE  /\ status'[m] = status[m]
         /\ cycle'[m] = cycle[m]
         /\ syntaxAttempts'[m] = syntaxAttempts[m]
         /\ generation'[m] = generation[m]
         /\ verdictGreen'[m] = verdictGreen[m]
         /\ verdictProvisional'[m] = verdictProvisional[m]
         /\ lastVerdict'[m] = lastVerdict[m]
         /\ deferralTrack'[m] = deferralTrack[m]
         /\ parkRegister'[m] = parkRegister[m]
         /\ dispositionRegister'[m] = dispositionRegister[m]
<1> USE DEF TypeOK, SetStatus, artifactVars, registerVars
<1>1. CASE Dispatch(n)
  BY <1>1 DEF Dispatch
<1>2. ASSUME NEW to \in Statuses, Progress(n, to)
      PROVE  /\ status'[m] = status[m]
             /\ cycle'[m] = cycle[m]
             /\ syntaxAttempts'[m] = syntaxAttempts[m]
             /\ generation'[m] = generation[m]
             /\ verdictGreen'[m] = verdictGreen[m]
             /\ verdictProvisional'[m] = verdictProvisional[m]
             /\ UNCHANGED <<lastVerdict, registerVars>>
  <2>1. status'[m] = status[m] /\ cycle'[m] = cycle[m] /\ UNCHANGED registerVars
    BY <1>2 DEF Progress
  <2>2. CASE to = "GENERATED"
    BY <1>2, <2>1, <2>2 DEF Progress, NewArtifact, VoidVerdicts
  <2>3. CASE to # "GENERATED"
    BY <1>2, <2>1, <2>3 DEF Progress
  <2> QED
    BY <2>2, <2>3
<1>3. CASE ReEnter(n)
  BY <1>3 DEF ReEnter, VoidVerdicts
<1>4. CASE Green(n)
  BY <1>4 DEF Green
<1>5. ASSUME NEW reason \in BlockReasons, Block(n, reason)
      PROVE  /\ status'[m] = status[m]
             /\ cycle'[m] = cycle[m]
             /\ deferralTrack'[m] = deferralTrack[m]
             /\ UNCHANGED <<artifactVars, parkRegister, dispositionRegister>>
  BY <1>5 DEF Block
<1>6. ASSUME NEW reason \in BlockReasons, Park(n, reason)
      PROVE  /\ status'[m] = status[m]
             /\ cycle'[m] = cycle[m]
             /\ parkRegister'[m] = parkRegister[m]
             /\ UNCHANGED <<artifactVars, deferralTrack, dispositionRegister>>
  BY <1>6 DEF Park
<1>7. CASE Seam(n)
  BY <1>7 DEF Seam
<1>8. ASSUME NEW terminal \in DispositionTerminals, ResolveUnbuilt(n, terminal)
      PROVE  /\ status'[m] = status[m]
             /\ cycle'[m] = cycle[m]
             /\ dispositionRegister'[m] = dispositionRegister[m]
             /\ UNCHANGED <<artifactVars, deferralTrack, parkRegister>>
  BY <1>8 DEF ResolveUnbuilt
<1>9. ASSUME NEW passed \in BOOLEAN,
             RecordVerdict(n, passed) \/ RecordProvisionalVerdict(n, passed)
      PROVE  /\ verdictGreen'[m] = verdictGreen[m]
             /\ verdictProvisional'[m] = verdictProvisional[m]
             /\ lastVerdict'[m] = lastVerdict[m]
             /\ UNCHANGED <<status, cycle, generation, syntaxAttempts, registerVars>>
  BY <1>9 DEF RecordVerdict, RecordProvisionalVerdict, Judge
<1>10. ASSUME NEW to \in BOOLEAN, SetArchRatified(n, to)
       PROVE  UNCHANGED <<status, cycle, artifactVars, registerVars>>
  BY <1>10 DEF SetArchRatified
<1> QED
  BY <1>1, <1>2, <1>3, <1>4, <1>5, <1>6, <1>7, <1>8, <1>9, <1>10
     DEF NodeStep, Outcome, OtherVerb

-------------------------------------------------------------------------------
\* The invariant of the node that steps.

\* The first row of a register is its only one.
LEMMA FirstRow ==
  ASSUME NEW S, NEW row \in S
  PROVE  /\ Append(<<>>, row) # <<>>
         /\ Len(Append(<<>>, row)) = 1
         /\ Append(<<>>, row) = <<row>>
<1>1. <<>> \in Seq(S) /\ Len(<<>>) = 0
  BY EmptySeq
<1>2. Append(<<>>, row) # <<>> /\ Len(Append(<<>>, row)) = 1
  BY <1>1, AppendProperties
<1>3. Append(<<>>, row) = <<row>>
  BY <1>1, AppendIsConcat, ConcatEmptySeq
<1> QED
  BY <1>2, <1>3

\* Verdicts: a regeneration and a re-entry void them, and they are recorded of
\* the artifact the node has.
LEMMA VerdictInvStep ==
  ASSUME TypeOK, NEW n \in Node, VerdictInv(n), NodeStep(n)
  PROVE  VerdictInv(n)'
<1> USE DEF TypeOK, VerdictInv, artifactVars, BuiltStates, JudgedStates
<1>1. CASE Dispatch(n)
  BY <1>1, Moves DEF Dispatch, SetStatus
<1>2. ASSUME NEW to \in Statuses, Progress(n, to) PROVE VerdictInv(n)'
  <2>1. CASE to = "GENERATED"
    BY <1>2, <2>1 DEF Progress, SetStatus, NewArtifact, VoidVerdicts
  <2>2. CASE to # "GENERATED"
    <3>1. to \in {"SYNTAX_OK", "PUSHED", "ACTIVATED", "GATED", "PROVISIONAL_GATED"}
      BY <1>2, <2>2 DEF Progress, ActiveStates
    <3>2. /\ status'[n] = to
          /\ UNCHANGED artifactVars
      BY <1>2, <2>2 DEF Progress, SetStatus
    <3>3. status[n] \in {"GENERATED", "SYNTAX_OK", "PUSHED", "ACTIVATED"}
      BY <1>2, <3>1, Moves DEF Progress
    <3> QED
      BY <3>1, <3>2, <3>3
  <2> QED
    BY <2>1, <2>2
<1>3. CASE ReEnter(n)
  BY <1>3 DEF ReEnter, SetStatus, VoidVerdicts
<1>4. CASE Green(n)
  BY <1>4, Moves DEF Green, SetStatus
<1>5. ASSUME NEW reason \in BlockReasons, Block(n, reason) PROVE VerdictInv(n)'
  BY <1>5 DEF Block, SetStatus
<1>6. ASSUME NEW reason \in BlockReasons, Park(n, reason) PROVE VerdictInv(n)'
  BY <1>6 DEF Park, SetStatus
<1>7. CASE Seam(n)
  BY <1>7 DEF Seam, SetStatus
<1>8. ASSUME NEW terminal \in DispositionTerminals, ResolveUnbuilt(n, terminal)
      PROVE  VerdictInv(n)'
  <2>1. UNCHANGED artifactVars /\ status'[n] = terminal
    BY <1>8 DEF ResolveUnbuilt, SetStatus
  <2>2. terminal = "RETIRED" => status[n] = "GROUNDED"
    BY <1>8, Moves DEF ResolveUnbuilt
  <2> QED
    BY <2>1, <2>2 DEF DispositionTerminals
<1>9. ASSUME NEW passed \in BOOLEAN, RecordVerdict(n, passed) PROVE VerdictInv(n)'
  BY <1>9 DEF RecordVerdict, Judge
<1>10. ASSUME NEW passed \in BOOLEAN, RecordProvisionalVerdict(n, passed)
       PROVE  VerdictInv(n)'
  BY <1>10 DEF RecordProvisionalVerdict, Judge
<1>11. ASSUME NEW to \in BOOLEAN, SetArchRatified(n, to) PROVE VerdictInv(n)'
  BY <1>11 DEF SetArchRatified
<1> QED
  BY <1>1, <1>2, <1>3, <1>4, <1>5, <1>6, <1>7, <1>8, <1>9, <1>10, <1>11
     DEF NodeStep, Outcome, OtherVerb

\* Registers: each row is written with the move it records, and re-entry
\* clears what it leaves.
LEMMA RegisterStep ==
  ASSUME TypeOK, NEW n \in Node, RegisterInv(n), NodeStep(n)
  PROVE  RegisterInv(n)'
<1> USE DEF TypeOK, RegisterInv, registerVars, DispositionTerminals
<1>1. CASE Dispatch(n)
  BY <1>1, Moves DEF Dispatch, SetStatus
<1>2. ASSUME NEW to \in Statuses, Progress(n, to) PROVE RegisterInv(n)'
  <2>1. /\ to \in {"GENERATED", "SYNTAX_OK", "PUSHED", "ACTIVATED", "GATED",
                   "PROVISIONAL_GATED"}
        /\ status'[n] = to
        /\ UNCHANGED registerVars
    BY <1>2 DEF Progress, SetStatus, ActiveStates
  <2>2. status[n] \in BuiltStates \cup RetryStates \cup {"GROUNDED"}
    BY <1>2, <2>1, Moves DEF Progress, BuiltStates
  <2> QED
    BY <2>1, <2>2 DEF BuiltStates, RetryStates
<1>3. CASE ReEnter(n)
  BY <1>3 DEF ReEnter, SetStatus
<1>4. CASE Green(n)
  BY <1>4, Moves DEF Green, SetStatus
<1>5. ASSUME NEW reason \in BlockReasons, Block(n, reason) PROVE RegisterInv(n)'
  <2>1. /\ status[n] \in ActiveStates /\ status'[n] = "BLOCK"
        /\ deferralTrack'[n] = Append(deferralTrack[n], reason)
        /\ UNCHANGED <<parkRegister, dispositionRegister>>
    BY <1>5, Moves DEF Block, SetStatus
  <2>2. deferralTrack[n] = <<>> /\ parkRegister[n] = <<>> /\ dispositionRegister[n] = <<>>
    BY <2>1 DEF ActiveStates
  <2> QED
    BY <2>1, <2>2, FirstRow
<1>6. ASSUME NEW reason \in BlockReasons, Park(n, reason) PROVE RegisterInv(n)'
  <2>1. /\ status[n] = "BLOCK" /\ status'[n] = "PARK"
        /\ parkRegister'[n] = Append(parkRegister[n], reason)
        /\ UNCHANGED <<deferralTrack, dispositionRegister>>
    BY <1>6, Moves DEF Park, SetStatus
  <2> QED
    BY <2>1, FirstRow
<1>7. CASE Seam(n)
  BY <1>7, Moves DEF Seam, SetStatus, ActiveStates
<1>8. ASSUME NEW terminal \in DispositionTerminals, ResolveUnbuilt(n, terminal)
      PROVE  RegisterInv(n)'
  <2>1. /\ status[n] \in {"GROUNDED", "GATED", "PROVISIONAL_GATED"}
        /\ status'[n] = terminal
        /\ dispositionRegister'[n] = Append(dispositionRegister[n], terminal)
        /\ UNCHANGED <<deferralTrack, parkRegister>>
    BY <1>8, Moves DEF ResolveUnbuilt, SetStatus
  <2>2. dispositionRegister'[n] = <<terminal>>
    BY <2>1, FirstRow
  <2> QED
    BY <2>1, <2>2
<1>9. ASSUME NEW passed \in BOOLEAN,
             RecordVerdict(n, passed) \/ RecordProvisionalVerdict(n, passed)
      PROVE  RegisterInv(n)'
  BY <1>9 DEF RecordVerdict, RecordProvisionalVerdict
<1>10. ASSUME NEW to \in BOOLEAN, SetArchRatified(n, to) PROVE RegisterInv(n)'
  BY <1>10 DEF SetArchRatified
<1> QED
  BY <1>1, <1>2, <1>3, <1>4, <1>5, <1>6, <1>7, <1>8, <1>9, <1>10
     DEF NodeStep, Outcome, OtherVerb

\* A node that is not to be built grounds only to be retired.
LEMMA UnbuiltStep ==
  ASSUME TypeOK, NEW n \in Node, UnbuiltInv(n), NodeStep(n)
  PROVE  UnbuiltInv(n)'
<1> SUFFICES ASSUME n \in Sealed \/ ~ Buildable(n)
             PROVE  /\ generation'[n] = 0
                    /\ \/ status'[n] \in {"PENDING", "BLOCK", "PARK", "NEEDS_MANUAL_SEAM"}
                       \/ Disposition[n] = "retire" /\ status'[n] \in {"GROUNDED", "RETIRED"}
  BY DEF UnbuiltInv, Buildable
<1> USE DEF TypeOK, UnbuiltInv, artifactVars
<1>1. CASE Dispatch(n)
  BY <1>1 DEF Dispatch, SetStatus, MayDispatch
<1>2. ASSUME NEW to \in Statuses, Progress(n, to) PROVE FALSE
  <2>1. Buildable(n) /\ Disposition[n] # "retire"
    BY <1>2 DEF Progress, Buildable, NonBuildDispositions
  <2>2. status[n] \in {"PENDING", "BLOCK", "PARK", "NEEDS_MANUAL_SEAM"}
    BY <2>1
  <2>3. to \in BuiltStates \ {"GREEN"}
    BY <1>2 DEF Progress, ActiveStates, BuiltStates
  <2> QED
    BY <1>2, <2>2, <2>3, Moves DEF Progress, BuiltStates, RetryStates
<1>3. CASE ReEnter(n)
  BY <1>3 DEF ReEnter, SetStatus
<1>4. CASE Green(n)
  BY <1>4, Moves DEF Green
<1>5. ASSUME NEW reason \in BlockReasons, Block(n, reason)
      PROVE  generation'[n] = 0 /\ status'[n] = "BLOCK"
  BY <1>5 DEF Block, SetStatus
<1>6. ASSUME NEW reason \in BlockReasons, Park(n, reason)
      PROVE  generation'[n] = 0 /\ status'[n] = "PARK"
  BY <1>6 DEF Park, SetStatus
<1>7. CASE Seam(n)
  BY <1>7 DEF Seam, SetStatus
<1>8. ASSUME NEW terminal \in DispositionTerminals, ResolveUnbuilt(n, terminal)
      PROVE  /\ generation'[n] = 0
             /\ Disposition[n] = "retire" /\ status'[n] = "RETIRED"
  <2>1. /\ status[n] \in {"GROUNDED", "GATED", "PROVISIONAL_GATED"}
        /\ status'[n] = terminal /\ generation'[n] = generation[n]
    BY <1>8, Moves DEF ResolveUnbuilt, SetStatus, DispositionTerminals
  <2>2. Disposition[n] = "retire"
    BY <2>1
  <2> QED
    BY <1>8, <2>1, <2>2
       DEF ResolveUnbuilt, MayResolveUnbuilt, DispositionOf, DispositionTerminals
<1>9. ASSUME NEW passed \in BOOLEAN,
             RecordVerdict(n, passed) \/ RecordProvisionalVerdict(n, passed)
      PROVE  UNCHANGED <<generation, status>>
  BY <1>9 DEF RecordVerdict, RecordProvisionalVerdict
<1>10. ASSUME NEW to \in BOOLEAN, SetArchRatified(n, to)
       PROVE  UNCHANGED <<generation, status>>
  BY <1>10 DEF SetArchRatified
<1> QED
  BY <1>1, <1>2, <1>3, <1>4, <1>5, <1>6, <1>7, <1>8, <1>9, <1>10
     DEF NodeStep, Outcome, OtherVerb

\* Together, and for the nodes that do not step.
LEMMA NodeInvStep ==
  ASSUME TypeOK, NodeInv, NEW n \in Node, NodeStep(n)
  PROVE  NodeInv'
<1>1. VerdictInv(n)' /\ RegisterInv(n)' /\ UnbuiltInv(n)'
  BY VerdictInvStep, RegisterStep, UnbuiltStep DEF NodeInv
<1>2. ASSUME NEW m \in Node, m # n
      PROVE  VerdictInv(m)' /\ RegisterInv(m)' /\ UnbuiltInv(m)'
  <2>1. VerdictInv(m)'
    BY <1>2, OthersKeep DEF NodeInv, VerdictInv
  <2>2. RegisterInv(m)'
    BY <1>2, OthersKeep DEF NodeInv, RegisterInv
  <2>3. UnbuiltInv(m)'
    BY <1>2, OthersKeep DEF NodeInv, UnbuiltInv, Buildable
  <2> QED
    BY <2>1, <2>2, <2>3
<1> QED
  BY <1>1, <1>2 DEF NodeInv

-------------------------------------------------------------------------------
\* The readiness counters.

\* A step resolves no node and leaves the counters alone, or it resolves the
\* node that steps, which was not resolved before, and releases its dependents.
LEMMA Resolving ==
  ASSUME TypeOK, NEW n \in Node, NodeStep(n)
  PROVE  \/ /\ UNCHANGED indegree
            /\ Resolved(n)' <=> Resolved(n)
         \/ /\ ReleaseDependents(n)
            /\ ~ Resolved(n)
            /\ Resolved(n)'
<1> USE DEF TypeOK, Resolved, RunCompleteTerminals
<1>1. CASE Dispatch(n)
  BY <1>1, Moves DEF Dispatch, SetStatus
<1>2. ASSUME NEW to \in Statuses, Progress(n, to)
      PROVE  UNCHANGED indegree /\ ~ Resolved(n) /\ ~ Resolved(n)'
  BY <1>2, Moves DEF Progress, SetStatus, ActiveStates
<1>3. CASE ReEnter(n)
  BY <1>3, Moves DEF ReEnter, SetStatus
<1>4. CASE Green(n)
  BY <1>4, Moves DEF Green, SetStatus
<1>5. ASSUME NEW reason \in BlockReasons, Block(n, reason)
      PROVE  UNCHANGED indegree /\ ~ Resolved(n) /\ ~ Resolved(n)'
  BY <1>5, Moves DEF Block, SetStatus
<1>6. ASSUME NEW reason \in BlockReasons, Park(n, reason)
      PROVE  UNCHANGED indegree /\ ~ Resolved(n) /\ ~ Resolved(n)'
  BY <1>6, Moves DEF Park, SetStatus
<1>7. CASE Seam(n)
  BY <1>7, Moves DEF Seam, SetStatus
<1>8. ASSUME NEW terminal \in DispositionTerminals, ResolveUnbuilt(n, terminal)
      PROVE  ReleaseDependents(n) /\ ~ Resolved(n) /\ Resolved(n)'
  BY <1>8, Moves DEF ResolveUnbuilt, SetStatus, DispositionTerminals
<1>9. ASSUME NEW passed \in BOOLEAN,
             RecordVerdict(n, passed) \/ RecordProvisionalVerdict(n, passed)
      PROVE  UNCHANGED <<indegree, status>>
  BY <1>9 DEF RecordVerdict, RecordProvisionalVerdict
<1>10. ASSUME NEW to \in BOOLEAN, SetArchRatified(n, to)
       PROVE  UNCHANGED <<indegree, status>>
  BY <1>10 DEF SetArchRatified
<1> QED
  BY <1>1, <1>2, <1>3, <1>4, <1>5, <1>6, <1>7, <1>8, <1>9, <1>10
     DEF NodeStep, Outcome, OtherVerb

\* What is resolved stays resolved, and only the node that steps may change.
LEMMA ResolvedStays ==
  ASSUME TypeOK, NEW n \in Node, NodeStep(n), NEW d \in Node
  PROVE  /\ Resolved(d) => Resolved(d)'
         /\ d # n => (Resolved(d)' <=> Resolved(d))
<1>1. d # n => (Resolved(d)' <=> Resolved(d))
  BY OthersKeep DEF Resolved
<1> QED
  BY <1>1, Resolving

\* One node fewer to wait for is one less to count.
LEMMA IndegreeStep ==
  ASSUME TypeOK, IndegreeCoherent, NEW n \in Node, NodeStep(n)
  PROVE  IndegreeCoherent'
<1> DEFINE Open(m) == {d \in Deps[m] : ~ Resolved(d)}
<1> SUFFICES ASSUME NEW m \in Node PROVE indegree'[m] = Cardinality(Open(m)')
  BY DEF IndegreeCoherent
<1>1. /\ Open(m) \subseteq Node
      /\ IsFiniteSet(Open(m))
      /\ indegree[m] = Cardinality(Open(m))
      /\ Open(m)' = {d \in Deps[m] : ~ Resolved(d)'}
  BY PlanAssumption, FS_Subset DEF IndegreeCoherent
<1>2. \A d \in Deps[m] : d \in Node
  BY PlanAssumption
<1>3. CASE UNCHANGED indegree /\ (Resolved(n)' <=> Resolved(n))
  <2>1. \A d \in Deps[m] : Resolved(d)' <=> Resolved(d)
    BY <1>2, <1>3, ResolvedStays
  <2>2. Open(m)' = Open(m)
    BY <1>1, <2>1
  <2> QED
    BY <1>1, <1>3, <2>2
<1>4. CASE ReleaseDependents(n) /\ ~ Resolved(n) /\ Resolved(n)'
  <2>1. \A d \in Deps[m] : Resolved(d)' <=> Resolved(d) \/ d = n
    BY <1>2, <1>4, ResolvedStays
  <2>2. CASE n \in Deps[m]
    <3>1. Open(m)' = Open(m) \ {n} /\ n \in Open(m)
      BY <1>1, <1>4, <2>1, <2>2
    <3>2. Cardinality(Open(m) \ {n}) = Cardinality(Open(m)) - 1
      BY <1>1, <3>1, FS_RemoveElement
    <3>3. indegree'[m] = indegree[m] - 1
      BY <1>4, <2>2 DEF ReleaseDependents
    <3> QED
      BY <1>1, <3>1, <3>2, <3>3
  <2>3. CASE n \notin Deps[m]
    <3>1. Open(m)' = Open(m)
      BY <1>1, <2>1, <2>3
    <3>2. indegree'[m] = indegree[m]
      BY <1>4, <2>3 DEF ReleaseDependents
    <3> QED
      BY <1>1, <3>1, <3>2
  <2> QED
    BY <2>2, <2>3
<1> QED
  BY <1>3, <1>4, Resolving

\* A counter at zero means that nothing is waited for.
LEMMA ZeroMeansReady ==
  ASSUME IndegreeCoherent, NEW n \in Node, indegree[n] = 0
  PROVE  \A d \in Deps[n] : Resolved(d)
<1> DEFINE Open == {d \in Deps[n] : ~ Resolved(d)}
<1>1. IsFiniteSet(Open)
  BY PlanAssumption, FS_Subset
<1>2. Cardinality(Open) = 0
  BY DEF IndegreeCoherent
<1>3. Open = {}
  BY <1>1, <1>2, FS_EmptySet
<1> QED
  BY <1>3

\* A node enters by a dispatch, or was in before.
LEMMA Entering ==
  ASSUME TypeOK, NEW n \in Node, NodeStep(n), Entered(n)'
  PROVE  Entered(n) \/ indegree[n] = 0
<1> USE DEF TypeOK, Entered
<1>1. CASE Dispatch(n)
  BY <1>1 DEF Dispatch, MayDispatch
<1>2. ASSUME NEW to \in Statuses, Progress(n, to) PROVE Entered(n)
  <2>1. to \in BuiltStates \ {"GREEN"}
    BY <1>2 DEF Progress, ActiveStates, BuiltStates
  <2> QED
    BY <1>2, <2>1, Moves DEF Progress, BuiltStates, RetryStates
<1>3. CASE ReEnter(n)
  BY <1>3 DEF ReEnter, SetStatus
<1>4. CASE Green(n)
  BY <1>4, Moves DEF Green
<1>5. ASSUME NEW reason \in BlockReasons, Block(n, reason) PROVE FALSE
  BY <1>5 DEF Block, SetStatus
<1>6. ASSUME NEW reason \in BlockReasons, Park(n, reason) PROVE FALSE
  BY <1>6 DEF Park, SetStatus
<1>7. CASE Seam(n)
  BY <1>7 DEF Seam, SetStatus
<1>8. ASSUME NEW terminal \in DispositionTerminals, ResolveUnbuilt(n, terminal)
      PROVE  Entered(n)
  BY <1>8, Moves DEF ResolveUnbuilt, DispositionTerminals
<1>9. ASSUME NEW passed \in BOOLEAN,
             RecordVerdict(n, passed) \/ RecordProvisionalVerdict(n, passed)
      PROVE  UNCHANGED status
  BY <1>9 DEF RecordVerdict, RecordProvisionalVerdict
<1>10. ASSUME NEW to \in BOOLEAN, SetArchRatified(n, to) PROVE UNCHANGED status
  BY <1>10 DEF SetArchRatified
<1> QED
  BY <1>1, <1>2, <1>3, <1>4, <1>5, <1>6, <1>7, <1>8, <1>9, <1>10
     DEF NodeStep, Outcome, OtherVerb

\* What it was dispatched over stays resolved.
LEMMA ClosureStep ==
  ASSUME TypeOK, IndegreeCoherent, ClosureResolved, NEW n \in Node, NodeStep(n)
  PROVE  ClosureResolved'
<1> SUFFICES ASSUME NEW m \in Node, Entered(m)', NEW d \in Deps[m]
             PROVE  Resolved(d)'
  BY DEF ClosureResolved
<1>1. Resolved(d)
  <2>1. CASE m = n
    BY <2>1, Entering, ZeroMeansReady DEF ClosureResolved
  <2>2. CASE m # n
    BY <2>2, OthersKeep DEF ClosureResolved, Entered
  <2> QED
    BY <2>1, <2>2
<1>2. d \in Node
  BY PlanAssumption
<1> QED
  BY <1>1, <1>2, ResolvedStays

-------------------------------------------------------------------------------
\* The inductive invariant holds, and with it the safety invariants.

\* At the start every counter is the number of dependencies and no node has
\* anything on record.
LEMMA InitInvariant == Init => IInv
<1> SUFFICES ASSUME Init PROVE IInv
  OBVIOUS
<1>1. TypeOK
  BY InitType
<1>2. NodeInv
  BY PlanAssumption
     DEF Init, NodeInv, VerdictInv, RegisterInv, UnbuiltInv, BuiltStates, DispositionTerminals
<1>3. IndegreeCoherent
  <2> SUFFICES ASSUME NEW n \in Node
               PROVE  indegree[n] = Cardinality({d \in Deps[n] : ~ Resolved(d)})
    BY DEF IndegreeCoherent
  <2>1. {d \in Deps[n] : ~ Resolved(d)} = Deps[n]
    BY PlanAssumption DEF Init, Resolved, RunCompleteTerminals
  <2> QED
    BY <2>1 DEF Init
<1>4. ClosureResolved
  BY DEF Init, ClosureResolved, Entered
<1> QED
  BY <1>1, <1>2, <1>3, <1>4 DEF IInv

\* A step that changes no variable changes no part of it.
LEMMA StutterInvariant ==
  ASSUME IInv, UNCHANGED vars
  PROVE  IInv'
BY DEF IInv, TypeOK, NodeInv, VerdictInv, RegisterInv, UnbuiltInv, Buildable,
       IndegreeCoherent, ClosureResolved, Resolved, Entered, vars,
       artifactVars, registerVars

\* The strengthened invariant holds in every reachable state.
THEOREM Invariant == Spec => []IInv
<1>1. IInv /\ [Next]_vars => IInv'
  <2> SUFFICES ASSUME IInv, [Next]_vars PROVE IInv'
    OBVIOUS
  <2>1. CASE UNCHANGED vars
    BY <2>1, StutterInvariant
  <2>2. ASSUME NEW n \in Node, NodeStep(n) PROVE IInv'
    BY <2>2, NodeStepType, NodeInvStep, IndegreeStep, ClosureStep DEF IInv
  <2> QED
    BY <2>1, <2>2 DEF Next
<1> QED
  BY <1>1, InitInvariant, PTL DEF Spec

\* What the invariant says of a state.
LEMMA InvariantMeans ==
  ASSUME IInv
  PROVE  /\ TypeOK /\ IndegreeCoherent /\ ClosureResolved /\ GreenEarned
         /\ RegistersMatchStatus /\ NeverBuilt
<1>1. GreenEarned
  BY DEF IInv, NodeInv, VerdictInv, GreenEarned, BuiltStates
<1>2. RegistersMatchStatus
  <2>1. Len(<<>>) = 0
    OBVIOUS
  <2> QED
    BY <2>1 DEF IInv, NodeInv, RegisterInv, RegistersMatchStatus
<1>3. NeverBuilt
  BY DEF IInv, NodeInv, UnbuiltInv, NeverBuilt, RetryStates
<1> QED
  BY <1>1, <1>2, <1>3 DEF IInv

\* For every plan, the readiness counter of a node is the number of its
\* dependencies that are not resolved.
THEOREM IndegreeIsCoherent == Spec => []IndegreeCoherent
<1>1. IInv => IndegreeCoherent
  BY InvariantMeans
<1> QED
  BY <1>1, Invariant, PTL

\* For every plan, what is in the lifecycle stands on resolved dependencies.
THEOREM ClosureIsResolved == Spec => []ClosureResolved
<1>1. IInv => ClosureResolved
  BY InvariantMeans
<1> QED
  BY <1>1, Invariant, PTL

\* GREEN is earned by a passing verdict of the artifact the node has.
THEOREM GreenIsEarned == Spec => []GreenEarned
<1>1. IInv => GreenEarned
  BY InvariantMeans
<1> QED
  BY <1>1, Invariant, PTL

\* The registers of live state agree with the statuses.
THEOREM RegistersMatch == Spec => []RegistersMatchStatus
<1>1. IInv => RegistersMatchStatus
  BY InvariantMeans
<1> QED
  BY <1>1, Invariant, PTL

\* What is to be retired or sealed, or has sealed callers, is never built.
THEOREM UnbuildableIsNeverBuilt == Spec => []NeverBuilt
<1>1. IInv => NeverBuilt
  BY InvariantMeans
<1> QED
  BY <1>1, Invariant, PTL

-------------------------------------------------------------------------------
\* What no step may do, and the implementation of the contract.

\* A resolved node takes no step but the ratification of its architecture.
LEMMA ResolvedKeeps ==
  ASSUME TypeOK, NEW n \in Node, NodeStep(n), Resolved(n)
  PROVE  UNCHANGED <<status, artifactVars, registerVars>>
<1> USE DEF Resolved, RunCompleteTerminals
<1>1. ASSUME NEW to, NEW reason, SetStatus(n, to, reason) PROVE FALSE
  BY <1>1, Moves
<1>2. ASSUME NEW passed \in BOOLEAN,
             RecordVerdict(n, passed) \/ RecordProvisionalVerdict(n, passed)
      PROVE  FALSE
  BY <1>2 DEF RecordVerdict, RecordProvisionalVerdict
<1>3. ASSUME NEW to \in BOOLEAN, SetArchRatified(n, to)
      PROVE  UNCHANGED <<status, artifactVars, registerVars>>
  BY <1>3 DEF SetArchRatified
<1> QED
  BY <1>1, <1>2, <1>3
     DEF NodeStep, Outcome, OtherVerb, Dispatch, Progress, ReEnter, Green, Block,
         Park, Seam, ResolveUnbuilt

\* A resolved node is final.
THEOREM ResolvedNodeIsFinal == Spec => ResolvedIsFinal
<1>1. TypeOK /\ [Next]_vars =>
        [\A n \in Node : Resolved(n) =>
           /\ status'[n] = status[n]
           /\ generation'[n] = generation[n]
           /\ verdictGreen'[n] = verdictGreen[n]
           /\ verdictProvisional'[n] = verdictProvisional[n]
           /\ dispositionRegister'[n] = dispositionRegister[n]]_vars
  <2> SUFFICES ASSUME TypeOK, NEW n \in Node, NodeStep(n), NEW m \in Node, Resolved(m)
               PROVE  /\ status'[m] = status[m]
                      /\ generation'[m] = generation[m]
                      /\ verdictGreen'[m] = verdictGreen[m]
                      /\ verdictProvisional'[m] = verdictProvisional[m]
                      /\ dispositionRegister'[m] = dispositionRegister[m]
    BY DEF Next
  <2>1. CASE m = n
    BY <2>1, ResolvedKeeps DEF artifactVars, registerVars
  <2>2. CASE m # n
    BY <2>2, OthersKeep
  <2> QED
    BY <2>1, <2>2
<1> QED
  BY <1>1, TypeCorrect, PTL DEF Spec, ResolvedIsFinal

\* The four phases, by status.
LEMMA PhaseOf ==
  ASSUME TypeOK, NEW n \in Node
  PROVE  /\ Phase(n) = "waiting" <=> status[n] = "PENDING"
         /\ Phase(n) = "held" <=> status[n] \in {"BLOCK", "PARK", "NEEDS_MANUAL_SEAM"}
         /\ Phase(n) = "done" <=> Resolved(n)
         /\ Phase(n) \in {"waiting", "held", "done", "working"}
BY DEF TypeOK, Phase, Resolved, RunCompleteTerminals, Statuses, ActiveStates,
       TerminalOutcomes

\* A step of one node changes its phase as the contract lets it, or not.
LEMMA PhaseStep ==
  ASSUME TypeOK, TypeOK', IndegreeCoherent, NEW n \in Node, NodeStep(n)
  PROVE  \/ Phase(n)' = Phase(n)
         \/ /\ Phase(n) = "waiting" /\ Phase(n)' = "working"
            /\ \A d \in Deps[n] : Resolved(d)
         \/ Phase(n) \in {"waiting", "working"} /\ Phase(n)' = "held"
         \/ Phase(n) = "held" /\ Phase(n)' = "waiting"
         \/ Phase(n) = "working" /\ Phase(n)' = "done"
<1>1. ASSUME NEW to, NEW reason, SetStatus(n, to, reason)
      PROVE  status'[n] = to
  BY <1>1 DEF SetStatus, TypeOK
<1> USE DEF Phase, Resolved, RunCompleteTerminals
<1>2. CASE Dispatch(n)
  <2>1. status[n] = "PENDING" /\ status'[n] = "GROUNDED" /\ indegree[n] = 0
    BY <1>1, <1>2, Moves DEF Dispatch, MayDispatch
  <2> QED
    BY <2>1, ZeroMeansReady
<1>3. ASSUME NEW to \in Statuses, Progress(n, to) PROVE Phase(n)' = Phase(n)
  <2>1. to \in BuiltStates \ {"GREEN"} /\ status'[n] = to
    BY <1>1, <1>3 DEF Progress, ActiveStates, BuiltStates
  <2>2. status[n] \in (BuiltStates \ {"GREEN"}) \cup {"GROUNDED"}
    BY <1>3, <2>1, Moves DEF Progress, BuiltStates, RetryStates
  <2> QED
    BY <2>1, <2>2 DEF BuiltStates
<1>4. CASE ReEnter(n)
  BY <1>1, <1>4 DEF ReEnter
<1>5. CASE Green(n)
  BY <1>1, <1>5, Moves DEF Green
<1>6. ASSUME NEW reason \in BlockReasons, Block(n, reason)
      PROVE  Phase(n) \in {"waiting", "working"} /\ Phase(n)' = "held"
  BY <1>1, <1>6, Moves DEF Block, ActiveStates
<1>7. ASSUME NEW reason \in BlockReasons, Park(n, reason)
      PROVE  Phase(n)' = Phase(n)
  BY <1>1, <1>7, Moves DEF Park
<1>8. CASE Seam(n)
  BY <1>1, <1>8, Moves DEF Seam, ActiveStates
<1>9. ASSUME NEW terminal \in DispositionTerminals, ResolveUnbuilt(n, terminal)
      PROVE  Phase(n) = "working" /\ Phase(n)' = "done"
  BY <1>1, <1>9, Moves DEF ResolveUnbuilt, DispositionTerminals
<1>10. ASSUME NEW passed \in BOOLEAN,
              RecordVerdict(n, passed) \/ RecordProvisionalVerdict(n, passed)
       PROVE  Phase(n)' = Phase(n)
  BY <1>10 DEF RecordVerdict, RecordProvisionalVerdict
<1>11. ASSUME NEW to \in BOOLEAN, SetArchRatified(n, to) PROVE Phase(n)' = Phase(n)
  BY <1>11 DEF SetArchRatified
<1> QED
  BY <1>2, <1>3, <1>4, <1>5, <1>6, <1>7, <1>8, <1>9, <1>10, <1>11
     DEF NodeStep, Outcome, OtherVerb

\* What the contract lets the phase of one node do.
ContractMove(n) ==
  \/ Phase(n)' = Phase(n)
  \/ /\ Phase(n) = "waiting" /\ Phase(n)' = "working"
     /\ \A d \in Deps[n] : Resolved(d)
  \/ Phase(n) \in {"waiting", "working"} /\ Phase(n)' = "held"
  \/ Phase(n) = "held" /\ Phase(n)' = "waiting"
  \/ Phase(n) = "working" /\ Phase(n)' = "done"

\* Such a move of one node, the others as they were, is a step of the contract.
LEMMA MoveImplements ==
  ASSUME TypeOK, NEW n \in Node, ContractMove(n),
         \A m \in Node : m # n => Phase(m)' = Phase(m)
  PROVE  Contract!Next \/ UNCHANGED phases
<1>1. phases' = [phases EXCEPT ![n] = Phase(n)']
  BY DEF phases
<1>2. \A m \in Node : phases[m] = Phase(m)
  BY DEF phases
<1>3. CASE Phase(n)' = Phase(n)
  BY <1>1, <1>3 DEF phases
<1>4. CASE /\ Phase(n) = "waiting" /\ Phase(n)' = "working"
           /\ \A d \in Deps[n] : Resolved(d)
  <2>1. \A d \in Deps[n] : phases[d] = "done"
    BY <1>2, <1>4, PhaseOf, PlanAssumption
  <2>2. Contract!Ready(n)
    BY <2>1 DEF Contract!Ready
  <2>3. Contract!Start(n)
    BY <1>1, <1>2, <1>4, <2>2 DEF Contract!Start
  <2> QED
    BY <2>3 DEF Contract!Next
<1>5. CASE Phase(n) \in {"waiting", "working"} /\ Phase(n)' = "held"
  <2>1. Contract!Hold(n)
    BY <1>1, <1>2, <1>5 DEF Contract!Hold
  <2> QED
    BY <2>1 DEF Contract!Next
<1>6. CASE Phase(n) = "held" /\ Phase(n)' = "waiting"
  <2>1. Contract!Readmit(n)
    BY <1>1, <1>2, <1>6 DEF Contract!Readmit
  <2> QED
    BY <2>1 DEF Contract!Next
<1>7. CASE Phase(n) = "working" /\ Phase(n)' = "done"
  <2>1. Contract!Finish(n)
    BY <1>1, <1>2, <1>7 DEF Contract!Finish
  <2> QED
    BY <2>1 DEF Contract!Next
<1> QED
  BY <1>3, <1>4, <1>5, <1>6, <1>7 DEF ContractMove

\* Every verb implements a step of the contract.
LEMMA ContractStep ==
  ASSUME TypeOK, TypeOK', IndegreeCoherent, NEW n \in Node, NodeStep(n)
  PROVE  Contract!Next \/ UNCHANGED phases
<1>1. \A m \in Node : m # n => Phase(m)' = Phase(m)
  BY OthersKeep DEF Phase, Resolved
<1>2. ContractMove(n)
  BY PhaseStep DEF ContractMove
<1> QED
  BY <1>1, <1>2, MoveImplements

\* At the start every node waits.
LEMMA InitImplements == Init => Contract!Init
<1> SUFFICES ASSUME Init PROVE \A n \in Node : Phase(n) = "waiting"
  BY DEF Contract!Init, phases
<1> QED
  BY InitType, PhaseOf DEF Init

\* The reducer implements the contract of a run.
THEOREM ReducerImplementsContract == Spec => ImplementsContract
<1>1. Init => Contract!Init
  BY InitImplements
<1>2. IInv /\ IInv' /\ [Next]_vars => [Contract!Next]_phases
  <2> SUFFICES ASSUME IInv, IInv', [Next]_vars
               PROVE  Contract!Next \/ UNCHANGED phases
    OBVIOUS
  <2>1. CASE UNCHANGED vars
    BY <2>1 DEF vars, phases, Phase, Resolved
  <2>2. ASSUME NEW n \in Node, NodeStep(n)
        PROVE  Contract!Next \/ UNCHANGED phases
    BY <2>2, ContractStep DEF IInv
  <2> QED
    BY <2>1, <2>2 DEF Next
<1> QED
  BY <1>1, <1>2, Invariant, PTL DEF Spec, ImplementsContract, Contract!Spec

-------------------------------------------------------------------------------
\* What the contract itself says, of the phases of a run.

\* The phases stay phases.
THEOREM ContractTypes == Contract!Spec => []Contract!ContractTypeOK
<1>1. Contract!Init => Contract!ContractTypeOK
  BY DEF Contract!Init, Contract!ContractTypeOK, Contract!Phases
<1>2. Contract!ContractTypeOK /\ [Contract!Next]_phases => Contract!ContractTypeOK'
  BY DEF Contract!ContractTypeOK, Contract!Phases, Contract!Next, Contract!Start,
         Contract!Hold, Contract!Readmit, Contract!Finish
<1> QED
  BY <1>1, <1>2, PTL DEF Contract!Spec

\* A step leaves done what is done.
LEMMA DoneStays ==
  ASSUME Contract!ContractTypeOK, Contract!Next, NEW n \in Node, phases[n] = "done"
  PROVE  phases'[n] = "done"
BY DEF Contract!ContractTypeOK, Contract!Next, Contract!Start, Contract!Hold,
       Contract!Readmit, Contract!Finish

\* Work is done, or under way, only over dependencies that are done, for every
\* plan.
THEOREM ContractIsBottomUp == Contract!Spec => []Contract!BottomUp
<1>1. Contract!Init => Contract!BottomUp
  BY DEF Contract!Init, Contract!BottomUp
<1>2. /\ Contract!ContractTypeOK /\ Contract!BottomUp
      /\ [Contract!Next]_phases
      => Contract!BottomUp'
  <2> SUFFICES ASSUME Contract!ContractTypeOK, Contract!BottomUp, [Contract!Next]_phases,
                      NEW m \in Node, phases'[m] \in {"working", "done"}, NEW d \in Deps[m]
               PROVE  phases'[d] = "done"
    BY DEF Contract!BottomUp, Contract!Ready
  <2>0. CASE UNCHANGED phases
    BY <2>0 DEF Contract!BottomUp, Contract!Ready
  <2>1. CASE Contract!Next
    <3>1. phases[m] \in {"working", "done"} \/ Contract!Ready(m)
      BY <2>1 DEF Contract!Next, Contract!Start, Contract!Hold, Contract!Readmit,
                  Contract!Finish, Contract!ContractTypeOK
    <3>2. phases[d] = "done"
      BY <3>1 DEF Contract!BottomUp, Contract!Ready
    <3> QED
      BY <2>1, <3>2, DoneStays, PlanAssumption
  <2> QED
    BY <2>0, <2>1
<1> QED
  BY <1>1, <1>2, ContractTypes, PTL DEF Contract!Spec

\* What is done stays done.
THEOREM ContractDoneIsFinal == Contract!Spec => Contract!DoneIsFinal
<1>1. Contract!ContractTypeOK /\ [Contract!Next]_phases =>
        [\A n \in Node : phases[n] = "done" => phases'[n] = "done"]_phases
  BY DoneStays
<1> QED
  BY <1>1, ContractTypes, PTL DEF Contract!Spec, Contract!DoneIsFinal

\* So the work of a run is done bottom up, by its statuses alone.
THEOREM RunIsBottomUp == Spec => []Contract!BottomUp
BY ReducerImplementsContract, ContractIsBottomUp, PTL DEF ImplementsContract
===============================================================================
