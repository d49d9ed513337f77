-------------------------- MODULE Computations_proofs --------------------------
(***************************************************************************)
(* Proofs about what is computed without a state of its own: for every     *)
(* input, of any size, what the drive step judges rests on evidence        *)
(* (VerdictAlwaysRestsOnEvidence), and what comes into and goes out of a   *)
(* program of work is never presumed (ReleaseIsNeverPresumed); what is     *)
(* proposed for a unit is grounded (DispositionIsAlwaysGrounded), and the  *)
(* architecture fits (ArchitectureAlwaysFits).  The run of MCComputations  *)
(* checks the same properties over bounded inputs, which MCJudging,        *)
(* MCRelease and MCDesign assume to be among those the proofs are about.   *)
(***************************************************************************)
EXTENDS MCJudging, MCRelease, MCDesign, FiniteSetTheorems, SequenceTheorems, WellFoundedInduction, TLAPS

\* What stands at a place of a sequence is one of its elements.
LEMMA ElementInSeq ==
  ASSUME NEW S, NEW s \in Seq(S), NEW i \in DOMAIN s
  PROVE  s[i] \in S /\ i \in 1..Len(s)
OBVIOUS

\* A set of natural numbers that is not empty has a least one.
LEMMA MinOfNaturals ==
  ASSUME NEW S, S \subseteq Nat, S # {}
  PROVE  Min(S) \in S /\ \A x \in S : Min(S) <= x
<1> DEFINE R == {p \in Nat \X Nat : p[1] < p[2]}
<1>1. IsWellFoundedOn(R, Nat)
  BY NatLessThanWellFounded DEF OpToRel
<1>2. PICK n \in S : \A m \in S : ~ (<<m, n>> \in R)
  BY <1>1, WFMin DEF R
<1>3. \A m \in S : n <= m
  <2>1. ASSUME NEW m \in S PROVE ~ (m < n)
    BY <1>2 DEF R
  <2>2. QED
    BY <2>1
<1>4. QED
  BY <1>3 DEF Min

\* A bounded set of natural numbers that is not empty has a greatest one.
LEMMA MaxOfNaturals ==
  ASSUME NEW b \in Nat, NEW S, S \subseteq 1..b, S # {}
  PROVE  Max(S) \in S
<1> DEFINE T == {b - x : x \in S}
<1>1. T \subseteq Nat /\ T # {}
  OBVIOUS
<1>2. Min(T) \in T /\ \A y \in T : Min(T) <= y
  BY <1>1, MinOfNaturals
<1>3. PICK x \in S : Min(T) = b - x
  BY <1>2
<1>4. \A y \in S : x >= y
  <2>1. ASSUME NEW y \in S PROVE b - x <= b - y
    BY <1>2, <1>3
  <2>2. QED
    BY <2>1
<1>5. QED
  BY <1>4 DEF Max

\* The merge gate: a passing gate has four sound hard verdicts that refuse nothing.
LEMMA GateHolds ==
  ASSUME NEW in \in AnyDirectory, evaluateGate(in).pass
  PROVE  /\ \A k \in HARD : in[k].readable
         /\ in["sap"].verdict \in {"PASS", "WARN"} /\ in["sap"].priority1 = "empty" /\ in["sap"].priority2 = "empty"
         /\ in["sap"].invariant_diff = "booleans"
         /\ \A k \in HARD \ {"sap"} : in[k].gate = "own" /\ in[k].pass = "true" /\ in[k].findings # Illegal
         /\ in["design-critique"].readable /\ validateDesign(in["design-critique"])
              => in["design-critique"].verdict # "BLOCK"
<1>1. \A k \in HARD : in[k].readable /\ validateVerdict(k, in[k]) /\ ~ refuses(k, in[k])
  BY DEF evaluateGate
<1>2. in["design-critique"].readable /\ validateDesign(in["design-critique"])
        => in["design-critique"].verdict # "BLOCK"
  BY DEF evaluateGate, validateVerdict, HARD
<1>3. in["sap"].readable /\ validateSap(in["sap"]) /\ ~ refuses("sap", in["sap"])
  BY <1>1 DEF HARD, validateVerdict
<1>4. in["sap"] \in SapVerdicts
  BY <1>3 DEF AnyDirectory, Unreadable
<1>5. in["sap"].verdict \in {"PASS", "WARN"} /\ in["sap"].priority1 = "empty" /\ in["sap"].priority2 = "empty"
        /\ in["sap"].invariant_diff = "booleans"
  BY <1>3, <1>4 DEF SapVerdicts, validateSap, refuses, requireFields, badEnum, Absent, Illegal
<1>6. ASSUME NEW k \in HARD \ {"sap"}
      PROVE  in[k].gate = "own" /\ in[k].pass = "true" /\ in[k].findings # Illegal
  <2>1. passStyle(in[k]) /\ ~ refuses(k, in[k])
    BY <1>1, <1>6 DEF HARD, validateVerdict, validateCleanCore, validateSecurity, validateDiff
  <2>2. QED
    BY <2>1 DEF passStyle, refuses, badEnum
<1>7. QED
  BY <1>1, <1>2, <1>5, <1>6

(***************************************************************************)
(* Usage.                                                                  *)
(***************************************************************************)

\* What is told of an object comes from one row of the export, the first that counts.
LEMMA ToldByOneRow ==
  ASSUME NEW in \in AnyUsage,
         NEW e \in usageResponse(Dataset(in), in.policy, in.package, in.today).executed_objects
  PROVE  /\ in.file = "usage"
         /\ \E i \in mapped(in.export) :
              /\ \A j \in mapped(in.export) : in.export[j].object = in.export[i].object => i <= j
              /\ e = [object |-> in.export[i].object,
                       activity |-> classifyUsageRow(mapUsageRow(in.export[i]), resolveRetirePolicy(in.policy), in.today)]
<1> DEFINE ds == loadDataset(Dataset(in))
<1>1. ds.measured
  BY DEF usageResponse
<1>2. Dataset(in).measured /\ ds = Dataset(in)
  BY <1>1 DEF loadDataset, NoData
<1>3. in.file = "usage"
  <2>1. CASE in.file = "refused"
    BY <1>1, <2>1 DEF Dataset, loadDataset, buildDataset, NoData
  <2>2. CASE in.file = "none"
    BY <1>2, <2>2 DEF Dataset, NoData
  <2>3. CASE in.file = "unmeasured"
    BY <1>2, <2>3 DEF Dataset, buildDataset
  <2>4. in.file \in {"usage", "none", "refused", "unmeasured"}
    BY DEF AnyUsage
  <2>5. QED
    BY <2>1, <2>2, <2>3, <2>4
<1>4. ds.usage = adaptUsage(in.export)
  BY <1>2, <1>3 DEF Dataset, buildDataset
<1>5. PICK r \in adaptUsage(in.export) :
        e = [object |-> r.object, activity |-> classifyUsageRow(r, resolveRetirePolicy(in.policy), in.today)]
  BY <1>1, <1>4 DEF usageResponse
<1>6. PICK i \in mapped(in.export) :
        /\ \A j \in mapped(in.export) : in.export[j].object = in.export[i].object => i <= j
        /\ r = mapUsageRow(in.export[i])
  BY DEF adaptUsage
<1>7. QED
  BY <1>3, <1>5, <1>6 DEF mapUsageRow

\* Who is called stale has a row with a real day that is far enough back; without a day nothing is known.
LEMMA StaleHasADay ==
  ASSUME NEW in \in AnyUsage, NEW i \in DOMAIN in.export, NEW policy, policy = resolveRetirePolicy(in.policy),
         NEW a, a = classifyUsageRow(mapUsageRow(in.export[i]), policy, in.today)
  PROVE  /\ a = "stale" => /\ in.export[i].last \notin {Blank, Garbage}
                           /\ in.today - in.export[i].last > policy.idle_days
                           /\ in.today - in.export[i].last > policy.stale_days
         /\ in.export[i].last \in {Blank, Garbage} => a = "unknown"
<1> DEFINE r == in.export[i]
<1>1. r.last \in Cells /\ in.today \in Nat
  <2>1. in.export \in Seq([object : Cells, package : Cells, count : Nat \cup {Garbage}, last : Cells]) /\ in.today \in Nat
    BY DEF AnyUsage
  <2>2. r \in [object : Cells, package : Cells, count : Nat \cup {Garbage}, last : Cells]
    BY <2>1, ElementInSeq
  <2>3. QED
    BY <2>1, <2>2
<1>2. policy.idle_days \in Nat /\ policy.stale_days \in Nat
  BY DEF resolveRetirePolicy, DEFAULT_RETIRE_POLICY, AnyUsage, Garbage
<1>3. CASE r.last \in {Blank, Garbage}
  BY <1>3 DEF classifyUsageRow, mapUsageRow, sapDateToIso
<1>4. CASE r.last \notin {Blank, Garbage}
  <2>1. mapUsageRow(r).last_used = r.last /\ r.last # Null
    BY <1>1, <1>4 DEF mapUsageRow, sapDateToIso, Cells, Null
  <2>2. r.last \in Int
    BY <1>1, <1>4 DEF Cells
  <2>3. QED
    BY <1>1, <1>2, <1>4, <2>1, <2>2 DEF classifyUsageRow
<1>5. QED
  BY <1>3, <1>4

\* Nothing is told of what the export does not measure.
LEMMA UnmeasuredIsUntold ==
  ASSUME NEW in \in AnyUsage, in.file # "usage"
  PROVE  ~ usageResponse(Dataset(in), in.policy, in.package, in.today).data_available
<1>1. ~ loadDataset(Dataset(in)).measured
  BY DEF Dataset, loadDataset, buildDataset, NoData, AnyUsage
<1>2. QED
  BY <1>1 DEF usageResponse

\* An object is stale, and a modification dated, on the evidence of a row only.
LEMMA UsageHolds ==
  ASSUME NEW in \in AnyUsage, kind = "usage", input = in, out = Release("usage", in)
  PROVE  NeverStaleBySilence
<1> DEFINE policy == resolveRetirePolicy(in.policy)
           told == out.usage.executed_objects
           rows(o) == {r \in Range(in.export) : r.object = o}
<1>1. /\ out.usage = usageResponse(Dataset(in), in.policy, in.package, in.today)
      /\ out.mods = modificationsResponse(adaptModifications(in.mods), in.package, in.since)
  BY DEF Release, AskUsage
<1>2. in.file # "usage" => told = {} /\ ~ out.usage.data_available
  <2>1. told = {} \/ in.file = "usage"
    BY <1>1, ToldByOneRow
  <2>2. QED
    BY <1>1, <2>1, UnmeasuredIsUntold
<1>3. ASSUME NEW e \in told
      PROVE  /\ e.activity = "stale" =>
                  \E r \in rows(e.object) : /\ r.last \notin {Blank, Garbage}
                                            /\ in.today - r.last > policy.idle_days
                                            /\ in.today - r.last > policy.stale_days
             /\ (\A r \in rows(e.object) : r.last \in {Blank, Garbage}) => e.activity = "unknown"
             /\ \A f \in told : f.object = e.object => f = e
  <2>1. PICK i \in mapped(in.export) :
              /\ \A j \in mapped(in.export) : in.export[j].object = in.export[i].object => i <= j
              /\ e = [object |-> in.export[i].object,
                       activity |-> classifyUsageRow(mapUsageRow(in.export[i]), policy, in.today)]
    BY <1>1, ToldByOneRow
  <2>2. i \in DOMAIN in.export /\ in.export[i] \in rows(e.object)
    BY <2>1 DEF mapped, Range
  <2>3. /\ e.activity = "stale" => /\ in.export[i].last \notin {Blank, Garbage}
                                   /\ in.today - in.export[i].last > policy.idle_days
                                   /\ in.today - in.export[i].last > policy.stale_days
        /\ in.export[i].last \in {Blank, Garbage} => e.activity = "unknown"
    BY <2>1, <2>2, StaleHasADay
  <2>4. ASSUME NEW f \in told, f.object = e.object
        PROVE  f = e
    <3>1. PICK k \in mapped(in.export) :
              /\ \A j \in mapped(in.export) : in.export[j].object = in.export[k].object => k <= j
              /\ f = [object |-> in.export[k].object,
                       activity |-> classifyUsageRow(mapUsageRow(in.export[k]), policy, in.today)]
      BY <1>1, ToldByOneRow
    <3>2. i \in Nat /\ k \in Nat
      BY DEF mapped, AnyUsage
    <3>3. i = k
      BY <2>1, <2>4, <3>1, <3>2
    <3>4. QED
      BY <2>1, <3>1, <3>3
  <2>5. QED
    BY <2>2, <2>3, <2>4
<1>4. ASSUME NEW m \in out.mods
      PROVE  m.modified_on \notin {Blank, Garbage} /\ \E r \in Range(in.mods) : r.last = m.modified_on
  <2>1. m \in adaptModifications(in.mods)
    BY <1>1 DEF modificationsResponse
  <2>2. PICK r \in Range(in.mods) : m.modified_on = sapDateToIso(r.last) /\ sapDateToIso(r.last) # Null
    BY <2>1 DEF adaptModifications
  <2>3. QED
    BY <2>2 DEF sapDateToIso
<1>5. QED
  BY <1>2, <1>3, <1>4 DEF NeverStaleBySilence

(***************************************************************************)
(* The registries.                                                         *)
(***************************************************************************)

\* The level of a set of states is the worst of those that have one.
LEMMA WeakestIsWorst ==
  ASSUME NEW states
  PROVE  /\ KnownLevels(states) \subseteq {"A", "B", "C", "D"}
         /\ KnownLevels(states) = {} => weakestLevel(states) = "unknown"
         /\ KnownLevels(states) # {} =>
              /\ weakestLevel(states) \in KnownLevels(states)
              /\ \A l \in KnownLevels(states) : LEVEL_RANK[weakestLevel(states)] <= LEVEL_RANK[l]
<1> DEFINE K == KnownLevels(states)
<1>1. K \subseteq {"A", "B", "C", "D"}
  BY DEF KnownLevels, STATE_LEVEL
<1>2. weakestLevel(states) =
        IF K = {} THEN "unknown" ELSE CHOOSE l \in K : \A k \in K : LEVEL_RANK[l] <= LEVEL_RANK[k]
  BY DEF weakestLevel, lowestLevel, KnownLevels
<1>3. LEVEL_RANK["A"] = 3 /\ LEVEL_RANK["B"] = 2 /\ LEVEL_RANK["C"] = 1 /\ LEVEL_RANK["D"] = 0
  BY DEF LEVEL_RANK
<1>4. K # {} => \E l \in K : \A k \in K : LEVEL_RANK[l] <= LEVEL_RANK[k]
  <2>1. CASE "D" \in K
    BY <1>1, <1>3, <2>1
  <2>2. CASE "D" \notin K /\ "C" \in K
    BY <1>1, <1>3, <2>2
  <2>3. CASE "D" \notin K /\ "C" \notin K /\ "B" \in K
    BY <1>1, <1>3, <2>3
  <2>4. CASE "D" \notin K /\ "C" \notin K /\ "B" \notin K
    BY <1>1, <1>3, <2>4
  <2>5. QED
    BY <2>1, <2>2, <2>3, <2>4
<1>5. QED
  BY <1>1, <1>2, <1>4

\* A lookup sees the rows of the winning file, and all of them.
LEMMA LookupSeesTheWinningFile ==
  ASSUME NEW reg, NEW n, NEW t
  PROVE  /\ classifyName(reg, n, t).level = weakestLevel({e.state : e \in Winning(reg, n, t)})
         /\ classifyName(reg, n, t).atc_priority = LEVEL_PRIORITY[classifyName(reg, n, t).level]
<1>1. ASSUME NEW rows
      PROVE  {rows[i].state : i \in ingest(rows, n, t)} = {e.state : e \in Named(rows, n, t)}
  BY DEF ingest, Named, Range
<1>2. Named(reg.authoritative, n, t) # {} <=> {e.state : e \in Named(reg.authoritative, n, t)} # {}
  OBVIOUS
<1>3. /\ addEntry(reg, n, t).authStates = {e.state : e \in Named(reg.authoritative, n, t)}
      /\ addEntry(reg, n, t).fallbackStates = {e.state : e \in Named(reg.fallback, n, t)}
  BY <1>1 DEF addEntry
<1>4. QED
  BY <1>2, <1>3 DEF classifyName, Winning

\* The level of a name is the worst its winning rows know; "unknown" when they know none.
LEMMA LevelOfName ==
  ASSUME NEW reg, NEW n, NEW t, NEW L, L = classifyName(reg, n, t).level
  PROVE  /\ LevelsOf(reg, n, t) \subseteq {"A", "B", "C", "D"}
         /\ LevelsOf(reg, n, t) = {} => L = "unknown"
         /\ LevelsOf(reg, n, t) # {} =>
              L \in LevelsOf(reg, n, t) /\ \A l \in LevelsOf(reg, n, t) : LEVEL_RANK[L] <= LEVEL_RANK[l]
         /\ L = "A" => LevelsOf(reg, n, t) = {"A"}
<1>1. /\ LevelsOf(reg, n, t) \subseteq {"A", "B", "C", "D"}
      /\ LevelsOf(reg, n, t) = {} => L = "unknown"
      /\ LevelsOf(reg, n, t) # {} =>
           L \in LevelsOf(reg, n, t) /\ \A l \in LevelsOf(reg, n, t) : LEVEL_RANK[L] <= LEVEL_RANK[l]
  BY LookupSeesTheWinningFile, WeakestIsWorst, ZenonT(30) DEF LevelsOf
<1>2. ASSUME L = "A" PROVE LevelsOf(reg, n, t) = {"A"}
  <2>1. LevelsOf(reg, n, t) # {} /\ \A l \in LevelsOf(reg, n, t) : 3 <= LEVEL_RANK[l]
    BY <1>1, <1>2 DEF LEVEL_RANK
  <2>2. "B" \notin LevelsOf(reg, n, t) /\ "C" \notin LevelsOf(reg, n, t) /\ "D" \notin LevelsOf(reg, n, t)
    BY <2>1 DEF LEVEL_RANK
  <2>3. QED
    BY <1>1, <2>1, <2>2
<1>3. QED
  BY <1>1, <1>2

\* The oracle, the grades and the curated findings follow the weakest row.
LEMMA WeakestRowHolds ==
  ASSUME NEW in \in AnyRegistry, kind = "registry", input = in, out = Release("registry", in)
  PROVE  WeakestRowDecides
<1> DEFINE known(n, t) == LevelsOf(in.reg, n, t)
           level(n, t) == classifyName(in.reg, n, t).level
           weight == [none |-> 0, P3 |-> 1, P2 |-> 2, P1 |-> 3]
<1>0. out = AskRegistry(in)
  BY DEF Release
<1>1. ASSUME NEW n \in in.names, NEW t \in in.types
      PROVE  /\ IF known(n, t) = {} THEN out.oracle[n][t].level = "unknown"
                ELSE \A l \in known(n, t) : LEVEL_RANK[out.oracle[n][t].level] <= LEVEL_RANK[l]
             /\ weight[out.read[n][t].atc_priority] <= weight[out.write[n][t].atc_priority]
             /\ out.write[n][t].atc_priority = "none" => known(n, t) = {"A"}
  <2>1. /\ out.oracle[n][t].level = level(n, t)
        /\ out.read[n][t] = gradeUsage(in.reg, n, "read", t)
        /\ out.write[n][t] = gradeUsage(in.reg, n, "write", t)
    BY <1>0 DEF AskRegistry
  <2>2. /\ out.read[n][t].atc_priority = IF level(n, t) = "A" THEN "none" ELSE "P2"
        /\ out.write[n][t].atc_priority = IF level(n, t) = "A" THEN "none" ELSE "P1"
    BY <2>1 DEF gradeUsage
  <2>3. QED
    BY <2>1, <2>2, LevelOfName
<1>2. ASSUME NEW n \in in.names, out.released[n] \/ out.tier[n] = "keep-and-clean"
      PROVE  known(n, AnyType) = {"A"}
  <2>1. /\ out.released[n] <=> RELEASE_STATE_FOR_LEVEL[level(n, AnyType)] = "released"
        /\ out.tier[n] = TIER_FOR_LEVEL[level(n, AnyType)]
    <3>1. out.released[n] = isReleased(in.reg, n) /\ out.tier[n] = effortTier(in.reg, n)
      BY <1>0 DEF AskRegistry
    <3>2. classify(in.reg, n).release_state = RELEASE_STATE_FOR_LEVEL[level(n, AnyType)]
      BY DEF classify
    <3>3. QED
      BY <3>1, <3>2 DEF isReleased, effortTier
  <2>2. level(n, AnyType) \in {"A", "B", "C", "D", "unknown"}
    BY LevelOfName
  <2>3. level(n, AnyType) = "A"
    BY <1>2, <2>1, <2>2 DEF RELEASE_STATE_FOR_LEVEL, TIER_FOR_LEVEL
  <2>4. QED
    BY <2>3, LevelOfName
<1>3. ASSUME NEW n \in in.names, NEW s \in Severities, NEW l \in known(n, AnyType) \ {"A"}
      PROVE  weight[out.curated[n][s].atc_priority] >= weight[LEVEL_PRIORITY[l]]
  <2>1. l \in {"B", "C", "D"} /\ level(n, AnyType) \in {"A", "B", "C", "D"} /\ LEVEL_RANK[level(n, AnyType)] <= LEVEL_RANK[l]
    BY LevelOfName
  <2>2. level(n, AnyType) # "A"
    BY <2>1 DEF LEVEL_RANK
  <2>3. n # NoName
    BY DEF AnyRegistry
  <2>4. out.curated[n][s] = curateFinding(in.reg, RegistryFinding(n, s))
    BY <1>0 DEF AskRegistry
  <2>5. gradeFor(in.reg, RegistryFinding(n, s)) = LEVEL_GRADE[level(n, AnyType)]
    BY <2>1, <2>2, <2>3 DEF gradeFor, RegistryFinding, LEVEL_GRADE
  <2>6. out.curated[n][s].atc_priority = GRADE_PRIORITY[LEVEL_GRADE[level(n, AnyType)]]
    BY <2>4, <2>5 DEF curateFinding
  <2>7. out.curated[n][s].atc_priority = LEVEL_PRIORITY[level(n, AnyType)]
    BY <2>1, <2>2, <2>6 DEF GRADE_PRIORITY, LEVEL_GRADE, LEVEL_PRIORITY
  <2>8. QED
    BY <2>1, <2>2, <2>7 DEF LEVEL_PRIORITY, LEVEL_RANK
<1>4. QED
  BY <1>1, <1>2, <1>3 DEF WeakestRowDecides

\* A replacement is what one row publishes.
LEMMA SuccessorsHold ==
  ASSUME NEW in \in AnyRegistry, kind = "registry", input = in, out = Release("registry", in)
  PROVE  SuccessorsAreOneRows
<1> SUFFICES ASSUME NEW n \in in.names, NEW t \in in.types
             PROVE  IF Telling(in.reg, n, t) = {} THEN out.successor[n][t] = Unmapped
                    ELSE \E e \in Telling(in.reg, n, t) :
                           out.successor[n][t] = [successors |-> e.successors, mapping |-> e.mapping]
  BY DEF SuccessorsAreOneRows
<1> DEFINE rows == in.reg.authoritative \o in.reg.fallback
           told == {i \in ingest(rows, n, t) : informative(rows[i])}
           telling == Telling(in.reg, n, t)
<1>1. out.successor[n][t] = IF told = {} THEN Unmapped
                            ELSE [successors |-> rows[Min(told)].successors, mapping |-> rows[Min(told)].mapping]
  <2>1. out.successor[n][t] = successorOf(in.reg, n, t)
    BY DEF Release, AskRegistry
  <2>2. QED
    BY <2>1 DEF successorOf, addEntry
<1>2. in.reg.authoritative \in Seq(AnyRow) /\ in.reg.fallback \in Seq(AnyRow)
  BY DEF AnyRegistry
<1>3. Range(rows) = Range(in.reg.authoritative) \cup Range(in.reg.fallback)
  BY <1>2, RangeConcatenation
<1>4. telling = {rows[i] : i \in told}
  <2>1. telling = {e \in Range(rows) : e.name = n /\ e.state # "" /\ t \in {AnyType, e.type} /\ informative(e)}
    BY <1>3 DEF Telling, Named
  <2>2. QED
    BY <2>1 DEF ingest, Range
<1>5. told # {} => Min(told) \in told
  <2>1. told \subseteq Nat
    <3>1. rows \in Seq(AnyRow)
      BY <1>2, ConcatProperties
    <3>2. told \subseteq DOMAIN rows
      BY DEF ingest
    <3>3. DOMAIN rows \subseteq Nat
      <4> HIDE DEF rows
      <4>1. QED
        BY <3>1
    <3>4. QED
      BY <3>2, <3>3
  <2>2. QED
    BY <2>1, MinOfNaturals
<1>6. QED
  BY <1>1, <1>4, <1>5

\* The row an index keeps for a name is one of the file that speaks for it.
LEMMA IndexedSpeaks ==
  ASSUME NEW reg, reg.authoritative \in Seq(AnyRow), reg.fallback \in Seq(AnyRow), NEW n
  PROVE  IF Speaking(reg, n) = {} THEN indexed(reg, n) = [state |-> "unknown", successors |-> << >>]
         ELSE indexed(reg, n) \in Speaking(reg, n)
<1> DEFINE places(rows) == {i \in DOMAIN rows : rows[i].name = n}
           auth == places(reg.authoritative)
           fall == places(reg.fallback)
<1>1. /\ {e \in Range(reg.authoritative) : e.name = n} = {reg.authoritative[i] : i \in auth}
      /\ {e \in Range(reg.fallback) : e.name = n} = {reg.fallback[i] : i \in fall}
  BY DEF Range
<1>2. auth \subseteq 1..Len(reg.authoritative) /\ fall \subseteq Nat /\ Len(reg.authoritative) \in Nat
  OBVIOUS
<1>3. (auth # {} => Max(auth) \in auth) /\ (fall # {} => Min(fall) \in fall)
  BY <1>2, MinOfNaturals, MaxOfNaturals
<1>4. nameIndex(reg, n) = IF auth # {} THEN {reg.authoritative[Max(auth)]}
                          ELSE IF fall # {} THEN {reg.fallback[Min(fall)]} ELSE {}
  BY DEF nameIndex
<1>5. Speaking(reg, n) = IF auth # {} THEN {reg.authoritative[i] : i \in auth} ELSE {reg.fallback[i] : i \in fall}
  BY <1>1 DEF Speaking
<1>6. nameIndex(reg, n) \subseteq Speaking(reg, n) /\ (nameIndex(reg, n) = {} <=> Speaking(reg, n) = {})
  <2> HIDE DEF auth, fall
  <2>1. CASE auth # {}
    BY <1>3, <1>4, <1>5, <2>1
  <2>2. CASE auth = {} /\ fall # {}
    BY <1>3, <1>4, <1>5, <2>2
  <2>3. CASE auth = {} /\ fall = {}
    BY <1>4, <1>5, <2>3
  <2>4. QED
    BY <2>1, <2>2, <2>3
<1>7. nameIndex(reg, n) # {} => indexed(reg, n) \in nameIndex(reg, n)
  BY DEF indexed
<1>8. QED
  BY <1>6, <1>7 DEF indexed

\* The pack is silent only about what a speaking row calls released.
LEMMA PackHolds ==
  ASSUME NEW in \in AnyRegistry, kind = "registry", input = in, out = Release("registry", in)
  PROVE  PackClearsOnlyReleased
<1> DEFINE speaking(n) == Speaking(in.reg, n)
           rec(n) == indexed(in.reg, n)
           warned(n) == [name |-> n, state |-> classifyRef(in.reg, n).state,
                         use |-> IF classifyRef(in.reg, n).state \in {"deprecated", "classicAPI"}
                                 THEN classifyRef(in.reg, n).successor ELSE NoMapping]
<1>1. out.pack = {warned(n) : n \in {r \in in.names : classifyRef(in.reg, r).state # "released"}}
  BY DEF Release, AskRegistry, groundReleasedApis
<1>2. ASSUME NEW n
      PROVE  /\ classifyRef(in.reg, n).state = rec(n).state
             /\ classifyRef(in.reg, n).successor = IF rec(n).successors = << >> THEN NoMapping ELSE Head(rec(n).successors)
             /\ IF speaking(n) = {} THEN rec(n) = [state |-> "unknown", successors |-> << >>] ELSE rec(n) \in speaking(n)
  <2>1. in.reg.authoritative \in Seq(AnyRow) /\ in.reg.fallback \in Seq(AnyRow)
    BY DEF AnyRegistry
  <2>2. IF speaking(n) = {} THEN rec(n) = [state |-> "unknown", successors |-> << >>] ELSE rec(n) \in speaking(n)
    BY <2>1, IndexedSpeaks
  <2>3. QED
    BY <2>2 DEF classifyRef
<1>3. ASSUME NEW n \in in.names
      PROVE  /\ speaking(n) = {} => \E w \in out.pack : w.name = n /\ w.state = "unknown"
             /\ (~ \E w \in out.pack : w.name = n) => \E e \in speaking(n) : e.state = "released"
  <2>1. /\ classifyRef(in.reg, n).state = rec(n).state
        /\ IF speaking(n) = {} THEN rec(n) = [state |-> "unknown", successors |-> << >>] ELSE rec(n) \in speaking(n)
    BY <1>2
  <2>2. rec(n).state # "released" => \E w \in out.pack : w.name = n /\ w.state = rec(n).state
    <3>1. rec(n).state # "released" => warned(n) \in out.pack
      BY <1>1, <2>1
    <3>2. QED
      BY <2>1, <3>1
  <2>3. QED
    BY <2>1, <2>2
<1>4. ASSUME NEW w \in out.pack, w.use # NoMapping
      PROVE  /\ w.state \in {"deprecated", "classicAPI"}
             /\ \E e \in speaking(w.name) : e.state = w.state /\ e.successors # << >> /\ w.use = Head(e.successors)
  <2>1. PICK n \in in.names : w = warned(n)
    BY <1>1
  <2>2. /\ classifyRef(in.reg, n).state = rec(n).state
        /\ classifyRef(in.reg, n).successor = IF rec(n).successors = << >> THEN NoMapping ELSE Head(rec(n).successors)
        /\ IF speaking(n) = {} THEN rec(n) = [state |-> "unknown", successors |-> << >>] ELSE rec(n) \in speaking(n)
    BY <1>2
  <2>3. w.name = n /\ w.state = rec(n).state /\ w.state \in {"deprecated", "classicAPI"}
    BY <1>4, <2>1, <2>2
  <2>4. w.use = classifyRef(in.reg, n).successor
    BY <2>1, <2>2, <2>3
  <2>5. rec(n) \in speaking(n)
    BY <2>2, <2>3
  <2>6. QED
    BY <1>4, <2>2, <2>3, <2>4, <2>5
<1>5. QED
  BY <1>3, <1>4 DEF PackClearsOnlyReleased

(***************************************************************************)
(* For every content of the two registries, every usage export and every   *)
(* review directory: nothing is presumed.                                  *)
(***************************************************************************)
THEOREM ReleaseIsNeverPresumed == ReleaseSpec => []NothingIsPresumed
<1> DEFINE Inv == /\ kind \in DOMAIN AnyRelease /\ input \in AnyRelease[kind]
                  /\ out = Pending \/ out = Release(kind, input)
<1>1. out = Pending /\ kind \in DOMAIN AnyRelease /\ input \in AnyRelease[kind] => Inv
  OBVIOUS
<1>2. Inv /\ [Judge]_inputVars => Inv'
  BY DEF Judge, inputVars
<1>3. Inv => NothingIsPresumed
  <2>1. CASE out = Pending
    BY <2>1 DEF NothingIsPresumed, Pending, Judged, WeakestRowDecides, SuccessorsAreOneRows, PackClearsOnlyReleased,
                NeverStaleBySilence, GateFailsClosed
  <2>2. ASSUME Inv, out = Release(kind, input), kind = "registry"
        PROVE  NothingIsPresumed
    <3>1. input \in AnyRegistry
      BY <2>2 DEF AnyRelease
    <3>2. WeakestRowDecides /\ SuccessorsAreOneRows /\ PackClearsOnlyReleased
      BY <2>2, <3>1, WeakestRowHolds, SuccessorsHold, PackHolds
    <3>3. QED
      BY <2>2, <3>2 DEF NothingIsPresumed, NeverStaleBySilence, GateFailsClosed, Judged
  <2>3. ASSUME Inv, out = Release(kind, input), kind = "usage"
        PROVE  NothingIsPresumed
    <3>1. input \in AnyUsage
      BY <2>3 DEF AnyRelease
    <3>2. NeverStaleBySilence
      BY <2>3, <3>1, UsageHolds
    <3>3. QED
      BY <2>3, <3>2 DEF NothingIsPresumed, WeakestRowDecides, SuccessorsAreOneRows, PackClearsOnlyReleased,
                        GateFailsClosed, Judged
  <2>4. ASSUME Inv, out = Release(kind, input), kind = "gate"
        PROVE  NothingIsPresumed
    <3>1. input \in AnyDirectory
      BY <2>4 DEF AnyRelease
    <3>2. out.gate = evaluateGate(input)
      BY <2>4 DEF Release
    <3>3. GateFailsClosed
      BY <3>1, <3>2, GateHolds DEF GateFailsClosed
    <3>4. QED
      BY <2>4, <3>3 DEF NothingIsPresumed, WeakestRowDecides, SuccessorsAreOneRows, PackClearsOnlyReleased,
                        NeverStaleBySilence, Judged
  <2>5. QED
    BY <2>1, <2>2, <2>3, <2>4 DEF AnyRelease
<1>4. QED
  BY <1>1, <1>2, <1>3, PTL DEF ReleaseSpec
--------------------------------------------------------------------------------
(***************************************************************************)
(* The lanes.                                                              *)
(***************************************************************************)

\* The reasons of both lanes, one by one.
LEMMA Reasons ==
  ASSUME NEW cp
  PROVE  /\ sharedReasons(cp) = {} <=>
              /\ cp.atc_p1 = "zero" /\ cp.atc_p2 = "zero" /\ cp.intact = "yes" /\ cp.lost # "yes"
              /\ passesAuth(cp) /\ passesParity(cp) /\ cp.warn = "held"
         /\ liveReasons(cp) = {} <=> cp.activated = "yes" /\ cp.unit = "green" /\ sharedReasons(cp) = {}
<1> DEFINE Why(r) ==
      CASE r = "atc-p1-nonzero" -> cp.atc_p1 # "zero"
        [] r = "atc-p2-nonzero" -> cp.atc_p2 # "zero"
        [] r = "p4-invariant-broken" -> cp.intact # "yes"
        [] r = "auth-coverage-lost" -> cp.lost = "yes"
        [] r = "auth-delta-unattested" -> ~ passesAuth(cp)
        [] r = "parity-not-equivalent" -> ~ passesParity(cp)
        [] r = "warn-delta-regressed" -> cp.warn # "held"
<1>1. sharedReasons(cp) = {} <=>
        \A r \in {"atc-p1-nonzero", "atc-p2-nonzero", "p4-invariant-broken", "auth-coverage-lost",
                  "auth-delta-unattested", "parity-not-equivalent", "warn-delta-regressed"} : ~ Why(r)
  BY DEF sharedReasons
<1>2. /\ Why("atc-p1-nonzero") <=> cp.atc_p1 # "zero"
      /\ Why("atc-p2-nonzero") <=> cp.atc_p2 # "zero"
      /\ Why("p4-invariant-broken") <=> cp.intact # "yes"
      /\ Why("auth-coverage-lost") <=> cp.lost = "yes"
      /\ Why("auth-delta-unattested") <=> ~ passesAuth(cp)
      /\ Why("parity-not-equivalent") <=> ~ passesParity(cp)
      /\ Why("warn-delta-regressed") <=> cp.warn # "held"
  OBVIOUS
<1>3. sharedReasons(cp) = {} <=>
         /\ ~ Why("atc-p1-nonzero") /\ ~ Why("atc-p2-nonzero") /\ ~ Why("p4-invariant-broken")
         /\ ~ Why("auth-coverage-lost") /\ ~ Why("auth-delta-unattested") /\ ~ Why("parity-not-equivalent")
         /\ ~ Why("warn-delta-regressed")
  <2> HIDE DEF Why
  <2>1. QED
    BY <1>1
<1>4. sharedReasons(cp) = {} <=>
        /\ cp.atc_p1 = "zero" /\ cp.atc_p2 = "zero" /\ cp.intact = "yes" /\ cp.lost # "yes"
        /\ passesAuth(cp) /\ passesParity(cp) /\ cp.warn = "held"
  <2> HIDE DEF Why
  <2>1. QED
    BY <1>2, <1>3
<1>5. liveReasons(cp) = {} <=> cp.activated = "yes" /\ cp.unit = "green" /\ sharedReasons(cp) = {}
  BY DEF liveReasons
<1>6. QED
  BY <1>4, <1>5

\* When each lane passes, and when it parks.
LEMMA LanesPassAndPark ==
  ASSUME NEW cp
  PROVE  LET parks(defects) == cp.block_reason = NO_RELEASED_SUCCESSOR /\ ~ defects
         IN  /\ offlineVerdict(cp).verdict = "PROVISIONAL" <=> ~ parks(sharedDefect(cp)) /\ sharedReasons(cp) = {}
             /\ offlineVerdict(cp).verdict = "PARK" <=> parks(sharedDefect(cp))
             /\ nodeVerdict(cp).verdict = "GREEN" <=> ~ parks(hasDefect(cp)) /\ liveReasons(cp) = {}
             /\ nodeVerdict(cp).verdict = "PARK" <=> parks(hasDefect(cp))
BY DEF offlineVerdict, nodeVerdict, decided, parked

\* The offline lane is the live one without a system, and neither passes on silence.
LEMMA LanesHold ==
  ASSUME NEW in \in AnyCheckpoint, kind = "checkpoint", input = in, out = Given("checkpoint", in)
  PROVE  LiveImpliesOffline /\ SilenceNeverPasses
<1>1. out.live = nodeVerdict(in) /\ out.offline = offlineVerdict(in)
  BY DEF Given
<1>2. hasDefect(in) <=> sharedDefect(in) \/ in.unit \notin {Missing, "green"}
  BY DEF hasDefect, defect
<1>3. sharedDefect(in) <=>
        \/ in.intact \notin {Missing, "yes"} \/ in.lost \notin {Missing, "no"}
        \/ in.atc_p1 \notin {Missing, "zero"} \/ in.atc_p2 \notin {Missing, "zero"}
        \/ (in.parity # Missing /\ ~ passesParity(in)) \/ ~ passesAuth(in) \/ in.warn \notin {Missing, "held"}
  BY DEF sharedDefect, defect
<1>4. LiveImpliesOffline
  BY <1>1, <1>2, LanesPassAndPark, Reasons DEF LiveImpliesOffline, Missing
<1>5. ASSUME out.offline.verdict = "PROVISIONAL"
      PROVE  /\ Missing \notin {in.atc_p1, in.atc_p2, in.intact, in.parity, in.warn}
             /\ in.parity = "needs_review" => "parity_equivalence" \in in.attestations
             /\ in.auth_delta = "yes" => "auth_equivalence" \in in.attestations
  <2>1. /\ in.atc_p1 = "zero" /\ in.atc_p2 = "zero" /\ in.intact = "yes" /\ in.warn = "held"
        /\ passesAuth(in) /\ passesParity(in)
    BY <1>1, <1>5, LanesPassAndPark, Reasons
  <2>2. QED
    BY <2>1 DEF passesAuth, passesParity, PASS_PARITY, Missing
<1>6. ASSUME out.live.verdict = "GREEN" PROVE Missing \notin {in.activated, in.unit}
  BY <1>1, <1>6, LanesPassAndPark, Reasons DEF Missing
<1>7. ASSUME out.offline.verdict = "PARK"
      PROVE  /\ "some" \notin {in.atc_p1, in.atc_p2}
             /\ in.intact # "no" /\ in.lost \in {Missing, "no"}
             /\ in.parity \notin {"scope_reduced", "auth_vanished"} /\ in.warn # "grown"
  <2>1. ~ sharedDefect(in)
    BY <1>1, <1>7, LanesPassAndPark
  <2>2. in.parity \in {Missing, "needs_review"} \cup PASS_PARITY
    BY <2>1, <1>3 DEF passesParity
  <2>3. QED
    BY <1>3, <2>1, <2>2 DEF Missing, PASS_PARITY
<1>8. QED
  BY <1>4, <1>5, <1>6, <1>7 DEF SilenceNeverPasses

(***************************************************************************)
(* The verdict step over two sources.                                      *)
(***************************************************************************)

Cp(before, after, att) == offlineCheckpoint(before, after, {}, att)

\* The final review adds reasons of its own to those of the verdict.
LEMMA FinalReview ==
  ASSUME NEW result, NEW triaged, NEW att
  PROVE  LET un == unanalysableReasons(UNION {triaged[x] : x \in DOMAIN triaged})
             r == applyFinalReview(result, triaged, att)
         IN  /\ r.provisional <=> /\ result.provisional /\ fixReasons(triaged["fix"]) = {}
                                  /\ "artifact_reviewed" \in att \/ un = {}
             /\ r.reasons = result.reasons \cup fixReasons(triaged["fix"])
                              \cup (IF "artifact_reviewed" \in att THEN {} ELSE un)
<1> DEFINE un == unanalysableReasons(UNION {triaged[x] : x \in DOMAIN triaged})
           fix == fixReasons(triaged["fix"])
           owed == IF "artifact_reviewed" \in att THEN {} ELSE un
<1>1. applyFinalReview(result, triaged, att) =
        [provisional |-> result.provisional /\ fix \cup owed = {}, reasons |-> result.reasons \cup (fix \cup owed)]
  BY DEF applyFinalReview
<1> HIDE DEF un, fix
<1>2. /\ applyFinalReview(result, triaged, att).provisional <=> result.provisional /\ fix \cup owed = {}
      /\ applyFinalReview(result, triaged, att).reasons = result.reasons \cup (fix \cup owed)
  <2> DEFINE pass == result.provisional /\ fix \cup owed = {}
             told == result.reasons \cup (fix \cup owed)
  <2> HIDE DEF pass, told
  <2>1. applyFinalReview(result, triaged, att) = [provisional |-> pass, reasons |-> told]
    BY <1>1 DEF pass, told
  <2>2. applyFinalReview(result, triaged, att).provisional = pass
    BY <2>1
  <2>3. applyFinalReview(result, triaged, att).reasons = told
    BY <2>1
  <2>4. QED
    BY <2>2, <2>3 DEF pass, told
<1>3. fix \cup owed = {} <=> fix = {} /\ ("artifact_reviewed" \in att \/ un = {})
  OBVIOUS
<1>4. QED
  BY <1>2, <1>3 DEF un, fix

\* What a pass of the verdict step without findings means for its checkpoint.
LEMMA StepPasses ==
  ASSUME NEW before, NEW after, NEW att
  PROVE  LET b == assembleBundle(before)
             a == assembleBundle(after)
             p == parity(diffBundles(b, a))
         IN  offlineStep(before, after, {}, att).provisional <=>
               /\ violations(b, a) = {} /\ ~ lostScopes(b, a)
               /\ ~ auth_delta(b, a) \/ "auth_equivalence" \in att
               /\ p \in PASS_PARITY \/ (p = "needs_review" /\ "parity_equivalence" \in att)
<1> DEFINE b == assembleBundle(before)
           a == assembleBundle(after)
           p == parity(diffBundles(b, a))
           cp == Cp(before, after, att)
<1>1. /\ cp.block_reason = Missing /\ cp.atc_p1 = "zero" /\ cp.atc_p2 = "zero" /\ cp.warn = "held"
      /\ cp.parity = p /\ cp.attestations = att
      /\ cp.intact = yesNo(violations(b, a) = {}) /\ cp.lost = yesNo(lostScopes(b, a))
      /\ cp.auth_delta = yesNo(auth_delta(b, a))
  BY DEF Cp, offlineCheckpoint, severe, invariantDiff
<1>2. offlineStep(before, after, {}, att).provisional <=> offlineVerdict(cp).verdict = "PROVISIONAL"
  <2>1. renderOffline(cp, {}).provisional <=> offlineVerdict(cp).verdict = "PROVISIONAL"
    BY DEF renderOffline
  <2>2. \A x \in DOMAIN triageAll({}) : triageAll({})[x] = {}
    BY DEF triageAll
  <2>3. fixReasons(triageAll({})["fix"]) = {} /\ unanalysableReasons(UNION {triageAll({})[x] : x \in DOMAIN triageAll({})}) = {}
    BY <2>2 DEF triageAll, fixReasons, unanalysableReasons
  <2>4. offlineStep(before, after, {}, att) = applyFinalReview(renderOffline(cp, {}), triageAll({}), att)
    BY DEF offlineStep, Cp
  <2>5. QED
    BY <2>1, <2>3, <2>4, FinalReview
<1>3. offlineVerdict(cp).verdict = "PROVISIONAL" <=>
        cp.intact = "yes" /\ cp.lost # "yes" /\ passesAuth(cp) /\ passesParity(cp)
  BY <1>1, LanesPassAndPark, Reasons DEF Missing, NO_RELEASED_SUCCESSOR
<1>4. /\ cp.intact = "yes" <=> violations(b, a) = {}
      /\ cp.lost # "yes" <=> ~ lostScopes(b, a)
      /\ passesAuth(cp) <=> ~ auth_delta(b, a) \/ "auth_equivalence" \in att
      /\ passesParity(cp) <=> p \in PASS_PARITY \/ (p = "needs_review" /\ "parity_equivalence" \in att)
  BY <1>1 DEF yesNo, passesAuth, passesParity
<1>5. QED
  BY <1>2, <1>3, <1>4

\* The fields of a bundle that the comparisons read, in terms of the source.
LEMMA BundleOfSource ==
  ASSUME NEW src \in AnySource, NEW x, x = assembleBundle(src)
  PROVE  /\ ~ src.unreadable => x.auth_checks = UNION {authChecks(src.abap, i) : i \in Of(src.abap, {"AuthorityCheck"})}
         /\ x.unreadable = src.unreadable
         /\ objects(x.dcl_restrictions) = Restricted(src)
         /\ x.dcl_restrictions = {[object |-> g.object, entity |-> g.entity] : g \in {y \in src.grants : y.form = "pfcg_auth"}}
         /\ entities(x.dcl_grants) = granted(src)
         /\ entities(x.auth_bdef) = Authorized(src)
         /\ objects(enforced(x.auth_checks)) = Checked(src)
         /\ \A e \in src.bypassed : \E c \in x.privileged_cds : c.object = e /\ (c.had_row_auth <=> e \in granted(src))
<1>1. /\ x.auth_checks = extractAst(src).auth_checks /\ x.unreadable = extractAst(src).unreadable
      /\ x.dcl_restrictions = extractBdefDcl(src).dcl_restrictions /\ x.dcl_grants = extractBdefDcl(src).dcl_grants
      /\ x.auth_bdef = extractBdefDcl(src).auth_bdef
      /\ x.privileged_cds = mergePrivileged(extractBdefDcl(src), extractAst(src))
  BY DEF assembleBundle
<1>2. /\ ~ src.unreadable => x.auth_checks = UNION {authChecks(src.abap, i) : i \in Of(src.abap, {"AuthorityCheck"})}
      /\ x.unreadable = src.unreadable
  BY <1>1 DEF extractAst
<1>3. /\ x.dcl_restrictions = {[object |-> g.object, entity |-> g.entity] : g \in {y \in src.grants : y.form = "pfcg_auth"}}
      /\ x.dcl_grants = {[entity |-> g.entity, form |-> g.form] : g \in src.grants}
      /\ x.auth_bdef = {[entity |-> b.entity, mode |-> b.mode] : b \in {y \in src.behaviours : y.mode # None}}
  BY <1>1 DEF extractBdefDcl
<1>4. objects(x.dcl_restrictions) = Restricted(src)
  <2> DEFINE G == {y \in src.grants : y.form = "pfcg_auth"}
  <2>1. ASSUME NEW g \in G PROVE \E d \in x.dcl_restrictions : d.object = g.object
    <3>1. [object |-> g.object, entity |-> g.entity] \in x.dcl_restrictions
      BY <1>3
    <3>2. QED
      BY <3>1
  <2>2. ASSUME NEW d \in x.dcl_restrictions PROVE \E g \in G : d.object = g.object
    <3>1. PICK g \in G : d = [object |-> g.object, entity |-> g.entity]
      BY <1>3
    <3>2. QED
      BY <3>1
  <2>3. QED
    BY <2>1, <2>2 DEF objects, Restricted
<1>5. entities(x.dcl_grants) = granted(src)
  <2>1. ASSUME NEW g \in src.grants PROVE \E d \in x.dcl_grants : d.entity = g.entity
    <3>1. [entity |-> g.entity, form |-> g.form] \in x.dcl_grants
      BY <1>3
    <3>2. QED
      BY <3>1
  <2>2. ASSUME NEW d \in x.dcl_grants PROVE \E g \in src.grants : d.entity = g.entity
    <3>1. PICK g \in src.grants : d = [entity |-> g.entity, form |-> g.form]
      BY <1>3
    <3>2. QED
      BY <3>1
  <2>3. QED
    BY <2>1, <2>2 DEF entities, granted
<1>6. entities(x.auth_bdef) = Authorized(src)
  <2> DEFINE B == {y \in src.behaviours : y.mode # None}
  <2>1. ASSUME NEW b \in B PROVE \E d \in x.auth_bdef : d.entity = b.entity
    <3>1. [entity |-> b.entity, mode |-> b.mode] \in x.auth_bdef
      BY <1>3
    <3>2. QED
      BY <3>1
  <2>2. ASSUME NEW d \in x.auth_bdef PROVE \E b \in B : d.entity = b.entity
    <3>1. PICK b \in B : d = [entity |-> b.entity, mode |-> b.mode]
      BY <1>3
    <3>2. QED
      BY <3>1
  <2>3. QED
    BY <2>1, <2>2 DEF entities, Authorized
<1>7. objects(enforced(x.auth_checks)) = Checked(src)
  BY DEF objects, Checked
<1>8. ASSUME NEW e \in src.bypassed
      PROVE  \E c \in x.privileged_cds : c.object = e /\ (c.had_row_auth <=> e \in granted(src))
  <2>1. [object |-> e, had_row_auth |-> e \in granted(src)] \in x.privileged_cds
    BY <1>1 DEF mergePrivileged, extractBdefDcl
  <2>2. QED
    BY <2>1
<1>9. QED
  BY <1>2, <1>3, <1>4, <1>5, <1>6, <1>7, <1>8

\* What a source commits is a number.
LEMMA CommitsAreCounted ==
  ASSUME NEW src \in AnySource
  PROVE  /\ assembleBundle(src).commit_work \in Nat
         /\ assembleBundle(src).exception_paths \in Nat /\ assembleBundle(src).cfg_branches \in Nat
<1> DEFINE s == IF src.unreadable THEN << >> ELSE src.abap
<1>1. s \in Seq(AnyStatement)
  BY DEF AnySource
<1>2. ASSUME NEW kinds PROVE Count(s, kinds) \in Nat
  <2> HIDE DEF s
  <2>1. Of(s, kinds) \in SUBSET (1..Len(s)) /\ Len(s) \in Nat
    BY <1>1 DEF Of
  <2>2. IsFiniteSet(Of(s, kinds))
    <3>1. IsFiniteSet(1..Len(s))
      BY <2>1, FS_Interval
    <3>2. QED
      BY <2>1, <3>1, FS_Subset
  <2>3. QED
    BY <2>2, FS_CardinalityType DEF Count
<1>3. extractBdefDcl(src).save_boundaries \in Nat
  <2>1. IsFiniteSet({b \in src.behaviours : b.saves})
    BY FS_Subset DEF AnySource
  <2>2. QED
    BY <2>1, FS_CardinalityType DEF extractBdefDcl
<1>4. /\ assembleBundle(src).commit_work = Count(s, {"Commit", "CommitEntities"}) + extractBdefDcl(src).save_boundaries
      /\ assembleBundle(src).exception_paths = Count(s, EXCEPTION_KINDS)
      /\ assembleBundle(src).cfg_branches = Count(s, CFG_BRANCH_KINDS)
  BY DEF assembleBundle, extractAst
<1>5. QED
  BY <1>2, <1>3, <1>4

\* A place at most three further on is one of the next three.
LEMMA NextThree ==
  ASSUME NEW S, NEW s \in Seq(S), NEW i \in DOMAIN s, NEW j \in (i + 1)..Len(s), j <= i + 3
  PROVE  j \in {i + 1, i + 2, i + 3} \cap DOMAIN s
OBVIOUS

\* No attestation buys back a protection that was lost.
LEMMA BuysBackHolds ==
  ASSUME NEW in, in \in AnyJudging["sources"], kind = "sources", input = in, out = Given("sources", in)
  PROVE  NothingBuysBack
<1> DEFINE before == in.before
           after == in.after
           b == assembleBundle(before)
           a == assembleBundle(after)
           kept == Checked(after) \cup Restricted(after)
<1> SUFFICES ASSUME out.passes # {}
             PROVE  /\ Checked(before) \subseteq kept
                    /\ \A g \in before.grants : g.form = "pfcg_auth" => g.object \in kept \/ g.entity \in granted(after)
                    /\ Authorized(before) \subseteq Authorized(after)
                    /\ after.bypassed \cap granted(after) \subseteq objects(b.privileged_cds)
                    /\ ~ before.unreadable /\ ~ after.unreadable
                    /\ a.commit_work >= b.commit_work
                    /\ \A i \in Of(after.abap, {"AuthorityCheck"}) :
                         \/ after.abap[i].ids # {} /\ \A x \in after.abap[i].ids : x.dummy
                         \/ Evaluated(after.abap, i)
  BY DEF NothingBuysBack
<1>1. before \in AnySource /\ after \in AnySource
  BY DEF AnyJudging
<1>2. PICK att \in Attestations : offlineStep(before, after, {}, att).provisional
  BY DEF Given
<1>3. violations(b, a) = {} /\ ~ lostScopes(b, a)
  BY <1>2, StepPasses
<1>4. lostChecks(b, a) = {} /\ dclLoss(b, a) = {} /\ bdefLoss(b, a) = {} /\ privilegedLoss(b, a) = {}
  BY <1>3 DEF lostScopes
<1>5. /\ ~ (a.commit_work < b.commit_work)
      /\ ~ \E c \in enforced(a.auth_checks) : ~ c.subrc_checked
      /\ ~ (b.unreadable \/ a.unreadable)
  BY <1>3 DEF violations
<1>6. Checked(before) \subseteq kept
  <2>1. ASSUME NEW c \in enforced(b.auth_checks)
        PROVE  c.object \in objects(enforced(a.auth_checks)) \cup objects(a.dcl_restrictions)
    <3>1. <<c.object, c.field>> \in pairs(enforced(a.auth_checks)) \/ c.object \in objects(a.dcl_restrictions)
      BY <1>4 DEF lostChecks
    <3>2. QED
      BY <3>1 DEF pairs, objects
  <2>2. \A o \in objects(enforced(b.auth_checks)) : \E c \in enforced(b.auth_checks) : o = c.object
    BY DEF objects
  <2>3. QED
    BY <1>1, <2>1, <2>2, BundleOfSource
<1>7. ASSUME NEW g \in before.grants, g.form = "pfcg_auth" PROVE g.object \in kept \/ g.entity \in granted(after)
  <2>1. PICK d \in b.dcl_restrictions : d.object = g.object /\ d.entity = g.entity
    <3>1. [object |-> g.object, entity |-> g.entity] \in b.dcl_restrictions
      BY <1>1, <1>7, BundleOfSource
    <3>2. QED
      BY <3>1
  <2>2. d.object \in objects(a.dcl_restrictions) \cup objects(enforced(a.auth_checks)) \/ d.entity \in entities(a.dcl_grants)
    BY <1>4 DEF dclLoss
  <2>3. QED
    BY <1>1, <2>1, <2>2, BundleOfSource
<1>8. Authorized(before) \subseteq Authorized(after)
  <2>1. \A x \in b.auth_bdef : x.entity \in entities(a.auth_bdef)
    BY <1>4 DEF bdefLoss
  <2>2. entities(b.auth_bdef) \subseteq entities(a.auth_bdef)
    BY <2>1 DEF entities
  <2>3. QED
    BY <1>1, <2>2, BundleOfSource
<1>9. after.bypassed \cap granted(after) \subseteq objects(b.privileged_cds)
  <2>1. ASSUME NEW e \in after.bypassed \cap granted(after) PROVE e \in objects(b.privileged_cds)
    <3>1. PICK c \in a.privileged_cds : c.object = e /\ c.had_row_auth
      BY <1>1, BundleOfSource
    <3>2. QED
      BY <1>4, <3>1 DEF privilegedLoss
  <2>2. QED
    BY <2>1
<1>10. ~ before.unreadable /\ ~ after.unreadable
  BY <1>1, <1>5, BundleOfSource
<1>11. a.commit_work >= b.commit_work
  BY <1>1, <1>5, CommitsAreCounted
<1>12. ASSUME NEW i \in Of(after.abap, {"AuthorityCheck"}),
              ~ (after.abap[i].ids # {} /\ \A x \in after.abap[i].ids : x.dummy)
       PROVE  Evaluated(after.abap, i)
  <2> DEFINE s == after.abap
             ids == IF s[i].ids = {} THEN {[field |-> "", dummy |-> FALSE]} ELSE s[i].ids
  <2>1. PICK id \in ids : ~ id.dummy
    BY <1>12
  <2>2. [object |-> s[i].object, field |-> id.field, dummy |-> id.dummy, subrc_checked |-> subrcCheckedAfter(s, i)]
          \in authChecks(s, i)
    BY DEF authChecks
  <2>3. authChecks(s, i) \subseteq a.auth_checks
    <3>1. a.auth_checks = UNION {authChecks(s, k) : k \in Of(s, {"AuthorityCheck"})}
      BY <1>1, <1>10, BundleOfSource
    <3>2. QED
      BY <3>1
  <2>4. subrcCheckedAfter(s, i)
    <3> DEFINE c == [object |-> s[i].object, field |-> id.field, dummy |-> id.dummy, subrc_checked |-> subrcCheckedAfter(s, i)]
    <3>1. c \in enforced(a.auth_checks)
      BY <2>1, <2>2, <2>3 DEF enforced
    <3>2. QED
      BY <1>5, <3>1
  <2>5. PICK j \in (i + 1)..Len(s) : j <= i + 3 /\ s[j].subrc /\ \A k \in (i + 1)..(j - 1) : s[k].kind \in SUBRC_SAFE
    BY <2>4 DEF subrcCheckedAfter, SubrcWithin, SUBRC_LOOKAHEAD
  <2>6. s \in Seq(AnyStatement) /\ i \in DOMAIN s
    BY <1>1 DEF AnySource, Of
  <2>7. j \in {i + 1, i + 2, i + 3} \cap DOMAIN s
    BY <2>5, <2>6, NextThree
  <2>8. SUBRC_SAFE \cap Overwriting = {}
    BY DEF SUBRC_SAFE, Overwriting
  <2>9. QED
    BY <2>5, <2>7, <2>8 DEF Evaluated
<1>13. QED
  BY <1>6, <1>7, <1>8, <1>9, <1>10, <1>11, <1>12

\* An artifact equal to its original passes without any attestation.
LEMMA UnchangedHolds ==
  ASSUME NEW in, in \in AnyJudging["sources"], kind = "sources", input = in, out = Given("sources", in)
  PROVE  UnchangedOwesNothing
<1> DEFINE s == in.after
           a == assembleBundle(s)
           d == diffBundles(a, a)
<1> SUFFICES ASSUME in.before = s, ~ s.unreadable,
                    ~ \E c \in a.auth_checks : c.dummy \/ ~ c.subrc_checked
             PROVE  {} \in out.passes
  BY DEF UnchangedOwesNothing
<1>1. s \in AnySource
  BY DEF AnyJudging
<1>2. /\ a.commit_work \in Nat /\ a.exception_paths \in Nat /\ a.cfg_branches \in Nat
      /\ a.unreadable = s.unreadable
  BY <1>1, CommitsAreCounted, BundleOfSource
<1>3. enforced(a.auth_checks) = a.auth_checks
  BY DEF enforced
<1>4. violations(a, a) = {}
  <2>1. ~ (a.commit_work < a.commit_work)
    BY <1>2
  <2>2. ~ \E c \in enforced(a.auth_checks) : ~ c.subrc_checked
    BY <1>3
  <2>3. ~ a.unreadable
    BY <1>2
  <2> HIDE DEF a
  <2>4. QED
    BY <2>1, <2>2, <2>3 DEF violations
<1>5. ~ lostScopes(a, a)
  <2>1. lostChecks(a, a) = {}
    BY DEF lostChecks, pairs
  <2>2. dclLoss(a, a) = {}
    BY DEF dclLoss, objects
  <2>3. bdefLoss(a, a) = {}
    BY DEF bdefLoss, entities
  <2>4. privilegedLoss(a, a) = {}
    BY DEF privilegedLoss, objects
  <2>5. QED
    BY <2>1, <2>2, <2>3, <2>4 DEF lostScopes
<1>6. ~ auth_delta(a, a)
  BY <1>3 DEF auth_delta
<1>7. /\ ~ d.auth_vanished /\ ~ d.paradigm_shift /\ ~ d.auth_object_changed
      /\ ~ d.exception_path_dropped /\ ~ d.cfg_branch_regression
  <2>1. ~ paradigmShift(a, a)
    BY DEF paradigmShift
  <2>2. /\ d.auth_vanished = (authObjects(a) # {} /\ authObjects(a) = {})
        /\ d.paradigm_shift = paradigmShift(a, a)
        /\ d.auth_object_changed = (authObjects(a) # authObjects(a))
        /\ d.exception_path_dropped = (~ paradigmShift(a, a) /\ a.exception_paths < a.exception_paths)
        /\ d.cfg_branch_regression = (~ paradigmShift(a, a) /\ a.cfg_branches < a.cfg_branches)
    BY DEF diffBundles
  <2>3. ~ (a.exception_paths < a.exception_paths) /\ ~ (a.cfg_branches < a.cfg_branches)
    BY <1>2
  <2>4. ~ (authObjects(a) # {} /\ authObjects(a) = {})
    OBVIOUS
  <2> HIDE DEF d, a
  <2>5. QED
    BY <2>1, <2>2, <2>3, <2>4
<1>8. score(d) \in {85, 100}
  BY <1>7 DEF score
<1>9. parity(d) \in PASS_PARITY
  <2> HIDE DEF d
  <2>1. parity(d) = band(score(d), classifyParity(d))
    BY <1>7 DEF parity
  <2>2. \A k \in {85, 100} : \A classes : band(k, classes) \in {"PASS_STRUCTURAL", "equivalent"}
    BY DEF band
  <2>3. QED
    BY <1>8, <2>1, <2>2 DEF PASS_PARITY
<1>10. offlineStep(s, s, {}, {}).provisional
  BY <1>4, <1>5, <1>6, <1>9, StepPasses
<1>11. {} \in Attestations
  BY DEF Attestations
<1>12. QED
  BY <1>10, <1>11 DEF Given

\* What is declared is counted: something, or nothing.
LEMMA DeclarativeIsCounted ==
  ASSUME NEW src \in AnySource, NEW n, n = assembleBundle(src).declarative_artifacts
  PROVE  /\ src.grants = {} /\ src.behaviours = {} => n = 0
         /\ (src.grants # {} \/ \E b \in src.behaviours : b.saves \/ b.linked \/ b.mode # None) => n > 0
<1> DEFINE S == {b \in src.behaviours : b.saves}
           M == {[entity |-> b.entity, mode |-> b.mode] : b \in {x \in src.behaviours : x.mode # None}}
           G == {[entity |-> g.entity, form |-> g.form] : g \in src.grants}
           L == {b \in src.behaviours : b.linked}
<1>1. n = Cardinality(S) + Cardinality(M) + Cardinality(G) + Cardinality(L)
  BY DEF assembleBundle, extractBdefDcl
<1>2. IsFiniteSet(src.grants) /\ IsFiniteSet(src.behaviours)
  BY DEF AnySource
<1>3. IsFiniteSet(S) /\ IsFiniteSet(L) /\ IsFiniteSet({x \in src.behaviours : x.mode # None})
  BY <1>2, FS_Subset
<1>4. IsFiniteSet(M)
  <2> DEFINE B == {x \in src.behaviours : x.mode # None}
             f == [b \in B |-> [entity |-> b.entity, mode |-> b.mode]]
  <2>1. f \in Surjection(B, M)
    BY DEF Surjection
  <2>2. QED
    BY <1>3, <2>1, FS_Surjection
<1>5. IsFiniteSet(G)
  <2> DEFINE f == [g \in src.grants |-> [entity |-> g.entity, form |-> g.form]]
  <2>1. f \in Surjection(src.grants, G)
    BY DEF Surjection
  <2>2. QED
    BY <1>2, <2>1, FS_Surjection
<1>6. /\ Cardinality(S) \in Nat /\ (Cardinality(S) = 0 <=> S = {})
      /\ Cardinality(M) \in Nat /\ (Cardinality(M) = 0 <=> M = {})
      /\ Cardinality(G) \in Nat /\ (Cardinality(G) = 0 <=> G = {})
      /\ Cardinality(L) \in Nat /\ (Cardinality(L) = 0 <=> L = {})
  BY <1>3, <1>4, <1>5, FS_CardinalityType, FS_EmptySet
<1>7. ASSUME src.grants = {}, src.behaviours = {} PROVE S = {} /\ M = {} /\ G = {} /\ L = {}
  BY <1>7
<1>8. ASSUME src.grants # {} \/ \E b \in src.behaviours : b.saves \/ b.linked \/ b.mode # None
      PROVE  S # {} \/ M # {} \/ G # {} \/ L # {}
  BY <1>8
<1> HIDE DEF S, M, G, L
<1>9. S = {} /\ M = {} /\ G = {} /\ L = {} => n = 0
  BY <1>1, <1>6
<1>10. S # {} \/ M # {} \/ G # {} \/ L # {} => n > 0
  BY <1>1, <1>6
<1>11. QED
  BY <1>7, <1>8, <1>9, <1>10

\* A change of paradigm passes only when attested.
LEMMA ParadigmHolds ==
  ASSUME NEW in, in \in AnyJudging["sources"], kind = "sources", input = in, out = Given("sources", in)
  PROVE  ParadigmNeverPassesSilently
<1> DEFINE b == assembleBundle(in.before)
           a == assembleBundle(in.after)
           d == diffBundles(b, a)
<1> SUFFICES ASSUME in.before.grants = {}, in.before.behaviours = {},
                    in.after.grants # {} \/ \E x \in in.after.behaviours : x.saves \/ x.linked \/ x.mode # None,
                    NEW att \in out.passes
             PROVE  "parity_equivalence" \in att
  BY DEF ParadigmNeverPassesSilently
<1>1. in.before \in AnySource /\ in.after \in AnySource
  BY DEF AnyJudging
<1>2. paradigmShift(b, a)
  BY <1>1, DeclarativeIsCounted DEF paradigmShift
<1>3. d.paradigm_shift
  <2>1. d.paradigm_shift = paradigmShift(b, a)
    BY DEF diffBundles
  <2>2. QED
    BY <1>2, <2>1
<1>4. score(d) \in Int
  <2> HIDE DEF d
  <2>1. QED
    BY DEF score
<1>5. parity(d) \in {"auth_vanished", "needs_review", "scope_reduced"}
  <2> HIDE DEF d
  <2>1. CASE d.auth_vanished
    BY <2>1 DEF parity
  <2>2. CASE ~ d.auth_vanished /\ score(d) >= 30
    BY <1>3, <2>2 DEF parity
  <2>3. CASE ~ d.auth_vanished /\ ~ (score(d) >= 30)
    <3>1. parity(d) = band(score(d), classifyParity(d))
      BY <2>3 DEF parity
    <3>2. score(d) < 30
      BY <1>4, <2>3
    <3>3. QED
      BY <1>4, <3>1, <3>2 DEF band
  <2>4. QED
    BY <2>1, <2>2, <2>3
<1>6. parity(d) \in PASS_PARITY \/ (parity(d) = "needs_review" /\ "parity_equivalence" \in att)
  <2>1. offlineStep(in.before, in.after, {}, att).provisional
    BY DEF Given
  <2>2. QED
    BY <2>1, StepPasses
<1>7. QED
  BY <1>5, <1>6 DEF PASS_PARITY

(***************************************************************************)
(* Counting by rank.                                                       *)
(***************************************************************************)

\* R orders S: of two elements exactly one comes before the other.
Orders(R, S) ==
  /\ \A x \in S : <<x, x>> \notin R
  /\ \A x, y \in S : x # y => <<x, y>> \in R \/ <<y, x>> \in R
  /\ \A x, y, z \in S : <<x, y>> \in R /\ <<y, z>> \in R => <<x, z>> \in R

Rank(R, S, e) == Cardinality({x \in S : <<x, e>> \in R})

\* A rank is a number below the size of the set, and grows with the order.
LEMMA RankGrows ==
  ASSUME NEW S, IsFiniteSet(S), NEW R, Orders(R, S)
  PROVE  /\ \A e \in S : Rank(R, S, e) \in 0..(Cardinality(S) - 1)
         /\ \A x, y \in S : <<x, y>> \in R => Rank(R, S, x) < Rank(R, S, y)
<1> DEFINE before(e) == {x \in S : <<x, e>> \in R}
<1>1. ASSUME NEW e \in S
      PROVE  /\ IsFiniteSet(before(e)) /\ Cardinality(before(e)) \in Nat
             /\ Cardinality(before(e)) < Cardinality(S) /\ Cardinality(S) \in Nat
  <2>1. before(e) \in SUBSET S /\ e \notin before(e)
    BY DEF Orders
  <2>2. before(e) # S
    BY <2>1
  <2> HIDE DEF before
  <2>3. /\ IsFiniteSet(before(e)) /\ Cardinality(before(e)) <= Cardinality(S)
        /\ Cardinality(S) # Cardinality(before(e))
    BY <2>1, <2>2, FS_Subset
  <2>4. Cardinality(before(e)) \in Nat /\ Cardinality(S) \in Nat
    BY <2>3, FS_CardinalityType
  <2>5. QED
    BY <2>3, <2>4
<1>2. ASSUME NEW x \in S, NEW y \in S, <<x, y>> \in R
      PROVE  Cardinality(before(x)) < Cardinality(before(y))
  <2>1. before(x) \in SUBSET before(y)
    BY <1>2 DEF Orders
  <2>2. x \in before(y) /\ x \notin before(x)
    BY <1>2 DEF Orders
  <2>3. before(x) # before(y)
    BY <2>2
  <2>4. IsFiniteSet(before(y)) /\ Cardinality(before(x)) \in Nat /\ Cardinality(before(y)) \in Nat
    BY <1>1
  <2> HIDE DEF before
  <2>5. Cardinality(before(x)) <= Cardinality(before(y)) /\ Cardinality(before(y)) # Cardinality(before(x))
    BY <2>1, <2>3, <2>4, FS_Subset
  <2>6. QED
    BY <2>4, <2>5
<1>3. \A e : Rank(R, S, e) = Cardinality(before(e))
  BY DEF Rank
<1> HIDE DEF before
<1>4. \A e \in S : Rank(R, S, e) \in 0..(Cardinality(S) - 1)
  BY <1>1, <1>3
<1>5. QED
  BY <1>2, <1>3, <1>4

\* The numbers below n are n.
LEMMA Interval ==
  ASSUME NEW n \in Nat
  PROVE  IsFiniteSet(0..(n - 1)) /\ Cardinality(0..(n - 1)) = n
<1>1. 0 \in Int /\ n - 1 \in Int
  OBVIOUS
<1>2. IsFiniteSet(0..(n - 1)) /\ Cardinality(0..(n - 1)) = IF 0 > n - 1 THEN 0 ELSE (n - 1) - 0 + 1
  BY <1>1, FS_Interval
<1>3. (IF 0 > n - 1 THEN 0 ELSE (n - 1) - 0 + 1) = n
  OBVIOUS
<1>4. QED
  BY <1>2, <1>3

\* The first m of a finite set are m.
LEMMA FirstOnes ==
  ASSUME NEW S, IsFiniteSet(S), NEW R, Orders(R, S), NEW m \in Nat, m <= Cardinality(S)
  PROVE  Cardinality({e \in S : Rank(R, S, e) < m}) = m
<1> DEFINE n == Cardinality(S)
           rank == [e \in S |-> Rank(R, S, e)]
           T == {e \in S : Rank(R, S, e) < m}
           low == [e \in T |-> Rank(R, S, e)]
<1>1. n \in Nat
  BY FS_CardinalityType
<1>2. \A e \in S : Rank(R, S, e) \in 0..(n - 1)
  BY RankGrows
<1>3. ASSUME NEW x \in S, NEW y \in S, Rank(R, S, x) = Rank(R, S, y) PROVE x = y
  <2>1. Rank(R, S, x) \in Int /\ Rank(R, S, y) \in Int
    BY <1>2
  <2>2. x # y => <<x, y>> \in R \/ <<y, x>> \in R
    BY DEF Orders
  <2>3. <<x, y>> \notin R /\ <<y, x>> \notin R
    BY <1>3, <2>1, RankGrows
  <2>4. QED
    BY <2>2, <2>3
<1>4. rank \in Injection(S, 0..(n - 1))
  <2>1. rank \in [S -> 0..(n - 1)]
    BY <1>2
  <2>2. \A x, y \in S : rank[x] = rank[y] => x = y
    BY <1>3
  <2> HIDE DEF rank
  <2>3. QED
    BY <2>1, <2>2 DEF Injection, IsInjective
<1>5. IsFiniteSet(0..(n - 1)) /\ Cardinality(0..(n - 1)) = n
  BY <1>1, Interval
<1>6. rank \in Surjection(S, 0..(n - 1))
  <2> HIDE DEF rank, n
  <2>1. QED
    BY <1>4, <1>5, FS_Injection DEF n
<1>7. low \in Surjection(T, 0..(m - 1))
  <2>1. low \in [T -> 0..(m - 1)]
    BY <1>2
  <2>2. ASSUME NEW k \in 0..(m - 1) PROVE \E e \in T : low[e] = k
    <3>1. k \in 0..(n - 1)
      BY <1>1
    <3>2. PICK e \in S : rank[e] = k
      BY <1>6, <3>1 DEF Surjection
    <3>3. QED
      BY <3>2
  <2>3. QED
    BY <2>1, <2>2 DEF Surjection
<1>8. low \in Injection(T, 0..(m - 1))
  <2>1. \A x, y \in T : low[x] = low[y] => x = y
    BY <1>3
  <2>2. low \in [T -> 0..(m - 1)]
    BY <1>7 DEF Surjection
  <2> HIDE DEF low, T
  <2>3. QED
    BY <2>1, <2>2 DEF Injection, IsInjective
<1>9. IsFiniteSet(0..(m - 1)) /\ Cardinality(0..(m - 1)) = m
  BY Interval
<1>10. Cardinality(T) = Cardinality(0..(m - 1))
  <2> HIDE DEF low, T
  <2>1. QED
    BY <1>7, <1>8, <1>9, FS_Injection
<1>11. QED
  BY <1>9, <1>10

\* What fills the window is critical, or older than what is left out.
LEMMA RegisterHolds ==
  ASSUME NEW in, in \in AnyJudging["register"], kind = "register", input = in, out = Given("register", in)
  PROVE  CriticalIsSurfaced
<1> DEFINE S == in.open
           RowOf == [id : Int, critical : BOOLEAN, opened : Int]
           R == {p \in RowOf \X RowOf : goesFirst(p[1], p[2])}
           left == S \ out.surfaced
<1>1. S \in SUBSET RowOf /\ IsFiniteSet(S) /\ UniqueIds(S) /\ in.max \in Nat
  BY DEF AnyJudging
<1>2. \A x, y \in S : <<x, y>> \in R <=> goesFirst(x, y)
  BY <1>1
<1>3. \A x \in S : x.id \in Int /\ x.opened \in Int /\ x.critical \in BOOLEAN
  BY <1>1
<1>4. Orders(R, S)
  <2>1. \A x \in S : ~ goesFirst(x, x)
    BY <1>3 DEF goesFirst
  <2>2. ASSUME NEW x \in S, NEW y \in S, x # y PROVE goesFirst(x, y) \/ goesFirst(y, x)
    <3>1. x.id # y.id
      BY <1>1, <2>2 DEF UniqueIds
    <3>2. QED
      BY <1>3, <3>1 DEF goesFirst
  <2>3. ASSUME NEW x \in S, NEW y \in S, NEW z \in S, goesFirst(x, y), goesFirst(y, z) PROVE goesFirst(x, z)
    BY <1>3, <2>3 DEF goesFirst
  <2> HIDE DEF R
  <2>4. QED
    BY <1>2, <2>1, <2>2, <2>3 DEF Orders
<1>5. \A e \in S : Cardinality({x \in S : goesFirst(x, e)}) = Rank(R, S, e)
  <2> SUFFICES ASSUME NEW e \in S PROVE {x \in S : goesFirst(x, e)} = {x \in S : <<x, e>> \in R}
    BY DEF Rank
  <2> HIDE DEF R
  <2>1. QED
    BY <1>2
<1>6. out.surfaced = {e \in S : Rank(R, S, e) < in.max}
  <2>1. out.surfaced = {e \in S : Cardinality({x \in S : goesFirst(x, e)}) < in.max}
    BY DEF Given, surfaceable
  <2> HIDE DEF R
  <2>2. QED
    BY <1>5, <2>1
<1> HIDE DEF R
<1>7. Cardinality(S) \in Nat /\ \A e \in S : Rank(R, S, e) \in 0..(Cardinality(S) - 1)
  BY <1>1, <1>4, FS_CardinalityType, RankGrows
<1>8. ASSUME left # {} PROVE Cardinality(out.surfaced) = in.max
  <2>1. PICK e \in S : ~ (Rank(R, S, e) < in.max)
    BY <1>6, <1>8
  <2>2. in.max <= Cardinality(S)
    BY <1>1, <1>7, <2>1
  <2>3. QED
    BY <1>1, <1>4, <1>6, <2>2, FirstOnes
<1>9. ASSUME NEW x \in left, NEW y \in out.surfaced, x.critical PROVE y.critical /\ y.opened <= x.opened
  <2>1. x \in S /\ y \in S /\ ~ (Rank(R, S, x) < in.max) /\ Rank(R, S, y) < in.max
    BY <1>6
  <2>2. ~ (Rank(R, S, x) < Rank(R, S, y)) /\ x # y
    BY <1>1, <1>7, <2>1
  <2>3. <<x, y>> \notin R
    BY <1>1, <1>4, <2>1, <2>2, RankGrows
  <2>4. goesFirst(y, x)
    BY <1>2, <1>4, <2>1, <2>2, <2>3 DEF Orders
  <2>5. CASE y.critical /\ ~ x.critical
    BY <1>9, <2>5
  <2>6. CASE y.critical = x.critical /\ (y.opened < x.opened \/ (y.opened = x.opened /\ y.id < x.id))
    <3>1. y.opened <= x.opened
      BY <1>3, <2>1, <2>6
    <3>2. y.critical
      BY <1>9, <2>6
    <3>3. QED
      BY <3>1, <3>2
  <2>7. QED
    BY <1>9, <2>4, <2>5, <2>6 DEF goesFirst
<1>10. QED
  BY <1>8, <1>9 DEF CriticalIsSurfaced

\* The places of a line in a sequence.
Places(s, line) == {i \in DOMAIN s : s[i] = line}

\* Whether the k-th place of a line is beyond those the original has.
Beyond(before, after, line, i) ==
  Cardinality({k \in 1..i : after[k] = line}) > Cardinality({k \in 1..Len(before) : before[k] = line})

\* A line that is not blank counts as changed beyond those the original has.
LEMMA ChangedOfLine ==
  ASSUME NEW before, NEW after, NEW line, line # ""
  PROVE  {i \in changedLines(before, after) : after[i] = line} = {i \in Places(after, line) : Beyond(before, after, line, i)}
<1>1. changedLines(before, after) = {i \in DOMAIN after : after[i] # "" /\ Beyond(before, after, after[i], i)}
  BY Zenon DEF changedLines, Beyond
<1>2. ASSUME NEW i \in changedLines(before, after), after[i] = line
      PROVE  i \in Places(after, line) /\ Beyond(before, after, line, i)
  <2>1. i \in DOMAIN after /\ Beyond(before, after, after[i], i)
    BY <1>1, Zenon
  <2>2. QED
    BY <2>1, <1>2, Zenon DEF Places
<1>3. ASSUME NEW i \in Places(after, line), Beyond(before, after, line, i)
      PROVE  i \in changedLines(before, after) /\ after[i] = line
  <2>1. i \in DOMAIN after /\ after[i] = line
    BY Zenon DEF Places
  <2>2. after[i] # "" /\ Beyond(before, after, after[i], i)
    BY <2>1, <1>3, Zenon
  <2>3. QED
    BY <1>1, <2>1, <2>2, Zenon
<1>4. QED
  BY <1>2, <1>3, Zenon

\* Exactly those places of a line are beyond that the artifact has more of.
LEMMA NewLines ==
  ASSUME NEW before \in Seq(STRING), NEW after \in Seq(STRING), NEW line
  PROVE  LET extra == Cardinality(Places(after, line)) - Cardinality(Places(before, line))
         IN  Cardinality({i \in Places(after, line) : Beyond(before, after, line, i)}) = IF extra < 0 THEN 0 ELSE extra
<1> DEFINE S == Places(after, line)
           m == Cardinality(Places(before, line))
           R == {p \in Nat \X Nat : p[1] < p[2]}
           C == {i \in S : Beyond(before, after, line, i)}
<1>1. Len(before) \in Nat /\ Len(after) \in Nat
  OBVIOUS
<1>2. DOMAIN before = 1..Len(before) /\ DOMAIN after = 1..Len(after)
  OBVIOUS
<1>3. S \in SUBSET (1..Len(after)) /\ Places(before, line) \in SUBSET (1..Len(before))
  BY <1>2 DEF Places
<1>4. /\ IsFiniteSet(S) /\ Cardinality(S) \in Nat
      /\ m \in Nat
  <2>1. IsFiniteSet(1..Len(after)) /\ IsFiniteSet(1..Len(before))
    BY <1>1, FS_Interval
  <2>2. IsFiniteSet(S) /\ IsFiniteSet(Places(before, line))
    BY <1>3, <2>1, FS_Subset
  <2>3. QED
    BY <2>2, FS_CardinalityType
<1>5. \A i \in S : i \in Nat
  <2> HIDE DEF S
  <2>1. QED
    BY <1>1, <1>3
<1>order. \A x, y \in S : <<x, y>> \in R <=> x < y
  <2> HIDE DEF S
  <2>1. QED
    BY <1>5
<1>6. Orders(R, S)
  <2> HIDE DEF R, S
  <2>1. QED
    BY <1>5, <1>order DEF Orders
<1>7. ASSUME NEW i \in S
      PROVE  Cardinality({k \in 1..i : after[k] = line}) = Rank(R, S, i) + 1
  <2>1. {k \in 1..i : after[k] = line} = {x \in S : <<x, i>> \in R} \cup {i}
    <3>1. i \in 1..Len(after) /\ after[i] = line
      BY <1>2 DEF Places
    <3>2. \A k : k \in S <=> k \in 1..Len(after) /\ after[k] = line
      BY <1>2 DEF Places
    <3> HIDE DEF R, S
    <3>3. ASSUME NEW k \in 1..i, after[k] = line PROVE k = i \/ (k \in S /\ <<k, i>> \in R)
      <4>1. k \in S
        BY <1>1, <3>1, <3>2, <3>3
      <4>2. k = i \/ k < i
        BY <1>1, <3>1
      <4>3. QED
        BY <1>order, <4>1, <4>2
    <3>4. ASSUME NEW k \in S, <<k, i>> \in R PROVE k \in 1..i /\ after[k] = line
      BY <1>1, <1>order, <3>1, <3>2, <3>4
    <3>5. i \in 1..i
      BY <1>1, <3>1
    <3>6. QED
      BY <3>1, <3>3, <3>4, <3>5
  <2> DEFINE P == {x \in S : <<x, i>> \in R}
  <2>2. i \notin P
    <3> HIDE DEF R, S
    <3>1. QED
      BY <1>5, <1>order
  <2>3. IsFiniteSet(P) /\ Cardinality(P) \in Nat
    <3>1. P \in SUBSET S
      OBVIOUS
    <3>2. IsFiniteSet(P)
      BY <1>4, <3>1, FS_Subset
    <3>3. QED
      BY <3>2, FS_CardinalityType
  <2>4. Cardinality(P \cup {i}) = Cardinality(P) + 1
    <3> HIDE DEF P
    <3>1. QED
      BY <2>2, <2>3, FS_AddElement
  <2>5. Rank(R, S, i) = Cardinality(P)
    BY DEF Rank
  <2> HIDE DEF R, S
  <2>6. QED
    BY <2>1, <2>4, <2>5
<1>8. {k \in 1..Len(before) : before[k] = line} = Places(before, line)
  BY <1>2 DEF Places
<1>9. C = {i \in S : Rank(R, S, i) + 1 > m}
  <2> HIDE DEF R, S
  <2>1. \A i \in S : Beyond(before, after, line, i) <=> Rank(R, S, i) + 1 > m
    BY <1>7, <1>8 DEF Beyond
  <2>2. QED
    BY <2>1
<1> DEFINE extra == Cardinality(S) - m
<1> SUFFICES Cardinality(C) = IF extra < 0 THEN 0 ELSE extra
  OBVIOUS
<1> HIDE DEF R, S, C, m
<1>10. \A i \in S : Rank(R, S, i) \in 0..(Cardinality(S) - 1)
  BY <1>4, <1>6, RankGrows
<1>11. C = S \ {i \in S : Rank(R, S, i) < m}
  BY <1>4, <1>9, <1>10
<1>12. CASE m <= Cardinality(S)
  <2> DEFINE T == {i \in S : Rank(R, S, i) < m}
  <2>1. Cardinality(T) = m
    BY <1>4, <1>6, <1>12, FirstOnes
  <2>2. S \cap T = T
    OBVIOUS
  <2>3. Cardinality(C) = Cardinality(S) - m
    <3> HIDE DEF T
    <3>1. Cardinality(S \ T) = Cardinality(S) - Cardinality(S \cap T)
      BY <1>4, FS_Difference
    <3>2. C = S \ T
      BY <1>11 DEF T
    <3>3. QED
      BY <2>1, <2>2, <3>1, <3>2
  <2>4. QED
    BY <1>4, <1>12, <2>3
<1>13. CASE ~ (m <= Cardinality(S))
  <2>1. C = {}
    BY <1>4, <1>10, <1>11, <1>13
  <2>2. Cardinality(C) = 0
    BY <2>1, FS_EmptySet
  <2>3. QED
    BY <1>4, <1>13, <2>2
<1>14. QED
  BY <1>12, <1>13

\* Moved lines do not count as changed.
LEMMA LinesHold ==
  ASSUME NEW in, in \in AnyJudging["lines"], kind = "lines", input = in, out = Given("lines", in)
  PROVE  OnlyNewLinesChange
<1>1. in.before \in Seq(STRING) /\ in.after \in Seq(STRING)
  BY DEF AnyJudging
<1>2. out.changed = changedLines(in.before, in.after)
  BY DEF Given
<1>3. ASSUME NEW line, line # ""
      PROVE  LET extra == Cardinality(Places(in.after, line)) - Cardinality(Places(in.before, line))
             IN  Cardinality({i \in out.changed : in.after[i] = line}) = IF extra < 0 THEN 0 ELSE extra
  <2>1. {i \in changedLines(in.before, in.after) : in.after[i] = line}
          = {i \in Places(in.after, line) : Beyond(in.before, in.after, line, i)}
    BY <1>3, ChangedOfLine, ZenonT(30)
  <2>2. QED
    BY <1>1, <1>2, <2>1, NewLines
<1>4. QED
  BY <1>3, ZenonT(30) DEF OnlyNewLinesChange, Places

(***************************************************************************)
(* Swings of a series.                                                     *)
(***************************************************************************)

\* The verdict at p differs from the one before it, within the window.
Flip(s, p) == p \in 2..Len(s) /\ p >= Len(s) - 3 /\ s[p] # s[p - 1]

\* The last k + 1 verdicts of a series are v.
SteadyFor(s, k, v) == \A p \in 1..Len(s) : p >= Len(s) - k => s[p] = v

\* A window holds the last five verdicts.
LEMMA WindowOf ==
  ASSUME NEW S, NEW s \in Seq(S)
  PROVE  /\ lastOf(s) \in Seq(S)
         /\ Len(lastOf(s)) = IF Len(s) > 5 THEN 5 ELSE Len(s)
         /\ \A i \in 1..Len(lastOf(s)) : lastOf(s)[i] = s[i + (Len(s) - Len(lastOf(s)))]
<1> DEFINE n == Len(s)
           m == IF n > 5 THEN n - 4 ELSE 1
           w == SubSeq(s, m, n)
<1>1. n \in Nat
  OBVIOUS
<1>2. m \in 1..(n + 1)
  BY <1>1
<1>3. lastOf(s) = w
  <2>1. (IF n > 5 THEN n - 5 + 1 ELSE 1) = m
    BY <1>1
  <2>2. QED
    BY <2>1 DEF lastOf, WINDOW
<1>4. Len(w) = n - m + 1 /\ w \in Seq(S) /\ \A i \in 1..(n - m + 1) : w[i] = s[m + i - 1]
  <2> HIDE DEF m
  <2>1. QED
    BY <1>1, <1>2, SubSeqProperties
<1>5. n - m + 1 = IF n > 5 THEN 5 ELSE n
  BY <1>1
<1>6. ASSUME NEW i \in 1..(n - m + 1) PROVE m + i - 1 = i + (n - (n - m + 1))
  BY <1>1, <1>2
<1> HIDE DEF m, w
<1>7. QED
  BY <1>3, <1>4, <1>5, <1>6

\* A finite set has two elements when two of its elements differ.
LEMMA TwoOrMore ==
  ASSUME NEW F, IsFiniteSet(F)
  PROVE  Cardinality(F) >= 2 <=> \E x, y \in F : x # y
<1>1. Cardinality(F) \in Nat
  BY FS_CardinalityType
<1>2. ASSUME NEW x \in F, NEW y \in F, x # y PROVE Cardinality(F) >= 2
  <2>1. {x, y} \in SUBSET F
    OBVIOUS
  <2>2. Cardinality({x}) = 1 /\ IsFiniteSet({x})
    BY FS_Singleton
  <2>3. Cardinality({x} \cup {y}) = 2
    BY <1>2, <2>2, FS_AddElement
  <2>4. {x} \cup {y} = {x, y}
    OBVIOUS
  <2>5. Cardinality({x, y}) <= Cardinality(F)
    BY <2>1, FS_Subset
  <2>6. QED
    BY <1>1, <2>3, <2>4, <2>5
<1>3. ASSUME \A x, y \in F : x = y PROVE Cardinality(F) < 2
  <2>1. CASE F = {}
    BY <2>1, FS_EmptySet
  <2>2. CASE F # {}
    <3>1. PICK x \in F : TRUE
      BY <2>2
    <3>2. F = {x}
      BY <1>3, <3>1
    <3>3. QED
      BY <3>2, FS_Singleton
  <2>3. QED
    BY <2>1, <2>2
<1>4. QED
  BY <1>1, <1>2, <1>3

\* A series swings when it flips twice within its window.
LEMMA SwingsTwice ==
  ASSUME NEW S, NEW s \in Seq(S)
  PROVE  isOscillating(s) <=> \E p, q \in 2..Len(s) : p # q /\ Flip(s, p) /\ Flip(s, q)
<1> DEFINE w == lastOf(s)
           n == Len(s)
           L == Len(w)
           F == {i \in 2..L : w[i] # w[i - 1]}
<1>1. isOscillating(s) <=> Cardinality(F) >= 2
  BY DEF isOscillating, FLIP_THRESHOLD
<1>2. n \in Nat /\ L = (IF n > 5 THEN 5 ELSE n) /\ \A i \in 1..L : w[i] = s[i + (n - L)]
  BY WindowOf
<1> HIDE DEF w, n, L
<1>3. IsFiniteSet(F)
  <2>1. L \in Nat
    BY <1>2
  <2>2. IsFiniteSet(2..L)
    BY <2>1, FS_Interval
  <2>3. F \in SUBSET (2..L)
    OBVIOUS
  <2>4. QED
    BY <2>2, <2>3, FS_Subset
<1>4. ASSUME NEW i \in F PROVE i + (n - L) \in 2..n /\ Flip(s, i + (n - L))
  <2>1. i \in 2..L /\ i - 1 \in 1..L /\ i \in 1..L /\ L \in Nat
    BY <1>2
  <2>2. w[i] = s[i + (n - L)] /\ w[i - 1] = s[(i - 1) + (n - L)] /\ (i - 1) + (n - L) = (i + (n - L)) - 1
    BY <1>2, <2>1
  <2>3. s[i + (n - L)] # s[(i + (n - L)) - 1]
    BY <2>2
  <2>4. i + (n - L) \in 2..n /\ i + (n - L) >= n - 3
    BY <1>2, <2>1
  <2>5. QED
    BY <2>3, <2>4 DEF Flip, n
<1>5. ASSUME NEW p \in 2..n, Flip(s, p) PROVE p - (n - L) \in F
  <2>1. p >= n - 3 /\ s[p] # s[p - 1]
    BY <1>5 DEF Flip, n
  <2>2. p - (n - L) \in 2..L /\ p - (n - L) \in 1..L /\ (p - (n - L)) - 1 \in 1..L
    BY <1>2, <2>1
  <2>3. (p - (n - L)) + (n - L) = p /\ ((p - (n - L)) - 1) + (n - L) = p - 1
    BY <1>2
  <2>4. w[p - (n - L)] = s[p] /\ w[(p - (n - L)) - 1] = s[p - 1]
    BY <1>2, <2>2, <2>3
  <2>5. QED
    BY <2>1, <2>2, <2>4
<1>6. ASSUME NEW i \in F, NEW j \in F, i # j PROVE i + (n - L) # j + (n - L)
  BY <1>2, <1>6
<1>7. ASSUME NEW p \in 2..n, NEW q \in 2..n, p # q PROVE p - (n - L) # q - (n - L)
  BY <1>2, <1>7
<1>8. (\E x, y \in F : x # y) <=> \E p, q \in 2..n : p # q /\ Flip(s, p) /\ Flip(s, q)
  <2> HIDE DEF F
  <2>1. ASSUME NEW x \in F, NEW y \in F, x # y PROVE \E p, q \in 2..n : p # q /\ Flip(s, p) /\ Flip(s, q)
    BY <1>4, <1>6, <2>1
  <2>2. ASSUME NEW p \in 2..n, NEW q \in 2..n, p # q, Flip(s, p), Flip(s, q) PROVE \E x, y \in F : x # y
    BY <1>5, <1>7, <2>2
  <2>3. QED
    BY <2>1, <2>2
<1>9. QED
  <2> HIDE DEF F
  <2>1. isOscillating(s) <=> \E x, y \in F : x # y
    BY <1>1, <1>3, TwoOrMore
  <2>2. QED
    BY <1>8, <2>1 DEF n

\* A series with v given once more.
Repeated(s, v) == lastOf(Append(s, v))

\* The window after one more verdict is the series shifted, and the verdict.
LEMMA Again ==
  ASSUME NEW S, NEW s \in Seq(S), NEW v \in S
  PROVE  LET t == Repeated(s, v)
         IN  /\ t \in Seq(S) /\ Len(t) = (IF Len(s) + 1 > 5 THEN 5 ELSE Len(s) + 1)
             /\ \A i \in 1..Len(t) : t[i] = IF i = Len(t) THEN v ELSE s[i + (Len(s) + 1 - Len(t))]
<1> DEFINE a == Append(s, v)
           t == Repeated(s, v)
<1>1. a \in Seq(S) /\ Len(a) = Len(s) + 1 /\ Len(s) \in Nat
  BY AppendProperties
<1>2. \A i \in 1..(Len(s) + 1) : a[i] = IF i = Len(s) + 1 THEN v ELSE s[i]
  BY AppendProperties
<1>window. t = lastOf(a)
  BY DEF Repeated
<1> HIDE DEF a, t
<1>3. /\ t \in Seq(S) /\ Len(t) = (IF Len(s) + 1 > 5 THEN 5 ELSE Len(s) + 1)
      /\ \A i \in 1..Len(t) : t[i] = a[i + (Len(s) + 1 - Len(t))]
  <2>1. /\ t \in Seq(S) /\ Len(t) = (IF Len(a) > 5 THEN 5 ELSE Len(a))
        /\ \A i \in 1..Len(t) : t[i] = a[i + (Len(a) - Len(t))]
    BY <1>1, <1>window, WindowOf
  <2>2. ASSUME NEW i \in 1..Len(t) PROVE t[i] = a[i + (Len(s) + 1 - Len(t))]
    <3>1. t[i] = a[i + (Len(a) - Len(t))]
      BY <2>1
    <3>2. QED
      BY <1>1, <3>1
  <2>3. Len(t) = (IF Len(s) + 1 > 5 THEN 5 ELSE Len(s) + 1)
    BY <1>1, <2>1
  <2>4. QED
    BY <2>1, <2>2, <2>3
<1>4. ASSUME NEW i \in 1..Len(t) PROVE t[i] = IF i = Len(t) THEN v ELSE s[i + (Len(s) + 1 - Len(t))]
  <2> DEFINE j == i + (Len(s) + 1 - Len(t))
  <2>1. j \in 1..(Len(s) + 1) /\ (j = Len(s) + 1 <=> i = Len(t))
    <3>1. Len(t) \in Nat /\ Len(t) <= Len(s) + 1 /\ i \in Int /\ 1 <= i /\ i <= Len(t)
      BY <1>1, <1>3
    <3>2. QED
      BY <1>1, <3>1
  <2>2. t[i] = a[j]
    BY <1>3
  <2> HIDE DEF j
  <2>3. a[j] = IF i = Len(t) THEN v ELSE s[j]
    BY <1>2, <2>1
  <2>4. QED
    BY <2>2, <2>3 DEF j
<1>5. QED
  BY <1>3, <1>4 DEF t

\* Each repetition makes the steady end of the series longer.
LEMMA SteadyEnd ==
  ASSUME NEW S, NEW s \in Seq(S), NEW v \in S, NEW k \in Nat, SteadyFor(s, k, v)
  PROVE  SteadyFor(Repeated(s, v), k + 1, v)
<1> DEFINE t == Repeated(s, v)
<1> HIDE DEF t
<1>1. /\ t \in Seq(S) /\ Len(t) = (IF Len(s) + 1 > 5 THEN 5 ELSE Len(s) + 1)
      /\ \A i \in 1..Len(t) : t[i] = IF i = Len(t) THEN v ELSE s[i + (Len(s) + 1 - Len(t))]
  BY Again DEF t
<1>2. ASSUME NEW i \in 1..Len(t), i >= Len(t) - (k + 1), i # Len(t) PROVE t[i] = v
  <2> DEFINE j == i + (Len(s) + 1 - Len(t))
  <2>1. j \in 1..Len(s) /\ j >= Len(s) - k
    <3>1. Len(s) \in Nat
      OBVIOUS
    <3>2. Len(t) \in Nat /\ i \in Int /\ 1 <= i /\ i < Len(t) /\ Len(t) <= Len(s) + 1 /\ i >= Len(t) - (k + 1)
      BY <1>1, <1>2, <3>1
    <3>3. QED
      BY <3>1, <3>2
  <2>2. t[i] = s[j]
    BY <1>1, <1>2
  <2> HIDE DEF j
  <2>3. QED
    BY <2>1, <2>2 DEF SteadyFor
<1>3. SteadyFor(t, k + 1, v)
  BY <1>1, <1>2 DEF SteadyFor
<1>4. QED
  BY <1>3 DEF t

\* Repeating a verdict makes no node swing.
LEMMA SeriesHold ==
  ASSUME NEW in, in \in AnyJudging["series"], kind = "series", input = in, out = Given("series", in)
  PROVE  RepeatNeverOscillates
<1> DEFINE S == {"pass", "fail"}
           v == in[Len(in)]
           next(s) == Repeated(s, v)
<1> SUFFICES ASSUME in # << >>
             PROVE  /\ ~ isOscillating(in) => ~ isOscillating(next(in))
                    /\ ~ isOscillating(next(next(next(next(in)))))
  <2>1. in \in Seq(S)
    BY DEF AnyJudging
  <2>2. in # << >> => Len(in) \in 1..Len(in)
    BY <2>1
  <2>3. in # << >> => v \in S
    BY <2>1, <2>2
  <2>4. in # << >> => (IF v = "pass" THEN "pass" ELSE "fail") = v
    BY <2>3
  <2>5. out.oscillating = isOscillating(in)
    BY DEF Given
  <2>6. in # << >> => \A s : appendVerdict(s, v = "pass") = next(s)
    BY <2>4 DEF appendVerdict, Repeated
  <2>7. QED
    BY <2>5, <2>6 DEF RepeatNeverOscillates
<1>1. in \in Seq(S) /\ Len(in) \in Nat /\ Len(in) >= 1
  BY DEF AnyJudging
<1>2. v \in S
  BY <1>1
<1>3. SteadyFor(in, 0, v)
  BY <1>1 DEF SteadyFor
<1> HIDE DEF S, v
<1>4. ASSUME ~ isOscillating(in) PROVE ~ isOscillating(next(in))
  <2> DEFINE t == next(in)
             d == Len(in) + 1 - Len(t)
  <2>1. /\ t \in Seq(S) /\ Len(t) = (IF Len(in) + 1 > 5 THEN 5 ELSE Len(in) + 1)
        /\ \A i \in 1..Len(t) : t[i] = IF i = Len(t) THEN v ELSE in[i + d]
    BY <1>1, <1>2, Again
  <2> HIDE DEF t
  <2>2. ASSUME NEW p \in 2..Len(t), Flip(t, p) PROVE p + d \in 2..Len(in) /\ Flip(in, p + d)
    <3>1. t[p] # t[p - 1] /\ p - 1 \in 1..Len(t) /\ p \in 1..Len(t) /\ p - 1 # Len(t)
      BY <1>1, <2>1, <2>2 DEF Flip
    <3>2. t[p - 1] = in[(p - 1) + d]
      BY <2>1, <3>1
    <3>3. p # Len(t)
      <4>1. ASSUME p = Len(t) PROVE (p - 1) + d = Len(in)
        <5>1. Len(t) \in Nat
          BY <2>1
        <5>2. QED
          BY <1>1, <4>1, <5>1
      <4>2. p = Len(t) => t[p] = v
        BY <2>1, <3>1
      <4>3. QED
        BY <3>1, <3>2, <4>1, <4>2 DEF v
    <3>4. t[p] = in[p + d]
      BY <2>1, <3>1, <3>3
    <3>5. p + d \in 2..Len(in) /\ p + d >= Len(in) - 3 /\ (p - 1) + d = (p + d) - 1
      BY <1>1, <2>1, <3>3
    <3> HIDE DEF d
    <3>6. QED
      BY <3>1, <3>2, <3>4, <3>5 DEF Flip
  <2>3. ASSUME NEW p \in 2..Len(t), NEW q \in 2..Len(t), p # q PROVE p + d # q + d
    BY <1>1, <2>1, <2>3
  <2> HIDE DEF d
  <2>4. ~ \E p, q \in 2..Len(t) : p # q /\ Flip(t, p) /\ Flip(t, q)
    <3>1. ~ \E p, q \in 2..Len(in) : p # q /\ Flip(in, p) /\ Flip(in, q)
      BY <1>1, <1>4, SwingsTwice
    <3>2. QED
      BY <2>2, <2>3, <3>1
  <2>5. QED
    BY <2>1, <2>4, SwingsTwice DEF t
<1>5. ASSUME NEW s \in Seq(S) PROVE next(s) \in Seq(S) /\ \A k \in Nat : SteadyFor(s, k, v) => SteadyFor(next(s), k + 1, v)
  BY <1>2, Again, SteadyEnd
<1>6. ASSUME NEW s \in Seq(S), SteadyFor(s, 4, v) PROVE ~ isOscillating(s)
  <2>1. ASSUME NEW p \in 2..Len(s), Flip(s, p) PROVE FALSE
    <3>1. p - 1 \in 1..Len(s) /\ p \in 1..Len(s) /\ p >= Len(s) - 4 /\ p - 1 >= Len(s) - 4
      BY <2>1 DEF Flip
    <3>2. QED
      BY <1>6, <2>1, <3>1 DEF Flip, SteadyFor
  <2>2. QED
    BY <2>1, SwingsTwice
<1> HIDE DEF next
<1>7. /\ next(in) \in Seq(S) /\ SteadyFor(next(in), 1, v)
  <2>1. 0 \in Nat /\ 0 + 1 = 1
    OBVIOUS
  <2>2. QED
    BY <1>1, <1>3, <1>5, <2>1
<1>8. /\ next(next(in)) \in Seq(S) /\ SteadyFor(next(next(in)), 2, v)
  <2>1. 1 \in Nat /\ 1 + 1 = 2
    OBVIOUS
  <2>2. QED
    BY <1>5, <1>7, <2>1
<1>9. /\ next(next(next(in))) \in Seq(S) /\ SteadyFor(next(next(next(in))), 3, v)
  <2>1. 2 \in Nat /\ 2 + 1 = 3
    OBVIOUS
  <2>2. QED
    BY <1>5, <1>8, <2>1
<1>10. /\ next(next(next(next(in)))) \in Seq(S) /\ SteadyFor(next(next(next(next(in)))), 4, v)
  <2>1. 3 \in Nat /\ 3 + 1 = 4
    OBVIOUS
  <2>2. QED
    BY <1>5, <1>9, <2>1
<1>11. QED
  BY <1>4, <1>6, <1>10

(***************************************************************************)
(* Attestations settle what people owe.                                    *)
(***************************************************************************)

\* The checkpoint of a review, and the reasons its findings add.
Held(in, att) == [in.cp EXCEPT !.attestations = att, !.atc_p2 = severe(in.findings, "priority-2")]

Fix(in) == fixReasons(triageAll(in.findings)["fix"])

Unread(in) == unanalysableReasons(UNION {triageAll(in.findings)[x] : x \in DOMAIN triageAll(in.findings)})

\* What no attestation answers.
Hard(in) ==
  \/ in.cp.atc_p1 # "zero" \/ severe(in.findings, "priority-2") # "zero" \/ in.cp.intact # "yes"
  \/ in.cp.lost = "yes" \/ in.cp.warn # "held" \/ Fix(in) # {}
  \/ in.cp.parity \notin PASS_PARITY \cup {"needs_review"}

\* What a review changes in a checkpoint, and what it leaves.
LEMMA HeldFields ==
  ASSUME NEW in \in ReviewedWith(AnyCheckpoint, AnyFindings), NEW att
  PROVE  LET cp == Held(in, att)
         IN  /\ cp.attestations = att /\ cp.atc_p2 = severe(in.findings, "priority-2")
             /\ cp.block_reason = Missing /\ cp.atc_p1 = in.cp.atc_p1 /\ cp.intact = in.cp.intact
             /\ cp.auth_delta = in.cp.auth_delta /\ cp.lost = in.cp.lost /\ cp.parity = in.cp.parity
             /\ cp.warn = in.cp.warn
<1>1. in.cp \in AnyCheckpoint /\ in.cp.block_reason = Missing
  BY DEF ReviewedWith
<1>2. QED
  BY <1>1 DEF Held, AnyCheckpoint, CheckpointsWith

\* The folded verdict: the reasons of the gate, the lane and the review.
LEMMA FoldIs ==
  ASSUME NEW in \in ReviewedWith(AnyCheckpoint, AnyFindings), NEW att
  PROVE  LET shared == sharedReasons(Held(in, att))
             gate == IF in.cp.warn = "held" THEN {} ELSE {<<"warn-delta-regressed">>}
             unread == IF "artifact_reviewed" \in att THEN {} ELSE Unread(in)
             folded == Fold(in, att).folded
         IN  /\ folded.provisional <=> gate = {} /\ shared = {} /\ Fix(in) = {} /\ unread = {}
             /\ folded.reasons = gate \cup {<<r>> : r \in shared} \cup Fix(in) \cup unread
             /\ Fold(in, att).next = afterFailure(folded, Held(in, att))
<1> DEFINE cp == Held(in, att)
           gate == IF cp.warn = "held" THEN {} ELSE {<<"warn-delta-regressed">>}
           result == renderOffline(cp, gate)
           folded == applyFinalReview(result, triageAll(in.findings), att)
<1>1. /\ Fold(in, att).folded = folded
      /\ Fold(in, att).next = afterFailure(folded, cp)
  <2>1. Fold(in, att) = [folded |-> folded, next |-> afterFailure(folded, cp)]
    BY DEF Fold, Held
  <2> HIDE DEF folded, cp
  <2>2. QED
    BY <2>1
<1>2. cp.block_reason = Missing /\ cp.warn = in.cp.warn
  BY HeldFields
<1>3. offlineVerdict(cp) = decided(sharedReasons(cp), "PROVISIONAL")
  <2> HIDE DEF cp
  <2>1. QED
    BY <1>2 DEF offlineVerdict, Missing, NO_RELEASED_SUCCESSOR
<1> HIDE DEF cp, gate
<1>4. /\ result.provisional <=> gate = {} /\ sharedReasons(cp) = {}
      /\ result.reasons = gate \cup {<<r>> : r \in sharedReasons(cp)}
  <2> DEFINE shared == sharedReasons(cp)
             v == decided(shared, "PROVISIONAL")
             pass == gate = {} /\ v.verdict = "PROVISIONAL"
             told == gate \cup {<<r>> : r \in v.reasons}
  <2>1. result = [provisional |-> pass, reasons |-> told]
    BY <1>3 DEF renderOffline
  <2>2. v.reasons = shared /\ (v.verdict = "PROVISIONAL" <=> shared = {})
    <3> HIDE DEF shared
    <3>1. QED
      BY DEF decided
  <2> HIDE DEF v, shared, result
  <2>3. (pass <=> gate = {} /\ shared = {}) /\ told = gate \cup {<<r>> : r \in shared}
    BY <2>2
  <2> HIDE DEF pass, told
  <2>4. result.provisional = pass
    BY <2>1
  <2>5. result.reasons = told
    BY <2>1
  <2>6. QED
    BY <2>3, <2>4, <2>5 DEF shared
<1> HIDE DEF result
<1>5. /\ folded.provisional <=> /\ result.provisional /\ Fix(in) = {}
                                /\ "artifact_reviewed" \in att \/ Unread(in) = {}
      /\ folded.reasons = result.reasons \cup Fix(in) \cup (IF "artifact_reviewed" \in att THEN {} ELSE Unread(in))
  BY FinalReview DEF Fix, Unread
<1> HIDE DEF folded
<1>6. gate = IF in.cp.warn = "held" THEN {} ELSE {<<"warn-delta-regressed">>}
  BY <1>2 DEF gate
<1>7. QED
  BY <1>1, <1>4, <1>5, <1>6 DEF cp

\* An artifact passes when nothing is wrong for good and what is owed is attested.
LEMMA PassesWhenAttested ==
  ASSUME NEW in \in ReviewedWith(AnyCheckpoint, AnyFindings), NEW att
  PROVE  Fold(in, att).folded.provisional <=>
           /\ ~ Hard(in)
           /\ in.cp.auth_delta = "yes" => "auth_equivalence" \in att
           /\ in.cp.parity = "needs_review" => "parity_equivalence" \in att
           /\ Unread(in) # {} => "artifact_reviewed" \in att
<1> DEFINE cp == Held(in, att)
<1>1. /\ cp.attestations = att /\ cp.atc_p2 = severe(in.findings, "priority-2") /\ cp.atc_p1 = in.cp.atc_p1
      /\ cp.intact = in.cp.intact /\ cp.auth_delta = in.cp.auth_delta /\ cp.lost = in.cp.lost
      /\ cp.parity = in.cp.parity /\ cp.warn = in.cp.warn
  BY HeldFields
<1>2. Fold(in, att).folded.provisional <=>
        in.cp.warn = "held" /\ sharedReasons(cp) = {} /\ Fix(in) = {} /\ ("artifact_reviewed" \in att \/ Unread(in) = {})
  BY FoldIs
<1> HIDE DEF cp
<1>3. sharedReasons(cp) = {} <=>
        /\ cp.atc_p1 = "zero" /\ cp.atc_p2 = "zero" /\ cp.intact = "yes" /\ cp.lost # "yes"
        /\ passesAuth(cp) /\ passesParity(cp) /\ cp.warn = "held"
  BY Reasons
<1>4. /\ passesAuth(cp) <=> (in.cp.auth_delta = "yes" => "auth_equivalence" \in att)
      /\ passesParity(cp) <=>
           /\ in.cp.parity \in PASS_PARITY \cup {"needs_review"}
           /\ in.cp.parity = "needs_review" => "parity_equivalence" \in att
  BY <1>1 DEF passesAuth, passesParity, PASS_PARITY
<1>5. QED
  BY <1>1, <1>2, <1>3, <1>4 DEF Hard

\* Whom a reason is for, by its name.
LEMMA WhomAReasonIsFor ==
  ASSUME NEW r, NEW cp
  PROVE  /\ r[1] = "auth-delta-unattested" => escalationOf(r, cp) = {"AUTH_EQUIVALENCE"}
         /\ r[1] = "parity-not-equivalent" =>
              escalationOf(r, cp) = IF cp.parity = "needs_review" THEN {"PARITY_REVIEW"} ELSE {}
         /\ r[1] = "final-review-unanalysable" => escalationOf(r, cp) = {"UNANALYSABLE_ARTIFACT"}
         /\ r[1] \notin {"auth-delta-unattested", "parity-not-equivalent", "final-review-unanalysable"} =>
              escalationOf(r, cp) = {}
BY DEF escalationOf

\* The reasons before anything is attested.
LEMMA FirstReasons ==
  ASSUME NEW in \in ReviewedWith(AnyCheckpoint, AnyFindings), NEW cp, cp = Held(in, {}),
         NEW R, R = Fold(in, {}).folded.reasons
  PROVE  /\ \A r \in R : escalationOf(r, cp) = {} => Hard(in)
         /\ Hard(in) => \E r \in R : escalationOf(r, cp) = {}
         /\ \A r \in R : escalationOf(r, cp) \subseteq {"AUTH_EQUIVALENCE", "PARITY_REVIEW", "UNANALYSABLE_ARTIFACT"}
         /\ (\E r \in R : "AUTH_EQUIVALENCE" \in escalationOf(r, cp)) <=> in.cp.auth_delta = "yes"
         /\ (\E r \in R : "PARITY_REVIEW" \in escalationOf(r, cp)) <=> in.cp.parity = "needs_review"
         /\ (\E r \in R : "UNANALYSABLE_ARTIFACT" \in escalationOf(r, cp)) <=> Unread(in) # {}
<1> DEFINE gate == IF in.cp.warn = "held" THEN {} ELSE {<<"warn-delta-regressed">>}
           shared == sharedReasons(cp)
<1>1. /\ cp.attestations = {} /\ cp.atc_p2 = severe(in.findings, "priority-2") /\ cp.atc_p1 = in.cp.atc_p1
      /\ cp.intact = in.cp.intact /\ cp.auth_delta = in.cp.auth_delta /\ cp.lost = in.cp.lost
      /\ cp.parity = in.cp.parity /\ cp.warn = in.cp.warn
  BY HeldFields
<1>2. R = gate \cup {<<x>> : x \in shared} \cup Fix(in) \cup Unread(in)
  <2>1. "artifact_reviewed" \notin {}
    OBVIOUS
  <2>2. QED
    BY <2>1, FoldIs
<1>3. \A r \in Fix(in) : r[1] = "final-review-fix"
  BY DEF Fix, fixReasons
<1>4. \A r \in Unread(in) : r[1] = "final-review-unanalysable"
  BY DEF Unread, unanalysableReasons
<1>5. \A r \in gate : r[1] = "warn-delta-regressed"
  OBVIOUS
<1>6. \A x : <<x>>[1] = x
  OBVIOUS
<1>7. /\ shared \subseteq {"atc-p1-nonzero", "atc-p2-nonzero", "p4-invariant-broken", "auth-coverage-lost",
                          "auth-delta-unattested", "parity-not-equivalent", "warn-delta-regressed"}
      /\ "atc-p1-nonzero" \in shared <=> cp.atc_p1 # "zero"
      /\ "atc-p2-nonzero" \in shared <=> cp.atc_p2 # "zero"
      /\ "p4-invariant-broken" \in shared <=> cp.intact # "yes"
      /\ "auth-coverage-lost" \in shared <=> cp.lost = "yes"
      /\ "auth-delta-unattested" \in shared <=> ~ passesAuth(cp)
      /\ "parity-not-equivalent" \in shared <=> ~ passesParity(cp)
      /\ "warn-delta-regressed" \in shared <=> cp.warn # "held"
  BY DEF sharedReasons
<1>8. /\ passesAuth(cp) <=> in.cp.auth_delta # "yes"
      /\ passesParity(cp) <=> in.cp.parity \in PASS_PARITY
  BY <1>1 DEF passesAuth, passesParity
<1> HIDE DEF gate, shared
<1>9. ASSUME NEW r \in R
      PROVE  \/ r[1] \in shared
             \/ r \in Fix(in) /\ r[1] = "final-review-fix"
             \/ r \in Unread(in) /\ r[1] = "final-review-unanalysable"
             \/ in.cp.warn # "held" /\ r[1] = "warn-delta-regressed"
  <2>1. r \in gate => in.cp.warn # "held" /\ r[1] = "warn-delta-regressed"
    BY <1>5 DEF gate
  <2>2. ASSUME NEW x \in shared, r = <<x>> PROVE r[1] \in shared
    BY <1>6, <2>2
  <2>3. QED
    BY <1>2, <1>3, <1>4, <2>1, <2>2
<1>10. \A x \in shared : \E r \in R : r[1] = x
  <2> SUFFICES ASSUME NEW x \in shared PROVE \E r \in R : r[1] = x
    OBVIOUS
  <2>1. <<x>> \in R
    BY <1>2
  <2>2. QED
    BY <1>6, <2>1
<1>11. "needs_review" \notin PASS_PARITY
  BY DEF PASS_PARITY
<1>12. ASSUME NEW r \in R, escalationOf(r, cp) = {} PROVE Hard(in)
  <2>1. r[1] # "auth-delta-unattested" /\ r[1] # "final-review-unanalysable"
        /\ (r[1] = "parity-not-equivalent" => cp.parity # "needs_review")
    BY <1>12, WhomAReasonIsFor
  <2>2. CASE r[1] \in shared
    BY <1>1, <1>7, <1>8, <2>1, <2>2 DEF Hard
  <2>3. QED
    BY <1>9, <2>1, <2>2 DEF Hard
<1>13. ASSUME Hard(in) PROVE \E r \in R : escalationOf(r, cp) = {}
  <2>1. CASE Fix(in) # {}
    <3>1. PICK r \in Fix(in) : TRUE
      BY <2>1
    <3>2. r \in R /\ r[1] = "final-review-fix"
      BY <1>2, <1>3, <3>1
    <3>3. QED
      BY <3>2, WhomAReasonIsFor
  <2>2. CASE in.cp.parity \notin PASS_PARITY \cup {"needs_review"}
    <3>1. PICK r \in R : r[1] = "parity-not-equivalent"
      BY <1>7, <1>8, <1>10, <2>2
    <3>2. QED
      BY <1>1, <2>2, <3>1, WhomAReasonIsFor
  <2>3. CASE \E x \in shared \ {"auth-delta-unattested", "parity-not-equivalent"} : TRUE
    <3>1. PICK x \in shared \ {"auth-delta-unattested", "parity-not-equivalent"} : TRUE
      BY <2>3
    <3>2. PICK r \in R : r[1] = x
      BY <1>10
    <3>3. x \notin {"auth-delta-unattested", "parity-not-equivalent", "final-review-unanalysable"}
      BY <1>7, <3>1
    <3>4. QED
      BY <3>2, <3>3, WhomAReasonIsFor
  <2>4. QED
    BY <1>1, <1>7, <1>13, <2>1, <2>2, <2>3 DEF Hard
<1>14. \A r \in R : escalationOf(r, cp) \subseteq {"AUTH_EQUIVALENCE", "PARITY_REVIEW", "UNANALYSABLE_ARTIFACT"}
  BY DEF escalationOf
<1>15. \A r : /\ "AUTH_EQUIVALENCE" \in escalationOf(r, cp) <=> r[1] = "auth-delta-unattested"
              /\ "PARITY_REVIEW" \in escalationOf(r, cp) <=> r[1] = "parity-not-equivalent" /\ cp.parity = "needs_review"
              /\ "UNANALYSABLE_ARTIFACT" \in escalationOf(r, cp) <=> r[1] = "final-review-unanalysable"
  BY DEF escalationOf
<1>16. (\E r \in R : r[1] = "auth-delta-unattested") <=> in.cp.auth_delta = "yes"
  BY <1>7, <1>8, <1>9, <1>10
<1>17. (\E r \in R : r[1] = "parity-not-equivalent") <=> in.cp.parity \notin PASS_PARITY
  BY <1>7, <1>8, <1>9, <1>10
<1>18. (\E r \in R : r[1] = "final-review-unanalysable") <=> Unread(in) # {}
  BY <1>2, <1>4, <1>7, <1>9
<1>19. QED
  BY <1>1, <1>11, <1>12, <1>13, <1>14, <1>15, <1>16, <1>17, <1>18

\* What people owe is what their attestations settle.
LEMMA ReviewHolds ==
  ASSUME NEW in, in \in AnyJudging["review"], kind = "review", input = in, out = Given("review", in)
  PROVE  AttestingSettles
<1> DEFINE folded == Fold(in, {}).folded
           next == Fold(in, {}).next
           R == folded.reasons
           cp == Held(in, {})
           kinds == UNION {escalationOf(r, cp) : r \in R}
           owed == {Grant(k) : k \in kinds}
<1>1. in \in ReviewedWith(AnyCheckpoint, AnyFindings)
  BY DEF AnyJudging
<1>2. out.first = Fold(in, {})
  BY DEF Given
<1>3. next = afterFailure(folded, cp)
  BY <1>1, FoldIs
<1>4. /\ \A r \in R : escalationOf(r, cp) = {} => Hard(in)
      /\ Hard(in) => \E r \in R : escalationOf(r, cp) = {}
      /\ \A r \in R : escalationOf(r, cp) \subseteq {"AUTH_EQUIVALENCE", "PARITY_REVIEW", "UNANALYSABLE_ARTIFACT"}
      /\ (\E r \in R : "AUTH_EQUIVALENCE" \in escalationOf(r, cp)) <=> in.cp.auth_delta = "yes"
      /\ (\E r \in R : "PARITY_REVIEW" \in escalationOf(r, cp)) <=> in.cp.parity = "needs_review"
      /\ (\E r \in R : "UNANALYSABLE_ARTIFACT" \in escalationOf(r, cp)) <=> Unread(in) # {}
  BY <1>1, FirstReasons
<1> HIDE DEF cp, R
<1>5. /\ kinds \subseteq {"AUTH_EQUIVALENCE", "PARITY_REVIEW", "UNANALYSABLE_ARTIFACT"}
      /\ "AUTH_EQUIVALENCE" \in kinds <=> in.cp.auth_delta = "yes"
      /\ "PARITY_REVIEW" \in kinds <=> in.cp.parity = "needs_review"
      /\ "UNANALYSABLE_ARTIFACT" \in kinds <=> Unread(in) # {}
  BY <1>4
<1>6. /\ Grant("AUTH_EQUIVALENCE") = "auth_equivalence" /\ Grant("PARITY_REVIEW") = "parity_equivalence"
      /\ Grant("UNANALYSABLE_ARTIFACT") = "artifact_reviewed"
  BY DEF Grant
<1>7. \A att : Fold(in, att).folded.provisional <=>
           /\ ~ Hard(in)
           /\ in.cp.auth_delta = "yes" => "auth_equivalence" \in att
           /\ in.cp.parity = "needs_review" => "parity_equivalence" \in att
           /\ Unread(in) # {} => "artifact_reviewed" \in att
  BY <1>1, PassesWhenAttested
<1>8. \A r \in R : escalationOf(r, cp) \subseteq kinds
  OBVIOUS
<1> HIDE DEF kinds
<1>9. \A att : owed \subseteq att <=>
           /\ in.cp.auth_delta = "yes" => "auth_equivalence" \in att
           /\ in.cp.parity = "needs_review" => "parity_equivalence" \in att
           /\ Unread(in) # {} => "artifact_reviewed" \in att
  <2> SUFFICES ASSUME NEW att
               PROVE  owed \subseteq att <=> \A k \in kinds : Grant(k) \in att
    BY <1>5, <1>6
  <2>1. QED
    OBVIOUS
<1> HIDE DEF owed
<1>10. ASSUME ~ folded.provisional
       PROVE  IF next.action = "await_human"
              THEN /\ next.kinds = kinds
                   /\ \A att \in Attestations : Fold(in, att).folded.provisional <=> owed \subseteq att
              ELSE next.findings # {} /\ \A att \in Attestations : ~ Fold(in, att).folded.provisional
  <2> DEFINE onlyAttestable == kinds # {} /\ \A r \in R : escalationOf(r, cp) # {}
  <2>1. next = IF onlyAttestable
               THEN [action |-> "await_human", kinds |-> kinds, findings |-> {}]
               ELSE [action |-> "generate", kinds |-> {}, findings |-> R]
    BY <1>3 DEF afterFailure, kinds, R
  <2>2. CASE onlyAttestable
    <3>1. ~ Hard(in)
      BY <1>4, <2>2
    <3>2. next.action = "await_human" /\ next.kinds = kinds
      <4> HIDE DEF next, onlyAttestable
      <4>1. QED
        BY <2>1, <2>2
    <3>3. \A att \in Attestations : Fold(in, att).folded.provisional <=> owed \subseteq att
      BY <1>7, <1>9, <3>1
    <3> HIDE DEF next, folded
    <3>4. QED
      BY <3>2, <3>3
  <2>3. CASE ~ onlyAttestable
    <3>1. next.action = "generate" /\ next.findings = R
      <4> HIDE DEF next, onlyAttestable
      <4>1. QED
        BY <2>1, <2>3
    <3>2. Hard(in)
      <4>1. Hard(in) \/ in.cp.auth_delta = "yes" \/ in.cp.parity = "needs_review" \/ Unread(in) # {}
        BY <1>7, <1>10
      <4>2. ~ Hard(in) => kinds # {}
        BY <1>5, <4>1
      <4>3. QED
        BY <1>4, <2>3, <4>2
    <3>3. R # {}
      BY <1>4, <3>2
    <3>4. \A att \in Attestations : ~ Fold(in, att).folded.provisional
      BY <1>7, <3>2
    <3> HIDE DEF next, folded
    <3>5. QED
      BY <3>1, <3>3, <3>4
  <2> HIDE DEF next, folded, onlyAttestable
  <2>4. QED
    BY <2>2, <2>3
<1>11. QED
  BY <1>2, <1>10 DEF AttestingSettles, owed

(***************************************************************************)
(* For every pair of sources, series, register, checkpoint and review:     *)
(* the verdict rests on evidence.                                          *)
(***************************************************************************)
THEOREM VerdictAlwaysRestsOnEvidence == JudgingSpec => []VerdictRestsOnEvidence
<1> DEFINE Inv == /\ kind \in DOMAIN AnyJudging /\ input \in AnyJudging[kind]
                  /\ out = Pending \/ out = Given(kind, input)
<1>1. out = Pending /\ kind \in DOMAIN AnyJudging /\ input \in AnyJudging[kind] => Inv
  OBVIOUS
<1>2. Inv /\ [Weigh]_inputVars => Inv'
  BY DEF Weigh, inputVars
<1>3. Inv => VerdictRestsOnEvidence
  <2>1. CASE out = Pending
    BY <2>1 DEF VerdictRestsOnEvidence, Pending, Judged, NothingBuysBack, UnchangedOwesNothing,
                ParadigmNeverPassesSilently, LiveImpliesOffline, SilenceNeverPasses, AttestingSettles,
                OnlyNewLinesChange, RepeatNeverOscillates, CriticalIsSurfaced
  <2>2. ASSUME Inv, out = Given(kind, input), kind = "sources"
        PROVE  VerdictRestsOnEvidence
    <3>1. NothingBuysBack /\ UnchangedOwesNothing /\ ParadigmNeverPassesSilently
      BY <2>2, BuysBackHolds, UnchangedHolds, ParadigmHolds
    <3>2. QED
      BY <2>2, <3>1 DEF VerdictRestsOnEvidence, Judged, LiveImpliesOffline, SilenceNeverPasses, AttestingSettles,
                        OnlyNewLinesChange, RepeatNeverOscillates, CriticalIsSurfaced
  <2>3. ASSUME Inv, out = Given(kind, input), kind = "checkpoint"
        PROVE  VerdictRestsOnEvidence
    <3>1. input \in AnyCheckpoint
      BY <2>3 DEF AnyJudging
    <3>2. LiveImpliesOffline /\ SilenceNeverPasses
      BY <2>3, <3>1, LanesHold
    <3>3. QED
      BY <2>3, <3>2 DEF VerdictRestsOnEvidence, Judged, NothingBuysBack, UnchangedOwesNothing,
                        ParadigmNeverPassesSilently, AttestingSettles, OnlyNewLinesChange, RepeatNeverOscillates,
                        CriticalIsSurfaced
  <2>4. ASSUME Inv, out = Given(kind, input), kind = "review"
        PROVE  VerdictRestsOnEvidence
    <3>1. AttestingSettles
      BY <2>4, ReviewHolds
    <3>2. QED
      BY <2>4, <3>1 DEF VerdictRestsOnEvidence, Judged, NothingBuysBack, UnchangedOwesNothing,
                        ParadigmNeverPassesSilently, LiveImpliesOffline, SilenceNeverPasses, OnlyNewLinesChange,
                        RepeatNeverOscillates, CriticalIsSurfaced
  <2>5. ASSUME Inv, out = Given(kind, input), kind = "lines"
        PROVE  VerdictRestsOnEvidence
    <3>1. OnlyNewLinesChange
      BY <2>5, LinesHold
    <3>2. QED
      BY <2>5, <3>1 DEF VerdictRestsOnEvidence, Judged, NothingBuysBack, UnchangedOwesNothing,
                        ParadigmNeverPassesSilently, LiveImpliesOffline, SilenceNeverPasses, AttestingSettles,
                        RepeatNeverOscillates, CriticalIsSurfaced
  <2>6. ASSUME Inv, out = Given(kind, input), kind = "series"
        PROVE  VerdictRestsOnEvidence
    <3>1. RepeatNeverOscillates
      BY <2>6, SeriesHold
    <3>2. QED
      BY <2>6, <3>1 DEF VerdictRestsOnEvidence, Judged, NothingBuysBack, UnchangedOwesNothing,
                        ParadigmNeverPassesSilently, LiveImpliesOffline, SilenceNeverPasses, AttestingSettles,
                        OnlyNewLinesChange, CriticalIsSurfaced
  <2>7. ASSUME Inv, out = Given(kind, input), kind = "register"
        PROVE  VerdictRestsOnEvidence
    <3>1. CriticalIsSurfaced
      BY <2>7, RegisterHolds
    <3>2. QED
      BY <2>7, <3>1 DEF VerdictRestsOnEvidence, Judged, NothingBuysBack, UnchangedOwesNothing,
                        ParadigmNeverPassesSilently, LiveImpliesOffline, SilenceNeverPasses, AttestingSettles,
                        OnlyNewLinesChange, RepeatNeverOscillates
  <2>8. QED
    BY <2>1, <2>2, <2>3, <2>4, <2>5, <2>6, <2>7 DEF AnyJudging
<1>4. QED
  BY <1>1, <1>2, <1>3, PTL DEF JudgingSpec
--------------------------------------------------------------------------------
(***************************************************************************)
(* What is decided about objects: the shapes that fit them, the blueprint  *)
(* of an application, what conforms to a ratified contract, and what       *)
(* becomes of a unit.                                                      *)
(***************************************************************************)

\* The one element of a singleton.
LEMMA OnlyIs == \A x : Only({x}) = x
BY DEF Only

\* The sequence of the elements of S in the order R.
InOrder(R, S) == [k \in 1..Cardinality(S) |-> CHOOSE x \in S : Rank(R, S, x) = k - 1]

\* In its order, a finite set has one element at each place.
LEMMA PlaceInOrder ==
  ASSUME NEW S, IsFiniteSet(S), NEW R, Orders(R, S)
  PROVE  /\ Cardinality(S) \in Nat
         /\ \A k \in 1..Cardinality(S) : InOrder(R, S)[k] \in S /\ Rank(R, S, InOrder(R, S)[k]) = k - 1
         /\ \A x \in S : Rank(R, S, x) + 1 \in 1..Cardinality(S) /\ InOrder(R, S)[Rank(R, S, x) + 1] = x
<1> DEFINE n == Cardinality(S)
           place == InOrder(R, S)
           rank == [e \in S |-> Rank(R, S, e)]
<1>1. n \in Nat
  BY FS_CardinalityType
<1>2. \A e \in S : Rank(R, S, e) \in 0..(n - 1)
  BY RankGrows
<1>3. ASSUME NEW x \in S, NEW y \in S, Rank(R, S, x) = Rank(R, S, y) PROVE x = y
  <2>1. Rank(R, S, x) \in Int /\ Rank(R, S, y) \in Int
    BY <1>2
  <2>2. x # y => <<x, y>> \in R \/ <<y, x>> \in R
    BY DEF Orders
  <2>3. <<x, y>> \notin R /\ <<y, x>> \notin R
    BY <1>3, <2>1, RankGrows
  <2>4. QED
    BY <2>2, <2>3
<1>4. rank \in Injection(S, 0..(n - 1))
  <2>1. rank \in [S -> 0..(n - 1)]
    BY <1>2
  <2>2. \A x, y \in S : rank[x] = rank[y] => x = y
    BY <1>3
  <2> HIDE DEF rank
  <2>3. QED
    BY <2>1, <2>2 DEF Injection, IsInjective
<1>5. IsFiniteSet(0..(n - 1)) /\ Cardinality(0..(n - 1)) = n
  BY <1>1, Interval
<1>6. rank \in Surjection(S, 0..(n - 1))
  <2> HIDE DEF rank, n
  <2>1. QED
    BY <1>4, <1>5, FS_Injection DEF n
<1>7. ASSUME NEW k \in 1..n PROVE place[k] \in S /\ Rank(R, S, place[k]) = k - 1
  <2>1. k - 1 \in 0..(n - 1)
    BY <1>1
  <2>2. PICK e \in S : rank[e] = k - 1
    BY <1>6, <2>1 DEF Surjection
  <2>3. Rank(R, S, e) = k - 1
    BY <2>2
  <2>4. place[k] = CHOOSE x \in S : Rank(R, S, x) = k - 1
    BY DEF InOrder
  <2>5. QED
    BY <2>3, <2>4
<1>8. ASSUME NEW x \in S PROVE Rank(R, S, x) + 1 \in 1..n /\ place[Rank(R, S, x) + 1] = x
  <2>1. Rank(R, S, x) + 1 \in 1..n /\ (Rank(R, S, x) + 1) - 1 = Rank(R, S, x)
    BY <1>1, <1>2
  <2>2. place[Rank(R, S, x) + 1] \in S /\ Rank(R, S, place[Rank(R, S, x) + 1]) = Rank(R, S, x)
    BY <1>7, <2>1
  <2>3. QED
    BY <1>3, <2>1, <2>2
<1>9. QED
  BY <1>1, <1>7, <1>8

\* Numbers in their order.
LEMMA SortedIs ==
  ASSUME NEW S, IsFiniteSet(S), S \subseteq Nat
  PROVE  /\ Cardinality(S) \in Nat /\ DOMAIN sorted(S) = 1..Cardinality(S)
         /\ \A k \in DOMAIN sorted(S) : sorted(S)[k] \in S
         /\ \A x \in S : \E k \in DOMAIN sorted(S) : sorted(S)[k] = x
         /\ \A i, j \in DOMAIN sorted(S) : sorted(S)[i] = sorted(S)[j] => i = j
<1> DEFINE R == {p \in S \X S : p[1] < p[2]}
           place == InOrder(R, S)
<1>1. Orders(R, S)
  <2>1. \A x, y \in S : <<x, y>> \in R <=> x < y
    OBVIOUS
  <2>2. \A x \in S : x \in Nat
    OBVIOUS
  <2> HIDE DEF R
  <2> QED
    BY <2>1, <2>2 DEF Orders
<1>2. \A x \in S : Rank(R, S, x) = Cardinality({y \in S : y < x})
  <2>1. ASSUME NEW x \in S PROVE {y \in S : <<y, x>> \in R} = {y \in S : y < x}
    OBVIOUS
  <2> QED
    BY <2>1 DEF Rank
<1>3. \A k : (CHOOSE x \in S : Rank(R, S, x) = k - 1) = CHOOSE x \in S : Cardinality({y \in S : y < x}) = k - 1
  <2> HIDE DEF R
  <2> QED
    BY <1>2
<1>4. sorted(S) = place
  <2> HIDE DEF R
  <2>1. ASSUME NEW k \in 1..Cardinality(S) PROVE sorted(S)[k] = place[k]
    <3>1. sorted(S)[k] = CHOOSE x \in S : Cardinality({y \in S : y < x}) = k - 1
      BY DEF sorted
    <3>2. place[k] = CHOOSE x \in S : Rank(R, S, x) = k - 1
      BY DEF InOrder
    <3> QED
      BY <1>3, <3>1, <3>2
  <2>2. DOMAIN sorted(S) = 1..Cardinality(S) /\ sorted(S) = [k \in DOMAIN sorted(S) |-> sorted(S)[k]]
    <3> DEFINE chosen(i) == CHOOSE x \in S : Cardinality({y \in S : y < x}) = i - 1
    <3>1. sorted(S) = [i \in 1..Cardinality(S) |-> chosen(i)]
      BY DEF sorted
    <3> HIDE DEF chosen
    <3> QED
      BY <3>1
  <2>3. DOMAIN place = 1..Cardinality(S) /\ place = [k \in DOMAIN place |-> place[k]]
    BY DEF InOrder
  <2> HIDE DEF place
  <2> QED
    BY <2>1, <2>2, <2>3
<1> HIDE DEF R
<1>5. /\ Cardinality(S) \in Nat
      /\ \A k \in 1..Cardinality(S) : place[k] \in S /\ Rank(R, S, place[k]) = k - 1
      /\ \A x \in S : Rank(R, S, x) + 1 \in 1..Cardinality(S) /\ place[Rank(R, S, x) + 1] = x
  BY <1>1, PlaceInOrder
<1>6. DOMAIN place = 1..Cardinality(S)
  BY DEF InOrder
<1> HIDE DEF place
<1>7. ASSUME NEW i \in DOMAIN place, NEW j \in DOMAIN place, place[i] = place[j] PROVE i = j
  <2>1. i - 1 = j - 1
    BY <1>5, <1>6, <1>7
  <2> QED
    BY <1>5, <1>6, <2>1
<1> QED
  BY <1>4, <1>5, <1>6, <1>7

\* All numbers up to one are in order already.
LEMMA SortedInterval ==
  ASSUME NEW n \in Nat
  PROVE  sorted(1..n) = [k \in 1..n |-> k]
<1>1. IsFiniteSet(1..n) /\ Cardinality(1..n) = n
  <2>1. IsFiniteSet(1..n) /\ Cardinality(1..n) = IF 1 > n THEN 0 ELSE n - 1 + 1
    BY FS_Interval
  <2> QED
    BY <2>1
<1>2. ASSUME NEW k \in 1..n PROVE Cardinality({y \in 1..n : y < k}) = k - 1
  <2>1. {y \in 1..n : y < k} = 1..(k - 1)
    OBVIOUS
  <2>2. Cardinality(1..(k - 1)) = IF 1 > k - 1 THEN 0 ELSE (k - 1) - 1 + 1
    BY FS_Interval
  <2> QED
    BY <2>1, <2>2, SMTT(30)
<1>3. ASSUME NEW k \in 1..n
      PROVE  (CHOOSE x \in 1..n : Cardinality({y \in 1..n : y < x}) = k - 1) = k
  <2>1. \E x \in 1..n : Cardinality({y \in 1..n : y < x}) = k - 1
    BY <1>2
  <2>2. \A x \in 1..n : Cardinality({y \in 1..n : y < x}) = k - 1 => x = k
    BY <1>2
  <2> QED
    BY <2>1, <2>2, SMTT(30)
<1> QED
  BY <1>1, <1>3 DEF sorted

\* What stands at some places of a sequence without repetitions.
LEMMA ElementsAre ==
  ASSUME NEW s, NEW places, IsFiniteSet(places), places \subseteq Nat,
         \A i, j \in places : s[i] = s[j] => i = j
  PROVE  LET e == elementsAt(s, places)
         IN  /\ Cardinality(places) \in Nat /\ DOMAIN e = 1..Cardinality(places)
             /\ \A k \in DOMAIN e : \E i \in places : e[k] = s[i]
             /\ \A i \in places : \E k \in DOMAIN e : e[k] = s[i]
             /\ \A j, k \in DOMAIN e : e[j] = e[k] => j = k
<1> DEFINE at == sorted(places)
<1>1. /\ Cardinality(places) \in Nat /\ DOMAIN at = 1..Cardinality(places)
      /\ \A k \in DOMAIN at : at[k] \in places
      /\ \A x \in places : \E k \in DOMAIN at : at[k] = x
      /\ \A i, j \in DOMAIN at : at[i] = at[j] => i = j
  BY SortedIs
<1>2. elementsAt(s, places) = [k \in DOMAIN at |-> s[at[k]]]
  BY DEF elementsAt
<1> DEFINE e == elementsAt(s, places)
<1>3. DOMAIN e = 1..Cardinality(places) /\ \A k \in DOMAIN e : e[k] = s[at[k]]
  BY <1>1, <1>2
<1> HIDE DEF at, e
<1>4. ASSUME NEW k \in DOMAIN e PROVE \E i \in places : e[k] = s[i]
  BY <1>1, <1>3
<1>4a. ASSUME NEW i \in places PROVE \E k \in DOMAIN e : e[k] = s[i]
  <2>1. PICK k \in DOMAIN at : at[k] = i
    BY <1>1
  <2>2. k \in DOMAIN e /\ e[k] = s[at[k]]
    BY <1>1, <1>3
  <2> QED
    BY <2>1, <2>2
<1>5. ASSUME NEW j \in DOMAIN e, NEW k \in DOMAIN e, e[j] = e[k] PROVE j = k
  <2>1. j \in DOMAIN at /\ k \in DOMAIN at
    BY <1>1, <1>3
  <2>2. at[j] \in places /\ at[k] \in places
    BY <1>1, <2>1
  <2>3. s[at[j]] = s[at[k]]
    BY <1>3, <1>5
  <2>4. at[j] = at[k]
    BY <2>2, <2>3
  <2> QED
    BY <1>1, <2>1, <2>4
<1> QED
  BY <1>1, <1>3, <1>4, <1>4a, <1>5 DEF e

\* The elements at all places are the sequence.
LEMMA ElementsAtAll ==
  ASSUME NEW s, Len(s) \in Nat, s = [k \in 1..Len(s) |-> s[k]]
  PROVE  elementsAt(s, 1..Len(s)) = s
<1>1. elementsAt(s, 1..Len(s)) = [k \in 1..Len(s) |-> s[[i \in 1..Len(s) |-> i][k]]]
  BY SortedInterval DEF elementsAt
<1> QED
  BY <1>1

\* The first option, and the last one.
Recommended(label) == [label |-> label, recommended |-> TRUE, basis |-> {}]
OwnWords == [label |-> "other", recommended |-> FALSE, basis |-> {}]

\* Alternatives of different labels, none of them the recommended one, are all offered.
LEMMA OptionsAre ==
  ASSUME NEW X, NEW alternatives \in Seq(X), NEW label,
         \A i \in DOMAIN alternatives : alternatives[i].label # label,
         \A i, j \in DOMAIN alternatives : alternatives[i].label = alternatives[j].label => i = j
  PROVE  LET options == buildPromptOptions(label, alternatives)
             n == Len(alternatives)
         IN  /\ n \in Nat /\ Len(options) = n + 2 /\ DOMAIN options = 1..(n + 2)
             /\ options[1] = Recommended(label) /\ options[n + 2] = OwnWords
             /\ \A i \in 1..n : options[i + 1] = alternatives[i]
<1> DEFINE new(i) == alternatives[i].label # label /\ \A j \in 1..(i - 1) : alternatives[j].label # alternatives[i].label
           n == Len(alternatives)
           options == buildPromptOptions(label, alternatives)
           Y == X \cup {Recommended(label), OwnWords}
<1>1. n \in Nat /\ DOMAIN alternatives = 1..n /\ alternatives = [k \in 1..n |-> alternatives[k]]
  OBVIOUS
<1>2. {i \in DOMAIN alternatives : new(i)} = 1..n
  <2>1. ASSUME NEW i \in DOMAIN alternatives PROVE new(i)
    <3>1. \A j \in 1..(i - 1) : j \in DOMAIN alternatives /\ j # i
      BY <1>1
    <3> QED
      BY <3>1
  <2> HIDE DEF new
  <2> QED
    BY <1>1, <2>1
<1>3. elementsAt(alternatives, 1..n) = alternatives
  BY <1>1, ElementsAtAll
<1>4. options = <<Recommended(label)>> \o elementsAt(alternatives, {i \in DOMAIN alternatives : new(i)}) \o <<OwnWords>>
  BY DEF buildPromptOptions, Recommended, OwnWords
<1>5. options = <<Recommended(label)>> \o alternatives \o <<OwnWords>>
  <2> HIDE DEF options, new
  <2> QED
    BY <1>2, <1>3, <1>4
<1>6. alternatives \in Seq(Y) /\ <<Recommended(label)>> \in Seq(Y) /\ <<OwnWords>> \in Seq(Y)
  <2>1. X \subseteq Y /\ Recommended(label) \in Y /\ OwnWords \in Y
    OBVIOUS
  <2> HIDE DEF Y
  <2> QED
    BY <2>1
<1> HIDE DEF options, Y, new
<1>7. /\ Len(options) = n + 2 /\ DOMAIN options = 1..(n + 2)
      /\ options[1] = Recommended(label) /\ options[n + 2] = OwnWords
      /\ \A i \in 1..n : options[i + 1] = alternatives[i]
  <2> DEFINE front == <<Recommended(label)>> \o alternatives
  <2>1. front \in Seq(Y) /\ Len(front) = n + 1 /\ front[1] = Recommended(label)
        /\ \A i \in 1..n : front[i + 1] = alternatives[i]
    BY <1>1, <1>6
  <2>2. options = front \o <<OwnWords>>
    BY <1>5
  <2> HIDE DEF front
  <2>3. Len(options) = n + 2 /\ options \in Seq(Y)
    BY <1>1, <1>6, <2>1, <2>2
  <2>4. \A i \in 1..(n + 1) : options[i] = front[i]
    BY <1>1, <1>6, <2>1, <2>2
  <2>5. options[n + 2] = OwnWords
    BY <1>1, <1>6, <2>1, <2>2
  <2>6. 1 \in 1..(n + 1) /\ \A i \in 1..n : i + 1 \in 1..(n + 1)
    BY <1>1
  <2> QED
    BY <2>1, <2>3, <2>4, <2>5, <2>6
<1> QED
  BY <1>1, <1>7 DEF options

\* What is offered, in no order.
LEMMA RangeOfOptions ==
  ASSUME NEW X, NEW alternatives \in Seq(X), NEW label,
         \A i \in DOMAIN alternatives : alternatives[i].label # label,
         \A i, j \in DOMAIN alternatives : alternatives[i].label = alternatives[j].label => i = j
  PROVE  Range(buildPromptOptions(label, alternatives))
           = {Recommended(label), OwnWords} \cup {alternatives[i] : i \in DOMAIN alternatives}
<1> DEFINE n == Len(alternatives)
           options == buildPromptOptions(label, alternatives)
<1>1. /\ n \in Nat /\ DOMAIN options = 1..(n + 2)
      /\ options[1] = Recommended(label) /\ options[n + 2] = OwnWords
      /\ \A i \in 1..n : options[i + 1] = alternatives[i]
  BY OptionsAre
<1>2. DOMAIN alternatives = 1..n
  OBVIOUS
<1> HIDE DEF options, n
<1>3. ASSUME NEW k \in DOMAIN options
      PROVE  options[k] \in {Recommended(label), OwnWords} \cup {alternatives[i] : i \in DOMAIN alternatives}
  <2>1. k = 1 \/ k = n + 2 \/ (k - 1 \in 1..n /\ k = (k - 1) + 1)
    BY <1>1
  <2> QED
    BY <1>1, <1>2, <2>1
<1>4. ASSUME NEW i \in DOMAIN alternatives PROVE \E k \in DOMAIN options : options[k] = alternatives[i]
  <2>1. i + 1 \in DOMAIN options
    BY <1>1, <1>2
  <2> QED
    BY <1>1, <1>2, <2>1
<1>5. 1 \in DOMAIN options /\ n + 2 \in DOMAIN options
  BY <1>1
<1>6. Range(options) = {options[k] : k \in DOMAIN options}
  BY DEF Range
<1> QED
  BY <1>1, <1>3, <1>4, <1>5, <1>6 DEF options

\* The operator sees every shape that fits once, the selected one recommended.
LEMMA ArchOptionsAre ==
  ASSUME NEW D, NEW shapes \in Seq(D), NEW selected \in Range(shapes),
         \A i, j \in DOMAIN shapes : shapes[i] = shapes[j] => i = j
  PROVE  LET options == archOptions(shapes, selected)
         IN  /\ {o.label : o \in Range(options)} = Range(shapes) \cup {"other"}
             /\ Len(options) = Len(shapes) + 1
             /\ {o.label : o \in {x \in Range(options) : x.recommended}} = {selected}
<1> DEFINE places == {i \in DOMAIN shapes : shapes[i] # selected}
           others == elementsAt(shapes, places)
           option(id) == [label |-> id, recommended |-> FALSE, basis |-> {}]
           options == archOptions(shapes, selected)
           alternatives == [i \in DOMAIN others |-> option(others[i])]
<1>1. Len(shapes) \in Nat /\ DOMAIN shapes = 1..Len(shapes) /\ Range(shapes) = {shapes[i] : i \in DOMAIN shapes}
  BY DEF Range
<1>2. PICK at \in DOMAIN shapes : shapes[at] = selected
  BY <1>1
<1>3. places = DOMAIN shapes \ {at}
  BY <1>2
<1>4. IsFiniteSet(places) /\ places \subseteq Nat /\ Cardinality(places) = Len(shapes) - 1
  <2>1. IsFiniteSet(1..Len(shapes)) /\ Cardinality(1..Len(shapes)) = Len(shapes)
    <3>1. IsFiniteSet(1..Len(shapes)) /\ Cardinality(1..Len(shapes)) = IF 1 > Len(shapes) THEN 0 ELSE Len(shapes) - 1 + 1
      BY <1>1, FS_Interval
    <3> QED
      BY <1>1, <3>1
  <2>2. /\ IsFiniteSet(DOMAIN shapes \ {at})
        /\ Cardinality(DOMAIN shapes \ {at}) = IF at \in DOMAIN shapes THEN Cardinality(DOMAIN shapes) - 1 ELSE Cardinality(DOMAIN shapes)
    <3>1. IsFiniteSet(DOMAIN shapes)
      BY <1>1, <2>1
    <3> QED
      BY <3>1, FS_RemoveElement
  <2> HIDE DEF places
  <2> QED
    BY <1>1, <1>3, <2>1, <2>2
<1>5. /\ DOMAIN others = 1..Cardinality(places) /\ Cardinality(places) \in Nat
      /\ \A k \in DOMAIN others : \E i \in places : others[k] = shapes[i]
      /\ \A i \in places : \E k \in DOMAIN others : others[k] = shapes[i]
      /\ \A j, k \in DOMAIN others : others[j] = others[k] => j = k
  <2>1. \A i, j \in places : shapes[i] = shapes[j] => i = j
    OBVIOUS
  <2> HIDE DEF places
  <2> QED
    BY <1>4, <2>1, ElementsAre, ZenonT(30)
<1>6. options = IF others = << >> THEN <<Recommended(selected), OwnWords>>
                ELSE buildPromptOptions(selected, alternatives)
  BY DEF archOptions, Recommended, OwnWords
<1> HIDE DEF others, options
<1>7. \A k \in DOMAIN others : others[k] \in D /\ others[k] # selected
  BY <1>5
<1>8. others = [k \in 1..Cardinality(places) |-> others[k]]
  BY DEF others, elementsAt, sorted
<1>9. others \in Seq(D) /\ Len(others) = Len(shapes) - 1
  <2> HIDE DEF places
  <2> QED
    BY <1>4, <1>5, <1>7, <1>8
<1>10. Range(shapes) = {selected} \cup {others[k] : k \in DOMAIN others}
  <2>1. ASSUME NEW i \in DOMAIN shapes PROVE shapes[i] \in {selected} \cup {others[k] : k \in DOMAIN others}
    BY <1>5, SMTT(30)
  <2>2. ASSUME NEW k \in DOMAIN others PROVE \E i \in DOMAIN shapes : others[k] = shapes[i]
    BY <1>5, SMTT(30)
  <2> QED
    BY <1>1, <2>1, <2>2
<1> HIDE DEF places
<1>11. CASE others = << >>
  <2>1. options = <<Recommended(selected), OwnWords>> /\ Len(shapes) = 1 /\ Range(shapes) = {selected}
    <3>1. Len(others) = 0 /\ DOMAIN others = {}
      BY <1>11
    <3>2. Range(shapes) = {selected}
      BY <1>10, <3>1
    <3> QED
      <4>1. options = <<Recommended(selected), OwnWords>>
        BY <1>6, <1>11
      <4>2. Len(shapes) = 1
        <5>1. Len(shapes) \in Nat
          BY <1>1
        <5>2. Len(shapes) - 1 = 0
          BY <1>9, <3>1
        <5> QED
          BY <5>1, <5>2
      <4> QED
        BY <3>2, <4>1, <4>2
  <2>2. Range(options) = {Recommended(selected), OwnWords} /\ Len(options) = 2
    BY <2>1 DEF Range
  <2>3. {o.label : o \in Range(options)} = {selected, "other"}
    BY <2>2 DEF Recommended, OwnWords
  <2>4. {x \in Range(options) : x.recommended} = {Recommended(selected)}
    BY <2>2 DEF Recommended, OwnWords
  <2>5. {o.label : o \in {Recommended(selected)}} = {selected}
    BY DEF Recommended
  <2>6. {o.label : o \in Range(options)} = Range(shapes) \cup {"other"}
    BY <2>1, <2>3
  <2>7. {o.label : o \in {x \in Range(options) : x.recommended}} = {selected}
    BY <2>4, <2>5
  <2>8. Len(options) = Len(shapes) + 1
    BY <2>1, <2>2
  <2> QED
    BY <2>6, <2>7, <2>8, ZenonT(30) DEF options
<1>12. CASE others # << >>
  <2> DEFINE X == {option(s) : s \in D}
  <2>1. options = buildPromptOptions(selected, alternatives)
    BY <1>6, <1>12
  <2>2. alternatives \in Seq(X) /\ DOMAIN alternatives = DOMAIN others /\ Len(alternatives) = Len(others)
    <3>1. \A k \in DOMAIN others : option(others[k]) \in X
      BY <1>7
    <3> HIDE DEF X, option
    <3> QED
      BY <1>9, <3>1
  <2>3. \A k \in DOMAIN others : alternatives[k] = option(others[k])
    OBVIOUS
  <2> HIDE DEF alternatives, X
  <2>4. /\ \A i \in DOMAIN alternatives : alternatives[i].label # selected
        /\ \A i, j \in DOMAIN alternatives : alternatives[i].label = alternatives[j].label => i = j
    BY <1>5, <1>7, <2>2, <2>3
  <2>5. Len(options) = Len(alternatives) + 2
    BY <2>1, <2>2, <2>4, OptionsAre
  <2>6. Range(options) = {Recommended(selected), OwnWords} \cup {alternatives[i] : i \in DOMAIN alternatives}
    <3>1. Range(buildPromptOptions(selected, alternatives))
            = {Recommended(selected), OwnWords} \cup {alternatives[i] : i \in DOMAIN alternatives}
      BY <2>2, <2>4, RangeOfOptions
    <3> QED
      BY <2>1, <3>1
  <2>7. Range(options) = {Recommended(selected), OwnWords} \cup {option(others[k]) : k \in DOMAIN others}
    BY <2>2, <2>3, <2>6, ZenonT(30)
  <2>8. {o.label : o \in Range(options)} = Range(shapes) \cup {"other"}
    <3>1. Recommended(selected).label = selected /\ OwnWords.label = "other" /\ \A s : option(s).label = s
      BY DEF Recommended, OwnWords
    <3> HIDE DEF option
    <3>2. {o.label : o \in Range(options)} = {selected, "other"} \cup {others[k] : k \in DOMAIN others}
      BY <2>7, <3>1
    <3> QED
      BY <1>10, <3>2
  <2>9. {x \in Range(options) : x.recommended} = {Recommended(selected)}
    BY <2>7 DEF Recommended, OwnWords
  <2>10. {o.label : o \in {Recommended(selected)}} = {selected}
    BY DEF Recommended
  <2>11. Len(options) = Len(shapes) + 1
    BY <1>1, <1>9, <2>2, <2>5
  <2>12. {o.label : o \in {x \in Range(options) : x.recommended}} = {selected}
    BY <2>9, <2>10
  <2> QED
    BY <2>8, <2>11, <2>12, ZenonT(30) DEF options
<1> QED
  BY <1>11, <1>12

\* Finitely many values of a type are finitely many signals.
LEMMA FiniteOneOf ==
  ASSUME NEW type, NEW V, IsFiniteSet(V)
  PROVE  IsFiniteSet(oneOf(type, V))
<1> DEFINE f == [v \in V |-> <<type, v>>]
<1>1. f \in Surjection(V, oneOf(type, V))
  BY DEF Surjection, oneOf
<1> QED
  BY <1>1, FS_Surjection

\* The shapes, one by one.
LEMMA CorpusIs ==
  /\ DOMAIN CORPUS = {PATTERN_IDS[i] : i \in 1..10} /\ DOMAIN PATTERN_IDS = 1..10
  /\ \A i, j \in 1..10 : PATTERN_IDS[i] = PATTERN_IDS[j] => i = j
<1>1. DOMAIN PATTERN_IDS = 1..10
  BY DEF PATTERN_IDS
<1>2. /\ PATTERN_IDS[1] = "analytical_cds" /\ PATTERN_IDS[2] = "custom_entity_query" /\ PATTERN_IDS[3] = "fiori_list_report"
      /\ PATTERN_IDS[4] = "rap_bo_events" /\ PATTERN_IDS[5] = "rap_bo_fiori" /\ PATTERN_IDS[6] = "rap_bo_headless"
      /\ PATTERN_IDS[7] = "rap_bo_message_driven" /\ PATTERN_IDS[8] = "rap_bo_odata" /\ PATTERN_IDS[9] = "released_replace"
      /\ PATTERN_IDS[10] = "value_help_cds"
  BY DEF PATTERN_IDS
<1>3. DOMAIN CORPUS = {"analytical_cds", "custom_entity_query", "fiori_list_report", "rap_bo_events", "rap_bo_fiori",
                       "rap_bo_headless", "rap_bo_message_driven", "rap_bo_odata", "released_replace", "value_help_cds"}
  BY DEF CORPUS
<1>4. \A i \in 1..10 : i = 1 \/ i = 2 \/ i = 3 \/ i = 4 \/ i = 5 \/ i = 6 \/ i = 7 \/ i = 8 \/ i = 9 \/ i = 10
  OBVIOUS
<1>5. DOMAIN CORPUS = {PATTERN_IDS[i] : i \in 1..10}
  <2>1. \A x \in DOMAIN CORPUS : \E i \in 1..10 : x = PATTERN_IDS[i]
    BY <1>2, <1>3
  <2>2. \A i \in 1..10 : PATTERN_IDS[i] \in DOMAIN CORPUS
    BY <1>2, <1>3, <1>4
  <2> QED
    BY <2>1, <2>2
<1>6. \A i, j \in 1..10 : PATTERN_IDS[i] = PATTERN_IDS[j] => i = j
  BY <1>2, <1>4
<1> QED
  BY <1>1, <1>5, <1>6

\* No shape asks for what it objects to.
LEMMA CorpusIsConsistent ==
  \A id \in DOMAIN CORPUS :
    /\ CORPUS[id].all \cap CORPUS[id].none = {} /\ CORPUS[id].any \cap CORPUS[id].none = {}
    /\ IsFiniteSet(CORPUS[id].all) /\ IsFiniteSet(CORPUS[id].any)
    /\ CORPUS[id].metadata_ext \in BOOLEAN
<1> DEFINE good(s) == /\ s.all \cap s.none = {} /\ s.any \cap s.none = {}
                      /\ IsFiniteSet(s.all) /\ IsFiniteSet(s.any) /\ s.metadata_ext \in BOOLEAN
<1> HIDE DEF good
<1>2. IsFiniteSet({})
  BY FS_EmptySet
<1>3. \A x : IsFiniteSet({x})
  BY FS_Singleton
<1>4. \A A, B : IsFiniteSet(A) /\ IsFiniteSet(B) => IsFiniteSet(A \cup B)
  BY FS_Union
<1>5. ASSUME NEW x, NEW y PROVE IsFiniteSet({x, y})
  <2>1. {x, y} = {x} \cup {y}
    OBVIOUS
  <2>2. IsFiniteSet({x} \cup {y})
    BY <1>3, <1>4
  <2> QED
    BY <2>1, <2>2
<1>6. ASSUME NEW x, NEW y, NEW z PROVE IsFiniteSet({x, y, z})
  <2>1. {x, y, z} = {x, y} \cup {z}
    OBVIOUS
  <2>2. IsFiniteSet({x, y} \cup {z})
    BY <1>3, <1>4, <1>5
  <2> QED
    BY <2>1, <2>2
<1>7. IsFiniteSet(CLASSIC_UI)
  BY <1>4, <1>5, <1>6, FiniteOneOf DEF CLASSIC_UI
<1>8. \A x \in CLASSIC_UI : x[1] \in {"consumption", "rule"} /\ (x[1] = "consumption" => x[2] \in {"ui_salv", "ui_dynpro"})
  BY DEF CLASSIC_UI, oneOf
<1>9. \A type, V : \A x \in oneOf(type, V) : x[1] = type /\ x[2] \in V
  BY DEF oneOf
<1>10. good(CORPUS["analytical_cds"])
  <2> DEFINE any == {<<"family", "analytics">>} \cup oneOf("target", {"CDS View", "CDS View Entity"})
  <2>1. CORPUS["analytical_cds"] = shape({}, any, {consumption(NO_EVIDENCE)}, FALSE)
    BY DEF CORPUS
  <2>2. IsFiniteSet(any)
    BY <1>3, <1>4, <1>5, FiniteOneOf
  <2>3. any \cap {consumption(NO_EVIDENCE)} = {}
    <3>1. \A x \in any : x[1] \in {"family", "target"}
      <4> DEFINE T == oneOf("target", {"CDS View", "CDS View Entity"})
      <4>1. \A x \in T : x[1] = "target"
        BY <1>9
      <4>2. <<"family", "analytics">>[1] = "family"
        OBVIOUS
      <4>3. any = {<<"family", "analytics">>} \cup T
        OBVIOUS
      <4> HIDE DEF T, any
      <4> QED
        BY <4>1, <4>2, <4>3
    <3>2. consumption(NO_EVIDENCE)[1] = "consumption"
      BY DEF consumption
    <3> HIDE DEF any
    <3> QED
      BY <3>1, <3>2
  <2> HIDE DEF any
  <2> QED
    BY <1>2, <2>1, <2>2, <2>3 DEF good, shape
<1>11. good(CORPUS["custom_entity_query"])
  <2> DEFINE any == {<<"hint", "os_exec">>, consumption("remote_rfc")}
             none == oneOf("persistence", {"owns_customer_table", "writes_via_sap_api", "writes_sap_table"})
  <2>1. CORPUS["custom_entity_query"] = shape({}, any, none, FALSE)
    BY DEF CORPUS
  <2>2. IsFiniteSet(any)
    BY <1>5
  <2>3. any \cap none = {}
    BY <1>9 DEF consumption
  <2> HIDE DEF any
  <2> QED
    BY <1>2, <2>1, <2>2, <2>3 DEF good, shape
<1>12. good(CORPUS["fiori_list_report"])
  <2> DEFINE none == {NO_TABLE} \cup oneOf("persistence", {"owns_customer_table", "writes_via_sap_api", "writes_sap_table"})
  <2>1. CORPUS["fiori_list_report"] = shape({}, CLASSIC_UI, none, TRUE)
    BY DEF CORPUS
  <2>2. CLASSIC_UI \cap none = {}
    BY <1>8, <1>9 DEF NO_TABLE, persistence
  <2> QED
    BY <1>2, <1>7, <2>1, <2>2 DEF good, shape
<1>13. good(CORPUS["rap_bo_events"])
  <2>1. CORPUS["rap_bo_events"] = shape({}, {consumption("remote_idoc_outbound")}, {NO_TABLE}, FALSE)
    BY DEF CORPUS
  <2>2. {consumption("remote_idoc_outbound")} \cap {NO_TABLE} = {}
    BY DEF NO_TABLE, persistence, consumption
  <2> QED
    BY <1>2, <1>3, <2>1, <2>2 DEF good, shape
<1>14. good(CORPUS["rap_bo_fiori"])
  <2>1. CORPUS["rap_bo_fiori"] = shape({persistence("owns_customer_table")}, CLASSIC_UI, {}, TRUE)
    BY DEF CORPUS
  <2> QED
    <3>1. IsFiniteSet({persistence("owns_customer_table")})
      BY <1>3
    <3> QED
      BY <1>7, <2>1, <3>1 DEF good, shape
<1>15. good(CORPUS["rap_bo_headless"])
  <2> DEFINE any == oneOf("disposition", {"re_architect", "rebuild"}) \cup {<<"target", "RAP Business Object">>}
             none == CLASSIC_UI \cup {NO_TABLE} \cup
                     oneOf("consumption", {"remote_rfc", "remote_bapi", "remote_idoc", NO_EVIDENCE, "classic_api_surface"})
  <2>1. CORPUS["rap_bo_headless"] = shape({}, any, none, FALSE)
    BY DEF CORPUS
  <2>2. IsFiniteSet(any)
    BY <1>3, <1>4, <1>5, FiniteOneOf
  <2>3. any \cap none = {}
    <3>1. \A x \in any : x[1] \in {"disposition", "target"}
      <4> DEFINE T == oneOf("disposition", {"re_architect", "rebuild"})
      <4>1. \A x \in T : x[1] = "disposition"
        BY <1>9
      <4>2. <<"target", "RAP Business Object">>[1] = "target"
        OBVIOUS
      <4>3. any = T \cup {<<"target", "RAP Business Object">>}
        OBVIOUS
      <4> HIDE DEF T, any
      <4> QED
        BY <4>1, <4>2, <4>3
    <3>2. \A x \in none : x[1] \in {"consumption", "rule", "persistence"}
      BY <1>8, <1>9 DEF NO_TABLE, persistence
    <3> HIDE DEF any, none
    <3> QED
      BY <3>1, <3>2
  <2> HIDE DEF any, none
  <2> QED
    BY <1>2, <2>1, <2>2, <2>3 DEF good, shape
<1>16. good(CORPUS["rap_bo_message_driven"])
  <2> DEFINE any == oneOf("consumption", {"remote_idoc_inbound", "remote_idoc"})
             none == {consumption("remote_idoc_outbound"), NO_TABLE}
  <2>1. CORPUS["rap_bo_message_driven"] = shape({}, any, none, FALSE)
    BY DEF CORPUS
  <2>2. IsFiniteSet(any)
    BY <1>5, FiniteOneOf
  <2>3. any \cap none = {}
    BY <1>9 DEF NO_TABLE, persistence, consumption
  <2> HIDE DEF any
  <2> QED
    BY <1>2, <2>1, <2>2, <2>3 DEF good, shape
<1>17. good(CORPUS["rap_bo_odata"])
  <2> DEFINE any == oneOf("consumption", {"remote_rfc", "remote_bapi"})
  <2>1. CORPUS["rap_bo_odata"] = shape({<<"object_kind", "function">>}, any, {NO_TABLE}, FALSE)
    BY DEF CORPUS
  <2>2. IsFiniteSet(any)
    BY <1>5, FiniteOneOf
  <2>3. any \cap {NO_TABLE} = {} /\ {<<"object_kind", "function">>} \cap {NO_TABLE} = {}
    BY <1>9 DEF NO_TABLE, persistence
  <2>4. IsFiniteSet({<<"object_kind", "function">>})
    BY <1>3
  <2> HIDE DEF any
  <2> QED
    BY <2>1, <2>2, <2>3, <2>4 DEF good, shape
<1>18. good(CORPUS["released_replace"])
  <2>1. CORPUS["released_replace"] = shape({}, {<<"disposition", "replace">>}, {}, FALSE)
    BY DEF CORPUS
  <2> QED
    <3>1. IsFiniteSet({<<"disposition", "replace">>})
      BY <1>3
    <3> QED
      BY <1>2, <2>1, <3>1 DEF good, shape
<1>19. good(CORPUS["value_help_cds"])
  <2> DEFINE any == oneOf("family", {"value-help", "search-help"})
  <2>1. CORPUS["value_help_cds"] = shape({}, any, {}, FALSE)
    BY DEF CORPUS
  <2>2. IsFiniteSet(any)
    BY <1>5, FiniteOneOf
  <2> QED
    BY <1>2, <2>1, <2>2 DEF good, shape
<1>20. \A id \in DOMAIN CORPUS : good(CORPUS[id])
  <2>1. DOMAIN CORPUS = {"analytical_cds", "custom_entity_query", "fiori_list_report", "rap_bo_events", "rap_bo_fiori",
                         "rap_bo_headless", "rap_bo_message_driven", "rap_bo_odata", "released_replace", "value_help_cds"}
    BY DEF CORPUS
  <2> QED
    BY <1>10, <1>11, <1>12, <1>13, <1>14, <1>15, <1>16, <1>17, <1>18, <1>19, <2>1
<1> QED
  BY <1>20 DEF good

\* What fits is listed, each shape once, and nothing else is.
LEMMA MatchesAre ==
  ASSUME NEW fact
  PROVE  LET shapes == matchTargetShapes(fact)
         IN  /\ shapes \in Seq(DOMAIN CORPUS)
             /\ \A i, j \in DOMAIN shapes : shapes[i] = shapes[j] => i = j
             /\ \A id \in DOMAIN CORPUS : id \in Range(shapes) <=> evalWhen(CORPUS[id], fact).matched
             /\ Range(shapes) \subseteq DOMAIN CORPUS
<1> DEFINE explained == explainTargetShapes(fact)
           ranked == {i \in DOMAIN PATTERN_IDS : explained[PATTERN_IDS[i]].matched}
           merit(i) == explained[PATTERN_IDS[i]].score
           ahead(i) == {j \in ranked : merit(j) > merit(i) \/ (merit(j) = merit(i) /\ j < i)}
           R == {p \in ranked \X ranked : merit(p[1]) > merit(p[2]) \/ (merit(p[1]) = merit(p[2]) /\ p[1] < p[2])}
           shapes == matchTargetShapes(fact)
<1>1. \A id \in DOMAIN CORPUS : explained[id] = evalWhen(CORPUS[id], fact)
  BY DEF explainTargetShapes
<1>2. ASSUME NEW i \in ranked PROVE merit(i) \in Nat
  <2> DEFINE when == CORPUS[PATTERN_IDS[i]]
  <2>1. PATTERN_IDS[i] \in DOMAIN CORPUS
    BY CorpusIs
  <2>2. IsFiniteSet(when.all) /\ IsFiniteSet(when.any)
    BY <2>1, CorpusIsConsistent
  <2>3. Cardinality(when.all) \in Nat /\ Cardinality(when.any \cap fact) \in Nat
    BY <2>2, FS_CardinalityType, FS_Subset
  <2>4. merit(i) = evalWhen(when, fact).score /\ evalWhen(when, fact).matched
    BY <1>1, <2>1
  <2>5. evalWhen(when, fact).score = IF evalWhen(when, fact).matched THEN Cardinality(when.all) + Cardinality(when.any \cap fact) ELSE 0
    BY DEF evalWhen
  <2> HIDE DEF when, merit
  <2> QED
    BY <2>3, <2>4, <2>5
<1>3. ranked \subseteq 1..10 /\ IsFiniteSet(ranked)
  <2>1. ranked \subseteq 1..10
    BY CorpusIs
  <2>2. IsFiniteSet(1..10)
    <3>1. 1 \in Int /\ 10 \in Int
      OBVIOUS
    <3> QED
      BY <3>1, FS_Interval
  <2> HIDE DEF ranked
  <2> QED
    BY <2>1, <2>2, FS_Subset
<1> HIDE DEF merit, ranked
<1>4. Orders(R, ranked)
  <2>1. \A x, y \in ranked : <<x, y>> \in R <=> merit(x) > merit(y) \/ (merit(x) = merit(y) /\ x < y)
    OBVIOUS
  <2>2. \A x \in ranked : x \in Nat /\ merit(x) \in Nat
    BY <1>2, <1>3
  <2> HIDE DEF R
  <2> QED
    BY <2>1, <2>2 DEF Orders
<1>5. ASSUME NEW i \in ranked PROVE Cardinality(ahead(i)) = Rank(R, ranked, i)
  <2>1. ahead(i) = {j \in ranked : <<j, i>> \in R}
    OBVIOUS
  <2> QED
    BY <2>1 DEF Rank
<1> HIDE DEF R
<1>6. ASSUME NEW k \in 1..Cardinality(ranked)
      PROVE  (CHOOSE i \in ranked : Cardinality(ahead(i)) = k - 1) = InOrder(R, ranked)[k]
  <2>1. InOrder(R, ranked)[k] = CHOOSE i \in ranked : Rank(R, ranked, i) = k - 1
    BY DEF InOrder
  <2> HIDE DEF ahead
  <2>2. (CHOOSE i \in ranked : Cardinality(ahead(i)) = k - 1) = CHOOSE i \in ranked : Rank(R, ranked, i) = k - 1
    BY <1>5
  <2> QED
    BY <2>1, <2>2
<1>7. shapes = [k \in 1..Cardinality(ranked) |-> PATTERN_IDS[CHOOSE i \in ranked : Cardinality(ahead(i)) = k - 1]]
  BY DEF matchTargetShapes, ranked, merit
<1>8. shapes = [k \in 1..Cardinality(ranked) |-> PATTERN_IDS[InOrder(R, ranked)[k]]]
  <2> DEFINE chosen(k) == CHOOSE i \in ranked : Cardinality(ahead(i)) = k - 1
  <2>1. shapes = [k \in 1..Cardinality(ranked) |-> PATTERN_IDS[chosen(k)]]
    BY <1>7
  <2>2. \A k \in 1..Cardinality(ranked) : chosen(k) = InOrder(R, ranked)[k]
    BY <1>6
  <2> HIDE DEF chosen, shapes
  <2> QED
    BY <2>1, <2>2
<1> HIDE DEF ahead, shapes
<1>9. /\ Cardinality(ranked) \in Nat
      /\ \A k \in 1..Cardinality(ranked) : InOrder(R, ranked)[k] \in ranked /\ Rank(R, ranked, InOrder(R, ranked)[k]) = k - 1
      /\ \A x \in ranked : Rank(R, ranked, x) + 1 \in 1..Cardinality(ranked) /\ InOrder(R, ranked)[Rank(R, ranked, x) + 1] = x
  BY <1>3, <1>4, PlaceInOrder
<1>10. shapes \in Seq(DOMAIN CORPUS) /\ DOMAIN shapes = 1..Cardinality(ranked)
  <2>1. \A k \in 1..Cardinality(ranked) : PATTERN_IDS[InOrder(R, ranked)[k]] \in DOMAIN CORPUS
    BY <1>3, <1>9, CorpusIs
  <2> QED
    BY <1>8, <1>9, <2>1
<1>11. ASSUME NEW i \in DOMAIN shapes, NEW j \in DOMAIN shapes, shapes[i] = shapes[j] PROVE i = j
  <2>1. PATTERN_IDS[InOrder(R, ranked)[i]] = PATTERN_IDS[InOrder(R, ranked)[j]]
    BY <1>8, <1>10, <1>11
  <2>2. InOrder(R, ranked)[i] = InOrder(R, ranked)[j]
    BY <1>3, <1>9, <1>10, <2>1, CorpusIs
  <2>3. i - 1 = j - 1 /\ i \in Nat /\ j \in Nat
    BY <1>9, <1>10, <2>2
  <2> QED
    BY <2>3
<1>12. Range(shapes) = {PATTERN_IDS[i] : i \in ranked}
  <2>1. Range(shapes) = {shapes[k] : k \in DOMAIN shapes}
    BY DEF Range
  <2>2. ASSUME NEW k \in DOMAIN shapes PROVE \E i \in ranked : shapes[k] = PATTERN_IDS[i]
    BY <1>8, <1>9, <1>10
  <2>3. ASSUME NEW i \in ranked PROVE \E k \in DOMAIN shapes : shapes[k] = PATTERN_IDS[i]
    <3>1. Rank(R, ranked, i) + 1 \in DOMAIN shapes
      BY <1>9, <1>10
    <3> QED
      BY <1>8, <1>9, <1>10, <3>1
  <2> QED
    BY <2>1, <2>2, <2>3
<1>13. \A i \in 1..10 : i \in ranked <=> evalWhen(CORPUS[PATTERN_IDS[i]], fact).matched
  BY <1>1, CorpusIs DEF ranked
<1>14. ASSUME NEW id \in DOMAIN CORPUS PROVE id \in Range(shapes) <=> evalWhen(CORPUS[id], fact).matched
  <2>1. PICK i \in 1..10 : id = PATTERN_IDS[i]
    BY CorpusIs
  <2>2. id \in Range(shapes) <=> i \in ranked
    BY <1>3, <1>12, <2>1, CorpusIs
  <2> QED
    BY <1>13, <2>1, <2>2
<1>15. Range(shapes) \subseteq DOMAIN CORPUS
  BY <1>3, <1>12, CorpusIs
<1> QED
  BY <1>10, <1>11, <1>14, <1>15 DEF shapes

\* What an object lacks is all it lacks.
LEMMA MendedFits ==
  ASSUME NEW when, NEW fact, when.all \cap when.none = {}, when.any \cap when.none = {},
         NEW any \in IF evalWhen(when, fact).unmet_any = {} THEN {{}} ELSE {{s} : s \in evalWhen(when, fact).unmet_any}
  PROVE  evalWhen(when, (fact \cup evalWhen(when, fact).unmet_all \cup any) \ evalWhen(when, fact).violated_none).matched
<1> DEFINE e == evalWhen(when, fact)
           mended == (fact \cup e.unmet_all \cup any) \ e.violated_none
<1>1. /\ e.unmet_all = when.all \ fact
      /\ e.unmet_any = IF when.any # {} /\ when.any \cap fact = {} THEN when.any ELSE {}
      /\ e.violated_none = when.none \cap fact
  BY DEF evalWhen
<1>2. \A f : evalWhen(when, f).matched <=>
               /\ when.all \ f = {} /\ (IF when.any # {} /\ when.any \cap f = {} THEN when.any ELSE {}) = {}
               /\ when.none \cap f = {}
  BY DEF evalWhen
<1>3. any \subseteq when.any /\ (e.unmet_any # {} => any # {})
  BY <1>1
<1> HIDE DEF e
<1>4. when.all \ mended = {}
  BY <1>1
<1>5. when.none \cap mended = {}
  BY <1>1, <1>3
<1>6. when.any # {} => when.any \cap mended # {}
  <2>1. CASE when.any \cap fact # {}
    BY <1>1, <2>1
  <2>2. CASE when.any # {} /\ when.any \cap fact = {}
    BY <1>1, <1>3, <2>2
  <2> QED
    BY <2>1, <2>2
<1>7. evalWhen(when, mended).matched
  <2> HIDE DEF mended
  <2> QED
    BY <1>2, <1>4, <1>5, <1>6
<1> QED
  BY <1>7 DEF e

\* Why a shape was refused is said in full, and what fits is put to the operator.
LEMMA ExplanationHolds ==
  ASSUME kind = "match", out = Design("match", input)
  PROVE  ExplanationSuffices
<1>1. out.shapes = matchTargetShapes(input) /\ out.explained = explainTargetShapes(input)
  BY DEF Design
<1>2. ASSUME NEW id \in DOMAIN CORPUS
      PROVE  LET e == out.explained[id]
                 mended(any) == (input \cup e.unmet_all \cup any) \ e.violated_none
             IN  /\ e.matched <=> id \in Range(out.shapes)
                 /\ \A any \in IF e.unmet_any = {} THEN {{}} ELSE {{s} : s \in e.unmet_any} :
                      id \in Range(matchTargetShapes(mended(any)))
  <2> DEFINE e == evalWhen(CORPUS[id], input)
  <2>1. out.explained[id] = e
    BY <1>1 DEF explainTargetShapes
  <2>2. e.matched <=> id \in Range(out.shapes)
    BY <1>1, MatchesAre
  <2>3. ASSUME NEW any \in IF e.unmet_any = {} THEN {{}} ELSE {{s} : s \in e.unmet_any}
        PROVE  id \in Range(matchTargetShapes((input \cup e.unmet_all \cup any) \ e.violated_none))
    <3>1. CORPUS[id].all \cap CORPUS[id].none = {} /\ CORPUS[id].any \cap CORPUS[id].none = {}
      BY CorpusIsConsistent
    <3>2. evalWhen(CORPUS[id], (input \cup e.unmet_all \cup any) \ e.violated_none).matched
      BY <2>3, <3>1, MendedFits
    <3> HIDE DEF e
    <3> QED
      BY <3>2, MatchesAre
  <2> HIDE DEF e
  <2> QED
    BY <2>1, <2>2, <2>3
<1>3. ASSUME NEW selected \in Range(out.shapes)
      PROVE  LET options == archOptions(out.shapes, selected)
             IN  /\ {o.label : o \in Range(options)} = Range(out.shapes) \cup {"other"}
                 /\ Len(options) = Len(out.shapes) + 1
                 /\ {o.label : o \in {x \in Range(options) : x.recommended}} = {selected}
  <2>1. out.shapes \in Seq(DOMAIN CORPUS) /\ \A i, j \in DOMAIN out.shapes : out.shapes[i] = out.shapes[j] => i = j
    BY <1>1, MatchesAre
  <2> QED
    BY <2>1, ArchOptionsAre
<1> QED
  BY <1>2, <1>3 DEF ExplanationSuffices

\* What is made later takes the place of what was made before it.
LEMMA LastOf ==
  ASSUME NEW n \in Nat, NEW S, S \subseteq 1..n, S # {}
  PROVE  Max(S) \in S /\ \A x \in S : x <= Max(S)
<1> DEFINE T == {n - x : x \in S}
<1>1. T \subseteq Nat /\ T # {}
  <2>1. ASSUME NEW x \in S PROVE n - x \in Nat
    BY x \in 1..n
  <2> QED
    BY <2>1
<1>2. Min(T) \in T /\ \A y \in T : Min(T) <= y
  BY <1>1, MinOfNaturals
<1>3. PICK x \in S : Min(T) = n - x
  BY <1>2
<1>4. \A y \in S : x >= y
  <2>1. ASSUME NEW y \in S PROVE n - x <= n - y
    BY <1>2, <1>3
  <2> QED
    BY <2>1
<1>5. Max(S) \in S /\ \A y \in S : Max(S) >= y
  BY <1>4 DEF Max
<1>6. \A y \in S : y \in Int
  OBVIOUS
<1> QED
  BY <1>5, <1>6

\* What the file asks for is what was made.
LEMMA ConformHolds ==
  ASSUME kind = "conform", IsConformance(input), out = Design("conform", input)
  PROVE  ConformsToTheFile
<1> DEFINE made == input.generated
           contract == input.file.contract
           agrees(actual, pinned) == \A x \in DOMAIN pinned : x \in DOMAIN actual /\ pinned[x] \in {Unpinned, actual[x]}
           fits(actual, spec) == /\ actual.keys = spec.keys
                                 /\ DOMAIN actual.fields = DOMAIN spec.fields /\ agrees(actual.fields, spec.fields)
                                 /\ DOMAIN actual.associations = DOMAIN spec.associations
                                 /\ agrees(actual.associations, spec.associations)
                                 /\ agrees(actual.annotations, spec.annotations)
           reads(actual) == ({actual.source} \ {NoSource}) \cup Range(actual.associations)
           last(id) == Max({i \in DOMAIN made : made[i].id = id})
<1>1. out.result = cmdConformance(input.binding, input.file, made)
  BY DEF Design
<1> SUFFICES ASSUME out.result = "ok"
             PROVE  /\ input.binding.ratified
                    /\ input.file.contract_hash = input.file.contract => input.binding.hash = contract
                    /\ {g.id : g \in Range(made)} = {c.id : c \in contract}
                    /\ \A c \in contract : \E i \in DOMAIN made :
                         /\ made[i].id = c.id /\ \A j \in DOMAIN made : made[j].id = c.id => j <= i
                         /\ c.invariants \subseteq made[i].invariants
                         /\ \A spec \in c.specs : fits(made[i].structure, spec) /\ reads(made[i].structure) \subseteq c.grounded_apis
  BY DEF ConformsToTheFile
<1>2. loadContract(input.binding, input.file) /\ checkConformance(made, contract) = {}
  BY <1>1 DEF cmdConformance
<1>3. input.binding.ratified /\ input.file.contract_hash = input.binding.hash
  BY <1>2 DEF loadContract
<1>4. \A violation, names : each(violation, names) = {} => names = {}
  BY DEF each
<1>5. Len(made) \in Nat /\ DOMAIN made = 1..Len(made)
  BY DEF IsConformance
<1>6. /\ each("outside", {g.id : g \in Range(made)} \ {c.id : c \in contract}) = {}
      /\ \A c \in contract : c.id \in {g.id : g \in Range(made)}
      /\ \A c \in contract :
           /\ \A spec \in c.specs : checkCdsObject(spec, c.grounded_apis, made[last(c.id)].structure) = {}
           /\ each("invariant", c.invariants \ made[last(c.id)].invariants) = {}
  <2> DEFINE ids == {g.id : g \in Range(made)}
             found(c) == (UNION {checkCdsObject(spec, c.grounded_apis, made[last(c.id)].structure) : spec \in c.specs})
                         \cup each("invariant", c.invariants \ made[last(c.id)].invariants)
             violationsOf(c) == IF c.id \notin ids THEN {<<"missing", c.id>>} ELSE found(c)
  <2>1. checkConformance(made, contract) = each("outside", ids \ {c.id : c \in contract}) \cup UNION {violationsOf(c) : c \in contract}
    BY DEF checkConformance
  <2> HIDE DEF ids, found
  <2>2. each("outside", ids \ {c.id : c \in contract}) = {} /\ \A c \in contract : violationsOf(c) = {}
    <3> HIDE DEF violationsOf
    <3> QED
      BY <1>2, <2>1
  <2>3. \A c \in contract : c.id \in ids /\ found(c) = {}
    BY <2>2
  <2>4. ASSUME NEW c \in contract
        PROVE  /\ \A spec \in c.specs : checkCdsObject(spec, c.grounded_apis, made[last(c.id)].structure) = {}
               /\ each("invariant", c.invariants \ made[last(c.id)].invariants) = {}
    <3> DEFINE one(spec) == checkCdsObject(spec, c.grounded_apis, made[last(c.id)].structure)
               more == each("invariant", c.invariants \ made[last(c.id)].invariants)
               U == UNION {one(spec) : spec \in c.specs}
    <3>1. found(c) = U \cup more
      BY DEF found
    <3> HIDE DEF one, more, U
    <3>2. U = {} /\ more = {}
      <4>1. found(c) = {}
        BY <2>3
      <4> QED
        BY <3>1, <4>1
    <3>3. ASSUME NEW spec \in c.specs PROVE one(spec) = {}
      <4>1. one(spec) \in {one(s) : s \in c.specs}
        OBVIOUS
      <4>2. one(spec) \subseteq UNION {one(s) : s \in c.specs}
        BY <4>1
      <4> QED
        BY <3>2, <4>2 DEF U
    <3> QED
      BY <3>2, <3>3 DEF one, more
  <2> QED
    BY <2>2, <2>3, <2>4 DEF ids
<1>7. ASSUME NEW spec, NEW grounded, NEW actual, checkCdsObject(spec, grounded, actual) = {}
      PROVE  fits(actual, spec) /\ reads(actual) \subseteq grounded
  <2>1. /\ each("key", (spec.keys \ actual.keys) \cup (actual.keys \ spec.keys)) = {}
        /\ each("field", misses(spec.fields, actual.fields) \cup (DOMAIN actual.fields \ DOMAIN spec.fields)) = {}
        /\ each("association", misses(spec.associations, actual.associations)
                                 \cup (DOMAIN actual.associations \ DOMAIN spec.associations)) = {}
        /\ each("annotation", misses(spec.annotations, actual.annotations)) = {}
        /\ each("ungrounded", reads(actual) \ grounded) = {}
    BY <1>7 DEF checkCdsObject
  <2>2. \A pinned, other : misses(pinned, other) = {} => agrees(other, pinned)
    BY DEF misses
  <2>3. \A pinned, other : misses(pinned, other) \subseteq DOMAIN pinned
    BY DEF misses
  <2> HIDE DEF agrees, reads
  <2>4. actual.keys = spec.keys
    <3>1. (spec.keys \ actual.keys) \cup (actual.keys \ spec.keys) = {}
      BY <1>4, <2>1
    <3> QED
      BY <3>1
  <2>5. misses(spec.fields, actual.fields) = {} /\ DOMAIN actual.fields \subseteq DOMAIN spec.fields
    <3>1. misses(spec.fields, actual.fields) \cup (DOMAIN actual.fields \ DOMAIN spec.fields) = {}
      BY <1>4, <2>1
    <3> QED
      BY <3>1
  <2>6. /\ misses(spec.associations, actual.associations) = {}
        /\ DOMAIN actual.associations \subseteq DOMAIN spec.associations
    <3>1. misses(spec.associations, actual.associations) \cup (DOMAIN actual.associations \ DOMAIN spec.associations) = {}
      BY <1>4, <2>1
    <3> QED
      BY <3>1
  <2>7. misses(spec.annotations, actual.annotations) = {} /\ reads(actual) \subseteq grounded
    <3>1. misses(spec.annotations, actual.annotations) = {} /\ reads(actual) \ grounded = {}
      BY <1>4, <2>1
    <3> QED
      BY <3>1
  <2>8. DOMAIN spec.fields \subseteq DOMAIN actual.fields /\ DOMAIN spec.associations \subseteq DOMAIN actual.associations
    BY <2>2, <2>5, <2>6 DEF agrees
  <2> QED
    BY <2>2, <2>4, <2>5, <2>6, <2>7, <2>8
<1>8. {g.id : g \in Range(made)} = {c.id : c \in contract}
  <2>1. {g.id : g \in Range(made)} \ {c.id : c \in contract} = {}
    BY <1>4, <1>6
  <2> QED
    BY <1>6, <2>1
<1>9. ASSUME NEW c \in contract
      PROVE  \E i \in DOMAIN made :
               /\ made[i].id = c.id /\ \A j \in DOMAIN made : made[j].id = c.id => j <= i
               /\ c.invariants \subseteq made[i].invariants
               /\ \A spec \in c.specs : fits(made[i].structure, spec) /\ reads(made[i].structure) \subseteq c.grounded_apis
  <2> DEFINE S == {i \in DOMAIN made : made[i].id = c.id}
  <2>1. S \subseteq 1..Len(made) /\ S # {}
    <3>1. PICK g \in Range(made) : g.id = c.id
      BY <1>6
    <3>2. PICK i \in DOMAIN made : made[i] = g
      BY <3>1 DEF Range
    <3>3. i \in S
      BY <3>1, <3>2
    <3> QED
      BY <1>5, <3>3
  <2>2. last(c.id) \in S /\ \A j \in S : j <= last(c.id)
    <3> HIDE DEF S
    <3>1. Max(S) \in S /\ \A j \in S : j <= Max(S)
      BY <1>5, <2>1, LastOf
    <3> QED
      BY <3>1 DEF S
  <2>3. c.invariants \ made[last(c.id)].invariants = {}
    <3> HIDE DEF last, made
    <3> QED
      BY <1>4, <1>6
  <2>4. \A spec \in c.specs : fits(made[last(c.id)].structure, spec) /\ reads(made[last(c.id)].structure) \subseteq c.grounded_apis
    <3> HIDE DEF last, made, fits, reads
    <3> QED
      BY <1>6, <1>7
  <2> HIDE DEF last, fits, reads
  <2> QED
    BY <2>2, <2>3, <2>4
<1> QED
  BY <1>3, <1>8, <1>9

\* The smallest of some natural numbers.
LEMMA SmallestOf ==
  ASSUME NEW S, S \subseteq Nat, S # {}
  PROVE  Smallest(S) \in S /\ \A x \in S : Smallest(S) <= x
<1>1. \E x \in S : \A y \in S : x <= y
  BY MinOfNaturals
<1> QED
  BY <1>1 DEF Smallest

\* The names of a plan's nodes.
LEMMA NamesOfPlan ==
  ASSUME NEW plan, IsPlan(plan)
  PROVE  /\ IsFiniteSet({n.id : n \in plan}) /\ {n.id : n \in plan} \subseteq Nat \ {NoObject}
         /\ \A S : S \subseteq {n.id : n \in plan} => IsFiniteSet(S) /\ Cardinality(S) \in Nat
<1> DEFINE ids == {n.id : n \in plan}
           f == [n \in plan |-> n.id]
<1>1. f \in Surjection(plan, ids)
  BY DEF Surjection
<1>2. IsFiniteSet(plan) /\ \A n \in plan : n.id \in Nat \ {NoObject}
  BY DEF IsPlan
<1> HIDE DEF f
<1>3. IsFiniteSet(ids)
  BY <1>1, <1>2, FS_Surjection
<1>4. ids \subseteq Nat \ {NoObject}
  BY <1>2
<1> HIDE DEF ids
<1>5. \A S : S \subseteq ids => IsFiniteSet(S) /\ Cardinality(S) \in Nat
  BY <1>3, FS_Subset, FS_CardinalityType
<1> QED
  BY <1>3, <1>4, <1>5 DEF ids

\* Who is tied to whom is the same from both ends.
LEMMA GroupHolds ==
  ASSUME kind = "group", IsGroup(input), out = Design("group", input)
  PROVE  GroupEvidenceIsMutual
<1> DEFINE ids == {n.id : n \in input.plan}
           group == input.group
           needs(a, b) == \E n \in input.plan : n.id = a /\ b \in n.dependencies
           tied(a, b) == a # b /\ (needs(a, b) \/ needs(b, a))
           ties(h) == Cardinality({m \in group : tied(h, m)})
           adjacency == buildAdjacency(input.plan)
           links(h) == Cardinality({m \in group : h \in adjacency[m]})
           hubs == {h \in DOMAIN adjacency \ group : links(h) > 1}
           strongest == {h \in hubs : \A x \in hubs : links(x) <= links(h)}
<1>1. /\ out.evidence = [o \in group |-> groupEvidence(o, group, adjacency)]
      /\ out.hub = groupHub(group, adjacency)
  BY DEF Design
<1>2. IsPlan(input.plan) /\ group \subseteq ids
  BY DEF IsGroup
<1>3. ids \subseteq Nat \ {NoObject} /\ \A S : S \subseteq ids => IsFiniteSet(S) /\ Cardinality(S) \in Nat
  BY <1>2, NamesOfPlan
<1>4. DOMAIN adjacency = ids /\ \A a, b \in ids : b \in adjacency[a] <=> tied(a, b)
  BY DEF buildAdjacency
<1>5. out.hub = IF hubs = {} THEN NoObject ELSE Smallest(strongest)
  BY <1>1 DEF groupHub
<1>6. \A a, b : tied(a, b) <=> tied(b, a)
  OBVIOUS
<1> HIDE DEF adjacency, ids, tied
<1>7. ASSUME NEW o \in group
      PROVE  /\ out.evidence[o].linked_members = ties(o)
             /\ out.evidence[o].isolated <=> group # {o} /\ \A m \in group : ~ tied(o, m)
  <2> DEFINE linked == (group \ {o}) \cap adjacency[o]
  <2>1. linked = {m \in group : tied(o, m)}
    BY <1>2, <1>4 DEF tied
  <2>2. out.evidence[o] = [members |-> Cardinality(group), linked_members |-> Cardinality(linked),
                           isolated |-> Cardinality(group) > 1 /\ linked = {}]
    BY <1>1 DEF groupEvidence
  <2>3. Cardinality(group) > 1 <=> group # {o}
    <3>1. IsFiniteSet(group) /\ Cardinality(group) \in Nat
      BY <1>2, <1>3
    <3>2. IsFiniteSet(group \ {o}) /\ Cardinality(group \ {o}) = Cardinality(group) - 1
      BY <3>1, FS_RemoveElement
    <3>3. Cardinality(group \ {o}) = 0 <=> group \ {o} = {}
      BY <3>2, FS_EmptySet
    <3>4. Cardinality(group \ {o}) \in Nat
      BY <3>2, FS_CardinalityType
    <3>5. Cardinality(group) > 1 <=> group \ {o} # {}
      BY <3>1, <3>2, <3>3, <3>4
    <3> QED
      BY <3>5
  <2> HIDE DEF linked
  <2>4. Cardinality(linked) = ties(o) /\ (linked = {} <=> \A m \in group : ~ tied(o, m))
    BY <2>1
  <2> HIDE DEF ties
  <2>5. out.evidence[o].linked_members = Cardinality(linked)
    BY <2>2
  <2>6. out.evidence[o].isolated = (Cardinality(group) > 1 /\ linked = {})
    BY <2>2
  <2> QED
    BY <2>3, <2>4, <2>5, <2>6
<1>8. ASSUME NEW h \in ids \ group PROVE links(h) = ties(h) /\ links(h) \in Nat /\ links(h) <= Cardinality(group)
  <2>1. {m \in group : h \in adjacency[m]} = {m \in group : tied(h, m)}
    BY <1>2, <1>4, <1>6
  <2>2. IsFiniteSet(group) /\ Cardinality(group) \in Nat
    BY <1>2, <1>3
  <2>3. \A S : S \subseteq group => IsFiniteSet(S) /\ Cardinality(S) \in Nat /\ Cardinality(S) <= Cardinality(group)
    BY <2>2, FS_Subset, FS_CardinalityType
  <2>4. {m \in group : h \in adjacency[m]} \subseteq group
    OBVIOUS
  <2> QED
    BY <2>1, <2>3, <2>4
<1>9. hubs \subseteq ids \ group /\ hubs = {h \in ids \ group : ties(h) > 1}
  BY <1>4, <1>8
<1> HIDE DEF hubs, links, ties
<1>10. CASE hubs = {}
  <2>1. out.hub = NoObject /\ \A h \in ids \ group : ~ ties(h) > 1
    BY <1>5, <1>9, <1>10
  <2> QED
    BY <1>7, <2>1 DEF GroupEvidenceIsMutual, ties, tied, ids
<1>11. CASE hubs # {}
  <2> DEFINE top == Cardinality(group)
             T == {top - links(h) : h \in hubs}
  <2>1. top \in Nat
    BY <1>2, <1>3
  <2>2. T \subseteq Nat /\ T # {}
    <3>1. ASSUME NEW h \in hubs PROVE top - links(h) \in Nat
      <4> HIDE DEF top
      <4> QED
        BY <1>8, <1>9, <2>1 DEF top
    <3> HIDE DEF top
    <3> QED
      BY <1>11, <3>1
  <2>3. PICK h \in hubs : Min(T) = top - links(h)
    BY <2>2, MinOfNaturals
  <2>4. \A x \in hubs : links(x) <= links(h)
    <3>1. ASSUME NEW x \in hubs PROVE links(x) <= links(h)
      <4>1. top - links(h) <= top - links(x)
        BY <2>2, <2>3, MinOfNaturals
      <4>2. links(x) \in Nat /\ links(h) \in Nat
        BY <1>8, <1>9
      <4> HIDE DEF top, T
      <4> QED
        BY <2>1, <4>1, <4>2
    <3> QED
      BY <3>1
  <2>5. strongest \subseteq Nat /\ strongest # {}
    BY <1>3, <1>9, <2>4
  <2>6. out.hub \in strongest
    BY <1>5, <1>11, <2>5, SmallestOf
  <2>7. out.hub \in ids \ group /\ out.hub # NoObject /\ ties(out.hub) > 1
    BY <1>3, <1>9, <2>6
  <2>8. \A x \in ids \ group : ties(x) > 1 => ties(out.hub) >= ties(x)
    <3>1. ASSUME NEW x \in ids \ group, ties(x) > 1 PROVE ties(out.hub) >= ties(x)
      <4>1. x \in hubs /\ links(x) <= links(out.hub)
        BY <1>9, <2>6, <3>1
      <4>2. links(x) = ties(x) /\ links(out.hub) = ties(out.hub) /\ links(x) \in Nat /\ links(out.hub) \in Nat
        BY <1>8, <2>7
      <4> QED
        BY <4>1, <4>2
    <3> QED
      BY <3>1
  <2> HIDE DEF strongest
  <2> QED
    BY <1>7, <2>7, <2>8 DEF GroupEvidenceIsMutual, ties, tied, ids
<1> QED
  BY <1>10, <1>11

\* Verdicts whose group is not complete.
Stale(s, rec) == {n \in Resolved(s) : ~ sharedFitsPlan(rec[n], Resolved(s))}

\* g is the course of the settling, over L turns.
IsSettling(g, L, status, rec) ==
  /\ g = [k \in 0..L |-> g[k]]
  /\ g[0] = status
  /\ \A k \in 1..L : g[k] = demote(g[k - 1], rec)

\* There is a course of every length.
LEMMA SettlingExists ==
  ASSUME NEW status, NEW rec, NEW L \in Nat
  PROVE  \E g : IsSettling(g, L, status, rec)
<1> DEFINE Has(k) == \E g : IsSettling(g, k, status, rec)
           T == {k \in Nat : ~ Has(k)}
<1> SUFFICES ASSUME T # {} PROVE FALSE
  OBVIOUS
<1>1. PICK k \in T : \A m \in T : k <= m
  BY MinOfNaturals
<1>2. CASE k = 0
  <2> DEFINE g == [j \in 0..0 |-> status]
  <2>1. IsSettling(g, 0, status, rec)
    BY DEF IsSettling
  <2> QED
    BY <1>2, <2>1
<1>3. CASE k # 0
  <2>1. k - 1 \in Nat /\ Has(k - 1)
    BY <1>1, <1>3
  <2>2. PICK g : IsSettling(g, k - 1, status, rec)
    BY <2>1
  <2> DEFINE last == demote(g[k - 1], rec)
             h == [j \in 0..k |-> IF j = k THEN last ELSE g[j]]
  <2>3. /\ h = [j \in 0..k |-> h[j]] /\ h[k] = last /\ k \in 1..k
        /\ \A j \in 0..(k - 1) : h[j] = g[j]
        /\ 0 \in 0..(k - 1) /\ \A j \in 1..k : j - 1 \in 0..(k - 1)
        /\ \A j \in 1..k : j = k \/ j \in 1..(k - 1)
    BY <2>1
  <2>4. IsSettling(h, k, status, rec)
    <3> HIDE DEF h
    <3>1. h[0] = status
      BY <2>2, <2>3 DEF IsSettling
    <3>2. ASSUME NEW j \in 1..(k - 1)
          PROVE  h[j] = demote(h[j - 1], rec)
      <4>1. j \in 0..(k - 1) /\ j - 1 \in 0..(k - 1)
        BY <2>1
      <4> QED
        BY <2>2, <2>3, <4>1 DEF IsSettling
    <3>3. h[k] = demote(h[k - 1], rec)
      BY <2>3
    <3> QED
      BY <2>3, <3>1, <3>2, <3>3 DEF IsSettling
  <2> QED
    BY <1>1, <2>4
<1> QED
  BY <1>2, <1>3

\* The settling ends where such a course does.
LEMMA SettlingIsCourse ==
  ASSUME NEW status, NEW rec, Cardinality(DOMAIN status) \in Nat
  PROVE  \E g : /\ IsSettling(g, Cardinality(DOMAIN status), status, rec)
                /\ settle(status, rec) = g[Cardinality(DOMAIN status)]
<1> DEFINE L == Cardinality(DOMAIN status)
           Is(g) == g = [k \in 0..L |-> IF k = 0 THEN status ELSE demote(g[k - 1], rec)]
           b == CHOOSE g : Is(g)
<1>1. PICK g : IsSettling(g, L, status, rec)
  BY SettlingExists
<1>2. Is(g)
  <2> DEFINE at(k) == IF k = 0 THEN status ELSE demote(g[k - 1], rec)
  <2>1. L \in Nat /\ g = [k \in 0..L |-> g[k]] /\ g[0] = status /\ \A k \in 1..L : g[k] = demote(g[k - 1], rec)
    BY <1>1 DEF IsSettling
  <2> HIDE DEF L
  <2>2. ASSUME NEW k \in 0..L PROVE g[k] = at(k)
    <3>1. k = 0 \/ (k # 0 /\ k \in 1..L)
      BY <2>1
    <3> QED
      BY <2>1, <3>1
  <2> HIDE DEF at
  <2>3. g = [k \in 0..L |-> at(k)]
    BY <2>1, <2>2
  <2> QED
    BY <2>3 DEF at
<1>3. Is(b)
  BY <1>2
<1>4. IsSettling(b, L, status, rec)
  <2>1. ASSUME NEW f, Is(f) PROVE IsSettling(f, L, status, rec)
    BY <2>1 DEF IsSettling
  <2> HIDE DEF b
  <2> QED
    BY <1>3, <2>1
<1>5. settle(status, rec) = b[L]
  BY DEF settle
<1> QED
  BY <1>4, <1>5

\* A settling only takes verdicts away, and none of a complete group.
OnlyStaleAreGone(s, status, rec) ==
  /\ s = [n \in DOMAIN status |-> s[n]]
  /\ \A n \in DOMAIN status : s[n] = status[n] \/ (status[n] = "cached" /\ s[n] = "await_arch")
  /\ \A S \in SUBSET Resolved(status) : (\A n \in S : sharedFitsPlan(rec[n], S)) => S \subseteq Resolved(s)

\* One more turn takes one stale verdict away.
LEMMA DemoteTakesOne ==
  ASSUME NEW status, NEW rec, DOMAIN status \subseteq Nat, IsFiniteSet(DOMAIN status),
         NEW s, OnlyStaleAreGone(s, status, rec)
  PROVE  /\ OnlyStaleAreGone(demote(s, rec), status, rec)
         /\ Stale(s, rec) = {} => demote(s, rec) = s
         /\ Stale(s, rec) # {} => Cardinality(Resolved(demote(s, rec))) = Cardinality(Resolved(s)) - 1
         /\ Cardinality(Resolved(s)) \in Nat
<1> DEFINE stale == Stale(s, rec)
           t == demote(s, rec)
<1>0. DOMAIN s = DOMAIN status
  BY DEF OnlyStaleAreGone
<1>1. stale \subseteq Resolved(s) /\ Resolved(s) \subseteq DOMAIN s /\ Resolved(s) = {n \in DOMAIN s : s[n] = "cached"}
  BY DEF Stale, Resolved
<1>2. t = IF stale = {} THEN s ELSE [s EXCEPT ![Smallest(stale)] = "await_arch"]
  BY DEF demote, Stale
<1>3. IsFiniteSet(Resolved(s)) /\ Cardinality(Resolved(s)) \in Nat
  <2>1. \A S : S \subseteq DOMAIN status => IsFiniteSet(S) /\ Cardinality(S) \in Nat
    BY FS_Subset, FS_CardinalityType
  <2> QED
    BY <1>0, <1>1, <2>1
<1> HIDE DEF stale, t
<1>4. CASE stale = {}
  BY <1>2, <1>3, <1>4 DEF stale, t
<1>5. CASE stale # {}
  <2> DEFINE x == Smallest(stale)
  <2>1. x \in stale /\ x \in Resolved(s) /\ x \in DOMAIN s /\ s[x] = "cached"
    BY <1>0, <1>1, <1>5, SmallestOf
  <2>2. ~ sharedFitsPlan(rec[x], Resolved(s))
    BY <2>1 DEF stale, Stale
  <2>3. t = [s EXCEPT ![x] = "await_arch"]
    BY <1>2, <1>5
  <2> HIDE DEF x
  <2>4. Resolved(t) = Resolved(s) \ {x}
    BY <2>1, <2>3 DEF Resolved
  <2>5. Cardinality(Resolved(t)) = Cardinality(Resolved(s)) - 1
    BY <1>3, <2>1, <2>4, FS_RemoveElement
  <2>6. t = [n \in DOMAIN status |-> t[n]]
    BY <1>0, <2>3
  <2>7. ASSUME NEW n \in DOMAIN status
        PROVE  t[n] = status[n] \/ (status[n] = "cached" /\ t[n] = "await_arch")
    BY <1>0, <2>1, <2>3 DEF OnlyStaleAreGone
  <2>8. ASSUME NEW S \in SUBSET Resolved(status), \A n \in S : sharedFitsPlan(rec[n], S)
        PROVE  S \subseteq Resolved(t)
    <3>1. S \subseteq Resolved(s)
      BY <2>8 DEF OnlyStaleAreGone
    <3>2. x \notin S
      BY <2>2, <2>8, <3>1 DEF sharedFitsPlan
    <3> QED
      BY <2>4, <3>1, <3>2
  <2>9. OnlyStaleAreGone(t, status, rec)
    BY <2>6, <2>7, <2>8 DEF OnlyStaleAreGone
  <2> QED
    BY <1>3, <1>5, <2>5, <2>9 DEF stale, t
<1> QED
  BY <1>4, <1>5

\* The settling ends without a stale verdict.
LEMMA SettleHolds ==
  ASSUME NEW status, NEW rec, DOMAIN status \subseteq Nat, IsFiniteSet(DOMAIN status),
         status = [n \in DOMAIN status |-> status[n]]
  PROVE  /\ OnlyStaleAreGone(settle(status, rec), status, rec)
         /\ Stale(settle(status, rec), rec) = {}
<1> DEFINE N == Cardinality(DOMAIN status)
<1>1. N \in Nat
  BY FS_CardinalityType
<1>2. PICK g : IsSettling(g, N, status, rec) /\ settle(status, rec) = g[N]
  BY <1>1, SettlingIsCourse
<1> DEFINE Good(k) == /\ OnlyStaleAreGone(g[k], status, rec)
                      /\ Stale(g[k], rec) = {} \/ Cardinality(Resolved(g[k])) <= N - k
           T == {k \in 0..N : ~ Good(k)}
<1>3. Good(0)
  <2>1. g[0] = status
    BY <1>2 DEF IsSettling
  <2>2. Resolved(status) \subseteq DOMAIN status
    BY DEF Resolved
  <2>3. Cardinality(Resolved(status)) <= N
    BY <2>2, FS_Subset
  <2>4. OnlyStaleAreGone(status, status, rec)
    BY DEF OnlyStaleAreGone
  <2>5. N - 0 = N
    BY <1>1
  <2> HIDE DEF N
  <2> QED
    BY <2>1, <2>3, <2>4, <2>5
<1> HIDE DEF N
<1>4. T = {}
  <2> SUFFICES ASSUME T # {} PROVE FALSE
    OBVIOUS
  <2>1. T \subseteq Nat
    BY <1>1
  <2>2. PICK k \in T : \A m \in T : k <= m
    BY <2>1, MinOfNaturals
  <2>3. k \in 1..N /\ k - 1 \in 0..N /\ Good(k - 1)
    BY <1>1, <1>3, <2>2
  <2>4. g[k] = demote(g[k - 1], rec)
    BY <1>2, <2>3 DEF IsSettling
  <2> DEFINE s == g[k - 1]
             t == g[k]
  <2>5. /\ OnlyStaleAreGone(t, status, rec)
        /\ Stale(s, rec) = {} => t = s
        /\ Stale(s, rec) # {} => Cardinality(Resolved(t)) = Cardinality(Resolved(s)) - 1
        /\ Cardinality(Resolved(s)) \in Nat
    BY <2>3, <2>4, DemoteTakesOne
  <2>6. Stale(s, rec) = {} \/ Cardinality(Resolved(s)) <= N - (k - 1)
    BY <2>3
  <2> HIDE DEF s
  <2>7. Stale(t, rec) = {} \/ Cardinality(Resolved(t)) <= N - k
    <3>1. CASE Stale(s, rec) = {}
      BY <2>5, <3>1
    <3>2. CASE Stale(s, rec) # {}
      <4>1. Cardinality(Resolved(t)) = Cardinality(Resolved(s)) - 1 /\ Cardinality(Resolved(s)) <= N - (k - 1)
        BY <2>5, <2>6, <3>2
      <4> HIDE DEF t
      <4> QED
        BY <1>1, <2>3, <2>5, <4>1
    <3> QED
      BY <3>1, <3>2
  <2> QED
    BY <2>2, <2>5, <2>7
<1>5. N \in 0..N
  BY <1>1
<1>6. Good(N)
  BY <1>4, <1>5
<1> DEFINE last == g[N]
<1>7. OnlyStaleAreGone(last, status, rec) /\ (Stale(last, rec) = {} \/ Cardinality(Resolved(last)) <= N - N)
  BY <1>6
<1> HIDE DEF last
<1>8. Stale(last, rec) = {}
  <2> SUFFICES ASSUME Stale(last, rec) # {} PROVE FALSE
    OBVIOUS
  <2>1. Cardinality(Resolved(last)) \in Nat
    BY <1>7, DemoteTakesOne
  <2>2. Cardinality(Resolved(last)) = 0
    BY <1>1, <1>7, <2>1
  <2>3. IsFiniteSet(Resolved(last))
    <3>1. Resolved(last) \subseteq DOMAIN status
      BY <1>7 DEF Resolved, OnlyStaleAreGone
    <3> QED
      BY <3>1, FS_Subset
  <2>4. Resolved(last) = {}
    BY <2>2, <2>3, FS_EmptySet
  <2> QED
    BY <2>4 DEF Stale
<1> QED
  BY <1>2, <1>7, <1>8 DEF last

\* What the judge said of each node, and what it may be.
Recommendations == [n \in input.gated |-> VerdictOf(n)]
Offers == [n \in input.gated |-> Offered(n)]

\* What the verb resolves is the greatest set of answered nodes whose groups are complete.
LEMMA ReasonedIs ==
  ASSUME IsApplication(input)
  PROVE  LET status == reasonArchNodes(input.gated, input.known, Recommendations, Offers)
             answered == {n \in input.gated : Answered(n)}
             closed == {S \in SUBSET answered : \A n \in S : Claimed(n) \subseteq S}
         IN  /\ DOMAIN status = input.gated
             /\ \A n \in input.gated : /\ status[n] \in {"cached", "await_arch", "no_shape"}
                                       /\ status[n] = "no_shape" <=> Offered(n) = {}
             /\ Resolved(status) \in closed /\ Resolved(status) = UNION closed
<1> DEFINE gated == input.gated
           known == input.known
           rec == Recommendations
           offers == Offers
           first == [n \in gated |-> reasonArchitecture(rec[n], offers[n])]
           fits == [n \in gated |->
                      IF first[n] = "cached" /\ ~ sharedFitsPlan(rec[n], known) THEN "await_arch" ELSE first[n]]
           status == reasonArchNodes(gated, known, rec, offers)
           answered == {n \in gated : Answered(n)}
           closed == {S \in SUBSET answered : \A n \in S : Claimed(n) \subseteq S}
<1>1. gated \subseteq Nat /\ IsFiniteSet(gated) /\ gated \subseteq known
  BY DEF IsApplication
<1>2. \A n \in gated : rec[n] = VerdictOf(n) /\ offers[n] = Offered(n)
  BY DEF Recommendations, Offers
<1>3. status = settle(fits, rec)
  BY DEF reasonArchNodes
<1>5. \A n \in gated : first[n] = CASE Offered(n) = {} -> "no_shape"
                                    [] Offered(n) # {} /\ VerdictOf(n) = NoVerdict -> "await_arch"
                                    [] OTHER -> "cached"
  BY <1>2 DEF reasonArchitecture
<1>6. \A n \in gated : \A K : sharedFitsPlan(rec[n], K) <=> Claimed(n) \subseteq K
  BY <1>2 DEF sharedFitsPlan, Claimed
<1> HIDE DEF rec, offers, first, status
<1>7. DOMAIN fits = gated /\ fits = [n \in DOMAIN fits |-> fits[n]]
  OBVIOUS
<1>8. ASSUME NEW n \in gated
      PROVE  /\ fits[n] \in {"cached", "await_arch", "no_shape"}
             /\ fits[n] = "no_shape" <=> Offered(n) = {}
             /\ fits[n] = "cached" <=> n \in answered /\ Claimed(n) \subseteq known
  <2>1. fits[n] = IF first[n] = "cached" /\ ~ (Claimed(n) \subseteq known) THEN "await_arch" ELSE first[n]
    BY <1>6
  <2>2. CASE Offered(n) = {}
    BY <1>5, <2>1, <2>2 DEF Answered
  <2>3. CASE Offered(n) # {} /\ VerdictOf(n) = NoVerdict
    BY <1>5, <2>1, <2>3 DEF Answered
  <2>4. CASE Offered(n) # {} /\ VerdictOf(n) # NoVerdict
    BY <1>5, <2>1, <2>4 DEF Answered
  <2> QED
    BY <2>2, <2>3, <2>4
<1> HIDE DEF fits
<1>9. OnlyStaleAreGone(status, fits, rec) /\ Stale(status, rec) = {}
  BY <1>1, <1>3, <1>7, SettleHolds
<1>10. DOMAIN status = gated /\ Resolved(status) \subseteq gated /\ Resolved(status) \subseteq Resolved(fits)
  BY <1>7, <1>9 DEF OnlyStaleAreGone, Resolved
<1>11. ASSUME NEW n \in gated
       PROVE  /\ status[n] \in {"cached", "await_arch", "no_shape"}
              /\ status[n] = "no_shape" <=> Offered(n) = {}
  <2>1. status[n] = fits[n] \/ (fits[n] = "cached" /\ status[n] = "await_arch")
    BY <1>7, <1>9 DEF OnlyStaleAreGone
  <2> QED
    BY <1>8, <2>1
<1>12. Resolved(status) \in closed
  <2>1. \A n \in Resolved(status) : n \in answered
    BY <1>7, <1>8, <1>10 DEF Resolved
  <2>2. ASSUME NEW n \in Resolved(status) PROVE Claimed(n) \subseteq Resolved(status)
    BY <1>6, <1>9, <1>10 DEF Stale
  <2> HIDE DEF answered
  <2> QED
    BY <2>1, <2>2
<1>13. ASSUME NEW S \in closed PROVE S \subseteq Resolved(status)
  <2>1. S \subseteq answered /\ S \subseteq gated /\ \A n \in S : Claimed(n) \subseteq S
    OBVIOUS
  <2>2. \A n \in S : fits[n] = "cached"
    BY <1>1, <1>8, <2>1
  <2>3. S \subseteq Resolved(fits)
    BY <1>7, <2>1, <2>2 DEF Resolved
  <2>4. \A n \in S : sharedFitsPlan(rec[n], S)
    BY <1>6, <2>1
  <2> HIDE DEF closed
  <2> QED
    BY <1>9, <2>3, <2>4 DEF OnlyStaleAreGone
<1>14. Resolved(status) = UNION closed
  <2> HIDE DEF closed
  <2> QED
    BY <1>12, <1>13
<1> QED
  BY <1>10, <1>11, <1>12, <1>14 DEF status, rec, offers

\* The groups of one name, as one.
LEMMA MergedAre ==
  ASSUME NEW recs
  PROVE  /\ \A r \in recs : \A g \in r.shared : \E G \in mergeShared(recs) :
               G.kind = g.kind /\ G.id = g.id /\ g.members \subseteq G.members
         /\ \A G \in mergeShared(recs) : \A m \in G.members : \E r \in recs : \E g \in r.shared : m \in g.members
<1> DEFINE all == UNION {r.shared : r \in recs}
           named(g) == {h \in all : h.kind = g.kind /\ h.id = g.id}
           merged(g) == [kind |-> g.kind, id |-> g.id, members |-> UNION {h.members : h \in named(g)}]
<1>1. mergeShared(recs) = {merged(g) : g \in all}
  BY DEF mergeShared
<1>2. \A g : g \in all <=> \E r \in recs : g \in r.shared
  OBVIOUS
<1>3. ASSUME NEW g \in all
      PROVE  merged(g).kind = g.kind /\ merged(g).id = g.id /\ g.members \subseteq merged(g).members
  <2>1. g \in named(g)
    OBVIOUS
  <2> HIDE DEF named
  <2> QED
    BY <2>1
<1>4. ASSUME NEW g \in all, NEW m \in merged(g).members PROVE \E h \in all : m \in h.members
  <2>1. named(g) \subseteq all /\ merged(g).members = UNION {h.members : h \in named(g)}
    OBVIOUS
  <2> HIDE DEF named, merged, all
  <2> QED
    BY <1>4, <2>1
<1> HIDE DEF all, merged
<1>5. ASSUME NEW r \in recs, NEW g \in r.shared
      PROVE  \E G \in mergeShared(recs) : G.kind = g.kind /\ G.id = g.id /\ g.members \subseteq G.members
  <2>1. g \in all /\ merged(g) \in mergeShared(recs)
    BY <1>1, <1>2
  <2> QED
    BY <1>3, <2>1
<1>6. ASSUME NEW G \in mergeShared(recs), NEW m \in G.members PROVE \E r \in recs : \E g \in r.shared : m \in g.members
  <2>1. PICK g \in all : G = merged(g)
    BY <1>1
  <2>2. PICK h \in all : m \in h.members
    BY <1>4, <1>6, <2>1
  <2> QED
    BY <1>2, <2>2
<1> QED
  BY <1>5, <1>6

\* An app keeps what can be rendered, and what it does not keep is reported.
LEMMA PrunedAre ==
  ASSUME NEW shared, NEW shapeOf, \A n \in DOMAIN shapeOf : shapeOf[n] \in DOMAIN CORPUS,
         \A g \in shared : g = [kind |-> g.kind, id |-> g.id, members |-> g.members]
  PROVE  LET p == pruneUnrenderable(shared, shapeOf)
         IN  /\ \A h \in p.shared :
                  /\ \E g \in shared : h.kind = g.kind /\ h.members \subseteq g.members
                  /\ h.kind = "fiori_apps" =>
                       h.members # {} /\ \A m \in h.members \cap DOMAIN shapeOf : uiCapable(shapeOf[m])
             /\ \A g \in shared : \A m \in g.members :
                  \/ \E h \in p.shared : h.kind = g.kind /\ h.id = g.id /\ m \in h.members
                  \/ /\ [group |-> g.id, member |-> m] \in p.pruned
                     /\ g.kind = "fiori_apps" /\ m \in DOMAIN shapeOf /\ ~ uiCapable(shapeOf[m])
<1> DEFINE lacks(g) == {m \in g.members \cap DOMAIN shapeOf : ~ uiCapable(shapeOf[m])}
           apps == {g \in shared : g.kind = "fiori_apps"}
           pruned(g) == [g EXCEPT !.members = @ \ lacks(g)]
           kept == {pruned(g) : g \in apps}
           p == pruneUnrenderable(shared, shapeOf)
           reports(g) == {[group |-> g.id, member |-> m] : m \in lacks(g)}
<1>1. /\ p.shared = (shared \ apps) \cup {g \in kept : g.members # {}}
      /\ p.pruned = UNION {reports(g) : g \in apps}
  BY DEF pruneUnrenderable
<1>2. ASSUME NEW g \in shared
      PROVE  /\ pruned(g).kind = g.kind /\ pruned(g).id = g.id
             /\ pruned(g).members = g.members \ lacks(g)
  <2>1. g = [kind |-> g.kind, id |-> g.id, members |-> g.members]
    OBVIOUS
  <2> DEFINE left == g.members \ lacks(g)
  <2>2. pruned(g) = [g EXCEPT !.members = left]
    OBVIOUS
  <2> HIDE DEF left, lacks
  <2>3. [g EXCEPT !.members = left] = [kind |-> g.kind, id |-> g.id, members |-> left]
    BY <2>1
  <2> QED
    BY <2>2, <2>3 DEF left
<1> HIDE DEF pruned, p
<1>3. ASSUME NEW h \in p.shared
      PROVE  /\ \E g \in shared : h.kind = g.kind /\ h.members \subseteq g.members
             /\ h.kind = "fiori_apps" =>
                  h.members # {} /\ \A m \in h.members \cap DOMAIN shapeOf : uiCapable(shapeOf[m])
  <2>1. CASE h \in shared \ apps
    BY <2>1
  <2>2. CASE h \in kept /\ h.members # {}
    <3>1. PICK g \in apps : h = pruned(g)
      BY <2>2
    <3>2. g \in shared /\ h.kind = g.kind /\ h.members = g.members \ lacks(g)
      BY <1>2, <3>1
    <3> QED
      BY <2>2, <3>2
  <2> QED
    BY <1>1, <2>1, <2>2
<1>4. ASSUME NEW g \in shared, NEW m \in g.members
      PROVE  \/ \E h \in p.shared : h.kind = g.kind /\ h.id = g.id /\ m \in h.members
             \/ /\ [group |-> g.id, member |-> m] \in p.pruned
                /\ g.kind = "fiori_apps" /\ m \in DOMAIN shapeOf /\ ~ uiCapable(shapeOf[m])
  <2>1. CASE g \notin apps
    <3>1. g \in p.shared
      BY <1>1, <2>1
    <3> QED
      BY <3>1
  <2>2. CASE g \in apps /\ m \in lacks(g)
    <3>1. [group |-> g.id, member |-> m] \in reports(g)
      BY <2>2
    <3> HIDE DEF reports
    <3>2. [group |-> g.id, member |-> m] \in p.pruned
      BY <1>1, <2>2, <3>1
    <3> QED
      BY <2>2, <3>2
  <2>3. CASE g \in apps /\ m \notin lacks(g)
    <3>1. m \in pruned(g).members /\ pruned(g).kind = g.kind /\ pruned(g).id = g.id
      BY <1>2, <2>3
    <3>2. pruned(g) \in p.shared
      BY <1>1, <2>3, <3>1
    <3> QED
      BY <3>1, <3>2
  <2> QED
    BY <2>1, <2>2, <2>3
<1> QED
  BY <1>3, <1>4 DEF p

\* A blueprint of shapes of the corpus, in groups of its objects, has no violation.
LEMMA BlueprintIsConsistent ==
  ASSUME NEW shared, NEW shapeOf, \A n \in DOMAIN shapeOf : shapeOf[n] \in DOMAIN CORPUS,
         \A g \in shared : g.members \subseteq DOMAIN shapeOf,
         \A g \in shared : g.kind = "fiori_apps" => \A m \in g.members \cap DOMAIN shapeOf : uiCapable(shapeOf[m])
  PROVE  checkBlueprint(buildAppBlueprint(shapeOf, shared)) = {}
<1> DEFINE b == buildAppBlueprint(shapeOf, shared)
           refs(n) == {g.id : g \in {x \in shared : n \in x.members}}
           object(n) == [sig |-> n, target_shape |-> shapeOf[n], shared_refs |-> refs(n)]
           sigs == {o.sig : o \in b.objects}
           ids == {g.id : g \in b.shared}
           apps == {g \in b.shared : g.kind = "fiori_apps"}
           map == b.object_to_pattern
           V1 == {<<"not an object", m>> : m \in (UNION {g.members : g \in b.shared}) \ sigs}
           V2 == {<<"no such group", o.sig>> : o \in {x \in b.objects : ~ x.shared_refs \subseteq ids}}
           V3 == {<<"not in the corpus", o.sig>> :
                    o \in {x \in b.objects : x.target_shape \notin DOMAIN CORPUS \/ x.target_shape # map[x.sig]}}
           V4 == {<<"cannot be rendered", m>> :
                    m \in UNION {{x \in g.members \cap DOMAIN map : ~ uiCapable(map[x])} : g \in apps}}
<1>1. checkBlueprint(b) = V1 \cup V2 \cup V3 \cup V4
  BY DEF checkBlueprint
<1>2. b.objects = {object(n) : n \in DOMAIN shapeOf} /\ b.shared = shared /\ map = shapeOf
  BY DEF buildAppBlueprint
<1> HIDE DEF b
<1>3. \A n : object(n).sig = n /\ object(n).target_shape = shapeOf[n] /\ object(n).shared_refs = refs(n)
  OBVIOUS
<1>4. sigs = DOMAIN shapeOf
  <2> HIDE DEF object
  <2>1. \A n \in DOMAIN shapeOf : object(n) \in b.objects /\ object(n).sig = n
    BY <1>2, <1>3
  <2>2. \A o \in b.objects : o.sig \in DOMAIN shapeOf
    BY <1>2, <1>3
  <2> QED
    BY <2>1, <2>2
<1> HIDE DEF object
<1>5. V1 = {}
  <2>1. (UNION {g.members : g \in b.shared}) \ sigs = {}
    BY <1>2, <1>4
  <2> HIDE DEF sigs
  <2> QED
    BY <2>1
<1>6. V2 = {}
  <2>1. ASSUME NEW x \in b.objects PROVE x.shared_refs \subseteq ids
    <3>1. PICK n \in DOMAIN shapeOf : x = object(n)
      BY <1>2
    <3>2. x.shared_refs = {g.id : g \in {y \in shared : n \in y.members}}
      BY <1>3, <3>1
    <3> QED
      BY <1>2, <3>2
  <2> HIDE DEF ids
  <2> QED
    BY <2>1
<1>7. V3 = {}
  <2>1. ASSUME NEW x \in b.objects PROVE x.target_shape \in DOMAIN CORPUS /\ x.target_shape = map[x.sig]
    <3>1. PICK n \in DOMAIN shapeOf : x = object(n)
      BY <1>2
    <3> QED
      BY <1>2, <1>3, <3>1
  <2> HIDE DEF map
  <2> QED
    BY <2>1
<1>8. V4 = {}
  <2>1. ASSUME NEW g \in apps PROVE {x \in g.members \cap DOMAIN map : ~ uiCapable(map[x])} = {}
    BY <1>2
  <2> HIDE DEF apps, map
  <2>2. UNION {{x \in g.members \cap DOMAIN map : ~ uiCapable(map[x])} : g \in apps} = {}
    BY <2>1
  <2> QED
    BY <2>2
<1> HIDE DEF V1, V2, V3, V4
<1> QED
  BY <1>1, <1>5, <1>6, <1>7, <1>8 DEF b

\* What the verb makes of the verdicts.
LEMMA BlueprintHolds ==
  ASSUME kind = "arch", IsApplication(input), out = Design("arch", input)
  PROVE  BlueprintAlwaysHolds /\ ClaimsAreKeptOrReported
<1> DEFINE gated == input.gated
           rec == Recommendations
           status == reasonArchNodes(gated, input.known, rec, Offers)
           refused == refusedAt(gated, rec, Offers) # {}
           R == Resolved(status)
           recs == {rec[n] : n \in R}
           merged == mergeShared(recs)
           shapeOf == [n \in R |-> rec[n].shape]
           pruning == pruneUnrenderable(merged, shapeOf)
           answered == {n \in gated : Answered(n)}
           closed == {S \in SUBSET answered : \A n \in S : Claimed(n) \subseteq S}
<1>1. out.arch = cmdArch(gated, input.known, rec, Offers)
  BY DEF Design, Recommendations, VerdictOf, Offers, Offered
<1>2. /\ out.arch.refused = refused
      /\ out.arch.resolved = R /\ out.arch.pruned = pruning.pruned /\ out.arch.shared = pruning.shared
      /\ out.arch.pending = {n \in gated : status[n] = "await_arch"}
      /\ out.arch.unplaceable = {n \in gated : status[n] = "no_shape"}
      /\ out.arch.violations = checkBlueprint(buildAppBlueprint(shapeOf, pruning.shared))
  <2> DEFINE pending == {n \in gated : status[n] = "await_arch"}
             unplaceable == {n \in gated : status[n] = "no_shape"}
             broken == checkBlueprint(buildAppBlueprint(shapeOf, pruning.shared))
  <2>1. cmdArch(gated, input.known, rec, Offers)
          = [refused |-> refused, resolved |-> R, pruned |-> pruning.pruned, shared |-> pruning.shared,
             pending |-> pending, unplaceable |-> unplaceable, violations |-> broken]
    BY DEF cmdArch
  <2> HIDE DEF refused, R, pruning, pending, unplaceable, broken
  <2>2. out.arch = [refused |-> refused, resolved |-> R, pruned |-> pruning.pruned, shared |-> pruning.shared,
                    pending |-> pending, unplaceable |-> unplaceable, violations |-> broken]
    BY <1>1, <2>1
  <2>3. /\ out.arch.refused = refused
        /\ out.arch.resolved = R /\ out.arch.pruned = pruning.pruned /\ out.arch.shared = pruning.shared
        /\ out.arch.pending = pending /\ out.arch.unplaceable = unplaceable /\ out.arch.violations = broken
    BY <2>2
  <2> QED
    BY <2>3 DEF pending, unplaceable, broken
<1>15. refused <=> \E n \in answered : VerdictOf(n).shape \notin Offered(n)
  <2>1. ASSUME NEW n \in gated
        PROVE  n \in refusedAt(gated, rec, Offers) <=> Answered(n) /\ VerdictOf(n).shape \notin Offered(n)
    <3>1. rec[n] = VerdictOf(n) /\ Offers[n] = Offered(n)
      BY DEF Recommendations, Offers
    <3> HIDE DEF rec
    <3>2. n \in refusedAt(gated, rec, Offers) <=>
            /\ reasonArchitecture(VerdictOf(n), Offered(n)) = "cached"
            /\ ~ validateSelection(VerdictOf(n), Offered(n))
      BY <3>1 DEF refusedAt
    <3>3. reasonArchitecture(VerdictOf(n), Offered(n)) = "cached" <=> Answered(n)
      BY DEF reasonArchitecture, Answered
    <3> QED
      BY <3>2, <3>3 DEF validateSelection
  <2>2. refusedAt(gated, rec, Offers) \subseteq gated
    BY DEF refusedAt
  <2> HIDE DEF rec
  <2> QED
    BY <2>1, <2>2
<1> HIDE DEF refused
<1>3. /\ DOMAIN status = gated
      /\ \A n \in gated : /\ status[n] \in {"cached", "await_arch", "no_shape"}
                          /\ status[n] = "no_shape" <=> Offered(n) = {}
      /\ R \in closed /\ R = UNION closed
  BY ReasonedIs
<1> HIDE DEF status
<1>4. R = {n \in gated : status[n] = "cached"}
  BY <1>3 DEF Resolved
<1> HIDE DEF R
<1>5. R \subseteq gated /\ \A n \in R : Answered(n) /\ Claimed(n) \subseteq R
  BY <1>3
<1>6. \A n \in R : rec[n] = VerdictOf(n)
  BY <1>5 DEF Recommendations
<1> HIDE DEF rec
<1> SUFFICES ASSUME ~ refused PROVE BlueprintAlwaysHolds /\ ClaimsAreKeptOrReported
  BY <1>2, <1>15 DEF BlueprintAlwaysHolds, ClaimsAreKeptOrReported
<1>7. \A n \in R : shapeOf[n] = VerdictOf(n).shape /\ shapeOf[n] \in DOMAIN CORPUS
  <2>1. ASSUME NEW n \in R PROVE VerdictOf(n).shape \in DOMAIN CORPUS
    <3>1. input.key[n] \in DOMAIN input.judged
      BY <1>5 DEF IsApplication
    <3>2. Offered(n) \subseteq DOMAIN CORPUS
      BY <3>1 DEF IsApplication, Offered
    <3>3. VerdictOf(n).shape \in Offered(n)
      BY <1>5, <1>15
    <3> QED
      BY <3>2, <3>3
  <2> QED
    BY <1>6, <2>1
<1>8. /\ \A r \in recs : \A g \in r.shared : \E G \in merged : G.kind = g.kind /\ G.id = g.id /\ g.members \subseteq G.members
      /\ \A G \in merged : \A m \in G.members : \E r \in recs : \E g \in r.shared : m \in g.members
  <2> HIDE DEF recs
  <2> QED
    BY MergedAre
<1>9. \A G \in merged : G = [kind |-> G.kind, id |-> G.id, members |-> G.members]
  BY DEF mergeShared
<1>10. DOMAIN shapeOf = R
  OBVIOUS
<1> HIDE DEF merged, shapeOf
<1>11. \A G \in merged : G.members \subseteq R
  <2>1. ASSUME NEW G \in merged, NEW m \in G.members PROVE m \in R
    <3>1. PICK r \in recs : \E g \in r.shared : m \in g.members
      BY <1>8
    <3>2. PICK n \in R : r = rec[n]
      BY <3>1
    <3>3. m \in Claimed(n)
      BY <1>6, <3>1, <3>2 DEF Claimed
    <3> QED
      BY <1>5, <3>3
  <2> QED
    BY <2>1
<1>12. /\ \A h \in pruning.shared :
            /\ \E g \in merged : h.kind = g.kind /\ h.members \subseteq g.members
            /\ h.kind = "fiori_apps" =>
                 h.members # {} /\ \A m \in h.members \cap DOMAIN shapeOf : uiCapable(shapeOf[m])
       /\ \A g \in merged : \A m \in g.members :
            \/ \E h \in pruning.shared : h.kind = g.kind /\ h.id = g.id /\ m \in h.members
            \/ /\ [group |-> g.id, member |-> m] \in pruning.pruned
               /\ g.kind = "fiori_apps" /\ m \in DOMAIN shapeOf /\ ~ uiCapable(shapeOf[m])
  BY <1>7, <1>9, <1>10, PrunedAre
<1> HIDE DEF pruning
<1>13. BlueprintAlwaysHolds
  <2>1. out.arch.violations = {}
    <3>1. \A g \in pruning.shared : g.members \subseteq DOMAIN shapeOf
      BY <1>10, <1>11, <1>12
    <3>2. checkBlueprint(buildAppBlueprint(shapeOf, pruning.shared)) = {}
      BY <1>7, <1>10, <1>12, <3>1, BlueprintIsConsistent
    <3> QED
      BY <1>2, <3>2
  <2>2. out.arch.resolved = UNION closed
    BY <1>2, <1>3
  <2>3. out.arch.unplaceable = {n \in gated : Offered(n) = {}}
    BY <1>2, <1>3
  <2>4. out.arch.pending = gated \ (out.arch.resolved \cup out.arch.unplaceable)
    BY <1>2, <1>3, <1>4
  <2> QED
    BY <1>2, <1>15, <2>1, <2>2, <2>3, <2>4 DEF BlueprintAlwaysHolds
<1>14. ClaimsAreKeptOrReported
  <2>1. ASSUME NEW n \in R, NEW g \in VerdictOf(n).shared, NEW m \in g.members
        PROVE  \/ \E h \in pruning.shared : h.kind = g.kind /\ h.id = g.id /\ m \in h.members
               \/ /\ [group |-> g.id, member |-> m] \in pruning.pruned
                  /\ g.kind = "fiori_apps" /\ ~ CORPUS[VerdictOf(m).shape].metadata_ext
    <3>1. rec[n] \in recs /\ g \in rec[n].shared
      BY <1>6
    <3>2. PICK G \in merged : G.kind = g.kind /\ G.id = g.id /\ g.members \subseteq G.members
      BY <1>8, <3>1
    <3>3. \/ \E h \in pruning.shared : h.kind = G.kind /\ h.id = G.id /\ m \in h.members
          \/ /\ [group |-> G.id, member |-> m] \in pruning.pruned
             /\ G.kind = "fiori_apps" /\ m \in DOMAIN shapeOf /\ ~ uiCapable(shapeOf[m])
      BY <1>12, <3>2
    <3>4. m \in R => uiCapable(shapeOf[m]) = CORPUS[VerdictOf(m).shape].metadata_ext
      BY <1>7 DEF uiCapable
    <3> QED
      BY <1>10, <3>2, <3>3, <3>4
  <2>2. \A g \in pruning.shared : g.kind = "fiori_apps" => g.members # {}
    BY <1>12
  <2> QED
    BY <1>2, <2>1, <2>2 DEF ClaimsAreKeptOrReported
<1> QED
  BY <1>13, <1>14

\* Each drop that takes something away is asked about once.
LEMMA DropsHold ==
  ASSUME kind = "dropped", IsPlan(input.plan), out = Design("dropped", input)
  PROVE  DropsAreShown
<1> DEFINE plan == input.plan
           register == input.register
           retired == {n.id : n \in {m \in plan : m.disposition = "retire"}}
           hit(r) == {n.id : n \in {m \in plan : r \in m.dependencies}} \ retired
           dependents(r) == {n.id : n \in {m \in plan : m.disposition # "retire" /\ r \in m.dependencies}}
           D == {r \in retired : hit(r) # {}}
           question(r) == [kind |-> "DROPPED_DEPENDENCY", node_ids |-> {r} \cup hit(r)]
           asked == raiseDroppedDependencies({}, plan)
           f == [r \in D |-> question(r)]
<1>1. /\ out.asked = asked /\ out.again = raiseDroppedDependencies(asked, plan)
      /\ out.ledger = buildDroppedFeatures(plan, register)
  BY DEF Design
<1>2. ASSUME NEW r PROVE dependents(r) = hit(r)
  <2>1. ASSUME NEW n \in plan, n.disposition # "retire" PROVE n.id \notin retired
    <3>1. \A m \in plan : m.id = n.id => m = n
      BY DEF IsPlan
    <3> QED
      BY <2>1, <3>1
  <2>2. ASSUME NEW n \in plan, n.id \notin retired PROVE n.disposition # "retire"
    BY <2>2
  <2> QED
    BY <2>1, <2>2
<1>3. ASSUME NEW q, NEW R
      PROVE  q \in raiseDroppedDependencies(R, plan) <=> q \in R \/ \E r \in D : q = question(r)
  <2> DEFINE found == {[retired |-> r, dependents |-> dependents(r)] : r \in {x \in retired : dependents(x) # {}}}
             asks(d) == [kind |-> "DROPPED_DEPENDENCY", node_ids |-> reportedNodes(d)]
  <2>1. droppedDependencies(plan) = found
    BY DEF droppedDependencies
  <2>2. raiseDroppedDependencies(R, plan) = R \cup {asks(d) : d \in found}
    BY <2>1 DEF raiseDroppedDependencies
  <2> HIDE DEF dependents, hit, retired
  <2>3. found = {[retired |-> r, dependents |-> hit(r)] : r \in D}
    BY <1>2
  <2>4. ASSUME NEW r PROVE asks([retired |-> r, dependents |-> hit(r)]) = question(r)
    BY DEF reportedNodes
  <2> HIDE DEF asks, question, found, D
  <2>5. \A d \in found : \E r \in D : d = [retired |-> r, dependents |-> hit(r)]
    BY <2>3
  <2>6. \A r \in D : [retired |-> r, dependents |-> hit(r)] \in found
    BY <2>3
  <2>7. ASSUME NEW d \in found PROVE \E r \in D : asks(d) = question(r)
    BY <2>4, <2>5
  <2>8. ASSUME NEW r \in D PROVE \E d \in found : asks(d) = question(r)
    BY <2>4, <2>6
  <2>9. q \in {asks(d) : d \in found} <=> \E r \in D : q = question(r)
    BY <2>7, <2>8
  <2> QED
    BY <2>2, <2>9
<1>4. \A q : q \in asked <=> \E r \in D : q = question(r)
  <2> TAKE q
  <2> HIDE DEF D, question
  <2> QED
    BY <1>3
<1>5. out.again = out.asked
  <2>1. \A q : q \in raiseDroppedDependencies(asked, plan) <=> q \in asked
    <3> TAKE q
    <3> HIDE DEF asked, D, question
    <3> QED
      BY <1>3, <1>4
  <2> HIDE DEF asked
  <2>2. raiseDroppedDependencies(asked, plan) = asked
    <3> DEFINE again == raiseDroppedDependencies(asked, plan)
    <3>1. \A q : q \in again <=> q \in asked
      BY <2>1
    <3> HIDE DEF again
    <3> QED
      BY <3>1 DEF again
  <2> QED
    BY <1>1, <2>2
<1>6. ASSUME NEW r \in D, NEW s \in D, question(r) = question(s) PROVE r = s
  <2>1. {r} \cup hit(r) = {s} \cup hit(s)
    BY <1>6
  <2>2. r \in retired /\ \A x \in hit(s) : x \notin retired
    OBVIOUS
  <2> HIDE DEF hit, retired
  <2> QED
    BY <2>1, <2>2
<1>7. Cardinality(asked) = Cardinality(D)
  <2>1. f \in Surjection(D, asked)
    <3> HIDE DEF question, D, asked
    <3>1. f \in [D -> asked] /\ \A q \in asked : \E r \in D : f[r] = q
      BY <1>4
    <3> HIDE DEF f
    <3> QED
      BY <3>1 DEF Surjection
  <2>2. f \in Injection(D, asked)
    <3>1. \A r, s \in D : f[r] = f[s] => r = s
      <4> HIDE DEF question, D
      <4> QED
        BY <1>6
    <3>2. f \in [D -> asked]
      BY <2>1 DEF Surjection
    <3> HIDE DEF f, D, asked
    <3> QED
      BY <3>1, <3>2 DEF Injection, IsInjective
  <2>3. IsFiniteSet(D)
    <3>1. D \subseteq {n.id : n \in plan}
      OBVIOUS
    <3> HIDE DEF D
    <3> QED
      BY <3>1, NamesOfPlan
  <2> HIDE DEF f, D, asked
  <2> QED
    BY <2>1, <2>2, <2>3, FS_Surjection
<1>8. ASSUME NEW r \in retired, hit(r) # {} PROVE \E q \in asked : q.node_ids = {r} \cup hit(r)
  <2>1. question(r) \in asked /\ question(r).node_ids = {r} \cup hit(r)
    BY <1>4, <1>8
  <2> HIDE DEF hit, question, asked
  <2> QED
    BY <2>1
<1>9. ASSUME ~ out.ledger.refused, NEW row \in register
      PROVE  /\ row.signed
             /\ \E n \in plan : n.id = row.sig
                  /\ n.disposition = IF row.status = "RETIRED" THEN "retire" ELSE "rebuild"
  <2>1. ~ wrongRow(row, plan)
    BY <1>1, <1>9 DEF buildDroppedFeatures, Refused
  <2>2. PICK n \in plan : n.id = row.sig /\ row.status \in DOMAIN DISPOSITION_TERMINALS
                            /\ n.disposition = DISPOSITION_TERMINALS[row.status]
    BY <2>1 DEF wrongRow
  <2>3. \A s \in DOMAIN DISPOSITION_TERMINALS : DISPOSITION_TERMINALS[s] = IF s = "RETIRED" THEN "retire" ELSE "rebuild"
    BY DEF DISPOSITION_TERMINALS
  <2>4. row.signed
    BY <2>1 DEF wrongRow
  <2> QED
    BY <2>2, <2>3, <2>4
<1> HIDE DEF asked
<1> QED
  BY <1>1, <1>5, <1>7, <1>8, <1>9 DEF DropsAreShown

\* What is proposed, what it is chosen from, and the advice.
LEMMA DisposedIs ==
  ASSUME kind = "dispose", out = Design("dispose", input)
  PROVE  /\ out.decided = classifyDisposition(input.node, groundCandidates(input.doc), structureOf(input.node, input.doc))
         /\ out.options = dispositionOptions(out.decided)
         /\ out.advice = fitToStandardAdvisory(input.node, input.doc)
<1> DEFINE cache0 == groundCandidates(input.doc)
           structure0 == structureOf(input.node, input.doc)
           answer(d) == [judged |-> TRUE, decided |-> d, options |-> dispositionOptions(d),
                         advice |-> fitToStandardAdvisory(input.node, input.doc)]
           proposals == {classifyDisposition(input.node, cache, structure) :
                           cache \in {cache0}, structure \in {structure0}}
           proposed == Only(proposals)
<1>1. out = Only({answer(d) : d \in {proposed}})
  BY DEF Design, Disposed
<1> HIDE DEF cache0, structure0
<1>2. proposals = {classifyDisposition(input.node, cache0, structure0)}
  OBVIOUS
<1>3. proposed = classifyDisposition(input.node, cache0, structure0)
  <2> HIDE DEF proposals
  <2> QED
    BY <1>2, OnlyIs
<1> HIDE DEF proposed
<1>4. {answer(d) : d \in {proposed}} = {answer(proposed)}
  OBVIOUS
<1>5. out = answer(proposed)
  <2> HIDE DEF answer
  <2> QED
    BY <1>1, <1>4, OnlyIs
<1> QED
  BY <1>3, <1>5 DEF cache0, structure0

\* The first rule that applies.
LEMMA FirstRule ==
  ASSUME NEW node, NEW g, NEW structure
  PROVE  LET rules == rulesFor(node, g, structure)
         IN  \E i \in 1..8 : decide(node, g, structure) = rules[i] /\ rules[i].holds
               /\ \A j \in 1..8 : j < i => ~ rules[j].holds
<1> DEFINE rules == rulesFor(node, g, structure)
           S == {i \in DOMAIN rules : rules[i].holds}
<1>1. DOMAIN rules = 1..8 /\ rules[8].holds
  BY DEF rulesFor
<1>2. decide(node, g, structure) = rules[Smallest(S)]
  BY DEF decide
<1> HIDE DEF rules
<1>3. S \subseteq Nat /\ S # {}
  <2>1. 8 \in S
    BY <1>1
  <2>2. S \subseteq 1..8
    BY <1>1
  <2> QED
    BY <2>1, <2>2
<1>4. Smallest(S) \in S /\ \A x \in S : Smallest(S) <= x
  BY <1>3, SmallestOf
<1> DEFINE i == Smallest(S)
<1>5. i \in 1..8 /\ rules[i].holds
  BY <1>1, <1>4
<1>6. ASSUME NEW j \in 1..8, j < i PROVE ~ rules[j].holds
  <2> SUFFICES ASSUME rules[j].holds PROVE FALSE
    OBVIOUS
  <2>1. j \in S
    BY <1>1
  <2>2. i <= j
    BY <1>4, <2>1
  <2> HIDE DEF i
  <2> QED
    BY <1>5, <1>6, <2>2
<1> QED
  BY <1>2, <1>5, <1>6 DEF rules

\* A unit is left as it is, changed or built anew, and changed without a person
\* only when it is known to use released APIs.
LEMMA DecidedIs ==
  ASSUME NEW node, NEW g, NEW structure, node.sealed \in BOOLEAN, g.released_clean \in BOOLEAN,
         g.grounding_certainty \in {SOURCE_GROUNDED_CERTAINTY, FINDING_DERIVED_CERTAINTY}
  PROVE  LET pick == decide(node, g, structure)
         IN  /\ pick.disposition \in {"seal", "re_architect", "refactor"}
             /\ pick.disposition = "refactor" /\ pick.confidence >= DISPOSITION_AUTO_THRESHOLD =>
                  /\ g.released_clean /\ g.grounding_certainty = SOURCE_GROUNDED_CERTAINTY
                  /\ ~ node.sealed /\ node.hints \cap {"ui_rearch", "os_exec"} = {}
                  /\ node.object_kind \notin RETAINED_KINDS =>
                       "rfc_rebuild" \notin node.hints /\ node.target \notin RE_ARCH_TARGET
<1> DEFINE rules == rulesFor(node, g, structure)
           pick == decide(node, g, structure)
<1>1. PICK i \in 1..8 : pick = rules[i] /\ rules[i].holds /\ \A j \in 1..8 : j < i => ~ rules[j].holds
  BY FirstRule
<1>2. /\ rules[1].disposition = "seal" /\ rules[2].disposition = "re_architect" /\ rules[3].disposition = "re_architect"
      /\ rules[4].disposition = "refactor" /\ rules[5].disposition = "re_architect" /\ rules[6].disposition = "re_architect"
      /\ rules[7].disposition = "refactor" /\ rules[8].disposition = "seal"
  BY DEF rulesFor
<1>3. /\ rules[1].holds = node.sealed /\ rules[2].holds = ("ui_rearch" \in node.hints)
      /\ rules[3].holds = ("os_exec" \in node.hints) /\ rules[4].holds = (node.object_kind \in RETAINED_KINDS)
      /\ rules[5].holds = ("rfc_rebuild" \in node.hints) /\ rules[6].holds = (node.target \in RE_ARCH_TARGET)
      /\ rules[7].holds = g.released_clean
  BY DEF rulesFor
<1>4. /\ rules[4].confidence = IF g.released_clean THEN g.grounding_certainty ELSE 70
      /\ rules[7].confidence = g.grounding_certainty
  BY DEF rulesFor
<1>5. i = 1 \/ i = 2 \/ i = 3 \/ i = 4 \/ i = 5 \/ i = 6 \/ i = 7 \/ i = 8
  OBVIOUS
<1> HIDE DEF rules, pick
<1>6. pick.disposition \in {"seal", "re_architect", "refactor"}
  BY <1>1, <1>2, <1>5
<1>7. ASSUME pick.disposition = "refactor", pick.confidence >= DISPOSITION_AUTO_THRESHOLD
      PROVE  /\ g.released_clean /\ g.grounding_certainty = SOURCE_GROUNDED_CERTAINTY
             /\ ~ node.sealed /\ node.hints \cap {"ui_rearch", "os_exec"} = {}
             /\ node.object_kind \notin RETAINED_KINDS =>
                  "rfc_rebuild" \notin node.hints /\ node.target \notin RE_ARCH_TARGET
  <2>1. i = 4 \/ i = 7
    BY <1>1, <1>2, <1>5, <1>7
  <2>2. \A n \in 1..3 : n < i /\ n \in 1..8
    BY <2>1
  <2>3. ~ rules[1].holds /\ ~ rules[2].holds /\ ~ rules[3].holds
    BY <1>1, <2>2
  <2>4. ~ node.sealed /\ "ui_rearch" \notin node.hints /\ "os_exec" \notin node.hints
    BY <1>3, <2>3
  <2>5. g.released_clean /\ g.grounding_certainty = SOURCE_GROUNDED_CERTAINTY
    <3>1. CASE i = 4
      <4>1. rules[4].confidence >= 90
        BY <1>1, <1>7, <3>1 DEF DISPOSITION_AUTO_THRESHOLD
      <4> QED
        BY <1>4, <4>1 DEF SOURCE_GROUNDED_CERTAINTY, FINDING_DERIVED_CERTAINTY
    <3>2. CASE i = 7
      <4>1. rules[7].confidence >= 90 /\ rules[7].holds
        BY <1>1, <1>7, <3>2 DEF DISPOSITION_AUTO_THRESHOLD
      <4> QED
        BY <1>3, <1>4, <4>1 DEF SOURCE_GROUNDED_CERTAINTY, FINDING_DERIVED_CERTAINTY
    <3> QED
      BY <2>1, <3>1, <3>2
  <2>6. ASSUME node.object_kind \notin RETAINED_KINDS PROVE "rfc_rebuild" \notin node.hints /\ node.target \notin RE_ARCH_TARGET
    <3>1. i = 7
      BY <1>1, <1>3, <2>1, <2>6
    <3>2. ~ rules[5].holds /\ ~ rules[6].holds
      BY <1>1, <3>1
    <3> QED
      BY <1>3, <3>2
  <2> QED
    BY <2>4, <2>5, <2>6
<1> QED
  BY <1>6, <1>7 DEF pick

\* What the analyser makes of a state: released is released only, and whatever
\* else the oracle carries has no way forward.
LEMMA ReleaseStateIs ==
  ASSUME NEW name, name.state \in DOMAIN STATE_LEVEL \cup {"unknown"}
  PROVE  /\ releaseState(name) = "released" <=> name.state = "released"
         /\ releaseState(name) \in NO_FORWARD_PATH <=> name.state \notin {"released", "unknown"}
<1>1. DOMAIN STATE_LEVEL = {"released", "classicAPI", "deprecated", "notToBeReleased", "noAPI"}
  BY DEF STATE_LEVEL
<1>2. name.state \in {"released", "classicAPI", "deprecated", "notToBeReleased", "noAPI", "unknown"}
  BY <1>1
<1>3. ASSUME NEW s, name.state = s, s \in DOMAIN STATE_LEVEL
      PROVE  releaseState(name) = RELEASE_STATE_FOR_LEVEL[STATE_LEVEL[s]]
  BY <1>3 DEF releaseState
<1>4. name.state = "unknown" => releaseState(name) = "unknown"
  BY <1>1 DEF releaseState, RELEASE_STATE_FOR_LEVEL
<1>5. name.state = "released" => releaseState(name) = "released"
  BY <1>1, <1>3 DEF STATE_LEVEL, RELEASE_STATE_FOR_LEVEL
<1>6. name.state \in {"classicAPI", "deprecated"} => releaseState(name) = "deprecated"
  BY <1>1, <1>3 DEF STATE_LEVEL, RELEASE_STATE_FOR_LEVEL
<1>7. name.state \in {"notToBeReleased", "noAPI"} => releaseState(name) = "removed"
  BY <1>1, <1>3 DEF STATE_LEVEL, RELEASE_STATE_FOR_LEVEL
<1> QED
  BY <1>2, <1>4, <1>5, <1>6, <1>7 DEF NO_FORWARD_PATH

\* What is known of an object.
LEMMA CandidateIs ==
  ASSUME NEW doc, NEW o \in doc.objects
  PROVE  LET g == groundCandidates(doc)[o]
             own == {f \in doc.findings : f.object = o}
             delivered == {t \in UsedBy({o}, doc.edges) : doc.names[t].namespace # "ZY"}
         IN  /\ g.released_clean \in BOOLEAN
             /\ g.released_clean => own # {} /\ \A f \in own : f.priority # "P1" \/ f.family \notin BLOCKER_FAMILIES
             /\ g.grounding_certainty \in {SOURCE_GROUNDED_CERTAINTY, FINDING_DERIVED_CERTAINTY}
             /\ g.grounding_certainty = SOURCE_GROUNDED_CERTAINTY =>
                  delivered # {} /\ \A t \in delivered : releaseState(doc.names[t]) = "released"
<1> DEFINE g == groundCandidates(doc)[o]
           own == {f \in doc.findings : f.object = o}
           delivered == {t \in UsedBy({o}, doc.edges) : doc.names[t].namespace # "ZY"}
           clean == own # {} /\ ~ \E f \in own : f.priority = "P1" /\ f.family \in BLOCKER_FAMILIES
           registry == groundRegistryRefs(doc, o)
<1>1. g = [released_clean |-> clean,
           grounding_certainty |-> IF clean /\ registry.allReleased THEN SOURCE_GROUNDED_CERTAINTY ELSE FINDING_DERIVED_CERTAINTY,
           no_successor_refs |-> registry.no_successor_refs,
           standard_domains |-> registry.standard_domains]
  BY DEF groundCandidates
<1>2. delivered = {t \in {e.target : e \in {x \in doc.edges : x.source = o}} : ~ CUSTOMER_NS(doc.names[t])}
  BY DEF UsedBy, CUSTOMER_NS
<1>3. registry.allReleased = (delivered # {} /\ unreleased(delivered, doc.names) = {})
  BY <1>2 DEF groundRegistryRefs
<1> HIDE DEF registry, g, delivered
<1>4. g.released_clean = clean
  BY <1>1
<1>5. g.grounding_certainty = IF clean /\ registry.allReleased THEN SOURCE_GROUNDED_CERTAINTY ELSE FINDING_DERIVED_CERTAINTY
  BY <1>1
<1>6. unreleased(delivered, doc.names) = {} => \A t \in delivered : releaseState(doc.names[t]) = "released"
  BY DEF unreleased
<1>7. g.released_clean \in BOOLEAN
  BY <1>4
<1>8. g.released_clean => own # {} /\ \A f \in own : f.priority # "P1" \/ f.family \notin BLOCKER_FAMILIES
  BY <1>4
<1>9. g.grounding_certainty = SOURCE_GROUNDED_CERTAINTY =>
        delivered # {} /\ \A t \in delivered : releaseState(doc.names[t]) = "released"
  <2> HIDE DEF clean
  <2>1. SOURCE_GROUNDED_CERTAINTY # FINDING_DERIVED_CERTAINTY
    BY DEF SOURCE_GROUNDED_CERTAINTY, FINDING_DERIVED_CERTAINTY
  <2>2. g.grounding_certainty = SOURCE_GROUNDED_CERTAINTY => registry.allReleased
    BY <1>5, <2>1
  <2>3. registry.allReleased => delivered # {} /\ unreleased(delivered, doc.names) = {}
    BY <1>3
  <2> QED
    BY <1>6, <2>2, <2>3
<1> QED
  BY <1>5, <1>7, <1>8, <1>9 DEF g, delivered

\* The evidence of a unit is that of all its members.
LEMMA EvidenceOfUnit ==
  ASSUME NEW node, NEW doc, node.members \subseteq doc.objects
  PROVE  LET evidence == unionEvidence(node, groundCandidates(doc))
         IN  /\ evidence.no_successor_refs =
                  {t \in UsedBy(node.members, doc.edges) :
                     releaseState(doc.names[t]) \in NO_FORWARD_PATH /\ ~ doc.names[t].successor}
             /\ evidence.standard_domains =
                  UNION {doc.names[t].domain : t \in UsedBy(node.members, {e \in doc.edges : e.kind = "uses-table"})}
<1> DEFINE cache == groundCandidates(doc)
           members == node.members
           refs(m) == {r \in {e.target : e \in {x \in doc.edges : x.source = m}} :
                         releaseState(doc.names[r]) \in NO_FORWARD_PATH /\ ~ doc.names[r].successor}
           tables(m) == {e.target : e \in {x \in {y \in doc.edges : y.source = m} : x.kind = "uses-table"}}
           domains(m) == UNION {doc.names[t].domain : t \in tables(m)}
           evidence == unionEvidence(node, cache)
           dead == {t \in UsedBy(members, doc.edges) :
                      releaseState(doc.names[t]) \in NO_FORWARD_PATH /\ ~ doc.names[t].successor}
           data == UNION {doc.names[t].domain : t \in UsedBy(members, {e \in doc.edges : e.kind = "uses-table"})}
<1>1. DOMAIN cache = doc.objects
  BY DEF groundCandidates
<1>2. ASSUME NEW m \in doc.objects
      PROVE  cache[m].no_successor_refs = refs(m) /\ cache[m].standard_domains = domains(m)
  <2>1. /\ cache[m].no_successor_refs = groundRegistryRefs(doc, m).no_successor_refs
        /\ cache[m].standard_domains = groundRegistryRefs(doc, m).standard_domains
    BY DEF groundCandidates
  <2>2. groundRegistryRefs(doc, m).no_successor_refs = refs(m)
    BY DEF groundRegistryRefs
  <2>3. groundRegistryRefs(doc, m).standard_domains = domains(m)
    BY DEF groundRegistryRefs
  <2> QED
    BY <2>1, <2>2, <2>3
<1>3. /\ evidence.no_successor_refs = UNION {cache[m].no_successor_refs : m \in members \cap DOMAIN cache}
      /\ evidence.standard_domains = UNION {cache[m].standard_domains : m \in members \cap DOMAIN cache}
  BY DEF unionEvidence
<1> HIDE DEF cache, evidence
<1>4. members \cap DOMAIN cache = members
  BY <1>1
<1>5. \A t : t \in evidence.no_successor_refs <=> \E m \in members : t \in refs(m)
  <2> HIDE DEF refs, domains
  <2> QED
    BY <1>2, <1>3, <1>4
<1>6. \A d : d \in evidence.standard_domains <=> \E m \in members : d \in domains(m)
  <2> HIDE DEF refs, domains
  <2> QED
    BY <1>2, <1>3, <1>4
<1>7. \A t : t \in dead <=> \E m \in members : t \in refs(m)
  BY DEF UsedBy
<1>8. \A t : t \in UsedBy(members, {e \in doc.edges : e.kind = "uses-table"}) <=> \E m \in members : t \in tables(m)
  BY DEF UsedBy
<1>9. \A d : d \in data <=> \E m \in members : d \in domains(m)
  <2>1. \A d : d \in data <=> \E t \in UsedBy(members, {e \in doc.edges : e.kind = "uses-table"}) : d \in doc.names[t].domain
    OBVIOUS
  <2>2. \A d, m : d \in domains(m) <=> \E t \in tables(m) : d \in doc.names[t].domain
    OBVIOUS
  <2> HIDE DEF tables, domains, data
  <2> QED
    BY <1>8, <2>1, <2>2
<1> HIDE DEF refs, domains, dead, data
<1>10. evidence.no_successor_refs = dead
  BY <1>5, <1>7
<1>11. evidence.standard_domains = data
  BY <1>6, <1>9
<1> QED
  BY <1>10, <1>11 DEF evidence, cache, dead, data

\* An automatic decision rests on a proof.
LEMMA AutoHolds ==
  ASSUME kind = "dispose", IsDisposition(input), out = Design("dispose", input)
  PROVE  AutoIsProved
<1> DEFINE node == input.node
           doc == input.doc
           g == groundCandidates(doc)[node.object]
           structure == structureOf(node, doc)
           pick == decide(node, g, structure)
<1>1. node.object \in doc.objects /\ node.sealed \in BOOLEAN
  BY DEF IsDisposition
<1>2. out.decided.autonomy = IF pick.disposition = "refactor" /\ pick.confidence >= DISPOSITION_AUTO_THRESHOLD
                             THEN "auto" ELSE "prompt"
  BY DisposedIs DEF classifyDisposition
<1> HIDE DEF structure
<1>3. /\ pick.disposition = "refactor" /\ pick.confidence >= DISPOSITION_AUTO_THRESHOLD =>
           /\ g.released_clean /\ g.grounding_certainty = SOURCE_GROUNDED_CERTAINTY
           /\ ~ node.sealed /\ node.hints \cap {"ui_rearch", "os_exec"} = {}
           /\ node.object_kind \notin RETAINED_KINDS =>
                "rfc_rebuild" \notin node.hints /\ node.target \notin RE_ARCH_TARGET
  <2>1. g.released_clean \in BOOLEAN /\ g.grounding_certainty \in {SOURCE_GROUNDED_CERTAINTY, FINDING_DERIVED_CERTAINTY}
    BY <1>1, CandidateIs
  <2> HIDE DEF g
  <2> QED
    BY <1>1, <2>1, DecidedIs
<1> HIDE DEF pick
<1> SUFFICES ASSUME out.decided.autonomy = "auto"
             PROVE  LET own == {f \in doc.findings : f.object = node.object}
                        delivered == {t \in UsedBy({node.object}, doc.edges) : doc.names[t].namespace # "ZY"}
                    IN  /\ own # {} /\ \A f \in own : f.priority # "P1" \/ f.family \notin BLOCKER_FAMILIES
                        /\ delivered # {} /\ \A t \in delivered : doc.names[t].state = "released"
                        /\ ~ node.sealed /\ node.hints \cap {"ui_rearch", "os_exec"} = {}
                        /\ node.object_kind \notin RETAINED_KINDS =>
                             "rfc_rebuild" \notin node.hints /\ node.target \notin RE_ARCH_TARGET
  BY DEF AutoIsProved
<1>4. pick.disposition = "refactor" /\ pick.confidence >= DISPOSITION_AUTO_THRESHOLD
  BY <1>2
<1>5. g.released_clean /\ g.grounding_certainty = SOURCE_GROUNDED_CERTAINTY
  BY <1>3, <1>4
<1>6. LET own == {f \in doc.findings : f.object = node.object}
          delivered == {t \in UsedBy({node.object}, doc.edges) : doc.names[t].namespace # "ZY"}
      IN  /\ own # {} /\ \A f \in own : f.priority # "P1" \/ f.family \notin BLOCKER_FAMILIES
          /\ delivered # {} /\ \A t \in delivered : releaseState(doc.names[t]) = "released"
  BY <1>1, <1>5, CandidateIs
<1>7. \A t \in UsedBy({node.object}, doc.edges) :
        releaseState(doc.names[t]) = "released" => doc.names[t].state = "released"
  <2> SUFFICES ASSUME NEW t \in UsedBy({node.object}, doc.edges)
               PROVE  releaseState(doc.names[t]) = "released" => doc.names[t].state = "released"
    OBVIOUS
  <2>1. t \in DOMAIN doc.names
    BY DEF UsedBy, IsDisposition
  <2> QED
    BY <2>1, ReleaseStateIs DEF IsDisposition
<1> QED
  BY <1>3, <1>4, <1>6, <1>7

\* An option between them, and what it rests on.
Alternative(label, basis) == [label |-> label, recommended |-> FALSE, basis |-> basis]

\* A sequence with one more element.
LEMMA WithOneMore ==
  ASSUME NEW Y, NEW t \in Seq(Y), NEW c \in Y
  PROVE  /\ Append(t, c) \in Seq(Y) /\ Len(Append(t, c)) = Len(t) + 1 /\ Len(t) \in Nat
         /\ \A i \in 1..(Len(t) + 1) : Append(t, c)[i] = IF i = Len(t) + 1 THEN c ELSE t[i]
<1> DEFINE s == Append(t, c)
<1>1. s \in Seq(Y) /\ Len(s) = Len(t) + 1 /\ Len(t) \in Nat
  BY AppendProperties
<1>2. \A i \in 1..(Len(t) + 1) : s[i] = IF i = Len(t) + 1 THEN c ELSE t[i]
  BY AppendProperties
<1> QED
  BY <1>1, <1>2

\* Two elements and a third one.
LEMMA ThirdOf ==
  ASSUME NEW Y, NEW t \in Seq(Y), Len(t) = 2, NEW c \in Y
  PROVE  /\ DOMAIN Append(t, c) = 1..3
         /\ Append(t, c)[1] = t[1] /\ Append(t, c)[2] = t[2] /\ Append(t, c)[3] = c
<1> DEFINE s == Append(t, c)
<1> HIDE DEF s
<1>1. /\ s \in Seq(Y) /\ Len(s) = Len(t) + 1 /\ Len(t) \in Nat
      /\ \A i \in 1..(Len(t) + 1) : s[i] = IF i = Len(t) + 1 THEN c ELSE t[i]
  <2>1. ASSUME NEW u, u = Append(t, c)
        PROVE  /\ u \in Seq(Y) /\ Len(u) = Len(t) + 1 /\ Len(t) \in Nat
               /\ \A i \in 1..(Len(t) + 1) : u[i] = IF i = Len(t) + 1 THEN c ELSE t[i]
    BY <2>1, WithOneMore
  <2> QED
    BY <2>1 DEF s
<1>3. s \in Seq(Y) /\ Len(s) = 3 /\ s[3] = c /\ s[1] = t[1] /\ s[2] = t[2]
  <2>1. 1 \in 1..3 /\ 2 \in 1..3 /\ 3 \in 1..3
    OBVIOUS
  <2> QED
    BY <1>1, <2>1
<1>4. DOMAIN s = 1..3
  BY <1>3
<1> QED
  BY <1>3, <1>4 DEF s

\* Besides what is proposed: another way to do it, a drop, and where data of a
\* standard are read, that standard.
LEMMA AlternativesAre ==
  ASSUME NEW label \in {"seal", "re_architect", "refactor"}, NEW evidence
  PROVE  LET n == IF evidence.standard_domains # {} THEN 3 ELSE 2
             alternatives == groundAlternatives(ALTERNATIVES(label), evidence)
         IN  /\ alternatives = [i \in 1..n |-> alternatives[i]]
             /\ \E other \in {"re_architect", "refactor"} : other # label /\ alternatives[1] = Alternative(other, {})
             /\ alternatives[2] = Alternative("retire", evidence.no_successor_refs)
             /\ n = 3 => alternatives[3] = Alternative("replace", evidence.standard_domains)
<1> DEFINE data == evidence.standard_domains
           labels == ALTERNATIVES(label)
           basis(l) == CASE l = "retire" -> evidence.no_successor_refs
                         [] l = "replace" -> data
                         [] OTHER -> {}
           asked == IF data # {} /\ "replace" \notin Range(labels) THEN Append(labels, "replace") ELSE labels
           alternatives == groundAlternatives(labels, evidence)
<1>1. PICK other \in {"re_architect", "refactor"} : other # label /\ labels = <<other, "retire">>
  BY DEF ALTERNATIVES
<1>2. alternatives = [i \in DOMAIN asked |-> [label |-> asked[i], recommended |-> FALSE, basis |-> basis(asked[i])]]
  BY DEF groundAlternatives
<1> HIDE DEF labels, alternatives
<1>3. "replace" \notin Range(labels)
  <2>1. DOMAIN labels = 1..2 /\ labels[1] = other /\ labels[2] = "retire"
    BY <1>1
  <2>2. \A i \in DOMAIN labels : labels[i] # "replace"
    BY <2>1
  <2> QED
    BY <2>2 DEF Range
<1>4. /\ data = {} => DOMAIN asked = 1..2
      /\ data # {} => DOMAIN asked = 1..3 /\ asked[3] = "replace"
      /\ asked[1] = other /\ asked[2] = "retire"
  <2>1. asked = IF data # {} THEN Append(labels, "replace") ELSE labels
    BY <1>3
  <2> HIDE DEF asked, data
  <2>2. CASE data = {}
    BY <1>1, <2>1, <2>2
  <2>3. CASE data # {}
    <3> DEFINE Y == {other, "retire", "replace"}
               two == <<other, "retire">>
    <3>1. two \in Seq(Y) /\ Len(two) = 2 /\ two[1] = other /\ two[2] = "retire" /\ "replace" \in Y
      OBVIOUS
    <3>2. asked = Append(two, "replace")
      BY <1>1, <2>1, <2>3
    <3> HIDE DEF two, Y
    <3>3. DOMAIN asked = 1..3 /\ asked[1] = other /\ asked[2] = "retire" /\ asked[3] = "replace"
      BY <3>1, <3>2, ThirdOf
    <3> QED
      BY <2>3, <3>3
  <2> QED
    BY <2>2, <2>3
<1> HIDE DEF asked
<1>5. basis(other) = {} /\ basis("retire") = evidence.no_successor_refs /\ basis("replace") = data
  OBVIOUS
<1> HIDE DEF basis
<1>6. CASE data # {}
  <2>1. DOMAIN asked = 1..3 /\ asked[1] = other /\ asked[2] = "retire" /\ asked[3] = "replace"
    BY <1>4, <1>6
  <2>2. /\ alternatives = [i \in 1..3 |-> alternatives[i]]
        /\ \A i \in 1..3 : alternatives[i] = Alternative(asked[i], basis(asked[i]))
    BY <1>2, <2>1 DEF Alternative
  <2>3. /\ alternatives[1] = Alternative(other, {}) /\ alternatives[2] = Alternative("retire", evidence.no_successor_refs)
        /\ alternatives[3] = Alternative("replace", data)
    <3>1. 1 \in 1..3 /\ 2 \in 1..3 /\ 3 \in 1..3
      OBVIOUS
    <3> QED
      BY <1>5, <2>1, <2>2, <3>1
  <2> QED
    BY <1>1, <1>6, <2>2, <2>3 DEF labels, alternatives
<1>7. CASE data = {}
  <2>1. DOMAIN asked = 1..2 /\ asked[1] = other /\ asked[2] = "retire"
    BY <1>4, <1>7
  <2>2. /\ alternatives = [i \in 1..2 |-> alternatives[i]]
        /\ \A i \in 1..2 : alternatives[i] = Alternative(asked[i], basis(asked[i]))
    BY <1>2, <2>1 DEF Alternative
  <2>3. alternatives[1] = Alternative(other, {}) /\ alternatives[2] = Alternative("retire", evidence.no_successor_refs)
    <3>1. 1 \in 1..2 /\ 2 \in 1..2
      OBVIOUS
    <3> QED
      BY <1>5, <2>1, <2>2, <3>1
  <2> QED
    BY <1>1, <1>7, <2>2, <2>3 DEF labels, alternatives
<1> QED
  BY <1>6, <1>7

\* The options for what is proposed.
LEMMA OptionsOf ==
  ASSUME NEW d, d.disposition \in {"seal", "re_architect", "refactor"}
  PROVE  LET options == dispositionOptions(d)
         IN  \E other \in {"re_architect", "refactor"} :
               /\ other # d.disposition
               /\ Range(options) = {Recommended(d.disposition), OwnWords, Alternative(other, {}),
                                    Alternative("retire", d.evidence.no_successor_refs)}
                                   \cup (IF d.evidence.standard_domains # {}
                                         THEN {Alternative("replace", d.evidence.standard_domains)} ELSE {})
               /\ Len(options) = (IF d.evidence.standard_domains # {} THEN 5 ELSE 4)
<1> DEFINE label == d.disposition
           e == d.evidence
           n == IF e.standard_domains # {} THEN 3 ELSE 2
           alternatives == groundAlternatives(ALTERNATIVES(label), e)
           options == dispositionOptions(d)
<1>1. /\ alternatives = [i \in 1..n |-> alternatives[i]]
      /\ \E o \in {"re_architect", "refactor"} : o # label /\ alternatives[1] = Alternative(o, {})
      /\ alternatives[2] = Alternative("retire", e.no_successor_refs)
      /\ n = 3 => alternatives[3] = Alternative("replace", e.standard_domains)
  BY AlternativesAre
<1>2. options = buildPromptOptions(label, alternatives)
  BY DEF dispositionOptions
<1> HIDE DEF alternatives, options
<1>3. PICK other \in {"re_architect", "refactor"} : other # label /\ alternatives[1] = Alternative(other, {})
  BY <1>1
<1>4. \A l, b : Alternative(l, b).label = l /\ Alternative(l, b).recommended = FALSE /\ Alternative(l, b).basis = b
  BY DEF Alternative
<1> DEFINE X == {alternatives[i] : i \in 1..n}
<1>5. alternatives \in Seq(X) /\ Len(alternatives) = n /\ DOMAIN alternatives = 1..n
  <2>1. n \in Nat
    OBVIOUS
  <2>2. \A i \in 1..n : alternatives[i] \in X
    OBVIOUS
  <2> HIDE DEF n, X
  <2> QED
    BY <1>1, <2>1, <2>2
<1>6. \A i \in 1..n : i = 1 \/ i = 2 \/ (i = 3 /\ n = 3)
  OBVIOUS
<1>7. /\ alternatives[1].label = other /\ alternatives[2].label = "retire"
      /\ n = 3 => alternatives[3].label = "replace"
  BY <1>1, <1>3, <1>4
<1> HIDE DEF n, X
<1>8. /\ \A i \in DOMAIN alternatives : alternatives[i].label # label
      /\ \A i, j \in DOMAIN alternatives : alternatives[i].label = alternatives[j].label => i = j
  <2>1. other # label /\ "retire" # label /\ "replace" # label
    BY <1>3
  <2>2. other # "retire" /\ other # "replace"
    BY <1>3
  <2> QED
    BY <1>5, <1>6, <1>7, <2>1, <2>2
<1>9. Len(options) = n + 2
  BY <1>2, <1>5, <1>8, OptionsAre
<1>10. Range(options) = {Recommended(label), OwnWords} \cup {alternatives[i] : i \in DOMAIN alternatives}
  BY <1>2, <1>5, <1>8, RangeOfOptions
<1>11. {alternatives[i] : i \in DOMAIN alternatives}
         = {Alternative(other, {}), Alternative("retire", e.no_successor_refs)}
           \cup (IF e.standard_domains # {} THEN {Alternative("replace", e.standard_domains)} ELSE {})
  <2>1. CASE e.standard_domains # {}
    <3>1. n = 3
      BY <2>1 DEF n
    <3>2. DOMAIN alternatives = {1, 2, 3}
      BY <1>5, <3>1
    <3>3. {alternatives[i] : i \in DOMAIN alternatives} = {alternatives[1], alternatives[2], alternatives[3]}
      BY <3>2
    <3> QED
      BY <1>1, <1>3, <2>1, <3>1, <3>3
  <2>2. CASE e.standard_domains = {}
    <3>1. n = 2
      BY <2>2 DEF n
    <3>2. DOMAIN alternatives = {1, 2}
      BY <1>5, <3>1
    <3>3. {alternatives[i] : i \in DOMAIN alternatives} = {alternatives[1], alternatives[2]}
      BY <3>2
    <3> QED
      BY <1>1, <1>3, <2>2, <3>3
  <2> QED
    BY <2>1, <2>2
<1>12. Len(options) = (IF e.standard_domains # {} THEN 5 ELSE 4)
  BY <1>9 DEF n
<1> QED
  BY <1>3, <1>10, <1>11, <1>12 DEF options

\* What is proposed is decided by a rule, and its evidence is the whole unit's.
LEMMA ProposedIs ==
  ASSUME kind = "dispose", IsDisposition(input), out = Design("dispose", input)
  PROVE  LET names == input.doc.names
             used(edges) == UsedBy(input.node.members, edges)
             d == out.decided
         IN  /\ d.disposition \in {"seal", "re_architect", "refactor"}
             /\ d.evidence.no_successor_refs =
                  {t \in used(input.doc.edges) : names[t].state \notin {"released", "unknown"} /\ ~ names[t].successor}
             /\ d.evidence.standard_domains =
                  UNION {names[t].domain : t \in used({e \in input.doc.edges : e.kind = "uses-table"})}
<1> DEFINE node == input.node
           doc == input.doc
           cache == groundCandidates(doc)
           g == cache[node.object]
           structure == structureOf(node, doc)
           pick == decide(node, g, structure)
<1>1. node.object \in doc.objects /\ node.members \subseteq doc.objects /\ node.sealed \in BOOLEAN
  BY DEF IsDisposition
<1>2. out.decided.disposition = pick.disposition /\ out.decided.evidence = unionEvidence(node, cache)
  BY DisposedIs DEF classifyDisposition
<1> HIDE DEF structure
<1>3. pick.disposition \in {"seal", "re_architect", "refactor"}
  <2>1. g.released_clean \in BOOLEAN /\ g.grounding_certainty \in {SOURCE_GROUNDED_CERTAINTY, FINDING_DERIVED_CERTAINTY}
    BY <1>1, CandidateIs
  <2> HIDE DEF g
  <2> QED
    BY <1>1, <2>1, DecidedIs
<1> HIDE DEF pick
<1> DEFINE ended == {t \in UsedBy(node.members, doc.edges) :
                      releaseState(doc.names[t]) \in NO_FORWARD_PATH /\ ~ doc.names[t].successor}
           dead == {t \in UsedBy(node.members, doc.edges) :
                      doc.names[t].state \notin {"released", "unknown"} /\ ~ doc.names[t].successor}
           data == UNION {doc.names[t].domain : t \in UsedBy(node.members, {e \in doc.edges : e.kind = "uses-table"})}
<1>4. unionEvidence(node, cache).no_successor_refs = ended /\ unionEvidence(node, cache).standard_domains = data
  BY <1>1, EvidenceOfUnit, ZenonT(30)
<1>7. ended = dead
  <2>1. \A t \in UsedBy(node.members, doc.edges) :
          releaseState(doc.names[t]) \in NO_FORWARD_PATH <=> doc.names[t].state \notin {"released", "unknown"}
    <3> SUFFICES ASSUME NEW t \in UsedBy(node.members, doc.edges)
                 PROVE  releaseState(doc.names[t]) \in NO_FORWARD_PATH <=> doc.names[t].state \notin {"released", "unknown"}
      OBVIOUS
    <3>1. t \in DOMAIN doc.names
      BY DEF UsedBy, IsDisposition
    <3> QED
      BY <3>1, ReleaseStateIs DEF IsDisposition
  <2> QED
    BY <2>1
<1> HIDE DEF cache
<1>5. out.decided.evidence.no_successor_refs = dead /\ out.decided.evidence.standard_domains = data
  <2> HIDE DEF ended, dead, data
  <2> QED
    BY <1>2, <1>4, <1>7
<1>6. out.decided.disposition \in {"seal", "re_architect", "refactor"}
  BY <1>2, <1>3
<1> QED
  BY <1>5, <1>6

\* A person chooses among real options.
LEMMA OptionsHold ==
  ASSUME kind = "dispose", IsDisposition(input), out = Design("dispose", input)
  PROVE  OptionsAreReal
<1> DEFINE names == input.doc.names
           edges == input.doc.edges
           dead == {t \in UsedBy(input.node.members, edges) :
                      names[t].state \notin {"released", "unknown"} /\ ~ names[t].successor}
           data == UNION {names[t].domain : t \in UsedBy(input.node.members, {e \in edges : e.kind = "uses-table"})}
           options == Range(out.options)
           d == out.decided
<1>1. d.disposition \in {"seal", "re_architect", "refactor"} /\ d.evidence.no_successor_refs = dead /\ d.evidence.standard_domains = data
  BY ProposedIs
<1>2. out.options = dispositionOptions(d)
  BY DisposedIs
<1> HIDE DEF dead, data, d
<1>3. PICK other \in {"re_architect", "refactor"} :
        /\ other # d.disposition
        /\ options = {Recommended(d.disposition), OwnWords, Alternative(other, {}), Alternative("retire", dead)}
                     \cup (IF data # {} THEN {Alternative("replace", data)} ELSE {})
        /\ Len(out.options) = (IF data # {} THEN 5 ELSE 4)
  <2> DEFINE offered == dispositionOptions(d)
  <2>1. \E o \in {"re_architect", "refactor"} :
          /\ o # d.disposition
          /\ Range(offered) = {Recommended(d.disposition), OwnWords, Alternative(o, {}), Alternative("retire", dead)}
                              \cup (IF data # {} THEN {Alternative("replace", data)} ELSE {})
          /\ Len(offered) = (IF data # {} THEN 5 ELSE 4)
    <3>1. \E o \in {"re_architect", "refactor"} :
            /\ o # d.disposition
            /\ Range(offered) = {Recommended(d.disposition), OwnWords, Alternative(o, {}),
                                 Alternative("retire", d.evidence.no_successor_refs)}
                                \cup (IF d.evidence.standard_domains # {}
                                      THEN {Alternative("replace", d.evidence.standard_domains)} ELSE {})
            /\ Len(offered) = (IF d.evidence.standard_domains # {} THEN 5 ELSE 4)
      BY <1>1, OptionsOf
    <3> HIDE DEF offered
    <3> QED
      BY <1>1, <3>1
  <2> QED
    BY <1>2, <2>1
<1>4. /\ \A l : Recommended(l).label = l /\ Recommended(l).recommended = TRUE
      /\ OwnWords.label = "other" /\ OwnWords.recommended = FALSE
      /\ \A l, b : Alternative(l, b).label = l /\ Alternative(l, b).recommended = FALSE /\ Alternative(l, b).basis = b
  BY DEF Recommended, OwnWords, Alternative
<1> DEFINE labels == {o.label : o \in options}
           core == {d.disposition, "other", other, "retire"}
<1>5. labels = core \cup (IF data # {} THEN {"replace"} ELSE {})
  <2>1. CASE data # {}
    <3>1. options = {Recommended(d.disposition), OwnWords, Alternative(other, {}), Alternative("retire", dead),
                     Alternative("replace", data)}
      BY <1>3, <2>1
    <3> HIDE DEF options
    <3> QED
      BY <1>4, <2>1, <3>1
  <2>2. CASE data = {}
    <3>1. options = {Recommended(d.disposition), OwnWords, Alternative(other, {}), Alternative("retire", dead)}
      BY <1>3, <2>2
    <3> HIDE DEF options
    <3> QED
      BY <1>4, <2>2, <3>1
  <2> QED
    BY <2>1, <2>2
<1>6. Cardinality(labels) = Len(out.options) /\ Len(out.options) >= 3
  <2>1. IsFiniteSet({d.disposition}) /\ Cardinality({d.disposition}) = 1
    BY FS_Singleton
  <2>2. IsFiniteSet({d.disposition, other}) /\ Cardinality({d.disposition, other}) = 2
    <3>1. {d.disposition, other} = {d.disposition} \cup {other} /\ other \notin {d.disposition}
      BY <1>3
    <3> QED
      BY <2>1, <3>1, FS_AddElement
  <2>3. IsFiniteSet({d.disposition, other, "retire"}) /\ Cardinality({d.disposition, other, "retire"}) = 3
    <3>1. {d.disposition, other, "retire"} = {d.disposition, other} \cup {"retire"} /\ "retire" \notin {d.disposition, other}
      BY <1>1, <1>3
    <3> QED
      BY <2>2, <3>1, FS_AddElement
  <2>4. IsFiniteSet(core) /\ Cardinality(core) = 4
    <3>1. core = {d.disposition, other, "retire"} \cup {"other"} /\ "other" \notin {d.disposition, other, "retire"}
      BY <1>1, <1>3
    <3> QED
      BY <2>3, <3>1, FS_AddElement
  <2>5. CASE data # {}
    <3>1. "replace" \notin core
      BY <1>1, <1>3
    <3> HIDE DEF core, labels
    <3>2. labels = core \cup {"replace"}
      BY <1>5, <2>5
    <3>3. Cardinality(labels) = 5
      BY <2>4, <3>1, <3>2, FS_AddElement
    <3> QED
      BY <1>3, <2>5, <3>3
  <2>6. CASE data = {}
    <3> HIDE DEF core, labels
    <3>1. labels = core
      BY <1>5, <2>6
    <3> QED
      BY <1>3, <2>4, <2>6, <3>1
  <2> QED
    BY <2>5, <2>6
<1>7. {o.label : o \in {x \in options : x.recommended}} = {d.disposition}
  <2>1. {x \in options : x.recommended} = {Recommended(d.disposition)}
    <3>1. \A x \in options : x = Recommended(d.disposition) \/ x.recommended = FALSE
      BY <1>3, <1>4
    <3>2. Recommended(d.disposition) \in options /\ Recommended(d.disposition).recommended = TRUE
      BY <1>3, <1>4
    <3> HIDE DEF options
    <3> QED
      BY <3>1, <3>2
  <2> HIDE DEF options
  <2> QED
    BY <1>4, <2>1
<1>8. \E o \in options : o.label = "other"
  BY <1>3, <1>4
<1>9. \A o \in options : o.label = "retire" => o.basis = dead
  BY <1>1, <1>3, <1>4
<1>10. data # {} => \E o \in options : o.label = "replace" /\ o.basis = data
  BY <1>3, <1>4
<1> HIDE DEF options
<1> QED
  BY <1>6, <1>7, <1>8, <1>9, <1>10 DEF OptionsAreReal, options, dead, data, d

\* Adopting a standard is offered only for data that are read, and advised then.
LEMMA ReplaceIsBased ==
  ASSUME kind = "dispose", IsDisposition(input), out = Design("dispose", input),
         \E o \in Range(out.options) : o.label = "replace"
  PROVE  out.decided.evidence.standard_domains # {}
<1> DEFINE d == out.decided
           options == dispositionOptions(d)
<1>1. d.disposition \in {"seal", "re_architect", "refactor"}
  BY ProposedIs
<1>2. out.options = options
  BY DisposedIs
<1> HIDE DEF d
<1> SUFFICES ASSUME d.evidence.standard_domains = {} PROVE FALSE
  BY DEF d
<1>3. PICK other \in {"re_architect", "refactor"} :
        Range(options) = {Recommended(d.disposition), OwnWords, Alternative(other, {}),
                          Alternative("retire", d.evidence.no_successor_refs)}
  <2>1. \E other \in {"re_architect", "refactor"} :
          Range(options) = {Recommended(d.disposition), OwnWords, Alternative(other, {}),
                            Alternative("retire", d.evidence.no_successor_refs)}
                           \cup (IF d.evidence.standard_domains # {}
                                 THEN {Alternative("replace", d.evidence.standard_domains)} ELSE {})
    BY <1>1, OptionsOf
  <2> HIDE DEF options
  <2> QED
    BY <2>1
<1>4. /\ \A l : Recommended(l).label = l
      /\ OwnWords.label = "other"
      /\ \A l, b : Alternative(l, b).label = l
  BY DEF Recommended, OwnWords, Alternative
<1> HIDE DEF options
<1> QED
  BY <1>1, <1>2, <1>3, <1>4

\* The advice is about what any member uses.
LEMMA AdviceHolds ==
  ASSUME kind = "dispose", IsDisposition(input), out = Design("dispose", input)
  PROVE  AdviceAgrees
<1> DEFINE node == input.node
           doc == input.doc
           names == doc.names
           isData(t) == names[t].domain # {} \/ (names[t].state = "notToBeReleased" /\ names[t].mapped)
           isCapability(t) == /\ names[t].namespace = "bare" /\ names[t].role # "runtime"
                              /\ names[t].role = "business" \/ names[t].state = "released"
           used == {e \in doc.edges : e.source \in node.members}
           delivered == {e \in used : \/ e.kind = "uses-table" /\ isData(e.target)
                                      \/ e.kind # "uses-table" /\ e.target # e.source /\ isCapability(e.target)}
           tables == UNION {standardTables(doc, m) : m \in node.members}
           capabilities == UNION {standardCapabilities(doc, m) : m \in node.members}
           data == UNION {names[t].domain : t \in UsedBy(node.members, {e \in doc.edges : e.kind = "uses-table"})}
<1>13. node.members # {}
  BY DEF IsDisposition
<1>1. \A e \in doc.edges : /\ names[e.target].mapped \in BOOLEAN
                           /\ names[e.target].namespace \in {"ZY", "registered", "bare"}
  BY DEF IsDisposition
<1>2. /\ out.advice.domains = UNION {tableDomain(names[t]) : t \in tables}
      /\ out.advice.tables = tables /\ out.advice.released_apis = capabilities
      /\ out.advice.action = IF tables \cup capabilities = {} THEN "build" ELSE "verify_live"
  <2> HIDE DEF isData, isCapability, used, delivered, data
  <2>1. out.advice = fitToStandardAdvisory(node, doc)
    BY DisposedIs
  <2>2. fitToStandardAdvisory(node, doc) =
          [domains |-> UNION {tableDomain(names[t]) : t \in tables}, tables |-> tables, released_apis |-> capabilities,
           action |-> IF tables \cup capabilities = {} THEN "build" ELSE "verify_live"]
    BY <1>13 DEF fitToStandardAdvisory
  <2> QED
    BY <2>1, <2>2
<1>3. ASSUME NEW e \in doc.edges PROVE tableDomain(names[e.target]) # {} <=> isData(e.target)
  BY <1>1 DEF tableDomain, registryDomain
<1> HIDE DEF isData, isCapability
<1>4. ASSUME NEW t PROVE t \in tables <=> \E e \in used : e.kind = "uses-table" /\ isData(e.target) /\ e.target = t
  <2>1. \A m : t \in standardTables(doc, m) <=>
               \E e \in doc.edges : e.source = m /\ e.kind = "uses-table" /\ e.target = t /\ tableDomain(names[t]) # {}
    BY DEF standardTables
  <2> QED
    BY <1>3, <2>1
<1>5. ASSUME NEW t
      PROVE  t \in capabilities <=>
               \E e \in used : e.kind # "uses-table" /\ e.target # e.source /\ isCapability(e.target) /\ e.target = t
  <2>1. \A m : t \in standardCapabilities(doc, m) <=>
               \E e \in doc.edges : e.source = m /\ e.kind # "uses-table" /\ e.target = t /\ t # m /\ isCapability(t)
    BY <1>1 DEF standardCapabilities, isCapability, CUSTOMER_NAME
  <2> QED
    BY <2>1
<1> HIDE DEF tables, capabilities, used
<1>6. out.advice.tables \cup out.advice.released_apis = {e.target : e \in delivered}
  <2>1. \A t : t \in tables \cup capabilities <=> \E e \in delivered : e.target = t
    BY <1>4, <1>5
  <2> HIDE DEF delivered
  <2> QED
    BY <1>2, <2>1
<1> HIDE DEF delivered
<1>7. out.advice.action = "build" <=> delivered = {}
  <2>1. tables \cup capabilities = {e.target : e \in delivered}
    BY <1>2, <1>6
  <2>2. tables \cup capabilities = {} <=> delivered = {}
    BY <2>1
  <2> QED
    BY <1>2, <2>2
<1>8. ASSUME NEW e \in doc.edges, e.source \in node.members, e.kind = "uses-table", NEW x \in names[e.target].domain
      PROVE  x \in out.advice.domains /\ e.target \in tables
  <2>1. isData(e.target) /\ e \in used
    BY <1>8 DEF isData, used
  <2>2. e.target \in tables
    BY <1>4, <1>8, <2>1
  <2>3. x \in tableDomain(names[e.target])
    BY <1>8 DEF tableDomain
  <2> QED
    BY <1>2, <2>2, <2>3
<1>9. data = out.decided.evidence.standard_domains
  BY ProposedIs
<1>10. \A x \in data : \E e \in doc.edges : e.source \in node.members /\ e.kind = "uses-table" /\ x \in names[e.target].domain
  BY DEF UsedBy
<1> HIDE DEF data
<1>11. out.decided.evidence.standard_domains \subseteq out.advice.domains
  BY <1>8, <1>9, <1>10
<1>12. (\E o \in Range(out.options) : o.label = "replace") => out.advice.action = "verify_live"
  <2> SUFFICES ASSUME \E o \in Range(out.options) : o.label = "replace" PROVE tables # {}
    BY <1>2
  <2>1. data # {}
    BY <1>9, ReplaceIsBased
  <2> QED
    BY <1>8, <1>10, <2>1
<1> QED
  BY <1>6, <1>7, <1>11, <1>12 DEF AdviceAgrees, delivered, used, isData, isCapability

(***************************************************************************)
(* For every unit, document and plan, of any size: only a proof decides    *)
(* without a person, a person chooses among real options that state what   *)
(* they rest on, the advice and the proposal agree, and every drop that    *)
(* takes something away is asked about (plan/disposition.js, the first     *)
(* rule that applies; plan/fit-to-standard.js; plan/dropped-features.js).  *)
(***************************************************************************)
THEOREM DispositionIsAlwaysGrounded == DesignSpec => []DispositionIsGrounded
<1> DEFINE Inv == /\ kind \in DOMAIN DesignInputs /\ IsDesignInput(kind, input)
                  /\ out = Pending \/ out = Design(kind, input)
<1>1. out = Pending /\ kind \in DOMAIN DesignInputs /\ IsDesignInput(kind, input) => Inv
  OBVIOUS
<1>2. Inv /\ [Propose]_inputVars => Inv'
  BY DEF Propose, inputVars
<1>3. Inv => DispositionIsGrounded
  <2>1. CASE out = Pending
    BY <2>1 DEF DispositionIsGrounded, Pending, Judged, AutoIsProved, OptionsAreReal, AdviceAgrees, DropsAreShown
  <2>2. ASSUME IsDesignInput(kind, input), out = Design(kind, input), kind = "dispose"
        PROVE  DispositionIsGrounded
    <3>1. IsDisposition(input)
      BY <2>2 DEF IsDesignInput
    <3>2. AutoIsProved /\ OptionsAreReal /\ AdviceAgrees
      BY <2>2, <3>1, AutoHolds, OptionsHold, AdviceHolds
    <3> QED
      BY <2>2, <3>2 DEF DispositionIsGrounded, DropsAreShown, Judged
  <2>3. ASSUME IsDesignInput(kind, input), out = Design(kind, input), kind = "dropped"
        PROVE  DispositionIsGrounded
    <3>1. IsPlan(input.plan)
      BY <2>3 DEF IsDesignInput
    <3>2. DropsAreShown
      BY <2>3, <3>1, DropsHold
    <3> QED
      BY <2>3, <3>2 DEF DispositionIsGrounded, AutoIsProved, OptionsAreReal, AdviceAgrees, Judged
  <2>4. CASE kind \notin {"dispose", "dropped"}
    BY <2>4 DEF DispositionIsGrounded, AutoIsProved, OptionsAreReal, AdviceAgrees, DropsAreShown, Judged
  <2> QED
    BY <2>1, <2>2, <2>3, <2>4
<1> QED
  BY <1>1, <1>2, <1>3, PTL DEF DesignSpec

(***************************************************************************)
(* For every set of facts, application, group and ratified contract: a     *)
(* refusal is explained in full, the verb ends with a blueprint that holds *)
(* whatever verdicts the cache has, what a judge claims is kept or         *)
(* reported, the evidence of a group is mutual, and what is made is what   *)
(* was ratified (plan/arch, cli-arch.js, plan/group-evidence.js,           *)
(* conformance.js).                                                        *)
(***************************************************************************)
THEOREM ArchitectureAlwaysFits == DesignSpec => []ArchitectureFits
<1> DEFINE Inv == /\ kind \in DOMAIN DesignInputs /\ IsDesignInput(kind, input)
                  /\ out = Pending \/ out = Design(kind, input)
<1>1. out = Pending /\ kind \in DOMAIN DesignInputs /\ IsDesignInput(kind, input) => Inv
  OBVIOUS
<1>2. Inv /\ [Propose]_inputVars => Inv'
  BY DEF Propose, inputVars
<1>3. Inv => ArchitectureFits
  <2>1. CASE out = Pending
    BY <2>1 DEF ArchitectureFits, Pending, Judged, ExplanationSuffices, BlueprintAlwaysHolds, ClaimsAreKeptOrReported,
                GroupEvidenceIsMutual, ConformsToTheFile
  <2>2. ASSUME IsDesignInput(kind, input), out = Design(kind, input), kind = "match"
        PROVE  ArchitectureFits
    <3>1. ExplanationSuffices
      BY <2>2, ExplanationHolds
    <3> QED
      BY <2>2, <3>1 DEF ArchitectureFits, BlueprintAlwaysHolds, ClaimsAreKeptOrReported, GroupEvidenceIsMutual,
                        ConformsToTheFile, Judged
  <2>3. ASSUME IsDesignInput(kind, input), out = Design(kind, input), kind = "arch"
        PROVE  ArchitectureFits
    <3>1. IsApplication(input)
      BY <2>3 DEF IsDesignInput
    <3>2. BlueprintAlwaysHolds /\ ClaimsAreKeptOrReported
      BY <2>3, <3>1, BlueprintHolds
    <3> QED
      BY <2>3, <3>2 DEF ArchitectureFits, ExplanationSuffices, GroupEvidenceIsMutual, ConformsToTheFile, Judged
  <2>4. ASSUME IsDesignInput(kind, input), out = Design(kind, input), kind = "group"
        PROVE  ArchitectureFits
    <3>1. IsGroup(input)
      BY <2>4 DEF IsDesignInput
    <3>2. GroupEvidenceIsMutual
      BY <2>4, <3>1, GroupHolds
    <3> QED
      BY <2>4, <3>2 DEF ArchitectureFits, ExplanationSuffices, BlueprintAlwaysHolds, ClaimsAreKeptOrReported,
                        ConformsToTheFile, Judged
  <2>5. ASSUME IsDesignInput(kind, input), out = Design(kind, input), kind = "conform"
        PROVE  ArchitectureFits
    <3>1. IsConformance(input)
      BY <2>5 DEF IsDesignInput
    <3>2. ConformsToTheFile
      BY <2>5, <3>1, ConformHolds
    <3> QED
      BY <2>5, <3>2 DEF ArchitectureFits, ExplanationSuffices, BlueprintAlwaysHolds, ClaimsAreKeptOrReported,
                        GroupEvidenceIsMutual, Judged
  <2>6. CASE kind \notin {"match", "arch", "group", "conform"}
    BY <2>6 DEF ArchitectureFits, ExplanationSuffices, BlueprintAlwaysHolds, ClaimsAreKeptOrReported,
                GroupEvidenceIsMutual, ConformsToTheFile, Judged
  <2> QED
    BY <2>1, <2>2, <2>3, <2>4, <2>5, <2>6
<1> QED
  BY <1>1, <1>2, <1>3, PTL DEF DesignSpec
================================================================================
