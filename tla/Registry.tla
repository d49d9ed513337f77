--------------------------------- MODULE Registry ---------------------------------
(***************************************************************************)
(* What SAP's two published registries say of a name, for the oracle       *)
(* (oracle.js), the analyser (cloudification.js, curation.js) and the      *)
(* generation lane (released-api-grounding.js).                            *)
(*                                                                         *)
(* A registry reg has two files of rows, read in their order:              *)
(* reg.authoritative (the release information) and reg.fallback (the       *)
(* classifications).  A row is [name, type, state, successors (a           *)
(* sequence), mapping]; a state may be one the program does not know.      *)
(***************************************************************************)
EXTENDS Integers, Sequences, SequencesExt, TLC

AnyType == "any type"
NoName == "no name"
NoMapping == "none"

STATE_LEVEL ==
  [released |-> "A", classicAPI |-> "B", deprecated |-> "C", notToBeReleased |-> "D", noAPI |-> "D"]

LEVEL_RANK == [D |-> 0, C |-> 1, B |-> 2, A |-> 3]
LEVEL_GRADE == [A |-> "none", B |-> "advisory", C |-> "warning", D |-> "blocker", unknown |-> "needs_review"]
LEVEL_PRIORITY == [A |-> "none", B |-> "P3", C |-> "P2", D |-> "P1", unknown |-> "none"]

\* The alphabet of the states, for the choice between two of one level.
StateOrder == <<"classicAPI", "deprecated", "noAPI", "notToBeReleased", "released">>
--------------------------------------------------------------------------------
(* The oracle *)

\* The places of the rows a lookup sees; without a type, those of every type that has the name.
ingest(rows, name, type) ==
  {i \in DOMAIN rows : rows[i].name = name /\ rows[i].state # "" /\ type \in {AnyType, rows[i].type}}

informative(e) == e.successors # << >> \/ e.mapping # NoMapping

Unmapped == [successors |-> << >>, mapping |-> NoMapping]

\* The successors, and the kind of mapping they are, are those of the first row that has either.
addEntry(reg, name, type) ==
  LET auth == reg.authoritative
      rows == auth \o reg.fallback
      told == {i \in ingest(rows, name, type) : informative(rows[i])}
  IN  [authStates |-> {auth[i].state : i \in ingest(auth, name, type)},
       fallbackStates |-> {reg.fallback[i].state : i \in ingest(reg.fallback, name, type)},
       successor |-> IF told = {} THEN Unmapped
                     ELSE [successors |-> rows[Min(told)].successors, mapping |-> rows[Min(told)].mapping]]

lowestLevel(states, rank) ==
  LET levels == {STATE_LEVEL[s] : s \in states \cap DOMAIN STATE_LEVEL}
  IN  IF levels = {} THEN "unknown"
      ELSE CHOOSE l \in levels : \A k \in levels : rank[l] <= rank[k]

weakestLevelStrongest(states) == lowestLevel(states, [l \in DOMAIN LEVEL_RANK |-> 0 - LEVEL_RANK[l]])

\* A state the program does not know is left out; none known is no level.
weakestLevel(states) == lowestLevel(states, LEVEL_RANK)

winningState(states, level) ==
  LET at == {i \in DOMAIN StateOrder : StateOrder[i] \in states /\ STATE_LEVEL[StateOrder[i]] = level}
  IN  IF at = {} THEN "none" ELSE StateOrder[Min(at)]

\* The release information wins; the classifications count only where it is silent.
classifyName(reg, name, type) ==
  LET rec == addEntry(reg, name, type)
      states == IF rec.authStates # {} THEN rec.authStates ELSE rec.fallbackStates
      level == weakestLevel(states)
  IN  [level |-> level, state |-> winningState(states, level), grade |-> LEVEL_GRADE[level],
       atc_priority |-> LEVEL_PRIORITY[level],
       successor |-> IF level = "unknown" THEN Unmapped ELSE rec.successor]

\* A write to what is not released weighs more than a read of it, whatever its state.
gradeUsage(reg, name, accessKind, type) ==
  IF classifyName(reg, name, type).level = "A" THEN [level |-> "A", atc_priority |-> "none"]
  ELSE IF accessKind = "write" THEN [level |-> "D", atc_priority |-> "P1"]
  ELSE [level |-> "C", atc_priority |-> "P2"]

successorOf(reg, name, type) == addEntry(reg, name, type).successor
--------------------------------------------------------------------------------
(* The analyser *)

\* One row for a name that has any: the last of the release information, else the first classification.
nameIndex(reg, name) ==
  LET named(rows) == {i \in DOMAIN rows : rows[i].name = name}
      auth == named(reg.authoritative)
      fall == named(reg.fallback)
  IN  IF auth # {} THEN {reg.authoritative[Max(auth)]}
      ELSE IF fall # {} THEN {reg.fallback[Min(fall)]} ELSE {}

\* The row that stands for a name, and what stands for none.
indexed(reg, name) ==
  IF nameIndex(reg, name) = {} THEN [state |-> "unknown", successors |-> << >>]
  ELSE CHOOSE e \in nameIndex(reg, name) : TRUE

RELEASE_STATE_FOR_LEVEL ==
  [A |-> "released", B |-> "deprecated", C |-> "deprecated", D |-> "removed", unknown |-> "unknown"]

TIER_FOR_LEVEL ==
  [A |-> "keep-and-clean", B |-> "re-platform", C |-> "re-platform", D |-> "retire", unknown |-> "unknown"]

\* The state is the oracle's; the successors are those of the one row.
classify(reg, name) ==
  LET oracle == classifyName(reg, name, AnyType)
  IN  [release_state |-> RELEASE_STATE_FOR_LEVEL[oracle.level], oracle_state |-> oracle.state,
       successors |-> indexed(reg, name).successors]

isReleased(reg, name) == classify(reg, name).release_state = "released"

effortTier(reg, name) == TIER_FOR_LEVEL[classifyName(reg, name, AnyType).level]

SEVERITY_GRADE == ("priority-1" :> "blocker") @@ ("priority-2" :> "warning") @@ ("priority-3" :> "advisory") @@ ("info" :> "advisory")

GRADE_PRIORITY == [blocker |-> "P1", warning |-> "P2", advisory |-> "P3", needs_review |-> "none"]

\* A finding of the registry's family is graded by the oracle, unless the oracle has no grade for
\* the object; every other finding by its own severity.
gradeFor(reg, finding) ==
  LET oracle == LEVEL_GRADE[classifyName(reg, finding.referenced_object, AnyType).level]
  IN  IF finding.family = "released-api" /\ finding.referenced_object # NoName /\ oracle # "none"
      THEN oracle ELSE SEVERITY_GRADE[finding.severity]

curateFinding(reg, f) == [grade |-> gradeFor(reg, f), atc_priority |-> GRADE_PRIORITY[gradeFor(reg, f)]]
--------------------------------------------------------------------------------
(* The generation lane *)

classifyRef(reg, name) ==
  LET rec == indexed(reg, name)
  IN  [state |-> rec.state, successor |-> IF rec.successors = << >> THEN NoMapping ELSE Head(rec.successors)]

\* The warnings of the pack: every cited name that is not released, and what to use in its place.
groundReleasedApis(reg, refs) ==
  {[name |-> n, state |-> classifyRef(reg, n).state,
    use |-> IF classifyRef(reg, n).state \in {"deprecated", "classicAPI"} THEN classifyRef(reg, n).successor ELSE NoMapping] :
     n \in {r \in refs : classifyRef(reg, r).state # "released"}}
================================================================================
