--------------------------------- MODULE MCRelease ---------------------------------
(***************************************************************************)
(* The judgements on the way in and out of a program of work, over every   *)
(* input of a bounded size: what the registries say of a name, what a      *)
(* usage export says of an object and what the merge gate lets through.    *)
(* Each kind of input is bounded for TLC; the proofs are about all of its  *)
(* inputs, which are the sets called Any...                                *)
(***************************************************************************)
EXTENDS MCInputs, Registry, Integrations

Row(name, type, state, told) ==
  [name |-> name, type |-> type, state |-> state, successors |-> told[1], mapping |-> told[2]]

Tellings == {<< << >>, NoMapping>>, << <<"S">>, "oneObject">>, << << >>, "concept">>}

AuthoritativeRows ==
  {Row("N", t, s, w) : t \in {"DOMA", "DTEL"}, s \in {"released", "deprecated", "notToBeReleased", "other"}, w \in Tellings}

FallbackRows ==
  {Row(n, "DOMA", s, w) : n \in {"N", "O"}, s \in {"classicAPI", "noAPI"}, w \in Tellings \ {<< << >>, "concept">>}}

\* What is asked: what the two files say of some names, for some types.
Asking(auth, fall) ==
  [reg : [authoritative : SeqOf(AuthoritativeRows, auth), fallback : SeqOf(FallbackRows, fall)],
   names : {{"N", "M"}}, types : {{AnyType, "DOMA", "DTEL"}}]

Registries == Asking(2, 1) \cup Asking(1, 2)

AnyRow == [name : STRING, type : STRING, state : STRING, successors : Seq(STRING), mapping : STRING]

AnyRegistry ==
  [reg : [authoritative : Seq(AnyRow), fallback : Seq(AnyRow)], names : SUBSET (STRING \ {NoName}), types : SUBSET STRING]

Severities == DOMAIN SEVERITY_GRADE

RegistryFinding(name, severity) == [family |-> "released-api", referenced_object |-> name, severity |-> severity]
--------------------------------------------------------------------------------
ExportRows == [object : {1, 2, Blank}, package : {1, 2}, count : {3, Garbage}, last : {Blank, Garbage, 3, 9}]

ModRows == [object : {1}, package : {1}, author : {Blank, 1}, last : {Garbage, 3, 9}]

PolicyFiles == [idle_days : {1, 7, Garbage}, stale_days : {6, Garbage}]

Usages(exports, mods, files, packages, starts) ==
  [export : exports, mods : mods, file : files, policy : PolicyFiles, package : packages, since : starts, today : {10}]

UsageInputs ==
  Usages(SeqOf(ExportRows, 2), {<< >>}, {"usage"}, {Blank, 1}, {Blank, 5})
    \cup Usages(SeqOf(ExportRows, 1), SeqOf(ModRows, 1), {"usage"}, {Blank, 1}, {Blank, 5})
    \cup Usages(SeqOf(ExportRows, 1), {<< >>}, {"none", "refused", "unmeasured"}, {Blank}, {Blank})

Cells == Nat \cup {Blank, Garbage}

AnyUsage ==
  [export : Seq([object : Cells, package : Cells, count : Nat \cup {Garbage}, last : Cells]),
   mods : Seq([object : Cells, package : Cells, author : Cells, last : Cells]),
   file : {"usage", "none", "refused", "unmeasured"},
   policy : [DOMAIN DEFAULT_RETIRE_POLICY -> Nat \cup {Garbage}], package : Cells, since : Cells, today : Nat]

Dataset(in) ==
  IF in.file = "refused" THEN [buildDataset(in.export, TRUE) EXCEPT !.valid = FALSE]
  ELSE IF in.file = "none" THEN NoData
  ELSE buildDataset(in.export, in.file = "usage")
--------------------------------------------------------------------------------
SapVerdicts ==
  [readable : {TRUE}, verdict : {"PASS", "WARN", "BLOCK", Absent, Illegal},
   failure_layer : {"null", "atc", Absent, Illegal}, clean_core_level : {"A", "not-A", Absent, Illegal},
   priority1 : {"empty", "some", Absent, Illegal}, priority2 : {"empty", "some", Absent, Illegal},
   invariant_diff : {"booleans", Illegal}, published_services : {"listed", Absent, Illegal}, rest : {"there", Absent}]

PassVerdicts ==
  [readable : {TRUE}, gate : {"own", "foreign"}, pass : {"true", "false", Absent, Illegal},
   findings : {"listed", Absent, Illegal}, invariants : {"all", Absent, Illegal}, rest : {"there", Absent}]

Critiques == [readable : {TRUE}, verdict : {"PASS", "WARN", "BLOCK", Absent, Illegal},
              scores : {"scored", Illegal}, rest : {"there", Absent}]

Unreadable == [readable |-> FALSE]

SapClean ==
  [readable |-> TRUE, verdict |-> "PASS", failure_layer |-> "null", clean_core_level |-> "A", priority1 |-> "empty",
   priority2 |-> "empty", invariant_diff |-> "booleans", published_services |-> Absent, rest |-> "there"]

PassClean == [readable |-> TRUE, gate |-> "own", pass |-> "true", findings |-> Absent, invariants |-> "all", rest |-> "there"]

Dir(sap, core, security, diff, design) ==
  ("sap" :> sap) @@ ("clean-core" :> core) @@ ("security" :> security) @@ ("diff-review" :> diff)
    @@ ("design-critique" :> design)

\* Every verdict of one kind beside clean ones, and every mixture of the usual ones.
Usual == {PassClean, Unreadable, [PassClean EXCEPT !.pass = "false"], [PassClean EXCEPT !.pass = Illegal]}

Directories ==
  {Dir(s, PassClean, PassClean, PassClean, Unreadable) : s \in SapVerdicts}
    \cup {Dir(SapClean, PassClean, p, PassClean, d) : p \in PassVerdicts, d \in Critiques}
    \cup {Dir(s, c, p, r, Unreadable) : s \in {SapClean, Unreadable}, c \in Usual, p \in Usual, r \in Usual}

\* Each file is unreadable, or holds any verdict of its kind.
AnyDirectory ==
  {d \in [HARD \cup {"design-critique"} -> {Unreadable} \cup SapVerdicts \cup PassVerdicts \cup Critiques] :
     /\ d["sap"] \in {Unreadable} \cup SapVerdicts
     /\ \A k \in HARD \ {"sap"} : d[k] \in {Unreadable} \cup PassVerdicts
     /\ d["design-critique"] \in {Unreadable} \cup Critiques}

ReleaseInputs == [registry |-> Registries, usage |-> UsageInputs, gate |-> Directories]

AnyRelease == [registry |-> AnyRegistry, usage |-> AnyUsage, gate |-> AnyDirectory]

ASSUME ReleaseInputsAssumption == \A k \in DOMAIN ReleaseInputs : ReleaseInputs[k] \subseteq AnyRelease[k]

AskRegistry(in) ==
  [judged |-> TRUE,
   oracle |-> [n \in in.names |-> [t \in in.types |-> classifyName(in.reg, n, t)]],
   write |-> [n \in in.names |-> [t \in in.types |-> gradeUsage(in.reg, n, "write", t)]],
   read |-> [n \in in.names |-> [t \in in.types |-> gradeUsage(in.reg, n, "read", t)]],
   successor |-> [n \in in.names |-> [t \in in.types |-> successorOf(in.reg, n, t)]],
   released |-> [n \in in.names |-> isReleased(in.reg, n)],
   tier |-> [n \in in.names |-> effortTier(in.reg, n)],
   curated |-> [n \in in.names |-> [s \in Severities |-> curateFinding(in.reg, RegistryFinding(n, s))]],
   pack |-> groundReleasedApis(in.reg, in.names)]

AskUsage(in) ==
  [judged |-> TRUE, usage |-> usageResponse(Dataset(in), in.policy, in.package, in.today),
   mods |-> modificationsResponse(adaptModifications(in.mods), in.package, in.since)]

Release(k, in) ==
  CASE k = "registry" -> AskRegistry(in)
    [] k = "usage" -> AskUsage(in)
    [] k = "gate" -> [judged |-> TRUE, gate |-> evaluateGate(in)]

Judge == ~ out.judged /\ out' = Release(kind, input) /\ UNCHANGED <<kind, input>>

\* Any input at all.
ReleaseSpec ==
  /\ out = Pending /\ kind \in DOMAIN AnyRelease /\ input \in AnyRelease[kind]
  /\ [][Judge]_inputVars
--------------------------------------------------------------------------------
\* What the rows of a file say of a name, for a type or for any: all rows that have a state.
Named(rows, n, t) == {e \in Range(rows) : e.name = n /\ e.state # "" /\ t \in {AnyType, e.type}}

Winning(reg, n, t) ==
  IF Named(reg.authoritative, n, t) # {} THEN Named(reg.authoritative, n, t) ELSE Named(reg.fallback, n, t)

KnownLevels(states) == {STATE_LEVEL[s] : s \in states \cap DOMAIN STATE_LEVEL}

LevelsOf(reg, n, t) == KnownLevels({e.state : e \in Winning(reg, n, t)})

Telling(reg, n, t) ==
  {e \in Named(reg.authoritative, n, t) \cup Named(reg.fallback, n, t) : informative(e)}

\* The file that speaks for a name in the indexes of one row a name.
Speaking(reg, n) ==
  LET named(rows) == {e \in Range(rows) : e.name = n}
  IN  IF named(reg.authoritative) # {} THEN named(reg.authoritative) ELSE named(reg.fallback)

(***************************************************************************)
(* No row is outvoted by a better one.  The oracle's level for a name, of  *)
(* one type or of any, is no better than that of any row of the winning    *)
(* file; the analyser calls released and keepable only what no such row    *)
(* of any type says otherwise of; a finding about a name that the registry *)
(* holds against is no lighter than the worst row; and a write is never    *)
(* graded below a read.                                                    *)
(***************************************************************************)
WeakestRowDecides ==
  Judged("registry") =>
    LET known(n, t) == LevelsOf(input.reg, n, t)
        weight == [none |-> 0, P3 |-> 1, P2 |-> 2, P1 |-> 3]
    IN  \A n \in input.names :
          /\ \A t \in input.types :
               /\ IF known(n, t) = {} THEN out.oracle[n][t].level = "unknown"
                  ELSE \A l \in known(n, t) : LEVEL_RANK[out.oracle[n][t].level] <= LEVEL_RANK[l]
               /\ weight[out.read[n][t].atc_priority] <= weight[out.write[n][t].atc_priority]
               /\ out.write[n][t].atc_priority = "none" => known(n, t) = {"A"}
          /\ out.released[n] \/ out.tier[n] = "keep-and-clean" => known(n, AnyType) = {"A"}
          /\ \A s \in Severities, l \in known(n, AnyType) \ {"A"} :
               weight[out.curated[n][s].atc_priority] >= weight[LEVEL_PRIORITY[l]]

(***************************************************************************)
(* A replacement is advised whenever some row knows one, and as one row    *)
(* publishes it: the successors of one row are never read with the mapping *)
(* of another, which may say that there is no single successor.            *)
(***************************************************************************)
SuccessorsAreOneRows ==
  Judged("registry") =>
    \A n \in input.names, t \in input.types :
      IF Telling(input.reg, n, t) = {} THEN out.successor[n][t] = Unmapped
      ELSE \E e \in Telling(input.reg, n, t) :
             out.successor[n][t] = [successors |-> e.successors, mapping |-> e.mapping]

(***************************************************************************)
(* The generator is warned of every name it cites that no release          *)
(* information clears: a name goes unmentioned only if a row of the file   *)
(* that speaks for it calls it released.  A name in neither file is always *)
(* mentioned, and what a warning tells to use is what a row of that name   *)
(* and state lists first.                                                  *)
(***************************************************************************)
PackClearsOnlyReleased ==
  Judged("registry") =>
    /\ \A n \in input.names :
         /\ Speaking(input.reg, n) = {} => \E w \in out.pack : w.name = n /\ w.state = "unknown"
         /\ (~ \E w \in out.pack : w.name = n) => \E e \in Speaking(input.reg, n) : e.state = "released"
    /\ \A w \in out.pack : w.use # NoMapping =>
         /\ w.state \in {"deprecated", "classicAPI"}
         /\ \E e \in Speaking(input.reg, w.name) :
              e.state = w.state /\ e.successors # << >> /\ w.use = Head(e.successors)

(***************************************************************************)
(* An object is called stale on evidence only: some row of the export      *)
(* names a real day for it, further back than both limits of the policy in *)
(* force.  An object has one answer; without a usable dataset it has none; *)
(* and a modification is listed with the real day of one.                  *)
(***************************************************************************)
NeverStaleBySilence ==
  Judged("usage") =>
    LET policy == resolveRetirePolicy(input.policy)
        rows(o) == {r \in Range(input.export) : r.object = o}
        told == out.usage.executed_objects
    IN  /\ input.file # "usage" => told = {} /\ ~ out.usage.data_available
        /\ \A e \in told :
             /\ e.activity = "stale" =>
                  \E r \in rows(e.object) : /\ r.last \notin {Blank, Garbage}
                                            /\ input.today - r.last > policy.idle_days
                                            /\ input.today - r.last > policy.stale_days
             /\ (\A r \in rows(e.object) : r.last \in {Blank, Garbage}) => e.activity = "unknown"
             /\ \A f \in told : f.object = e.object => f = e
        /\ \A m \in out.mods : m.modified_on \notin {Blank, Garbage} /\ \E r \in Range(input.mods) : r.last = m.modified_on

(***************************************************************************)
(* The gate fails closed: it lets a change through only if all four hard   *)
(* verdicts are there, each is its own gate's, and each positively says    *)
(* that nothing blocks; and never against a critique that is well formed.  *)
(***************************************************************************)
GateFailsClosed ==
  Judged("gate") /\ out.gate.pass =>
    LET sap == input["sap"]
        design == input["design-critique"]
    IN  /\ \A k \in HARD : input[k].readable
        /\ sap.verdict \in {"PASS", "WARN"} /\ sap.priority1 = "empty" /\ sap.priority2 = "empty"
        /\ sap.invariant_diff = "booleans"
        /\ \A k \in HARD \ {"sap"} : input[k].gate = "own" /\ input[k].pass = "true" /\ input[k].findings # Illegal
        /\ design.readable /\ validateDesign(design) => design.verdict # "BLOCK"

(***************************************************************************)
(* Nothing is presumed: a name is released, an object stale and a change   *)
(* let through only on a positive statement of the data that are there,    *)
(* and the worst statement counts.                                         *)
(***************************************************************************)
NothingIsPresumed ==
  /\ WeakestRowDecides
  /\ SuccessorsAreOneRows
  /\ PackClearsOnlyReleased
  /\ NeverStaleBySilence
  /\ GateFailsClosed
================================================================================
