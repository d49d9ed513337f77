------------------------------ MODULE Integrations ------------------------------
(***************************************************************************)
(* What comes in from other tools and what goes out to them.  From a       *)
(* vendor's usage export to what the sidecar tells of an object:           *)
(* integrations/usage-export-adapter.js and                                *)
(* sap-adt-sidecar/lib/usage-signal.js.  The merge gate over the verdict   *)
(* files of a review directory: integrations/verdict-schema.js and         *)
(* integrations/ci-gate.js.                                                *)
(*                                                                         *)
(* A day is a number; the cell of an export is a day, or Blank, or a cell  *)
(* that is no day (Garbage).  A row of a usage export is [object, package, *)
(* count, last], an object being its type and name, or Blank; a row of a   *)
(* modification export has an author for the count.                        *)
(*                                                                         *)
(* A directory maps each kind of verdict to a file: Unreadable (none, or   *)
(* no JSON), or the fields the schema and the gate look at.  A field that  *)
(* may have any JSON value is the value if it is a legal one, Absent, or   *)
(* Illegal.                                                                *)
(***************************************************************************)
EXTENDS Integers, Sequences, SequencesExt, FiniteSets

Blank == -1
Garbage == -2
Null == -3

\* A cell that is no day of the calendar is no date.
sapDateToIso(cell) == IF cell \in {Garbage, Blank} THEN Null ELSE cell

\* A row without a name, or whose count is no whole number, is skipped.
mapped(export) == {i \in DOMAIN export : export[i].object # Blank /\ export[i].count # Garbage}

mapUsageRow(raw) ==
  [object |-> raw.object, package |-> raw.package, exec_count |-> raw.count, last_used |-> sapDateToIso(raw.last)]

\* The first row of an object is the one that counts.
adaptUsage(export) ==
  {mapUsageRow(export[i]) :
     i \in {k \in mapped(export) : \A j \in mapped(export) : export[j].object = export[k].object => k <= j}}

\* A modification row needs a name, an author and a day.
adaptModifications(export) ==
  {[object |-> r.object, package |-> r.package, modified_on |-> sapDateToIso(r.last)] :
     r \in {x \in Range(export) : x.object # Blank /\ x.author # Blank /\ sapDateToIso(x.last) # Null}}

NoData == [readable |-> FALSE, valid |-> FALSE, usage |-> {}, measured |-> FALSE]

\* The header fields are the caller's; the schema refuses a row without a name or a count.
validateRuntimeSignals(ds) == \A r \in ds.usage : r.object # Blank /\ r.exec_count >= 0

\* An export that was not given leaves its section out of the dataset.
buildDataset(export, given) ==
  LET ds == [readable |-> TRUE, valid |-> TRUE, measured |-> given, usage |-> IF given THEN adaptUsage(export) ELSE {}]
  IN  [ds EXCEPT !.valid = validateRuntimeSignals(ds)]

DEFAULT_RETIRE_POLICY == [idle_days |-> 2, stale_days |-> 4]

\* A policy file that is absent, unreadable or without a number leaves that number at its default.
resolveRetirePolicy(file) ==
  [f \in DOMAIN DEFAULT_RETIRE_POLICY |-> IF file[f] = Garbage THEN DEFAULT_RETIRE_POLICY[f] ELSE file[f]]

\* A dataset that is absent, unreadable or refused by the schema is no dataset.
loadDataset(file) == IF file.readable /\ file.valid THEN file ELSE NoData

\* No last use is not a long time without use.
classifyUsageRow(row, policy, asOf) ==
  LET days == asOf - row.last_used
  IN  CASE row.last_used = Null -> "unknown"
        [] row.last_used # Null /\ days <= policy.idle_days -> "active"
        [] row.last_used # Null /\ days > policy.idle_days /\ days <= policy.stale_days -> "idle"
        [] OTHER -> "stale"

Selected(row, package) == package = Blank \/ row.package = package

usageResponse(file, policyFile, package, asOf) ==
  LET dataset == loadDataset(file)
      policy == resolveRetirePolicy(policyFile)
  IN  IF ~ dataset.measured THEN [data_available |-> FALSE, executed_objects |-> {}]
      ELSE [data_available |-> TRUE,
            executed_objects |-> {[object |-> r.object, activity |-> classifyUsageRow(r, policy, asOf)] :
                                    r \in {x \in dataset.usage : Selected(x, package)}}]

\* Without a start every modification is listed.
modificationsResponse(mods, package, date_from) ==
  {r \in mods : Selected(r, package) /\ (date_from = Blank \/ r.modified_on >= date_from)}
--------------------------------------------------------------------------------
(* The merge gate *)

Absent == "absent"
Illegal == "illegal"

HARD == {"sap", "clean-core", "security", "diff-review"}

\* A field that must be there, whatever it holds.
requireFields(doc, fields) == \A f \in fields : doc[f] # Absent

badEnum(v) == v = Illegal

\* The verdict names its own gate, says true or false, and its findings are a list of known levels.
passStyle(doc) ==
  /\ doc.gate = "own"
  /\ doc.pass \in {"true", "false"}
  /\ ~ badEnum(doc.findings)

\* Absent and null are told apart for the failing layer only: null is legal.
validateSap(doc) ==
  /\ requireFields(doc, {"verdict", "clean_core_level", "rest"})
  /\ ~ badEnum(doc.verdict)
  /\ doc.failure_layer \notin {Absent, Illegal}
  /\ ~ badEnum(doc.clean_core_level)
  /\ doc.priority1 \in {"empty", "some"}
  /\ doc.priority2 \in {"empty", "some"}
  /\ doc.invariant_diff = "booleans"
  /\ ~ badEnum(doc.published_services)

validateCleanCore(doc) == passStyle(doc) /\ requireFields(doc, {"rest"})

validateSecurity(doc) ==
  /\ passStyle(doc)
  /\ requireFields(doc, {"invariants", "rest"})
  /\ ~ badEnum(doc.invariants)

validateDiff(doc) == passStyle(doc) /\ requireFields(doc, {"rest"})

validateDesign(doc) ==
  /\ requireFields(doc, {"verdict", "scores", "rest"})
  /\ ~ badEnum(doc.verdict)
  /\ ~ badEnum(doc.scores)

validateVerdict(kind, doc) ==
  CASE kind = "sap" -> validateSap(doc)
    [] kind = "clean-core" -> validateCleanCore(doc)
    [] kind = "security" -> validateSecurity(doc)
    [] kind = "design-critique" -> validateDesign(doc)
    [] kind = "diff-review" -> validateDiff(doc)

\* What a well-formed hard verdict blocks by.
refuses(kind, doc) ==
  IF kind = "sap" THEN doc.verdict = "BLOCK" \/ doc.priority1 = "some" \/ doc.priority2 = "some"
  ELSE doc.pass = "false"

\* A hard verdict that is missing or malformed blocks; a design critique that is, is passed over.
evaluateGate(dir) ==
  LET sound(k) == dir[k].readable /\ validateVerdict(k, dir[k])
      design == dir["design-critique"]
      says(v) == sound("design-critique") /\ design.verdict = v
  IN  [pass |-> (\A k \in HARD : sound(k) /\ ~ refuses(k, dir[k])) /\ ~ says("BLOCK"),
       warned |-> says("WARN")]
================================================================================
