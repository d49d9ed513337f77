-------------------------------- MODULE Verdict --------------------------------
(***************************************************************************)
(* What is decided from the evidence: node/verdict.js,                     *)
(* node/offline-checkpoint.js, node/final-review.js, node/rule-gate.js,    *)
(* node/risk-evidence.js, exception/risk-gate.js, exception/oscillation.js *)
(* and the deciding parts of sched/verdict-ops.js, sched/drive.js and      *)
(* exception/escalation-bus.js.                                            *)
(*                                                                         *)
(* A checkpoint is a record whose fields may be Missing, which is how a    *)
(* signal nobody produced reaches a verdict; a field that is present but   *)
(* malformed has a value of its own.  Counts are "zero" or "some", a blast *)
(* radius is "within" the threshold or "beyond" it.                        *)
(***************************************************************************)
EXTENDS Footprint, TLC, Functions

Missing == "missing"

NO_RELEASED_SUCCESSOR == "NO_RELEASED_SUCCESSOR"

PASS_PARITY == {"equivalent", "PASS_STRUCTURAL"}

passesParity(cp) ==
  cp.parity \in PASS_PARITY \/ (cp.parity = "needs_review" /\ "parity_equivalence" \in cp.attestations)

passesAuth(cp) == cp.auth_delta # "yes" \/ "auth_equivalence" \in cp.attestations

\* A signal that is present and not good; a Missing one is no defect.
defect(signal, good) == signal # Missing /\ signal # good

\* The defects that both lanes look for.
sharedDefect(cp) ==
  \/ defect(cp.intact, "yes")
  \/ defect(cp.lost, "no")
  \/ defect(cp.atc_p1, "zero")
  \/ defect(cp.atc_p2, "zero")
  \/ cp.parity # Missing /\ ~ passesParity(cp)
  \/ ~ passesAuth(cp)
  \/ defect(cp.warn, "held")

hasDefect(cp) == sharedDefect(cp) \/ defect(cp.unit, "green")

\* The reasons both lanes give.  Lost coverage is the one conjunct that must
\* be proven to block.
sharedReasons(cp) ==
  {r \in {"atc-p1-nonzero", "atc-p2-nonzero", "p4-invariant-broken", "auth-coverage-lost",
          "auth-delta-unattested", "parity-not-equivalent", "warn-delta-regressed"} :
     CASE r = "atc-p1-nonzero" -> cp.atc_p1 # "zero"
       [] r = "atc-p2-nonzero" -> cp.atc_p2 # "zero"
       [] r = "p4-invariant-broken" -> cp.intact # "yes"
       [] r = "auth-coverage-lost" -> cp.lost = "yes"
       [] r = "auth-delta-unattested" -> ~ passesAuth(cp)
       [] r = "parity-not-equivalent" -> ~ passesParity(cp)
       [] r = "warn-delta-regressed" -> cp.warn # "held"}

liveReasons(cp) ==
  {r \in {"not-activated-or-reconciled", "unit-not-green"} :
     CASE r = "not-activated-or-reconciled" -> cp.activated # "yes"
       [] r = "unit-not-green" -> cp.unit # "green"}
  \cup sharedReasons(cp)

decided(reasons, pass) ==
  [verdict |-> IF reasons = {} THEN pass ELSE "BLOCK", reasons |-> reasons]

parked == [verdict |-> "PARK", reasons |-> {NO_RELEASED_SUCCESSOR}]

nodeVerdict(cp) ==
  IF cp.block_reason = NO_RELEASED_SUCCESSOR /\ ~ hasDefect(cp)
  THEN parked
  ELSE decided(liveReasons(cp), "GREEN")

offlineVerdict(cp) ==
  IF cp.block_reason = NO_RELEASED_SUCCESSOR /\ ~ sharedDefect(cp)
  THEN parked
  ELSE decided(sharedReasons(cp), "PROVISIONAL")
--------------------------------------------------------------------------------
(* The evidence the offline lane produces *)

severe(findings, severity) == IF \E f \in findings : f.severity = severity THEN "some" ELSE "zero"

yesNo(b) == IF b THEN "yes" ELSE "no"

offlineCheckpoint(before, after, findings, attestations) ==
  LET b == assembleBundle(before)
      a == assembleBundle(after)
      inv == invariantDiff(b, a)
  IN  [activated |-> Missing, unit |-> Missing, block_reason |-> Missing,
       atc_p1 |-> severe(findings, "priority-1"),
       atc_p2 |-> severe(findings, "priority-2"),
       intact |-> yesNo(inv.intact), auth_delta |-> yesNo(inv.auth_delta), lost |-> yesNo(inv.lost),
       parity |-> parity(diffBundles(b, a)),
       warn |-> "held",
       attestations |-> attestations]

\* The lines of the artifact that are not in the original, as a multiset: each
\* line uses up one equal line; blank lines count for nothing.
changedLines(before, after) ==
  LET seen(line, s, n) == Cardinality({i \in 1..n : s[i] = line})
  IN  {i \in DOMAIN after :
         after[i] # "" /\ seen(after[i], after, i) > seen(after[i], before, Len(before))}

\* What the verdict step hands on: reasons of the gate and of the verdict.
renderOffline(cp, gateReasons) ==
  LET v == offlineVerdict(cp)
  IN  [provisional |-> gateReasons = {} /\ v.verdict = "PROVISIONAL",
       reasons |-> gateReasons \cup {<<r>> : r \in v.reasons}]
--------------------------------------------------------------------------------
(* The final review of what was generated *)

\* The action for each rule; every other rule is "recommend".
TRIAGE_TABLE ==
  [r \in {"talos-cc-001-obsolete-arithmetic", "talos-duplicate-block",
          "talos-cloud-005-class-final-abstract", "talos-rap-draft-action-no-optimized"} |-> "fix"]
  @@ [r \in {"talos-perf-73-eml-local-mode", "talos-eml-local-mode-outside-test",
             "talos-dynamic-where-subquery", "talos-cds-auth-not-required"} |-> "document"]

ENGINE_ERROR_RULE_ID == "abaplint_engine_error"

triage(f) == IF f.rule_id \in DOMAIN TRIAGE_TABLE THEN TRIAGE_TABLE[f.rule_id] ELSE "recommend"

triageAll(findings) ==
  [action \in {"fix", "document", "recommend"} |-> {f \in findings : triage(f) = action}]

\* A reason is a tuple: its name and, for these two, its rule or its object.
fixReasons(fix) == {<<"final-review-fix", f.rule_id>> : f \in fix}

unanalysableReasons(findings) ==
  {<<"final-review-unanalysable", f.object>> : f \in {x \in findings : x.rule_id = ENGINE_ERROR_RULE_ID}}

applyFinalReview(result, triaged, attestations) ==
  LET unanalysable ==
        IF "artifact_reviewed" \in attestations THEN {}
        ELSE unanalysableReasons(UNION {triaged[x] : x \in DOMAIN triaged})
      contributed == fixReasons(triaged["fix"]) \cup unanalysable
  IN  [provisional |-> result.provisional /\ contributed = {},
       reasons |-> result.reasons \cup contributed]

\* Which reasons a human may answer, and with what.
escalationOf(reason, cp) ==
  CASE reason[1] = "auth-delta-unattested" -> {"AUTH_EQUIVALENCE"}
    [] reason[1] = "parity-not-equivalent" /\ cp.parity = "needs_review" -> {"PARITY_REVIEW"}
    [] reason[1] = "final-review-unanalysable" -> {"UNANALYSABLE_ARTIFACT"}
    [] OTHER -> {}

afterFailureAny(folded, cp) ==
  LET owed == UNION {escalationOf(r, cp) : r \in folded.reasons}
  IN  IF owed # {}
      THEN [action |-> "await_human", kinds |-> owed, findings |-> {}]
      ELSE [action |-> "generate", kinds |-> {}, findings |-> folded.reasons]

\* The verdict step's choice for a node that did not pass: wait for the humans
\* when every reason is theirs to answer, else write the code again.
afterFailure(folded, cp) ==
  LET owed == UNION {escalationOf(r, cp) : r \in folded.reasons}
      onlyAttestable == owed # {} /\ \A r \in folded.reasons : escalationOf(r, cp) # {}
  IN  IF onlyAttestable
      THEN [action |-> "await_human", kinds |-> owed, findings |-> {}]
      ELSE [action |-> "generate", kinds |-> {}, findings |-> folded.reasons]

\* The whole verdict step over two sources.
offlineStep(before, after, findings, attestations) ==
  LET cp == offlineCheckpoint(before, after, findings, attestations)
  IN  applyFinalReview(renderOffline(cp, {}), triageAll(findings), attestations)
--------------------------------------------------------------------------------
(* Oscillation, the risk of a wave and the surfacing of escalations *)

WINDOW == 5

FLIP_THRESHOLD == 2

\* The last WINDOW verdicts of a series.
lastOf(s) == SubSeq(s, IF Len(s) > WINDOW THEN Len(s) - WINDOW + 1 ELSE 1, Len(s))

appendVerdict(series, passed) == lastOf(Append(series, IF passed THEN "pass" ELSE "fail"))

isOscillating(series) ==
  LET w == lastOf(series)
  IN  Cardinality({i \in 2..Len(w) : w[i] # w[i - 1]}) >= FLIP_THRESHOLD

\* One escalation for each failing rule and shared dependency.
clusterOscillations(nodes) ==
  LET swinging == {n \in nodes : isOscillating(n.verdicts)}
  IN  {[root |-> <<n.top_fail, n.shared_dep>>,
        sigs |-> {m.sig : m \in {x \in swinging : x.top_fail = n.top_fail /\ x.shared_dep = n.shared_dep}}] :
       n \in swinging}

\* Why a node of a finished wave needs a look; every unknown is a reason.
levelFlags(n) ==
  \/ n.atc_p1 # "zero" \/ n.atc_p2 # "zero"
  \/ n.parity \notin PASS_PARITY
  \/ n.touches_ddic # "no" \/ n.touches_invariant # "no"
  \/ n.touches_data_source # "no" \/ n.touches_money # "no"
  \/ n.blast_total # "within"

levelDisposition(nodes) ==
  IF \E n \in nodes : levelFlags(n) THEN "REVIEW" ELSE "AUTO"

\* What the verdict step records of a node for its wave.
riskEvidence(b, a, touchesDdic, blast) ==
  LET inv == invariantDiff(b, a)
  IN  [atc_p1 |-> Missing, atc_p2 |-> Missing, parity |-> Missing,
       touches_ddic |-> yesNo(touchesDdic),
       touches_invariant |-> yesNo(inv.auth_delta \/ ~ inv.intact),
       touches_data_source |-> yesNo(b.selects # a.selects),
       touches_money |-> yesNo(b.money_operands # a.money_operands),
       blast_total |-> blast]

waveRisk(peers, rested) ==
  IF \A n \in peers : n.sig \in rested THEN levelDisposition(peers) ELSE None

goesFirst(x, y) ==
  \/ x.critical /\ ~ y.critical
  \/ x.critical = y.critical /\ (x.opened < y.opened \/ (x.opened = y.opened /\ x.id < y.id))

\* The rows shown: critical ones first, then the oldest.
surfaceable(open, max) ==
  {e \in open : Cardinality({x \in open : goesFirst(x, e)}) < max}
================================================================================
