------------------------------- MODULE MCJudging -------------------------------
(***************************************************************************)
(* The judgements of the drive step: bounded inputs, and properties, of    *)
(* what an artifact is compared with, judged by and escalated for.  The    *)
(* sets called Any... are all the inputs of a kind, which the proofs are   *)
(* about.                                                                  *)
(***************************************************************************)
EXTENDS Verdict, MCInputs

Attestations == SUBSET {"auth_equivalence", "parity_equivalence", "artifact_reviewed"}
--------------------------------------------------------------------------------
(* Sources: the bodies of a check, an access control, a behaviour          *)

Stmt(k) == [kind |-> k, subrc |-> FALSE, object |-> "", ids |-> {}, money |-> None, privileged |-> None]

Check(f, dummy) ==
  [Stmt("AuthorityCheck") EXCEPT !.object = "A", !.ids = {[field |-> f, dummy |-> dummy]}]

Asked == [Stmt("If") EXCEPT !.subrc = TRUE]

Bodies ==
  {<< >>,
   <<Check("X", FALSE), Asked>>,
   <<Check("Y", FALSE), Asked>>,
   <<Check("X", FALSE), Asked, Check("Y", FALSE), Stmt("Move"), Asked>>,
   <<Check("X", TRUE)>>,
   <<Check("X", FALSE), Stmt("Call"), Asked>>,
   <<Stmt("Select"), Stmt("Catch"), Stmt("Commit")>>}

Grants == {{}, {[entity |-> "E", form |-> "pfcg_auth", object |-> "A"]}, {[entity |-> "E", form |-> "condition", object |-> None]}}

Behaviours == {{}, {[entity |-> "E", mode |-> "master", saves |-> TRUE, linked |-> FALSE]}}

Source(body, g, b, bypass, unreadable) ==
  [abap |-> body, unreadable |-> unreadable, grants |-> g, behaviours |-> b, bypassed |-> bypass]

Sources ==
  {Source(body, g, b, bypass, u) :
     body \in Bodies, g \in Grants, b \in Behaviours, bypass \in {{}, {"E"}}, u \in {FALSE, TRUE}}

Readable == {s \in Sources : ~ s.unreadable}

Originals == Readable \cup {Source(<<Check("X", FALSE), Asked>>, {}, {}, {}, TRUE)}

AnyStatement ==
  [kind : STRING, subrc : BOOLEAN, object : STRING, ids : SUBSET [field : STRING, dummy : BOOLEAN],
   money : STRING, privileged : STRING]

AnySource ==
  {s \in [abap : Seq(AnyStatement), unreadable : BOOLEAN,
          grants : SUBSET [entity : STRING, form : STRING, object : STRING],
          behaviours : SUBSET [entity : STRING, mode : STRING, saves : BOOLEAN, linked : BOOLEAN],
          bypassed : SUBSET STRING] :
     IsFiniteSet(s.grants) /\ IsFiniteSet(s.behaviours)}

\* The objects a source protects, by an enforced check or by a restriction; the entities it authorizes.
Checked(src) == {c.object : c \in enforced(assembleBundle(src).auth_checks)}

Restricted(src) == {g.object : g \in {x \in src.grants : x.form = "pfcg_auth"}}

Authorized(src) == {b.entity : b \in {x \in src.behaviours : x.mode # None}}

\* Statements that set sy-subrc anew.
Overwriting == {"Call", "Select", "AuthorityCheck"}

\* The check is asked about: one of the next statements reads sy-subrc before it is set anew.
Evaluated(s, i) ==
  \E j \in {i + 1, i + 2, i + 3} \cap DOMAIN s :
    s[j].subrc /\ \A k \in (i + 1)..(j - 1) : s[k].kind \notin Overwriting
--------------------------------------------------------------------------------
(* Checkpoints with every signal missing, good or bad *)

CheckpointsWith(attestations) ==
  [activated : {Missing, "yes"}, unit : {Missing, "green", "red"}, block_reason : {Missing, NO_RELEASED_SUCCESSOR},
   atc_p1 : {Missing, "zero", "some"}, atc_p2 : {Missing, "zero", "some"},
   intact : {Missing, "yes", "no"}, auth_delta : {Missing, "yes"}, lost : {Missing, "no", "yes", "malformed"},
   parity : {Missing, "equivalent", "PASS_STRUCTURAL", "needs_review", "scope_reduced", "auth_vanished"},
   warn : {Missing, "held", "grown"}, attestations : attestations]

Checkpoints == CheckpointsWith({{}, {"auth_equivalence"}, {"parity_equivalence"}})

AnyCheckpoint == CheckpointsWith(SUBSET STRING)

Finding(rule, severity) == [rule_id |-> rule, severity |-> severity, object |-> "O"]

Findings ==
  {Finding("talos-duplicate-block", "priority-3"), Finding("talos-dynamic-where-subquery", "priority-3"),
   Finding(ENGINE_ERROR_RULE_ID, "priority-3"), Finding("other", "priority-2")}

AnyFindings == SUBSET [rule_id : STRING, severity : STRING, object : STRING]

\* What the drive step can hand to the final review.
ReviewedWith(checkpoints, findings) ==
  [cp : {c \in checkpoints : /\ c.activated = Missing /\ c.unit = Missing /\ c.block_reason = Missing
                             /\ c.attestations = {} /\ c.atc_p1 # Missing /\ c.atc_p2 = "zero"
                             /\ c.intact # Missing /\ c.lost \in {"no", "yes"} /\ c.parity # Missing /\ c.warn # Missing},
   findings : findings]

Reviewed == ReviewedWith(Checkpoints, SUBSET Findings)

Fold(in, att) ==
  LET cp == [in.cp EXCEPT !.attestations = att, !.atc_p2 = severe(in.findings, "priority-2")]
      gate == IF cp.warn = "held" THEN {} ELSE {<<"warn-delta-regressed">>}
      folded == applyFinalReview(renderOffline(cp, gate), triageAll(in.findings), att)
  IN  [folded |-> folded, next |-> afterFailure(folded, cp)]

\* The attestation a decision of each kind leaves behind.
Grant(k) ==
  CASE k = "AUTH_EQUIVALENCE" -> "auth_equivalence"
    [] k = "PARITY_REVIEW" -> "parity_equivalence"
    [] k = "UNANALYSABLE_ARTIFACT" -> "artifact_reviewed"
--------------------------------------------------------------------------------
Lines == UNION {[1..n -> {"x", "y", ""}] : n \in 0..3}

Series == UNION {[1..n -> {"pass", "fail"}] : n \in 0..6}

Rows == [id : 1..3, critical : BOOLEAN, opened : 1..2]

UniqueIds(R) == \A x, y \in R : x.id = y.id => x = y

JudgingInputs ==
  [sources |-> [before : Originals, after : Sources],
   lines |-> [before : Lines, after : Lines],
   series |-> Series,
   register |-> [open : {R \in SUBSET Rows : UniqueIds(R)}, max : 0..2],
   review |-> Reviewed,
   checkpoint |-> Checkpoints]

AnyJudging ==
  [sources |-> [before : AnySource, after : AnySource],
   lines |-> [before : Seq(STRING), after : Seq(STRING)],
   series |-> Seq({"pass", "fail"}),
   register |-> [open : {R \in SUBSET [id : Int, critical : BOOLEAN, opened : Int] : IsFiniteSet(R) /\ UniqueIds(R)},
                 max : Nat],
   review |-> ReviewedWith(AnyCheckpoint, AnyFindings),
   checkpoint |-> AnyCheckpoint]

ASSUME JudgingInputsAssumption == \A k \in DOMAIN JudgingInputs : JudgingInputs[k] \subseteq AnyJudging[k]

Given(k, in) ==
  CASE k = "sources" ->
         [judged |-> TRUE,
          passes |-> {att \in Attestations : offlineStep(in.before, in.after, {}, att).provisional}]
    [] k = "checkpoint" -> [judged |-> TRUE, live |-> nodeVerdict(in), offline |-> offlineVerdict(in)]
    [] k = "review" -> [judged |-> TRUE, first |-> Fold(in, {})]
    [] k = "lines" -> [judged |-> TRUE, changed |-> changedLines(in.before, in.after)]
    [] k = "series" -> [judged |-> TRUE, oscillating |-> isOscillating(in)]
    [] k = "register" -> [judged |-> TRUE, surfaced |-> surfaceable(in.open, in.max)]

Weigh == ~ out.judged /\ out' = Given(kind, input) /\ UNCHANGED <<kind, input>>

\* Any input at all.
JudgingSpec ==
  /\ out = Pending /\ kind \in DOMAIN AnyJudging /\ input \in AnyJudging[kind]
  /\ [][Weigh]_inputVars
--------------------------------------------------------------------------------
(***************************************************************************)
(* No attestation buys back a lost protection.  An artifact passes only if *)
(* it protects every object the original checked, every object it          *)
(* restricted (or still grants that entity in some form), and every entity *)
(* whose behaviour it authorized; if it opens no granted entity to reads   *)
(* without a check that were not open before; if both were read to the end *)
(* and it commits no less; and if it evaluates each check it enforces.     *)
(***************************************************************************)
NothingBuysBack ==
  Judged("sources") /\ out.passes # {} =>
    LET before == input.before
        after == input.after
        kept == Checked(after) \cup Restricted(after)
    IN  /\ Checked(before) \subseteq kept
        /\ \A g \in before.grants : g.form = "pfcg_auth" => g.object \in kept \/ g.entity \in granted(after)
        /\ Authorized(before) \subseteq Authorized(after)
        /\ after.bypassed \cap granted(after) \subseteq objects(assembleBundle(before).privileged_cds)
        /\ ~ before.unreadable /\ ~ after.unreadable
        /\ assembleBundle(after).commit_work >= assembleBundle(before).commit_work
        /\ \A i \in Of(after.abap, {"AuthorityCheck"}) :
             \/ after.abap[i].ids # {} /\ \A x \in after.abap[i].ids : x.dummy
             \/ Evaluated(after.abap, i)

(***************************************************************************)
(* An artifact equal to its original, every check of which is enforced and *)
(* evaluated, passes without any attestation.                              *)
(***************************************************************************)
UnchangedOwesNothing ==
  Judged("sources") /\ input.before = input.after /\ ~ input.after.unreadable =>
    \/ {} \in out.passes
    \/ \E c \in assembleBundle(input.after).auth_checks : c.dummy \/ ~ c.subrc_checked

(***************************************************************************)
(* A change from procedural code to behaviours and access controls passes  *)
(* only when a person attested that it is equivalent.                      *)
(***************************************************************************)
ParadigmNeverPassesSilently ==
  Judged("sources") /\ input.before.grants = {} /\ input.before.behaviours = {}
    /\ (input.after.grants # {} \/ \E b \in input.after.behaviours : b.saves \/ b.linked \/ b.mode # None) =>
    \A att \in out.passes : "parity_equivalence" \in att

(***************************************************************************)
(* The offline lane is the live one without the three conjuncts that need  *)
(* a system: what goes GREEN there is PROVISIONAL here, and what is parked *)
(* there is parked here.                                                   *)
(***************************************************************************)
LiveImpliesOffline ==
  Judged("checkpoint") =>
    /\ out.live.verdict = "GREEN" => out.offline.verdict = "PROVISIONAL"
    /\ out.live.verdict = "PARK" => out.offline.verdict = "PARK"

(***************************************************************************)
(* Silence is no evidence: a verdict passes only when every signal it      *)
(* reads was produced, except lost coverage, which must be proven to block;*)
(* and an object is parked only if no signal that was produced is bad.     *)
(***************************************************************************)
SilenceNeverPasses ==
  Judged("checkpoint") =>
    /\ out.offline.verdict = "PROVISIONAL" =>
         /\ Missing \notin {input.atc_p1, input.atc_p2, input.intact, input.parity, input.warn}
         /\ input.parity = "needs_review" => "parity_equivalence" \in input.attestations
         /\ input.auth_delta = "yes" => "auth_equivalence" \in input.attestations
    /\ out.live.verdict = "GREEN" => Missing \notin {input.activated, input.unit}
    /\ out.offline.verdict = "PARK" =>
         /\ "some" \notin {input.atc_p1, input.atc_p2}
         /\ input.intact # "no" /\ input.lost \in {Missing, "no"}
         /\ input.parity \notin {"scope_reduced", "auth_vanished"} /\ input.warn # "grown"

(***************************************************************************)
(* Answering is enough: when the verdict step waits for people, their      *)
(* attestations, and no fewer, make the same artifact pass; otherwise it   *)
(* sends the generator back with a reason to act on, never with nothing.   *)
(***************************************************************************)
AttestingSettles ==
  Judged("review") /\ ~ out.first.folded.provisional =>
    LET next == out.first.next
        owed == {Grant(k) : k \in next.kinds}
    IN  IF next.action = "await_human"
        THEN \A att \in Attestations : Fold(input, att).folded.provisional <=> owed \subseteq att
        ELSE next.findings # {} /\ \A att \in Attestations : ~ Fold(input, att).folded.provisional

(***************************************************************************)
(* Moving lines changes nothing: of equal lines, exactly those the         *)
(* artifact has more of than the original count as changed.                *)
(***************************************************************************)
OnlyNewLinesChange ==
  Judged("lines") =>
    \A line \in Range(input.before \o input.after) \ {""} :
      LET times(s) == Cardinality({i \in DOMAIN s : s[i] = line})
          extra == times(input.after) - times(input.before)
      IN  Cardinality({i \in out.changed : input.after[i] = line}) = IF extra < 0 THEN 0 ELSE extra

(***************************************************************************)
(* Repeating a verdict never makes a steady node swing: after any series,  *)
(* the last verdict given once more leaves it steady, and four more times  *)
(* makes it steady.                                                        *)
(***************************************************************************)
RepeatNeverOscillates ==
  Judged("series") /\ input # << >> =>
    LET passed == input[Len(input)] = "pass"
        again(s) == appendVerdict(s, passed)
    IN  /\ ~ out.oscillating => ~ isOscillating(again(input))
        /\ ~ isOscillating(again(again(again(again(input)))))

(***************************************************************************)
(* A full window shows what holds the run up: a row is left out only for   *)
(* rows that are critical or, when it is not critical itself, older; and   *)
(* no place stays empty while a row waits.                                 *)
(***************************************************************************)
CriticalIsSurfaced ==
  Judged("register") =>
    LET left == input.open \ out.surfaced
    IN  /\ left # {} => Cardinality(out.surfaced) = input.max
        /\ \A x \in left, y \in out.surfaced : x.critical => y.critical /\ y.opened <= x.opened

(***************************************************************************)
(* A verdict rests on evidence, and on nothing else: it is withheld for a  *)
(* loss or a silence, given when an attested artifact is enough, not       *)
(* swayed by moved lines or by asking twice, and what it raises reaches a  *)
(* person by its weight.                                                   *)
(***************************************************************************)
VerdictRestsOnEvidence ==
  /\ NothingBuysBack
  /\ UnchangedOwesNothing
  /\ ParadigmNeverPassesSilently
  /\ LiveImpliesOffline
  /\ SilenceNeverPasses
  /\ AttestingSettles
  /\ OnlyNewLinesChange
  /\ RepeatNeverOscillates
  /\ CriticalIsSurfaced
================================================================================
