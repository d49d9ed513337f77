------------------------------- MODULE Footprint -------------------------------
(***************************************************************************)
(* What the offline lane reads out of a source, and how it compares an     *)
(* original with the artifact generated from it: extract/ast-reader.js,    *)
(* extract/bdef-dcl.js, extract/bundle.js, extract/bundle-diff.js,         *)
(* node/invariants.js and node/parity.js.                                  *)
(*                                                                         *)
(* A source is a record                                                    *)
(*   abap        the statements of its ABAP files, in order                *)
(*   unreadable  whether the ABAP parser gave up on one of them            *)
(*   grants      the GRANT SELECT statements of its access controls        *)
(*   behaviours  its behaviour definitions: entity, authorization mode     *)
(*               (with its scope, or None), whether it is a save boundary  *)
(*               and whether it has a lock or composition edge             *)
(*   bypassed    the CDS entities declared without an authorization check  *)
(* A statement has its parser kind and the features the extractor looks    *)
(* for.  The file texts, their splitting into statements and their hashes  *)
(* are abstracted; the drive step passes every generated file as touched   *)
(* and no analyser graph, so a broken reassembly and a changed edge cannot *)
(* be seen there and have no counterpart here.                             *)
(***************************************************************************)
EXTENDS Integers, Sequences, FiniteSets

None == "none"

SUBRC_LOOKAHEAD == 3

\* Statements that cannot overwrite sy-subrc; the end of a block is none of them.
SUBRC_SAFE == {"Move", "Data", "Write", "Clear", "Comment"}

EXCEPTION_KINDS == {"Catch", "Raise", "Cleanup"}

CFG_BRANCH_KINDS == {"If", "ElseIf", "Else", "When", "Loop", "Do", "While"}

OPEN_KINDS == {"If", "Loop", "Do", "While", "Case", "Try"}

CLOSE_KINDS == {"EndIf", "EndLoop", "EndDo", "EndWhile", "EndCase", "EndTry"}

\* A check counts as evaluated when one of the next three statements reads
\* sy-subrc before anything that may overwrite it.
SubrcWithin(s, i, reach) ==
  \E j \in (i + 1)..Len(s) :
    /\ j <= i + reach
    /\ s[j].subrc
    /\ \A k \in (i + 1)..(j - 1) : s[k].kind \in SUBRC_SAFE

subrcCheckedAfter(s, i) == SubrcWithin(s, i, SUBRC_LOOKAHEAD)

Of(s, kinds) == {i \in DOMAIN s : s[i].kind \in kinds}

Count(s, kinds) == Cardinality(Of(s, kinds))

\* The deepest nesting; a stray end of block does not go below zero.
maxNesting(s) ==
  LET depth[i \in 0..Len(s)] ==
        CASE i = 0 -> 0
          [] i > 0 /\ s[i].kind \in OPEN_KINDS -> depth[i - 1] + 1
          [] i > 0 /\ s[i].kind \in CLOSE_KINDS /\ depth[i - 1] > 0 -> depth[i - 1] - 1
          [] OTHER -> depth[i - 1]
  IN  CHOOSE m \in 0..Len(s) :
        (\E i \in 0..Len(s) : depth[i] = m) /\ (\A i \in 0..Len(s) : depth[i] <= m)

\* An AUTHORITY-CHECK without an ID counts as a check on the empty field.
authChecks(s, i) ==
  LET ids == IF s[i].ids = {} THEN {[field |-> "", dummy |-> FALSE]} ELSE s[i].ids
  IN  {[object |-> s[i].object, field |-> id.field, dummy |-> id.dummy,
        subrc_checked |-> subrcCheckedAfter(s, i)] : id \in ids}

extractAst(src) ==
  LET s == IF src.unreadable THEN << >> ELSE src.abap
  IN  [auth_checks |-> UNION {authChecks(s, i) : i \in Of(s, {"AuthorityCheck"})},
       money_operands |-> {s[i].money : i \in Of(s, {"Data"})} \ {None},
       privileged_sql |-> {s[i].privileged : i \in Of(s, {"Select", "SelectLoop"})} \ {None},
       selects |-> Count(s, {"Select"}),
       eml |-> Count(s, {"ReadEntities", "ModifyEntities"}),
       unreadable |-> src.unreadable,
       commit_work |-> Count(s, {"Commit", "CommitEntities"}),
       exception_paths |-> Count(s, EXCEPTION_KINDS),
       cfg_branches |-> Count(s, CFG_BRANCH_KINDS),
       max_nesting |-> maxNesting(s)]

granted(src) == {g.entity : g \in src.grants}

extractBdefDcl(src) ==
  [dcl_restrictions |->
     {[object |-> g.object, entity |-> g.entity] : g \in {x \in src.grants : x.form = "pfcg_auth"}},
   dcl_grants |-> {[entity |-> g.entity, form |-> g.form] : g \in src.grants},
   auth_bdef |->
     {[entity |-> b.entity, mode |-> b.mode] : b \in {x \in src.behaviours : x.mode # None}},
   save_boundaries |-> Cardinality({b \in src.behaviours : b.saves}),
   privileged_cds |-> {[object |-> e, had_row_auth |-> e \in granted(src)] : e \in src.bypassed}]

\* An ABAP read WITH PRIVILEGED ACCESS is a bypass too; CDS metadata wins.
mergePrivileged(rap, ast) ==
  rap.privileged_cds \cup
  {[object |-> e, had_row_auth |-> \E g \in rap.dcl_grants : g.entity = e] :
     e \in ast.privileged_sql \ {p.object : p \in rap.privileged_cds}}

assembleBundle(src) ==
  LET ast == extractAst(src)
      rap == extractBdefDcl(src)
  IN  [auth_checks |-> ast.auth_checks,
       dcl_restrictions |-> rap.dcl_restrictions,
       dcl_grants |-> rap.dcl_grants,
       auth_bdef |-> rap.auth_bdef,
       commit_work |-> ast.commit_work + rap.save_boundaries,
       declarative_artifacts |->
         rap.save_boundaries + Cardinality(rap.auth_bdef) + Cardinality(rap.dcl_grants)
           + Cardinality({b \in src.behaviours : b.linked}),
       privileged_cds |-> mergePrivileged(rap, ast),
       unreadable |-> ast.unreadable,
       money_operands |-> ast.money_operands,
       selects |-> ast.selects,
       eml |-> ast.eml,
       exception_paths |-> ast.exception_paths,
       cfg_branches |-> ast.cfg_branches,
       max_nesting |-> ast.max_nesting]
--------------------------------------------------------------------------------
(* node/invariants.js: what the artifact may never lose *)

enforced(checks) == {c \in checks : ~ c.dummy}

pairs(checks) == {<<c.object, c.field>> : c \in checks}

objects(rows) == {r.object : r \in rows}

entities(rows) == {r.entity : r \in rows}

\* A check may move to an access control on its object.
lostChecks(b, a) ==
  {c \in enforced(b.auth_checks) :
     /\ <<c.object, c.field>> \notin pairs(enforced(a.auth_checks))
     /\ c.object \notin objects(a.dcl_restrictions)}

\* A restriction may move to a check on its object or to another grant of its entity.
dclLoss(b, a) ==
  {d \in b.dcl_restrictions :
     /\ d.object \notin objects(a.dcl_restrictions) \cup objects(enforced(a.auth_checks))
     /\ d.entity \notin entities(a.dcl_grants)}

bdefLoss(b, a) == {x \in b.auth_bdef : x.entity \notin entities(a.auth_bdef)}

privilegedLoss(b, a) ==
  {c \in a.privileged_cds : c.had_row_auth /\ c.object \notin objects(b.privileged_cds)}

lostScopes(b, a) == lostChecks(b, a) # {} \/ dclLoss(b, a) # {} \/ bdefLoss(b, a) # {} \/ privilegedLoss(b, a) # {}

\* The checks of the original count with the DUMMY ones, those of the artifact
\* without.
auth_delta(b, a) ==
  \/ pairs(b.auth_checks) # pairs(enforced(a.auth_checks))
  \/ objects(b.dcl_restrictions) # objects(a.dcl_restrictions)
  \/ b.privileged_cds # a.privileged_cds
  \/ b.auth_bdef # a.auth_bdef
  \/ b.dcl_grants # a.dcl_grants

violations(b, a) ==
  {v \in {"commit-suppressed", "subrc-unchecked", "extraction-incomplete"} :
     CASE v = "commit-suppressed" -> a.commit_work < b.commit_work
       [] v = "subrc-unchecked" -> \E c \in enforced(a.auth_checks) : ~ c.subrc_checked
       [] v = "extraction-incomplete" -> b.unreadable \/ a.unreadable}

invariantDiff(b, a) ==
  [intact |-> violations(b, a) = {}, lost |-> lostScopes(b, a), auth_delta |-> auth_delta(b, a)]
--------------------------------------------------------------------------------
(* extract/bundle-diff.js and node/parity.js: how far apart they are *)

authObjects(x) == objects(x.auth_checks) \cup objects(x.dcl_restrictions)

\* From an original without declarative artifacts to one that has them, a
\* smaller procedural shape says nothing.
paradigmShift(b, a) == a.declarative_artifacts > 0 /\ b.declarative_artifacts = 0

diffBundles(b, a) ==
  LET comparable(worse) == ~ paradigmShift(b, a) /\ worse
  IN  [money |-> b.money_operands # a.money_operands,
       read_idiom |-> b.selects > a.selects /\ a.eml > b.eml,
       paradigm_shift |-> paradigmShift(b, a),
       auth_vanished |-> authObjects(b) # {} /\ authObjects(a) = {},
       auth_object_changed |-> authObjects(b) # authObjects(a),
       exception_path_dropped |-> comparable(a.exception_paths < b.exception_paths),
       cfg_branch_regression |-> comparable(a.cfg_branches < b.cfg_branches),
       max_nesting_regression |-> comparable(a.max_nesting < b.max_nesting)]

\* The score in hundredths, as the code rounds it.
score(d) ==
  LET kept == 100 - (IF d.auth_object_changed THEN 30 ELSE 0)
                  - (IF d.exception_path_dropped THEN 40 ELSE 0)
                  - (IF d.cfg_branch_regression THEN 20 ELSE 0)
                  - (IF d.max_nesting_regression THEN 15 ELSE 0)
  IN  IF kept < 0 THEN 0 ELSE kept

classifyParity(d) ==
  {c \in {"money", "read-idiom"} : IF c = "money" THEN d.money ELSE d.read_idiom}

band(s, classes) ==
  CASE s < 30 -> "scope_reduced"
    [] s >= 30 /\ s < 70 -> "needs_review"
    [] s >= 70 -> IF classes = {} THEN "PASS_STRUCTURAL" ELSE "equivalent"

parity(d) ==
  CASE d.auth_vanished -> "auth_vanished"
    [] ~ d.auth_vanished /\ d.paradigm_shift /\ score(d) >= 30 -> "needs_review"
    [] OTHER -> band(score(d), classifyParity(d))
================================================================================
