--------------------------- MODULE Attestation_proofs ---------------------------
(***************************************************************************)
(* Proofs about the attestation join: for every set of runs, every         *)
(* assignment of nodes to plans and every bound, the join answers with the *)
(* last word, a pass on record was attested, and no question is open twice. *)
(***************************************************************************)
EXTENDS Attestation, SequenceTheorems, TLAPS

-------------------------------------------------------------------------------
\* The register under its two changes.

LEMMA AppendedRow ==
  ASSUME NEW rows \in Seq(Rows), NEW row \in Rows
  PROVE  /\ Append(rows, row) \in Seq(Rows)
         /\ DOMAIN Append(rows, row) = DOMAIN rows \cup {Len(rows) + 1}
         /\ Len(rows) + 1 \notin DOMAIN rows
         /\ \A i \in DOMAIN rows : Append(rows, row)[i] = rows[i]
         /\ Append(rows, row)[Len(rows) + 1] = row
<1>1. Len(rows) \in Nat /\ DOMAIN rows = 1..Len(rows)
  BY LenProperties
<1> QED
  BY <1>1, AppendProperties

LEMMA ReplacedRow ==
  ASSUME NEW rows \in Seq(Rows), NEW i \in DOMAIN rows, NEW row \in Rows
  PROVE  /\ [rows EXCEPT ![i] = row] \in Seq(Rows)
         /\ DOMAIN [rows EXCEPT ![i] = row] = DOMAIN rows
         /\ \A j \in DOMAIN rows :
              [rows EXCEPT ![i] = row][j] = IF j = i THEN row ELSE rows[j]
BY ExceptSeq

\* A new question, not open already.
Raises(nodes) ==
  /\ nodes \in SUBSET Node
  /\ ~ \E i \in DOMAIN register : Open(i) /\ register[i].nodes = nodes
  /\ NewRow(nodes)

\* What a step of a run does to the register.
LEMMA RegisterSteps ==
  ASSUME TypeOK, NEW r \in Run, RunStep(r)
  PROVE  \/ UNCHANGED <<register, lastWord>> /\ clock' \in {clock, clock + 1}
         \/ /\ \E nodes \in SUBSET Node : Raises(nodes)
            /\ UNCHANGED <<epoch, generation, verdict>>
         \/ \E i \in DOMAIN register, decision \in Decisions :
              Decide(r, i, decision)
<1>1. ASSUME NEW nodes \in SUBSET Node, Raise(nodes)
      PROVE  UNCHANGED <<register, lastWord, clock>> \/ Raises(nodes)
  BY <1>1 DEF Raise, Raises
<1>2. CASE RaiseOwed(r)
  BY <1>1, <1>2 DEF RaiseOwed, TypeOK
<1>3. ASSUME NEW nodes \in SUBSET Node, Escalate(r, nodes)
      PROVE  \/ UNCHANGED <<register, lastWord, clock>>
             \/ Raises(nodes) /\ UNCHANGED <<epoch, generation, verdict>>
  BY <1>1, <1>3 DEF Escalate
<1> QED
  BY <1>2, <1>3 DEF RunStep, Replan, Generate, VerdictStep, Crash

-------------------------------------------------------------------------------
\* Types.

LEMMA RaisesType ==
  ASSUME TypeOK, NEW nodes, Raises(nodes)
  PROVE  /\ RaisedRow(nodes) \in Rows
         /\ register' = Append(register, RaisedRow(nodes))
         /\ register \in Seq(Rows)
         /\ clock' = clock + 1
BY AttestationAssumption
   DEF TypeOK, Raises, NewRow, RaisedRow, Row, Rows, Artifacts

LEMMA DecideType ==
  ASSUME TypeOK, NEW r \in Run, NEW i \in DOMAIN register,
         NEW decision \in Decisions, Decide(r, i, decision)
  PROVE  /\ register[i] \in Rows
         /\ DecidedRow(r, i, decision) \in Rows
         /\ register' = [register EXCEPT ![i] = DecidedRow(r, i, decision)]
         /\ register \in Seq(Rows)
         /\ clock' = clock + 1
<1>1. register[i] \in Rows
  <2>1. register \in Seq(Rows)
    BY DEF TypeOK
  <2>2. i \in 1..Len(register)
    BY <2>1, LenProperties
  <2> QED
    BY <2>1, <2>2, ElementOfSeq
<1>2. DecidedRow(r, i, decision) \in Rows
  BY <1>1 DEF TypeOK, DecidedRow, Row, Rows
<1> QED
  BY <1>1, <1>2 DEF TypeOK, Decide

\* A raise appends, and a decision replaces, one row.
LEMMA RaiseAppends ==
  ASSUME TypeOK, NEW nodes, Raises(nodes), NEW k, k = Len(register) + 1
  PROVE  /\ DOMAIN register' = DOMAIN register \cup {k}
         /\ k \notin DOMAIN register
         /\ \A i \in DOMAIN register : register'[i] = register[i]
         /\ register'[k] = RaisedRow(nodes)
<1>1. /\ RaisedRow(nodes) \in Rows /\ register \in Seq(Rows)
      /\ register' = Append(register, RaisedRow(nodes))
  BY RaisesType
<1> QED
  BY <1>1, AppendedRow

LEMMA DecideReplaces ==
  ASSUME TypeOK, NEW r \in Run, NEW i \in DOMAIN register,
         NEW decision \in Decisions, Decide(r, i, decision)
  PROVE  /\ DOMAIN register' = DOMAIN register
         /\ \A j \in DOMAIN register : j # i => register'[j] = register[j]
         /\ register'[i] = DecidedRow(r, i, decision)
<1>1. /\ DecidedRow(r, i, decision) \in Rows /\ register \in Seq(Rows)
      /\ register' = [register EXCEPT ![i] = DecidedRow(r, i, decision)]
  BY DecideType
<1> QED
  BY <1>1, ReplacedRow

\* What a step of a run does to the runs.
LEMMA RunFieldSteps ==
  ASSUME NEW r \in Run, RunStep(r)
  PROVE  \/ /\ UNCHANGED <<epoch, generation, verdict>>
            /\ owing' = owing \/ owing' = [owing EXCEPT ![r] = {}]
         \/ Replan(r)
         \/ \E n \in Node : Generate(r, n) \/ VerdictStep(r, n)
BY DEF RunStep, RaiseOwed, Crash, Escalate, Decide

LEMMA TypeStep ==
  ASSUME TypeOK, NEW r \in Run, RunStep(r)
  PROVE  TypeOK'
<1> DEFINE RegisterOK == /\ register' \in Seq(Rows)
                         /\ clock' \in Nat
                         /\ lastWord' \in [Node -> Words]
<1>1. RegisterOK
  <2>1. CASE UNCHANGED <<register, lastWord>> /\ clock' \in {clock, clock + 1}
    BY <2>1 DEF TypeOK
  <2>2. ASSUME NEW nodes \in SUBSET Node, Raises(nodes) PROVE RegisterOK
    <3>1. Word("RAISE", NoRun, 0, 0) \in Words
      BY AttestationAssumption DEF Word, Words
    <3>2. lastWord' \in [Node -> Words]
      BY <2>2, <3>1 DEF Raises, NewRow, TypeOK
    <3>3. register' \in Seq(Rows)
      BY <2>2, RaisesType, AppendedRow
    <3> QED
      BY <2>2, <3>2, <3>3, RaisesType DEF TypeOK
  <2>3. ASSUME NEW i \in DOMAIN register, NEW decision \in Decisions,
               Decide(r, i, decision)
        PROVE  RegisterOK
    <3>1. \A n \in Node : Word(decision, r, epoch[r], generation[r][n]) \in Words
      BY DEF Word, Words, TypeOK, Artifacts
    <3>2. lastWord' \in [Node -> Words]
      BY <2>3, <3>1 DEF Decide, TypeOK
    <3>3. register' \in Seq(Rows)
      BY <2>3, DecideType, ReplacedRow
    <3> QED
      BY <2>3, <3>2, <3>3, DecideType DEF TypeOK
  <2> QED
    BY <2>1, <2>2, <2>3, RegisterSteps
<1> DEFINE RunsOK == /\ epoch' \in [Run -> Nat]
                     /\ generation' \in [Run -> Artifacts]
                     /\ verdict' \in [Run -> [Node -> {"none", "pass", "fail"}]]
                     /\ owing' \in [Run -> SUBSET Node]
<1>2. RunsOK
  <2>1. CASE /\ UNCHANGED <<epoch, generation, verdict>>
             /\ owing' = owing \/ owing' = [owing EXCEPT ![r] = {}]
    BY <2>1 DEF TypeOK
  <2>2. CASE Replan(r)
    BY <2>2, AttestationAssumption DEF Replan, TypeOK, Artifacts
  <2>3. ASSUME NEW n \in Node, Generate(r, n) PROVE RunsOK
    BY <2>3, AttestationAssumption DEF Generate, TypeOK, Artifacts
  <2>4. ASSUME NEW n \in Node, VerdictStep(r, n) PROVE RunsOK
    <3>1. UNCHANGED <<epoch, generation>>
      BY <2>4 DEF VerdictStep
    <3>2. CASE Attested(r, n)
      <4>1. verdict' = [verdict EXCEPT ![r][n] = "pass"] /\ owing' = owing
        BY <2>4, <3>2 DEF VerdictStep
      <4> QED
        BY <3>1, <4>1 DEF TypeOK
    <3>3. CASE ~ Attested(r, n)
      <4>1. /\ verdict' = [verdict EXCEPT ![r][n] = "fail"]
            /\ owing' = [owing EXCEPT ![r] = {n}]
        BY <2>4, <3>3 DEF VerdictStep
      <4> QED
        BY <3>1, <4>1 DEF TypeOK
    <3> QED
      BY <3>2, <3>3
  <2> QED
    BY <2>1, <2>2, <2>3, <2>4, RunFieldSteps
<1> QED
  BY <1>1, <1>2 DEF TypeOK

LEMMA TypeInit == Init => TypeOK
BY EmptySeq, AttestationAssumption DEF Init, TypeOK, Artifacts, Word, Words

\* Every reachable state is well typed.
THEOREM RegisterTypes == Spec => []TypeOK
<1>1. TypeOK /\ [Next]_vars => TypeOK'
  <2>1. TypeOK /\ UNCHANGED vars => TypeOK'
    BY DEF TypeOK, vars
  <2> QED
    BY <2>1, TypeStep DEF Next
<1> QED
  BY <1>1, TypeInit, PTL DEF Spec

-------------------------------------------------------------------------------
\* No storm.

LEMMA NoStormStep ==
  ASSUME TypeOK, NoStorm, NEW r \in Run, RunStep(r)
  PROVE  NoStorm'
<1>1. CASE UNCHANGED register
  BY <1>1 DEF NoStorm, Open
<1>2. ASSUME NEW nodes \in SUBSET Node, Raises(nodes) PROVE NoStorm'
  <2>1. PICK k : k = Len(register) + 1
    OBVIOUS
  <2>2. /\ DOMAIN register' = DOMAIN register \cup {k}
        /\ \A i \in DOMAIN register : register'[i] = register[i]
        /\ register'[k] = RaisedRow(nodes)
    BY <1>2, <2>1, RaiseAppends
  <2>3. \A i \in DOMAIN register : Open(i) => register[i].nodes # nodes
    BY <1>2 DEF Raises
  <2>4. ASSUME NEW i \in DOMAIN register', Open(i)', i # k
        PROVE  i \in DOMAIN register /\ Open(i) /\ register'[i].nodes # nodes
    BY <2>2, <2>3, <2>4 DEF Open
  <2>5. register'[k].nodes = nodes
    BY <2>2 DEF RaisedRow, Row
  <2> QED
    BY <2>2, <2>4, <2>5 DEF NoStorm
<1>3. ASSUME NEW i \in DOMAIN register, NEW decision \in Decisions,
             Decide(r, i, decision)
      PROVE  NoStorm'
  <2>1. /\ DOMAIN register' = DOMAIN register
        /\ \A j \in DOMAIN register : j # i => register'[j] = register[j]
        /\ register'[i] = DecidedRow(r, i, decision)
    BY <1>3, DecideReplaces
  <2>2. register'[i].decision # "OPEN"
    BY <2>1 DEF DecidedRow, Row, Decisions
  <2>3. ASSUME NEW j \in DOMAIN register', Open(j)'
        PROVE  j \in DOMAIN register /\ Open(j) /\ register'[j] = register[j]
    BY <2>1, <2>2, <2>3 DEF Open
  <2> QED
    BY <2>3 DEF NoStorm
<1> QED
  BY <1>1, <1>2, <1>3, RegisterSteps

\* One question is open once (escalation-bus.js, raiseEscalation), whoever
\* raises it and however often.
THEOREM OneQuestionOpenOnce == Spec => []NoStorm
<1>1. Init => NoStorm
  BY DEF Init, NoStorm
<1>2. TypeOK /\ NoStorm /\ [Next]_vars => NoStorm'
  <2>1. NoStorm /\ UNCHANGED vars => NoStorm'
    BY DEF NoStorm, Open, vars
  <2> QED
    BY <2>1, NoStormStep DEF Next
<1> QED
  BY <1>1, <1>2, RegisterTypes, PTL DEF Spec

-------------------------------------------------------------------------------
\* The last word.

\* Events have times of their own, none in the future.
TimesOK ==
  \A i \in DOMAIN register :
    /\ register[i].at <= clock
    /\ \A j \in DOMAIN register : register[i].at = register[j].at => i = j

Latest(i, n) ==
  i \in Naming(n) /\ \A j \in Naming(n) : register[j].at <= register[i].at

\* What the latest event of row i says of node n.
WordOf(i, n) ==
  IF Open(i) THEN Word("RAISE", NoRun, 0, 0)
  ELSE Word(register[i].decision, register[i].run, register[i].epoch,
            register[i].generations[n])

\* The last word on a node is what its latest row says.
WordOK(n) ==
  \/ Naming(n) = {} /\ lastWord[n].what = "none"
  \/ \E i \in Naming(n) : Latest(i, n) /\ lastWord[n] = WordOf(i, n)

WordsOK == TimesOK /\ \A n \in Node : WordOK(n)

\* A raise and a decision are one kind of change: row k, about nodes, gets the
\* latest event, which is the last word on them.
Touch(k, nodes) ==
  /\ k \in DOMAIN register => register[k].nodes = nodes
  /\ DOMAIN register' = DOMAIN register \cup {k}
  /\ \A i \in DOMAIN register \ {k} : register'[i] = register[i]
  /\ register'[k].nodes = nodes
  /\ register'[k].at = clock + 1
  /\ clock' = clock + 1
  /\ \A n \in Node :
       lastWord'[n] = IF n \in nodes THEN WordOf(k, n)' ELSE lastWord[n]

LEMMA RowsTyped ==
  ASSUME TypeOK
  PROVE  \A i \in DOMAIN register : register[i] \in Rows
<1>1. register \in Seq(Rows)
  BY DEF TypeOK
<1> QED
  BY <1>1, LenProperties, ElementOfSeq

LEMMA TouchStep ==
  ASSUME TypeOK, WordsOK, NEW k, NEW nodes, Touch(k, nodes)
  PROVE  WordsOK'
<1>1. \A i \in DOMAIN register : register[i].at \in Nat /\ register[i].at <= clock
  BY RowsTyped DEF Rows, WordsOK, TimesOK
<1>2. clock \in Nat
  BY DEF TypeOK
<1>3. \A i \in DOMAIN register \ {k} :
        register'[i] = register[i] /\ register'[i].at < clock + 1
  BY <1>1, <1>2 DEF Touch
<1>4. TimesOK'
  <2> SUFFICES ASSUME NEW i \in DOMAIN register'
               PROVE  /\ register'[i].at <= clock'
                      /\ \A j \in DOMAIN register' :
                           register'[i].at = register'[j].at => i = j
    BY DEF TimesOK
  <2>1. CASE i = k
    BY <1>2, <1>3, <2>1 DEF Touch
  <2>2. CASE i # k
    <3>1. i \in DOMAIN register
      BY <2>2 DEF Touch
    <3>2. register'[i].at <= clock'
      BY <1>1, <1>2, <2>2, <3>1 DEF Touch
    <3>3. ASSUME NEW j \in DOMAIN register', register'[i].at = register'[j].at
          PROVE  i = j
      <4>1. j # k
        BY <1>1, <1>2, <1>3, <2>2, <3>1, <3>3 DEF Touch
      <4> QED
        BY <1>3, <2>2, <3>1, <3>3, <4>1 DEF Touch, WordsOK, TimesOK
    <3> QED
      BY <3>2, <3>3
  <2> QED
    BY <2>1, <2>2
<1>5. ASSUME NEW n \in Node, n \in nodes PROVE WordOK(n)'
  <2>1. k \in Naming(n)'
    BY <1>5 DEF Touch, Naming
  <2>2. ASSUME NEW j \in Naming(n)' PROVE register'[j].at <= register'[k].at
    <3>1. CASE j = k
      BY <1>2, <3>1 DEF Touch
    <3>2. CASE j # k
      <4>1. j \in DOMAIN register
        BY <3>2 DEF Naming, Touch
      <4> QED
        BY <1>1, <1>2, <1>3, <3>2, <4>1 DEF Touch
    <3> QED
      BY <3>1, <3>2
  <2>3. lastWord'[n] = WordOf(k, n)'
    BY <1>5 DEF Touch
  <2> QED
    BY <2>1, <2>2, <2>3 DEF WordOK, Latest
<1>6. ASSUME NEW n \in Node, n \notin nodes PROVE WordOK(n)'
  <2>1. Naming(n)' = Naming(n) /\ k \notin Naming(n)
    BY <1>6 DEF Touch, Naming
  <2>2. \A i \in Naming(n) : register'[i] = register[i]
    BY <1>3, <2>1 DEF Naming
  <2>3. lastWord'[n] = lastWord[n]
    BY <1>6 DEF Touch
  <2>4. WordOK(n)
    BY DEF WordsOK
  <2>5. CASE Naming(n) = {}
    BY <2>1, <2>3, <2>4, <2>5 DEF WordOK
  <2>6. CASE Naming(n) # {}
    <3>1. PICK i \in Naming(n) : Latest(i, n) /\ lastWord[n] = WordOf(i, n)
      BY <2>4, <2>6 DEF WordOK
    <3>2. Latest(i, n)'
      BY <2>1, <2>2, <3>1 DEF Latest
    <3>3. WordOf(i, n)' = WordOf(i, n)
      BY <2>2 DEF WordOf, Open
    <3> QED
      BY <2>1, <2>3, <3>1, <3>2, <3>3 DEF WordOK
  <2> QED
    BY <2>5, <2>6
<1> QED
  BY <1>4, <1>5, <1>6 DEF WordsOK

LEMMA WordsStep ==
  ASSUME TypeOK, WordsOK, NEW r \in Run, RunStep(r)
  PROVE  WordsOK'
<1>1. CASE UNCHANGED <<register, lastWord>> /\ clock' \in {clock, clock + 1}
  <2>1. \A i \in DOMAIN register : register[i].at \in Nat
    BY RowsTyped DEF Rows
  <2>2. TimesOK'
    BY <1>1, <2>1 DEF WordsOK, TimesOK, TypeOK
  <2>3. \A n \in Node : WordOK(n)'
    BY <1>1 DEF WordsOK, WordOK, Naming, Latest, WordOf, Open
  <2> QED
    BY <2>2, <2>3 DEF WordsOK
<1>2. ASSUME NEW nodes \in SUBSET Node, Raises(nodes) PROVE WordsOK'
  <2>. PICK k : k = Len(register) + 1
    OBVIOUS
  <2>1. /\ DOMAIN register' = DOMAIN register \cup {k} /\ k \notin DOMAIN register
        /\ \A i \in DOMAIN register : register'[i] = register[i]
        /\ register'[k] = RaisedRow(nodes)
        /\ clock' = clock + 1
    BY <1>2, RaiseAppends, RaisesType
  <2>2. \A n \in Node : WordOf(k, n)' = Word("RAISE", NoRun, 0, 0)
    BY <2>1 DEF WordOf, Open, RaisedRow, Row
  <2>3. \A n \in Node :
          lastWord'[n] = IF n \in nodes THEN WordOf(k, n)' ELSE lastWord[n]
    <3>1. lastWord' = [n \in Node |-> IF n \in nodes THEN Word("RAISE", NoRun, 0, 0)
                                      ELSE lastWord[n]]
      BY <1>2 DEF Raises, NewRow
    <3> QED
      BY <2>2, <3>1
  <2>4. Touch(k, nodes)
    BY <2>1, <2>3 DEF Touch, RaisedRow, Row
  <2> QED
    BY <2>4, TouchStep
<1>3. ASSUME NEW i \in DOMAIN register, NEW decision \in Decisions,
             Decide(r, i, decision)
      PROVE  WordsOK'
  <2>1. /\ DOMAIN register' = DOMAIN register
        /\ \A j \in DOMAIN register : j # i => register'[j] = register[j]
        /\ register'[i] = DecidedRow(r, i, decision)
        /\ clock' = clock + 1
    BY <1>3, DecideReplaces, DecideType
  <2>2. \A n \in Node :
          WordOf(i, n)' = Word(decision, r, epoch[r], generation[r][n])
    BY <2>1 DEF WordOf, Open, DecidedRow, Row, Decisions
  <2>3. \A n \in Node :
          lastWord'[n] = IF n \in register[i].nodes THEN WordOf(i, n)'
                         ELSE lastWord[n]
    BY <1>3, <2>2 DEF Decide
  <2>4. Touch(i, register[i].nodes)
    BY <2>1, <2>3 DEF Touch, DecidedRow, Row
  <2> QED
    BY <2>4, TouchStep
<1> QED
  BY <1>1, <1>2, <1>3, RegisterSteps

\* The last word is on record in every reachable state.
LEMMA WordsAlwaysOK == Spec => []WordsOK
<1>1. Init => WordsOK
  BY DEF Init, WordsOK, TimesOK, WordOK, Naming, Word
<1>2. TypeOK /\ WordsOK /\ [Next]_vars => WordsOK'
  <2>1. WordsOK /\ UNCHANGED vars => WordsOK'
    BY DEF WordsOK, TimesOK, WordOK, Naming, Latest, WordOf, Open, vars
  <2> QED
    BY <2>1, WordsStep DEF Next
<1> QED
  BY <1>1, <1>2, RegisterTypes, PTL DEF Spec

\* Times being distinct, the latest row is the one the join looks at.
LEMMA LatestIsUnique ==
  ASSUME TypeOK, TimesOK, NEW n \in Node, NEW i, Latest(i, n)
  PROVE  LatestEvent(n) = i
<1>1. \A j \in Naming(n) : register[j].at \in Nat
  BY RowsTyped DEF Naming, Rows
<1>2. \A j \in Naming(n) :
        (\A m \in Naming(n) : register[m].at <= register[j].at) => j = i
  BY <1>1 DEF Latest, TimesOK, Naming
<1> QED
  BY <1>2 DEF LatestEvent, Latest

\* The join (cli-attest.js, registerAttestation over latestEvent) answers with
\* the last word on the node, in every interleaving of raises and decisions.
THEOREM JoinIsLastWord == Spec => []LastWordCounts
<1>1. TypeOK /\ WordsOK => LastWordCounts
  <2> SUFFICES ASSUME TypeOK, WordsOK, NEW r \in Run, NEW n \in Node
               PROVE  Attested(r, n) <=>
                        lastWord[n] = Word("ATTEST", r, epoch[r], generation[r][n])
    BY DEF LastWordCounts
  <2>1. CASE Naming(n) = {}
    <3>1. lastWord[n].what = "none"
      BY <2>1 DEF WordsOK, WordOK
    <3> QED
      BY <2>1, <3>1 DEF Attested, Word
  <2>2. CASE Naming(n) # {}
    <3>1. PICK i \in Naming(n) : Latest(i, n) /\ lastWord[n] = WordOf(i, n)
      BY <2>2 DEF WordsOK, WordOK
    <3>2. LatestEvent(n) = i
      BY <3>1, LatestIsUnique DEF WordsOK
    <3> QED
      BY <2>2, <3>1, <3>2 DEF Attested, WordOf, Word, Open
  <2> QED
    BY <2>1, <2>2
<1> QED
  BY <1>1, RegisterTypes, WordsAlwaysOK, PTL

-------------------------------------------------------------------------------
\* A pass on record was attested for this artifact of this run.

\* Row i attests the artifact that run r has of node n.
AttestsCurrent(i, r, n) ==
  /\ n \in register[i].nodes
  /\ register[i].decision = "ATTEST"
  /\ register[i].run = r
  /\ register[i].epoch = epoch[r]
  /\ register[i].generations[n] = generation[r][n]

\* A decided row is never changed again.
LEMMA DecidedRowsStay ==
  ASSUME TypeOK, NEW s \in Run, RunStep(s), NEW i \in DOMAIN register, ~ Open(i)
  PROVE  i \in DOMAIN register' /\ register'[i] = register[i]
<1>1. CASE UNCHANGED register
  BY <1>1
<1>2. ASSUME NEW nodes \in SUBSET Node, Raises(nodes)
      PROVE  i \in DOMAIN register' /\ register'[i] = register[i]
  BY <1>2, RaiseAppends
<1>3. ASSUME NEW j \in DOMAIN register, NEW decision \in Decisions,
             Decide(s, j, decision)
      PROVE  i \in DOMAIN register' /\ register'[i] = register[i]
  <2>1. i # j
    BY <1>3 DEF Decide
  <2> QED
    BY <1>3, <2>1, DecideReplaces
<1> QED
  BY <1>1, <1>2, <1>3, RegisterSteps

LEMMA PassStep ==
  ASSUME TypeOK, TypeOK', WordsOK, PassWasAttested, NEW s \in Run, RunStep(s)
  PROVE  PassWasAttested'
<1> SUFFICES ASSUME NEW r \in Run, NEW n \in Node, verdict'[r][n] = "pass"
             PROVE  \E i \in DOMAIN register' : AttestsCurrent(i, r, n)'
  BY DEF PassWasAttested, AttestsCurrent
\* Whoever had an attested artifact, and has it still, has the row still.
<1>1. ASSUME NEW i \in DOMAIN register, AttestsCurrent(i, r, n),
             epoch'[r] = epoch[r], generation'[r][n] = generation[r][n]
      PROVE  \E j \in DOMAIN register' : AttestsCurrent(j, r, n)'
  <2>1. i \in DOMAIN register' /\ register'[i] = register[i]
    BY <1>1, DecidedRowsStay DEF AttestsCurrent, Open
  <2> QED
    BY <1>1, <2>1 DEF AttestsCurrent
<1>2. verdict[r][n] = "pass" => \E i \in DOMAIN register : AttestsCurrent(i, r, n)
  BY DEF PassWasAttested, AttestsCurrent
<1>3. CASE UNCHANGED <<epoch, generation, verdict>>
  BY <1>1, <1>2, <1>3
<1>4. CASE Replan(s)
  <2>1. r # s
    BY <1>4 DEF Replan, TypeOK
  <2>2. /\ verdict'[r] = verdict[r] /\ epoch'[r] = epoch[r]
        /\ generation'[r] = generation[r]
    BY <1>4, <2>1 DEF Replan, TypeOK
  <2> QED
    BY <1>1, <1>2, <2>2
<1>5. ASSUME NEW m \in Node, Generate(s, m)
      PROVE  \E i \in DOMAIN register' : AttestsCurrent(i, r, n)'
  <2>1. r # s \/ n # m
    BY <1>5 DEF Generate, TypeOK
  <2>2. /\ verdict'[r][n] = verdict[r][n] /\ epoch'[r] = epoch[r]
        /\ generation'[r][n] = generation[r][n]
    BY <1>5, <2>1 DEF Generate, TypeOK, Artifacts
  <2> QED
    BY <1>1, <1>2, <2>2
<1>6. ASSUME NEW m \in Node, VerdictStep(s, m)
      PROVE  \E i \in DOMAIN register' : AttestsCurrent(i, r, n)'
  <2>1. epoch' = epoch /\ generation' = generation
    BY <1>6 DEF VerdictStep
  <2>2. CASE r = s /\ n = m
    <3>1. Attested(r, n)
      <4>1. CASE ~ Attested(s, m)
        <5>1. verdict' = [verdict EXCEPT ![s][m] = "fail"]
          BY <1>6, <4>1 DEF VerdictStep
        <5>2. verdict'[r][n] = "fail"
          BY <2>2, <5>1 DEF TypeOK
        <5> QED
          BY <5>2
      <4> QED
        BY <2>2, <4>1
    <3>2. PICK i \in Naming(n) : Latest(i, n)
      BY <3>1 DEF Attested, WordsOK, WordOK
    <3>3. LatestEvent(n) = i /\ i \in DOMAIN register /\ n \in register[i].nodes
      BY <3>2, LatestIsUnique DEF WordsOK, Naming
    <3>4. AttestsCurrent(i, r, n)
      BY <3>1, <3>3 DEF Attested, AttestsCurrent
    <3> QED
      BY <1>1, <2>1, <3>3, <3>4
  <2>3. CASE r # s \/ n # m
    <3>1. verdict'[r][n] = verdict[r][n]
      <4>1. CASE Attested(s, m)
        BY <1>6, <2>3, <4>1 DEF VerdictStep, TypeOK
      <4>2. CASE ~ Attested(s, m)
        BY <1>6, <2>3, <4>2 DEF VerdictStep, TypeOK
      <4> QED
        BY <4>1, <4>2
    <3> QED
      BY <1>1, <1>2, <2>1, <3>1
  <2> QED
    BY <2>2, <2>3
<1> QED
  BY <1>3, <1>4, <1>5, <1>6, RunFieldSteps

\* A pass was attested by a person for this artifact of this run (cli-drive.js,
\* the verdict step; cli-attest.js), also when runs are recreated under their
\* ids and artifact numbers start again.
THEOREM PassesAreAttested == Spec => []PassWasAttested
<1>1. Init => PassWasAttested
  BY DEF Init, PassWasAttested
<1>2. TypeOK /\ TypeOK' /\ WordsOK /\ PassWasAttested /\ [Next]_vars =>
        PassWasAttested'
  <2>1. PassWasAttested /\ UNCHANGED vars => PassWasAttested'
    BY DEF PassWasAttested, vars
  <2> QED
    BY <2>1, PassStep DEF Next
<1> QED
  BY <1>1, <1>2, RegisterTypes, WordsAlwaysOK, PTL DEF Spec
===============================================================================
