------------------------------ MODULE Attestation ------------------------------
(***************************************************************************)
(* Attestations: the escalations register, which all runs share            *)
(* (moderniser/src/exception/escalation-bus.js), the offline verdict step  *)
(* that asks a person for one and joins it back (cli-drive.js,             *)
(* cli-attest.js), and the person's decisions (cli-escalations.js).        *)
(*                                                                         *)
(* One kind of escalation is modelled; the rows of different kinds never   *)
(* meet.  Every artifact here owes the attestation, and is otherwise free  *)
(* of defects: a defect is regenerated, which is Generate.  Of a run only  *)
(* what the join reads is kept, its epoch and the artifact each node has   *)
(* (SchedLoop has the rest).  Commands of several terminals interleave,    *)
(* and a verdict step that saved the state may die before it raises; the   *)
(* read and the write of the register are one step.                        *)
(***************************************************************************)
EXTENDS Integers, Sequences, FiniteSets

CONSTANTS
  Run,             \* run ids; a recreated run keeps its id
  Node,            \* canonical node signatures
  Holds,           \* Holds[r]: the nodes of r's plan; plans may share nodes
  NoRun,           \* no run has decided the row
  MaxGeneration,   \* bound of the model: artifacts of a node in one run
  MaxClock         \* bound of the model: time until which people act

ASSUME AttestationAssumption ==
  /\ Holds \in [Run -> SUBSET Node]
  /\ NoRun \notin Run
  /\ MaxGeneration \in Nat
  /\ MaxClock \in Nat

VARIABLES
  register,        \* the rows of escalations.json, in the order they were raised
  clock,           \* time: every command that stamps one has a time of its own
  epoch,           \* run_epoch: when plan made the run
  generation,      \* artifact generation of each node of each run
  verdict,         \* recorded offline verdict
  owing,           \* nodes whose gate a verdict step has still to raise
  lastWord         \* history: the last thing said about each node, by whom

vars == <<register, clock, epoch, generation, verdict, owing, lastWord>>

Artifacts == [Node -> 0..MaxGeneration]
Decisions == {"ATTEST", "REJECT"}
Word(what, r, e, artifact) ==
  [what |-> what, run |-> r, epoch |-> e, artifact |-> artifact]

\* A row is OPEN while nobody decided it; at is the time of its last event.
Rows ==
  [nodes : SUBSET Node, decision : Decisions \cup {"OPEN"}, at : Nat,
   run : Run \cup {NoRun}, epoch : Nat, generations : Artifacts]

Words ==
  [what : Decisions \cup {"none", "RAISE"}, run : Run \cup {NoRun}, epoch : Nat,
   artifact : 0..MaxGeneration]

TypeOK ==
  /\ register \in Seq(Rows)
  /\ clock \in Nat
  /\ epoch \in [Run -> Nat]
  /\ generation \in [Run -> Artifacts]
  /\ verdict \in [Run -> [Node -> {"none", "pass", "fail"}]]
  /\ owing \in [Run -> SUBSET Node]
  /\ lastWord \in [Node -> Words]

\* Every run planned once, nothing raised.
Init ==
  /\ register = <<>>
  /\ clock = 0
  /\ epoch = [r \in Run |-> 0]
  /\ generation = [r \in Run |-> [n \in Node |-> 0]]
  /\ verdict = [r \in Run |-> [n \in Node |-> "none"]]
  /\ owing = [r \in Run |-> {}]
  /\ lastWord = [n \in Node |-> Word("none", NoRun, 0, 0)]

-------------------------------------------------------------------------------
\* The register.

Open(i) == register[i].decision = "OPEN"

\* A row whose last event is of the next instant.
Row(nodes, decision, r, e, generations) ==
  [nodes |-> nodes, decision |-> decision, at |-> clock + 1, run |-> r,
   epoch |-> e, generations |-> generations]

RaisedRow(nodes) == Row(nodes, "OPEN", NoRun, 0, [n \in Node |-> 0])

\* The decision stamps the run, its epoch and its artifacts of the moment.
DecidedRow(r, i, decision) ==
  Row(register[i].nodes, decision, r, epoch[r], generation[r])

\* A new row, which is also the last word on its nodes.
NewRow(nodes) ==
  /\ clock' = clock + 1
  /\ register' = Append(register, RaisedRow(nodes))
  /\ lastWord' = [n \in Node |-> IF n \in nodes THEN Word("RAISE", NoRun, 0, 0)
                                 ELSE lastWord[n]]

RaiseVariant(nodes) ==             \* a decided row counts as raised already
  IF \E i \in DOMAIN register : register[i].nodes = nodes
  THEN UNCHANGED <<register, clock, lastWord>>
  ELSE NewRow(nodes)

RaiseStorm(nodes) == NewRow(nodes) \* no look at what is open

\* raiseEscalation: nothing happens while the same question is open.
Raise(nodes) ==
  IF \E i \in DOMAIN register : Open(i) /\ register[i].nodes = nodes
  THEN UNCHANGED <<register, clock, lastWord>>
  ELSE NewRow(nodes)

Naming(n) == {i \in DOMAIN register : n \in register[i].nodes}

LatestEventVariant(n) ==           \* the latest raise, not the latest event
  CHOOSE i \in Naming(n) : \A j \in Naming(n) : j <= i

\* latestEvent: the row whose raise or decision is the most recent of all.
LatestEvent(n) ==
  CHOOSE i \in Naming(n) : \A j \in Naming(n) : register[j].at <= register[i].at

AttestedVariant(r, n) ==           \* the run id alone stands for the run
  /\ Naming(n) # {}
  /\ LET row == register[LatestEvent(n)]
     IN  /\ row.decision = "ATTEST" /\ row.run = r
         /\ row.generations[n] = generation[r][n]

\* registerAttestation: the last event attests this artifact of this run.
Attested(r, n) ==
  /\ Naming(n) # {}
  /\ LET row == register[LatestEvent(n)]
     IN  /\ row.decision = "ATTEST" /\ row.run = r /\ row.epoch = epoch[r]
         /\ row.generations[n] = generation[r][n]

-------------------------------------------------------------------------------
\* plan --force: the run again, from the start; the register survives.
Replan(r) ==
  /\ clock < MaxClock
  /\ clock' = clock + 1
  /\ epoch' = [epoch EXCEPT ![r] = clock + 1]
  /\ generation' = [generation EXCEPT ![r] = [n \in Node |-> 0]]
  /\ verdict' = [verdict EXCEPT ![r] = [n \in Node |-> "none"]]
  /\ UNCHANGED <<register, owing, lastWord>>

\* A new artifact of the node, by whatever road: what was said is void.
Generate(r, n) ==
  /\ n \in Holds[r]
  /\ generation[r][n] < MaxGeneration
  /\ generation' = [generation EXCEPT ![r][n] = @ + 1]
  /\ verdict' = [verdict EXCEPT ![r][n] = "none"]
  /\ UNCHANGED <<register, clock, epoch, owing, lastWord>>

\* drive --verdict, up to the save of the state: passed when attested, and
\* resting on an owed attestation when not.
VerdictStep(r, n) ==
  /\ n \in Holds[r]
  /\ generation[r][n] > 0
  /\ owing[r] = {}
  /\ IF Attested(r, n)
     THEN /\ verdict' = [verdict EXCEPT ![r][n] = "pass"]
          /\ UNCHANGED owing
     ELSE /\ verdict' = [verdict EXCEPT ![r][n] = "fail"]
          /\ owing' = [owing EXCEPT ![r] = {n}]
  /\ UNCHANGED <<register, clock, epoch, generation, lastWord>>

\* raiseOwedGates, after the save.
RaiseOwed(r) ==
  /\ owing[r] # {}
  /\ Raise(owing[r])
  /\ owing' = [owing EXCEPT ![r] = {}]
  /\ UNCHANGED <<epoch, generation, verdict>>

\* The command dies between the two.
Crash(r) ==
  /\ owing[r] # {}
  /\ owing' = [owing EXCEPT ![r] = {}]
  /\ UNCHANGED <<register, clock, epoch, generation, verdict, lastWord>>

\* escalate --nodes ...: a person asks again, about as many nodes as they like.
Escalate(r, nodes) ==
  /\ nodes # {} /\ nodes \subseteq Holds[r]
  /\ clock < MaxClock
  /\ Raise(nodes)
  /\ UNCHANGED <<epoch, generation, verdict, owing>>

\* decide <row> ATTEST | REJECT, in any run, of an open row.
Decide(r, i, decision) ==
  /\ Open(i)
  /\ clock < MaxClock
  /\ clock' = clock + 1
  /\ register' = [register EXCEPT ![i] = DecidedRow(r, i, decision)]
  /\ lastWord' = [n \in Node |-> IF n \in register[i].nodes
                                 THEN Word(decision, r, epoch[r], generation[r][n])
                                 ELSE lastWord[n]]
  /\ UNCHANGED <<epoch, generation, verdict, owing>>

-------------------------------------------------------------------------------
RunStep(r) ==
  \/ Replan(r)
  \/ \E n \in Node : Generate(r, n) \/ VerdictStep(r, n)
  \/ RaiseOwed(r)
  \/ Crash(r)
  \/ \E nodes \in SUBSET Node : Escalate(r, nodes)
  \/ \E i \in DOMAIN register, decision \in Decisions : Decide(r, i, decision)

Next == \E r \in Run : RunStep(r)

\* Every resumed session repeats the verdict step of a node that waits, and
\* not every such step dies before it raises.  People owe nothing.
Fairness ==
  \A r \in Run : \A n \in Holds[r] :
    /\ SF_vars(verdict[r][n] = "fail" /\ VerdictStep(r, n))
    /\ SF_vars(owing[r] = {n} /\ RaiseOwed(r))

Spec == Init /\ [][Next]_vars /\ Fairness
-------------------------------------------------------------------------------
(***************************************************************************)
(* A node counts as attested exactly when the last word on it, among all   *)
(* raises and decisions of all runs and rows that name it, is a person's   *)
(* ATTEST given in this run, since it was planned, on this artifact.       *)
(***************************************************************************)
LastWordCounts ==
  \A r \in Run, n \in Node :
    Attested(r, n) <=> lastWord[n] = Word("ATTEST", r, epoch[r], generation[r][n])

(***************************************************************************)
(* A pass on record was attested by a person for this very artifact of     *)
(* this very run; a recreated run or another run never inherits one.       *)
(***************************************************************************)
PassWasAttested ==
  \A r \in Run, n \in Node : verdict[r][n] = "pass" =>
    \E i \in DOMAIN register :
      /\ n \in register[i].nodes
      /\ register[i].decision = "ATTEST"
      /\ register[i].run = r
      /\ register[i].epoch = epoch[r]
      /\ register[i].generations[n] = generation[r][n]

(***************************************************************************)
(* No storm: however many runs, resumed sessions and people raise it, one  *)
(* question is open once.                                                  *)
(***************************************************************************)
NoStorm ==
  \A i, j \in DOMAIN register :
    Open(i) /\ Open(j) /\ register[i].nodes = register[j].nodes => i = j

(***************************************************************************)
(* A gate that is owed reaches a person: a node that rests on a failed     *)
(* verdict is, in the end, named by an open row or rests there no more,    *)
(* although a session may die after every save and a person may reject.    *)
(***************************************************************************)
OwedGateIsRaised ==
  \A r \in Run : \A n \in Holds[r] :
    verdict[r][n] = "fail" ~>
      \/ verdict[r][n] # "fail"
      \/ \E i \in DOMAIN register : Open(i) /\ n \in register[i].nodes
===============================================================================
