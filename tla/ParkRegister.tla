------------------------------ MODULE ParkRegister ------------------------------
(***************************************************************************)
(* Parking: the audited park register, one file for all runs               *)
(* (moderniser/src/exception/park.js), beside each run's own state.  Two   *)
(* commands write both files: outcome PARK (cli.js, cmdOutcome; cli-io.js, *)
(* parkAudit), the register first, and reprobe (cli-park.js, cmdReprobe),  *)
(* the state first.  What the second write puts down was computed before   *)
(* the first, and the command may die between the two.                     *)
(*                                                                         *)
(* Of a node's lifecycle only what parking touches is kept: it waits or is *)
(* in flight, is quarantined, or is parked (SchedLoop has the rest).       *)
(***************************************************************************)
EXTENDS Naturals, FiniteSets

CONSTANTS
  Run, Node,
  Holds,         \* Holds[r]: the nodes of r's plan; plans may share nodes
  Successor,     \* the successors a sign-off may wait for
  NoProbe,       \* a sign-off that names none: the row's successor_probe is null
  NoRow,         \* the register holds no row of the node
  Idle           \* the run executes no command

ASSUME ParkAssumption ==
  /\ Holds \in [Run -> SUBSET Node]
  /\ NoRow \notin Successor /\ NoProbe \notin Successor

VARIABLES
  status,        \* status of each node in each run
  parked,        \* park-register.json: node -> probed successor, NoProbe or NoRow
  shipped,       \* successors that have been released
  command,       \* the second write of the command a run executes
  signedFor,     \* history: the probe of a node's latest sign-off
  foreign        \* history: the nodes whose row another run has written since

vars == <<status, parked, shipped, command, signedFor, foreign>>

Probes == Successor \cup {NoProbe}

Pending(file, content) == [file |-> file, content |-> content]

Init ==
  /\ status = [r \in Run |-> [n \in Node |-> "PENDING"]]
  /\ parked = [n \in Node |-> NoRow]
  /\ shipped = {}
  /\ command = [r \in Run |-> Idle]
  /\ signedFor = [r \in Run |-> [n \in Node |-> NoRow]]
  /\ foreign = [r \in Run |-> {}]

\* Run r writes the rows of some nodes: to every other run they are foreign.
Wrote(r, rows) == [q \in Run |-> IF q = r THEN foreign[q] ELSE foreign[q] \cup rows]

-------------------------------------------------------------------------------
\* outcome <n> BLOCK: quarantine, from an in-flight status.
Block(r, n) ==
  /\ command[r] = Idle
  /\ n \in Holds[r] /\ status[r][n] = "PENDING"
  /\ status' = [status EXCEPT ![r][n] = "BLOCK"]
  /\ UNCHANGED <<parked, shipped, command, signedFor, foreign>>

AuditedVariant(n, probe) ==      \* a row that is there is kept
  IF parked[n] = NoRow THEN [parked EXCEPT ![n] = probe] ELSE parked

\* parkAudit: replace, so that the row is of the current sign-off.
Audited(n, probe) == [parked EXCEPT ![n] = probe]

\* outcome <n> PARK, signed, with the successor to wait for or none: the audit
\* row is written, and then the state.
Park(r, n, probe) ==
  /\ command[r] = Idle
  /\ n \in Holds[r] /\ status[r][n] = "BLOCK"
  /\ parked' = Audited(n, probe)
  /\ command' = [command EXCEPT ![r] = Pending("state", [status[r] EXCEPT ![n] = "PARK"])]
  /\ signedFor' = [signedFor EXCEPT ![r][n] = probe]
  /\ foreign' = [Wrote(r, {n}) EXCEPT ![r] = @ \ {n}]
  /\ UNCHANGED <<status, shipped>>

\* reEnter: the rows whose successor is available; one without a probe never is.
Released(available) == {n \in Node : parked[n] \in available}

ReEntered(r, available) ==
  [n \in Node |-> IF n \in Released(available) /\ status[r][n] = "PARK"
                  THEN "PENDING" ELSE status[r][n]]
RowsLeft(available) ==
  [n \in Node |-> IF n \in Released(available) THEN NoRow ELSE parked[n]]

ReprobeVariant(r, available) ==  \* the register first
  /\ command[r] = Idle
  /\ available # {}
  /\ parked' = RowsLeft(available)
  /\ command' = [command EXCEPT ![r] = Pending("state", ReEntered(r, available))]
  /\ foreign' = Wrote(r, Released(available))
  /\ UNCHANGED <<status, shipped, signedFor>>

\* reprobe --available: the released nodes that this run holds parked wait
\* again, and then the released rows go, whichever run parked the node.
Reprobe(r, available) ==
  /\ command[r] = Idle
  /\ available # {}
  /\ status' = [status EXCEPT ![r] = ReEntered(r, available)]
  /\ command' = [command EXCEPT ![r] = Pending("register", RowsLeft(available))]
  /\ UNCHANGED <<parked, shipped, signedFor, foreign>>

\* The second write, which puts down what the command computed at its start,
\* whatever another run has written since.
SecondWrite(r) ==
  /\ command[r] # Idle
  /\ IF command[r].file = "state"
     THEN /\ status' = [status EXCEPT ![r] = command[r].content]
          /\ UNCHANGED <<parked, foreign>>
     ELSE /\ parked' = command[r].content
          /\ foreign' = Wrote(r, {n \in Node : command[r].content[n] # parked[n]})
          /\ UNCHANGED status
  /\ command' = [command EXCEPT ![r] = Idle]
  /\ UNCHANGED <<shipped, signedFor>>

\* The command dies before it.
Crash(r) ==
  /\ command[r] # Idle
  /\ command' = [command EXCEPT ![r] = Idle]
  /\ UNCHANGED <<status, parked, shipped, signedFor, foreign>>

\* progress <n> PENDING: the granular re-entry, which leaves the row.
ReEnter(r, n) ==
  /\ command[r] = Idle
  /\ status[r][n] = "PARK"
  /\ status' = [status EXCEPT ![r][n] = "PENDING"]
  /\ UNCHANGED <<parked, shipped, command, signedFor, foreign>>

\* A successor is released.
Ship(s) ==
  /\ s \notin shipped
  /\ shipped' = shipped \cup {s}
  /\ UNCHANGED <<status, parked, command, signedFor, foreign>>

-------------------------------------------------------------------------------
Next ==
  \/ \E r \in Run :
       \/ \E n \in Node : \/ Block(r, n) \/ ReEnter(r, n)
                          \/ \E probe \in Probes : Park(r, n, probe)
       \/ \E available \in SUBSET shipped : Reprobe(r, available)
       \/ SecondWrite(r) \/ Crash(r)
  \/ \E s \in Successor : Ship(s)

\* The operator re-probes again and again with all that has shipped, as the run
\* instructions ask, and a command ends one way or the other.
Fairness ==
  \A r \in Run : SF_vars(Reprobe(r, shipped)) /\ WF_vars(SecondWrite(r) \/ Crash(r))

Spec == Init /\ [][Next]_vars /\ Fairness
-------------------------------------------------------------------------------
(***************************************************************************)
(* A parked node has an audit row, and the row carries the probe of the    *)
(* sign-off that parked it, at every moment of every command and whichever *)
(* write a crash prevented: unless another run has written the row since,  *)
(* which the one register lets it (a sign-off of its own for a node both   *)
(* plans hold, a reprobe that drops the row, or a reprobe that puts back a *)
(* register it read before the sign-off).                                  *)
(***************************************************************************)
ParkIsAudited ==
  \A r \in Run, n \in Node :
    status[r][n] = "PARK" => parked[n] = signedFor[r][n] \/ n \in foreign[r]

(***************************************************************************)
(* A node parked for a successor that has been released does not stay      *)
(* parked, although commands may die half way; again unless another run    *)
(* wrote its row.  A node parked without a probe waits for no release.     *)
(***************************************************************************)
ParkedReEnters ==
  \A r \in Run, n \in Node :
    status[r][n] = "PARK" /\ signedFor[r][n] \in shipped
      ~> status[r][n] # "PARK" \/ n \in foreign[r]
===============================================================================
