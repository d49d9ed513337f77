--------------------------- MODULE ParkRegister_proofs ---------------------------
(***************************************************************************)
(* Proofs about the park register: the audit row of a parked node carries  *)
(* the probe of the sign-off that parked it until another run writes it,   *)
(* whatever the plans, however many runs share the register and whichever  *)
(* commands die half way.                                                  *)
(***************************************************************************)
EXTENDS ParkRegister, TLAPS

ParkStatuses == {"PENDING", "BLOCK", "PARK"}
RunStates == [Node -> ParkStatuses]
Registers == [Node -> Probes \cup {NoRow}]

\* What a command under way has still to write.
CommandType(r) ==
  command[r] # Idle =>
    \/ command[r].file = "state" /\ command[r].content \in RunStates
    \/ command[r].file = "register" /\ command[r].content \in Registers

ParkTypeOK ==
  /\ status \in [Run -> RunStates]
  /\ parked \in Registers
  /\ signedFor \in [Run -> Registers]
  /\ foreign \in [Run -> SUBSET Node]
  /\ DOMAIN command = Run /\ command = [r \in Run |-> command[r]]
  /\ \A r \in Run : CommandType(r)

\* And what it will write keeps the audit: a state parks only what the
\* register names already, a register drops no row of a node still parked.
Audits(r, n, row) == row = signedFor[r][n] \/ n \in foreign[r]

CommandKeepsAudit ==
  \A r \in Run, n \in Node : command[r] # Idle =>
    /\ command[r].file = "state" /\ command[r].content[n] = "PARK" =>
         Audits(r, n, parked[n])
    /\ command[r].file = "register" /\ status[r][n] = "PARK" =>
         Audits(r, n, command[r].content[n])

ParkInv == ParkTypeOK /\ ParkIsAudited /\ CommandKeepsAudit

-------------------------------------------------------------------------------
\* Nothing is parked at first.
LEMMA ParkInit == Init => ParkInv
BY DEF Init, ParkInv, ParkTypeOK, RunStates, ParkStatuses, Registers, CommandType,
       ParkIsAudited, CommandKeepsAudit

\* A run begins or ends a command; the others' commands are what they were.
LEMMA NewCommand ==
  ASSUME ParkTypeOK, NEW r \in Run, NEW c,
         command' = [command EXCEPT ![r] = c]
  PROVE  /\ DOMAIN command' = Run /\ command' = [s \in Run |-> command'[s]]
         /\ \A q \in Run : command'[q] = IF q = r THEN c ELSE command[q]
BY DEF ParkTypeOK

\* What a run writes to the register audits its own parked nodes only if it
\* did before, and is foreign to every other run where it differs.
LEMMA WritingIsForeign ==
  ASSUME ParkTypeOK, NEW r \in Run, NEW rows \in SUBSET Node,
         foreign' = Wrote(r, rows)
  PROVE  /\ foreign' \in [Run -> SUBSET Node]
         /\ foreign'[r] = foreign[r]
         /\ \A q \in Run \ {r} : foreign'[q] = foreign[q] \cup rows
BY DEF ParkTypeOK, Wrote

\* Every step of a run, or of the world, keeps the audit.
LEMMA ParkStep ==
  ASSUME ParkInv, Next
  PROVE  ParkInv'
<1> USE DEF ParkInv
<1>1. ASSUME NEW r \in Run, NEW n \in Node, Block(r, n) PROVE ParkInv'
  <2>1. ParkTypeOK'
    BY <1>1 DEF Block, ParkTypeOK, CommandType, RunStates, ParkStatuses
  <2>2. \A q \in Run, m \in Node : status'[q][m] = "PARK" => status[q][m] = "PARK"
    BY <1>1 DEF Block, ParkTypeOK, RunStates
  <2> QED
    BY <1>1, <2>1, <2>2 DEF Block, ParkIsAudited, CommandKeepsAudit, Audits
<1>2. ASSUME NEW r \in Run, NEW n \in Node, ReEnter(r, n) PROVE ParkInv'
  <2>1. ParkTypeOK'
    BY <1>2 DEF ReEnter, ParkTypeOK, CommandType, RunStates, ParkStatuses
  <2>2. \A q \in Run, m \in Node : status'[q][m] = "PARK" => status[q][m] = "PARK"
    BY <1>2 DEF ReEnter, ParkTypeOK, RunStates
  <2> QED
    BY <1>2, <2>1, <2>2 DEF ReEnter, ParkIsAudited, CommandKeepsAudit, Audits
<1>3. ASSUME NEW r \in Run, NEW n \in Node, NEW p \in Probes, Park(r, n, p) PROVE ParkInv'
  <2> DEFINE next == [status[r] EXCEPT ![n] = "PARK"]
             mine == [Wrote(r, {n}) EXCEPT ![r] = @ \ {n}]
  <2>1. /\ status[r] \in RunStates /\ parked \in Registers
        /\ signedFor[r] \in Registers /\ status[r][n] = "BLOCK"
    BY <1>3 DEF Park, ParkTypeOK
  <2>2. /\ command' = [command EXCEPT ![r] = Pending("state", next)]
        /\ parked' = [parked EXCEPT ![n] = p]
        /\ signedFor' = [signedFor EXCEPT ![r][n] = p]
        /\ foreign' = mine
        /\ status' = status
    BY <1>3 DEF Park, Audited
  <2>3. next \in RunStates
    BY <2>1 DEF RunStates, ParkStatuses
  <2>4. /\ DOMAIN command' = Run /\ command' = [q \in Run |-> command'[q]]
        /\ command'[r].file = "state" /\ command'[r].content = next
        /\ \A q \in Run \ {r} : command'[q] = command[q]
    BY <2>2, NewCommand DEF Pending
  <2>5. /\ foreign' \in [Run -> SUBSET Node]
        /\ foreign'[r] = foreign[r] \ {n}
        /\ \A q \in Run \ {r} : foreign'[q] = foreign[q] \cup {n}
    BY <2>2 DEF ParkTypeOK, Wrote
  <2>6. signedFor' \in [Run -> Registers] /\ parked' \in Registers
    BY <2>1, <2>2 DEF ParkTypeOK, Registers
  <2>7. ASSUME NEW q \in Run PROVE CommandType(q)'
    <3>1. CASE q = r
      <4> HIDE DEF next
      <4> QED
        BY <2>3, <2>4, <3>1 DEF CommandType
    <3>2. CASE q # r
      BY <2>4, <3>2 DEF CommandType, ParkTypeOK
    <3> QED
      BY <3>1, <3>2
  <2>8. ParkTypeOK'
    BY <2>2, <2>4, <2>5, <2>6, <2>7 DEF ParkTypeOK
  <2>9. \A m \in Node : /\ parked'[m] = IF m = n THEN p ELSE parked[m]
                        /\ signedFor'[r][m] = IF m = n THEN p ELSE signedFor[r][m]
    BY <2>1, <2>2 DEF ParkTypeOK, Registers
  <2>10. \A q \in Run \ {r} : signedFor'[q] = signedFor[q]
    BY <2>2 DEF ParkTypeOK
  <2>11. ASSUME NEW q \in Run, NEW m \in Node, NEW row,
                q # r \/ m # n, Audits(q, m, row)
         PROVE  \/ row = signedFor'[q][m]
                \/ m \in foreign'[q]
    BY <2>5, <2>9, <2>10, <2>11 DEF Audits
  <2>12. ASSUME NEW q \in Run, NEW m \in Node, q # r \/ m # n, Audits(q, m, parked[m])
         PROVE  parked'[m] = signedFor'[q][m] \/ m \in foreign'[q]
    <3>1. CASE m = n
      BY <2>5, <2>12, <3>1
    <3>2. CASE m # n
      BY <2>9, <2>11, <2>12, <3>2
    <3> QED
      BY <3>1, <3>2
  <2>13. ParkIsAudited'
    <3>1. \A q \in Run, m \in Node : status[q][m] = "PARK" => q # r \/ m # n
      BY <2>1
    <3> QED
      BY <2>2, <2>12, <3>1 DEF ParkIsAudited, Audits
  <2>14. CommandKeepsAudit'
    <3>1. ASSUME NEW m \in Node, next[m] = "PARK"
          PROVE  parked'[m] = signedFor'[r][m] \/ m \in foreign'[r]
      <4>1. CASE m = n
        BY <2>9, <4>1
      <4>2. CASE m # n
        <5>1. status[r][m] = "PARK"
          BY <2>1, <3>1, <4>2 DEF RunStates
        <5> QED
          BY <5>1, <2>12, <4>2 DEF ParkIsAudited, Audits
      <4> QED
        BY <4>1, <4>2
    <3>2. ASSUME NEW q \in Run, q # r, NEW m \in Node, command[q] # Idle
          PROVE  /\ command[q].file = "state" /\ command[q].content[m] = "PARK" =>
                      parked'[m] = signedFor'[q][m] \/ m \in foreign'[q]
                 /\ command[q].file = "register" /\ status[q][m] = "PARK" =>
                      command[q].content[m] = signedFor'[q][m] \/ m \in foreign'[q]
      BY <2>11, <2>12, <3>2 DEF CommandKeepsAudit
    <3> HIDE DEF next
    <3>3. ASSUME NEW m \in Node
          PROVE  /\ command'[r].file # "register"
                 /\ command'[r].content[m] = "PARK" =>
                      parked'[m] = signedFor'[r][m] \/ m \in foreign'[r]
      BY <2>4, <3>1
    <3>4. ASSUME NEW q \in Run, q # r
          PROVE  command'[q] = command[q] /\ status'[q] = status[q]
      BY <2>2, <2>4, <3>4
    <3>5. ASSUME NEW q \in Run, NEW m \in Node, command'[q] # Idle
          PROVE  /\ command'[q].file = "state" /\ command'[q].content[m] = "PARK" =>
                      parked'[m] = signedFor'[q][m] \/ m \in foreign'[q]
                 /\ command'[q].file = "register" /\ status'[q][m] = "PARK" =>
                      command'[q].content[m] = signedFor'[q][m] \/ m \in foreign'[q]
      <4>1. CASE q = r
        BY <3>3, <4>1
      <4>2. CASE q # r
        BY <3>2, <3>4, <3>5, <4>2
      <4> QED
        BY <4>1, <4>2
    <3> QED
      BY <3>5 DEF CommandKeepsAudit, Audits
  <2> QED
    BY <2>8, <2>13, <2>14
<1>4. ASSUME NEW r \in Run, NEW a \in SUBSET shipped, Reprobe(r, a) PROVE ParkInv'
  <2>1. /\ status' = [status EXCEPT ![r] = ReEntered(r, a)]
        /\ command' = [command EXCEPT ![r] = Pending("register", RowsLeft(a))]
        /\ parked' = parked /\ signedFor' = signedFor /\ foreign' = foreign
    BY <1>4 DEF Reprobe
  <2>2. ReEntered(r, a) \in RunStates /\ RowsLeft(a) \in Registers
    BY DEF ReEntered, RowsLeft, ParkTypeOK, RunStates, ParkStatuses, Registers
  <2>3. /\ DOMAIN command' = Run /\ command' = [q \in Run |-> command'[q]]
        /\ command'[r].file = "register" /\ command'[r].content = RowsLeft(a)
        /\ \A q \in Run \ {r} : command'[q] = command[q]
    BY <2>1, NewCommand DEF Pending
  <2>4. /\ status' \in [Run -> RunStates] /\ status'[r] = ReEntered(r, a)
        /\ \A q \in Run \ {r} : status'[q] = status[q]
    BY <2>1, <2>2 DEF ParkTypeOK
  <2>5. ASSUME NEW q \in Run PROVE CommandType(q)'
    BY <2>2, <2>3 DEF CommandType, ParkTypeOK
  <2>6. ParkTypeOK'
    BY <2>1, <2>3, <2>4, <2>5 DEF ParkTypeOK
  <2>7. \A m \in Node : ReEntered(r, a)[m] = "PARK" =>
          status[r][m] = "PARK" /\ RowsLeft(a)[m] = parked[m]
    BY DEF ReEntered, RowsLeft
  <2>8. ParkIsAudited'
    BY <2>1, <2>4, <2>7 DEF ParkIsAudited
  <2>9. ASSUME NEW m \in Node, ReEntered(r, a)[m] = "PARK"
        PROVE  Audits(r, m, RowsLeft(a)[m])
    BY <2>7, <2>9 DEF ParkIsAudited, Audits
  <2>10. CommandKeepsAudit'
    BY <2>1, <2>3, <2>4, <2>9 DEF CommandKeepsAudit, Audits
  <2> QED
    BY <2>6, <2>8, <2>10
<1>5. ASSUME NEW r \in Run, SecondWrite(r) PROVE ParkInv'
  <2>1. /\ command' = [command EXCEPT ![r] = Idle]
        /\ command[r] # Idle /\ signedFor' = signedFor
    BY <1>5 DEF SecondWrite
  <2>2. /\ DOMAIN command' = Run /\ command' = [q \in Run |-> command'[q]]
        /\ \A q \in Run : command'[q] = IF q = r THEN Idle ELSE command[q]
    BY <2>1, NewCommand
  <2>3. \A q \in Run : CommandType(q)'
    BY <2>2 DEF CommandType, ParkTypeOK
  <2>4. CASE command[r].file = "state"
    <3>1. /\ status' = [status EXCEPT ![r] = command[r].content]
          /\ parked' = parked /\ foreign' = foreign
      BY <1>5, <2>4 DEF SecondWrite
    <3>2. command[r].content \in RunStates
      BY <2>1, <2>4 DEF ParkTypeOK, CommandType
    <3>3. /\ status' \in [Run -> RunStates] /\ status'[r] = command[r].content
          /\ \A q \in Run \ {r} : status'[q] = status[q]
      BY <3>1, <3>2 DEF ParkTypeOK
    <3>4. ParkTypeOK'
      BY <2>1, <2>2, <2>3, <3>1, <3>3 DEF ParkTypeOK
    <3>5. ParkIsAudited'
      BY <2>1, <2>4, <3>1, <3>3 DEF ParkIsAudited, CommandKeepsAudit, Audits
    <3>6. CommandKeepsAudit'
      BY <2>1, <2>2, <3>1, <3>3 DEF CommandKeepsAudit, Audits
    <3> QED
      BY <3>4, <3>5, <3>6
  <2>5. CASE command[r].file # "state"
    <3> DEFINE rows == {n \in Node : command[r].content[n] # parked[n]}
    <3>1. /\ parked' = command[r].content /\ status' = status
          /\ foreign' = Wrote(r, rows)
      BY <1>5, <2>5 DEF SecondWrite
    <3>2. command[r].file = "register" /\ command[r].content \in Registers
      BY <2>1, <2>5 DEF ParkTypeOK, CommandType
    <3>3. /\ foreign' \in [Run -> SUBSET Node]
          /\ foreign'[r] = foreign[r]
          /\ \A q \in Run \ {r} : foreign'[q] = foreign[q] \cup rows
      <4>1. rows \in SUBSET Node
        OBVIOUS
      <4> HIDE DEF rows
      <4> QED
        BY <3>1, <4>1, WritingIsForeign
    <3>4. ParkTypeOK'
      BY <2>1, <2>2, <2>3, <3>1, <3>2, <3>3 DEF ParkTypeOK
    <3>5. ASSUME NEW q \in Run, NEW m \in Node
          PROVE  foreign[q] \subseteq foreign'[q]
      BY <3>3
    <3>6. ASSUME NEW q \in Run, NEW m \in Node, q # r, Audits(q, m, parked[m])
          PROVE  parked'[m] = signedFor[q][m] \/ m \in foreign'[q]
      BY <3>1, <3>3, <3>6 DEF Audits
    <3>7. ParkIsAudited'
      <4>1. ASSUME NEW m \in Node, status[r][m] = "PARK"
            PROVE  parked'[m] = signedFor[r][m] \/ m \in foreign'[r]
        BY <2>1, <3>1, <3>2, <3>3, <4>1 DEF CommandKeepsAudit, Audits
      <4>2. ASSUME NEW q \in Run, q # r, NEW m \in Node, status[q][m] = "PARK"
            PROVE  parked'[m] = signedFor[q][m] \/ m \in foreign'[q]
        BY <3>6, <4>2 DEF ParkIsAudited, Audits
      <4> HIDE DEF rows
      <4> QED
        BY <2>1, <3>1, <4>1, <4>2 DEF ParkIsAudited
    <3>8. CommandKeepsAudit'
      <4>1. ASSUME NEW q \in Run, q # r, NEW m \in Node, command[q] # Idle
            PROVE  /\ command[q].file = "state" /\ command[q].content[m] = "PARK" =>
                        parked'[m] = signedFor[q][m] \/ m \in foreign'[q]
                   /\ command[q].file = "register" /\ status[q][m] = "PARK" =>
                        command[q].content[m] = signedFor[q][m] \/ m \in foreign'[q]
        BY <3>5, <3>6, <4>1 DEF CommandKeepsAudit, Audits
      <4> HIDE DEF rows
      <4> QED
        BY <2>1, <2>2, <3>1, <4>1 DEF CommandKeepsAudit, Audits
    <3> QED
      BY <3>4, <3>7, <3>8
  <2> QED
    BY <2>4, <2>5
<1>6. ASSUME NEW r \in Run, Crash(r) PROVE ParkInv'
  <2>1. /\ DOMAIN command' = Run /\ command' = [q \in Run |-> command'[q]]
        /\ \A q \in Run : command'[q] = IF q = r THEN Idle ELSE command[q]
    BY <1>6, NewCommand DEF Crash
  <2> QED
    BY <1>6, <2>1
       DEF Crash, ParkTypeOK, CommandType, ParkIsAudited, CommandKeepsAudit, Audits
<1>7. ASSUME NEW s \in Successor, Ship(s) PROVE ParkInv'
  BY <1>7 DEF Ship, ParkTypeOK, CommandType, ParkIsAudited, CommandKeepsAudit, Audits
<1> QED
  BY <1>1, <1>2, <1>3, <1>4, <1>5, <1>6, <1>7 DEF Next

-------------------------------------------------------------------------------
\* The audit row of a parked node is of its sign-off as long as no other run has
\* written it, in every reachable state of a register that any number of runs
\* share (cli-io.js, parkAudit; cli-park.js, cmdReprobe).
THEOREM ParkAudited == Spec => []ParkIsAudited
<1>1. ParkInv /\ [Next]_vars => ParkInv'
  <2>1. ParkInv /\ UNCHANGED vars => ParkInv'
    BY DEF ParkInv, ParkTypeOK, CommandType, ParkIsAudited, CommandKeepsAudit, Audits, vars
  <2> QED
    BY <2>1, ParkStep
<1>2. ParkInv => ParkIsAudited
  BY DEF ParkInv
<1> QED
  BY <1>1, <1>2, ParkInit, PTL DEF Spec
===============================================================================
