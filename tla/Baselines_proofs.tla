---------------------------- MODULE Baselines_proofs ----------------------------
(***************************************************************************)
(* Proofs about the quality ratchet: whatever the runs, the plans and the  *)
(* files found at the start, the baselines only tighten, and what was      *)
(* accepted stays backed by them at every point of a command, and after    *)
(* its death at any point.                                                 *)
(***************************************************************************)
EXTENDS Baselines, TLAPS

-------------------------------------------------------------------------------
\* The inductive invariant: the shapes, the two baselines of each node, and
\* the writes that are still to come, which repeat the accepted evidence.

Covers == [pct : Pcts \cup {Corrupt}, bite : BOOLEAN]

VerdictType(v) ==
  \/ v = None
  \/ v \in [kind : {"green", "block"}, recorded : BOOLEAN, warns : Int, pct : Int]

FilesType ==
  /\ ceiling \in [Sigs -> Warns \cup {Unset, Corrupt}]
  /\ cover \in [Sigs -> Covers \cup {Unset}]
  /\ floor \in Pcts \cup {Unset, Corrupt}
  /\ verdict = [r \in Runs |-> [s \in Plan[r] |-> verdict[r][s]]]
  /\ \A r \in Runs : \A s \in Plan[r] : VerdictType(verdict[r][s])
  /\ accepted \in [Sigs -> Evidence \cup {NoEvidence}]

\* The verdict and the writes of a recording command of r for s on evidence ev.
Earned(s, ev) == Given(s, ev, TRUE, TRUE)
RecordingWrites(r, s, ev) == Writes(r, s, ev, TRUE, TRUE)

\* That command after its first write, and after its second.
Recording(r, s, ev) ==
  /\ accepted[s] = ev /\ ceiling[s] = ev.warns
  /\ RatchetGate(s, ev)
  /\ \/ todo = Tail(RecordingWrites(r, s, ev))
     \/ /\ cover[s] = [pct |-> ev.pct, bite |-> ev.bite]
        /\ todo = Tail(Tail(RecordingWrites(r, s, ev)))

Pending ==
  \/ todo = <<>>
  \/ \E r \in Runs : \E s \in Plan[r], ev \in Evidence : Recording(r, s, ev)

Books ==
  /\ FilesType
  /\ RecordedBeforeGreen
  /\ AcceptedStillPasses
  /\ RecordedBites

IInv == Books /\ Pending

-------------------------------------------------------------------------------
\* The writes of a command.

\* The first of a recording command.
LEMMA FirstWrite ==
  ASSUME NEW r, NEW s, NEW ev, NEW W, W = RecordingWrites(r, s, ev)
  PROVE  Head(W) = [file |-> "ceiling", sig |-> s, value |-> ev.warns]
<1>1. PICK a, b, c :
        /\ a = [file |-> "ceiling", sig |-> s, value |-> ev.warns]
        /\ b = [file |-> "cover", sig |-> s, value |-> [pct |-> ev.pct, bite |-> ev.bite]]
        /\ c = [file |-> "state", run |-> r, sig |-> s, value |-> Earned(s, ev)]
  OBVIOUS
<1>2. W = <<a, b, c>>
  BY <1>1 DEF RecordingWrites, Writes, Tightened, Earned
<1>3. Head(W) = a
  BY <1>2
<1> QED
  BY <1>1, <1>3

\* The other two: the file each is for, and what it puts.
LEMMA LaterWrites ==
  ASSUME NEW r, NEW s, NEW ev, NEW W, W = RecordingWrites(r, s, ev)
  PROVE  \E a, b, c :
           /\ W = <<a, b, c>>
           /\ b.file = "cover" /\ b.sig = s
           /\ b.value = [pct |-> ev.pct, bite |-> ev.bite]
           /\ c.file = "state" /\ c.run = r /\ c.sig = s /\ c.value = Earned(s, ev)
<1>1. PICK a, b, c :
        /\ a = [file |-> "ceiling", sig |-> s, value |-> ev.warns]
        /\ b = [file |-> "cover", sig |-> s, value |-> [pct |-> ev.pct, bite |-> ev.bite]]
        /\ c = [file |-> "state", run |-> r, sig |-> s, value |-> Earned(s, ev)]
  OBVIOUS
<1>2. W = <<a, b, c>>
  BY <1>1 DEF RecordingWrites, Writes, Tightened, Earned
<1>3. /\ b.file = "cover" /\ b.sig = s
      /\ b.value = [pct |-> ev.pct, bite |-> ev.bite]
      /\ c.file = "state" /\ c.run = r /\ c.sig = s /\ c.value = Earned(s, ev)
  BY <1>1
<1> QED
  BY <1>2, <1>3

\* What evidence that passes says of the two baselines of its node.
LEMMA Passing ==
  ASSUME FilesType, NEW s \in Sigs, NEW ev \in Evidence, RatchetGate(s, ev)
  PROVE  /\ ev.warns \in Nat /\ ev.warns \in Warns /\ ev.pct \in Nat /\ ev.pct \in Pcts
         /\ ev.clean /\ (s \in Biting => ev.bite)
         /\ ceiling[s] # Corrupt
         /\ ceiling[s] # Unset => ceiling[s] \in Nat /\ ev.warns <= ceiling[s]
         /\ cover[s] # Unset =>
              cover[s] \in Covers /\ cover[s].pct \in Nat /\ ev.pct >= cover[s].pct
         /\ floor # Corrupt
         /\ cover[s] = Unset /\ floor # Unset => ev.pct >= floor
BY RatchetAssumption
   DEF FilesType, Evidence, RatchetGate, BiteProven, WarnHolds, CoveragePasses,
       CoverageFloor, Warns, Pcts, Covers

\* Evidence still passes when its node's ceiling is set to its own warns.
LEMMA PassesItsCeiling ==
  ASSUME FilesType, NEW s \in Sigs, NEW ev \in Evidence, RatchetGate(s, ev),
         ceiling' = [ceiling EXCEPT ![s] = ev.warns], UNCHANGED <<cover, floor>>
  PROVE  RatchetGate(s, ev)'
<1>1. ceiling'[s] = ev.warns /\ ev.warns \in Nat
  BY Passing DEF FilesType
<1>2. WarnHolds(s, ev)'
  BY <1>1, RatchetAssumption DEF WarnHolds
<1>3. CoveragePasses(s, ev)'
  BY DEF RatchetGate, CoveragePasses, CoverageFloor
<1> QED
  BY <1>2, <1>3 DEF RatchetGate, BiteProven

\* And when the node's coverage entry is made from it.
LEMMA PassesItsCover ==
  ASSUME FilesType, NEW s \in Sigs, NEW ev \in Evidence, RatchetGate(s, ev),
         cover' = [cover EXCEPT ![s] = [pct |-> ev.pct, bite |-> ev.bite]],
         UNCHANGED <<ceiling, floor>>
  PROVE  RatchetGate(s, ev)'
<1>1. cover'[s] = [pct |-> ev.pct, bite |-> ev.bite] /\ ev.pct \in Pcts /\ floor # Corrupt
  BY Passing DEF FilesType
<1>2. cover'[s] # Unset /\ ev.pct \in Nat
  BY <1>1, RatchetAssumption DEF Evidence, Pcts
<1>3. CoveragePasses(s, ev)'
  BY <1>1, <1>2, RatchetAssumption DEF CoveragePasses, CoverageFloor
<1>4. WarnHolds(s, ev)'
  BY DEF RatchetGate, WarnHolds
<1> QED
  BY <1>3, <1>4 DEF RatchetGate, BiteProven

\* The evidence of another node is judged by that node's own entries.
LEMMA OthersPass ==
  ASSUME NEW t \in Sigs, NEW ev, RatchetGate(t, ev),
         ceiling'[t] = ceiling[t], cover'[t] = cover[t], floor' = floor
  PROVE  RatchetGate(t, ev)'
BY DEF RatchetGate, BiteProven, WarnHolds, CoveragePasses, CoverageFloor

-------------------------------------------------------------------------------
\* The three writes, one by one: each keeps the books.

\* What is accepted passes if it passes the live gate: the offline one asks
\* for less.
LEMMA AcceptedFrom ==
  ASSUME \A s \in Sigs : \A e : e = accepted'[s] /\ e # NoEvidence => RatchetGate(s, e)'
  PROVE  AcceptedStillPasses'
BY DEF AcceptedStillPasses, OfflineRatchetGate, RatchetGate, BiteProven, WarnHolds,
       CoveragePasses, CoverageFloor

\* The ceiling of a node, tightened to evidence that passes and is accepted.
LEMMA CeilingKeeps ==
  ASSUME Books, NEW s \in Sigs, NEW ev \in Evidence, RatchetGate(s, ev),
         ceiling' = [ceiling EXCEPT ![s] = ev.warns],
         UNCHANGED <<cover, floor, verdict>>,
         accepted' = [accepted EXCEPT ![s] = ev]
  PROVE  Books'
<1> USE DEF Books
<1>1. FilesType'
  BY Passing DEF FilesType
<1>2. RecordedBeforeGreen'
  <2> SUFFICES ASSUME NEW r \in Runs, NEW t \in Plan[r],
                      verdict[r][t].kind = "green" /\ verdict[r][t].recorded
               PROVE  /\ IsNumber(ceiling'[t]) /\ ceiling'[t] <= verdict[r][t].warns
                      /\ cover[t] # Unset /\ cover[t].pct # Corrupt
                      /\ cover[t].pct >= verdict[r][t].pct
    BY DEF RecordedBeforeGreen
  <2>1. /\ t \in Sigs /\ IsNumber(ceiling[t]) /\ ceiling[t] <= verdict[r][t].warns
        /\ verdict[r][t].warns \in Int
        /\ cover[t] # Unset /\ cover[t].pct # Corrupt
        /\ cover[t].pct >= verdict[r][t].pct
    BY RatchetAssumption DEF RecordedBeforeGreen, FilesType, VerdictType, None
  <2>2. CASE t = s
    <3>1. ceiling'[t] = ev.warns /\ ev.warns \in Nat
      BY <2>2, Passing DEF FilesType
    <3>2. ceiling[t] \in Nat /\ ev.warns <= ceiling[t]
      BY <2>1, <2>2, Passing DEF IsNumber
    <3> QED
      BY <2>1, <3>1, <3>2, RatchetAssumption DEF IsNumber
  <2>3. CASE t # s
    BY <2>1, <2>3 DEF FilesType
  <2> QED
    BY <2>2, <2>3
<1>3. AcceptedStillPasses'
  <2> SUFFICES ASSUME NEW t \in Sigs, NEW e, e = accepted'[t], e # NoEvidence
               PROVE  RatchetGate(t, e)'
    BY AcceptedFrom
  <2>1. CASE t = s
    BY <2>1, PassesItsCeiling DEF FilesType
  <2>2. CASE t # s
    <3>1. e = accepted[t] /\ RatchetGate(t, e)
      BY <2>2 DEF FilesType, AcceptedStillPasses
    <3> QED
      BY <2>2, <3>1, OthersPass DEF FilesType
  <2> QED
    BY <2>1, <2>2
<1> QED
  BY <1>1, <1>2, <1>3 DEF RecordedBites

\* The coverage of a node, tightened to the evidence accepted for it.
LEMMA CoverKeeps ==
  ASSUME Books, NEW s \in Sigs, NEW ev \in Evidence, RatchetGate(s, ev),
         accepted[s] = ev,
         cover' = [cover EXCEPT ![s] = [pct |-> ev.pct, bite |-> ev.bite]],
         UNCHANGED <<ceiling, floor, verdict, accepted>>
  PROVE  Books'
<1> USE DEF Books
<1>1. FilesType /\ ev.pct \in Pcts /\ ev.pct \in Nat /\ ev.pct # Corrupt
  BY Passing, RatchetAssumption
<1>2. cover'[s] = [pct |-> ev.pct, bite |-> ev.bite] /\ cover'[s] \in Covers
  BY <1>1 DEF FilesType, Covers, Evidence
<1>3. FilesType'
  BY <1>1, <1>2 DEF FilesType
<1>4. RecordedBeforeGreen'
  <2> SUFFICES ASSUME NEW r \in Runs, NEW t \in Plan[r],
                      verdict[r][t].kind = "green" /\ verdict[r][t].recorded
               PROVE  /\ IsNumber(ceiling[t]) /\ ceiling[t] <= verdict[r][t].warns
                      /\ cover'[t] # Unset /\ cover'[t].pct # Corrupt
                      /\ cover'[t].pct >= verdict[r][t].pct
    BY DEF RecordedBeforeGreen
  <2>1. /\ t \in Sigs /\ IsNumber(ceiling[t]) /\ ceiling[t] <= verdict[r][t].warns
        /\ verdict[r][t].pct \in Int
        /\ cover[t] # Unset /\ cover[t].pct # Corrupt
        /\ cover[t].pct >= verdict[r][t].pct
    BY RatchetAssumption DEF RecordedBeforeGreen, FilesType, VerdictType, None
  <2>2. CASE t = s
    <3>1. cover[t].pct \in Nat /\ ev.pct >= cover[t].pct
      BY <2>1, <2>2, Passing
    <3>2. cover'[t].pct = ev.pct /\ cover'[t] # Unset
      BY <1>2, <2>2, RatchetAssumption DEF Covers, Pcts
    <3> QED
      BY <1>1, <2>1, <3>1, <3>2
  <2>3. CASE t # s
    BY <2>1, <2>3 DEF FilesType
  <2> QED
    BY <2>2, <2>3
<1>5. AcceptedStillPasses'
  <2> SUFFICES ASSUME NEW t \in Sigs, NEW e, e = accepted[t], e # NoEvidence
               PROVE  RatchetGate(t, e)'
    BY AcceptedFrom
  <2>1. CASE t = s
    BY <2>1, PassesItsCover
  <2>2. CASE t # s
    BY <2>2, OthersPass DEF FilesType, AcceptedStillPasses
  <2> QED
    BY <2>1, <2>2
<1>6. RecordedBites'
  <2> SUFFICES ASSUME NEW t \in Biting, cover'[t] # Unset
               PROVE  cover'[t].pct = Corrupt \/ cover'[t].bite
    BY DEF RecordedBites
  <2>1. CASE t = s
    BY <1>2, <2>1, Passing
  <2>2. CASE t # s
    BY <2>2, RatchetAssumption DEF RecordedBites, FilesType
  <2> QED
    BY <2>1, <2>2
<1> QED
  BY <1>3, <1>4, <1>5, <1>6

\* A verdict in the state of a run, or none: a recorded green one only over
\* baselines as tight as it says.
LEMMA StateKeeps ==
  ASSUME Books, NEW r \in Runs, NEW s \in Plan[r], NEW v, VerdictType(v),
         v.kind = "green" /\ v.recorded =>
           /\ IsNumber(ceiling[s]) /\ ceiling[s] <= v.warns
           /\ cover[s] # Unset /\ cover[s].pct # Corrupt /\ cover[s].pct >= v.pct,
         verdict' = [verdict EXCEPT ![r][s] = v],
         UNCHANGED <<files, accepted>>
  PROVE  Books'
<1> USE DEF Books, files
<1>1. \A q \in Runs : \A t \in Plan[q] :
        verdict'[q][t] = IF q = r /\ t = s THEN v ELSE verdict[q][t]
  BY DEF FilesType
<1>2. verdict' = [q \in Runs |-> [t \in Plan[q] |-> verdict'[q][t]]]
  BY DEF FilesType
<1>3. FilesType'
  BY <1>1, <1>2 DEF FilesType
<1>4. RecordedBeforeGreen'
  BY <1>1 DEF RecordedBeforeGreen
<1>5. AcceptedStillPasses'
  BY DEF AcceptedStillPasses, OfflineRatchetGate, RatchetGate, BiteProven, WarnHolds,
         CoveragePasses, CoverageFloor
<1> QED
  BY <1>3, <1>4, <1>5 DEF RecordedBites

\* Nothing written, nothing accepted.
LEMMA NothingKeeps ==
  ASSUME Books, UNCHANGED <<files, verdict, accepted>>
  PROVE  Books'
BY DEF Books, files, FilesType, RecordedBeforeGreen, RecordedBites, AcceptedStillPasses,
       OfflineRatchetGate, RatchetGate, BiteProven, WarnHolds, CoveragePasses, CoverageFloor

-------------------------------------------------------------------------------
\* The ratchet itself.

\* What may become of the ceiling of a node, and of its coverage.
Tightens(s) ==
  /\ IsNumber(ceiling[s]) => IsNumber(ceiling'[s]) /\ ceiling'[s] <= ceiling[s]
  /\ ceiling[s] = Corrupt => ceiling'[s] = Corrupt
  /\ cover[s] # Unset =>
       /\ cover'[s] # Unset
       /\ IF cover[s].pct = Corrupt THEN cover'[s].pct = Corrupt
          ELSE cover'[s].pct # Corrupt /\ cover'[s].pct >= cover[s].pct

\* An entry that stays is as tight as it was.
LEMMA StaysTight ==
  ASSUME FilesType, NEW s \in Sigs, ceiling'[s] = ceiling[s], cover'[s] = cover[s]
  PROVE  Tightens(s)
BY RatchetAssumption DEF Tightens, FilesType, IsNumber, Warns, Pcts, Covers

\* A ceiling set to the warns of evidence that passes.
LEMMA CeilingTightens ==
  ASSUME FilesType, NEW s \in Sigs, NEW ev \in Evidence, RatchetGate(s, ev),
         ceiling' = [ceiling EXCEPT ![s] = ev.warns], UNCHANGED cover
  PROVE  \A t \in Sigs : Tightens(t)
<1>1. /\ ceiling'[s] = ev.warns /\ ev.warns \in Nat /\ ceiling[s] # Corrupt
      /\ ceiling[s] # Unset => ceiling[s] \in Nat /\ ev.warns <= ceiling[s]
  BY Passing DEF FilesType
<1>2. /\ IsNumber(ceiling[s]) => IsNumber(ceiling'[s]) /\ ceiling'[s] <= ceiling[s]
      /\ ceiling[s] = Corrupt => ceiling'[s] = Corrupt
  BY <1>1, RatchetAssumption DEF IsNumber
<1>3. Tightens(s)
  BY <1>2, StaysTight, RatchetAssumption DEF Tightens, FilesType, Covers, Pcts
<1>4. \A t \in Sigs : t # s => Tightens(t)
  BY StaysTight DEF FilesType
<1> QED
  BY <1>3, <1>4

\* A coverage entry made from evidence that passes.
LEMMA CoverTightens ==
  ASSUME FilesType, NEW s \in Sigs, NEW ev \in Evidence, RatchetGate(s, ev),
         cover' = [cover EXCEPT ![s] = [pct |-> ev.pct, bite |-> ev.bite]],
         UNCHANGED ceiling
  PROVE  \A t \in Sigs : Tightens(t)
<1>1. /\ cover'[s] = [pct |-> ev.pct, bite |-> ev.bite] /\ ev.pct \in Pcts /\ ev.pct \in Nat
      /\ cover[s] # Unset => cover[s].pct \in Nat /\ ev.pct >= cover[s].pct
  BY Passing DEF FilesType
<1>2. cover'[s] # Unset /\ cover'[s].pct = ev.pct
  BY <1>1, RatchetAssumption DEF Evidence, Pcts
<1>3. IsNumber(ceiling[s]) => ceiling[s] <= ceiling[s]
  BY RatchetAssumption DEF FilesType, IsNumber, Warns
<1>4. Tightens(s)
  BY <1>1, <1>2, <1>3, RatchetAssumption DEF Tightens
<1>5. \A t \in Sigs : t # s => Tightens(t)
  BY StaysTight DEF FilesType
<1> QED
  BY <1>4, <1>5

\* No baseline written.
LEMMA NothingTightens ==
  ASSUME FilesType, UNCHANGED <<ceiling, cover>>
  PROVE  \A t \in Sigs : Tightens(t)
BY StaysTight

-------------------------------------------------------------------------------
\* The actions.

\* A command that judges: it records, or it only says what it found.
LEMMA VerdictKeeps ==
  ASSUME IInv, NEW r \in Runs, NEW s \in Plan[r], NEW ev \in Evidence,
         NEW others \in BOOLEAN, NEW record \in BOOLEAN, Verdict(r, s, ev, others, record)
  PROVE  IInv' /\ \A t \in Sigs : Tightens(t)
<1>1. PICK green \in BOOLEAN : green = (RatchetGate(s, ev) /\ others)
  OBVIOUS
<1>2. PICK W : W = Writes(r, s, ev, green, record)
  OBVIOUS
<1>3. /\ s \in Sigs /\ Books
      /\ Write(Head(W)) /\ todo' = Tail(W) /\ UNCHANGED floor
      /\ accepted' = IF green /\ record THEN [accepted EXCEPT ![s] = ev] ELSE accepted
  BY <1>1, <1>2, RatchetAssumption DEF Verdict, IInv
<1>4. CASE green /\ record
  <2>1. RatchetGate(s, ev) /\ W = RecordingWrites(r, s, ev)
    BY <1>1, <1>2, <1>4 DEF RecordingWrites, Writes, Given
  <2>2. PICK a : Head(W) = a /\ a = [file |-> "ceiling", sig |-> s, value |-> ev.warns]
    BY <2>1, FirstWrite
  <2>3. ceiling' = [ceiling EXCEPT ![s] = ev.warns] /\ UNCHANGED <<cover, verdict>>
    <3>1. a.file = "ceiling" /\ a.sig = s /\ a.value = ev.warns
      BY <2>2
    <3> QED
      BY <1>3, <2>2, <3>1 DEF Write
  <2>4. Books' /\ RatchetGate(s, ev)'
    BY <1>3, <1>4, <2>1, <2>3, CeilingKeeps, PassesItsCeiling DEF Books
  <2>5. \A t \in Sigs : Tightens(t)
    BY <1>3, <2>1, <2>3, CeilingTightens DEF Books
  <2>6. accepted'[s] = ev /\ ceiling'[s] = ev.warns
    BY <1>3, <1>4, <2>3 DEF Books, FilesType
  <2>7. Recording(r, s, ev)'
    BY <1>3, <2>1, <2>4, <2>6 DEF Recording
  <2> QED
    BY <2>4, <2>5, <2>7 DEF IInv, Pending
<1>5. CASE ~ (green /\ record)
  <2>1. PICK v : /\ v = Given(s, ev, green, record)
                 /\ W = <<[file |-> "state", run |-> r, sig |-> s, value |-> v]>>
    BY <1>2, <1>5 DEF Writes
  <2>2. VerdictType(v) /\ v.recorded = FALSE
    BY <1>5, <2>1 DEF Given, VerdictType
  <2>3. todo' = <<>> /\ verdict' = [verdict EXCEPT ![r][s] = v]
        /\ UNCHANGED <<files, accepted>>
    <3>1. PICK w : w = [file |-> "state", run |-> r, sig |-> s, value |-> v]
      OBVIOUS
    <3>2. /\ Head(W) = w /\ Tail(W) = <<>>
          /\ w.file = "state" /\ w.run = r /\ w.sig = s /\ w.value = v
      BY <2>1, <3>1
    <3> QED
      BY <1>3, <1>5, <3>2 DEF Write, files
  <2>4. Books' /\ \A t \in Sigs : Tightens(t)
    BY <1>3, <2>2, <2>3, StateKeeps, NothingTightens DEF Books, files
  <2> QED
    BY <2>3, <2>4 DEF IInv, Pending
<1> QED
  BY <1>4, <1>5

\* The next write of a recording command: the coverage, then the state.
LEMMA NextWriteKeeps ==
  ASSUME IInv, NextWrite
  PROVE  IInv' /\ \A t \in Sigs : Tightens(t)
<1>1. PICK r \in Runs, s \in Sigs, ev \in Evidence : s \in Plan[r] /\ Recording(r, s, ev)
  BY RatchetAssumption DEF IInv, Pending, NextWrite
<1>2. PICK W : W = RecordingWrites(r, s, ev)
  OBVIOUS
<1>3. /\ s \in Plan[r] /\ Books /\ RatchetGate(s, ev)
      /\ accepted[s] = ev /\ ceiling[s] = ev.warns
      /\ Write(Head(todo)) /\ todo' = Tail(todo) /\ UNCHANGED <<floor, accepted>>
  BY <1>1 DEF IInv, Recording, NextWrite
<1>4. PICK a, b, c :
        /\ W = <<a, b, c>>
        /\ b.file = "cover" /\ b.sig = s /\ b.value = [pct |-> ev.pct, bite |-> ev.bite]
        /\ c.file = "state" /\ c.run = r /\ c.sig = s /\ c.value = Earned(s, ev)
  BY <1>2, LaterWrites
<1>5. CASE todo = Tail(W)
  <2>1. Head(todo) = b
    BY <1>4, <1>5
  <2>2. /\ cover' = [cover EXCEPT ![s] = [pct |-> ev.pct, bite |-> ev.bite]]
        /\ UNCHANGED <<ceiling, verdict>>
    BY <1>3, <1>4, <2>1 DEF Write
  <2>3. Books' /\ RatchetGate(s, ev)'
    BY <1>3, <2>2, CoverKeeps, PassesItsCover DEF Books
  <2>4. \A t \in Sigs : Tightens(t)
    BY <1>3, <2>2, CoverTightens DEF Books
  <2>5. /\ accepted'[s] = ev /\ ceiling'[s] = ev.warns
        /\ cover'[s] = [pct |-> ev.pct, bite |-> ev.bite]
        /\ todo' = Tail(Tail(W))
    BY <1>3, <1>5, <2>2 DEF Books, FilesType
  <2>6. Recording(r, s, ev)'
    BY <1>2, <2>3, <2>5 DEF Recording
  <2> QED
    BY <1>3, <2>3, <2>4, <2>6 DEF IInv, Pending
<1>6. CASE /\ cover[s] = [pct |-> ev.pct, bite |-> ev.bite]
           /\ todo = Tail(Tail(W))
  <2>1. PICK v : v = Earned(s, ev)
    OBVIOUS
  <2>2. Head(todo) = c /\ Tail(todo) = <<>>
    <3>1. Tail(W) = <<b, c>> /\ Tail(<<b, c>>) = <<c>>
      BY <1>4
    <3>2. Head(<<c>>) = c /\ Tail(<<c>>) = <<>>
      OBVIOUS
    <3> QED
      BY <1>6, <3>1, <3>2, Zenon
  <2>3. todo' = <<>> /\ verdict' = [verdict EXCEPT ![r][s] = v]
        /\ UNCHANGED <<files, accepted>>
    BY <1>3, <1>4, <2>1, <2>2 DEF Write, files
  <2>4. ev.warns \in Nat /\ ev.pct \in Nat /\ ev.pct \in Pcts /\ ev.bite \in BOOLEAN
    BY <1>3, Passing DEF Books, Evidence
  <2>5. VerdictType(v) /\ v.warns = ev.warns /\ v.pct = ev.pct
    BY <2>1, <2>4 DEF Earned, Given, VerdictType
  <2>6. cover[s] \in Covers /\ cover[s].pct = ev.pct
    BY <1>6, <2>4 DEF Covers
  <2>7. /\ IsNumber(ceiling[s]) /\ ceiling[s] <= v.warns
        /\ cover[s] # Unset /\ cover[s].pct # Corrupt /\ cover[s].pct >= v.pct
    BY <1>3, <2>4, <2>5, <2>6, RatchetAssumption DEF IsNumber, Covers, Pcts
  <2>8. Books' /\ \A t \in Sigs : Tightens(t)
    BY <1>3, <2>3, <2>5, <2>7, StateKeeps, NothingTightens DEF Books, files
  <2> QED
    BY <2>2, <2>3, <2>8 DEF IInv, Pending
<1> QED
  BY <1>1, <1>2, <1>5, <1>6 DEF Recording

\* A death, and a node generated again: a verdict less, nothing more.
LEMMA CrashKeeps ==
  ASSUME IInv, Crash
  PROVE  IInv' /\ \A t \in Sigs : Tightens(t)
BY NothingKeeps, NothingTightens DEF IInv, Books, files, Crash, Pending

LEMMA RegenerateKeeps ==
  ASSUME IInv, NEW r \in Runs, NEW s \in Plan[r], Regenerate(r, s)
  PROVE  IInv' /\ \A t \in Sigs : Tightens(t)
<1>1. Books' /\ \A t \in Sigs : Tightens(t)
  BY StateKeeps, NothingTightens DEF IInv, Books, files, Regenerate, VerdictType, None
<1> QED
  BY <1>1 DEF IInv, Regenerate, Pending

\* At the start nothing is given and nothing accepted.
LEMMA InitKeeps == Init => IInv
<1> SUFFICES ASSUME Init PROVE IInv
  OBVIOUS
<1>1. FilesType
  <2>1. ceiling \in [Sigs -> Warns \cup {Unset, Corrupt}]
    BY RatchetAssumption DEF Init, Warns
  <2>2. [pct |-> Corrupt, bite |-> FALSE] \in Covers
    BY DEF Covers
  <2>3. cover \in [Sigs -> Covers \cup {Unset}]
    BY <2>2 DEF Init
  <2>4. floor \in Pcts \cup {Unset, Corrupt}
    BY RatchetAssumption DEF Init, Pcts
  <2>5. /\ verdict = [r \in Runs |-> [s \in Plan[r] |-> verdict[r][s]]]
        /\ \A r \in Runs : \A s \in Plan[r] : verdict[r][s] = None
    BY DEF Init
  <2> QED
    BY <2>1, <2>3, <2>4, <2>5 DEF Init, FilesType, VerdictType
<1>2. RecordedBeforeGreen
  BY DEF Init, RecordedBeforeGreen, None
<1>3. AcceptedStillPasses
  BY DEF Init, AcceptedStillPasses
<1>4. RecordedBites
  BY RatchetAssumption DEF Init, RecordedBites
<1> QED
  BY <1>1, <1>2, <1>3, <1>4 DEF Init, IInv, Books, Pending

\* Every step keeps the invariant, and tightens what it changes.
LEMMA StepKeeps == IInv /\ [Next]_vars => IInv' /\ \A t \in Sigs : Tightens(t)
<1> SUFFICES ASSUME IInv, [Next]_vars PROVE IInv' /\ \A t \in Sigs : Tightens(t)
  OBVIOUS
<1>1. CASE UNCHANGED vars
  <2>1. Books' /\ \A t \in Sigs : Tightens(t)
    BY <1>1, NothingKeeps, NothingTightens DEF IInv, Books, vars, files
  <2>2. Pending'
    BY <1>1 DEF IInv, vars, files, Pending, Recording, RatchetGate, BiteProven, WarnHolds,
                CoveragePasses, CoverageFloor
  <2> QED
    BY <2>1, <2>2 DEF IInv
<1> QED
  BY <1>1, VerdictKeeps, NextWriteKeeps, CrashKeeps, RegenerateKeeps DEF Next, Judge

\* The inductive invariant holds in every reachable state.
THEOREM Invariant == Spec => []IInv
BY InitKeeps, StepKeeps, PTL DEF Spec

\* Never more than two writes are still to come.
LEMMA TodoIsShort ==
  ASSUME Pending
  PROVE  Len(todo) <= 2
<1>1. CASE todo = <<>>
  BY <1>1
<1>2. CASE todo # <<>>
  <2>1. PICK r \in Runs, s \in Sigs, ev \in Evidence : Recording(r, s, ev)
    BY <1>2, RatchetAssumption DEF Pending
  <2>2. PICK W : W = RecordingWrites(r, s, ev)
    OBVIOUS
  <2>3. PICK a, b, c : /\ W = <<a, b, c>>
                       /\ b.file = "cover" /\ b.sig = s
                       /\ b.value = [pct |-> ev.pct, bite |-> ev.bite]
                       /\ c.file = "state" /\ c.run = r /\ c.sig = s
                       /\ c.value = Earned(s, ev)
    BY <2>2, LaterWrites
  <2>4. Tail(W) = <<b, c>> /\ Tail(<<b, c>>) = <<c>>
    BY <2>3
  <2>5. todo = <<b, c>> \/ todo = <<c>>
    <3>1. todo = Tail(W) \/ todo = Tail(Tail(W))
      BY <2>1, <2>2 DEF Recording
    <3> QED
      BY <2>4, <3>1, Zenon
  <2>6. Len(<<b, c>>) <= 2 /\ Len(<<c>>) <= 2
    OBVIOUS
  <2> QED
    BY <2>5, <2>6, Zenon
<1> QED
  BY <1>1, <1>2

\* What was accepted is backed by the files, in every reachable state.
THEOREM Backed == Spec => []BackedByBaselines
<1>1. IInv => BackedByBaselines
  BY TodoIsShort DEF IInv, Books, FilesType, Covers, BackedByBaselines, TypeOK
<1> QED
  BY <1>1, Invariant, PTL

-------------------------------------------------------------------------------
\* The baselines only tighten.
THEOREM Tightening == Spec => OnlyTightens
<1>1. IInv /\ [Next]_vars => [\A s \in Sigs : Tightens(s)]_vars
  BY StepKeeps
<1> QED
  BY <1>1, Invariant, PTL DEF Spec, OnlyTightens, Tightens
===============================================================================
