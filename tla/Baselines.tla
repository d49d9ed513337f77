------------------------------- MODULE Baselines -------------------------------
(***************************************************************************)
(* The quality ratchet: the two baseline files shared by every run, and    *)
(* the verdict command that reads them, judges a node against them and,    *)
(* with --record, tightens them.  Commands are serial.  A recording        *)
(* command writes three files one after the other (warn ceilings, coverage *)
(* floors, run state) and may die between any two; the operator then types *)
(* the command again, with the same evidence or with new.                  *)
(***************************************************************************)
EXTENDS Integers, Sequences

CONSTANTS Runs, Sigs,
          Plan,                 \* the nodes of each run
          Biting,               \* the nodes whose tests must bite
          MaxWarns, MaxPct,     \* bounds: warns on changed lines, coverage
          Unset, Corrupt        \* an absent entry, one that is no finite number

ASSUME RatchetAssumption ==
  /\ Plan \in [Runs -> SUBSET Sigs] /\ Biting \subseteq Sigs
  /\ MaxWarns \in Nat /\ MaxPct \in Nat \ {0}
  /\ Unset # Corrupt /\ Unset \notin Nat /\ Corrupt \notin Nat
  /\ Unset \notin [pct : (0..MaxPct) \cup {Corrupt}, bite : BOOLEAN]

VARIABLES
  ceiling,   \* atc-baseline.json: per node the warns allowed on changed lines
  cover,     \* abapunit-baseline.json: per node [pct, bite]
  floor,     \* the harness-wide coverage floor of the same file
  verdict,   \* per run and node the saved verdict (None: cleared or never given)
  todo,      \* the writes the command has still to make
  accepted   \* history: per node the evidence of the last recording green verdict

files == <<ceiling, cover, floor>>
vars == <<files, verdict, todo, accepted>>

None == [kind |-> "none"]
Warns == 0..MaxWarns
Pcts == 0..MaxPct
IsNumber(x) == x \notin {Unset, Corrupt}

\* What the tools report: warns is warnOnChangedLines, Unset when the diff or
\* the warns are missing or malformed; clean: no priority 1 or 2 finding.
Evidence ==
  [clean : BOOLEAN, bite : BOOLEAN, pct : Pcts \cup {Unset}, warns : Warns \cup {Unset}]
NoEvidence == [kind |-> "noevidence"]

CeilingIgnored(sig, ev) == ev.warns # Unset /\ ceiling[sig] # Corrupt

(* warnDelta: the count against the node's own ceiling, if it has one.     *)
WarnHolds(sig, ev) ==
  /\ ev.warns # Unset
  /\ ceiling[sig] # Corrupt
  /\ ceiling[sig] # Unset => ev.warns <= ceiling[sig]

CoverageFloor(sig) ==
  IF cover[sig] # Unset THEN cover[sig].pct ELSE IF floor # Unset THEN floor ELSE 0

CoveragePasses(sig, ev) ==
  /\ ev.pct # Unset
  /\ cover[sig] # Unset => cover[sig].pct # Corrupt
  /\ floor # Corrupt
  /\ ev.pct >= CoverageFloor(sig)

BiteProven(sig, ev) == sig \in Biting => ev.bite

RatchetGate(sig, ev) ==
  /\ ev.clean
  /\ BiteProven(sig, ev)
  /\ WarnHolds(sig, ev)
  /\ CoveragePasses(sig, ev)

OfflineRatchetGate(sig, ev) == ev.clean /\ WarnHolds(sig, ev)
-------------------------------------------------------------------------------
\* Files left by earlier work, a hand edit or a merge: any entry may be corrupt.
Init ==
  /\ ceiling \in [Sigs -> {Unset, Corrupt, MaxWarns}]
  /\ cover \in [Sigs -> {Unset, [pct |-> Corrupt, bite |-> FALSE]}]
  /\ floor \in {Unset, Corrupt, 1}
  /\ verdict = [r \in Runs |-> [s \in Plan[r] |-> None]]
  /\ todo = <<>>
  /\ accepted = [s \in Sigs |-> NoEvidence]

Given(sig, ev, green, record) ==
  [kind |-> IF green THEN "green" ELSE "block", recorded |-> green /\ record,
   warns |-> IF green /\ record THEN ev.warns ELSE 0,
   pct |-> IF green /\ record THEN ev.pct ELSE 0]

(* onPass: what the two files become.                                      *)
Tightened(sig, ev) ==
  [ceiling |-> ev.warns, cover |-> [pct |-> ev.pct, bite |-> ev.bite]]

\* One write: a whole file, put in place by an atomic rename.
Write(w) ==
  CASE w.file = "ceiling" -> /\ ceiling' = [ceiling EXCEPT ![w.sig] = w.value]
                             /\ UNCHANGED <<cover, verdict>>
    [] w.file = "cover"   -> /\ cover' = [cover EXCEPT ![w.sig] = w.value]
                             /\ UNCHANGED <<ceiling, verdict>>
    [] w.file = "state"   -> /\ verdict' = [verdict EXCEPT ![w.run][w.sig] = w.value]
                             /\ UNCHANGED <<ceiling, cover>>

WritesStateFirst(run, sig, ev, green, record) ==
  LET state == [file |-> "state", run |-> run, sig |-> sig,
                value |-> Given(sig, ev, green, record)]
      pair  == Tightened(sig, ev)
  IN  IF green /\ record
      THEN <<state, [file |-> "ceiling", sig |-> sig, value |-> pair.ceiling],
             [file |-> "cover", sig |-> sig, value |-> pair.cover]>>
      ELSE <<state>>

Writes(run, sig, ev, green, record) ==
  LET state == [file |-> "state", run |-> run, sig |-> sig,
                value |-> Given(sig, ev, green, record)]
      pair  == Tightened(sig, ev)
  IN  IF green /\ record
      THEN <<[file |-> "ceiling", sig |-> sig, value |-> pair.ceiling],
             [file |-> "cover", sig |-> sig, value |-> pair.cover], state>>
      ELSE <<state>>

(* verdict [--record]: the other conjuncts of the node verdict may fail.   *)
Verdict(run, sig, ev, others, record) ==
  /\ todo = <<>>
  /\ LET green  == RatchetGate(sig, ev) /\ others
         writes == Writes(run, sig, ev, green, record)
     IN  /\ Write(Head(writes))
         /\ todo' = Tail(writes)
         /\ accepted' = IF green /\ record
                        THEN [accepted EXCEPT ![sig] = ev] ELSE accepted
  /\ UNCHANGED floor

NextWrite ==
  /\ todo # <<>>
  /\ Write(Head(todo))
  /\ todo' = Tail(todo)
  /\ UNCHANGED <<floor, accepted>>

\* The process dies: its remaining writes never happen.
Crash == todo # <<>> /\ todo' = <<>> /\ UNCHANGED <<files, verdict, accepted>>

(* The retry edge: a regenerated node has no verdict, and is gated again.  *)
Regenerate(run, sig) ==
  /\ todo = <<>> /\ verdict[run][sig] # None
  /\ verdict' = [verdict EXCEPT ![run][sig] = None]
  /\ UNCHANGED <<files, todo, accepted>>

Judge ==
  \E run \in Runs : \E sig \in Plan[run], ev \in Evidence, others, record \in BOOLEAN :
    Verdict(run, sig, ev, others, record)

Next ==
  \/ Judge
  \/ NextWrite
  \/ Crash
  \/ \E run \in Runs : \E sig \in Plan[run] : Regenerate(run, sig)

Spec == Init /\ [][Next]_vars
-------------------------------------------------------------------------------
TypeOK ==
  /\ ceiling \in [Sigs -> Warns \cup {Unset, Corrupt}]
  /\ \A s \in Sigs : cover[s] = Unset \/
       cover[s] \in [pct : Pcts \cup {Corrupt}, bite : BOOLEAN]
  /\ floor \in Pcts \cup {Unset, Corrupt}
  /\ Len(todo) <= 2
  /\ \A s \in Sigs : accepted[s] = NoEvidence \/ accepted[s] \in Evidence

(***************************************************************************)
(* Quality only tightens, across runs, crashes and retries: an established *)
(* ceiling never rises and never disappears, an established coverage never *)
(* falls, and an entry that is no number is never replaced by one that     *)
(* would let the node pass (cli-io.js writeBaselinePair, ratchet.js).      *)
(***************************************************************************)
OnlyTightens == [][\A s \in Sigs :
  /\ IsNumber(ceiling[s]) => IsNumber(ceiling'[s]) /\ ceiling'[s] <= ceiling[s]
  /\ ceiling[s] = Corrupt => ceiling'[s] = Corrupt
  /\ cover[s] # Unset =>
       /\ cover'[s] # Unset
       /\ IF cover[s].pct = Corrupt THEN cover'[s].pct = Corrupt
          ELSE cover'[s].pct # Corrupt /\ cover'[s].pct >= cover[s].pct]_vars

(***************************************************************************)
(* Baselines before state (cli.js cmdVerdict): a recorded green verdict    *)
(* that is on disk was earned on baselines that are on disk, at least as   *)
(* tight as the evidence it was given for.  A crash between the writes     *)
(* over-blocks, it never leaves a green without its ceilings.              *)
(***************************************************************************)
RecordedBeforeGreen == \A r \in Runs : \A s \in Plan[r] :
  verdict[r][s].kind = "green" /\ verdict[r][s].recorded =>
    /\ IsNumber(ceiling[s]) /\ ceiling[s] <= verdict[r][s].warns
    /\ cover[s] # Unset /\ cover[s].pct # Corrupt /\ cover[s].pct >= verdict[r][s].pct

(***************************************************************************)
(* A torn pair heals: at every point of a recording command, and after its *)
(* death at any point, the evidence it accepted still passes, on the live  *)
(* gate and on the offline one, so the command can simply be typed again.  *)
(***************************************************************************)
AcceptedStillPasses == \A s \in Sigs :
  accepted[s] # NoEvidence =>
    RatchetGate(s, accepted[s]) /\ OfflineRatchetGate(s, accepted[s])

(***************************************************************************)
(* Coverage counts only with a bite: where the plan asks for a             *)
(* characterization test, a recorded coverage came with a proven one.      *)
(***************************************************************************)
RecordedBites == \A s \in Biting :
  cover[s] # Unset => cover[s].pct = Corrupt \/ cover[s].bite

(***************************************************************************)
(* What was accepted is backed by the files, at every point of a recording *)
(* command and after its death: a green by its ceilings, a coverage by its *)
(* bite, and the same evidence by another pass.                            *)
(***************************************************************************)
BackedByBaselines ==
  /\ TypeOK
  /\ RecordedBeforeGreen
  /\ AcceptedStillPasses
  /\ RecordedBites
===============================================================================
