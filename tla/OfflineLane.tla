------------------------------ MODULE OfflineLane ------------------------------
(***************************************************************************)
(* An offline run as it is driven: one session (the fulfiller) asks the    *)
(* driver for the next action, generates what it was given, reports each   *)
(* self-check and runs the offline verdict step                            *)
(* (moderniser/src/cli-drive.js, cmdDrive).  What was handed out is in the *)
(* session's memory only; a session that dies loses it and a new one asks  *)
(* again.  People ratify an architecture, take a ratification back, and    *)
(* sign a retirement or a handoff when they like, and perhaps never; a     *)
(* report on a node whose ratification was taken back is refused, and the  *)
(* session puts it aside.                                                  *)
(*                                                                         *)
(* The live verbs, parking and manual seams are in SchedLoop and           *)
(* SchedDriver, and take no part here.                                     *)
(***************************************************************************)
EXTENDS SchedDriver

CONSTANTS
  MaxCrashes,     \* bound of the model: sessions that die
  MaxVoids        \* bound of the model: ratifications taken back

ASSUME LaneAssumption == MaxCrashes \in Nat /\ MaxVoids \in Nat

VARIABLES
  inHand,   \* the nodes whose packets the session still has to report on
  lost,     \* history: nodes whose last packet nobody has any more
  crashes,  \* sessions that died so far
  voids     \* ratifications taken back so far

laneVars == <<vars, inHand, lost, crashes, voids>>

LaneInit == Init /\ inHand = {} /\ lost = {} /\ crashes = 0 /\ voids = 0

-------------------------------------------------------------------------------
\* drive <run_id>: a read-only step that hands out a batch.
Ask ==
  /\ inHand = {}
  /\ Decision.action = "generate"
  /\ inHand' = Decision.nodes
  /\ lost' = lost \ Decision.nodes
  /\ UNCHANGED <<vars, crashes, voids>>

\* drive --report <n>=syntax_ok.
SelfCheckPassed(n) ==
  /\ n \in inHand
  /\ ReportSyntaxOk(n)
  /\ inHand' = inHand \ {n}
  /\ UNCHANGED <<lost, crashes, voids>>

\* drive --report <n>=syntax_fail: the answer hands the node out again, unless
\* it went into quarantine.
SelfCheckFailed(n) ==
  /\ n \in inHand
  /\ \/ ReportSyntaxFail(n) /\ UNCHANGED inHand
     \/ ReportSyntaxCeiling(n) /\ inHand' = inHand \ {n}
  /\ UNCHANGED <<lost, crashes, voids>>

\* A report that the arch gate refuses: nothing is written, and the session
\* has no use for the packet.
PutAside(n) ==
  /\ n \in inHand
  /\ ~ ArchClear(n)
  /\ inHand' = inHand \ {n}
  /\ lost' = lost \cup {n}
  /\ UNCHANGED <<vars, crashes, voids>>

\* drive --verdict <n>: also repeated on a node that rests, as every resumed
\* session does.
VerdictStep(n) ==
  /\ n \notin inHand
  /\ \/ \E passed \in BOOLEAN : ReportOfflineVerdict(n, passed) /\ UNCHANGED inHand
     \/ ReportOfflineDefect(n) /\ inHand' = inHand \cup {n}
     \/ ReportOfflineCeiling(n) /\ UNCHANGED inHand
  /\ UNCHANGED <<lost, crashes, voids>>

\* The retire action: ground the node, then record the signed drop.
RetireStep(n) ==
  /\ Decision.action = "retire" /\ n \in Decision.nodes
  /\ Dispatch(n) \/ ResolveUnbuilt(n, "RETIRED")
  /\ UNCHANGED <<inHand, lost, crashes, voids>>

\* outcome <n> REBUILT_HANDOFF, signed, from the offline rest state.
Handoff(n) ==
  /\ status[n] = "PROVISIONAL_GATED"
  /\ ResolveUnbuilt(n, "REBUILT_HANDOFF")
  /\ UNCHANGED <<inHand, lost, crashes, voids>>

\* decide <ARCH_REVIEW> approve.
Ratify(n) ==
  /\ SetArchRatified(n, TRUE)
  /\ UNCHANGED <<inHand, lost, crashes, voids>>

\* decide <ARCH_REVIEW> refine | reject, also while the node is in hand.
Void(n) ==
  /\ archRatified[n]
  /\ voids < MaxVoids
  /\ voids' = voids + 1
  /\ SetArchRatified(n, FALSE)
  /\ UNCHANGED <<inHand, lost, crashes>>

Crash ==
  /\ inHand # {}
  /\ crashes < MaxCrashes
  /\ crashes' = crashes + 1
  /\ inHand' = {}
  /\ lost' = lost \cup inHand
  /\ UNCHANGED <<vars, voids>>

-------------------------------------------------------------------------------
LaneNext ==
  \/ Ask
  \/ \E n \in Node : \/ SelfCheckPassed(n) \/ SelfCheckFailed(n) \/ PutAside(n)
                     \/ VerdictStep(n) \/ RetireStep(n)
                     \/ Handoff(n) \/ Ratify(n) \/ Void(n)
  \/ Crash

\* The session keeps asking, and reports on what it was given or puts it
\* aside.  How a check or a verdict comes out, and whether a verdict is asked
\* for at all, is open; a person is never obliged to act.
Fairness ==
  /\ WF_laneVars(Ask)
  /\ \A n \in Node : WF_laneVars(SelfCheckPassed(n) \/ SelfCheckFailed(n) \/ PutAside(n))

LaneSpec == LaneInit /\ [][LaneNext]_laneVars /\ Fairness

-------------------------------------------------------------------------------
(***************************************************************************)
(* The retry loops end: whatever the self-checks and verdicts say, and     *)
(* however often they are repeated, the session comes to a state in which  *)
(* it has nothing left to generate, and stays in such states until a       *)
(* person acts (who can only act finitely often here: a signature is       *)
(* final, and ratifications are taken back at most MaxVoids times).        *)
(***************************************************************************)
LaneSettles == <>[](inHand = {} /\ Decision.action # "generate")

(***************************************************************************)
(* The retry budget: no node ever gets more artifacts than its first and   *)
(* one for each refinement retry.                                          *)
(***************************************************************************)
RetryBudget == \A n \in Node : generation[n] <= MaxPhaseRetryCycles + 1

(***************************************************************************)
(* A run wedges only on lost work: when the driver answers "blocked" while *)
(* the session has nothing in hand, each node it names had a packet that   *)
(* died with a session or was put aside after its ratification was taken   *)
(* back, and was not handed out again.                                     *)
(***************************************************************************)
WedgedOnlyByLoss ==
  inHand = {} /\ Decision.action = "blocked" => Decision.nodes \subseteq lost

(***************************************************************************)
(* What the session has in hand it can report on, whatever its own reports *)
(* on other nodes and the people do meanwhile, with one exception: a person *)
(* may have taken the ratification back.  Then the node has not moved      *)
(* either, and is one that the driver says waits for ratification.         *)
(***************************************************************************)
InHandIsReportable ==
  \A n \in inHand :
    /\ status[n] \in {"PENDING", "GENERATED"} /\ Buildable(n)
    /\ ArchClear(n) => MayGenerate(n)
    /\ ~ ArchClear(n) => n \in AwaitingArch

-------------------------------------------------------------------------------
\* What the repository says of an offline run, and the driver does not do.

(***************************************************************************)
(* DEVELOPER_GUIDE.md, line 182: "SYNTAX_OK is only a mid-flight pass      *)
(* state, not the terminus", and line 206: provisional_complete means      *)
(* "the offline judge extracted every signal it honestly can,              *)
(* self-corrected what it could, and handed you a drafted + judged +       *)
(* evidence-backed bundle".  So no draft is without a verdict then, unless *)
(* it is in quarantine.                                                    *)
(***************************************************************************)
CompletionIsJudged ==
  Decision.action = "provisional_complete" =>
    \A n \in Node : generation[n] > 0 /\ status[n] # "BLOCK" =>
      lastVerdict[n].artifact = generation[n]
===============================================================================
