# Verification of the AI harness for SAP (moderniser)

The repository contains a harness that modernises custom SAP code. Its core, under `src/moderniser/`,
is a deterministic scheduler: it freezes a plan (a graph of ABAP objects, condensed to super-nodes with
a disposition each), hands nodes to code generators, records what self-checks, offline judges, a live
SAP system and people say about them, and decides what comes next. All of its promises are about
*order*: nothing is built over an unresolved dependency, nothing completes on a failed or stale verdict,
nothing a person rejected goes through, and a run ends, or says honestly why it does not. The state is in
JSON files that short commands load, change and save, while agents, people and resumed sessions issue
those commands in whatever order they like. This directory models that core in TLA+, checks it with TLC on
small plans, and proves with TLAPS, for every plan, the safety properties of the reducer, the driver, the
registers, the plan-time gates, the ratchet and the ADT lane.

How to run, from this directory:

    tlc -workers 2 -config MCSchedLoop.cfg MCSchedLoop      # any MC module with one of its configurations
    tlapm SchedLoop_proofs.tla                              # any of the modules *_proofs

`PROJECT.json` lists components, runs, the mutation of the model that each checked property catches, the
source lines of every definition, the hazards, and the theorems.

## 1. Inventory

Paths are relative to `src/moderniser/src/` unless they begin with `src/`.

| Component | Code | State | Operations | Must hold |
|---|---|---|---|---|
| Node lifecycle | `state/node-status.js`, `sched/terminals.js` | none (tables) | `canTransition`, `isRetry`, terminal sets | only legal moves; the retry ceiling |
| Scheduler reducer | `sched/loop.js`, `sched/verdict-ops.js`, `sched/terminals.js` | run state: status, live in-degree, cycle and syntax counters, artifact generation, two verdict books, quarantine, park and sign-off rows | `initRun`, `dispatch`, `applyProgress`, `applyOutcome`, `recordVerdict`, `recordProvisionalVerdict` | bottom-up order, GREEN is earned, rows agree with statuses, resolved is final |
| Activation mutex | `sched/loop.js` | transport -> owner | acquire, release, release by a terminal | a held mutex passes to nobody (that activations are serialised is not ensured: section 4) |
| Frontier | `sched/frontier.js`, `sched/plan-views.js`, `sched/risk.js` | none | `nextFrontier`, `riskComparator` | batch is independent, capped, worst first, starves nobody |
| Drive automaton | `sched/drive.js` | none of its own | `driveDecision`, `driveReport`, `driveOfflineVerdict` | never waits while work can go on; completion leaves nobody to ask; ceilings |
| Offline lane | `cli-drive.js`, `cli.js` | what a session holds in memory | drive, `--report`, `--verdict`, crash | retries end; only lost work wedges a run; what is in hand can be reported |
| Attestation register | `exception/escalation-bus.js`, `cli-attest.js`, `cli-escalations.js`, `cli-drive.js` | `escalations.json`, shared by all runs | raise, decide, join, `plan --force`, surface | last event counts; an attestation binds one artifact of one run; no storm; an owed gate is raised |
| Park register | `exception/park.js`, `cli-park.js`, `cli-io.js` | `park-register.json`, shared by all runs | PARK, `reprobe`, re-entry, crash between two writes | a parked node is audited and re-enters |
| Plan-time gates, replan | `plan/arch-gate.js`, `plan/replan-overrides.js`, `cli-arch*.js`, `cli-replan.js`, `cli-conformance.js`, `sched/plan.js` | plans, contracts, manifest, register, judge's cache | `disposition`, `arch`, `arch-verdict`, `arch-review`, `decide`, `replan`, `conformance` | no contract of another plan or unreviewed is in force; nothing a person said is lost; everybody waited for is asked; what is built is what was ratified |
| Quality ratchet | `state/ratchet.js`, `cli.js`, `cli-io.js` | baseline pair, run states | `verdict --record`, freeze, crash between writes | quality only tightens; a green is backed by its baselines |
| Escalation policy | `exception/oscillation.js`, `risk-gate.js`, `cycle-gate.js`, `cli-cycle.js` | verdict series, seam memory | cluster, wave level, surface, resolve a cycle | a stable node is not called oscillating; blocking rows surface; a learned seam was decided about that cycle |
| Graph and plan assembly | `graph/*.js`, `sched/assemble.js`, `levels.js`, `plan.js`, `node/scope.js` | none | components, condensation, waves, conflict groups, pools, cuts, freeze and load | acyclic, order of the code kept, no more cut than needed, a plan is its hash |
| Node verdict | `node/*.js` | none | compare, judge, triage | a missing signal is never a pass; an attestation settles only what is attestable |
| Disposition and architecture planning | `plan/*.js`, `plan/patterns/` | judge's cache | ground, classify, match, resolve, assemble the blueprint | automatic only on proof; evidence of every member and callee; a blueprint that always holds |
| Extraction | `extract/*.js`, `graph/sources.js` | none | footprints of ABAP sources | no check lost unseen |
| Sweep ledger | `cli-sweep.js` | ledger file | order, mark | follows the waves; a failed draft is none |
| ADT sidecar, MCP bridge | `src/sap-adt-sidecar/`, `src/mcp-adt-bridge/` | session, CSRF token; in SAP: locks, versions, jobs | 18 tools, eight shapes of request sequences | answers are true, one writer, no leaked lock, every call answered |
| Analyser | `src/analyser/` | none | plan units, blast radius, finding identity, flow windows, registries, rule packs | identity survives moves; windows are windows |
| Greenfield checks, oracle | `src/greenfield/`, `src/oracle/` | none | what two registries say of a name; lint rules | the weakest authoritative state decides |
| Integrations | `src/integrations/` | none | merge gate, usage exports | fails closed; absence is no evidence |
| Scripts, data, demos | `src/scripts/` | none | - | - |

**How they interact.** A command loads the run state, calls one pure verb of the reducer (or one
automaton function, which composes several), and saves the result with one atomic rename: an accepted
command is one step, a refused one none. The automaton offers a batch and takes reports. The
offline judge may end in a verdict only a person can turn into a pass; then the verdict step saves, and
*afterwards* raises a row in the shared escalations register, and the next verdict step joins the decision
back by node, run, epoch and artifact. PARK and `reprobe` write two files, one shared; a recorded verdict
writes three; `arch` and `replan` write up to four. `plan` freezes what all of this reads: the graph of
the analyser, condensed, in waves, with a disposition per node; a gated disposition needs an architecture
contract, which a judge proposes (over a cache), a reviewer reviews and a person ratifies, and a person's
override becomes a new plan. On a live lane the tools reach SAP through the bridge and the sidecar.

**What is hard here.** Long sequences of legal verbs (detours through quarantine, park and re-entry over
counters that are decremented and never recomputed); verdicts that outlive what they judged; late and
repeated reports; commands that die between two writes; registers shared by runs that also share nodes;
ids that are re-used when a run is recreated; people who decide on what they saw a while ago; loops that
must end without anybody counting on purpose; lost requests under a lock; judgments that must fail
closed on what is absent; graph algorithms that are wrong only on nested cycles. `PROJECT.json` lists each
at its line.

## 2. Modules

| Module | Models | Notes |
|---|---|---|
| `NodeStatus` | the transition table | pure; every guard goes through `CanTransition` |
| `RunContract` | abstract specification | waiting, working, held, done; work only over what is done |
| `SchedLoop` | the reducer | one action per verb; implements `RunContract` |
| `Frontier` | the risk order and the greedy batch | a recursive function of one number |
| `SchedDriver` | the automaton over `SchedLoop` and `Frontier` | `Decision` is the answer; reports are compound atomic steps beside the granular verbs |
| `OfflineLane` | one session over `SchedDriver` | what is in hand, lost or put aside; crashes; ratifications taken back; fairness |
| `ActivationMutex` | the mutex over `SchedDriver` | acquire and release beside every verb and report, which do not ask for it |
| `Attestation` | the escalations register, several runs | epochs, generations, crash after the save |
| `ParkRegister` | the park audit and the states of several runs | two writes per command, crash between; `foreign` says whose row another run wrote |
| `PlanGates` | the plan-time commands over plans, states, manifests, contract files, cache and register | `todo` is what a command has computed and not yet written; `Die` at any write |
| `Baselines` | the ratchet: baseline pair and run states | `todo` again: ceilings, coverage, state |
| `AdtPromise` | abstract specification of the ADT lane | a blocked call changes nothing, changes and publications are counted and happen at most once per call, done comes after them |
| `Sidecar` | bridge, sidecar and SAP | one request per step, lost, refused or late; jobs that end well, badly or without a result; implements `AdtPromise` |
| `Footprint`, `Verdict` | what is extracted and compared; what is decided from it | functions |
| `Evidence`, `ArchDesign` | facts, dispositions and advice; shapes, cached verdicts, blueprint | functions |
| `GraphPlan` | components, waves, plan | functions, with the explicit stacks and queues of the code |
| `PlanRecord` | the frozen plan, conformance, group evidence, dropped objects | functions |
| `Seams` | cuts of large cycles, learned resolutions of cycles, the sweep | functions, over worklists and sequences of decisions |
| `Migration`, `Registry` | the analyser's plan, blast radius, finding identity and flow windows; the two registries of released names | functions |
| `Integrations` | usage exports and signals; the merge gate | functions |
| `SchedLoop_proofs`, `SchedDriver_proofs` (with the session and the mutex), `Attestation_proofs`, `ParkRegister_proofs`, `PlanGates_proofs`, `Baselines_proofs`, `Sidecar_proofs`, `Computations_proofs` | theorems | section 5 |
| `MC*` | instances for TLC | `MCComputations` collects the bounded inputs of all functions, from `MCJudging`, `MCRelease`, `MCBatch`, `MCDesign` and `MCPlanning`; `Sidecar` is its own instance |

**Correspondence, scheduler.** `SchedLoop`'s variables are the fields of the run state (`status`, `live_indegree`,
`cycle`, `syntax_attempts`, `artifact_generation`, `verdict_green`, `verdict_provisional`,
`deferral_track`, `park_register`, `disposition_register`), and `archRatified`, which stands for
`isArchRatified(state, n)`. `lastVerdict` is a history variable that no guard reads: it says which artifact
the last verdict was about. `dispatch` is `Dispatch`, `applyProgress` is `Progress` and, towards PENDING,
`ReEnter`; `applyOutcome` is `Green`, `Block`, `Park`, `Seam`, `ResolveUnbuilt`, one per terminal.
`driveReport` splits by event and by its ceiling into `ReportSyntaxOk`, `ReportSyntaxFail`,
`ReportSyntaxCeiling`; `driveOfflineVerdict` by triage into `ReportOfflineVerdict` (a pass, or a failure
only an attestation can clear), `ReportOfflineDefect` and `ReportOfflineCeiling`; which triage it is is
`afterFailure` in `Verdict`. `driveDecision` is `Decision`, in the order of its returns. In `Attestation` a
row keeps the time of its last event, as the join does by comparing `decided_at` and `raised_at`; each
command that stamps a time has a time of its own.

**Correspondence, plan time.** In `PlanGates` a run is its plan, as in the code, where its id is the hash.
A command (`Disposition`, `Arch`, `ArchVerdict`, `ArchReview`, the three `Decide...`, `Replan`) computes its
writes in one step and makes the first; `MakeWrite` makes the next one, `Die` forgets the rest. A contract
is its hash. `Final` is the last word on a node (`latestEvent`), `NextPlan` what `replan` re-freezes,
`Migrated` what it carries into the new state, `Superseded` what it reports as no longer in force. `arch` writes
each contract file, the manifest, the state and the register, in this order (`ArchWrites`). The reviewer is an
agent that reads the file of the bound contract (`ReviewerReads`) at one moment and whose verdict is given at
another, when the command stamps what is bound by then; `Overtaken` marks a reading that is not of it. `word` is a history of
who stands behind a contract: a person's approval, or a reviewer's pass, which counts in the code without any
person and also after a person's refusal.

**Correspondence, ratchet and ADT lane.** `Baselines` has the pair of files per node and the verdict books
of the runs; `Verdict` is `cmdVerdict` with the live gate, recording or not; an entry may be `Corrupt`. In
`Sidecar`, `left[c]` is the list of requests a handler has still to make (`UpdateSource` is lock, put,
unlock in its `finally`), and a step is one request of one call: it is answered, refused, answered too
late, or lost before or after SAP acted; `LockExpires` drops a lock of a session that is gone, `SidecarDies` ends
every handler. A batch is answered at once (`BatchAtOnce`) or by a job, and a job ends good, bad or aborted; what
each of the three pollers takes that for is `Unfinished`, `AtcComplete` and `Poll`. SAP itself is modelled from what the handlers rely on: a lock has one holder, a put needs
it, a job runs by itself, and the page of a finished activation carries its messages.

**Correspondence, functions.** Operators have the names of the functions they translate. Where the code
has an explicit stack or worklist that decides the result (`tarjanSccs`, `elsOrder`, `minFeedbackArcSet`,
`levelsOf`), so does the model, in the order of names; where the code only collects, the model is a set.
`Footprint` begins at statements, `Evidence` at names about which the patterns have already answered,
`PlanRecord` takes a hash for its content, except where the code does: a contract file has contents and, beside
them, the hash it claims (`loadContract`). In `Evidence` a name has the oracle's state, from which `releaseState`
makes the analyser's words, and a namespace, which three rules read in three ways (`CUSTOMER_NS`, `CUSTOMER_NAME`,
`ownsName`).

The definitions called `...Variant`, `...Storm`, `...Uncounted`, `...OfFirst` and the like are plausible
defects, used to show that a property catches them; no specification uses them.

**Abstractions.** Nodes, transports, resources and successors are model values or small numbers. A
verdict is pass, fail or absent; a block reason is "no released successor" or a defect. In `SchedLoop` the plan is a
constant: a state of another plan is refused by every verb. Self-checks, judges, the SAP system and people
are nondeterministic. In the modules from `SchedLoop` to `Attestation` a load-change-save command is one step;
where the code writes more than one file, the model does too (`Attestation`, `ParkRegister`, `PlanGates`, `Baselines`).

## 3. Runs

Several properties are conjunctions of named parts, each with a comment of its own where it is defined:
a run names the conjunction.

Bounds: `MaxGeneration` caps artifacts per node, `MaxPhaseRetryCycles` is the code's ceiling (made small),
`MaxCrashes` caps dying sessions, `MaxVoids` ratifications that are taken back, `MaxClock` the time until which people act, `MaxRuns` and `MaxRows` the
plans and register rows, `MaxPolls` the code's thirty polls, `MaxWarns` and `MaxPct` the numbers of a baseline.

| Run | Instance | Shows |
|---|---|---|
| `sched_loop` | three nodes: a rebuild with an arch gate, a refactor and a retire that depend on it and are sealed; ceiling 2, three artifacts; granular verbs and driver reports | every order of verbs and reports keeps types, the counter, resolved closures, earned GREENs, rows, and that nothing unbuildable is built; `BooksAreCurrent`: verdicts speak of the current artifact and the syntax ceiling holds; resolved is final; `RunContract` is implemented |
| `sched_driver` | two nodes in conflict over a table, one of them arch-gated, and one to retire that waits for the other, all on one transport; ceiling 1, one artifact, team of one; verbs, reports and the mutex | offers are accepted, no waiting while work can go on; `CompletionAtRest`: provisional_complete leaves nothing in flight and nobody to ask; no theft of the mutex |
| `offline_lane` | three nodes, ceiling 2, one crash, two ratifications taken back | retries end (`LaneSettles`), within the budget; what is in hand can be reported on, or its ratification was taken back and the driver says so; only lost work wedges a run |
| `completion_judged` | the same | expected violation: section 4 |
| `arch_honoured` | as `sched_loop` | expected violation: section 4 |
| `attestation` | two runs that share one of two nodes; one artifact per run of a node, time 3 | join = last word; a pass was attested; no storm; an owed gate reaches a person |
| `park_register` | two runs that share one of two nodes, a successor, sign-offs with and without a probe | a parked node is audited by the row of its sign-off, and re-enters when the successor ships; the one exception is a row the other run has written since |
| `plan_gates` | two nodes, one that no shape fits, one with two; two models, two plans, two rows; symmetric in the two shapes and in the two models | `PlanFitsState` (a state's plan exists, its contracts are of that plan and on file), `RatificationIsReal` (behind a ratified contract are a word that was not taken back, a person's or a reviewer's pass, and a review given while it was bound; what a reviewer has read is what its verdict is stamped with, unless the reading was overtaken), `NoDecisionLost` (an override is in force, replaced by a later word, or reported), `NobodyWaitsInVain` (after an `arch` every gated node is ratified, requested, or in front of a person, and a verdict is filed where the next `arch` looks) |
| `shape_lost` | the same | expected violation: section 4 |
| `baselines` | two runs that share one of two nodes, one needing a biting test | `OnlyTightens`, over every crash and retry; `BackedByBaselines` (a recorded green has its ceilings on disk, what was accepted still passes, coverage came with a bite) |
| `sidecar` | two calls of any tool on two objects, one a service binding; two polls | `AnswersAreTrue` (one writer, a lock outlives its handler only when SAP lost sight of it, done means done, which of an ATC run says only that its worklist is not running any more), `EveryCallAnswered`, and `AdtPromise` is implemented: no call changes SAP twice |
| `computations` | every input of the sizes below | the seven properties below |

`computations` has one initial state per input and one step, which works out what the code makes of it.
`MCJudging`, `MCRelease`, `MCBatch` and `MCDesign` say of each kind of input twice what it is: the bounded sets the
run takes (`Bodies`, `Checkpoints`, `Applications`, ...), and all inputs there can be (`AnySource`, `AnyCheckpoint`,
`IsApplication`, ...), which the theorems are about. That the first are among the second is an assumption TLC
evaluates (`JudgingInputsAssumption`, `ReleaseInputsAssumption`, `BatchInputsAssumption`, `DesignInputsAssumption`).

| Property | Parts | Inputs |
|---|---|---|
| `VerdictRestsOnEvidence` | nothing generated buys back a lost check; unchanged sources owe nothing; a paradigm shift never passes silently; live passes imply offline passes; silence never passes; attesting what is owed settles it; only new lines are new; repeated steps do not oscillate; critical rows surface first | pairs of sources, all checkpoints of present, absent and malformed fields, findings, texts of three lines, verdict series of six, registers of three rows |
| `DispositionIsGrounded` | automatic only on proof; options are real and carry the evidence of every member; the two advices agree about what the code takes for a standard; dropped objects are shown, each by itself | uses of thirteen kinds of names (every state the oracle has a level for, and each namespace, listed or not), findings of two members, plans of four nodes with dispositions |
| `ArchitectureFits` | a refused shape is explained in full; the verb ends exactly when a cached verdict is not among the shapes offered, and else the blueprint holds whatever is cached, and asks again for as few as possible; claims are kept or reported; group evidence is mutual; what conforms does so to the file that carries the ratified hash | all streams of the signals that matter, all assignments of cached verdicts and offers to three nodes, deviations of one structure from its pinned one in each way, groups among four objects |
| `OrderOfTheCodeIsKept` | components are cycles, in the order reach relies on; facts reach every caller through any cycle; the plan's order is the code's; waves are tight; a plan is its hash; include chains are pools and conflict groups; no dynamic target vanishes; the analyser's waves follow dependencies outside cycles; the blast radius is exactly what is reached over edges between nodes; findings keep their name; warnings are windows | all graphs on four objects (for sets of planned objects that leave gaps, those with at most five edges), call graphs on them with at most six edges, frozen plans of two nodes, five lines, seven statements in units that may be nested, left open or closed twice |
| `BatchIsSound` | a batch is safe and worst first; more debt never moves a unit back | all graphs without two-cycles, ready sets of two objects or more, two orders, one shared table, caps of one to three; units of two members against one |
| `CyclesAreSettled` | a cut ends within the budget and spares what fits; seams were decided about that cycle; the sweep follows the waves and trusts no failed draft | graphs on four objects with budgets 1 (few edges), 2 and 3 (many), three decisions on overlapping cycles that may die half way, three marks |
| `NothingIsPresumed` | the weakest authoritative row decides; successors are of one row; only released is cleared; no staleness by silence; the merge gate fails closed | registries of up to two rows a file, exports of two rows, one deviating file per directory |

Why the bounds are enough. Two of the three nodes of `sched_loop` depend on the first, so a counter
moves once for each of two dependents and may be doubled; a retry ceiling of 2 has a first, a last
and a refused retry; three artifacts are the first, its retry and one of a second walk after re-entry, and a
fourth would only repeat the third, as all that is compared is "current or not". Everything else about more
nodes is what the proofs are for. `sched_driver` needs a conflict, a dependent, and a team smaller than the
batch, and has all three. Waiting through a node that waits itself does not occur with three nodes: there
`CompletionAtRest` has the theorem only. With a ceiling of 1 there is a retry and a refused one. Verdict contents do not matter there, so one artifact suffices, and
failed attempts at it may be repeated. In `offline_lane`
`MaxGeneration` (4) exceeds the budget (ceiling + 1 = 3), so the budget, not the bound, ends the loops: the
bound is never what disables a report. Two ratifications taken back are one from each of the two nodes in hand, or
twice from the same. In `attestation`, three timed acts allow raise, decide and one more
(a re-raise, an overlapping row, a recreated run); one artifact is enough for artifact numbers that start
again in a recreated run, and for decisions given before there is one; a verdict step raises beyond the
bound on time, so a gate is never withheld by it. In `park_register` one run's reprobe drops, and its late
second write brings back, what the other signed; a second successor would only be a second row. In `plan_gates`,
two plans are one replanned, or one that carries a contract whose file stays with the other; two rows are two
questions about one node, or one about each; two models make a contract change under a node that does not. In `baselines`, a number is better, equal or worse than
another. In `sidecar`, two calls on one object are a writer and its rival, and two polls are a first and
a last one, and each call changes one of two objects. Four objects hold two nested cycles, a cycle with a tail, a diamond, and a chain through two
objects outside the plan.

Deadlock checking is off where a run of the real system stops: all nodes resolved, people acting no more,
every call answered, an input judged, or a bound reached.

**Fairness.** `OfflineLane` assumes weak fairness of asking for work and of reporting on what was handed
out: the session is a loop that does nothing else (`cli-drive.js`; DEVELOPER_GUIDE section 4). How a report
comes out, verdict steps, and every act of a person have none. `Attestation` assumes that a verdict step of
a node that waits is repeated (every resumed session does so) and that not every one of them dies before
the raise: strong fairness of both; nobody is obliged to decide. `ParkRegister` assumes that the operator
re-probes again and again, as the run instructions ask (strong fairness, since a command may be under way
at any moment), and that a command ends, by its second write or by dying. `Sidecar` assumes that a handler
goes on (weak fairness of its steps): each request ends by an answer, an error or the time limit of the
connection; that a job ends is not assumed. The safety properties, and
`PlanGates` and `Baselines`, need none.

## 4. Findings

Each is a run that checks one sentence of the repository and finds a counterexample.

| Run | The repository says | The code does |
|---|---|---|
| `arch_honoured` | voiding a ratification must stop a node in flight (`sched/loop.js:142`) | `applyOutcome` does not look at the ratification: a node is ratified, dispatched, its ratification taken back, and a signed REBUILT_HANDOFF completes it straight from GROUNDED |
| `completion_judged` | `SYNTAX_OK` is a mid-flight state (`src/DEVELOPER_GUIDE.md:182`), provisional_complete means drafted and judged (`:206`) | `RESTED` contains `SYNTAX_OK` (`sched/drive.js:42`): the driver answers provisional_complete on drafts without a verdict |
| `shape_lost` | the shape a person names rides along to seed the contract (`plan/replan-overrides.js:64`) | `replan` compares dispositions only and drops the shape; the node stays unplaceable |

Seen while modelling, in the models' actions but without a run of their own.

*Scheduler and driver.* BLOCK -> PARK is meant for NO_RELEASED_SUCCESSOR only (`state/node-status.js:19`),
but the reason checked is the one passed with PARK (`sched/loop.js:196`), so a defect can be parked. A
signature must not carry a node past its own failed gate (`sched/terminals.js:103`), but a detour through
NEEDS_MANUAL_SEAM voids the failure without a new artifact (`sched/loop.js:155`). A late `syntax_fail`
is counted for a node at any status, which stays there (`sched/drive.js:143`, against `:132`); an offline
run answers `complete` when all its nodes are handed off or retired (`:65`, against `:14`). The mutex is said
to serialise registration and activation (`sched/loop.js:13`), but no verb and no command asks for it (`:240`):
what it ensures is only that it is not stolen. A ratification that is taken back from a node at `SYNTAX_OK` is not among
those the driver says it waits for (`sched/drive.js:50`), as that state is one of rest.

*Registers.* A decision can never bless an artifact the human did not see (`cli-escalations.js:300`), but
it stamps the artifact current at the command. Audit file and live state can never diverge
(`cli-park.js:7`), but a run's `reprobe` drops the rows of other runs' parked nodes (`:28`), and two commands
of two runs may write over each other's rows; `foreign` in `ParkRegister` is exactly that. `cmdResolveCycle`
saves the memory before the register, so a crash leaves a learned resolution without its recorded
decision; a resolution that flips still raises the confidence. The offline PARK is unreachable, since
`cli-drive` never passes a block reason.

*Plan time.* A reviewer's verdict is stamped with the contract bound when it is handed in (`cli-arch-review.js:49`),
not the one that was read, although reviewing is said to be of the contract that is ratified (`:11`): an `arch` in
between moves a review to a contract nobody reviewed. An `arch` that dies after the contract file leaves
the ratified binding's file holding another contract; the driver hands out the reference, conformance fails closed. `conformance`
compares the hash the file carries with the ratified one (`cli-conformance.js:76`) and never the contents with the hash, so a
contract edited in place is enforced as edited, against `:12`. A cached verdict outside what the corpus now offers
ends `arch` (`cli-arch.js:139`) until somebody removes it from the cache. A rejected contract comes back unchanged unless the model or the prompt changes; an
`arch-review` pass re-ratifies after a person rejected; a superseded `shape` is not listed as superseded. The
confidence of a re-architecting is always below the threshold of the deterministic path, and
`released_standard_exists` is always false, so the rules that ask for them never fire. A
disposition is that of the representative member (deliberately, `plan/disposition.js:44`). `buildArchContract`
pins no structure, so today conformance compares identities and invariants; of two generated objects with one
id the first is not looked at. The hash of a plan leaves out the budget, the conflict edges and the seams
(deliberately). Whose a registered `/NS/` name is has three answers: SAP's (`plan/ground-candidates.js:36`), the
customer's (`plan/fit-to-standard.js:175`), and by a list which is shipped empty, so SAP's again
(`plan/persistence-facts.js:130`); a unit that calls a released `/NS/` API of SAP is therefore advised to build. A level B or C
name counts as `deprecated` and a level D name as `removed` (`cloudification.js:11`), so a classic API without a successor is
listed in `no_successor_refs`, whose comment (`plan/ground-candidates.js:84`) speaks of deprecated and
notToBeReleased names. A finding that changes the rule of a node renames the node.

*Verdict.* A plain GRANT on the same entity covers a lost `pfcg_auth` (deliberately, `node/invariants.js:57`); a
check with a DUMMY field makes an unchanged artifact owe an attestation; the risk evidence has no ATC or parity
fields, so a clean wave is never AUTO.

*ADT lane.* A batch activation does not publish bindings, a single one does; the batch poll ignores the HTTP
status; the ATC poll takes any status but RUNNING for complete (`quality.js:194`), so a run that was aborted is answered as
clean, against `quality.js:9`; publishing takes any configuration
reply and falls back to V4; an error with "auth" in it is a 401; the bridge may give up before the sidecar's
last poll, and then answers an error for what is later done; when the answer to a lock is lost, the lock
stays until SAP expires it (`dropped`).

*Analyser, registries, integrations.* 23 names are deprecated for the oracle and released for the
generation lane, which takes the last row, and 32 have another successor for the analyser. Re-assigning a
field symbol after the loop is reported although the message recommends it (`flow-pack.js:165`; `WarningsAreWindows` claims
nothing about it); the blast radius of an object leaves out who uses one of its members (`blast-radius.js:22`); a finding on the last line of a
unit belongs to the object; two equal statements of one unit share an identity. Inside a cycle the analyser's
waves depend on the order of visits, and its transport order ignores dependencies. Of two rows
of one object the usage adapter keeps the first, so an object can be stale although a later row has newer
use. The merge gate passes over a malformed design critique, and lets a warning of the `sap` verdict pass.
`branch-review-2026-07-13.md:53` cites a node lock that exists nowhere.

## 5. Proofs

The theorems hold for every set of nodes, every plan (`Deps`, `Disposition`, `Sealed`), every ceiling and
every bound. They rest only on the assumptions named in the modules, which TLC evaluates on the instances:
`PlanAssumption` (the plan is finite and no node depends on itself), `AcyclicAssumption` (nodes are
condensed cycles, so no set of them waits only for itself; only `CompletionIsAtRest` needs it),
`DriverAssumption` (the risk order lists every node once), `PlanGatesAssumption` (the nodes are finitely many, the
gated dispositions are dispositions and re_architect is one of them, shapes fit as they are listed, and the marks for
"nobody" and "the classifier" are no model and no disposition), `RatchetAssumption`, `SidecarAssumption`,
`MaxPhaseRetryCyclesAssumption`, `TransportAssumption`, `ParkAssumption`, `AttestationAssumption`,
`LaneAssumption` and the four on inputs of section 3, which no proof needs. Every state invariant and
action property of the passing runs is a theorem, except two invariants of `computations`.

**`SchedLoop_proofs`.** `TypeCorrect` first. None of the safety properties is inductive by itself, for
two reasons. They speak of some statuses only, while a step may come from any: that GREEN is earned needs
what is true of a GATED node with a passing verdict, that in turn needs that a new artifact voids the
verdict. And the guard of `Dispatch` reads the counter, not the dependencies. The inductive invariant is
therefore

    IInv == TypeOK /\ NodeInv /\ IndegreeCoherent /\ ClosureResolved

where `NodeInv` says for each node by itself what status, rows, verdicts, artifact and history say of each
other. A step of one node keeps the `NodeInv` of all (one lemma per verb and group of conjuncts). For the
counters, a step either resolves no node, and then both sides of `IndegreeCoherent` stay, or resolves
exactly one, and then the set of unresolved dependencies of each dependent loses exactly that element: the
cardinality lemma of the finite set library gives the decrement. That a node resolves only once is where
`NodeInv` and finality come in. `ClosureResolved` follows from the counter being zero at `Dispatch` and
resolved nodes staying so. From `IInv` follow `IndegreeIsCoherent`, `ClosureIsResolved`, `GreenIsEarned`,
`RegistersMatch`, `UnbuildableIsNeverBuilt`, the action property `ResolvedNodeIsFinal`, and
`ReducerImplementsContract`: initial states map to initial states, each step to `Start`, `Hold`, `Readmit`,
`Finish` or a stutter; `Start` is where a zero counter must mean that the closure is done. The contract
itself is proved bottom-up (`ContractTypes`, `ContractIsBottomUp`, `ContractDoneIsFinal`), and
`RunIsBottomUp` puts the two together: what a run of the reducer inherits by implementing it.

**`SchedDriver_proofs`.** The frontier first, which is a recursive function: `NextFrontier` is followed turn by
turn, as a finite course of batches (`IsCourse`). That the course exists, that every batch of it is sound and
that it only grows is shown by taking the first turn at which it would fail. `FrontierIsSound` and
`FrontierIsWorstFirst` are about any ready set, order, edges and cap. `BatchIsAlwaysSound` says the same in the terms
of a batch's input, for any such input, and adds the risk order: the key of a unit is the worst of its members in
each respect (`KeyOfUnit`; that finitely many numbers have a greatest one is shown by counting how many are below
each, `Greatest`), so a worse member leaves it no better (`WorseMember`), and the order only asks who is worse. Then

    DriveInv == IInv /\ \A n \in Node : SyntaxInv(n) /\ ProvisionalInv(n)

is inductive under the verbs and the compound reports: each report is, for the counters and rows of the
reducer, one verb or none, so most of `IInv` is kept by the lemmas of `SchedLoop_proofs`; the two
additions say that the syntax ceiling is reached only in quarantine and what an offline verdict on record
is about. From it come `DrivenRunIsSafe` (the reducer's safety properties under the driver), `BooksCurrent`,
`DrivenResolvedIsFinal`, `DriverImplementsContract`, `OffersAreAccepted`, `WorkComesFirst` (an empty batch
means that nobody was ready: the worst ready node is always taken) and `CompletionIsAtRest` (of the nodes that
wait, a closed set has a member that waits for none of them, by acyclicity; what that one waits for is unresolved,
by the counter, and can only be at rest). `LaneIsADrivenRun` carries all of it over to the session, and `LaneInv`
adds how the session's memory, artifacts and retries agree: `generation <= cycle + 1`, what is in hand is
not moved by anybody else, and a generated node nobody has in hand was lost in a crash or put aside. A person may take
its ratification back, and then it is one the driver waits for. That gives `RetriesAreBudgeted`,
`InHandReportable` and `WedgedByLossOnly`.

The mutex comes last in that module: `MutexKeepsDriver` (the layer's specification implies the driver's, so all the
theorems above hold beside the mutex) and `MutexNotStolen`.

**`Attestation_proofs`.** `RegisterTypes`; `OneQuestionOpenOnce`; `JoinIsLastWord`, by the invariant that
events have times of their own, none in the future, and that the latest row naming a node says what was last said of it
(a raise and a decision are one kind of change, `Touch`); `PassesAreAttested`, since decided rows never
change and a new epoch or artifact voids the verdict.

**`ParkRegister_proofs`.** `ParkAudited`, for any runs and any sharing of nodes: the invariant adds what a command under way has
still to write, and that what it computed from the register still is true of its run, but for rows another run wrote.

**`PlanGates_proofs`.** The properties speak of files, and a command may die between any two writes, so
the inductive invariant says of every write in `todo` what it says of the file the write will become
(`WriteOK`; a state is written only for a plan that is there, and bindings only to contracts that are on file or written
before them). `StateOK` ties each contract to the plan's
disposition, the review and the word: `rebind`, `migrateState`, a review and a decision each keep it, and
`RunsAreOfOnePiece` and `RatificationsAreReal` follow; the latter also needs that a reading which is not overtaken is of the
contract that the reader's run has bound, in the face of each write that is still to come. For `DecisionsAreKept`, `RegisterOK` says that no
two decisions have one time and none a time beyond their number, so there is a last one, and either it is the override
in question or it is later; and that while an answer of `replan` stands no write of the register is left.
For `EverybodyIsAskedFor`, `ArchPending` relates the register an `arch` will write last to the state it
writes before it and the manifest it has written.

**`Baselines_proofs`.** The invariant says of a recording command that is under way that its evidence is
the one last accepted, that its ceilings are on disk, and which of its writes are left (`Recording`); since the
ceiling and the coverage are written before the state, `Backed` holds at every crash. `Tightening` is the action property: a
verdict is recorded only if it passes the gate, and what passes is no worse than the baseline.

**`Sidecar_proofs`.** Each tool has few remainders of its list of requests; the invariant says, by what is
left, how often SAP was changed for the call, how its job ended, which answer may have been given, and that whoever is under a lock
holds it. `Truthful` follows, and `Refinement`: each request maps to asking, taking effect, replying or a
stutter of `AdtPromise`.

**`Computations_proofs`.** What the functions promise, for inputs of any size: any sequence of statements, any
finite set of grants, any text, verdict series, register, registry, usage export and verdict directory; any unit
and document, any facts, any finite plan, any application with any verdicts in the cache, any contract.
`JudgingSpec`, `ReleaseSpec` and `DesignSpec` start at any such input, and their step is the one of the run. The
invariant is that the input is of its kind and the result is pending or what the function gives; what
remains is one lemma per named part of the property.

- *Verdict.* `Reasons` gives the verdict's reasons as a set, and `StepPasses` what a pass of the offline step
  excludes; from these follow `BuysBackHolds` (each way to lose a protection is a hard reason, which no
  attestation lifts; `BundleOfSource` and `NextThree` tie the extracted checks to the statements, and
  `CommitsAreCounted` the number of commits), `UnchangedHolds`, `ParadigmHolds`, `LanesHold`.
- *Attesting settles.* Reasons are hard or owed to one of three kinds of attestation (`WhomAReasonIsFor`); the step
  passes under an attestation exactly when no hard reason stands and what is owed is attested
  (`PassesWhenAttested`), and `afterFailure` asks for exactly that when nothing hard stands.
- *Counting.* In the register the rank of a row is the number of rows before it; ranks are distinct and have no gaps
  (`RankGrows`, `Interval`, `FirstOnes`), so the window holds exactly the first `max`. For lines, the occurrences
  of a line within the original's count are a prefix of them, and the others are what changed (`NewLines`).
- *Swinging.* That a window oscillates is that it has two flips at different places (`TwoOrMore`, `SwingsTwice`);
  a repeated verdict adds none and shifts the old ones out (`Again`, `SteadyEnd`).
- *Release.* The level of a set of states is the worst of theirs (`WeakestIsWorst`); a name is looked up in the
  release information if it has a row there, whatever the classifications say (`LookupSeesTheWinningFile`,
  `IndexedSpeaks`); what an object is told to be comes from its first mapped row (`ToldByOneRow`); the gate
  passes only over four sound verdicts (`GateHolds`).
- *Proposals.* The first rule that applies decides (`FirstRule`), so a confidence that needs no person can only come
  from a rule no earlier one forestalled, and that one rests on the registry (`DecidedIs`, `CandidateIs`, `AutoHolds`).
  The evidence of a unit is that of its members (`EvidenceOfUnit`); alternatives with labels of their own are all
  offered (`OptionsAre`), and these have them (`AlternativesAre`, `OptionsHold`). Adopting a standard is offered for
  data that are read, which the advice then has found (`ReplaceIsBased`, `AdviceHolds`). Names are of any namespace and state: what the oracle has no level for is `unknown` (`ReleaseStateIs`). Questions about two drops
  differ, as no dropped object is in the other's (`DropsHold`).
- *Shapes.* What matches is ranked without a loss (`MatchesAre`: in its order, a finite set has one element at each
  place, `PlaceInOrder`). An object that is mended fits because no shape asks for what it objects to, which is a
  fact of the corpus (`CorpusIsConsistent`, `ExplanationHolds`); one added to the corpus must keep it.
- *Blueprints.* The settling of cached verdicts is a finite course (`SettlingIsCourse`): a turn that finds a stale one
  demotes exactly one, so there are at most as many as nodes and none is stale at the end; and none that is in a
  complete set ever is (`OnlyStaleAreGone`). What is left is therefore the greatest complete set (`SettleHolds`), which
  is both that the blueprint holds and that nobody is asked in vain. Groups are merged by name, and what is pruned is
  listed (`MergedAre`, `PrunedAre`, `BlueprintIsConsistent`, `BlueprintHolds`).
- *Groups and contracts.* Ties count the same from both sides (`GroupHolds`); of two objects made under one id the
  last one is compared (`LastOf`, `ConformHolds`), with the contents of the file that carries the ratified hash.

Only model-checked:

- liveness: `LaneSettles`, `OwedGateIsRaised`, `ParkedReEnters`, `EveryCallAnswered`. Fairness and
  `ENABLED` are beyond the prover.
- `OrderOfTheCodeIsKept` and `CyclesAreSettled`. They rest on functions that are recursive over data (depth-first
  search, worklists, sequences of findings and decisions), for which the prover has no usable induction theorem, and
  on `Seams` and `Migration`, which declare recursive operators.

## 6. Not modelled, and the plan

Not modelled: `PROJECT.json` gives each part and why. Splitting texts into statements (ABAP, BDEF,
DCL, CDS) is given as its result. The rule packs of the analyser other than the flow pack, the lint rules of the generation
lane, metrics, reports and prompts are patterns and wording over text, without state, order or a
precedence that could go wrong over several steps. The shapes of SAP's answers are given as what the
handlers take them for.

Known limits of what is modelled. The commands on one state directory do not overlap: nothing in the code
prevents it, and every file is read, changed and written as a whole, so an overlapping command's write
would simply be lost. Equal time stamps, which the join breaks by array order, do not occur. One kind of
escalation in `Attestation`. The plan does not change under a run in `SchedLoop`, except that `Attestation`
recreates one; `PlanGates` changes plans and has no scheduler, so `SetArchRatified` of `SchedLoop` stands for it there.

In `PlanGates` the reviewer reads between two commands, and a verdict it renders is handed in under the run it was read in.
In `OfflineLane` the session puts a packet aside when its report is refused; a session that would keep it and try again
would stay where `InHandIsReportable` says it is.

Next: that the theorems of `Attestation` hold of the compound commands of one session.
