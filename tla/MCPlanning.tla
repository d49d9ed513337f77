------------------------------ MODULE MCPlanning ------------------------------
(***************************************************************************)
(* From the code graph to the plan: bounded inputs, and properties, of     *)
(* what is read off the code graph and decided about its cycles, and of    *)
(* what the scheduler's plan is made of.                                   *)
(***************************************************************************)
EXTENDS MCDesign, Migration

--------------------------------------------------------------------------------
\* Node 5 is a method of object 1.
CodeNode(id, object, k, rank) == [id |-> id, object |-> object, customer |-> TRUE, kind |-> k, rank |-> rank]

Kinds == {<<"class", "class", "class", "class">>, <<"report", "cds", "class", "interface">>}

CodeNodes(kinds) == [i \in 1..5 |-> IF i = 5 THEN CodeNode(5, 1, "method", 90) ELSE CodeNode(i, i, kinds[i], 20 * i)]

CodeEdges == {E \cup F : E \in SUBSET Pairs(Objects), F \in {{}, {<<5, 2>>}, {<<4, 5>>, <<3, 5>>}}}

\* The dependency of an object: through its own nodes too.
Lifted(edges) ==
  LET object(id) == IF id = 5 THEN 1 ELSE id
  IN  {<<object(e[1]), object(e[2])>> : e \in edges} \ {<<o, o>> : o \in Objects}
--------------------------------------------------------------------------------
\* Two cycles, one of which grew out of the other.
Cycles == {{1, 2}, {1, 2, 3}}

CycleReferences == {<<1, 2>>, <<2, 1>>, <<2, 3>>, <<3, 1>>, <<4, 1>>}

Resolutions ==
  {[kind |-> "CUT", named |-> {1, 2}], [kind |-> "CUT", named |-> {1, 3}],
   [kind |-> "COGEN_RAP_BO", named |-> {1, 2}], [kind |-> "SPROUT_DEFER", named |-> {3}]}

Decisions == [members : Cycles, resolution : Resolutions, stops : BOOLEAN]

Resolve(in) ==
  FoldLeft(LAMBDA s, d : cmdResolveCycle(s, d.members, d.resolution, d.stops),
           [memory |-> [c \in {} |-> Unlearned], register |-> in.register], in.decisions)

\* The decisions about a cycle that name only members of it, in order.
Heard(in, c) == SelectSeq(in.decisions, LAMBDA d : d.members = c /\ d.resolution.named \subseteq c)
--------------------------------------------------------------------------------
Acyclic(E) == \A o \in 1..3 : o \notin Reachable(E, o)

SweptPlan(in) ==
  LET levels == kahnLevels(tarjanCondense(1..3, precedenceEdges(in.references)))
  IN  [o \in 1..3 |-> [wave |-> levelOf(levels, o), status |-> in.status[o],
                       dependencies |-> {e[2] : e \in {x \in in.references : x[1] = o}}]]

Marks == [sig : 1..3, result : {"drafted", "failed"}]

Ledger(in) ==
  FoldLeft(LAMBDA ledger, k : cmdSweepMark(SweptPlan(in), ledger, k.sig, k.result), [o \in {} |-> "failed"], in.marks)

\* Texts whose units are nested, never closed or closed twice, too.
Texts == SeqOf({"a", "b", EndOfUnit, CodeLine}, 5)

Opened(stmts, i) ==
  Cardinality({j \in 1..(i - 1) : stmts[j] = "loop"}) - Cardinality({j \in 1..(i - 1) : stmts[j] = "endloop"})

\* Statements of methods whose loops are balanced.
Balanced(stmts) ==
  \A i \in DOMAIN stmts : (stmts[i] = "endloop" => Opened(stmts, i) > 0) /\ (stmts[i] = "endmethod" => Opened(stmts, i) = 0)

Programs ==
  {p \in SeqOf({"loop", "endloop", "assign", "unassign", "use", "endmethod"}, 6) : Balanced(p)}
  \cup {p \in SeqOf({"loop", "endloop", "calc"}, 6) : Balanced(p)}
  \cup SeqOf({"enqueue", "dequeue", "call", "endmethod"}, 5)

MigrationInputs ==
  [migrate |-> [kinds : Kinds, edges : CodeEdges],
   text |-> Texts,
   flow |-> Programs,
   blast |-> [edges : CodeEdges, target : {1, 2}],
   seams |-> [register : {<< >>, <<[members |-> {1, 2}, decision |-> Undecided]>>}, decisions : SeqOf(Decisions, 3)],
   sweep |-> [references : {E \in SUBSET Pairs(1..3) : Acyclic(E)}, status : [1..3 -> {"PENDING", "COMMITTED"}],
              marks : SeqOf(Marks, 2)]]

Migrated(k, in) ==
  CASE k = "migrate" -> [judged |-> TRUE, plan |-> modernizationPlan([nodes |-> CodeNodes(in.kinds), edges |-> in.edges])]
    [] k = "blast" ->
         [judged |-> TRUE,
          radius |-> [d \in 0..4 |-> blastRadius([nodes |-> CodeNodes(<<"class", "class", "class", "class">>),
                                                  edges |-> in.edges], in.target, d)]]
    [] k = "seams" ->
         [judged |-> TRUE, after |-> Resolve(in),
          proposed |-> [c \in Cycles |-> cmdSeams(c, CycleReferences, {}, {}, Resolve(in).memory)]]
    [] k = "text" -> [judged |-> TRUE, ids |-> [i \in DOMAIN in |-> findingId("rule", in, i, "object")]]
    [] k = "flow" -> [judged |-> TRUE, warnings |-> scanFile(in, 2)]
    [] k = "sweep" -> [judged |-> TRUE, ledger |-> Ledger(in), order |-> cmdSweepOrder(SweptPlan(in), Ledger(in))]
--------------------------------------------------------------------------------
(***************************************************************************)
(* The waves of the analyser's plan respect every dependency that is not   *)
(* part of a cycle, whatever cycles the search went through before, and    *)
(* an object outside all cycles is in no later wave than it need be.       *)
(***************************************************************************)
WavesFollowDependencies ==
  Judged("migrate") =>
    LET edges == Lifted(input.edges)
        wave(o) == out.plan.objects[o].wave
        inCycle(o) == o \in Reachable(edges, o)
    IN  /\ \A e \in edges : e[1] \notin Reachable(edges, e[2]) => wave(e[2]) < wave(e[1])
        /\ \A o \in Objects : ~ inCycle(o) /\ wave(o) > 0 => \E e \in edges : e[1] = o /\ wave(e[2]) = wave(o) - 1
        /\ \A o \in Objects : wave(o) < out.plan.wave_count
        /\ Range(out.plan.transport_order) = Objects

(***************************************************************************)
(* The blast radius of depth d has the objects from which d uses or fewer  *)
(* lead to the changed object, no other one and not the object itself;     *)
(* uses of and by a method count as its object's.  The chain is one of     *)
(* nodes: it does not go on from a method to the users of the method's     *)
(* object (blast-radius.js 22-33), so that the radius may be less than all *)
(* the objects that depend on it, and is never more.                       *)
(***************************************************************************)
BlastIsTheNeighbourhood ==
  Judged("blast") =>
    LET nodesOf(o) == {o} \cup (IF o = 1 THEN {5} ELSE {})
        used(S) == {e[2] : e \in {x \in input.edges : x[1] \in S}}
        chain(o) == LET within[d \in 0..4] == IF d = 0 THEN nodesOf(o) ELSE within[d - 1] \cup used(within[d - 1])
                    IN  within
    IN  /\ \A o \in Objects \ {input.target} : \A d \in 0..4 :
             o \in out.radius[d] <=> nodesOf(input.target) \cap chain(o)[d] # {}
        /\ \A d \in 0..4 : out.radius[d] \subseteq {o \in Objects : input.target \in Reachable(Lifted(input.edges), o)}
                                                \ {input.target}

(***************************************************************************)
(* A finding keeps its name: it is found in the innermost unit that is     *)
(* open at its line, whatever was nested in it, left open or closed twice  *)
(* above, and a line inserted anywhere in the file changes no name.        *)
(***************************************************************************)
FindingsKeepTheirName ==
  Judged("text") =>
    LET lines(K, j, k) == Cardinality({l \in j..k : input[l] \in K})
        opened(i) == {j \in 1..i : /\ input[j] \in {"a", "b"}
                                   /\ \A k \in j..i : lines({EndOfUnit}, j, k) < lines({"a", "b"}, j, k)}
        moved(p) == SubSeq(input, 1, p) \o <<CodeLine>> \o SubSeq(input, p + 1, Len(input))
    IN  \A i \in DOMAIN input :
          /\ out.ids[i][3] = IF opened(i) = {} THEN "object" ELSE input[Max(opened(i))]
          /\ \A p \in 0..Len(input) :
               findingId("rule", moved(p), IF i <= p THEN i ELSE i + 1, "object") = out.ids[i]

(***************************************************************************)
(* The warnings of the statement scan are exact: a call is reported when a *)
(* lock is held at it and nothing was reported of that lock yet, a field   *)
(* symbol when it is used after the loop that assigned it and neither      *)
(* unassigned, assigned again nor used before, an outermost loop when it   *)
(* calculates too much; and nothing is carried from one method into        *)
(* another.  Assigning the symbol again is what the warning recommends     *)
(* (flow-pack.js 165), and nothing is said of whether it is warned of: it  *)
(* is, like a use.                                                         *)
(***************************************************************************)
WarningsAreWindows ==
  Judged("flow") =>
    LET at(K) == {i \in DOMAIN input : input[i] \in K}
        free(j, i, K) == at(K) \cap ((j + 1)..(i - 1)) = {}
        outside == {i \in DOMAIN input : Opened(input, i) = 0}
        settled(j, i) == at({"use", "assign", "unassign"}) \cap outside \cap ((j + 1)..(i - 1)) # {}
        end(i) == {k \in at({"endloop"}) : k > i /\ Opened(input, k) = 1}
    IN  \A i \in DOMAIN input :
          /\ <<"lock-held-across-calls", i>> \in out.warnings <=>
               i \in at({"call"}) /\ \E j \in at({"enqueue"}) : j < i /\ free(j, i, {"dequeue", "call", "endmethod"})
          /\ i \notin at({"assign"}) => (<<"dangling-field-symbol", i>> \in out.warnings <=>
               /\ i \in at({"use"}) \cap outside
               /\ \E j \in at({"assign"}) \ outside : j < i /\ free(j, i, {"endmethod"}) /\ ~ settled(j, i))
          /\ <<"heavy-loop-calc", i>> \in out.warnings <=>
               /\ i \in at({"loop"}) \cap outside /\ end(i) # {}
               /\ Cardinality(at({"calc"}) \cap (i..Min(end(i)))) >= 2

(***************************************************************************)
(* What is learned about a cycle was decided about that very cycle: it is  *)
(* the last resolution given for exactly those members, it names no        *)
(* stranger, and a cycle that grew starts with none.  It is recorded, too, *)
(* unless the command stopped between its two saves; no amount of          *)
(* repeating makes it certain; and a proposed cut lies inside the cycle.   *)
(***************************************************************************)
SeamsAreAgreed ==
  Judged("seams") =>
    \A c \in Cycles :
      LET heard == Heard(input, c)
          learned == out.proposed[c].learned
          rows == SelectSeq(out.after.register, LAMBDA r : r.members = c)
      IN  /\ IF heard = << >> THEN learned = Unlearned
             ELSE /\ learned.resolution = Last(heard).resolution
                  /\ ~ Last(heard).stops => \E r \in Range(rows) : r.decision = Last(heard).resolution.kind
          /\ learned.resolution.named \subseteq c /\ learned.confidence < 100
          /\ \A r \in Range(rows) : r.decision # Undecided => \E d \in Range(heard) : d.resolution.kind = r.decision
          /\ \A s \in Range(out.proposed[c].cut.seams) : {s.edge[1], s.edge[2]} \subseteq c

(***************************************************************************)
(* The sweep drafts an object after what it depends on, never touches what *)
(* the gated pass reached, and offers as ground only drafts that exist: a  *)
(* failed one grounds nobody.                                              *)
(***************************************************************************)
SweepFollowsTheWaves ==
  Judged("sweep") =>
    LET at(o) == {i \in DOMAIN out.order : out.order[i].sig = o}
        last(o) == SelectSeq(input.marks, LAMBDA k : k.sig = o)
    IN  /\ \A e \in input.references : \A i \in at(e[1]), j \in at(e[2]) : j < i
        /\ \A o \in 1..3 :
             at(o) # {} <=> input.status[o] = "PENDING" /\ last(o) = << >>
        /\ \A i \in DOMAIN out.order : \A d \in out.order[i].drafts :
             input.status[d] = "PENDING" /\ Last(last(d)).result = "drafted"

--------------------------------------------------------------------------------
\* The plan.

\* Object 1 is a report and object 4 takes IDocs in; an include is no call.
ReachDoc(calls, includes) ==
  [objects |-> Objects, names |-> Names, findings |-> {},
   kindOf |-> [o \in Objects |-> IF o = 1 THEN "report" ELSE "class"],
   edges |-> {Use(e[1], e[2]) : e \in calls} \cup {Use(4, 9)}
             \cup {[Use(e[1], e[2]) EXCEPT !.kind = "includes"] : e \in includes}]

Scans ==
  {{}, {[kind |-> "seal", owner |-> NoObject, member |-> "m"]},
   {[kind |-> "target", owner |-> 2, member |-> "m"]}, {[kind |-> "target", owner |-> 9, member |-> "m"]},
   {[kind |-> "target", owner |-> NoObject, member |-> "m"]}, {[kind |-> "target", owner |-> NoObject, member |-> "n"]}}

\* Nodes before they are frozen, with waves that leave a gap.
Drafted == [id : {1, 2}, wave : {0, 2}, dependencies : {<< >>, <<2>>, <<2, 2>>}]
           \cup [id : {1}, wave : {-1}, dependencies : {<< >>}]

\* Graphs with few edges.
AtMost(k) == {E \in SUBSET Pairs(Objects) : Cardinality(E) <= k}

PlanningInputs ==
  [scan |-> [1..2 -> Scans],
   pools |-> [1..3 -> Pairs(1..5)],
   plan |-> [references : SUBSET Pairs(Objects), planned : {1..4}]
            \cup [references : AtMost(5), planned : {{1, 2}, {1, 4}, {1, 3, 4}}],
   reach |-> [calls : AtMost(6), includes : {{<<3, 4>>}}]
             \cup [calls : AtMost(3), includes : {{}}],
   record |-> [nodes : SeqOf(Drafted, 2), other : SeqOf(Drafted, 2), committed : {{1}, {1, 2}}],
   cut |-> [edges : AtMost(5), budget : {1}] \cup [edges : AtMost(6), budget : {2}]
           \cup [edges : SUBSET Pairs(Objects) \ AtMost(8), budget : {3}]]

Reached(doc) ==
  [judged |-> TRUE, facts |-> consumptionFacts(doc), evidence |-> consumptionEvidence(doc),
   persistence |-> persistenceFacts(doc)]

Planned(k, in) ==
  CASE k = "plan" ->
         LET graph == buildObjectGraph([edges |-> in.references,
                        nodes |-> {[id |-> o, object |-> o] : o \in {1, 2, 3} \cup in.planned}])
         IN  [judged |-> TRUE, objects |-> graph.nodes,
              comps |-> tarjanSccs(graph.nodes, graph.edges),
              nodes |-> assemblePlan(graph.nodes, graph.edges, in.planned, {}, [o \in Objects |-> {}])]
    [] k = "reach" -> Only({Reached(doc) : doc \in {ReachDoc(in.calls, in.includes)}})
    [] k = "cut" ->
         [judged |-> TRUE, order |-> elsOrder(Objects, in.edges),
          cut |-> minFeedbackArcSet(Objects, in.edges, in.budget)]
    [] k = "record" ->
         LET frozen == freezePlan(in.nodes)
             other == freezePlan(in.other)
             file == [known_schema |-> TRUE, nodes |-> in.nodes, waves |-> frozen.waves, plan_hash |-> frozen.plan_hash]
             both == ~ frozen.refused /\ ~ other.refused
         IN  [judged |-> TRUE, frozen |-> frozen, other |-> other, both |-> both,
              loaded |-> IF ~ both THEN << >>
                         ELSE <<loadPlan([file EXCEPT !.nodes = in.other]), loadPlan([file EXCEPT !.waves = other.waves])>>,
              diff |-> IF ~ both THEN << >>
                       ELSE <<replan(frozen, other, in.committed), replan(other, frozen, in.committed)>>]
    [] k = "pools" -> [judged |-> TRUE, pool |-> programPools(in),
                             groups |-> buildConflictGraph(
                                          [o \in 1..5 |-> {i \in 1..3 : o \in {in[i][1], in[i][2]}}], <<1, 2, 3>>)]
    [] k = "scan" ->
         [judged |-> TRUE, adapted |-> augmentFromCpg(1..2, [o \in 1..2 |-> {"m"}], in)]

--------------------------------------------------------------------------------
(***************************************************************************)
(* The iterative search of condense.js finds the cycles: two objects share *)
(* a component when each reaches the other; and it completes a component   *)
(* only after all that it reaches, which reach.js relies on.               *)
(***************************************************************************)
ComponentsAreCycles ==
  Judged("plan") =>
    LET at(n) == CHOOSE i \in DOMAIN out.comps : n \in out.comps[i]
        reaches(n) == Reachable(input.references, n)
    IN  \A n, m \in out.objects :
          /\ at(n) = at(m) <=> n = m \/ (m \in reaches(n) /\ n \in reaches(m))
          /\ m \in reaches(n) => at(m) <= at(n)

(***************************************************************************)
(* Evidence reaches every caller: an object has the surfaces of all it     *)
(* calls, through any chain and any cycle, and no others; each one that is *)
(* not its own is shown with a direct callee that has it.  An include      *)
(* hands nothing over, and persistence stays with the object that writes.  *)
(***************************************************************************)
FactsReachEveryCaller ==
  Judged("reach") =>
    LET own(o) == CASE o = 1 -> {"batch_report"} [] o = 4 -> {"remote_idoc", "remote_idoc_inbound"} [] OTHER -> {}
        below(o) == own(o) \cup UNION {own(p) : p \in Reachable(input.calls, o)}
    IN  \A o \in Objects :
          /\ out.facts[o] = IF below(o) = {} THEN {NO_EVIDENCE} ELSE below(o)
          /\ {r.fact : r \in out.evidence[o].reached} = below(o) \ own(o)
          /\ \A r \in out.evidence[o].reached : <<o, r.via>> \in input.calls /\ r.fact \in out.facts[r.via]
          /\ out.persistence[o] = {IF o = 4 THEN "writes_via_sap_api" ELSE NO_PERSISTENCE}

(***************************************************************************)
(* The plan keeps the order of the code: of two planned objects, one is    *)
(* built before another that reaches it, through objects outside the plan  *)
(* too, unless one node builds both; nothing else is an order; and a node  *)
(* lies in a later wave than what it depends on, so that the scheduler     *)
(* never waits in a circle.                                                *)
(***************************************************************************)
PlanKeepsTheOrder ==
  Judged("plan") =>
    LET nodeOf(o) == CHOOSE n \in out.nodes : o \in n.planned
        dependencies == UNION {{<<n.id, d>> : d \in n.dependencies} : n \in out.nodes}
    IN  /\ UNION {n.planned : n \in out.nodes} = input.planned
        /\ \A a, b \in input.planned :
             LET na == nodeOf(a)
                 nb == nodeOf(b)
             IN  na # nb =>
                   (b \in Reachable(input.references, a) <=> nb.id \in Reachable(dependencies, na.id))
        /\ \A n \in out.nodes, m \in out.nodes : m.id \in n.dependencies => m.wave < n.wave

(***************************************************************************)
(* The hash is the plan's identity: it does not depend on the order of     *)
(* discovery or on repeated dependencies, and two plans share it only when *)
(* they order the same nodes alike; a file with other nodes, or with other *)
(* waves than its nodes have, is not loaded.  And a new plan asks a person *)
(* exactly when committed work would move or vanish, whichever of the two  *)
(* plans came first.                                                       *)
(***************************************************************************)
PlanIsIdentified ==
  Judged("record") =>
    LET content(nodes) == {<<n.id, n.wave, Range(n.dependencies)>> : n \in Range(nodes)}
        same == content(input.nodes) = content(input.other)
        ids(nodes) == {n.id : n \in Range(nodes)}
        at(nodes) == {<<n.id, n.wave>> : n \in {m \in Range(nodes) : m.id \in input.committed}}
    IN  /\ ~ out.frozen.refused <=> Cardinality(ids(input.nodes)) = Len(input.nodes) /\ \A n \in Range(input.nodes) : n.wave >= 0
        /\ out.both =>
             /\ out.frozen.plan_hash = out.other.plan_hash <=> same
             /\ ~ out.loaded[1].refused <=> same
             /\ ~ out.loaded[2].refused <=> out.other.waves = out.frozen.waves
             /\ UNION Range(out.frozen.waves) = ids(input.nodes)
             /\ \A n, m \in Range(input.nodes) : n.wave < m.wave =>
                  \E i, j \in DOMAIN out.frozen.waves : i < j /\ n.id \in out.frozen.waves[i] /\ m.id \in out.frozen.waves[j]
             /\ out.diff[1].replan_required <=> ~ (at(input.nodes) \subseteq at(input.other))
             /\ out.diff[1].removed = out.diff[2].added /\ out.diff[1].moved_committed = out.diff[2].moved_committed

(***************************************************************************)
(* No wave is later than it need be: an object lies as deep as the longest *)
(* chain of components below it.                                           *)
(***************************************************************************)
WavesAreTight ==
  Judged("plan") /\ input.planned = Objects =>
    \A n \in out.nodes : n.wave > 0 => \E m \in out.nodes : m.id \in n.dependencies /\ m.wave = n.wave - 1

(***************************************************************************)
(* Cutting ends, within the budget, and spares what fits: no seam lies in  *)
(* a component that was small enough; and a graph without cycles is        *)
(* arranged without an edge that points back.                              *)
(***************************************************************************)
CutsOnlyWhatIsTooLarge ==
  Judged("cut") =>
    LET comps == Range(tarjanSccs(Objects, input.edges))
        seams == Range(out.cut.seams)
    IN  /\ \A c \in out.cut.sub_components : Cardinality(c) <= input.budget
        /\ \A s \in seams : \E c \in comps : {s.edge[1], s.edge[2]} \subseteq c /\ Cardinality(c) > input.budget
        /\ Range(out.order) = Objects /\ Len(out.order) = 4
        /\ Cardinality(comps) = 4 => backEdges(out.order, input.edges) = {}

(***************************************************************************)
(* Includes tie programs together however they are listed: two programs    *)
(* share a pool when a chain of includes joins them, the pool has the name *)
(* of its first program, and the groups of nodes that must not run side by *)
(* side, found from the shared resources, are the same chains.             *)
(***************************************************************************)
PoolsAreChains ==
  Judged("pools") =>
    LET edges == {input[i] : i \in DOMAIN input} \cup {<<input[i][2], input[i][1]>> : i \in DOMAIN input}
        chain(o) == {o} \cup Reachable(edges, o)
    IN  /\ \A o \in DOMAIN out.pool : out.pool[o] = Smallest(chain(o))
        /\ out.groups = {chain(o) : o \in DOMAIN out.pool}

(***************************************************************************)
(* Dynamic code never vanishes: each target a scan finds ends in the       *)
(* object itself, in an edge, or in a seal on its object.                  *)
(***************************************************************************)
NoTargetVanishes ==
  Judged("scan") =>
    \A o \in 1..2 : \A x \in input[o] :
      \/ o \in out.adapted.seals
      \/ x.kind = "target" /\ (x.owner = o \/ (x.owner = NoObject /\ x.member = "m"))
      \/ x.kind = "target" /\ <<o, x.owner>> \in out.adapted.edges

(***************************************************************************)
(* The order of the code is kept, from the components to the plan of the   *)
(* moderniser and to the waves of the analyser, and nothing that the code  *)
(* relates is lost on the way.                                             *)
(***************************************************************************)
OrderOfTheCodeIsKept ==
  /\ ComponentsAreCycles
  /\ FactsReachEveryCaller
  /\ PlanKeepsTheOrder
  /\ PlanIsIdentified
  /\ WavesAreTight
  /\ PoolsAreChains
  /\ NoTargetVanishes
  /\ WavesFollowDependencies
  /\ BlastIsTheNeighbourhood
  /\ FindingsKeepTheirName
  /\ WarningsAreWindows

(***************************************************************************)
(* A cycle is settled by people and by need only: what is too large is cut *)
(* and nothing else, what was learned was decided about that cycle, and    *)
(* the sweep keeps to the order that is left.                              *)
(***************************************************************************)
CyclesAreSettled ==
  /\ CutsOnlyWhatIsTooLarge
  /\ SeamsAreAgreed
  /\ SweepFollowsTheWaves
================================================================================
