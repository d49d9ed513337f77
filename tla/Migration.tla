-------------------------------- MODULE Migration --------------------------------
(***************************************************************************)
(* What the analyser reads out of the code for whoever plans the work: the *)
(* modernization plan (modernization-plan.js), the blast radius of a       *)
(* change (blast-radius.js), the identity of a finding                     *)
(* (finding-identity.js) and the windows between statements                *)
(* (rules/flow-pack.js).                                                   *)
(*                                                                         *)
(* A code graph has nodes, in their order, [id, object, customer, kind,    *)
(* rank], and edges, pairs of ids; an edge may lead to an id that has no   *)
(* node.                                                                   *)
(***************************************************************************)
EXTENDS Seams

TRANSPORT_RANK == [cds |-> 1, interface |-> 2, class |-> 3, behavior |-> 4]

PLAN_KINDS == {"class", "report", "function", "interface", "table", "cds", "behavior"}

transportRank(kind) == IF kind \in DOMAIN TRANSPORT_RANK THEN TRANSPORT_RANK[kind] ELSE 99

\* The customer's objects that are built on their own; the first node of an
\* object gives its kind and the highest ranked one its rank.
customerUnits(nodes) ==
  LET own == SelectSeq(nodes, LAMBDA n : n.customer /\ n.kind \in PLAN_KINDS)
      of(o) == SelectSeq(own, LAMBDA n : n.object = o)
  IN  [o \in {n.object : n \in Range(own)} |->
         [kind |-> Head(of(o)).kind, rank |-> Max({n.rank : n \in Range(of(o))})]]

\* Dependencies between planned objects only: what is reached through others is not seen.
dependenciesByObject(graph, planObjects) ==
  LET lifted == buildObjectGraph([nodes |-> Range(graph.nodes), edges |-> graph.edges]).edges
  IN  [o \in planObjects |-> {e[2] : e \in {x \in lifted : x[1] = o /\ x[2] \in planObjects}}]

\* A depth-first search from an object.  One already placed keeps its wave, and
\* one that is being visited counts as a leaf.
RECURSIVE compute(_, _, _)
compute(deps, s, o) ==
  IF o \in DOMAIN s.wave \/ o \in s.visiting THEN s
  ELSE LET visit(t, d) ==
             LET below == compute(deps, [wave |-> t.wave, visiting |-> t.visiting], d)
                 depth == IF d \in DOMAIN below.wave THEN below.wave[d] ELSE 0
             IN  [wave |-> below.wave, visiting |-> below.visiting, w |-> Max({t.w, depth + 1})]
           done == FoldLeft(visit, [wave |-> s.wave, visiting |-> s.visiting \cup {o}, w |-> 0], sorted(deps[o]))
       IN  [wave |-> (o :> done.w) @@ done.wave, visiting |-> done.visiting \ {o}]

topologicalWaves(deps) ==
  LET empty == [wave |-> [o \in {} |-> 0], visiting |-> {}]
  IN  FoldLeft(LAMBDA s, o : compute(deps, s, o), empty, sorted(DOMAIN deps)).wave

\* A higher rank is a smaller number of the priority; ranks are in hundredths.
priorityRank(rank) == IF rank > 80 THEN "P1" ELSE IF rank > 50 THEN "P2" ELSE "P3"

modernizationPlan(graph) ==
  LET units == customerUnits(graph.nodes)
      deps == dependenciesByObject(graph, DOMAIN units)
      waves == topologicalWaves(deps)
      before(a, b) == \/ transportRank(units[a].kind) < transportRank(units[b].kind)
                      \/ transportRank(units[a].kind) = transportRank(units[b].kind) /\ a < b
  IN  [objects |-> [o \in DOMAIN units |->
                      [priority |-> priorityRank(units[o].rank), wave |-> waves[o], dependencies |-> deps[o]]],
       wave_count |-> Max({waves[o] + 1 : o \in DOMAIN units} \cup {0}),
       transport_order |-> [i \in 1..Cardinality(DOMAIN units) |->
                              CHOOSE o \in DOMAIN units : Cardinality({p \in DOMAIN units : before(p, o)}) = i - 1]]
--------------------------------------------------------------------------------
(* The blast radius *)

\* The nodes of an object, or its name where the graph has no node of it.
seedNodes(graph, targetObject) ==
  LET own == {n.id : n \in {m \in Range(graph.nodes) : m.object = targetObject}}
  IN  IF own = {} THEN {targetObject} ELSE own

\* Breadth first, against the edges, a bounded number of times.
widen(graph, visited) == visited \cup {e[1] : e \in {x \in graph.edges : x[2] \in visited}}

blastRadius(graph, targetObject, maxDepth) ==
  LET nodesOf(id) == {n \in Range(graph.nodes) : n.id = id}
      ownerOf(id) == IF nodesOf(id) = {} THEN id ELSE (CHOOSE n \in nodesOf(id) : TRUE).object
      reached[k \in 0..maxDepth] == IF k = 0 THEN seedNodes(graph, targetObject) ELSE widen(graph, reached[k - 1])
  IN  {ownerOf(id) : id \in reached[maxDepth]} \ {targetObject}
--------------------------------------------------------------------------------
(* Findings: a line opens a unit, which is its name, or is one of these *)

EndOfUnit == "end"
CodeLine == "code"

\* The nearest unit above that is not closed again; outside of units, the object.
enclosingUnit(lines, lineNo, object) ==
  LET up(s, l) ==
        CASE s.unit # object \/ l = CodeLine -> s
          [] s.unit = object /\ l = EndOfUnit -> [s EXCEPT !.depth = @ + 1]
          [] OTHER -> IF s.depth = 0 THEN [s EXCEPT !.unit = l] ELSE [s EXCEPT !.depth = @ - 1]
  IN  FoldLeft(up, [unit |-> object, depth |-> 0], Reverse(SubSeq(lines, 1, lineNo))).unit

\* The number of the line is no part of it.
findingId(rule, lines, lineNo, object) == <<rule, object, enclosingUnit(lines, lineNo, object), lines[lineNo]>>
--------------------------------------------------------------------------------
(* Windows between the statements of a file, for one lock and one field symbol *)

warn(s, rule, i) == [s EXCEPT !.warnings = @ \cup {<<rule, i>>}]

\* One warning in a window.
trackLock(s, kind, i) ==
  CASE kind = "enqueue" -> [s EXCEPT !.lockHolder = TRUE]
    [] kind = "dequeue" -> [s EXCEPT !.lockHolder = FALSE]
    [] kind = "call" /\ s.lockHolder -> warn([s EXCEPT !.lockHolder = FALSE], "lock-held-across-calls", i)
    [] OTHER -> s

\* Naming the symbol is using it, assigning it again too.
checkDanglingFs(s, kind, i) ==
  CASE kind = "unassign" -> [s EXCEPT !.loopAssigned = FALSE]
    [] kind \in {"use", "assign"} /\ s.loopAssigned ->
         warn([s EXCEPT !.loopAssigned = FALSE], "dangling-field-symbol", i)
    [] OTHER -> s

loopWindow(s, kind, i, threshold) ==
  CASE kind = "loop" -> [s EXCEPT !.depth = @ + 1, !.calc = IF s.depth = 0 THEN 0 ELSE @,
                                  !.loopStart = IF s.depth = 0 THEN i ELSE @]
    [] kind = "endloop" ->
         LET left == [s EXCEPT !.depth = Max({0, @ - 1})]
         IN  IF left.depth = 0 /\ s.calc >= threshold THEN warn(left, "heavy-loop-calc", s.loopStart) ELSE left
    [] kind \notin {"loop", "endloop"} /\ s.depth > 0 ->
         [s EXCEPT !.calc = IF kind = "calc" THEN @ + 1 ELSE @, !.loopAssigned = @ \/ kind = "assign"]
    [] OTHER -> checkDanglingFs(s, kind, i)

\* The threshold is 8; no window reaches beyond its method.
scanFile(stmts, threshold) ==
  LET start == [depth |-> 0, lockHolder |-> FALSE, calc |-> 0, loopStart |-> 0, loopAssigned |-> FALSE, warnings |-> {}]
      left(s, kind) == IF kind = "endmethod" THEN [s EXCEPT !.lockHolder = FALSE, !.loopAssigned = FALSE] ELSE s
      after[i \in 0..Len(stmts)] ==
        IF i = 0 THEN start
        ELSE loopWindow(left(trackLock(after[i - 1], stmts[i], i), stmts[i]), stmts[i], i, threshold)
  IN  after[Len(stmts)].warnings
================================================================================
