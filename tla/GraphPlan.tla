------------------------------- MODULE GraphPlan -------------------------------
(***************************************************************************)
(* From the analyser's code graph to a plan: graph/build.js,               *)
(* graph/condense.js, graph/feedback.js, graph/conflict.js, graph/adapt.js,*)
(* sched/levels.js, node/scope.js and sched/assemble.js.                   *)
(*                                                                         *)
(* Objects are numbers and the order of names is the order of numbers.  An *)
(* edge is a pair; of a reference <<u, v>> the user comes first, of a      *)
(* precedence <<u, v>> the one to build first.  Texts, patterns and hashes *)
(* are abstracted: a scanned statement is already a record of what the     *)
(* patterns found in it.                                                   *)
(***************************************************************************)
EXTENDS Integers, Sequences, FiniteSets, TLC, Functions, FiniteSetsExt, SequencesExt

\* No object: the name of none of them.
NoObject == 0

\* The member of a singleton: Only({f(x) : x \in {e}}) computes e once.
Only(S) == CHOOSE x \in S : TRUE

sorted(S) ==
  [i \in 1..Cardinality(S) |-> CHOOSE x \in S : Cardinality({y \in S : y < x}) = i - 1]

\* What a sequence has at some of its places, in its order.
elementsAt(s, places) ==
  LET at == sorted(places)
  IN  [k \in DOMAIN at |-> s[at[k]]]

Smallest(S) == CHOOSE x \in S : \A y \in S : x <= y

PairBefore(e, f) == e[1] < f[1] \/ (e[1] = f[1] /\ e[2] < f[2])
--------------------------------------------------------------------------------
(* Building: code-graph nodes to objects *)

\* A node of the code graph is [id, object]; an endpoint without a node
\* stands for an object of that name.
buildObjectGraph(cpg) ==
  LET objectOf(id) ==
        IF \E n \in cpg.nodes : n.id = id
        THEN (CHOOSE n \in cpg.nodes : n.id = id).object ELSE id
      lifted == {<<objectOf(e[1]), objectOf(e[2])>> : e \in cpg.edges}
      edges == {e \in lifted : e[1] # e[2]}
  IN  [nodes |-> {n.object : n \in cpg.nodes} \cup {e[1] : e \in edges} \cup {e[2] : e \in edges},
       edges |-> edges]

precedenceEdges(edges) == {<<e[2], e[1]>> : e \in edges}
--------------------------------------------------------------------------------
(* Strongly connected components, by an iterative depth-first search *)

open(s, v) ==
  [s EXCEPT !.index = @ @@ (v :> s.next), !.low = @ @@ (v :> s.next), !.next = @ + 1,
            !.stack = Append(@, v), !.work = Append(@, [v |-> v, i |-> 1])]

\* The top frame looks at its next neighbour.
look(s, w) ==
  LET top == Len(s.work)
      v == s.work[top].v
      moved == [s EXCEPT !.work[top].i = @ + 1]
  IN  CASE w \notin DOMAIN s.index -> open(moved, w)
        [] w \in DOMAIN s.index /\ w \in Range(s.stack) /\ s.index[w] < s.low[v] ->
             [moved EXCEPT !.low[v] = s.index[w]]
        [] OTHER -> moved

completed(comps, c) == Append(comps, c)

\* A frame without further neighbours closes; a root takes its component off
\* the stack, and the parent frame learns its low link.
popComponent(s, v) ==
  IF s.low[v] # s.index[v] THEN s
  ELSE LET at == CHOOSE i \in DOMAIN s.stack : s.stack[i] = v
       IN  [s EXCEPT !.comps = completed(@, {s.stack[i] : i \in at..Len(s.stack)}),
                     !.stack = SubSeq(@, 1, at - 1)]

close(s) ==
  LET v == s.work[Len(s.work)].v
      done == [popComponent(s, v) EXCEPT !.work = Front(s.work)]
  IN  IF done.work = << >> THEN done
      ELSE LET parent == done.work[Len(done.work)].v
           IN  IF done.low[v] < done.low[parent] THEN [done EXCEPT !.low[parent] = done.low[v]] ELSE done

turn(s, adj) ==
  LET frame == s.work[Len(s.work)]
  IN  CASE s.work = << >> -> s
        [] s.work # << >> /\ frame.i <= Len(adj[frame.v]) -> look(s, adj[frame.v][frame.i])
        [] OTHER -> close(s)

\* The loop, of at most so many turns.
search(s, adj, most) ==
  LET after[k \in 0..most] == IF k = 0 THEN s ELSE turn(after[k - 1], adj)
  IN  after[most]

\* The components in the order they are completed.  A search takes at most one
\* turn for each edge and one for each node.
tarjanSccs(nodes, edges) ==
  LET most == Cardinality(edges) + Cardinality(nodes)
      adj == [n \in nodes |-> sorted({v \in nodes : <<n, v>> \in edges})]
      roots == sorted(nodes)
      start == [index |-> << >>, low |-> << >>, next |-> 0, stack |-> << >>, work |-> << >>, comps |-> << >>]
      upTo[i \in 0..Len(roots)] ==
        IF i = 0 THEN start
        ELSE IF roots[i] \in DOMAIN upTo[i - 1].index THEN upTo[i - 1]
        ELSE search(open(upTo[i - 1], roots[i]), adj, most)
  IN  upTo[Len(roots)].comps

\* Each component is named by its smallest member.
condense(nodes, edges, comps) ==
  LET superOf == [n \in nodes |-> Smallest(CHOOSE c \in comps : n \in c)]
      between == {<<superOf[e[1]], superOf[e[2]]>> : e \in {x \in edges : x[1] \in nodes /\ x[2] \in nodes}}
  IN  [superNodes |-> {[id |-> Smallest(c), members |-> c, break_gate |-> Cardinality(c) > 1] : c \in comps},
       superOf |-> superOf,
       edges |-> {e \in between : e[1] # e[2]}]

tarjanCondense(nodes, edges) == condense(nodes, edges, Range(tarjanSccs(nodes, edges)))
--------------------------------------------------------------------------------
(* The levels *)

\* Level by level: a node joins when the last edge into it has been counted off.
\* s is [levels, layer, counter]: what is done, what is next, what is missing.
nextLayer(s, edges) ==
  LET into(v) == Cardinality({u \in s.layer : <<u, v>> \in edges})
      next == [v \in DOMAIN s.counter |-> s.counter[v] - into(v)]
  IN  IF s.layer = {} THEN s
      ELSE [levels |-> Append(s.levels, s.layer), counter |-> next,
            layer |-> {v \in DOMAIN next : into(v) > 0 /\ next[v] = 0}]

kahnLevels(cond) ==
  LET ids == {s.id : s \in cond.superNodes}
      indegree == [v \in ids |-> Cardinality({u \in ids : <<u, v>> \in cond.edges})]
      start == [levels |-> << >>, layer |-> {v \in ids : indegree[v] = 0}, counter |-> indegree]
      after[k \in 0..Cardinality(ids)] == IF k = 0 THEN start ELSE nextLayer(after[k - 1], cond.edges)
  IN  after[Cardinality(ids)].levels

levelOf(levels, id) == (CHOOSE k \in DOMAIN levels : id \in levels[k]) - 1
--------------------------------------------------------------------------------
(* Groups of shared resources, by union-find; the smaller name is the root *)

find(parent, x) ==
  LET root[y \in DOMAIN parent] == IF parent[y] = y THEN y ELSE root[parent[y]]
  IN  root[x]

unionOfNames(parent, a, b) == IF a = b THEN parent ELSE [parent EXCEPT ![Max({a, b})] = Min({a, b})]

union(parent, a, b) ==
  LET ra == find(parent, a)
      rb == find(parent, b)
  IN  IF ra = rb THEN parent ELSE [parent EXCEPT ![Max({ra, rb})] = Min({ra, rb})]

unionAll(ids, pairs) ==
  LET upTo[i \in 0..Len(pairs)] ==
        IF i = 0 THEN [x \in ids |-> x] ELSE union(upTo[i - 1], pairs[i][1], pairs[i][2])
  IN  upTo[Len(pairs)]

groupsOf(parent) ==
  LET group(x) == {y \in DOMAIN parent : find(parent, y) = find(parent, x)}
  IN  {group(x) : x \in DOMAIN parent}

\* Every bucket of a key is united from its first member.
buildConflictGraph(keysOf, keys) ==
  LET bucket(k) == {n \in DOMAIN keysOf : k \in keysOf[n]}
      pairsOf(k) == LET b == sorted(bucket(k)) IN [i \in 1..(Len(b) - 1) |-> <<b[1], b[i + 1]>>]
      buckets == [i \in 1..Len(keys) |-> IF bucket(keys[i]) = {} THEN << >> ELSE pairsOf(keys[i])]
      all[i \in 0..Len(keys)] == IF i = 0 THEN << >> ELSE all[i - 1] \o buckets[i]
  IN  {g \in groupsOf(unionAll(DOMAIN keysOf, all[Len(keys)])) : Cardinality(g) > 1}

\* Programs tied by includes share a pool, named by its root.
programPools(includes) ==
  LET ids == UNION {{includes[i][1], includes[i][2]} : i \in DOMAIN includes}
      parent == unionAll(ids, includes)
  IN  [o \in ids |-> find(parent, o)]
--------------------------------------------------------------------------------
(* The plan *)

\* Nearest in-plan ancestors: an object outside the plan passes on what it needs.
\* s is [stack, seen, found]; no edge puts its end on the stack twice.
walk(s, before, inPlan) ==
  LET p == Smallest(s.stack)
      rest == [s EXCEPT !.stack = @ \ {p}]
  IN  CASE s.stack = {} -> s
        [] s.stack # {} /\ p \in s.seen -> rest
        [] s.stack # {} /\ p \in inPlan \ s.seen ->
             [rest EXCEPT !.seen = @ \cup {p}, !.found = @ \cup {p}]
        [] OTHER ->
             [rest EXCEPT !.stack = @ \cup {q[1] : q \in {e \in before : e[2] = p}}, !.seen = @ \cup {p}]

inPlanAncestors(id, before, inPlan) ==
  LET start == [stack |-> {e[1] : e \in {x \in before : x[2] = id}}, seen |-> {id}, found |-> {}]
      after[k \in 0..Cardinality(before)] == IF k = 0 THEN start ELSE walk(after[k - 1], before, inPlan)
  IN  after[Cardinality(before)].found

\* One plan node for each component with an object in the plan; sealed when a
\* member is, in the plan or not.
buildPlanNodes(cond, levels, planned, seals, keysOf) ==
  LET inPlan == {cond.superOf[o] : o \in planned}
      node(super, own) ==
        [id |-> super.id, object |-> Smallest(own), members |-> super.members, planned |-> own,
         kind |-> IF Cardinality(own) > 1 THEN "super" ELSE "object",
         break_gate |-> super.break_gate,
         sealed |-> super.members \cap seals # {},
         wave |-> levelOf(levels, super.id),
         dependencies |-> inPlanAncestors(super.id, cond.edges, inPlan),
         conflict_keys |-> UNION {keysOf[m] : m \in own}]
  IN  {node(super, super.members \cap planned) : super \in {s \in cond.superNodes : s.id \in inPlan}}

assemblePlan(objects, references, planned, seals, keysOf) ==
  Only({buildPlanNodes(cond, kahnLevels(cond), planned, seals, keysOf) :
          cond \in {tarjanCondense(objects, precedenceEdges(references))}})
--------------------------------------------------------------------------------
(* Dynamic code: what the scan of a source adds to the graph *)

\* A scanned statement is [kind, owner, member]: a seal, or a target written as
\* owner=>member, or as a bare member of the object itself (owner NoObject).
augmentFromCpg(objects, membersOf, scanned) ==
  LET targetOf(o, x) ==
        CASE x.owner # NoObject -> x.owner
          [] x.owner = NoObject /\ x.member \in membersOf[o] -> o
          [] OTHER -> NoObject
      targets(o) == {targetOf(o, x) : x \in {y \in scanned[o] : y.kind = "target"}}
  IN  [seals |-> {o \in objects : (\E x \in scanned[o] : x.kind = "seal") \/ ~ targets(o) \subseteq objects},
       edges |-> UNION {{<<o, t>> : t \in (targets(o) \cap objects) \ {o}} : o \in objects}]
================================================================================
