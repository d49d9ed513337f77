------------------------------- MODULE PlanRecord -------------------------------
(***************************************************************************)
(* What holds a run to its plan: the frozen plan and its hash and what a   *)
(* new plan would move (sched/plan.js), the check of what was generated    *)
(* against the ratified contract (sched/conformance.js,                    *)
(* cli-conformance.js), and what people are shown about a group of objects *)
(* (plan/group-evidence.js) and about dropped objects                      *)
(* (plan/disposition-gate.js, plan/dropped-features.js).                   *)
(*                                                                         *)
(* A hash is the content itself: no two contents have the same one.  A     *)
(* node is [id, wave, dependencies], its dependencies a sequence before it *)
(* is frozen and a set afterwards.                                         *)
(***************************************************************************)
EXTENDS GraphPlan

Refused == [refused |-> TRUE]

\* A wave that is no number, and an identity given twice, end the freezing.
malformed(nodes) ==
  \/ \E n \in Range(nodes) : n.wave < 0
  \/ \E i, j \in DOMAIN nodes : i < j /\ nodes[i].id = nodes[j].id

canonicalNodes(nodes) == {[n EXCEPT !.dependencies = Range(@)] : n \in Range(nodes)}

\* The k-th distinct wave, and the nodes in it.
deriveWaves(nodes) ==
  LET order == sorted({n.wave : n \in nodes})
  IN  [k \in DOMAIN order |-> {n.id : n \in {m \in nodes : m.wave = order[k]}}]

hashPlan(nodes, waves) == <<nodes, waves>>

freezePlan(nodes) ==
  IF malformed(nodes) THEN Refused
  ELSE LET canonical == canonicalNodes(nodes)
       IN  [refused |-> FALSE, nodes |-> canonical, waves |-> deriveWaves(canonical),
            plan_hash |-> hashPlan(canonical, deriveWaves(canonical))]

\* The waves are hashed as they are stored, not derived again.
loadPlan(file) ==
  IF ~ file.known_schema \/ malformed(file.nodes) THEN Refused
  ELSE IF file.plan_hash # hashPlan(canonicalNodes(file.nodes), file.waves) THEN Refused
  ELSE [refused |-> FALSE, nodes |-> canonicalNodes(file.nodes), waves |-> file.waves, plan_hash |-> file.plan_hash]

waveByNodeId(plan) == [i \in {n.id : n \in plan.nodes} |-> (CHOOSE n \in plan.nodes : n.id = i).wave]

\* What a new plan does to the old one; a person is asked about committed nodes.
replan(prev, next, committed) ==
  LET p == waveByNodeId(prev)
      q == waveByNodeId(next)
      moved == {i \in DOMAIN p \cap DOMAIN q \cap committed : p[i] # q[i]}
      removed == DOMAIN p \ DOMAIN q
  IN  [replan_required |-> moved \cup (removed \cap committed) # {},
       moved_committed |-> moved, removed_committed |-> removed \cap committed,
       added |-> DOMAIN q \ DOMAIN p, removed |-> removed]
--------------------------------------------------------------------------------
(* Conformance.  The structure of an object is [keys, fields, associations,*)
(* annotations, source], the middle three functions from names; a contract *)
(* object is [id, specs, grounded_apis, invariants], specs holding at most *)
(* one structure.                                                          *)

\* A name pinned without a value is only required to be there.
Unpinned == "unpinned"

\* An object that selects from nothing.
NoSource == "none"

each(violation, names) == {<<violation, x>> : x \in names}

misses(pinned, actual) ==
  {x \in DOMAIN pinned : x \notin DOMAIN actual \/ (pinned[x] # Unpinned /\ actual[x] # pinned[x])}

\* Closed world, but for annotations, which may be more.
checkCdsObject(spec, grounded_apis, ext) ==
  each("key", (spec.keys \ ext.keys) \cup (ext.keys \ spec.keys))
  \cup each("field", misses(spec.fields, ext.fields) \cup (DOMAIN ext.fields \ DOMAIN spec.fields))
  \cup each("association", misses(spec.associations, ext.associations)
                                 \cup (DOMAIN ext.associations \ DOMAIN spec.associations))
  \cup each("annotation", misses(spec.annotations, ext.annotations))
  \cup each("ungrounded", (({ext.source} \ {NoSource}) \cup Range(ext.associations)) \ grounded_apis)

\* Of two generated objects of one identity the last is the one looked at.
checkConformance(generated, contract) ==
  LET last(id) == generated[Max({i \in DOMAIN generated : generated[i].id = id})]
      made == {g.id : g \in Range(generated)}
      violationsOf(c) ==
        IF c.id \notin made THEN {<<"missing", c.id>>}
        ELSE (UNION {checkCdsObject(spec, c.grounded_apis, last(c.id).structure) : spec \in c.specs})
             \cup each("invariant", c.invariants \ last(c.id).invariants)
  IN  each("outside", made \ {c.id : c \in contract}) \cup UNION {violationsOf(c) : c \in contract}

\* The run state binds a node to the hash of a contract, or to none; a contract
\* stands for its hash.  The file carries a hash of its own, which was its
\* contents' when it was written, and nobody computes it again.
Unbound == {}

loadContract(binding, file) ==
  binding.hash # Unbound /\ binding.ratified /\ file.readable /\ file.contract_hash = binding.hash

cmdConformance(binding, file, generated) ==
  IF ~ loadContract(binding, file) THEN "refused"
  ELSE IF checkConformance(generated, file.contract) = {} THEN "ok" ELSE "blocked"
--------------------------------------------------------------------------------
(* Groups *)

\* Read in both directions, and within the plan only.
buildAdjacency(plan) ==
  LET ids == {n.id : n \in plan}
      depends(a, b) == \E n \in plan : n.id = a /\ b \in n.dependencies
  IN  [a \in ids |-> {b \in ids \ {a} : depends(a, b) \/ depends(b, a)}]

groupEvidence(sig, group, adjacency) ==
  LET linked == (group \ {sig}) \cap adjacency[sig]
  IN  [members |-> Cardinality(group), linked_members |-> Cardinality(linked),
       isolated |-> Cardinality(group) > 1 /\ linked = {}]

\* The strongest object outside the group that more than one member is linked to.
groupHub(group, adjacency) ==
  LET links(h) == Cardinality({m \in group : h \in adjacency[m]})
      hubs == {h \in DOMAIN adjacency \ group : links(h) > 1}
      strongest == {h \in hubs : \A x \in hubs : links(x) <= links(h)}
  IN  IF hubs = {} THEN NoObject ELSE Smallest(strongest)
--------------------------------------------------------------------------------
(* Dropped objects: a node is [id, disposition, dependencies] *)

droppedDependencies(plan) ==
  LET dependents(r) == {n.id : n \in {m \in plan : m.disposition # "retire" /\ r \in m.dependencies}}
      retired == {n.id : n \in {m \in plan : m.disposition = "retire"}}
  IN  {[retired |-> r, dependents |-> dependents(r)] : r \in {x \in retired : dependents(x) # {}}}

\* The bus identifies a question by the nodes it is about, and asks it once.
reportedNodes(d) == {d.retired} \cup d.dependents

raiseDroppedDependencies(register, plan) ==
  register \cup {[kind |-> "DROPPED_DEPENDENCY", node_ids |-> reportedNodes(d)] : d \in droppedDependencies(plan)}

DISPOSITION_TERMINALS == [RETIRED |-> "retire", REBUILT_HANDOFF |-> "rebuild"]

\* A row is [sig, status, signed]; one that did not come from the audited
\* outcome fails the whole ledger.
wrongRow(row, plan) ==
  \/ ~ \E n \in plan : n.id = row.sig /\ row.status \in DOMAIN DISPOSITION_TERMINALS
                         /\ n.disposition = DISPOSITION_TERMINALS[row.status]
  \/ ~ row.signed

buildDroppedFeatures(plan, disposition_register) ==
  IF \E row \in disposition_register : wrongRow(row, plan) THEN Refused
  ELSE [refused |-> FALSE, rows |-> disposition_register]
================================================================================
