-------------------------------- MODULE Evidence --------------------------------
(***************************************************************************)
(* What the analyser's findings say about an object, and what becomes of   *)
(* it: plan/reach.js, plan/consumption-facts.js, plan/persistence-facts.js,*)
(* plan/ground-candidates.js, plan/disposition.js, plan/manifest.js and    *)
(* plan/prompt-options.js, plan/fit-to-standard.js.                        *)
(*                                                                         *)
(* A document doc has objects (numbers), edges [source, target, kind,      *)
(* access, remote], kindOf an object, findings [object, priority, family]  *)
(* and names: for every target, what the patterns, the registry and the    *)
(* landscape say of it: its namespace ("ZY", "registered", that is /NS/,   *)
(* or "bare") and whom a registered one is listed for; the oracle's state, *)
(* and whether the oracle's entry (mapped) or the analyser's (successor)   *)
(* names a successor; construct, direction, posts, domain and role.        *)
(* A confidence is in hundredths.                                          *)
(***************************************************************************)
EXTENDS GraphPlan, Registry

STRUCTURAL_EDGE_KINDS == {"includes", "contains"}

isReachEdge(e) == e.kind \notin STRUCTURAL_EDGE_KINDS /\ e.target # e.source

ownersIn(doc) == doc.objects \cup {e.source : e \in doc.edges} \cup {e.target : e \in doc.edges}

calleeMap(doc) ==
  [o \in ownersIn(doc) |-> {e.target : e \in {x \in doc.edges : x.source = o /\ isReachEdge(x)}}]

directFacts(doc, factsOfEdge, factsOfNode) ==
  [o \in ownersIn(doc) |->
     (UNION {factsOfEdge[e] : e \in {x \in doc.edges : x.source = o /\ isReachEdge(x)}})
     \cup (IF o \in doc.objects THEN factsOfNode[o] ELSE {})]

\* The callees of an object, the ones in its own cycle aside.
foreignFacts(callees, comps, facts, members, i) ==
  UNION {UNION {facts[j] : j \in {k \in 1..(i - 1) : callees[m] \cap comps[k] # {}}} : m \in members}

\* A cycle's facts are its members' and those of the components completed before it.
factsOver(comps, callees, direct) ==
  LET facts[i \in DOMAIN comps] ==
        (UNION {direct[m] : m \in comps[i]}) \cup foreignFacts(callees, comps, facts, comps[i], i)
  IN  [o \in DOMAIN callees |-> facts[CHOOSE i \in DOMAIN comps : o \in comps[i]]]

componentFacts(callees, direct) ==
  LET edges == {e \in (DOMAIN callees) \X (DOMAIN callees) : e[2] \in callees[e[1]]}
  IN  Only({factsOver(comps, callees, direct) : comps \in {tarjanSccs(DOMAIN callees, edges)}})

\* What an object has through its callees and not itself, with the first callee it comes through.
reachedThrough(facts, callees, direct) ==
  LET through(o, f) == {c \in callees[o] : f \in facts[c]}
      news(o) == (UNION {facts[c] : c \in callees[o]}) \ direct[o]
  IN  [o \in DOMAIN callees |->
         [direct |-> direct[o], reached |-> {[fact |-> f, via |-> Smallest(through(o, f))] : f \in news(o)}]]

reachableEvidence(callees, direct) ==
  Only({reachedThrough(facts, callees, direct) : facts \in {componentFacts(callees, direct)}})

withEvidence(evidence, absence, propagate) ==
  LET found(o) == evidence[o].direct \cup (IF propagate THEN {r.fact : r \in evidence[o].reached} ELSE {})
  IN  [o \in DOMAIN evidence |-> IF found(o) = {} THEN {absence} ELSE found(o)]

reachableFacts(callees, direct, absence, propagate) ==
  Only({withEvidence(e, absence, propagate) : e \in {reachableEvidence(callees, direct)}})
--------------------------------------------------------------------------------
(* Consumption and persistence *)

NO_EVIDENCE == "no_surface_evidence"
NO_PERSISTENCE == "no_persistence_evidence"

\* The first pattern that fits; an IDoc call also has a direction; then a
\* destination, then an API that SAP keeps for classic extensions only.
classifyConstruct(name, remote) ==
  CASE name.construct = "remote_idoc" -> {"remote_idoc"} \cup name.direction
    [] name.construct \notin {"none", "remote_idoc"} -> {name.construct}
    [] name.construct = "none" /\ remote -> {"remote_rfc"}
    [] name.construct = "none" /\ ~ remote /\ name.state = "classicAPI" -> {"classic_api_surface"}
    [] OTHER -> {}

NODE_KIND_FACT(kind) ==
  CASE kind \in {"report", "program", "executable"} -> {"batch_report"}
    [] kind \in {"screen", "dynpro"} -> {"ui_dynpro"}
    [] OTHER -> {}

consumptionEvidence(doc) ==
  LET edgeFacts == [e \in doc.edges |-> classifyConstruct(doc.names[e.target], e.remote)]
      nodeFacts == [o \in doc.objects |-> NODE_KIND_FACT(doc.kindOf[o])]
  IN  reachableEvidence(calleeMap(doc), directFacts(doc, edgeFacts, nodeFacts))

consumptionFacts(doc) ==
  LET edgeFacts == [e \in doc.edges |-> classifyConstruct(doc.names[e.target], e.remote)]
      nodeFacts == [o \in doc.objects |-> NODE_KIND_FACT(doc.kindOf[o])]
  IN  reachableFacts(calleeMap(doc), directFacts(doc, edgeFacts, nodeFacts), NO_EVIDENCE, TRUE)

\* Whose a name is, where it matters for writing: a registered namespace is the
\* customer's when it is listed so, and else SAP's, as the file is shipped.
CUSTOMER_PREFIX(name) == name.namespace = "ZY"

ownsName(name) == CUSTOMER_PREFIX(name) \/ (name.namespace = "registered" /\ name.listed = "customer")

classifyTable(name, access) ==
  CASE ownsName(name) /\ access = "write" -> {"owns_customer_table"}
    [] ownsName(name) /\ access = "read" -> {"reads_customer_table"}
    [] ~ ownsName(name) /\ access = "write" -> {"writes_sap_table"}
    [] OTHER -> {"reads_sap_table"}

writeThroughApi(name) == IF ~ CUSTOMER_PREFIX(name) /\ name.posts THEN {"writes_via_sap_api"} ELSE {}

\* An object owns what it touches itself: nothing is handed to its callers.
persistenceFacts(doc) ==
  LET edgeFacts == [e \in doc.edges |-> IF e.kind = "uses-table" THEN classifyTable(doc.names[e.target], e.access)
                                        ELSE writeThroughApi(doc.names[e.target])]
      nodeFacts == [o \in doc.objects |-> {}]
  IN  reachableFacts(calleeMap(doc), directFacts(doc, edgeFacts, nodeFacts), NO_PERSISTENCE, FALSE)

\* The facts of a unit; one that was seen outweighs the absence of the others'.
memberUnion(members, factsOf, absence) ==
  LET all == UNION {factsOf[m] : m \in members \cap DOMAIN factsOf}
  IN  IF Cardinality(all) > 1 THEN all \ {absence} ELSE all
--------------------------------------------------------------------------------
(* Grounding *)

BLOCKER_FAMILIES == {"clean-core", "deprecation"}
FINDING_DERIVED_CERTAINTY == 80
SOURCE_GROUNDED_CERTAINTY == 100
NO_FORWARD_PATH == {"deprecated", "removed"}

\* The state the analyser makes of the oracle's: by its level, in words of its own.
releaseState(name) ==
  RELEASE_STATE_FOR_LEVEL[IF name.state \in DOMAIN STATE_LEVEL THEN STATE_LEVEL[name.state] ELSE "unknown"]

\* The registry does not carry every name, and what it does not carry is not released.
unreleased(sapRefs, names) == {r \in sapRefs : releaseState(names[r]) # "released"}

\* A registered namespace counts as SAP's here.
CUSTOMER_NS(name) == name.namespace = "ZY"

groundRegistryRefs(doc, o) ==
  LET edges == {e \in doc.edges : e.source = o}
      refs == {e.target : e \in edges}
      sapRefs == {r \in refs : ~ CUSTOMER_NS(doc.names[r])}
      tables == {e.target : e \in {x \in edges : x.kind = "uses-table"}}
  IN  [no_successor_refs |-> {r \in refs : releaseState(doc.names[r]) \in NO_FORWARD_PATH
                                        /\ ~ doc.names[r].successor},
       standard_domains |-> UNION {doc.names[t].domain : t \in tables},
       allReleased |-> sapRefs # {} /\ unreleased(sapRefs, doc.names) = {}]

\* Nothing found is not clean: an object must have been analysed.
groundCandidates(doc) ==
  [o \in doc.objects |->
     LET fs == {f \in doc.findings : f.object = o}
         registry == groundRegistryRefs(doc, o)
         clean == fs # {} /\ ~ \E f \in fs : f.priority = "P1" /\ f.family \in BLOCKER_FAMILIES
     IN  [released_clean |-> clean,
          grounding_certainty |-> IF clean /\ registry.allReleased THEN SOURCE_GROUNDED_CERTAINTY
                                  ELSE FINDING_DERIVED_CERTAINTY,
          no_successor_refs |-> registry.no_successor_refs,
          standard_domains |-> registry.standard_domains]]
--------------------------------------------------------------------------------
(* Disposition: a node is [object, members, object_kind, hints, target, sealed] *)

DISPOSITION_AUTO_THRESHOLD == 90

\* Targets that ask for another architecture.
RE_ARCH_TARGET == {"RAP Business Object", "CDS View", "OData V4 Service", "Fiori Elements App"}

RETAINED_KINDS == {"interface", "exception class", "table"}

hasStructure(structure) == structure.consumption # {NO_EVIDENCE} \/ structure.persistence # {NO_PERSISTENCE}

\* The rules in their order; the first that applies decides.
rulesFor(node, g, structure) ==
  <<[holds |-> node.sealed, disposition |-> "seal", confidence |-> 95],
    [holds |-> "ui_rearch" \in node.hints, disposition |-> "re_architect", confidence |-> 85],
    [holds |-> "os_exec" \in node.hints, disposition |-> "re_architect", confidence |-> 85],
    [holds |-> node.object_kind \in RETAINED_KINDS, disposition |-> "refactor",
     confidence |-> IF g.released_clean THEN g.grounding_certainty ELSE 70],
    [holds |-> "rfc_rebuild" \in node.hints, disposition |-> "re_architect", confidence |-> 80],
    [holds |-> node.target \in RE_ARCH_TARGET, disposition |-> "re_architect",
     confidence |-> IF ~ structure.observed \/ ~ hasStructure(structure) THEN 50 ELSE 70],
    [holds |-> g.released_clean, disposition |-> "refactor", confidence |-> g.grounding_certainty],
    [holds |-> TRUE, disposition |-> "seal", confidence |-> 30]>>

decide(node, g, structure) ==
  LET rules == rulesFor(node, g, structure)
  IN  rules[Smallest({i \in DOMAIN rules : rules[i].holds})]

evidenceOfFirst(node, cache) ==
  [no_successor_refs |-> cache[node.object].no_successor_refs,
   standard_domains |-> cache[node.object].standard_domains]

\* The evidence is the whole unit's.
unionEvidence(node, cache) ==
  LET members == node.members \cap DOMAIN cache
  IN  [no_successor_refs |-> UNION {cache[m].no_successor_refs : m \in members},
       standard_domains |-> UNION {cache[m].standard_domains : m \in members}]

structureOf(node, doc) ==
  [observed |-> \E e \in doc.edges : e.source \in node.members,
   consumption |-> memberUnion(node.members, consumptionFacts(doc), NO_EVIDENCE),
   persistence |-> memberUnion(node.members, persistenceFacts(doc), NO_PERSISTENCE)]

classifyDisposition(node, cache, structure) ==
  LET pick == decide(node, cache[node.object], structure)
  IN  [disposition |-> pick.disposition, confidence |-> pick.confidence,
       autonomy |-> IF pick.disposition = "refactor" /\ pick.confidence >= DISPOSITION_AUTO_THRESHOLD
                    THEN "auto" ELSE "prompt",
       evidence |-> unionEvidence(node, cache)]
--------------------------------------------------------------------------------
(* The question put to the operator *)

ALTERNATIVES(disposition) ==
  CASE disposition = "refactor" -> <<"re_architect", "retire">>
    [] disposition = "retire" -> <<"re_architect", "replace">>
    [] disposition = "re_architect" -> <<"refactor", "retire">>
    [] OTHER -> <<"re_architect", "retire">>

\* An option is [label, recommended, basis]; what the evidence supports is
\* stated with it, and a standard domain adds the choice to adopt a standard.
groundAlternatives(labels, evidence) ==
  LET basis(l) == CASE l = "retire" -> evidence.no_successor_refs
                    [] l = "replace" -> evidence.standard_domains
                    [] OTHER -> {}
      asked == IF evidence.standard_domains # {} /\ "replace" \notin Range(labels)
               THEN Append(labels, "replace") ELSE labels
  IN  [i \in DOMAIN asked |-> [label |-> asked[i], recommended |-> FALSE, basis |-> basis(asked[i])]]

\* The recommended one first, each label once, and a last one of the operator's own.
buildPromptOptions(label, alternatives) ==
  LET new(i) == alternatives[i].label # label /\ \A j \in 1..(i - 1) : alternatives[j].label # alternatives[i].label
  IN  <<[label |-> label, recommended |-> TRUE, basis |-> {}]>>
        \o elementsAt(alternatives, {i \in DOMAIN alternatives : new(i)})
        \o <<[label |-> "other", recommended |-> FALSE, basis |-> {}]>>

dispositionOptions(d) == buildPromptOptions(d.disposition, groundAlternatives(ALTERNATIVES(d.disposition), d.evidence))
--------------------------------------------------------------------------------
(* Advice to adopt a standard instead of building *)

\* SAP's table with a released view over it, also where no domain names it.
registryDomain(name) == IF name.state = "notToBeReleased" /\ name.mapped THEN {"SAP standard"} ELSE {}

tableDomain(name) == IF name.domain # {} THEN name.domain ELSE registryDomain(name)

standardTables(doc, o) ==
  {t \in {e.target : e \in {x \in doc.edges : x.source = o /\ x.kind = "uses-table"}} : tableDomain(doc.names[t]) # {}}

\* Here a registered namespace counts as the customer's, whoever has it.
CUSTOMER_NAME(name) == name.namespace \in {"ZY", "registered"}

\* What SAP delivers as a business API or has released; the language runtime
\* is no capability.
standardCapabilities(doc, o) ==
  {t \in {e.target : e \in {x \in doc.edges : x.source = o /\ x.kind # "uses-table"}} \ {o} :
     /\ doc.names[t].role # "runtime" /\ ~ CUSTOMER_NAME(doc.names[t])
     /\ doc.names[t].role = "business" \/ doc.names[t].state = "released"}

\* Advice only: never a disposition.
fitToStandardAdvisory(node, doc) ==
  LET members == IF node.members = {} THEN {node.object} ELSE node.members
      tables == UNION {standardTables(doc, m) : m \in members}
      capabilities == UNION {standardCapabilities(doc, m) : m \in members}
  IN  [domains |-> UNION {tableDomain(doc.names[t]) : t \in tables}, tables |-> tables, released_apis |-> capabilities,
       action |-> IF tables \cup capabilities = {} THEN "build" ELSE "verify_live"]
================================================================================
