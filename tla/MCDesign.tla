-------------------------------- MODULE MCDesign --------------------------------
(***************************************************************************)
(* The judgements of the plan: what is proposed for an object, which       *)
(* target shapes fit, how an application's objects are resolved together   *)
(* and what of it people are shown and held to.  Bounded inputs, what any  *)
(* input is (the predicates Is..., which the proofs are about), and        *)
(* properties.                                                             *)
(***************************************************************************)
EXTENDS ArchDesign, PlanRecord, MCInputs

\* Names a source may use besides the planned objects: a released API, one the
\* registry does not carry, one without a successor, a standard table, an IDoc,
\* a table with a released view, a class of the language runtime, an API that is
\* released in a registered namespace, and a classic one without a successor.
Customer == [construct |-> "none", direction |-> {}, posts |-> FALSE, namespace |-> "ZY", listed |-> "none",
             state |-> "unknown", successor |-> FALSE, mapped |-> FALSE, domain |-> {}, role |-> "none"]

Sap == [Customer EXCEPT !.namespace = "bare"]

Names ==
  [n \in 1..13 |->
     CASE n = 5 -> [Sap EXCEPT !.state = "released"]
       [] n = 6 -> [Sap EXCEPT !.posts = TRUE, !.role = "business"]
       [] n = 7 -> [Sap EXCEPT !.state = "notToBeReleased", !.construct = "ui_frontend"]
       [] n = 8 -> [Sap EXCEPT !.state = "deprecated", !.successor = TRUE, !.mapped = TRUE, !.domain = {"Sales"}]
       [] n = 9 -> [Sap EXCEPT !.construct = "remote_idoc", !.direction = {"remote_idoc_inbound"},
                               !.posts = TRUE, !.role = "business"]
       [] n = 10 -> [Sap EXCEPT !.state = "notToBeReleased", !.successor = TRUE, !.mapped = TRUE]
       [] n = 11 -> [Sap EXCEPT !.state = "released", !.role = "runtime"]
       [] n = 12 -> [Sap EXCEPT !.namespace = "registered", !.listed = "sap", !.state = "released"]
       [] n = 13 -> [Sap EXCEPT !.state = "classicAPI", !.mapped = TRUE]
       [] OTHER -> Customer]

Use(from, to) == [source |-> from, target |-> to, access |-> "read", remote |-> FALSE,
                  kind |-> IF to \in {8, 10} THEN "uses-table" ELSE "calls"]

Plain == [object |-> 1, members |-> {1}, object_kind |-> "class", hints |-> {}, target |-> "none", sealed |-> FALSE]

Variants ==
  {Plain, [Plain EXCEPT !.hints = {"ui_rearch"}], [Plain EXCEPT !.hints = {"os_exec", "rfc_rebuild"}],
   [Plain EXCEPT !.hints = {"rfc_rebuild"}], [Plain EXCEPT !.sealed = TRUE], [Plain EXCEPT !.object_kind = "table"],
   [Plain EXCEPT !.target = "RAP Business Object"]}

FindingsOf(o) ==
  {{}, {[object |-> o, priority |-> "P3", family |-> "clean-core"]},
   {[object |-> o, priority |-> "P3", family |-> "style"], [object |-> o, priority |-> "P1", family |-> "deprecation"]}}

DispositionDoc(uses, usedBy2, findings) ==
  [objects |-> {1, 2}, names |-> Names, kindOf |-> [o \in {1, 2} |-> "class"], findings |-> findings,
   edges |-> {Use(1, t) : t \in uses} \cup {Use(2, t) : t \in usedBy2}]

Dispositions ==
  {[node |-> node, doc |-> DispositionDoc(uses, usedBy2, own \cup others)] :
     node \in Variants \cup {[v EXCEPT !.members = {1, 2}] : v \in Variants},
     uses \in (SUBSET (5..8)) \cup {{10}, {7, 10}, {11}, {12}, {5, 12}, {8, 12}, {13}}, usedBy2 \in {{}, {7}, {5, 6, 8}},
     own \in FindingsOf(1), others \in FindingsOf(2)}

\* What is used has a name, and a unit's first object is one of its members.
IsDisposition(in) ==
  /\ in.node.object \in in.node.members /\ in.node.members \subseteq in.doc.objects
  /\ in.node.hints \in SUBSET STRING /\ in.node.sealed \in BOOLEAN
  /\ \A e \in in.doc.edges : e.target \in DOMAIN in.doc.names
  /\ \A n \in DOMAIN in.doc.names :
       /\ in.doc.names[n].namespace \in {"ZY", "registered", "bare"}
       /\ in.doc.names[n].state \in DOMAIN STATE_LEVEL \cup {"unknown"}
       /\ in.doc.names[n].successor \in BOOLEAN /\ in.doc.names[n].mapped \in BOOLEAN

\* Fact streams: the surfaces, the tables, and what else a shape asks for.
Or(S, none) == IF S = {} THEN {none} ELSE S

Facts ==
  {oneOf("consumption", Or(c, NO_EVIDENCE)) \cup oneOf("persistence", Or(p, NO_PERSISTENCE)) \cup more
     \cup {<<"disposition", d>>, <<"object_kind", k>>} :
     c \in SUBSET {"ui_salv", "remote_rfc", "remote_idoc", "remote_idoc_outbound", "classic_api_surface"},
     p \in SUBSET {"owns_customer_table", "writes_sap_table", "writes_via_sap_api"},
     more \in SUBSET {<<"hint", "os_exec">>, <<"family", "analytics">>, <<"rule", "classic-dynpro">>},
     d \in {"re_architect", "rebuild"}, k \in {"class", "function"}}

App(name, members) == [kind |-> "fiori_apps", id |-> name, members |-> members]

Groupings ==
  {{}, {App("g", {1, 2})}, {App("g", {2, 3})}, {App("g", {1, 2, 3})}, {App("h", {1})},
   {App("h", {1, 3}), [kind |-> "services", id |-> "s", members |-> {2, 4}]}}

\* Fact streams are sets of signals.
IsFacts(in) == in \subseteq STRING \X STRING

Shapes == {"rap_bo_fiori", "rap_bo_headless"}

\* What the cache has for a node's facts, and what the corpus offers for them:
\* both shapes, or fewer, when the corpus is not the one of the verdict.
Judgements ==
  [offered : {Shapes}, verdict : {NoVerdict} \cup [shape : Shapes, shared : Groupings]]
  \cup [offered : {{}, {"rap_bo_headless"}}, verdict : {NoVerdict} \cup [shape : Shapes, shared : {{}}]]

\* Nodes 1 to 3 need an architecture and node 4 does not; like nodes have the
\* same facts, and so the same verdict.
Alike == {<<1, 2, 3>>, <<1, 1, 2>>, <<1, 2, 1>>, <<1, 2, 2>>, <<1, 1, 1>>}

Applications ==
  UNION {[gated : {1..3}, known : {Objects}, key : {k}, judged : [Range(k) -> Judgements]] : k \in Alike}

\* The gated nodes are nodes of the plan, and what is offered is in the corpus.
IsApplication(in) ==
  /\ in.gated \subseteq Nat \ {NoObject} /\ IsFiniteSet(in.gated) /\ in.gated \subseteq in.known
  /\ \A n \in in.gated : n \in DOMAIN in.key /\ in.key[n] \in DOMAIN in.judged
  /\ \A k \in DOMAIN in.judged : in.judged[k].offered \subseteq DOMAIN CORPUS

\* Structures of a generated object, and contracts of two objects.
Structures ==
  [keys : {{}, {"k"}, {"k", "l"}}, fields : {<< >>, [f |-> "a"], [f |-> "b"], [f |-> "a", g |-> "a"]},
   associations : {<< >>, [s |-> "T"], [s |-> "U"]}, annotations : {<< >>, [n |-> "1"], [n |-> "2", m |-> "1"]},
   source : {"T", "U", NoSource}]

Pinned == [keys |-> {"k"}, fields |-> [f |-> "a"], associations |-> [s |-> "T"], annotations |-> [n |-> "1"], source |-> "T"]

Specs == {{}, {Pinned}, {[Pinned EXCEPT !.fields = [f |-> Unpinned], !.associations = << >>]}}

Contract(specs) ==
  {[id |-> 1, specs |-> specs, grounded_apis |-> {"T"}, invariants |-> {"inv"}],
   [id |-> 2, specs |-> {}, grounded_apis |-> {}, invariants |-> {}]}

Made(id, structure, invariants) == [id |-> id, structure |-> structure, invariants |-> invariants]

Batches(structure) ==
  LET one == Made(1, structure, {"inv"})
      two == Made(2, Pinned, {})
  IN  {<<one, two>>, <<two, one>>, <<one>>, <<one, two, Made(3, Pinned, {})>>, <<Made(1, structure, {}), two>>,
       <<one, two, Made(1, Pinned, {"inv"})>>, <<Made(1, Pinned, {"inv"}), two, one>>}

\* A file as it was written, or one whose contents were changed since.
ContractFiles ==
  [readable : BOOLEAN, contract : {Contract(s) : s \in Specs}, contract_hash : {Contract({}), Contract({Pinned})}]

Bindings == [hash : {Unbound, Contract({}), Contract({Pinned})}, ratified : BOOLEAN]

Conformances ==
  (UNION {[binding : {b \in Bindings : b.hash = Contract({Pinned}) /\ b.ratified}, generated : Batches(s),
           file : {f \in ContractFiles : f.readable}] : s \in Structures})
  \cup [binding : Bindings, generated : Batches(Pinned), file : ContractFiles]

IsConformance(in) ==
  /\ in.binding.ratified \in BOOLEAN /\ in.file.readable \in BOOLEAN
  /\ Len(in.generated) \in Nat /\ DOMAIN in.generated = 1..Len(in.generated)

\* Plans of four nodes, which depend on earlier ones only.
Earlier == {e \in Objects \X Objects : e[2] < e[1]}

DependingOn(edges, disposition) ==
  {[id |-> o, disposition |-> disposition[o], dependencies |-> {e[2] : e \in {x \in edges : x[1] = o}}] : o \in Objects}

DropRows == [sig : {1, 2}, status : {"RETIRED", "REBUILT_HANDOFF"}, signed : BOOLEAN]

Groups ==
  [plan : {DependingOn(edges, [o \in Objects |-> "refactor"]) : edges \in SUBSET Earlier}, group : SUBSET Objects]

Drops ==
  [plan : {DependingOn(edges, disposition) : edges \in SUBSET Earlier,
                                             disposition \in [Objects -> {"retire", "rebuild", "refactor"}]},
   register : {R \in SUBSET DropRows : Cardinality(R) <= 1}]

\* A plan has finitely many nodes, each under a name of its own.
IsPlan(plan) ==
  /\ IsFiniteSet(plan)
  /\ \A n \in plan : n.id \in Nat \ {NoObject}
  /\ \A n, m \in plan : n.id = m.id => n = m

IsGroup(in) == IsPlan(in.plan) /\ in.group \subseteq {n.id : n \in in.plan}

DesignInputs ==
  [dispose |-> Dispositions, match |-> Facts, arch |-> Applications, conform |-> Conformances, group |-> Groups,
   dropped |-> Drops]

IsDesignInput(k, in) ==
  CASE k = "dispose" -> IsDisposition(in)
    [] k = "match" -> IsFacts(in)
    [] k = "arch" -> IsApplication(in)
    [] k = "conform" -> IsConformance(in)
    [] k = "group" -> IsGroup(in)
    [] k = "dropped" -> IsPlan(in.plan)

ASSUME DesignInputsAssumption == \A k \in DOMAIN DesignInputs : \A in \in DesignInputs[k] : IsDesignInput(k, in)

Disposed(node, doc) ==
  LET decided == Only({classifyDisposition(node, cache, structure) :
                         cache \in {groundCandidates(doc)}, structure \in {structureOf(node, doc)}})
  IN  Only({[judged |-> TRUE, decided |-> d, options |-> dispositionOptions(d),
             advice |-> fitToStandardAdvisory(node, doc)] : d \in {decided}})

Design(k, in) ==
  CASE k = "dispose" -> Disposed(in.node, in.doc)
    [] k = "match" -> [judged |-> TRUE, shapes |-> matchTargetShapes(in), explained |-> explainTargetShapes(in)]
    [] k = "arch" ->
         [judged |-> TRUE, arch |-> cmdArch(in.gated, in.known, [n \in in.gated |-> in.judged[in.key[n]].verdict],
                                             [n \in in.gated |-> in.judged[in.key[n]].offered])]
    [] k = "conform" -> [judged |-> TRUE, result |-> cmdConformance(in.binding, in.file, in.generated)]
    [] k = "group" ->
         LET adjacency == buildAdjacency(in.plan)
         IN  [judged |-> TRUE, evidence |-> [o \in in.group |-> groupEvidence(o, in.group, adjacency)],
              hub |-> groupHub(in.group, adjacency)]
    [] k = "dropped" ->
         LET asked == raiseDroppedDependencies({}, in.plan)
         IN  [judged |-> TRUE, asked |-> asked, again |-> raiseDroppedDependencies(asked, in.plan),
              ledger |-> buildDroppedFeatures(in.plan, in.register)]

Propose == ~ out.judged /\ out' = Design(kind, input) /\ UNCHANGED <<kind, input>>

\* Any input at all.
DesignSpec ==
  /\ out = Pending /\ kind \in DOMAIN DesignInputs /\ IsDesignInput(kind, input)
  /\ [][Propose]_inputVars
--------------------------------------------------------------------------------
\* The objects a unit is made of, and what they use.
UsedBy(members, edges) == {e.target : e \in {x \in edges : x.source \in members}}

(***************************************************************************)
(* No human looks at an automatic decision again, so it rests on a proof:  *)
(* the object was analysed without a blocker, it uses APIs that are not    *)
(* plainly the customer's own, and of every one of them the registry       *)
(* itself says released; and nothing about the unit asks for another       *)
(* architecture.                                                           *)
(***************************************************************************)
AutoIsProved ==
  Judged("dispose") /\ out.decided.autonomy = "auto" =>
    LET node == input.node
        own == {f \in input.doc.findings : f.object = node.object}
        delivered == {t \in UsedBy({node.object}, input.doc.edges) : input.doc.names[t].namespace # "ZY"}
    IN  /\ own # {} /\ \A f \in own : f.priority # "P1" \/ f.family \notin BLOCKER_FAMILIES
        /\ delivered # {} /\ \A t \in delivered : input.doc.names[t].state = "released"
        /\ ~ node.sealed /\ node.hints \cap {"ui_rearch", "os_exec"} = {}
        /\ node.object_kind \notin RETAINED_KINDS => "rfc_rebuild" \notin node.hints /\ node.target \notin RE_ARCH_TARGET

(***************************************************************************)
(* The operator gets a real choice, and the evidence of the whole unit:    *)
(* three different options or more, one of them recommended; a dropping of *)
(* the unit is offered with all the APIs that any member uses, which the   *)
(* registry carries as anything but released and without a successor (the  *)
(* classic ones, too), and adopting a standard with the data any member    *)
(* reads.                                                                  *)
(***************************************************************************)
OptionsAreReal ==
  Judged("dispose") =>
    LET names == input.doc.names
        edges == input.doc.edges
        dead == {t \in UsedBy(input.node.members, edges) :
                   names[t].state \notin {"released", "unknown"} /\ ~ names[t].successor}
        data == UNION {names[t].domain : t \in UsedBy(input.node.members, {e \in edges : e.kind = "uses-table"})}
        options == Range(out.options)
    IN  /\ Cardinality({o.label : o \in options}) = Len(out.options) /\ Len(out.options) >= 3
        /\ {o.label : o \in {x \in options : x.recommended}} = {out.decided.disposition}
        /\ \E o \in options : o.label = "other"
        /\ \A o \in options : o.label = "retire" => o.basis = dead
        /\ data # {} => \E o \in options : o.label = "replace" /\ o.basis = data

(***************************************************************************)
(* The two questions about a standard do not diverge: when the disposition *)
(* offers to adopt one, the architecture advises to look for it; building  *)
(* is advised only for a unit no member of which uses data or capabilities *)
(* SAP delivers, and the language runtime is none.  With one exception,    *)
(* which is the code's: an API in a registered namespace is SAP's where    *)
(* the proof of a clean object is concerned (ground-candidates.js 36) and  *)
(* is never a capability here (fit-to-standard.js 175), released or not.   *)
(***************************************************************************)
AdviceAgrees ==
  Judged("dispose") =>
    LET names == input.doc.names
        isData(t) == names[t].domain # {} \/ (names[t].state = "notToBeReleased" /\ names[t].mapped)
        isCapability(t) == /\ names[t].namespace = "bare" /\ names[t].role # "runtime"
                           /\ names[t].role = "business" \/ names[t].state = "released"
        used == {e \in input.doc.edges : e.source \in input.node.members}
        delivered == {e \in used : \/ e.kind = "uses-table" /\ isData(e.target)
                                   \/ e.kind # "uses-table" /\ e.target # e.source /\ isCapability(e.target)}
    IN  /\ out.decided.evidence.standard_domains \subseteq out.advice.domains
        /\ (\E o \in Range(out.options) : o.label = "replace") => out.advice.action = "verify_live"
        /\ out.advice.action = "build" <=> delivered = {}
        /\ out.advice.tables \cup out.advice.released_apis = {e.target : e \in delivered}

(***************************************************************************)
(* A refusal can be answered: an object that gets what a shape misses and  *)
(* loses what it objects to fits the shape, so the explanation names every *)
(* reason and not the first one; and whichever shape a judge selects, the  *)
(* operator is shown all that fit, each once, and can name another.        *)
(***************************************************************************)
ExplanationSuffices ==
  Judged("match") =>
    /\ \A id \in DOMAIN CORPUS :
         LET e == out.explained[id]
             mended(any) == (input \cup e.unmet_all \cup any) \ e.violated_none
         IN  /\ e.matched <=> id \in Range(out.shapes)
             /\ \A any \in IF e.unmet_any = {} THEN {{}} ELSE {{s} : s \in e.unmet_any} :
                  id \in Range(matchTargetShapes(mended(any)))
    /\ \A selected \in Range(out.shapes) :
         LET options == archOptions(out.shapes, selected)
         IN  /\ {o.label : o \in Range(options)} = Range(out.shapes) \cup {"other"}
             /\ Len(options) = Len(out.shapes) + 1
             /\ {o.label : o \in {x \in Range(options) : x.recommended}} = {selected}

\* The verdict of a node, the shapes it may have, and the nodes its groups name.
VerdictOf(n) == input.judged[input.key[n]].verdict
Offered(n) == input.judged[input.key[n]].offered
Answered(n) == Offered(n) # {} /\ VerdictOf(n) # NoVerdict
Claimed(n) == UNION {g.members : g \in VerdictOf(n).shared}

(***************************************************************************)
(* Whatever verdicts are in the cache, of this plan or of another one, the *)
(* verb ends with a blueprint that holds: no node is lost, a verdict whose *)
(* group is not complete is asked for again, and as few as possible are.   *)
(* It refuses instead when a kept verdict selects what its node is not     *)
(* offered (any more), and for no other reason.                            *)
(***************************************************************************)
BlueprintAlwaysHolds ==
  Judged("arch") =>
    LET answered == {n \in input.gated : Answered(n)}
        closed == {S \in SUBSET answered : \A n \in S : Claimed(n) \subseteq S}
    IN  /\ out.arch.refused <=> \E n \in answered : VerdictOf(n).shape \notin Offered(n)
        /\ ~ out.arch.refused =>
             /\ out.arch.violations = {}
             /\ out.arch.resolved = UNION closed
             /\ out.arch.unplaceable = {n \in input.gated : Offered(n) = {}}
             /\ out.arch.pending = input.gated \ (out.arch.resolved \cup out.arch.unplaceable)

(***************************************************************************)
(* What a judge claims of the application is kept or reported: each member *)
(* of a group that a resolved node's verdict names is in the group of the  *)
(* blueprint or among the declined ones, what is declined is a member of   *)
(* an app that has no interface, and no app is left without members.       *)
(***************************************************************************)
ClaimsAreKeptOrReported ==
  Judged("arch") /\ ~ out.arch.refused =>
    /\ \A n \in out.arch.resolved : \A g \in VerdictOf(n).shared : \A m \in g.members :
         \/ \E h \in out.arch.shared : h.kind = g.kind /\ h.id = g.id /\ m \in h.members
         \/ /\ [group |-> g.id, member |-> m] \in out.arch.pruned
            /\ g.kind = "fiori_apps" /\ ~ CORPUS[VerdictOf(m).shape].metadata_ext
    /\ \A g \in out.arch.shared : g.kind = "fiori_apps" => g.members # {}

(***************************************************************************)
(* What conforms is what the file asks for: each object of its contract    *)
(* was made and no other one, and where it pins a structure, the made      *)
(* object has it, nothing beside it but annotations, and only sources that *)
(* were grounded.  That is the contract a person approved, as long as      *)
(* nobody changed the file: it carries the approved hash, and whether the  *)
(* hash is still that of its contents is not looked at                     *)
(* (cli-conformance.js 76; arch-contract.js 32 could tell).                *)
(***************************************************************************)
ConformsToTheFile ==
  Judged("conform") /\ out.result = "ok" =>
    LET agrees(actual, pinned) == \A x \in DOMAIN pinned : x \in DOMAIN actual /\ pinned[x] \in {Unpinned, actual[x]}
        fits(actual, spec) == /\ actual.keys = spec.keys
                              /\ DOMAIN actual.fields = DOMAIN spec.fields /\ agrees(actual.fields, spec.fields)
                              /\ DOMAIN actual.associations = DOMAIN spec.associations
                              /\ agrees(actual.associations, spec.associations)
                              /\ agrees(actual.annotations, spec.annotations)
        reads(actual) == ({actual.source} \ {NoSource}) \cup Range(actual.associations)
        untouched == input.file.contract_hash = input.file.contract
        contract == IF untouched THEN input.binding.hash ELSE input.file.contract
    IN  /\ input.binding.ratified
        /\ {g.id : g \in Range(input.generated)} = {c.id : c \in contract}
        /\ \A c \in contract : \E i \in DOMAIN input.generated :
             LET made == input.generated[i]
             IN  /\ made.id = c.id /\ \A j \in DOMAIN input.generated : input.generated[j].id = c.id => j <= i
                 /\ c.invariants \subseteq made.invariants
                 /\ \A spec \in c.specs : fits(made.structure, spec) /\ reads(made.structure) \subseteq c.grounded_apis

(***************************************************************************)
(* What is shown of a group does not depend on who calls whom: members     *)
(* count each other, an isolated one has no dependency with any other, and *)
(* a hub is none of them, and is tied to two of them or more.              *)
(***************************************************************************)
GroupEvidenceIsMutual ==
  Judged("group") =>
    LET ids == {n.id : n \in input.plan}
        needs(a, b) == \E n \in input.plan : n.id = a /\ b \in n.dependencies
        tied(a, b) == a # b /\ (needs(a, b) \/ needs(b, a))
        ties(h) == Cardinality({m \in input.group : tied(h, m)})
    IN  /\ \A o \in input.group :
             /\ out.evidence[o].linked_members = ties(o)
             /\ out.evidence[o].isolated <=> input.group # {o} /\ \A m \in input.group : ~ tied(o, m)
        /\ \A h \in ids \ input.group : ties(h) > 1 => out.hub # NoObject /\ ties(out.hub) >= ties(h)
        /\ out.hub # NoObject => out.hub \in ids \ input.group /\ ties(out.hub) > 1

(***************************************************************************)
(* What is dropped is shown: every node that is built although something   *)
(* it depends on is dropped is named in a question of its own about that   *)
(* drop; nobody is asked twice; and the ledger of dropped features has the *)
(* signed drops the plan decided on, or fails.                             *)
(***************************************************************************)
DropsAreShown ==
  Judged("dropped") =>
    LET retired == {n.id : n \in {m \in input.plan : m.disposition = "retire"}}
        hit(r) == {n.id : n \in {m \in input.plan : r \in m.dependencies}} \ retired
    IN  /\ Cardinality(out.asked) = Cardinality({r \in retired : hit(r) # {}})
        /\ \A r \in retired : hit(r) # {} => \E q \in out.asked : q.node_ids = {r} \cup hit(r)
        /\ out.again = out.asked
        /\ ~ out.ledger.refused =>
             \A row \in input.register :
               /\ row.signed
               /\ \E n \in input.plan : n.id = row.sig
                    /\ n.disposition = IF row.status = "RETIRED" THEN "retire" ELSE "rebuild"

(***************************************************************************)
(* The disposition of a unit is grounded: only a proof decides without a   *)
(* person, and a person chooses among real options, and is shown what a    *)
(* drop takes away.                                                        *)
(***************************************************************************)
DispositionIsGrounded ==
  /\ AutoIsProved
  /\ OptionsAreReal
  /\ AdviceAgrees
  /\ DropsAreShown

(***************************************************************************)
(* The architecture fits what is known of the objects and of each other: a *)
(* refused shape is explained in full, and whatever verdicts are kept from *)
(* earlier plans, the blueprint holds and keeps or reports what they       *)
(* claim; people see what a group rests on, and what is made is what the   *)
(* file of the contract they ratified asks for.                            *)
(***************************************************************************)
ArchitectureFits ==
  /\ ExplanationSuffices
  /\ BlueprintAlwaysHolds
  /\ ClaimsAreKeptOrReported
  /\ GroupEvidenceIsMutual
  /\ ConformsToTheFile
================================================================================
