------------------------------- MODULE ArchDesign -------------------------------
(***************************************************************************)
(* The target shapes of the nodes that need an architecture: the matcher   *)
(* (plan/patterns/match.js with target-patterns.json), the judge's cached  *)
(* verdicts (plan/arch-reason.js), the verb that resolves them together    *)
(* (cli-arch.js) and the application blueprint (plan/app-blueprint.js,     *)
(* plan/blueprint-conformance.js).                                         *)
(*                                                                         *)
(* A fact stream is the set of its signals, pairs of a type and a value;   *)
(* of the components of a shape only what makes a user interface is kept.  *)
(* A node is a number; grouping names and shapes are strings.              *)
(***************************************************************************)
EXTENDS Evidence

consumption(v) == <<"consumption", v>>
persistence(v) == <<"persistence", v>>
oneOf(type, values) == {<<type, v>> : v \in values}

\* Classic screens, as a surface or as the rule that found them.
CLASSIC_UI == oneOf("consumption", {"ui_salv", "ui_dynpro"})
              \cup oneOf("rule", {"classic-dynpro", "screen-flow", "web-dynpro"})

NO_TABLE == persistence(NO_PERSISTENCE)

shape(all, any, none, metadata_ext) == [all |-> all, any |-> any, none |-> none, metadata_ext |-> metadata_ext]

\* In the order of their names.
PATTERN_IDS ==
  <<"analytical_cds", "custom_entity_query", "fiori_list_report", "rap_bo_events", "rap_bo_fiori",
    "rap_bo_headless", "rap_bo_message_driven", "rap_bo_odata", "released_replace", "value_help_cds">>

CORPUS ==
  [analytical_cds |->
     shape({}, {<<"family", "analytics">>} \cup oneOf("target", {"CDS View", "CDS View Entity"}),
           {consumption(NO_EVIDENCE)}, FALSE),
   custom_entity_query |->
     shape({}, {<<"hint", "os_exec">>, consumption("remote_rfc")},
           oneOf("persistence", {"owns_customer_table", "writes_via_sap_api", "writes_sap_table"}), FALSE),
   fiori_list_report |->
     shape({}, CLASSIC_UI,
           {NO_TABLE} \cup oneOf("persistence", {"owns_customer_table", "writes_via_sap_api", "writes_sap_table"}), TRUE),
   rap_bo_events |-> shape({}, {consumption("remote_idoc_outbound")}, {NO_TABLE}, FALSE),
   rap_bo_fiori |-> shape({persistence("owns_customer_table")}, CLASSIC_UI, {}, TRUE),
   rap_bo_headless |->
     shape({}, oneOf("disposition", {"re_architect", "rebuild"}) \cup {<<"target", "RAP Business Object">>},
           CLASSIC_UI \cup {NO_TABLE} \cup
           oneOf("consumption", {"remote_rfc", "remote_bapi", "remote_idoc", NO_EVIDENCE, "classic_api_surface"}), FALSE),
   rap_bo_message_driven |->
     shape({}, oneOf("consumption", {"remote_idoc_inbound", "remote_idoc"}),
           {consumption("remote_idoc_outbound"), NO_TABLE}, FALSE),
   rap_bo_odata |->
     shape({<<"object_kind", "function">>}, oneOf("consumption", {"remote_rfc", "remote_bapi"}), {NO_TABLE}, FALSE),
   released_replace |-> shape({}, {<<"disposition", "replace">>}, {}, FALSE),
   value_help_cds |-> shape({}, oneOf("family", {"value-help", "search-help"}), {}, FALSE)]

\* The signals of a node; its facts are those of all its members.
factStream(node, cons, pers) ==
  oneOf("consumption", memberUnion(node.members, cons, NO_EVIDENCE))
  \cup oneOf("persistence", memberUnion(node.members, pers, NO_PERSISTENCE))
  \cup oneOf("hint", node.hints) \cup oneOf("rule", node.rules) \cup oneOf("family", node.families)
  \cup {<<"disposition", node.disposition>>, <<"object_kind", node.object_kind>>, <<"target", node.target>>}

\* What an object lacks for a shape, and what speaks against it.
evalWhen(when, fact) ==
  LET unmet_all == when.all \ fact
      unmet_any == IF when.any # {} /\ when.any \cap fact = {} THEN when.any ELSE {}
      violated_none == when.none \cap fact
      matched == unmet_all = {} /\ unmet_any = {} /\ violated_none = {}
  IN  [matched |-> matched, unmet_all |-> unmet_all, unmet_any |-> unmet_any, violated_none |-> violated_none,
       score |-> IF matched THEN Cardinality(when.all) + Cardinality(when.any \cap fact) ELSE 0]

explainTargetShapes(fact) == [id \in DOMAIN CORPUS |-> evalWhen(CORPUS[id], fact)]

\* The best score first; of equals the first name.
matchTargetShapes(fact) ==
  LET explained == explainTargetShapes(fact)
      ranked == {i \in DOMAIN PATTERN_IDS : explained[PATTERN_IDS[i]].matched}
      score(i) == explained[PATTERN_IDS[i]].score
      ahead(i) == {j \in ranked : score(j) > score(i) \/ (score(j) = score(i) /\ j < i)}
      placed(k) == CHOOSE i \in ranked : Cardinality(ahead(i)) = k - 1
  IN  [k \in 1..Cardinality(ranked) |-> PATTERN_IDS[placed(k)]]

\* The choice put to the operator, when there is more than the selected one.
archOptions(candidates, selected) ==
  LET others == elementsAt(candidates, {i \in DOMAIN candidates : candidates[i] # selected})
      option(id) == [label |-> id, recommended |-> FALSE, basis |-> {}]
  IN  IF others = << >>
      THEN <<[label |-> selected, recommended |-> TRUE, basis |-> {}], option("other")>>
      ELSE buildPromptOptions(selected, [i \in DOMAIN others |-> option(others[i])])
--------------------------------------------------------------------------------
(* Resolving the nodes of a run.  A recommendation is [shape, shared], its *)
(* shared groups records [kind, id, members]; key[n] stands for the hash   *)
(* of a node's facts under which a verdict was cached, and offered are the *)
(* shapes that this plan's corpus has for those facts.                     *)

NoVerdict == [shape |-> "none", shared |-> {}]

\* A disposition's confidence never reaches the ceiling, so a judge is always
\* asked where there is a shape to offer; an answer is a hit when it was cached
\* for the same facts.
reasonArchitecture(recommendation, offered) ==
  CASE offered = {} -> "no_shape"
    [] offered # {} /\ recommendation = NoVerdict -> "await_arch"
    [] OTHER -> "cached"

\* A cached answer may be of another corpus (a shape "other" is never cached).
validateSelection(recommendation, offered) == recommendation.shape \in offered

sharedFitsPlan(recommendation, known) == UNION {g.members : g \in recommendation.shared} \subseteq known

Resolved(status) == {n \in DOMAIN status : status[n] = "cached"}

settleOnce(status, recommendationOf) ==
  [n \in DOMAIN status |->
     IF status[n] = "cached" /\ ~ sharedFitsPlan(recommendationOf[n], Resolved(status)) THEN "await_arch" ELSE status[n]]

\* The first verdict whose group has a member without a verdict is asked for again.
demote(status, recommendationOf) ==
  LET stale == {n \in Resolved(status) : ~ sharedFitsPlan(recommendationOf[n], Resolved(status))}
  IN  IF stale = {} THEN status ELSE [status EXCEPT ![Smallest(stale)] = "await_arch"]

\* Until there is none; every node can be asked for again once.
settle(status, recommendationOf) ==
  LET nodes == Cardinality(DOMAIN status)
      after[k \in 0..nodes] == IF k = 0 THEN status ELSE demote(after[k - 1], recommendationOf)
  IN  after[nodes]

\* Where a cached answer is not among the shapes offered, which ends the verb.
refusedAt(gated, recommendationOf, offeredTo) ==
  {n \in gated : /\ reasonArchitecture(recommendationOf[n], offeredTo[n]) = "cached"
                 /\ ~ validateSelection(recommendationOf[n], offeredTo[n])}

reasonArchNodes(gated, known, recommendationOf, offeredTo) ==
  LET first == [n \in gated |-> reasonArchitecture(recommendationOf[n], offeredTo[n])]
      fits == [n \in gated |->
                 IF first[n] = "cached" /\ ~ sharedFitsPlan(recommendationOf[n], known) THEN "await_arch" ELSE first[n]]
  IN  settle(fits, recommendationOf)

\* Groups of one name are one group.
mergeShared(recommendations) ==
  LET all == UNION {r.shared : r \in recommendations}
      named(g) == {h \in all : h.kind = g.kind /\ h.id = g.id}
  IN  {[kind |-> g.kind, id |-> g.id, members |-> UNION {h.members : h \in named(g)}] : g \in all}

uiCapable(id) == CORPUS[id].metadata_ext

\* An app keeps the members it can render; the others are reported.
pruneUnrenderable(shared, shapeOf) ==
  LET lacks(g) == {m \in g.members \cap DOMAIN shapeOf : ~ uiCapable(shapeOf[m])}
      apps == {g \in shared : g.kind = "fiori_apps"}
      kept == {[g EXCEPT !.members = @ \ lacks(g)] : g \in apps}
  IN  [shared |-> (shared \ apps) \cup {g \in kept : g.members # {}},
       pruned |-> UNION {{[group |-> g.id, member |-> m] : m \in lacks(g)} : g \in apps}]

buildAppBlueprint(shapeOf, shared) ==
  [objects |-> {[sig |-> n, target_shape |-> shapeOf[n], shared_refs |-> {g.id : g \in {x \in shared : n \in x.members}}]
                : n \in DOMAIN shapeOf},
   object_to_pattern |-> shapeOf, shared |-> shared]

\* A member that is no object, a reference without a group, an app that
\* enrols what has no interface.
checkBlueprint(blueprint) ==
  LET sigs == {o.sig : o \in blueprint.objects}
      map == blueprint.object_to_pattern
      ids == {g.id : g \in blueprint.shared}
      apps == {g \in blueprint.shared : g.kind = "fiori_apps"}
  IN  {<<"not an object", m>> : m \in (UNION {g.members : g \in blueprint.shared}) \ sigs}
      \cup {<<"no such group", o.sig>> : o \in {x \in blueprint.objects : ~ x.shared_refs \subseteq ids}}
      \cup {<<"not in the corpus", o.sig>> :
              o \in {x \in blueprint.objects : x.target_shape \notin DOMAIN CORPUS \/ x.target_shape # map[x.sig]}}
      \cup {<<"cannot be rendered", m>> : m \in UNION {{x \in g.members \cap DOMAIN map : ~ uiCapable(map[x])} : g \in apps}}

\* The verb as a whole; a refusal ends it before anything is written, and so
\* would a violation.
cmdArch(gated, known, recommendationOf, offeredTo) ==
  LET status == reasonArchNodes(gated, known, recommendationOf, offeredTo)
      shapeOf == [n \in Resolved(status) |-> recommendationOf[n].shape]
      pruning == pruneUnrenderable(mergeShared({recommendationOf[n] : n \in Resolved(status)}), shapeOf)
      blueprint == buildAppBlueprint(shapeOf, pruning.shared)
  IN  [refused |-> refusedAt(gated, recommendationOf, offeredTo) # {},
       resolved |-> Resolved(status), pruned |-> pruning.pruned, shared |-> pruning.shared,
       pending |-> {n \in gated : status[n] = "await_arch"}, unplaceable |-> {n \in gated : status[n] = "no_shape"},
       violations |-> checkBlueprint(blueprint)]
================================================================================
