------------------------------- MODULE PlanGates -------------------------------
(***************************************************************************)
(* The plan-time gates of a run and what moves it to another plan: the     *)
(* commands disposition and decide (cli-escalations.js), arch              *)
(* (cli-arch.js), arch-verdict (cli-arch-verdict.js), arch-review          *)
(* (cli-arch-review.js) and                                                *)
(* replan (cli-replan.js), over the escalation register and the judge's    *)
(* cache, which every run shares, and the plan, the state, the             *)
(* architecture manifest and the contract files of each run.               *)
(*                                                                         *)
(* A run is its plan: the id is the plan's hash.  A plan is, for each      *)
(* node, the disposition a person gave it or the classifier's.  A command  *)
(* computes all it will write and then writes one file after the other; it *)
(* may die between two of them.  Commands of one operator do not overlap,  *)
(* and the operator's session starts the reviewer between two commands.    *)
(*                                                                         *)
(* A contract is its hash: the disposition and the target shape, the rest  *)
(* being the corpus pattern of the shape.  Every gated node goes to the    *)
(* judge: the classifier is never sure enough of one, and an override has  *)
(* no confidence (ArchDesign has the rule).  The groups a judge may add to *)
(* a shape are in ArchDesign too.                                          *)
(***************************************************************************)
EXTENDS Naturals, Sequences, FiniteSets, SequencesExt

CONSTANTS
  Node, Shape, Model,
  Disposition, Gated,        \* the dispositions, and those that need a contract
  ClassifiedAs, Unsure,      \* the classifier's dispositions; those it asks about
  Fact, Fits,                \* the evidence of a node; the shapes that match it
  None,
  Overtaken,                 \* a reading that is not of the contract it is taken for
  MaxRuns, MaxRows           \* bounds: plans in existence, rows of the register

ASSUME PlanGatesAssumption ==
  /\ IsFiniteSet(Node) /\ None \notin Model
  /\ Overtaken \notin [disposition : Disposition, shape : Shape]
  /\ Gated \subseteq Disposition /\ "re_architect" \in Gated
  /\ "classifier" \notin Disposition
  /\ ClassifiedAs \in [Node -> Disposition] /\ Unsure \subseteq Node
  /\ \A n \in Node, d \in Gated : Fits[Fact[n]][d] \subseteq Shape
  /\ MaxRuns \in Nat /\ MaxRows \in Nat

Classifier == "classifier"
Plan == [Node -> Disposition \cup {Classifier}]

VARIABLES
  plans,       \* the plans saved
  state,       \* run -> its state (see NewState), for the runs that have one
  manifest,    \* run -> the node's outstanding request to the judge, or None
  onFile,      \* <<run, node>> -> the contract in the run's file of the node
  reading,     \* history: what the reviewer at work has read
  cache,       \* verdict key -> the shape the judge chose
  rows,        \* the escalation register
  todo,        \* the writes a command has computed and not yet made
  reply        \* what the last replan told its caller

vars == <<plans, state, manifest, onFile, reading, cache, rows, todo, reply>>

DispositionOf(p, n) == IF p[n] = Classifier THEN ClassifiedAs[n] ELSE p[n]
GatedIn(p) == {n \in Node : DispositionOf(p, n) \in Gated}

NoReply == [from |-> None, to |-> None, superseded |-> {}]
NoReading == [run |-> None, node |-> None, read |-> None]
NoRequests == [n \in Node |-> None]
\* word is history: the nodes whose contract, the one that is bound, a person or
\* a reviewer's pass ratified, and which no refusal voided since.
NewState == [bound |-> NoRequests, word |-> {}]

Init ==
  /\ LET first == [n \in Node |-> Classifier]
     IN  /\ plans = {first}
         /\ state = [p \in {first} |-> NewState]
         /\ manifest = [p \in {first} |-> NoRequests]
  /\ onFile = <<>>
  /\ reading = NoReading
  /\ cache = <<>>
  /\ rows = <<>>
  /\ todo = <<>>
  /\ reply = NoReply

-------------------------------------------------------------------------------
\* The register.
UnaskedVariant(reg, kind, nodes) ==      \* a row that was ever raised is not raised again
  {n \in nodes : ~ \E i \in DOMAIN reg : reg[i].kind = kind /\ reg[i].node = n}

\* raiseEscalation: one OPEN row per kind and node, whichever run asks.
Unasked(reg, kind, nodes) ==
  {n \in nodes : ~ \E i \in DOMAIN reg :
                     reg[i].kind = kind /\ reg[i].node = n /\ reg[i].status = "OPEN"}

Opened(kind, n) ==
  [kind |-> kind, node |-> n, status |-> "OPEN", run |-> None, verb |-> None,
   arg |-> None, at |-> 0]

RaiseAll(reg, kind, nodes) ==
  LET asked == SetToSeq(Unasked(reg, kind, nodes))
  IN  reg \o [i \in DOMAIN asked |-> Opened(kind, asked[i])]

\* The decisions about dispositions, which replan reads; of an architecture
\* review nothing is read once it is answered, and only that it is is kept.
Decided == {i \in DOMAIN rows : rows[i].at > 0}

\* resolveEscalation: the decision, the run it was made under and the time.
Resolve(i, p, verb, arg) ==
  [rows EXCEPT ![i] = [@ EXCEPT !.status = "RESOLVED", !.run = p, !.verb = verb,
                                !.arg = arg, !.at = Cardinality(Decided) + 1]]
ResolveReview(i) == [rows EXCEPT ![i].status = "RESOLVED"]

-------------------------------------------------------------------------------
\* Commands and their writes.
Write(file, p, content) == [file |-> file, run |-> p, content |-> content]
Idle == todo = <<>>
Loadable(p) == p \in plans /\ p \in DOMAIN state

Put(f, k, v) == [x \in DOMAIN f \cup {k} |-> IF x = k THEN v ELSE f[x]]

\* A reading is overtaken when the run's arch writes another contract of the node.
Overtakes(w) ==
  /\ w.file = "contract" /\ w.run = reading.run /\ w.content.node = reading.node
  /\ w.content.hash # reading.read

Made(w) ==
  /\ plans' = IF w.file = "plan" THEN plans \cup {w.run} ELSE plans
  /\ state' = IF w.file = "state" THEN Put(state, w.run, w.content) ELSE state
  /\ manifest' = IF w.file = "manifest" THEN Put(manifest, w.run, w.content) ELSE manifest
  /\ rows' = IF w.file \in {"register", "arch_register"} THEN w.content ELSE rows
  /\ onFile' = IF w.file = "contract" THEN Put(onFile, <<w.run, w.content.node>>, w.content.hash)
               ELSE onFile
  /\ reading' = IF Overtakes(w) THEN [reading EXCEPT !.read = Overtaken] ELSE reading
  /\ UNCHANGED cache

\* A command has computed its writes and makes the first of them.
Does(writes) == Idle /\ Made(Head(writes)) /\ todo' = Tail(writes)

MakeWrite ==
  /\ todo # <<>>
  /\ Made(Head(todo)) /\ todo' = Tail(todo)
  /\ UNCHANGED reply

Die ==
  /\ todo # <<>>
  /\ todo' = <<>>
  /\ UNCHANGED <<plans, state, manifest, onFile, reading, cache, rows, reply>>

-------------------------------------------------------------------------------
\* disposition: a review of every node the classifier is not sure of.  An
\* override is not asked about again.
DispositionReviews(p) ==
  /\ Loadable(p) /\ reply' = NoReply
  /\ LET asked == {n \in Unsure : p[n] = Classifier}
         raised == RaiseAll(rows, "DISPOSITION_REVIEW", asked)
     IN  /\ Len(raised) <= MaxRows
         /\ raised # rows
         /\ Does(<<Write("register", p, raised)>>)

-------------------------------------------------------------------------------
\* arch: the architecture of every gated node.
Hash(p, n, shape) == [disposition |-> DispositionOf(p, n), shape |-> shape]
\* matchTargetShapes (ArchDesign)
Candidates(p, n) == Fits[Fact[n]][DispositionOf(p, n)]
Key(p, n, model) ==
  [fact |-> Fact[n], disposition |-> DispositionOf(p, n), model |-> model]

Unplaceable(p) == {n \in GatedIn(p) : Candidates(p, n) = {}}
Judged(p, model) == {n \in GatedIn(p) \ Unplaceable(p) : Key(p, n, model) \in DOMAIN cache}
Requests(p, model) ==
  [n \in Node |-> IF n \in GatedIn(p) \ (Unplaceable(p) \cup Judged(p, model))
                  THEN model ELSE None]

\* A binding: the run in whose file the contract is, its hash, who ratified it,
\* and the review it has.
Binding(ref, hash, by, review) ==
  [ref |-> ref, hash |-> hash, by |-> by, review |-> review]

ReboundVariant(prior, ref, hash) ==     \* a ratification outlives its contract
  IF prior = None THEN Binding(ref, hash, None, None)
  ELSE Binding(ref, hash, prior.by, prior.review)

\* rebind: a ratification and a review stand only over the contract they name.
Rebound(prior, ref, hash) ==
  IF prior # None /\ prior.hash = hash THEN [prior EXCEPT !.ref = ref]
  ELSE Binding(ref, hash, None, None)

JudgedAs(p, n, model) == Hash(p, n, cache[Key(p, n, model)])

\* freezeContracts: a node that resolves to nothing keeps the binding it has.
Frozen(p, model) ==
  [n \in Node |-> IF n \in Judged(p, model)
                  THEN Rebound(state[p].bound[n], p, JudgedAs(p, n, model))
                  ELSE state[p].bound[n]]

\* saveArchContract, of every contract that is frozen.
ContractWrites(p, model) ==
  LET judged == SetToSeq(Judged(p, model))
  IN  [i \in DOMAIN judged |->
         Write("contract", p, [node |-> judged[i], hash |-> JudgedAs(p, judged[i], model)])]

\* A word is about one contract, and ends with it.
StillMeant(p, bound) ==
  {n \in state[p].word : bound[n] # None /\ bound[n].hash = state[p].bound[n].hash}

\* isArchRatified
Ratified(b) == b # None /\ b.by # None /\ b.review \in {None, b.hash}

ArchWritesVariant(p, model, files, bound, raised) ==     \* the bindings go before the files
  <<Write("manifest", p, Requests(p, model)),
    Write("state", p, [bound |-> bound, word |-> StillMeant(p, bound)])>>
  \o files \o <<Write("arch_register", p, raised)>>

\* The contract files, the manifest, the bindings, and the register.
ArchWrites(p, model, files, bound, raised) ==
  files \o <<Write("manifest", p, Requests(p, model)),
            Write("state", p, [bound |-> bound, word |-> StillMeant(p, bound)]),
            Write("arch_register", p, raised)>>

Arch(p, model) ==
  /\ Loadable(p) /\ reply' = NoReply
  /\ LET bound == Frozen(p, model)
         unratified == {n \in Judged(p, model) : ~ Ratified(bound[n])}
         raised == RaiseAll(RaiseAll(rows, "ARCH_REVIEW", unratified),
                            "NO_TARGET_SHAPE", Unplaceable(p))
     IN  /\ Len(raised) <= MaxRows
         /\ Does(ArchWrites(p, model, ContractWrites(p, model), bound, raised))

\* assertServesRequest
ServesRequest(p, n, model) == p \in DOMAIN manifest /\ manifest[p][n] = model

\* arch-verdict: the judge's choice among the candidates, under the key of the
\* evidence, for whichever node has that evidence.
ArchVerdict(p, n, model, shape) ==
  /\ Idle /\ Loadable(p)
  /\ n \in GatedIn(p) /\ shape \in Candidates(p, n)
  /\ ServesRequest(p, n, model)
  /\ cache' = Put(cache, Key(p, n, model), shape)
  /\ reply' = NoReply
  /\ UNCHANGED <<plans, state, manifest, onFile, reading, rows, todo>>

\* The reviewer, an agent, reads the file of the contract that is bound.  It may
\* hold another one: of an arch that died before it bound it, or of a later arch
\* of the run the contract was carried over from.
ReviewerReads(p, n) ==
  /\ Idle /\ Loadable(p)
  /\ LET b == state[p].bound[n]
     IN  /\ b # None /\ <<b.ref, n>> \in DOMAIN onFile
         /\ reading' = [run |-> p, node |-> n,
                        read |-> IF onFile[<<b.ref, n>>] = b.hash THEN b.hash ELSE Overtaken]
  /\ reply' = NoReply
  /\ UNCHANGED <<plans, state, manifest, onFile, cache, rows, todo>>

\* arch-review: the reviewer's verdict, stamped with the contract that is bound
\* when the command is given, whichever it read (concerns and fail differ in
\* wording); a pass ratifies the contract, and then answers the OPEN row.
Reviewed(p, n, verdict) ==
  LET s == state[p]
      b == s.bound[n]
      by == IF verdict = "pass" THEN "auto" ELSE b.by
  IN  [s EXCEPT !.bound[n] = Binding(b.ref, b.hash, by, b.hash),
                !.word = IF verdict = "pass" THEN @ \cup {n} ELSE @]

OpenRow(kind, n) ==
  {i \in DOMAIN rows : rows[i].kind = kind /\ rows[i].node = n /\ rows[i].status = "OPEN"}

ArchReview(p, n, verdict) ==
  /\ Loadable(p) /\ reply' = NoReply
  /\ state[p].bound[n] # None
  /\ reading.run = p /\ reading.node = n
  /\ LET answered == {i \in OpenRow("ARCH_REVIEW", n) : verdict = "pass"}
     IN  Does(<<Write("state", p, Reviewed(p, n, verdict))>>
              \o [k \in 1..Cardinality(answered) |->
                    Write("register", p, ResolveReview(CHOOSE i \in answered : TRUE))])

-------------------------------------------------------------------------------
\* decide
\* assertReviewed: the contract that is bound was reviewed.
ReviewStands(p, n) ==
  LET b == state[p].bound[n]
  IN  b # None /\ b.review = b.hash

\* An approval ratifies the contract this run has bound; a refusal voids it.
Answered(p, n, verb) ==
  LET s == state[p]
  IN  [s EXCEPT !.bound[n].by = IF verb = "approve" THEN "human" ELSE None,
                !.word = IF verb = "approve" THEN @ \cup {n} ELSE @ \ {n}]

\* ARCH_REVIEW: approve, or refuse (refine:<notes> or reject, which do the same);
\* the state, then the row.  The row may be another run's, and then this run may
\* have nothing bound.
DecideArch(p, i, verb) ==
  /\ Loadable(p) /\ reply' = NoReply
  /\ rows[i].kind = "ARCH_REVIEW"
  /\ LET n == rows[i].node
         row == Write("register", p, ResolveReview(i))
     IN  /\ verb = "approve" => ReviewStands(p, n)
         /\ Does(IF state[p].bound[n] = None THEN <<row>>
                 ELSE <<Write("state", p, Answered(p, n, verb)), row>>)

\* NO_TARGET_SHAPE: another disposition, a shape, or a remark; there is nothing
\* to approve.
DecideUnplaceable(p, i, verb, arg) ==
  /\ Loadable(p) /\ reply' = NoReply
  /\ rows[i].kind = "NO_TARGET_SHAPE"
  /\ \/ verb = "override" /\ arg \in Disposition
     \/ verb = "shape" /\ arg \in Shape
     \/ verb = "other" /\ arg = None
  /\ Does(<<Write("register", p, Resolve(i, p, verb, arg))>>)

\* DISPOSITION_REVIEW: no approval while the disposition is known to have no shape.
DecideDisposition(p, i, verb, arg) ==
  /\ Loadable(p) /\ reply' = NoReply
  /\ rows[i].kind = "DISPOSITION_REVIEW"
  /\ \/ verb = "override" /\ arg \in Disposition
     \/ verb = "approve" /\ arg = None /\ OpenRow("NO_TARGET_SHAPE", rows[i].node) = {}
     \/ verb = "other" /\ arg = None
  /\ Does(<<Write("register", p, Resolve(i, p, verb, arg))>>)

-------------------------------------------------------------------------------
\* replan
\* The decisions made under a run about a node's disposition.
DecidedIn(p, n) ==
  {i \in Decided : rows[i].run = p /\ rows[i].node = n}

FinalVariant(p, n) ==      \* the first word
  CHOOSE i \in DecidedIn(p, n) : \A j \in DecidedIn(p, n) : rows[j].at >= rows[i].at

\* latestEvent: the last word, in time.
Final(p, n) ==
  CHOOSE i \in DecidedIn(p, n) : \A j \in DecidedIn(p, n) : rows[j].at <= rows[i].at

\* collectOverrides over inheritedOverrides: the last word if it names a
\* disposition (a shape stands for re_architect), else what the plan has.
Overridden(p, n) ==
  IF DecidedIn(p, n) = {} THEN p[n]
  ELSE LET final == rows[Final(p, n)]
       IN  CASE final.verb = "override" -> final.arg
             [] final.verb = "shape" -> "re_architect"
             [] OTHER -> p[n]

NextPlan(p) == [n \in Node |-> Overridden(p, n)]

\* supersededOverrides: the overrides a later word that is none took back.
Superseded(p) ==
  {<<x[1], rows[x[2]].arg>> : x \in
     {y \in Node \X Decided :
        /\ y[2] \in DecidedIn(p, y[1])
        /\ rows[y[2]].verb = "override"
        /\ rows[Final(p, y[1])].verb # "override"}}

Changed(p, q) == {n \in Node : DispositionOf(p, n) # DispositionOf(q, n)}

\* assertForcedIfDestructive: a ratified contract falls.  (With nodes in flight,
\* which SchedLoop has, the force is needed too; the writes are the same.)
Destroys(p, q) ==
  \E n \in Changed(p, q) : state[p].bound[n] # None /\ state[p].bound[n].by # None

MigratedVariant(p, q) ==       \* every contract is carried over
  [NewState EXCEPT !.bound = state[p].bound, !.word = state[p].word \ Changed(p, q)]

\* migrateState: a fresh run that keeps the contracts of the unchanged nodes.
Migrated(p, q) ==
  [NewState EXCEPT
     !.bound = [n \in Node |-> IF n \in Changed(p, q) THEN None ELSE state[p].bound[n]],
     !.word = state[p].word \ Changed(p, q)]

\* The plan, and then the state: a run with a state can be loaded.
ReplanWrites(p, q) == <<Write("plan", q, q), Write("state", q, Migrated(p, q))>>

Replan(p, force) ==
  /\ Idle /\ Loadable(p)
  /\ LET q == NextPlan(p)
         to == IF Changed(p, q) = {} THEN p ELSE q
     IN  /\ reply' = [from |-> p, to |-> to, superseded |-> Superseded(p)]
         /\ IF to = p \/ q \in DOMAIN state
            THEN UNCHANGED <<plans, state, manifest, onFile, reading, cache, rows, todo>>
            ELSE /\ Destroys(p, q) => force
                 /\ Cardinality(plans \cup {q}) <= MaxRuns
                 /\ Does(ReplanWrites(p, q))

-------------------------------------------------------------------------------
Next ==
  \/ \E p \in plans :
       \/ DispositionReviews(p)
       \/ \E model \in Model : Arch(p, model)
       \/ \E n \in Node :
            \/ \E model \in Model, shape \in Shape : ArchVerdict(p, n, model, shape)
            \/ ReviewerReads(p, n)
            \/ \E verdict \in {"pass", "concerns"} : ArchReview(p, n, verdict)
       \/ \E i \in {x \in DOMAIN rows : rows[x].status = "OPEN"} :
            \/ \E verb \in {"approve", "refuse"} : DecideArch(p, i, verb)
            \/ \E verb \in {"override", "shape", "other", "approve"},
                  arg \in Disposition \cup Shape \cup {None} :
                 DecideUnplaceable(p, i, verb, arg) \/ DecideDisposition(p, i, verb, arg)
       \/ \E force \in BOOLEAN : Replan(p, force)
  \/ MakeWrite
  \/ Die

Spec == Init /\ [][Next]_vars

-------------------------------------------------------------------------------
TypeOK ==
  /\ plans \subseteq Plan /\ DOMAIN state \subseteq Plan
  /\ \A p \in DOMAIN state :
       /\ \A n \in Node : state[p].bound[n] # None =>
            /\ state[p].bound[n].hash.shape \in Shape
            /\ state[p].bound[n].by \in {None, "auto", "human"}
  /\ \A k \in DOMAIN cache : cache[k] \in Fits[k.fact][k.disposition]
  /\ \A i \in DOMAIN rows : rows[i].run # None => rows[i].status = "RESOLVED"
  /\ Idle => \A p \in DOMAIN manifest : manifest[p] \in [Node -> Model \cup {None}]

Bound(p) == {n \in Node : state[p].bound[n] # None}
By(p, n) == state[p].bound[n].by

(***************************************************************************)
(* A contract is ratified only while a word stands behind that very        *)
(* contract: a person's approval or a reviewer's pass (no person need have *)
(* said anything, and a pass given after a person's refusal ratifies       *)
(* again, cli-arch-review.js 55), for the same disposition and shape, that *)
(* no refusal voided since (cli-escalations.js 261: "an approve, re-raised *)
(* review, reject sequence would otherwise leave the node ratified").      *)
(* Through re-runs of arch, verdicts that change a shape under the         *)
(* ratification, re-plans and commands that die.                           *)
(***************************************************************************)
RatifiedByAWord ==
  \A p \in DOMAIN state : \A n \in Bound(p) :
    By(p, n) # None => n \in state[p].word

(***************************************************************************)
(* Nobody ratifies what was not reviewed: every ratified contract has a    *)
(* review that was given while this contract was bound, not an earlier     *)
(* one.                                                                    *)
(***************************************************************************)
RatifiedWasReviewed ==
  \A p \in DOMAIN state : \A n \in Bound(p) :
    By(p, n) # None => state[p].bound[n].review = state[p].bound[n].hash

(***************************************************************************)
(* What a reviewer has read is what its verdict will be stamped with, the  *)
(* contract bound when the command is given (cli-arch-review.js 49),       *)
(* unless an arch went on under the reviewer and re-wrote the contract, or *)
(* the file held another contract than the binding from the start, after   *)
(* an arch that died or under another run's arch.                          *)
(***************************************************************************)
ReviewedAsRead ==
  reading.run # None /\ reading.read # Overtaken =>
    /\ reading.run \in DOMAIN state
    /\ reading.node \in Bound(reading.run) =>
         state[reading.run].bound[reading.node].hash = reading.read

(***************************************************************************)
(* The contract of a binding is on file, in the run that froze it, through *)
(* every death and re-plan (cli-conformance.js 61: "The binding survives a *)
(* replan while the contract file stays in the run it was frozen under").  *)
(***************************************************************************)
ContractOnFile ==
  \A p \in DOMAIN state : \A n \in Bound(p) :
    <<state[p].bound[n].ref, n>> \in DOMAIN onFile

(***************************************************************************)
(* A run never holds a contract for another disposition than its plan's: a *)
(* re-plan carries over only what still applies (cli-replan.js,            *)
(* migrateState).                                                          *)
(***************************************************************************)
ContractFitsPlan ==
  \A p \in DOMAIN state : \A n \in Bound(p) :
    /\ state[p].bound[n].hash.disposition = DispositionOf(p, n)
    /\ n \in GatedIn(p)

(***************************************************************************)
(* A state can always be loaded, wherever a replan dies: its plan is there.*)
(***************************************************************************)
StateHasPlan == DOMAIN state \subseteq plans

(***************************************************************************)
(* A disposition that a person decided is never silently lost: after a     *)
(* replan it is in force, or a later decision of the node either took its  *)
(* place or is why the replan reports it superseded (replan-overrides.js). *)
(***************************************************************************)
NoDecisionLost ==
  reply.from # None =>
    \A n \in Node : \A i \in DecidedIn(reply.from, n) :
      rows[i].verb = "override" =>
        \/ DispositionOf(reply.to, n) = rows[i].arg
        \/ \E j \in DecidedIn(reply.from, n) :
             /\ rows[j].at > rows[i].at
             /\ \/ rows[j].verb \in {"override", "shape"}
                \/ <<n, rows[i].arg>> \in reply.superseded

(***************************************************************************)
(* A run is of one piece, wherever a command died: its plan is there, its  *)
(* contracts are of its plan's dispositions and on file, and all of it is  *)
(* well typed.                                                             *)
(***************************************************************************)
PlanFitsState ==
  /\ TypeOK
  /\ ContractFitsPlan
  /\ StateHasPlan
  /\ ContractOnFile

(***************************************************************************)
(* A ratified contract has a word and a review of its own, and the review  *)
(* is of what was read unless the reading was overtaken.                   *)
(***************************************************************************)
RatificationIsReal ==
  /\ RatifiedByAWord
  /\ RatifiedWasReviewed
  /\ ReviewedAsRead

\* The last write of an arch: the register, after the manifest and the state.
ArchEnds(p) ==
  /\ Len(todo) = 1
  /\ todo[1].file = "arch_register" /\ todo[1].run = p
  /\ rows' = todo[1].content

(***************************************************************************)
(* Nobody waits in vain.  When arch has run, every gated node is ratified, *)
(* waits for the judge under a request the manifest holds, or is in front  *)
(* of a person, be it for the hundredth time after as many refusals.  And  *)
(* a verdict answers the request it was made for: the next arch under the  *)
(* model that was asked finds it (cli-arch-verdict.js 160: otherwise it is *)
(* "frozen under a key no run reads").                                     *)
(***************************************************************************)
NobodyWaitsInVain ==
  [][/\ \A p \in plans : ArchEnds(p) =>
          \A n \in GatedIn(p) :
            \/ manifest[p][n] # None
            \/ Ratified(state[p].bound[n])
            \/ \E i \in DOMAIN rows' : /\ rows'[i].node = n /\ rows'[i].status = "OPEN"
                                      /\ rows'[i].kind \in {"ARCH_REVIEW", "NO_TARGET_SHAPE"}
     /\ \A k \in DOMAIN cache' \ DOMAIN cache :
          \E p \in DOMAIN manifest, n \in Node :
            manifest[p][n] # None /\ k = Key(p, n, manifest[p][n])]_vars

(***************************************************************************)
(* A shape that a person named seeds the contract (replan-overrides.js 64: *)
(* "The shape rides along to seed the contract"): when the last word about *)
(* a node of a run is a shape, a replan of the run leads to a plan that    *)
(* can place the node.                                                     *)
(***************************************************************************)
ShapeSeedsContract ==
  reply.from # None =>
    \A n \in Node :
      LET decided == DecidedIn(reply.from, n)
      IN  decided # {} /\ rows[Final(reply.from, n)].verb = "shape"
            => n \notin Unplaceable(reply.to)
===============================================================================
