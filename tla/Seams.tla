---------------------------------- MODULE Seams ----------------------------------
(***************************************************************************)
(* Dependency cycles: the seams proposed for one that is too large for one *)
(* session (graph/feedback.js), the human gate over a cycle, and the draft *)
(* sweep over what the gated pass could not reach                          *)
(* (exception/cycle-gate.js, cli-cycle.js and cli-sweep.js).               *)
(*                                                                         *)
(* Edges are pairs of numbers; a confidence is in hundredths.  A           *)
(* resolution is [kind, named]: what is done with the cycle, and the       *)
(* members its fields name.  The seam memory maps a set of members to      *)
(* [resolution, confidence].  The register is the sequence of the          *)
(* BREAK_CYCLE rows, [members, decision].                                  *)
(***************************************************************************)
EXTENDS GraphPlan

\* The cuts: edges, the best first, until every remaining component fits the
\* budget.
CANDIDATES_PER_CUT == 16

\* Taking a node out makes neighbours sources and sinks, in the order of names.
removeNode(c, n) ==
  LET out == [u \in DOMAIN c.out |-> IF u \in c.inn[n] THEN c.out[u] \ {n} ELSE c.out[u]]
      inn == [v \in DOMAIN c.inn |-> IF v \in c.out[n] THEN c.inn[v] \ {n} ELSE c.inn[v]]
      left == c.remaining \ {n}
  IN  [c EXCEPT !.remaining = left, !.out = out, !.inn = inn,
                !.sourceQ = @ \o sorted({v \in c.out[n] \cap left : inn[v] = {}}),
                !.sinkQ = @ \o sorted({u \in c.inn[n] \cap left : out[u] = {}})]

RECURSIVE drainSinks(_)
drainSinks(c) ==
  IF c.sinkQ = << >> THEN c
  ELSE LET n == Head(c.sinkQ)
           d == [c EXCEPT !.sinkQ = Tail(@)]
       IN  drainSinks(IF n \in d.remaining /\ d.out[n] = {}
                      THEN removeNode([d EXCEPT !.s2 = <<n>> \o @], n) ELSE d)

RECURSIVE drainSources(_)
drainSources(c) ==
  IF c.sourceQ = << >> THEN c
  ELSE LET n == Head(c.sourceQ)
           d == [c EXCEPT !.sourceQ = Tail(@)]
       IN  drainSources(IF n \in d.remaining /\ d.inn[n] = {}
                        THEN removeNode([d EXCEPT !.s1 = Append(@, n)], n) ELSE d)

RECURSIVE drainPeelQueues(_)
drainPeelQueues(c) ==
  IF c.sinkQ = << >> /\ c.sourceQ = << >> THEN c ELSE drainPeelQueues(drainSources(drainSinks(c)))

\* Only cycles are left: the node with most edges out for its edges in.
stuckPick(c) ==
  LET surplus(n) == Cardinality(c.out[n]) - Cardinality(c.inn[n])
      best == CHOOSE n \in c.remaining :
                \A m \in c.remaining \ {n} :
                  surplus(n) > surplus(m) \/ (surplus(n) = surplus(m) /\ n < m)
  IN  removeNode([c EXCEPT !.s1 = Append(@, best)], best)

RECURSIVE arrange(_)
arrange(c) ==
  LET drained == drainPeelQueues(c)
  IN  IF drained.remaining = {} THEN drained.s1 \o drained.s2 ELSE arrange(stuckPick(drained))

\* An order of the nodes with few edges pointing back.
elsOrder(nodes, edges) ==
  LET out == [n \in nodes |-> {v \in nodes \ {n} : <<n, v>> \in edges}]
      inn == [n \in nodes |-> {u \in nodes \ {n} : <<u, n>> \in edges}]
  IN  arrange([out |-> out, inn |-> inn, remaining |-> nodes, s1 |-> << >>, s2 |-> << >>,
               sinkQ |-> sorted({n \in nodes : out[n] = {}}),
               sourceQ |-> sorted({n \in nodes : out[n] # {} /\ inn[n] = {}})])

pos(order, n) == CHOOSE i \in DOMAIN order : order[i] = n

backEdges(order, edges) == {e \in edges : pos(order, e[1]) > pos(order, e[2])}

largest(nodes, edges) == Max({Cardinality(s.members) : s \in tarjanCondense(nodes, edges).superNodes})

\* The cut that leaves the smallest component; of equals the one that spans most.
bestCutIn(order, members, edges) ==
  LET span(e) == pos(order, e[1]) - pos(order, e[2])
      wider(e, f) == span(e) > span(f) \/ (span(e) = span(f) /\ PairBefore(e, f))
      back == backEdges(order, edges)
      after == [e \in {b \in back : Cardinality({f \in back : wider(f, b)}) < CANDIDATES_PER_CUT} |->
                  largest(members, edges \ {e})]
  IN  Only({CHOOSE e \in DOMAIN left :
              \A f \in DOMAIN left \ {e} : left[e] < left[f] \/ (left[e] = left[f] /\ wider(e, f)) : left \in {after}})

bestCut(members, edges) == Only({bestCutIn(order, members, edges) : order \in {elsOrder(members, edges)}})

\* The share of the component that a cut frees, rounded to hundredths.
confidenceOf(size, largestAfter) == ((size - largestAfter) * 200 + size) \div (2 * size)

\* The largest of the components that are too large, of equals the first by name.
oversized(c, budget) ==
  LET large == {k \in Range(tarjanSccs(c.members, c.work)) : Cardinality(k) > budget}
  IN  {k \in large : \A x \in large \ {k} :
         Cardinality(k) > Cardinality(x) \/ (Cardinality(k) = Cardinality(x) /\ Smallest(k) < Smallest(x))}

seamOf(target, inside, cut) ==
  LET left == largest(target, inside \ {cut})
  IN  [edge |-> cut, confidence |-> confidenceOf(Cardinality(target), left),
       structural |-> left = Cardinality(target)]

afterCut(c, target) ==
  LET inside == {e \in c.work : {e[1], e[2]} \subseteq target}
  IN  Only({[c EXCEPT !.work = @ \ {cut}, !.seams = Append(@, seamOf(target, inside, cut))] :
              cut \in {bestCut(target, inside)}})

RECURSIVE cutUntilFits(_, _)
cutUntilFits(c, budget) ==
  IF oversized(c, budget) = {} THEN c
  ELSE cutUntilFits(Only({afterCut(c, target) : target \in oversized(c, budget)}), budget)

minFeedbackArcSet(members, edges, budget) ==
  LET work == {e \in edges : e[1] \in members /\ e[2] \in members /\ e[1] # e[2]}
      done == cutUntilFits([members |-> members, work |-> work, seams |-> << >>], budget)
  IN  [seams |-> done.seams, sub_components |-> Range(tarjanSccs(members, done.work))]

--------------------------------------------------------------------------------
\* The gate and the sweep.

Undecided == "OPEN"

FIRST_CONFIDENCE == 60
CONFIDENCE_STEP == 15
CONFIDENCE_CAP == 95

memberSigSetKeyOfFirst(sigs) == {Smallest(sigs)}

\* Two cycles with one member in common are two questions.
memberSigSetKey(sigs) == sigs

Unlearned == [resolution |-> [kind |-> "none", named |-> {}], confidence |-> 0]

lookupLearnedSeam(memory, sigs) ==
  LET key == memberSigSetKey(sigs) IN IF key \in DOMAIN memory THEN memory[key] ELSE Unlearned

\* What an earlier human decided leads; the cuts that would fit the budget follow.
proposeSeams(members, edges, budget, memory) ==
  [learned |-> lookupLearnedSeam(memory, members), cut |-> minFeedbackArcSet(members, edges, budget)]

\* The fields each kind must have, by how many members they name.
hasField(resolution) ==
  CASE resolution.kind = "CUT" -> Cardinality(resolution.named) = 2
    [] resolution.kind = "COGEN_RAP_BO" -> resolution.named # {}
    [] resolution.kind = "SPROUT_DEFER" -> Cardinality(resolution.named) = 1

\* A repeated decision, the same or another, makes the memory surer, never certain.
applyResolution(memory, sigs, resolution) ==
  LET key == memberSigSetKey(sigs)
      confidence == IF key \in DOMAIN memory
                    THEN Min({CONFIDENCE_CAP, memory[key].confidence + CONFIDENCE_STEP}) ELSE FIRST_CONFIDENCE
  IN  (key :> [resolution |-> resolution, confidence |-> confidence]) @@ memory

\* The budget of a proposal: as asked, else the plan's (each one number, or none),
\* else one less than the cycle.
cmdSeams(members, references, asked, planned, memory) ==
  LET inside == {e \in precedenceEdges(references) : {e[1], e[2]} \subseteq members}
      budget == IF asked # {} THEN Max(asked) ELSE IF planned # {} THEN Max(planned)
                ELSE Max({1, Cardinality(members) - 1})
  IN  proposeSeams(members, inside, budget, memory)

\* An open question about the cycle is the one that is decided; without one, a new row is.
decideRow(register, members, kind) ==
  LET pending == {i \in DOMAIN register : register[i] = [members |-> members, decision |-> Undecided]}
  IN  IF pending = {} THEN Append(register, [members |-> members, decision |-> kind])
      ELSE [register EXCEPT ![Min(pending)].decision = kind]

\* A resolution that names a stranger to the cycle is refused.  The memory is
\* saved before the register: a command that stops between leaves only the first.
cmdResolveCycle(s, members, resolution, stops) ==
  IF ~ resolution.named \subseteq members \/ ~ hasField(resolution) THEN s
  ELSE [memory |-> applyResolution(s.memory, members, resolution),
        register |-> IF stops THEN s.register ELSE decideRow(s.register, members, resolution.kind)]
--------------------------------------------------------------------------------
(* The sweep: nodes have a wave, dependencies and a status; the ledger maps swept nodes to a result *)

sweepsBefore(plan, n, m) == plan[n].wave < plan[m].wave \/ (plan[n].wave = plan[m].wave /\ n < m)

\* The nodes the gated pass never reached and the sweep has not either, each
\* with the drafts it can be grounded on.
cmdSweepOrder(plan, ledger) ==
  LET remaining == {n \in DOMAIN plan : plan[n].status = "PENDING" /\ n \notin DOMAIN ledger}
  IN  [i \in 1..Cardinality(remaining) |->
         LET sig == CHOOSE n \in remaining : Cardinality({m \in remaining : sweepsBefore(plan, m, n)}) = i - 1
         IN  [sig |-> sig, drafts |-> {d \in plan[sig].dependencies : d \in DOMAIN ledger /\ ledger[d] = "drafted"}]]

\* Only a node the gated pass never reached is swept; marking it again replaces the result.
cmdSweepMark(plan, ledger, sig, result) ==
  IF sig \in DOMAIN plan /\ plan[sig].status = "PENDING" THEN (sig :> result) @@ ledger ELSE ledger
================================================================================
