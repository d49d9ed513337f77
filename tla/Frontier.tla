-------------------------------- MODULE Frontier --------------------------------
(***************************************************************************)
(* Which debt is worst (moderniser/src/sched/risk.js), and the choice of   *)
(* the next parallel batch (sched/frontier.js, nextFrontier): a greedy     *)
(* pick, worst debt first, of ready nodes that no dependency edge and no   *)
(* shared resource relates, capped at the team size.  A pure function of   *)
(* its arguments: order is the sequence of all nodes, worst debt first,    *)
(* edges the dependency pairs, keysOf the resources each node touches.     *)
(***************************************************************************)
EXTENDS Integers, FiniteSets, Sequences, FiniteSetsExt

\* The key of the member with the worst grade, the first of equals.
superNodeKeyOfWorst(members, meta) ==
  meta[CHOOSE m \in members : \A x \in members \ {m} :
         meta[m].rank < meta[x].rank \/ (meta[m].rank = meta[x].rank /\ m < x)]

\* A grade is a number: D is 0, A is 3, an unknown one 4.
superNodeKey(members, meta) ==
  [rank |-> Min({4} \cup {meta[m].rank : m \in members}),
   complexity |-> Max({0} \cup {meta[m].complexity : m \in members}),
   blast |-> Max({0} \cup {meta[m].blast : m \in members})]

worseThan(a, b, key) ==
  \/ key[a].rank < key[b].rank
  \/ /\ key[a].rank = key[b].rank
     /\ \/ key[a].complexity > key[b].complexity
        \/ /\ key[a].complexity = key[b].complexity
           /\ key[a].blast > key[b].blast \/ (key[a].blast = key[b].blast /\ a < b)
--------------------------------------------------------------------------------
(* The batch *)

\* Adjacency ignores the direction of an edge.
Conflicts(n, chosen, edges, keysOf) ==
  \E m \in chosen : \/ <<n, m>> \in edges \/ <<m, n>> \in edges
                    \/ keysOf[n] \cap keysOf[m] # {}

\* batch[k] is what was chosen when the k worst nodes have been looked at.
NextFrontier(ready, order, edges, keysOf, cap) ==
  LET batch[k \in 0..Len(order)] ==
        IF k = 0 THEN {}
        ELSE IF /\ order[k] \in ready
                /\ Cardinality(batch[k - 1]) < cap
                /\ ~ Conflicts(order[k], batch[k - 1], edges, keysOf)
             THEN batch[k - 1] \cup {order[k]}
             ELSE batch[k - 1]
  IN  batch[Len(order)]
===============================================================================
