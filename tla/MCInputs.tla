------------------------------- MODULE MCInputs -------------------------------
(***************************************************************************)
(* What the modules of bounded inputs share: an initial state is one input *)
(* of some kind, and the only step works out what the code makes of it.    *)
(***************************************************************************)
EXTENDS Integers

VARIABLES kind, input, out

inputVars == <<kind, input, out>>

Pending == [judged |-> FALSE]

Judged(k) == kind = k /\ out.judged

Objects == 1..4

Pairs(S) == {e \in S \X S : e[1] # e[2]}

\* The nodes a path of at least one edge leads to.
Reachable(edges, n) ==
  LET step(S) == S \cup {e[2] : e \in {x \in edges : x[1] \in S}}
      first == {e[2] : e \in {x \in edges : x[1] = n}}
  IN  step(step(step(first)))
================================================================================
