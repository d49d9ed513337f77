-------------------------------- MODULE MCBatch --------------------------------
(***************************************************************************)
(* The choice of the next batch: bounded inputs, and properties, of what   *)
(* is worked on side by side and which debt comes first.  The sets called  *)
(* Any... are all the inputs of a kind, which the proofs are about.        *)
(***************************************************************************)
EXTENDS Frontier, MCInputs

At(s) == {s[i] : i \in DOMAIN s}

\* The objects that touch one shared table.
Sharers == {{}, {1, 2}, {2, 3}, {1, 4}, {1, 2, 3, 4}}

Metas == [rank : {0, 3, 4}, complexity : {0, 1}, blast : {0, 1}]

AnyMeta == [rank : 0..4, complexity : Nat, blast : Nat]

\* A unit is the sequence of its members; a name only breaks ties.
BatchInputs ==
  [batch |-> [ready : {R \in SUBSET Objects : Cardinality(R) >= 2}, order : {<<1, 2, 3, 4>>, <<3, 1, 4, 2>>},
              touches : {S \X {"table"} : S \in Sharers}, cap : 1..3,
              edges : {E \in SUBSET Pairs(Objects) : \A e \in E : <<e[2], e[1]>> \notin E}],
   risk |-> [unit : [1..2 -> Metas], other : [1..1 -> Metas], names : {<<1, 2>>, <<2, 1>>}, at : {1, 2}, worse : Metas]]

AnyBatch ==
  {in \in [ready : SUBSET Int, order : Seq(Int), touches : SUBSET (Int \X STRING), cap : Nat,
           edges : SUBSET (Int \X Int)] :
     /\ in.ready \subseteq At(in.order)
     /\ \A i, j \in DOMAIN in.order : in.order[i] = in.order[j] => i = j}

AnyRisk ==
  {in \in [unit : Seq(AnyMeta), other : Seq(AnyMeta), names : Int \X Int, at : Nat, worse : AnyMeta] :
     in.at \in DOMAIN in.unit /\ in.names[1] # in.names[2]}

AnyInput == [batch |-> AnyBatch, risk |-> AnyRisk]

ASSUME BatchInputsAssumption == \A k \in DOMAIN BatchInputs : BatchInputs[k] \subseteq AnyInput[k]

KeysOf(in) == [o \in At(in.order) |-> {t[2] : t \in {x \in in.touches : x[1] = o}}]

\* Whether the unit goes first, when its members are as given.
Ahead(in, unit) ==
  LET keys == [n \in At(in.names) |-> IF n = in.names[1] THEN superNodeKey(DOMAIN unit, unit)
                                      ELSE superNodeKey(DOMAIN in.other, in.other)]
  IN  worseThan(in.names[1], in.names[2], keys)

Chosen(k, in) ==
  CASE k = "batch" ->
         [judged |-> TRUE, picked |-> NextFrontier(in.ready, in.order, in.edges, KeysOf(in), in.cap)]
    [] k = "risk" ->
         [judged |-> TRUE, before |-> Ahead(in, in.unit), after |-> Ahead(in, [in.unit EXCEPT ![in.at] = in.worse])]

Choose == ~ out.judged /\ out' = Chosen(kind, input) /\ UNCHANGED <<kind, input>>

\* Any input at all.
BatchSpec ==
  /\ out = Pending /\ kind \in DOMAIN AnyInput /\ input \in AnyInput[kind]
  /\ [][Choose]_inputVars
--------------------------------------------------------------------------------
Apart(n, m) ==
  /\ <<n, m>> \notin input.edges /\ <<m, n>> \notin input.edges
  /\ ~ \E t, u \in input.touches : t[1] = n /\ u[1] = m /\ t[2] = u[2]

(***************************************************************************)
(* A batch can be generated in parallel: its nodes are ready, no more than *)
(* the team, and pairwise related neither by a dependency (in whichever    *)
(* direction it points) nor by a resource.                                 *)
(***************************************************************************)
BatchIsSafe ==
  Judged("batch") =>
    /\ out.picked \subseteq input.ready
    /\ Cardinality(out.picked) <= input.cap
    /\ \A n, m \in out.picked : n # m => Apart(n, m)

(***************************************************************************)
(* Worst debt first, and nothing that cannot run takes a slot: a ready     *)
(* node is left out only because worse nodes fill the team, or because it  *)
(* is related to a worse node of the batch.                                *)
(***************************************************************************)
WorstFirst ==
  Judged("batch") => \A n \in input.ready \ out.picked :
    LET worse == {m \in out.picked : \E i, j \in DOMAIN input.order : i < j /\ input.order[i] = m /\ input.order[j] = n}
    IN  Cardinality(worse) = input.cap \/ \E m \in worse : ~ Apart(n, m)

(***************************************************************************)
(* More debt in a member never moves its unit back: a unit stays ahead of  *)
(* another when one of its members gets a worse grade, more complexity or  *)
(* a wider blast.                                                          *)
(***************************************************************************)
DebtNeverHelps ==
  Judged("risk") =>
    LET old == input.unit[input.at]
        new == input.worse
    IN  new.rank <= old.rank /\ new.complexity >= old.complexity /\ new.blast >= old.blast /\ out.before
          => out.after

(***************************************************************************)
(* A batch holds the worst of what is ready, and nothing in it disturbs    *)
(* anything else in it.                                                    *)
(***************************************************************************)
BatchIsSound ==
  /\ BatchIsSafe
  /\ WorstFirst
  /\ DebtNeverHelps
================================================================================
