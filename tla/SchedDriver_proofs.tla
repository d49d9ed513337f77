--------------------------- MODULE SchedDriver_proofs ---------------------------
(***************************************************************************)
(* Proofs about the layers over the reducer, for every plan, team and      *)
(* ceiling: the driver, the frontier it offers, the offline lane that      *)
(* follows it, and the activation mutex.  What is proved of the reducer in *)
(* SchedLoop_proofs holds under each of them.                              *)
(***************************************************************************)
EXTENDS OfflineLane, ActivationMutex, SchedLoop_proofs, WellFoundedInduction, MCBatch

-------------------------------------------------------------------------------
\* The frontier.

\* A set of numbers that is not empty has a least element.
LEMMA Least ==
  ASSUME NEW T, T \subseteq Nat, T # {}
  PROVE  \E n \in T : \A m \in T : n <= m
<1> DEFINE R == {p \in Nat \X Nat : p[1] < p[2]}
<1>1. IsWellFoundedOn(R, Nat)
  BY NatLessThanWellFounded DEF OpToRel
<1>2. PICK n \in T : \A m \in T : ~ (<<m, n>> \in R)
  BY <1>1, WFMin DEF R
<1>3. ASSUME NEW m \in T PROVE n <= m
  <2>1. <<m, n>> \in Nat \X Nat /\ ~ (<<m, n>> \in R)
    BY <1>2
  <2>2. ~ (m < n)
    BY <2>1
  <2> QED
    BY <2>2
<1> QED
  BY <1>3

\* The batch after one more node has been looked at.
Turn(chosen, node, ready, edges, keysOf, cap) ==
  IF /\ node \in ready
     /\ Cardinality(chosen) < cap
     /\ ~ Conflicts(node, chosen, edges, keysOf)
  THEN chosen \cup {node}
  ELSE chosen

\* g is the course of the pick over the L worst nodes.
IsCourse(g, L, ready, order, edges, keysOf, cap) ==
  /\ g = [k \in 0..L |-> g[k]]
  /\ g[0] = {}
  /\ \A k \in 1..L : g[k] = Turn(g[k - 1], order[k], ready, edges, keysOf, cap)

\* There is a course of every length: else there were a least length without
\* one, and the course one shorter would go on to it.
LEMMA CourseExists ==
  ASSUME NEW ready, NEW order, NEW edges, NEW keysOf, NEW cap, NEW L \in Nat
  PROVE  \E g : IsCourse(g, L, ready, order, edges, keysOf, cap)
<1> DEFINE Has(k) == \E g : IsCourse(g, k, ready, order, edges, keysOf, cap)
           T == {k \in Nat : ~ Has(k)}
<1> SUFFICES ASSUME T # {} PROVE FALSE
  OBVIOUS
<1>1. PICK k \in T : \A m \in T : k <= m
  BY Least
<1>2. CASE k = 0
  <2> DEFINE g == [j \in 0..0 |-> {}]
  <2>1. IsCourse(g, 0, ready, order, edges, keysOf, cap)
    BY DEF IsCourse
  <2> QED
    BY <1>2, <2>1
<1>3. CASE k # 0
  <2>1. k - 1 \in Nat /\ Has(k - 1)
    BY <1>1, <1>3
  <2>2. PICK g : IsCourse(g, k - 1, ready, order, edges, keysOf, cap)
    BY <2>1
  <2> DEFINE last == Turn(g[k - 1], order[k], ready, edges, keysOf, cap)
             h == [j \in 0..k |-> IF j = k THEN last ELSE g[j]]
  <2>3. /\ h = [j \in 0..k |-> h[j]] /\ h[k] = last /\ k \in 1..k
        /\ \A j \in 0..(k - 1) : h[j] = g[j]
        /\ 0 \in 0..(k - 1) /\ \A j \in 1..k : j - 1 \in 0..(k - 1)
        /\ \A j \in 1..k : j = k \/ j \in 1..(k - 1)
    BY <2>1
  <2>4. IsCourse(h, k, ready, order, edges, keysOf, cap)
    <3> HIDE DEF h
    <3>1. h[0] = {}
      BY <2>2, <2>3 DEF IsCourse
    <3>2. ASSUME NEW j \in 1..(k - 1)
          PROVE  h[j] = Turn(h[j - 1], order[j], ready, edges, keysOf, cap)
      <4>1. j \in 0..(k - 1) /\ j - 1 \in 0..(k - 1)
        BY <2>1
      <4> QED
        BY <2>2, <2>3, <4>1 DEF IsCourse
    <3>3. h[k] = Turn(h[k - 1], order[k], ready, edges, keysOf, cap)
      BY <2>3
    <3> QED
      BY <2>3, <3>1, <3>2, <3>3 DEF IsCourse
  <2> QED
    BY <1>1, <2>4
<1> QED
  BY <1>2, <1>3

\* The frontier is where such a course ends.
LEMMA FrontierIsCourse ==
  ASSUME NEW ready, NEW order, NEW edges, NEW keysOf, NEW cap, Len(order) \in Nat
  PROVE  \E g : /\ IsCourse(g, Len(order), ready, order, edges, keysOf, cap)
                /\ NextFrontier(ready, order, edges, keysOf, cap) = g[Len(order)]
<1> DEFINE Is(g) == g = [k \in 0..Len(order) |->
                           IF k = 0 THEN {}
                           ELSE IF /\ order[k] \in ready
                                   /\ Cardinality(g[k - 1]) < cap
                                   /\ ~ Conflicts(order[k], g[k - 1], edges, keysOf)
                                THEN g[k - 1] \cup {order[k]}
                                ELSE g[k - 1]]
           b == CHOOSE g : Is(g)
<1>1. PICK g : IsCourse(g, Len(order), ready, order, edges, keysOf, cap)
  BY CourseExists
<1>2. Is(g)
  BY <1>1 DEF IsCourse, Turn
<1>3. Is(b)
  BY <1>2
<1>4. IsCourse(b, Len(order), ready, order, edges, keysOf, cap)
  <2>1. ASSUME NEW f, Is(f)
        PROVE  IsCourse(f, Len(order), ready, order, edges, keysOf, cap)
    BY <2>1 DEF IsCourse, Turn
  <2> HIDE DEF b
  <2> QED
    BY <1>3, <2>1
<1>5. NextFrontier(ready, order, edges, keysOf, cap) = b[Len(order)]
  BY DEF NextFrontier
<1> QED
  BY <1>4, <1>5

\* What a batch may hold.
SoundBatch(S, ready, edges, keysOf, cap) ==
  /\ S \subseteq ready /\ IsFiniteSet(S) /\ Cardinality(S) <= cap
  /\ \A n, m \in S : n # m =>
       <<n, m>> \notin edges /\ keysOf[n] \cap keysOf[m] = {}

\* One more turn keeps a batch sound.
LEMMA TurnIsSound ==
  ASSUME NEW S, NEW n, NEW ready, NEW edges, NEW keysOf, NEW cap \in Nat,
         SoundBatch(S, ready, edges, keysOf, cap)
  PROVE  SoundBatch(Turn(S, n, ready, edges, keysOf, cap), ready, edges, keysOf, cap)
<1>1. CASE /\ n \in ready /\ Cardinality(S) < cap
           /\ ~ Conflicts(n, S, edges, keysOf) /\ n \notin S
  <2>1. /\ IsFiniteSet(S \cup {n}) /\ Cardinality(S \cup {n}) = Cardinality(S) + 1
        /\ Cardinality(S) \in Nat
    BY <1>1, FS_AddElement, FS_CardinalityType DEF SoundBatch
  <2>2. Turn(S, n, ready, edges, keysOf, cap) = S \cup {n}
    BY <1>1 DEF Turn
  <2>3. \A m \in S : /\ <<n, m>> \notin edges /\ <<m, n>> \notin edges
                     /\ keysOf[n] \cap keysOf[m] = {}
    BY <1>1 DEF Conflicts
  <2>4. ASSUME NEW m \in S \cup {n}, NEW p \in S \cup {n}, m # p
        PROVE  <<m, p>> \notin edges /\ keysOf[m] \cap keysOf[p] = {}
    <3>1. CASE m \in S /\ p \in S
      BY <2>4, <3>1 DEF SoundBatch
    <3>2. CASE m = n
      BY <2>3, <2>4, <3>2
    <3>3. CASE p = n
      BY <2>3, <2>4, <3>3
    <3> QED
      BY <3>1, <3>2, <3>3
  <2> QED
    BY <1>1, <2>1, <2>2, <2>4 DEF SoundBatch
<1>2. CASE ~ (/\ n \in ready /\ Cardinality(S) < cap
              /\ ~ Conflicts(n, S, edges, keysOf) /\ n \notin S)
  <2>1. Turn(S, n, ready, edges, keysOf, cap) = S
    BY <1>2 DEF Turn
  <2> QED
    BY <2>1
<1> QED
  BY <1>1, <1>2

\* It is made of the k worst nodes.
AmongFirst(S, k, order) == \A n \in S : \E j \in 1..k : order[j] = n

\* Every batch of the course is sound, and made of what was looked at.
LEMMA CourseIsSound ==
  ASSUME NEW ready, NEW order, NEW edges, NEW keysOf, NEW cap \in Nat, NEW L \in Nat,
         NEW g, IsCourse(g, L, ready, order, edges, keysOf, cap)
  PROVE  \A k \in 0..L : /\ SoundBatch(g[k], ready, edges, keysOf, cap)
                         /\ AmongFirst(g[k], k, order)
<1> DEFINE Good(k) == /\ SoundBatch(g[k], ready, edges, keysOf, cap)
                      /\ AmongFirst(g[k], k, order)
           T == {k \in 0..L : ~ Good(k)}
<1> SUFFICES ASSUME T # {} PROVE FALSE
  OBVIOUS
<1>0. T \subseteq Nat
  OBVIOUS
<1>1. PICK k \in T : \A m \in T : k <= m
  BY <1>0, Least
<1>2. Good(0)
  <2>1. SoundBatch({}, ready, edges, keysOf, cap)
    BY FS_EmptySet DEF SoundBatch
  <2> QED
    BY <2>1 DEF IsCourse, AmongFirst
<1>3. k \in 1..L /\ k - 1 \in 0..L /\ Good(k - 1)
  BY <1>1, <1>2
<1>4. g[k] = Turn(g[k - 1], order[k], ready, edges, keysOf, cap)
  BY <1>3 DEF IsCourse
<1>5. SoundBatch(g[k], ready, edges, keysOf, cap)
  BY <1>3, <1>4, TurnIsSound
<1>6. ASSUME NEW n \in g[k] PROVE \E j \in 1..k : order[j] = n
  <2>1. n \in g[k - 1] \/ n = order[k]
    BY <1>4, <1>6 DEF Turn
  <2>2. k \in 1..k /\ \A j \in 1..(k - 1) : j \in 1..k
    BY <1>3
  <2> QED
    BY <1>3, <2>1, <2>2 DEF AmongFirst
<1> QED
  BY <1>1, <1>5, <1>6 DEF AmongFirst

\* Nothing that was chosen is dropped.
LEMMA CourseGrows ==
  ASSUME NEW ready, NEW order, NEW edges, NEW keysOf, NEW cap, NEW L \in Nat,
         NEW g, IsCourse(g, L, ready, order, edges, keysOf, cap),
         NEW j \in 0..L, NEW n \in g[j]
  PROVE  \A k \in j..L : n \in g[k]
<1> DEFINE T == {k \in j..L : n \notin g[k]}
<1> SUFFICES ASSUME T # {} PROVE FALSE
  OBVIOUS
<1>0. T \subseteq Nat
  OBVIOUS
<1>1. PICK k \in T : \A m \in T : k <= m
  BY <1>0, Least
<1>2. k # j /\ k \in 1..L /\ k - 1 \in j..L /\ n \in g[k - 1]
  BY <1>1
<1>3. g[k] = Turn(g[k - 1], order[k], ready, edges, keysOf, cap)
  BY <1>2 DEF IsCourse
<1> QED
  BY <1>1, <1>2, <1>3 DEF Turn

(***************************************************************************)
(* The batch the frontier picks can be generated in parallel: its nodes    *)
(* are ready, no more than the team, and pairwise related neither by a     *)
(* dependency nor by a resource (nextFrontier), whatever the plan.         *)
(***************************************************************************)
THEOREM FrontierIsSound ==
  ASSUME NEW ready, NEW order, NEW edges, NEW keysOf, NEW cap \in Nat, Len(order) \in Nat
  PROVE  SoundBatch(NextFrontier(ready, order, edges, keysOf, cap), ready, edges, keysOf, cap)
<1>1. PICK g : /\ IsCourse(g, Len(order), ready, order, edges, keysOf, cap)
               /\ NextFrontier(ready, order, edges, keysOf, cap) = g[Len(order)]
  BY FrontierIsCourse
<1>2. \A k \in 0..Len(order) : SoundBatch(g[k], ready, edges, keysOf, cap)
  BY <1>1, CourseIsSound
<1> QED
  BY <1>1, <1>2

(***************************************************************************)
(* Worst debt first, and nothing that cannot run takes a slot: a ready     *)
(* node is left out only because worse nodes of the batch fill the team,   *)
(* or because one of them is related to it.                                *)
(***************************************************************************)
THEOREM FrontierIsWorstFirst ==
  ASSUME NEW ready, NEW order, NEW edges, NEW keysOf, NEW cap \in Nat, Len(order) \in Nat,
         NEW k \in 1..Len(order), order[k] \in ready,
         order[k] \notin NextFrontier(ready, order, edges, keysOf, cap)
  PROVE  \E worse \in SUBSET NextFrontier(ready, order, edges, keysOf, cap) :
           /\ AmongFirst(worse, k - 1, order)
           /\ Cardinality(worse) = cap \/ Conflicts(order[k], worse, edges, keysOf)
<1>1. PICK g : /\ IsCourse(g, Len(order), ready, order, edges, keysOf, cap)
               /\ NextFrontier(ready, order, edges, keysOf, cap) = g[Len(order)]
  BY FrontierIsCourse
<1>2. k - 1 \in 0..Len(order) /\ k \in 0..Len(order) /\ Len(order) \in k..Len(order)
      /\ Len(order) \in (k - 1)..Len(order)
  OBVIOUS
<1>3. g[k] = Turn(g[k - 1], order[k], ready, edges, keysOf, cap)
  BY <1>1 DEF IsCourse
<1>4. order[k] \notin g[k]
  <2>1. order[k] \in g[k] => \A i \in k..Len(order) : order[k] \in g[i]
    BY <1>1, <1>2, CourseGrows
  <2> QED
    BY <1>1, <1>2, <2>1
<1>5. \A i \in 0..Len(order) : /\ SoundBatch(g[i], ready, edges, keysOf, cap)
                                /\ AmongFirst(g[i], i, order)
  BY <1>1, CourseIsSound
<1>6. /\ Cardinality(g[k - 1]) <= cap /\ Cardinality(g[k - 1]) \in Nat
      /\ AmongFirst(g[k - 1], k - 1, order)
  BY <1>2, <1>5, FS_CardinalityType DEF SoundBatch
<1>7. Cardinality(g[k - 1]) = cap \/ Conflicts(order[k], g[k - 1], edges, keysOf)
  BY <1>3, <1>4, <1>6 DEF Turn
<1>8. g[k - 1] \subseteq g[Len(order)]
  BY <1>1, <1>2, CourseGrows
<1> QED
  BY <1>1, <1>6, <1>7, <1>8

\* In particular, where there is work there is a batch.
LEMMA FrontierFindsWork ==
  ASSUME NEW ready, NEW order, NEW edges, NEW keysOf, NEW cap \in Nat \ {0},
         Len(order) \in Nat, NEW k \in 1..Len(order), order[k] \in ready
  PROVE  NextFrontier(ready, order, edges, keysOf, cap) # {}
<1> SUFFICES ASSUME NextFrontier(ready, order, edges, keysOf, cap) = {} PROVE FALSE
  OBVIOUS
<1>1. cap \in Nat /\ order[k] \notin NextFrontier(ready, order, edges, keysOf, cap)
  OBVIOUS
<1>2. PICK worse \in SUBSET NextFrontier(ready, order, edges, keysOf, cap) :
        Cardinality(worse) = cap \/ Conflicts(order[k], worse, edges, keysOf)
  BY <1>1, FrontierIsWorstFirst
<1>3. worse = {}
  OBVIOUS
<1> QED
  BY <1>2, <1>3, FS_EmptySet DEF Conflicts

-------------------------------------------------------------------------------
\* The batches and the risk order of MCBatch.

\* Two nodes that do not conflict are apart, in the terms of the input.
LEMMA ConflictsInInput ==
  ASSUME NEW in, NEW n \in At(in.order), NEW m \in At(in.order)
  PROVE  KeysOf(in)[n] \cap KeysOf(in)[m] # {}
           <=> \E t, u \in in.touches : t[1] = n /\ u[1] = m /\ t[2] = u[2]
<1>1. KeysOf(in)[n] = {t[2] : t \in {x \in in.touches : x[1] = n}}
  BY DEF KeysOf
<1>2. KeysOf(in)[m] = {t[2] : t \in {x \in in.touches : x[1] = m}}
  BY DEF KeysOf
<1> QED
  BY <1>1, <1>2

LEMMA BatchHolds ==
  ASSUME kind = "batch", input \in AnyBatch, out = Chosen("batch", input)
  PROVE  BatchIsSafe /\ WorstFirst
<1> DEFINE order == input.order
           picked == NextFrontier(input.ready, order, input.edges, KeysOf(input), input.cap)
<1>1. /\ input.cap \in Nat /\ order \in Seq(Int) /\ Len(order) \in Nat /\ DOMAIN order = 1..Len(order)
      /\ input.ready \subseteq At(order)
      /\ \A i, j \in DOMAIN order : order[i] = order[j] => i = j
  BY DEF AnyBatch
<1>2. out.picked = picked
  BY DEF Chosen
<1>3. SoundBatch(picked, input.ready, input.edges, KeysOf(input), input.cap)
  BY <1>1, FrontierIsSound
<1>4. picked \subseteq input.ready /\ IsFiniteSet(picked) /\ Cardinality(picked) <= input.cap
  BY <1>3 DEF SoundBatch
<1>5. ASSUME NEW n \in At(order), NEW m \in At(order)
      PROVE  Apart(n, m) <=> ~ Conflicts(n, {m}, input.edges, KeysOf(input))
  BY <1>5, ConflictsInInput DEF Apart, Conflicts
<1>6. BatchIsSafe
  <2>1. ASSUME NEW n \in picked, NEW m \in picked, n # m
        PROVE  Apart(n, m)
    <3>1. <<n, m>> \notin input.edges /\ <<m, n>> \notin input.edges /\ KeysOf(input)[n] \cap KeysOf(input)[m] = {}
      BY <1>3, <2>1 DEF SoundBatch
    <3>2. n \in At(order) /\ m \in At(order)
      BY <1>1, <1>4
    <3> QED
      BY <1>5, <3>1, <3>2 DEF Conflicts
  <2> QED
    BY <1>2, <1>4, <2>1 DEF BatchIsSafe
<1>7. ASSUME NEW n \in input.ready \ picked
      PROVE  LET worse == {m \in picked : \E i, j \in DOMAIN order : i < j /\ order[i] = m /\ order[j] = n}
             IN  Cardinality(worse) = input.cap \/ \E m \in worse : ~ Apart(n, m)
  <2> DEFINE worse == {m \in picked : \E i, j \in DOMAIN order : i < j /\ order[i] = m /\ order[j] = n}
  <2>1. PICK k \in 1..Len(order) : order[k] = n
    BY <1>1 DEF At
  <2>2. order[k] \in input.ready /\ order[k] \notin picked
    BY <1>7, <2>1
  <2>3. PICK first \in SUBSET picked :
          /\ AmongFirst(first, k - 1, order)
          /\ Cardinality(first) = input.cap \/ Conflicts(order[k], first, input.edges, KeysOf(input))
    BY <1>1, <2>2, FrontierIsWorstFirst
  <2>4. first \subseteq worse
    <3>1. ASSUME NEW m \in first PROVE m \in worse
      <4>1. PICK j \in 1..(k - 1) : order[j] = m
        BY <2>3 DEF AmongFirst
      <4>2. j \in DOMAIN order /\ k \in DOMAIN order /\ j < k
        BY <1>1
      <4> QED
        BY <2>1, <4>1, <4>2
    <3> QED
      BY <3>1
  <2>5. CASE Cardinality(first) = input.cap
    <3>1. IsFiniteSet(worse) /\ Cardinality(worse) <= Cardinality(picked)
      BY <1>4, FS_Subset
    <3>2. Cardinality(first) <= Cardinality(worse)
      BY <2>4, <3>1, FS_Subset
    <3>3. Cardinality(worse) \in Nat /\ Cardinality(picked) \in Nat
      BY <1>4, <3>1, FS_CardinalityType
    <3>4. Cardinality(worse) = input.cap
      BY <1>1, <1>4, <2>5, <3>1, <3>2, <3>3
    <3> QED
      BY <3>4
  <2>6. CASE Conflicts(order[k], first, input.edges, KeysOf(input))
    <3>1. PICK m \in first : Conflicts(n, {m}, input.edges, KeysOf(input))
      BY <2>1, <2>6 DEF Conflicts
    <3>2. m \in worse /\ n \in At(order) /\ m \in At(order)
      BY <1>1, <1>4, <2>4
    <3> QED
      BY <1>5, <3>1, <3>2
  <2> QED
    BY <2>3, <2>5, <2>6
<1>8. WorstFirst
  BY <1>2, <1>7 DEF WorstFirst
<1> QED
  BY <1>6, <1>8

\* Of finitely many numbers one is the greatest: the one with the most others
\* below it.
LEMMA Greatest ==
  ASSUME NEW T, T \subseteq Nat, IsFiniteSet(T), T # {}
  PROVE  Max(T) \in T /\ \A x \in T : x <= Max(T)
<1> DEFINE below(x) == {y \in T : y <= x}
           n == Cardinality(T)
           D == {n - Cardinality(below(x)) : x \in T}
<1>1. n \in Nat /\ \A x \in T : Cardinality(below(x)) \in Nat /\ Cardinality(below(x)) <= n /\ IsFiniteSet(below(x))
  BY FS_Subset, FS_CardinalityType
<1>2. D \subseteq Nat /\ D # {}
  <2>1. \A x \in T : n - Cardinality(below(x)) \in Nat
    <3> HIDE DEF n, below
    <3> QED
      BY <1>1
  <2> HIDE DEF n, below
  <2> QED
    BY <2>1
<1>3. PICK d \in D : \A e \in D : d <= e
  BY <1>2, Least
<1>4. PICK g \in T : d = n - Cardinality(below(g))
  BY <1>3
<1>5. ASSUME NEW x \in T, x > g PROVE FALSE
  <2>1. below(g) \subseteq below(x) /\ x \in below(x) \ below(g)
    <3>1. x \in Nat /\ g \in Nat /\ \A y \in T : y \in Nat
      OBVIOUS
    <3>2. \A y \in T : y <= g => y <= x
      BY <1>5, <3>1
    <3>3. x <= x /\ ~ (x <= g)
      BY <1>5, <3>1
    <3> QED
      BY <3>2, <3>3
  <2>2. Cardinality(below(g)) < Cardinality(below(x))
    <3>1. Cardinality(below(g)) <= Cardinality(below(x)) /\ (Cardinality(below(g)) = Cardinality(below(x)) => below(g) = below(x))
      BY <1>1, <2>1, FS_Subset
    <3> QED
      BY <1>1, <2>1, <3>1
  <2>3. n - Cardinality(below(x)) \in D
    OBVIOUS
  <2> HIDE DEF D, n, below
  <2> QED
    BY <1>1, <1>3, <1>4, <2>2, <2>3
<1>6. g \in T /\ \A x \in T : g >= x
  BY <1>5
<1> QED
  BY <1>6 DEF Max

\* The least one.
LEMMA LeastIsMin ==
  ASSUME NEW T, T \subseteq Nat, T # {}
  PROVE  Min(T) \in T /\ \A x \in T : Min(T) <= x
<1>1. PICK n \in T : \A x \in T : n <= x
  BY Least
<1> QED
  BY <1>1 DEF Min

\* The key of a unit: the worst of its members in each respect.
LEMMA KeyOfUnit ==
  ASSUME NEW s \in Seq(AnyMeta)
  PROVE  LET key == superNodeKey(DOMAIN s, s)
         IN  /\ key \in AnyMeta
             /\ key.rank = 4 \/ \E j \in DOMAIN s : s[j].rank = key.rank
             /\ key.complexity = 0 \/ \E j \in DOMAIN s : s[j].complexity = key.complexity
             /\ key.blast = 0 \/ \E j \in DOMAIN s : s[j].blast = key.blast
             /\ \A j \in DOMAIN s :
                  key.rank <= s[j].rank /\ key.complexity >= s[j].complexity /\ key.blast >= s[j].blast
<1> DEFINE ranks == {4} \cup {s[j].rank : j \in DOMAIN s}
           complexities == {0} \cup {s[j].complexity : j \in DOMAIN s}
           blasts == {0} \cup {s[j].blast : j \in DOMAIN s}
<1>1. \A j \in DOMAIN s : s[j].rank \in 0..4 /\ s[j].complexity \in Nat /\ s[j].blast \in Nat
  <2>1. \A j \in DOMAIN s : s[j] \in AnyMeta
    OBVIOUS
  <2> QED
    BY <2>1 DEF AnyMeta
<1>2. DOMAIN s = 1..Len(s) /\ Len(s) \in Nat
  OBVIOUS
<1>3. IsFiniteSet(DOMAIN s)
  BY <1>2, FS_Interval
<1>4. IsFiniteSet(complexities)
  <2>1. [j \in DOMAIN s |-> s[j].complexity] \in Surjection(DOMAIN s, {s[j].complexity : j \in DOMAIN s})
    BY DEF Surjection
  <2>2. IsFiniteSet({s[j].complexity : j \in DOMAIN s})
    BY <1>3, <2>1, FS_Surjection
  <2> QED
    BY <2>2, FS_Singleton, FS_Union
<1>5. IsFiniteSet(blasts)
  <2>1. [j \in DOMAIN s |-> s[j].blast] \in Surjection(DOMAIN s, {s[j].blast : j \in DOMAIN s})
    BY DEF Surjection
  <2>2. IsFiniteSet({s[j].blast : j \in DOMAIN s})
    BY <1>3, <2>1, FS_Surjection
  <2> QED
    BY <2>2, FS_Singleton, FS_Union
<1>6. ranks \subseteq 0..4 /\ complexities \subseteq Nat /\ blasts \subseteq Nat
  BY <1>1
<1>7. Min(ranks) \in ranks /\ \A x \in ranks : Min(ranks) <= x
  <2>1. ranks \subseteq Nat /\ ranks # {}
    BY <1>6
  <2> HIDE DEF ranks
  <2> QED
    BY <2>1, LeastIsMin
<1>8. Max(complexities) \in complexities /\ \A x \in complexities : x <= Max(complexities)
  <2>1. complexities # {}
    OBVIOUS
  <2> HIDE DEF complexities
  <2> QED
    BY <1>4, <1>6, <2>1, Greatest
<1>9. Max(blasts) \in blasts /\ \A x \in blasts : x <= Max(blasts)
  <2>1. blasts # {}
    OBVIOUS
  <2> HIDE DEF blasts
  <2> QED
    BY <1>5, <1>6, <2>1, Greatest
<1> DEFINE key == superNodeKey(DOMAIN s, s)
<1>10. key = [rank |-> Min(ranks), complexity |-> Max(complexities), blast |-> Max(blasts)]
  BY DEF superNodeKey
<1>11. /\ key.rank = Min(ranks) /\ key.complexity = Max(complexities) /\ key.blast = Max(blasts)
       /\ key \in AnyMeta
  <2> HIDE DEF key
  <2> QED
    BY <1>6, <1>7, <1>8, <1>9, <1>10 DEF AnyMeta
<1>12. key.rank = 4 \/ \E j \in DOMAIN s : s[j].rank = key.rank
  BY <1>7, <1>11
<1>13. key.complexity = 0 \/ \E j \in DOMAIN s : s[j].complexity = key.complexity
  BY <1>8, <1>11
<1>14. key.blast = 0 \/ \E j \in DOMAIN s : s[j].blast = key.blast
  BY <1>9, <1>11
<1>15. ASSUME NEW j \in DOMAIN s
       PROVE  key.rank <= s[j].rank /\ key.complexity >= s[j].complexity /\ key.blast >= s[j].blast
  <2>1. s[j].rank \in ranks /\ s[j].complexity \in complexities /\ s[j].blast \in blasts
    OBVIOUS
  <2>2. Min(ranks) <= s[j].rank /\ s[j].complexity <= Max(complexities) /\ s[j].blast <= Max(blasts)
    BY <1>7, <1>8, <1>9, <2>1
  <2>3. Max(complexities) \in Nat /\ Max(blasts) \in Nat
    BY <1>6, <1>8, <1>9
  <2> HIDE DEF key, ranks, complexities, blasts
  <2> QED
    BY <1>1, <1>11, <2>2, <2>3
<1> HIDE DEF key
<1> QED
  BY <1>11, <1>12, <1>13, <1>14, <1>15 DEF key

\* A worse member leaves its unit no better in any respect.
LEMMA WorseMember ==
  ASSUME NEW s \in Seq(AnyMeta), NEW i \in DOMAIN s, NEW m \in AnyMeta,
         m.rank <= s[i].rank, m.complexity >= s[i].complexity, m.blast >= s[i].blast
  PROVE  LET t == [s EXCEPT ![i] = m]
             old == superNodeKey(DOMAIN s, s)
             new == superNodeKey(DOMAIN t, t)
         IN  /\ old \in AnyMeta /\ new \in AnyMeta
             /\ new.rank <= old.rank /\ new.complexity >= old.complexity /\ new.blast >= old.blast
<1> DEFINE t == [s EXCEPT ![i] = m]
           old == superNodeKey(DOMAIN s, s)
           new == superNodeKey(DOMAIN t, t)
<1>1. t \in Seq(AnyMeta) /\ DOMAIN t = DOMAIN s
  OBVIOUS
<1>2. /\ old \in AnyMeta
      /\ old.rank = 4 \/ \E j \in DOMAIN s : s[j].rank = old.rank
      /\ old.complexity = 0 \/ \E j \in DOMAIN s : s[j].complexity = old.complexity
      /\ old.blast = 0 \/ \E j \in DOMAIN s : s[j].blast = old.blast
  BY KeyOfUnit
<1>3. /\ new \in AnyMeta
      /\ \A j \in DOMAIN s :
           new.rank <= t[j].rank /\ new.complexity >= t[j].complexity /\ new.blast >= t[j].blast
  <2> HIDE DEF t
  <2> QED
    BY <1>1, KeyOfUnit
<1>4. \A j \in DOMAIN s :
        /\ t[j].rank <= s[j].rank /\ t[j].complexity >= s[j].complexity /\ t[j].blast >= s[j].blast
        /\ t[j] \in AnyMeta /\ s[j] \in AnyMeta
  <2>1. \A j \in DOMAIN s : s[j] \in AnyMeta /\ t[j] = IF j = i THEN m ELSE s[j]
    OBVIOUS
  <2>2. \A n \in AnyMeta : n.rank <= n.rank /\ n.complexity >= n.complexity /\ n.blast >= n.blast
    BY DEF AnyMeta
  <2> HIDE DEF t
  <2> QED
    BY <2>1, <2>2
<1> HIDE DEF t, old, new
<1>5. ASSUME NEW j \in DOMAIN s
      PROVE  new.rank <= s[j].rank /\ new.complexity >= s[j].complexity /\ new.blast >= s[j].blast
  <2>1. new.rank \in 0..4 /\ new.complexity \in Nat /\ new.blast \in Nat
    BY <1>3 DEF AnyMeta
  <2>2. t[j].rank \in 0..4 /\ t[j].complexity \in Nat /\ t[j].blast \in Nat
    BY <1>4 DEF AnyMeta
  <2>3. s[j].rank \in 0..4 /\ s[j].complexity \in Nat /\ s[j].blast \in Nat
    BY <1>4 DEF AnyMeta
  <2>4. new.rank <= t[j].rank /\ new.complexity >= t[j].complexity /\ new.blast >= t[j].blast
    BY <1>3
  <2>5. t[j].rank <= s[j].rank /\ t[j].complexity >= s[j].complexity /\ t[j].blast >= s[j].blast
    BY <1>4
  <2> DEFINE nr == new.rank  tr == t[j].rank  sr == s[j].rank
             nc == new.complexity  tc == t[j].complexity  sc == s[j].complexity
             nb == new.blast  tb == t[j].blast  sb == s[j].blast
  <2>6. nr \in Int /\ tr \in Int /\ sr \in Int /\ nr <= tr /\ tr <= sr
    BY <2>1, <2>2, <2>3, <2>4, <2>5
  <2>7. nc \in Int /\ tc \in Int /\ sc \in Int /\ nc >= tc /\ tc >= sc
    BY <2>1, <2>2, <2>3, <2>4, <2>5
  <2>8. nb \in Int /\ tb \in Int /\ sb \in Int /\ nb >= tb /\ tb >= sb
    BY <2>1, <2>2, <2>3, <2>4, <2>5
  <2> HIDE DEF nr, tr, sr, nc, tc, sc, nb, tb, sb
  <2>9. nr <= sr /\ nc >= sc /\ nb >= sb
    BY <2>6, <2>7, <2>8
  <2> QED
    BY <2>9 DEF nr, sr, nc, sc, nb, sb
<1>6. new.rank <= old.rank /\ new.complexity >= old.complexity /\ new.blast >= old.blast
  <2>1. new.rank \in 0..4 /\ new.complexity \in Nat /\ new.blast \in Nat
    BY <1>3 DEF AnyMeta
  <2> QED
    BY <1>2, <1>5, <2>1
<1> QED
  BY <1>2, <1>3, <1>6 DEF t, old, new

\* Who is ahead with one key is ahead with a worse one.
LEMMA WorseStaysAhead ==
  ASSUME NEW a \in Int, NEW b \in Int, NEW before, NEW after,
         NEW x \in AnyMeta, NEW y \in AnyMeta, NEW z \in AnyMeta,
         before[a] = x, before[b] = z, after[a] = y, after[b] = z,
         y.rank <= x.rank, y.complexity >= x.complexity, y.blast >= x.blast,
         worseThan(a, b, before)
  PROVE  worseThan(a, b, after)
<1> DEFINE ahead(m) ==
             \/ m.rank < z.rank
             \/ /\ m.rank = z.rank
                /\ \/ m.complexity > z.complexity
                   \/ /\ m.complexity = z.complexity
                      /\ m.blast > z.blast \/ (m.blast = z.blast /\ a < b)
<1>1. /\ x.rank \in Int /\ x.complexity \in Int /\ x.blast \in Int
      /\ y.rank \in Int /\ y.complexity \in Int /\ y.blast \in Int
      /\ z.rank \in Int /\ z.complexity \in Int /\ z.blast \in Int
  BY DEF AnyMeta
<1>2. ahead(x)
  BY DEF worseThan
<1>3. ahead(y)
  BY <1>1, <1>2
<1> QED
  BY <1>3 DEF worseThan

LEMMA RiskHolds ==
  ASSUME kind = "risk", input \in AnyRisk, out = Chosen("risk", input)
  PROVE  DebtNeverHelps
<1> DEFINE s == input.unit
           i == input.at
           t == [s EXCEPT ![i] = input.worse]
           a == input.names[1]
           b == input.names[2]
           mine(unit) == superNodeKey(DOMAIN unit, unit)
           theirs == superNodeKey(DOMAIN input.other, input.other)
           keys(unit) == [n \in At(input.names) |-> IF n = a THEN mine(unit) ELSE theirs]
<1>1. /\ s \in Seq(AnyMeta) /\ i \in DOMAIN s /\ input.worse \in AnyMeta /\ input.other \in Seq(AnyMeta)
      /\ a \in Int /\ b \in Int /\ a # b /\ a \in At(input.names) /\ b \in At(input.names)
  BY DEF AnyRisk, At
<1>2. out.before = worseThan(a, b, keys(s)) /\ out.after = worseThan(a, b, keys(t))
  BY DEF Chosen, Ahead
<1>3. theirs \in AnyMeta
  BY <1>1, KeyOfUnit
<1>4. ASSUME NEW unit PROVE keys(unit)[a] = mine(unit) /\ keys(unit)[b] = theirs
  BY <1>1
<1>5. ASSUME input.worse.rank <= s[i].rank, input.worse.complexity >= s[i].complexity, input.worse.blast >= s[i].blast,
             worseThan(a, b, keys(s))
      PROVE  worseThan(a, b, keys(t))
  <2>1. /\ mine(s) \in AnyMeta /\ mine(t) \in AnyMeta
        /\ mine(t).rank <= mine(s).rank /\ mine(t).complexity >= mine(s).complexity /\ mine(t).blast >= mine(s).blast
    BY <1>1, <1>5, WorseMember
  <2>2. keys(s)[a] = mine(s) /\ keys(s)[b] = theirs /\ keys(t)[a] = mine(t) /\ keys(t)[b] = theirs
    BY <1>4
  <2> HIDE DEF s, t, mine, theirs, keys
  <2> QED
    BY <1>1, <1>3, <1>5, <2>1, <2>2, WorseStaysAhead
<1> QED
  BY <1>2, <1>5 DEF DebtNeverHelps

(***************************************************************************)
(* A batch holds the worst of what is ready, and nothing in it disturbs    *)
(* anything else in it (nextFrontier), and more debt never moves a unit    *)
(* back (superNodeKeys, riskComparator): for every ready set, order, graph *)
(* and team, and for units of any size.                                    *)
(***************************************************************************)
THEOREM BatchIsAlwaysSound == BatchSpec => []BatchIsSound
<1> DEFINE Inv == /\ kind \in {"batch", "risk"} /\ input \in AnyInput[kind]
                  /\ out = Pending \/ out = Chosen(kind, input)
<1>1. out = Pending /\ kind \in DOMAIN AnyInput /\ input \in AnyInput[kind] => Inv
  BY DEF AnyInput
<1>2. Inv /\ [Choose]_inputVars => Inv'
  BY DEF Choose, inputVars
<1>3. Inv => BatchIsSound
  <2> SUFFICES ASSUME Inv PROVE BatchIsSound
    OBVIOUS
  <2>1. CASE out = Pending
    BY <2>1 DEF BatchIsSound, BatchIsSafe, WorstFirst, DebtNeverHelps, Judged, Pending
  <2>2. CASE out = Chosen(kind, input) /\ kind = "batch"
    BY <2>2, BatchHolds DEF BatchIsSound, DebtNeverHelps, Judged, AnyInput
  <2>3. CASE out = Chosen(kind, input) /\ kind = "risk"
    BY <2>3, RiskHolds DEF BatchIsSound, BatchIsSafe, WorstFirst, Judged, AnyInput
  <2> QED
    BY <2>1, <2>2, <2>3
<1> QED
  BY <1>1, <1>2, <1>3, PTL DEF BatchSpec

-------------------------------------------------------------------------------
\* The inductive invariant of the driven run: that of the reducer, and what is
\* on the books of each node's present attempt.

SyntaxInv(n) ==
  /\ syntaxAttempts[n] <= MaxPhaseRetryCycles
  /\ syntaxAttempts[n] = MaxPhaseRetryCycles => status[n] \in {"BLOCK", "PARK"}

ProvisionalInv(n) == verdictProvisional[n] # "none" =>
  /\ status[n] \in {"PROVISIONAL_GATED", "REBUILT_HANDOFF", "BLOCK", "PARK",
                    "NEEDS_MANUAL_SEAM"}
  /\ lastVerdict[n].artifact = generation[n]
  /\ verdictGreen[n] = "none"

DriveInv == IInv /\ \A n \in Node : SyntaxInv(n) /\ ProvisionalInv(n)

\* That of the lane: the statuses it knows, and how the session's memory, the
\* artifacts and the retries of a node agree.
LaneStatuses ==
  {"PENDING", "GROUNDED", "GENERATED", "SYNTAX_OK", "PROVISIONAL_GATED", "BLOCK",
   "RETIRED", "REBUILT_HANDOFF"}

LaneNodeInv(n) ==
  /\ status[n] \in LaneStatuses
  /\ status[n] = "GROUNDED" => Disposition[n] = "retire"
  /\ status[n] \in {"PENDING", "GROUNDED"} => generation[n] = 0
  /\ generation[n] <= cycle[n] + 1
  /\ status[n] = "GENERATED" => n \in inHand \cup lost

\* What the session has in hand has not moved, and could enter if it has not
\* yet: all that a report needs but the ratification.
InHandInv(n) ==
  /\ status[n] \in {"PENDING", "GENERATED"} /\ Buildable(n)
  /\ status[n] = "PENDING" => indegree[n] = 0 /\ parkRegister[n] = <<>> /\ n \notin Sealed

LaneAt(n) == LaneNodeInv(n) /\ (n \in inHand => InHandInv(n))

LaneInv ==
  /\ DriveInv
  /\ inHand \subseteq Node /\ lost \subseteq Node
  /\ \A n \in Node : LaneAt(n)

-------------------------------------------------------------------------------
\* The reports keep what the verbs keep.

\* A failed attempt counted is counted of its own node only.
LEMMA CountFailureIsLocal ==
  ASSUME TypeOK, NEW n \in Node, CountFailure(n), NEW m \in Node, m # n
  PROVE  /\ syntaxAttempts'[m] = syntaxAttempts[m]
         /\ generation'[m] = generation[m]
         /\ verdictGreen'[m] = verdictGreen[m]
         /\ verdictProvisional'[m] = verdictProvisional[m]
         /\ UNCHANGED lastVerdict
<1>1. CASE Ungenerated(n)
  <2>1. NewArtifact(n, syntaxAttempts[n] + 1) /\ UNCHANGED lastVerdict
    BY <1>1 DEF CountFailure
  <2>2. syntaxAttempts'[m] = syntaxAttempts[m] /\ generation'[m] = generation[m]
    BY <2>1 DEF NewArtifact, TypeOK
  <2>3. verdictGreen'[m] = verdictGreen[m] /\ verdictProvisional'[m] = verdictProvisional[m]
    BY <2>1 DEF NewArtifact, VoidVerdicts, TypeOK
  <2> QED
    BY <2>1, <2>2, <2>3
<1>2. CASE ~ Ungenerated(n)
  BY <1>2 DEF CountFailure, TypeOK
<1> QED
  BY <1>1, <1>2

\* A report changes the books of its own node only.
LEMMA ReportIsLocal ==
  ASSUME TypeOK, NEW n \in Node, Report(n), NEW m \in Node, m # n
  PROVE  /\ status'[m] = status[m]
         /\ cycle'[m] = cycle[m]
         /\ syntaxAttempts'[m] = syntaxAttempts[m]
         /\ generation'[m] = generation[m]
         /\ verdictGreen'[m] = verdictGreen[m]
         /\ verdictProvisional'[m] = verdictProvisional[m]
         /\ lastVerdict'[m] = lastVerdict[m]
         /\ deferralTrack'[m] = deferralTrack[m]
<1> USE DEF TypeOK, artifactVars, registerVars
<1>1. CASE ReportSyntaxOk(n)
  BY <1>1 DEF ReportSyntaxOk, NewArtifact, VoidVerdicts
<1>2. CASE ReportSyntaxFail(n)
  BY <1>2, CountFailureIsLocal DEF ReportSyntaxFail
<1>3. CASE ReportSyntaxCeiling(n)
  <2>1. /\ syntaxAttempts'[m] = syntaxAttempts[m]
        /\ generation'[m] = generation[m]
        /\ verdictGreen'[m] = verdictGreen[m]
        /\ verdictProvisional'[m] = verdictProvisional[m]
        /\ UNCHANGED lastVerdict
    BY <1>3, CountFailureIsLocal DEF ReportSyntaxCeiling
  <2> QED
    BY <1>3, <2>1 DEF ReportSyntaxCeiling, SetStatus
<1>4. ASSUME NEW passed \in BOOLEAN, ReportOfflineVerdict(n, passed)
      PROVE  /\ status'[m] = status[m]
             /\ verdictProvisional'[m] = verdictProvisional[m]
             /\ lastVerdict'[m] = lastVerdict[m]
             /\ UNCHANGED <<cycle, generation, syntaxAttempts, verdictGreen, registerVars>>
  BY <1>4 DEF ReportOfflineVerdict, Judge
<1>5. CASE ReportOfflineDefect(n)
  BY <1>5 DEF ReportOfflineDefect, Judge, NewArtifact, VoidVerdicts
<1>6. CASE ReportOfflineCeiling(n)
  BY <1>6 DEF ReportOfflineCeiling, Judge
<1> QED
  BY <1>1, <1>2, <1>3, <1>4, <1>5, <1>6 DEF Report, CeilingReport, OtherReport

\* And leaves alone what no report is about.
LEMMA ReportLeaves ==
  ASSUME NEW n \in Node, Report(n)
  PROVE  UNCHANGED <<indegree, parkRegister, dispositionRegister, archRatified>>
<1> USE DEF artifactVars, registerVars
<1>1. ASSUME NEW passed \in BOOLEAN, ReportOfflineVerdict(n, passed)
      PROVE  UNCHANGED <<indegree, parkRegister, dispositionRegister, archRatified>>
  BY <1>1 DEF ReportOfflineVerdict
<1> QED
  BY <1>1 DEF Report, CeilingReport, OtherReport, ReportSyntaxOk, ReportSyntaxFail, ReportSyntaxCeiling,
              ReportOfflineDefect, ReportOfflineCeiling

\* A failed attempt counted keeps the types.
LEMMA CountFailureType ==
  ASSUME TypeOK, NEW n \in Node, CountFailure(n)
  PROVE  /\ generation' \in [Node -> 0..MaxGeneration]
         /\ syntaxAttempts' \in [Node -> Nat]
         /\ verdictGreen' \in [Node -> Verdicts]
         /\ verdictProvisional' \in [Node -> Verdicts]
         /\ UNCHANGED lastVerdict
<1>1. syntaxAttempts[n] + 1 \in Nat
  BY DEF TypeOK
<1>2. CASE Ungenerated(n)
  BY <1>1, <1>2, NewArtifactType DEF CountFailure
<1>3. CASE ~ Ungenerated(n)
  BY <1>1, <1>3 DEF CountFailure, TypeOK
<1> QED
  BY <1>2, <1>3

\* A report keeps the types.
LEMMA ReportType ==
  ASSUME TypeOK, NEW n \in Node, Report(n)
  PROVE  TypeOK'
<1> USE DEF registerVars, artifactVars
<1>1. CASE ReportSyntaxOk(n)
  <2>1. status' \in [Node -> Statuses] /\ UNCHANGED <<indegree, cycle, registerVars, archRatified>>
    BY <1>1 DEF ReportSyntaxOk, TypeOK, Statuses, ActiveStates
  <2>2. CASE Ungenerated(n)
    BY <1>1, <2>1, <2>2, NewArtifactType DEF ReportSyntaxOk, TypeOK
  <2>3. CASE ~ Ungenerated(n)
    BY <1>1, <2>1, <2>3 DEF ReportSyntaxOk, TypeOK
  <2> QED
    BY <2>2, <2>3
<1>2. CASE ReportSyntaxFail(n)
  BY <1>2, CountFailureType DEF ReportSyntaxFail, TypeOK, Statuses, ActiveStates
<1>3. CASE ReportSyntaxCeiling(n)
  <2>1. deferralTrack' \in [Node -> Seq(BlockReasons)]
    BY <1>3, AddRow DEF ReportSyntaxCeiling, TypeOK, BlockReasons
  <2>2. status' \in [Node -> Statuses] /\ cycle' \in [Node -> 0..MaxPhaseRetryCycles]
    BY <1>3, SetStatusType DEF ReportSyntaxCeiling, Statuses, TerminalOutcomes
  <2> QED
    BY <1>3, <2>1, <2>2, CountFailureType DEF ReportSyntaxCeiling, TypeOK
<1>4. ASSUME NEW passed \in BOOLEAN, ReportOfflineVerdict(n, passed) PROVE TypeOK'
  BY <1>4, JudgeType DEF ReportOfflineVerdict, TypeOK, Verdict, Verdicts, Statuses, ActiveStates
<1>5. CASE ReportOfflineDefect(n)
  <2>1. /\ status' \in [Node -> Statuses]
        /\ cycle' \in [Node -> 0..MaxPhaseRetryCycles]
    BY <1>5, MaxPhaseRetryCyclesAssumption
       DEF ReportOfflineDefect, TypeOK, Statuses, ActiveStates
  <2>2. lastVerdict' \in [Node -> [artifact : 0..MaxGeneration, said : Verdicts]]
    BY <1>5, JudgeType DEF ReportOfflineDefect, Verdicts
  <2> QED
    BY <1>5, <2>1, <2>2, NewArtifactType DEF ReportOfflineDefect, TypeOK
<1>6. CASE ReportOfflineCeiling(n)
  <2>1. deferralTrack' \in [Node -> Seq(BlockReasons)]
    BY <1>6, AddRow DEF ReportOfflineCeiling, TypeOK, BlockReasons
  <2> QED
    BY <1>6, <2>1, JudgeType
       DEF ReportOfflineCeiling, TypeOK, Verdicts, Statuses, TerminalOutcomes
<1> QED
  BY <1>1, <1>2, <1>3, <1>4, <1>5, <1>6 DEF Report, CeilingReport, OtherReport

\* What is true of the books of one node.
BooksInv(n) ==
  VerdictInv(n) /\ RegisterInv(n) /\ UnbuiltInv(n) /\ SyntaxInv(n) /\ ProvisionalInv(n)

\* What a report on a node does, as the other nodes and the contract see it.
Reported(n) ==
  \/ status'[n] = status[n]
  \/ /\ status[n] \in {"PENDING", "GROUNDED", "GENERATED", "SYNTAX_OK", "PROVISIONAL_GATED"}
     /\ status'[n] \in {"GENERATED", "SYNTAX_OK", "PROVISIONAL_GATED"}
     /\ status[n] = "PENDING" => indegree[n] = 0
  \/ status[n] \in ActiveStates /\ status'[n] = "BLOCK"

\* A new artifact, of a node that may be generated.
LEMMA NewArtifactHas ==
  ASSUME TypeOK, NEW n \in Node, NEW attempts, NewArtifact(n, attempts)
  PROVE  /\ generation'[n] > 0
         /\ verdictGreen'[n] = "none" /\ verdictProvisional'[n] = "none"
         /\ syntaxAttempts'[n] = attempts
BY DEF TypeOK, NewArtifact, VoidVerdicts

\* What is generated is a node to be built.
LEMMA GeneratesBuildable ==
  ASSUME NEW n \in Node, UnbuiltInv(n), MayGenerate(n), Ungenerated(n)
  PROVE  Buildable(n) /\ n \notin Sealed
BY DEF UnbuiltInv, MayGenerate, MayDispatch, Ungenerated, Buildable, NonBuildDispositions

\* A self-check passed.
LEMMA SyntaxOkReported ==
  ASSUME TypeOK, NEW n \in Node, BooksInv(n), ReportSyntaxOk(n)
  PROVE  BooksInv(n)' /\ Reported(n)
<1> USE DEF BooksInv, registerVars, artifactVars
<1>1. /\ status[n] \in {"PENDING", "GROUNDED", "GENERATED"} /\ status'[n] = "SYNTAX_OK"
      /\ UNCHANGED registerVars /\ Buildable(n)
      /\ status[n] = "PENDING" => indegree[n] = 0
  BY DEF ReportSyntaxOk, Ungenerated, MayGenerate, MayDispatch, TypeOK
<1>2. /\ generation'[n] > 0 /\ verdictGreen'[n] = "none" /\ verdictProvisional'[n] = "none"
      /\ syntaxAttempts'[n] < MaxPhaseRetryCycles
  <2>1. CASE Ungenerated(n)
    BY <2>1, NewArtifactHas, MaxPhaseRetryCyclesAssumption DEF ReportSyntaxOk
  <2>2. CASE status[n] = "GENERATED"
    BY <2>2, MaxPhaseRetryCyclesAssumption
       DEF ReportSyntaxOk, Ungenerated, VerdictInv, BuiltStates, JudgedStates, SyntaxInv,
           ProvisionalInv, TypeOK
  <2> QED
    BY <1>1, <2>1, <2>2 DEF Ungenerated
<1>3. n \notin Sealed
  BY <1>1, GeneratesBuildable DEF ReportSyntaxOk, Ungenerated, UnbuiltInv
<1>4. VerdictInv(n)' /\ ProvisionalInv(n)' /\ SyntaxInv(n)'
  <2>1. VerdictInv(n)' /\ ProvisionalInv(n)'
    BY <1>1, <1>2 DEF VerdictInv, ProvisionalInv
  <2>2. syntaxAttempts'[n] \in Nat
    BY ReportType DEF Report, CeilingReport, OtherReport, TypeOK
  <2> QED
    BY <1>2, <2>1, <2>2, MaxPhaseRetryCyclesAssumption DEF SyntaxInv
<1>5. RegisterInv(n)'
  BY <1>1 DEF RegisterInv, DispositionTerminals
<1>6. UnbuiltInv(n)'
  BY <1>1, <1>3 DEF UnbuiltInv, Buildable
<1> QED
  BY <1>1, <1>4, <1>5, <1>6 DEF Reported

\* A self-check failed, below the ceiling.
LEMMA SyntaxFailReported ==
  ASSUME TypeOK, NEW n \in Node, BooksInv(n), ReportSyntaxFail(n)
  PROVE  BooksInv(n)' /\ Reported(n)
<1> USE DEF BooksInv, registerVars
<1>0. syntaxAttempts'[n] \in Nat
  BY ReportType DEF Report, CeilingReport, OtherReport, TypeOK
<1>1. CASE Ungenerated(n)
  <2>1. /\ status[n] \in {"PENDING", "GROUNDED"} /\ status'[n] = "GENERATED"
        /\ UNCHANGED registerVars /\ Buildable(n) /\ n \notin Sealed
        /\ status[n] = "PENDING" => indegree[n] = 0
    BY <1>1, GeneratesBuildable DEF ReportSyntaxFail, Ungenerated, MayGenerate, MayDispatch, TypeOK
  <2>2. /\ generation'[n] > 0 /\ verdictGreen'[n] = "none" /\ verdictProvisional'[n] = "none"
        /\ syntaxAttempts'[n] < MaxPhaseRetryCycles
    BY <1>1, NewArtifactHas DEF ReportSyntaxFail, CountFailure
  <2>3. VerdictInv(n)' /\ ProvisionalInv(n)' /\ SyntaxInv(n)'
    <3>1. VerdictInv(n)' /\ ProvisionalInv(n)'
      BY <2>1, <2>2 DEF VerdictInv, ProvisionalInv
    <3> QED
      BY <1>0, <2>2, <3>1, MaxPhaseRetryCyclesAssumption DEF SyntaxInv
  <2>4. RegisterInv(n)'
    BY <2>1 DEF RegisterInv, DispositionTerminals
  <2>5. UnbuiltInv(n)'
    BY <2>1 DEF UnbuiltInv, Buildable
  <2> QED
    BY <2>1, <2>3, <2>4, <2>5 DEF Reported
<1>2. CASE ~ Ungenerated(n)
  <2>1. /\ UNCHANGED <<generation, verdictGreen, verdictProvisional, lastVerdict, registerVars>>
        /\ status'[n] = status[n] /\ syntaxAttempts'[n] < MaxPhaseRetryCycles
    BY <1>2 DEF ReportSyntaxFail, CountFailure, TypeOK
  <2>2. VerdictInv(n)' /\ ProvisionalInv(n)' /\ SyntaxInv(n)'
    <3>1. VerdictInv(n)' /\ ProvisionalInv(n)'
      BY <2>1 DEF VerdictInv, ProvisionalInv
    <3> QED
      BY <1>0, <2>1, <3>1, MaxPhaseRetryCyclesAssumption DEF SyntaxInv
  <2>3. RegisterInv(n)'
    BY <2>1 DEF RegisterInv
  <2>4. UnbuiltInv(n)'
    BY <2>1 DEF UnbuiltInv, Buildable
  <2> QED
    BY <2>1, <2>2, <2>3, <2>4 DEF Reported
<1> QED
  BY <1>1, <1>2

\* A self-check failed, at the ceiling.
LEMMA SyntaxCeilingReported ==
  ASSUME TypeOK, NEW n \in Node, BooksInv(n), ReportSyntaxCeiling(n)
  PROVE  BooksInv(n)' /\ Reported(n)
<1> USE DEF BooksInv, registerVars
<1>1. /\ status[n] \in ActiveStates /\ status'[n] = "BLOCK"
      /\ deferralTrack'[n] = Append(deferralTrack[n], Defect)
      /\ UNCHANGED <<parkRegister, dispositionRegister>>
  BY Moves DEF ReportSyntaxCeiling, SetStatus, TypeOK
<1>2. syntaxAttempts[n] < MaxPhaseRetryCycles
  BY <1>1, MaxPhaseRetryCyclesAssumption DEF SyntaxInv, ActiveStates, TypeOK
<1>3. /\ syntaxAttempts'[n] <= MaxPhaseRetryCycles
      /\ \/ /\ verdictGreen'[n] = "none" /\ verdictProvisional'[n] = "none"
            /\ Buildable(n) /\ n \notin Sealed
         \/ UNCHANGED <<generation, verdictGreen, verdictProvisional, lastVerdict>>
  <2>1. CASE Ungenerated(n)
    BY <1>2, <2>1, NewArtifactHas, GeneratesBuildable, MaxPhaseRetryCyclesAssumption
       DEF ReportSyntaxCeiling, CountFailure, TypeOK
  <2>2. CASE ~ Ungenerated(n)
    BY <1>2, <2>2, MaxPhaseRetryCyclesAssumption DEF ReportSyntaxCeiling, CountFailure, TypeOK
  <2> QED
    BY <2>1, <2>2
<1>4. VerdictInv(n)' /\ ProvisionalInv(n)' /\ SyntaxInv(n)'
  BY <1>1, <1>3 DEF VerdictInv, ProvisionalInv, SyntaxInv, JudgedStates, BuiltStates
<1>5. RegisterInv(n)'
  <2>1. deferralTrack[n] = <<>> /\ parkRegister[n] = <<>> /\ dispositionRegister[n] = <<>>
    BY <1>1 DEF RegisterInv, ActiveStates, DispositionTerminals
  <2> QED
    BY <1>1, <2>1, FirstRow DEF RegisterInv, DispositionTerminals
<1>6. UnbuiltInv(n)'
  BY <1>1, <1>3 DEF UnbuiltInv, Buildable
<1> QED
  BY <1>1, <1>4, <1>5, <1>6 DEF Reported

\* At the offline checkpoint.
LEMMA OfflineReported ==
  ASSUME TypeOK, NEW n \in Node, BooksInv(n),
         \/ \E passed \in BOOLEAN : ReportOfflineVerdict(n, passed)
         \/ ReportOfflineDefect(n) \/ ReportOfflineCeiling(n)
  PROVE  BooksInv(n)' /\ Reported(n)
<1> USE DEF BooksInv, registerVars
<1>1. status[n] \in {"SYNTAX_OK", "PROVISIONAL_GATED"}
  BY DEF ReportOfflineVerdict, ReportOfflineDefect, ReportOfflineCeiling, AtOfflineCheckpoint
<1>2. /\ verdictGreen[n] = "none" /\ generation[n] > 0
      /\ n \notin Sealed /\ Buildable(n)
      /\ deferralTrack[n] = <<>> /\ parkRegister[n] = <<>> /\ dispositionRegister[n] = <<>>
      /\ syntaxAttempts[n] < MaxPhaseRetryCycles
  BY <1>1, MaxPhaseRetryCyclesAssumption
     DEF VerdictInv, JudgedStates, BuiltStates, UnbuiltInv, RegisterInv, DispositionTerminals,
         SyntaxInv, TypeOK
<1>3. ASSUME NEW passed \in BOOLEAN, ReportOfflineVerdict(n, passed)
      PROVE  BooksInv(n)' /\ Reported(n)
  <2>1. /\ status'[n] = "PROVISIONAL_GATED" /\ lastVerdict'[n].artifact = generation'[n]
        /\ UNCHANGED <<generation, syntaxAttempts, verdictGreen, registerVars>>
    BY <1>3 DEF ReportOfflineVerdict, Judge, TypeOK
  <2>2. VerdictInv(n)' /\ ProvisionalInv(n)' /\ SyntaxInv(n)'
    BY <1>2, <2>1, MaxPhaseRetryCyclesAssumption DEF VerdictInv, ProvisionalInv, SyntaxInv, TypeOK
  <2>3. RegisterInv(n)' /\ UnbuiltInv(n)'
    BY <1>2, <2>1 DEF RegisterInv, UnbuiltInv, Buildable, DispositionTerminals
  <2> QED
    BY <1>1, <2>1, <2>2, <2>3 DEF Reported
<1>4. ASSUME ReportOfflineDefect(n) PROVE BooksInv(n)' /\ Reported(n)
  <2>1. /\ status'[n] = "GENERATED" /\ UNCHANGED registerVars
        /\ generation'[n] > 0 /\ verdictGreen'[n] = "none" /\ verdictProvisional'[n] = "none"
        /\ syntaxAttempts'[n] = 0
    BY <1>4, NewArtifactHas DEF ReportOfflineDefect, TypeOK
  <2>2. VerdictInv(n)' /\ ProvisionalInv(n)' /\ SyntaxInv(n)'
    BY <2>1, MaxPhaseRetryCyclesAssumption DEF VerdictInv, ProvisionalInv, SyntaxInv
  <2>3. RegisterInv(n)' /\ UnbuiltInv(n)'
    BY <1>2, <2>1 DEF RegisterInv, UnbuiltInv, Buildable, DispositionTerminals
  <2> QED
    BY <1>1, <2>1, <2>2, <2>3 DEF Reported
<1>5. ASSUME ReportOfflineCeiling(n) PROVE BooksInv(n)' /\ Reported(n)
  <2>1. /\ status'[n] = "BLOCK" /\ lastVerdict'[n].artifact = generation'[n]
        /\ deferralTrack'[n] = Append(deferralTrack[n], Defect)
        /\ UNCHANGED <<generation, syntaxAttempts, verdictGreen, parkRegister,
                       dispositionRegister>>
    BY <1>5 DEF ReportOfflineCeiling, Judge, TypeOK
  <2>2. VerdictInv(n)' /\ ProvisionalInv(n)' /\ SyntaxInv(n)'
    BY <1>2, <2>1 DEF VerdictInv, ProvisionalInv, SyntaxInv, BuiltStates, TypeOK
  <2>3. RegisterInv(n)' /\ UnbuiltInv(n)'
    BY <1>2, <2>1, FirstRow DEF RegisterInv, UnbuiltInv, Buildable, DispositionTerminals
  <2> QED
    BY <1>1, <2>1, <2>2, <2>3 DEF Reported, ActiveStates
<1> QED
  BY <1>3, <1>4, <1>5

\* Every report keeps the books of its node, and moves it as the others expect.
LEMMA ReportReported ==
  ASSUME TypeOK, NEW n \in Node, BooksInv(n), Report(n)
  PROVE  BooksInv(n)' /\ Reported(n)
BY SyntaxOkReported, SyntaxFailReported, SyntaxCeilingReported, OfflineReported
   DEF Report, CeilingReport, OtherReport

\* The books of the present attempt, under the verbs.
LEMMA SyntaxStep ==
  ASSUME TypeOK, NEW n \in Node, SyntaxInv(n), NodeStep(n)
  PROVE  SyntaxInv(n)'
<1> USE MaxPhaseRetryCyclesAssumption DEF TypeOK, SyntaxInv, artifactVars
<1>1. syntaxAttempts[n] \in Nat
  OBVIOUS
<1>2. ASSUME NEW to, NEW reason, SetStatus(n, to, reason), UNCHANGED syntaxAttempts,
             to \notin {"PENDING", "PARK"}
      PROVE  SyntaxInv(n)'
  <2>1. status[n] \notin {"BLOCK", "PARK"}
    BY <1>2 DEF SetStatus, CanTransition, ActiveStates, IsRetry, RetryStates, Forward
  <2> QED
    BY <1>1, <1>2, <2>1
<1>3. CASE Dispatch(n)
  BY <1>2, <1>3 DEF Dispatch
<1>4. ASSUME NEW to \in Statuses, Progress(n, to) PROVE SyntaxInv(n)'
  <2>1. CASE to = "GENERATED"
    BY <1>4, <2>1, NewArtifactHas DEF Progress
  <2>2. CASE to # "GENERATED"
    BY <1>2, <1>4, <2>2 DEF Progress, ActiveStates
  <2> QED
    BY <2>1, <2>2
<1>5. CASE ReEnter(n)
  BY <1>5 DEF ReEnter
<1>6. CASE Green(n)
  BY <1>2, <1>6 DEF Green
<1>7. ASSUME NEW reason \in BlockReasons, Block(n, reason) PROVE SyntaxInv(n)'
  BY <1>2, <1>7 DEF Block
<1>8. ASSUME NEW reason \in BlockReasons, Park(n, reason) PROVE SyntaxInv(n)'
  BY <1>8 DEF Park, SetStatus
<1>9. CASE Seam(n)
  BY <1>2, <1>9 DEF Seam
<1>10. ASSUME NEW terminal \in DispositionTerminals, ResolveUnbuilt(n, terminal)
       PROVE  SyntaxInv(n)'
  BY <1>2, <1>10 DEF ResolveUnbuilt, DispositionTerminals
<1>11. ASSUME NEW passed \in BOOLEAN,
              RecordVerdict(n, passed) \/ RecordProvisionalVerdict(n, passed)
       PROVE  SyntaxInv(n)'
  BY <1>11 DEF RecordVerdict, RecordProvisionalVerdict
<1>12. ASSUME NEW to \in BOOLEAN, SetArchRatified(n, to) PROVE SyntaxInv(n)'
  BY <1>12 DEF SetArchRatified
<1> QED
  BY <1>3, <1>4, <1>5, <1>6, <1>7, <1>8, <1>9, <1>10, <1>11, <1>12
     DEF NodeStep, Outcome, OtherVerb

\* The offline verdict is of the artifact the node has, and the only one.
LEMMA ProvisionalStep ==
  ASSUME TypeOK, NEW n \in Node, VerdictInv(n), ProvisionalInv(n), NodeStep(n)
  PROVE  ProvisionalInv(n)'
<1> USE DEF TypeOK, ProvisionalInv, artifactVars
<1>1. ASSUME NEW to, NEW reason, SetStatus(n, to, reason), UNCHANGED artifactVars,
             to \in {"GROUNDED", "GREEN", "BLOCK", "PARK", "NEEDS_MANUAL_SEAM", "RETIRED",
                    "REBUILT_HANDOFF"} \cup (BuiltStates \ {"GENERATED"})
      PROVE  ProvisionalInv(n)'
  <2>1. status'[n] = to
    BY <1>1 DEF SetStatus
  <2>2. to \in {"GROUNDED", "GREEN", "RETIRED"} \cup (BuiltStates \ {"GENERATED"})
          => status[n] \notin {"PROVISIONAL_GATED", "REBUILT_HANDOFF", "BLOCK", "PARK",
                              "NEEDS_MANUAL_SEAM"}
    BY <1>1, Moves DEF BuiltStates
  <2> QED
    BY <1>1, <2>1, <2>2
<1>2. CASE Dispatch(n)
  BY <1>1, <1>2 DEF Dispatch
<1>3. ASSUME NEW to \in Statuses, Progress(n, to) PROVE ProvisionalInv(n)'
  <2>1. CASE to = "GENERATED"
    BY <1>3, <2>1, NewArtifactHas DEF Progress
  <2>2. CASE to # "GENERATED"
    <3>1. to \in BuiltStates \ {"GENERATED"} /\ SetStatus(n, to, "none")
          /\ UNCHANGED artifactVars
      BY <1>3, <2>2 DEF Progress, ActiveStates, BuiltStates
    <3> QED
      BY <1>1, <3>1
  <2> QED
    BY <2>1, <2>2
<1>4. CASE ReEnter(n)
  BY <1>4 DEF ReEnter, VoidVerdicts
<1>5. CASE Green(n)
  BY <1>1, <1>5 DEF Green
<1>6. ASSUME NEW reason \in BlockReasons, Block(n, reason) PROVE ProvisionalInv(n)'
  BY <1>1, <1>6 DEF Block
<1>7. ASSUME NEW reason \in BlockReasons, Park(n, reason) PROVE ProvisionalInv(n)'
  BY <1>1, <1>7 DEF Park
<1>8. CASE Seam(n)
  BY <1>1, <1>8 DEF Seam
<1>9. ASSUME NEW terminal \in DispositionTerminals, ResolveUnbuilt(n, terminal)
      PROVE  ProvisionalInv(n)'
  BY <1>1, <1>9 DEF ResolveUnbuilt, DispositionTerminals
<1>10. ASSUME NEW passed \in BOOLEAN, RecordVerdict(n, passed) PROVE ProvisionalInv(n)'
  BY <1>10 DEF RecordVerdict
<1>11. ASSUME NEW passed \in BOOLEAN, RecordProvisionalVerdict(n, passed)
       PROVE  ProvisionalInv(n)'
  BY <1>11 DEF RecordProvisionalVerdict, Judge, VerdictInv, JudgedStates
<1>12. ASSUME NEW to \in BOOLEAN, SetArchRatified(n, to) PROVE ProvisionalInv(n)'
  BY <1>12 DEF SetArchRatified
<1> QED
  BY <1>2, <1>3, <1>4, <1>5, <1>6, <1>7, <1>8, <1>9, <1>10, <1>11, <1>12
     DEF NodeStep, Outcome, OtherVerb

\* A step of the driven run keeps the books of every node.
LEMMA BooksStep ==
  ASSUME TypeOK, \A m \in Node : BooksInv(m), NEW n \in Node, NodeStep(n) \/ Report(n)
  PROVE  \A m \in Node : BooksInv(m)'
<1>1. BooksInv(n)'
  <2>1. CASE NodeStep(n)
    BY <2>1, VerdictInvStep, RegisterStep, UnbuiltStep, SyntaxStep, ProvisionalStep DEF BooksInv
  <2>2. CASE Report(n)
    BY <2>2, ReportReported
  <2> QED
    BY <2>1, <2>2
<1>2. ASSUME NEW m \in Node, m # n PROVE BooksInv(m)'
  <2>1. /\ status'[m] = status[m]
        /\ syntaxAttempts'[m] = syntaxAttempts[m]
        /\ generation'[m] = generation[m]
        /\ verdictGreen'[m] = verdictGreen[m]
        /\ verdictProvisional'[m] = verdictProvisional[m]
        /\ lastVerdict'[m] = lastVerdict[m]
    BY <1>2, OthersKeep, ReportIsLocal
  <2>2. /\ deferralTrack'[m] = deferralTrack[m]
        /\ parkRegister'[m] = parkRegister[m]
        /\ dispositionRegister'[m] = dispositionRegister[m]
    BY <1>2, OthersKeep, ReportIsLocal, ReportLeaves
  <2>3. VerdictInv(m)'
    BY <2>1 DEF BooksInv, VerdictInv
  <2>4. RegisterInv(m)'
    BY <2>1, <2>2 DEF BooksInv, RegisterInv
  <2>5. UnbuiltInv(m)'
    BY <2>1 DEF BooksInv, UnbuiltInv, Buildable
  <2>6. SyntaxInv(m)' /\ ProvisionalInv(m)'
    BY <2>1 DEF BooksInv, SyntaxInv, ProvisionalInv
  <2> QED
    BY <2>3, <2>4, <2>5, <2>6 DEF BooksInv
<1> QED
  BY <1>1, <1>2

\* A report neither resolves a node nor brings one in that is not ready.
LEMMA ReportMoves ==
  ASSUME TypeOK, NEW n \in Node, Report(n), Reported(n), NEW m \in Node
  PROVE  /\ Resolved(m)' <=> Resolved(m)
         /\ Entered(m)' => Entered(m) \/ indegree[m] = 0
<1>1. CASE m = n
  BY <1>1 DEF Reported, Resolved, Entered, RunCompleteTerminals, ActiveStates
<1>2. CASE m # n
  BY <1>2, ReportIsLocal DEF Resolved, Entered
<1> QED
  BY <1>1, <1>2

\* So it keeps the readiness counters and the closures.
LEMMA ReportKeepsClosure ==
  ASSUME TypeOK, IndegreeCoherent, ClosureResolved, NEW n \in Node, Report(n), Reported(n)
  PROVE  IndegreeCoherent' /\ ClosureResolved'
<1>1. \A m \in Node : \A d \in Deps[m] : d \in Node
  BY PlanAssumption
<1>2. ASSUME NEW m \in Node
      PROVE  indegree'[m] = Cardinality({d \in Deps[m] : ~ Resolved(d)'})
  <2>1. {d \in Deps[m] : ~ Resolved(d)'} = {d \in Deps[m] : ~ Resolved(d)}
    BY <1>1, ReportMoves
  <2> QED
    BY <2>1, ReportLeaves DEF IndegreeCoherent
<1>3. ASSUME NEW m \in Node, Entered(m)', NEW d \in Deps[m] PROVE Resolved(d)'
  <2>1. Resolved(d)
    BY <1>3, ReportMoves, ZeroMeansReady DEF ClosureResolved
  <2> QED
    BY <1>1, <2>1, ReportMoves
<1> QED
  BY <1>2, <1>3 DEF IndegreeCoherent, ClosureResolved

LEMMA InitDriveInv == Init => DriveInv
<1> SUFFICES ASSUME Init PROVE DriveInv
  OBVIOUS
<1>1. \A n \in Node : SyntaxInv(n) /\ ProvisionalInv(n)
  BY MaxPhaseRetryCyclesAssumption DEF Init, SyntaxInv, ProvisionalInv
<1> QED
  BY <1>1, InitInvariant DEF DriveInv

\* Every step of the driven run keeps the invariant.
LEMMA DriveStep ==
  ASSUME DriveInv, [DriveNext]_vars
  PROVE  DriveInv'
<1>1. CASE UNCHANGED vars
  <2>1. IInv'
    BY <1>1, StutterInvariant DEF DriveInv
  <2>2. \A n \in Node : SyntaxInv(n)' /\ ProvisionalInv(n)'
    BY <1>1 DEF DriveInv, SyntaxInv, ProvisionalInv, vars, artifactVars
  <2> QED
    BY <2>1, <2>2 DEF DriveInv
<1>2. ASSUME NEW n \in Node, NodeStep(n) \/ Report(n) PROVE DriveInv'
  <2>1. TypeOK /\ \A m \in Node : BooksInv(m)
    BY DEF DriveInv, IInv, NodeInv, BooksInv
  <2>2. TypeOK'
    BY <1>2, <2>1, NodeStepType, ReportType
  <2>3. \A m \in Node : BooksInv(m)'
    BY <1>2, <2>1, BooksStep
  <2>4. IndegreeCoherent' /\ ClosureResolved'
    <3>1. IndegreeCoherent /\ ClosureResolved
      BY DEF DriveInv, IInv
    <3>2. CASE NodeStep(n)
      BY <2>1, <3>1, <3>2, IndegreeStep, ClosureStep
    <3>3. CASE Report(n)
      BY <2>1, <3>1, <3>3, ReportReported, ReportKeepsClosure
    <3> QED
      BY <1>2, <3>2, <3>3
  <2> QED
    BY <2>2, <2>3, <2>4 DEF DriveInv, IInv, NodeInv, BooksInv
<1> QED
  BY <1>1, <1>2 DEF DriveNext

(***************************************************************************)
(* The strengthened invariant holds of every run in which the driver's     *)
(* reports and the granular verbs are used in any order (drive.js beside   *)
(* loop.js).                                                               *)
(***************************************************************************)
THEOREM DriverInvariant == DriveSpec => []DriveInv
<1>1. DriveInv /\ [DriveNext]_vars => DriveInv'
  BY DriveStep
<1> QED
  BY <1>1, InitDriveInv, PTL DEF DriveSpec

(***************************************************************************)
(* With it, what the reducer promises is true of the driven run too: the   *)
(* reports, which move a node several verbs at a time (reportDrive), keep  *)
(* the counters, the closures, the earned verdicts and the registers.      *)
(***************************************************************************)
THEOREM DrivenRunIsSafe ==
  DriveSpec => [](/\ TypeOK /\ IndegreeCoherent /\ ClosureResolved /\ GreenEarned
                  /\ RegistersMatchStatus /\ NeverBuilt)
<1>1. DriveInv => /\ TypeOK /\ IndegreeCoherent /\ ClosureResolved /\ GreenEarned
                  /\ RegistersMatchStatus /\ NeverBuilt
  BY InvariantMeans DEF DriveInv
<1> QED
  BY <1>1, DriverInvariant, PTL

(***************************************************************************)
(* The books on a node are of its present attempt, and no self-check is    *)
(* counted beyond the ceiling (ceilingAndBlock), however the reports and   *)
(* the verbs are mixed.                                                    *)
(***************************************************************************)
THEOREM BooksCurrent == DriveSpec => []BooksAreCurrent
<1>1. ASSUME DriveInv PROVE BooksAreCurrent
  <2>1. SyntaxCeiling
    BY <1>1 DEF DriveInv, SyntaxInv, SyntaxCeiling
  <2>2. ASSUME NEW n \in Node
        PROVE  /\ verdictGreen[n] # "none" \/ verdictProvisional[n] # "none" =>
                    lastVerdict[n].artifact = generation[n]
               /\ verdictGreen[n] # "none" => status[n] \in JudgedStates
               /\ verdictProvisional[n] # "none" => status[n] \in
                    {"PROVISIONAL_GATED", "REBUILT_HANDOFF", "BLOCK", "PARK",
                     "NEEDS_MANUAL_SEAM"}
               /\ verdictGreen[n] = "none" \/ verdictProvisional[n] = "none"
    <3>1. VerdictInv(n) /\ ProvisionalInv(n)
      BY <1>1 DEF DriveInv, IInv, NodeInv
    <3>2. verdictGreen[n] # "none" => /\ status[n] \in JudgedStates
                                      /\ lastVerdict[n].artifact = generation[n]
      BY <3>1 DEF VerdictInv
    <3> QED
      BY <3>1, <3>2 DEF ProvisionalInv
  <2>3. VerdictsAreCurrent
    BY <2>2 DEF VerdictsAreCurrent, JudgedStates
  <2> QED
    BY <2>1, <2>3 DEF BooksAreCurrent
<1> QED
  BY <1>1, DriverInvariant, PTL

\* A failed self-check may be counted against a resolved node, and nothing else
\* is reported of it.
LEMMA ResolvedReported ==
  ASSUME TypeOK, NEW n \in Node, Report(n), Resolved(n)
  PROVE  /\ status'[n] = status[n]
         /\ UNCHANGED <<generation, verdictGreen, verdictProvisional>>
<1> USE DEF TypeOK, Resolved, RunCompleteTerminals, Ungenerated
<1>1. CASE ReportSyntaxOk(n)
  BY <1>1 DEF ReportSyntaxOk
<1>2. CASE ReportSyntaxFail(n)
  BY <1>2 DEF ReportSyntaxFail, CountFailure
<1>3. CASE ReportSyntaxCeiling(n)
  BY <1>3, Moves DEF ReportSyntaxCeiling
<1>4. ASSUME AtOfflineCheckpoint(n) PROVE FALSE
  BY <1>4 DEF AtOfflineCheckpoint
<1> QED
  BY <1>1, <1>2, <1>3, <1>4
     DEF Report, CeilingReport, OtherReport, ReportOfflineVerdict, ReportOfflineDefect, ReportOfflineCeiling

(***************************************************************************)
(* A resolved node is final in the driven run too: a late or repeated      *)
(* report of a self-check or a verdict changes nothing its dependents      *)
(* were released on.                                                       *)
(***************************************************************************)
THEOREM DrivenResolvedIsFinal == DriveSpec => ResolvedIsFinal
<1>1. TypeOK /\ [DriveNext]_vars =>
        [\A n \in Node : Resolved(n) =>
           /\ status'[n] = status[n]
           /\ generation'[n] = generation[n]
           /\ verdictGreen'[n] = verdictGreen[n]
           /\ verdictProvisional'[n] = verdictProvisional[n]
           /\ dispositionRegister'[n] = dispositionRegister[n]]_vars
  <2> SUFFICES ASSUME TypeOK, NEW n \in Node, NodeStep(n) \/ Report(n),
                      NEW m \in Node, Resolved(m)
               PROVE  /\ status'[m] = status[m]
                      /\ generation'[m] = generation[m]
                      /\ verdictGreen'[m] = verdictGreen[m]
                      /\ verdictProvisional'[m] = verdictProvisional[m]
                      /\ dispositionRegister'[m] = dispositionRegister[m]
    BY DEF DriveNext
  <2>1. CASE m = n
    BY <2>1, ResolvedKeeps, ResolvedReported, ReportLeaves DEF artifactVars, registerVars
  <2>2. CASE m # n
    BY <2>2, OthersKeep, ReportIsLocal, ReportLeaves
  <2> QED
    BY <2>1, <2>2
<1> QED
  BY <1>1, DrivenRunIsSafe, PTL DEF DriveSpec, ResolvedIsFinal

\* A report moves its node as the contract lets it.
LEMMA ReportPhase ==
  ASSUME TypeOK, IndegreeCoherent, NEW n \in Node, Reported(n)
  PROVE  ContractMove(n)
<1> USE DEF Phase, Resolved, RunCompleteTerminals, ContractMove
<1>1. CASE status'[n] = status[n]
  BY <1>1
<1>2. CASE /\ status[n] = "PENDING" /\ indegree[n] = 0
           /\ status'[n] \in {"GENERATED", "SYNTAX_OK", "PROVISIONAL_GATED"}
  BY <1>2, ZeroMeansReady
<1>3. CASE /\ status[n] \in {"GROUNDED", "GENERATED", "SYNTAX_OK", "PROVISIONAL_GATED"}
           /\ status'[n] \in {"GENERATED", "SYNTAX_OK", "PROVISIONAL_GATED"}
  BY <1>3
<1>4. CASE status[n] \in ActiveStates /\ status'[n] = "BLOCK"
  BY <1>4 DEF ActiveStates
<1> QED
  BY <1>1, <1>2, <1>3, <1>4 DEF Reported

(***************************************************************************)
(* The driven run implements the contract of a run: a report that moves a  *)
(* node several verbs at a time is still one step of the contract, and     *)
(* starts work only over dependencies that are done.                       *)
(***************************************************************************)
THEOREM DriverImplementsContract == DriveSpec => ImplementsContract
<1>1. Init => Contract!Init
  BY InitImplements
<1>2. DriveInv /\ DriveInv' /\ [DriveNext]_vars => [Contract!Next]_phases
  <2> SUFFICES ASSUME DriveInv, DriveInv', [DriveNext]_vars
               PROVE  Contract!Next \/ UNCHANGED phases
    OBVIOUS
  <2>0. TypeOK /\ TypeOK' /\ IndegreeCoherent /\ \A m \in Node : BooksInv(m)
    BY DEF DriveInv, IInv, NodeInv, BooksInv
  <2>1. CASE UNCHANGED vars
    BY <2>1 DEF vars, phases, Phase, Resolved
  <2>2. ASSUME NEW n \in Node, NodeStep(n)
        PROVE  Contract!Next \/ UNCHANGED phases
    BY <2>0, <2>2, ContractStep
  <2>3. ASSUME NEW n \in Node, Report(n)
        PROVE  Contract!Next \/ UNCHANGED phases
    <3>1. ContractMove(n)
      BY <2>0, <2>3, ReportReported, ReportPhase
    <3>2. \A m \in Node : m # n => Phase(m)' = Phase(m)
      BY <2>0, <2>3, ReportIsLocal DEF Phase, Resolved
    <3> QED
      BY <2>0, <3>1, <3>2, MoveImplements
  <2> QED
    BY <2>1, <2>2, <2>3 DEF DriveNext
<1> QED
  BY <1>1, <1>2, DriverInvariant, PTL DEF DriveSpec, ImplementsContract, Contract!Spec

-------------------------------------------------------------------------------
\* What the driver answers.

\* The bounds of the frontier's arguments.
LEMMA OrderLength == Len(RiskOrder) \in Nat /\ TeamSize \in Nat \ {0}
BY DriverAssumption

\* The batch holds ready nodes only.
LEMMA BatchIsReady == Batch \subseteq Ready
<1>1. SoundBatch(NextFrontier(Ready, RiskOrder, Edges, ConflictKeys, TeamSize), Ready, Edges,
                 ConflictKeys, TeamSize)
  BY OrderLength, FrontierIsSound
<1> QED
  BY <1>1 DEF SoundBatch, Batch

\* And is empty only when nothing is ready.
LEMMA BatchFindsWork ==
  ASSUME Ready # {}
  PROVE  Batch # {}
<1>1. PICK n \in Node : n \in Ready
  BY DEF Ready
<1>2. PICK k \in 1..Len(RiskOrder) : RiskOrder[k] = n
  BY DriverAssumption
<1> QED
  BY <1>1, <1>2, OrderLength, FrontierFindsWork DEF Batch

\* What each answer says, one at a time.
LEMMA DecisionMeans ==
  /\ Decision.action = "generate" =>
       Decision.nodes = Batch /\ Retiring = {} /\ Batch # {}
  /\ Decision.action = "retire" => Decision.nodes = Retiring /\ Retiring # {}
  /\ Decision.action \in {"provisional_complete", "blocked"} =>
       Retiring = {} /\ Batch = {} /\ AwaitingArch = {} /\ HumanGated = {}
  /\ Decision.action = "provisional_complete" => Wedged = {}
  /\ Decision.action = "blocked" => Decision.nodes = Wedged
  /\ Batch # {} /\ ~ RunComplete => Decision.action \in {"generate", "retire"}
BY DEF Decision, Answer

\* A ready node may be generated.
LEMMA ReadyMayGenerate ==
  ASSUME NEW n \in Ready
  PROVE  MayGenerate(n)
BY DEF Ready, MayGenerate, MayDispatch, Ungenerated, Buildable, NonBuildDispositions

(***************************************************************************)
(* What the driver asks for is accepted by the verbs that do it, whatever  *)
(* verbs and reports brought the run to where it is.                       *)
(***************************************************************************)
THEOREM OffersAreAccepted == DriveSpec => []OfferIsAccepted
<1>1. ASSUME DriveInv PROVE OfferIsAccepted
  <2>1. ASSUME Decision.action = "generate", NEW n \in Decision.nodes PROVE MayGenerate(n)
    BY <2>1, DecisionMeans, BatchIsReady, ReadyMayGenerate
  <2>2. ASSUME Decision.action = "retire", NEW n \in Decision.nodes
        PROVE  /\ status[n] = "PENDING" => MayDispatch(n)
               /\ MayResolveUnbuilt(n, "RETIRED")
    <3>1. /\ n \in Node /\ Disposition[n] = "retire" /\ indegree[n] = 0
          /\ status[n] \in {"PENDING", "GROUNDED"}
      BY <2>2, DecisionMeans DEF Retiring
    <3>2. VerdictInv(n) /\ RegisterInv(n) /\ ProvisionalInv(n)
      BY <1>1, <3>1 DEF DriveInv, IInv, NodeInv
    <3>3. parkRegister[n] = <<>>
      BY <3>1, <3>2 DEF RegisterInv
    <3>4. verdictGreen[n] = "none" /\ verdictProvisional[n] = "none"
      BY <3>1, <3>2 DEF VerdictInv, ProvisionalInv, JudgedStates
    <3>5. MayDispatch(n)
      BY <3>1, <3>3 DEF MayDispatch, ArchClear, ArchGatedDispositions
    <3>6. MayResolveUnbuilt(n, "RETIRED")
      BY <3>1, <3>4 DEF MayResolveUnbuilt, DispositionOf
    <3> QED
      BY <3>5, <3>6
  <2> QED
    BY <2>1, <2>2 DEF OfferIsAccepted
<1> QED
  BY <1>1, DriverInvariant, PTL

(***************************************************************************)
(* The driver does not wait while some node could be generated, for every  *)
(* team size and every tangle of conflicts: the greedy pick never comes    *)
(* back empty-handed where there is work.                                  *)
(***************************************************************************)
THEOREM WorkComesFirst == DriveSpec => []WorkFirst
<1>1. ASSUME NEW n \in Node, status[n] = "PENDING", MayGenerate(n)
      PROVE  Decision.action \in {"generate", "retire"}
  <2>1. n \in Ready
    BY <1>1 DEF Ready, MayGenerate, MayDispatch, Ungenerated, Buildable, NonBuildDispositions
  <2>2. Batch # {}
    BY <2>1, BatchFindsWork
  <2>3. ~ RunComplete
    BY <1>1 DEF RunComplete, Resolved, RunCompleteTerminals
  <2> QED
    BY <2>2, <2>3, DecisionMeans
<1>2. WorkFirst
  BY <1>1, DecisionMeans DEF WorkFirst
<1> QED
  BY <1>2, PTL

\* When the run is called complete, each node is done, rests, or is starved.
LEMMA AllAccounted ==
  ASSUME DriveInv, Decision.action = "provisional_complete", NEW n \in Node
  PROVE  Resolved(n) \/ AtRestOffline(n) \/ Starved(n)
<1>1. Wedged = {} /\ HumanGated = {}
  BY DecisionMeans
<1>2. status[n] \in Rested \/ Starved(n)
  BY <1>1 DEF Wedged
<1>3. parkRegister[n] = <<>> /\ n \notin Seamed /\ n \notin AwaitingAttestation
  BY <1>1 DEF HumanGated
<1>4. status[n] # "PARK"
  BY <1>3 DEF DriveInv, IInv, NodeInv, RegisterInv
<1>5. status[n] # "NEEDS_MANUAL_SEAM"
  BY <1>3 DEF Seamed
<1>6. status[n] = "PROVISIONAL_GATED" => verdictProvisional[n] # "fail"
  BY <1>3 DEF AwaitingAttestation
<1> QED
  BY <1>2, <1>4, <1>5, <1>6 DEF Rested, Resolved, RunCompleteTerminals, AtRestOffline

\* A starved node waits for one that is not resolved.
LEMMA StarvedWaits ==
  ASSUME IndegreeCoherent, NEW n \in Node, Starved(n)
  PROVE  \E d \in Deps[n] : ~ Resolved(d)
<1> DEFINE Open == {d \in Deps[n] : ~ Resolved(d)}
<1>1. indegree[n] = Cardinality(Open) /\ indegree[n] > 0
  BY DEF IndegreeCoherent, Starved
<1>2. Cardinality({}) = 0
  BY FS_EmptySet
<1>3. Open # {}
  BY <1>1, <1>2
<1> QED
  BY <1>3

(***************************************************************************)
(* provisional_complete leaves nothing in flight and nobody to ask in any  *)
(* driven run (driveDecision): a set closed under waiting has a node at    *)
(* its bottom, as the plan is acyclic, and what that one waits for neither *)
(* is done nor waits.  Whether what rests was judged is another question.  *)
(***************************************************************************)
THEOREM CompletionIsAtRest == DriveSpec => []CompletionAtRest
<1>1. ASSUME DriveInv PROVE CompletionAtRest
  <2> SUFFICES ASSUME Decision.action = "provisional_complete",
                      NEW n \in Node, ~ Resolved(n), ~ AtRestOffline(n),
                      NEW S \in SUBSET Node, n \in S, ClosedUnderWaiting(S)
               PROVE  /\ status[n] = "PENDING"
                      /\ \E m \in S, d \in Node : d \in Deps[m] /\ AtRestOffline(d)
    <3>1. {} \in SUBSET Node /\ Node \in SUBSET Node /\ ClosedUnderWaiting(Node)
      BY PlanAssumption DEF ClosedUnderWaiting
    <3> QED
      BY <3>1 DEF CompletionAtRest
  <2>1. Starved(n)
    BY <1>1, AllAccounted
  <2> DEFINE P == {m \in S : status[m] = "PENDING"}
  <2>2. PICK m \in P : Deps[m] \cap P = {}
    <3>1. P \in SUBSET Node /\ P # {}
      BY <2>1 DEF Starved
    <3> QED
      BY <3>1, AcyclicAssumption
  <2>3. ~ Resolved(m) /\ ~ AtRestOffline(m)
    BY <2>2 DEF Resolved, RunCompleteTerminals, AtRestOffline
  <2>4. Starved(m)
    BY <1>1, <2>2, <2>3, AllAccounted
  <2>5. PICK d \in Deps[m] : ~ Resolved(d)
    BY <1>1, <2>2, <2>4, StarvedWaits DEF DriveInv, IInv
  <2>6. d \in Node
    BY <2>2, <2>5, PlanAssumption
  <2>7. ~ Starved(d)
    BY <2>2, <2>5 DEF Starved, ClosedUnderWaiting
  <2>8. AtRestOffline(d)
    BY <1>1, <2>5, <2>6, <2>7, AllAccounted
  <2> QED
    BY <2>1, <2>2, <2>5, <2>6, <2>8 DEF Starved
<1> QED
  BY <1>1, DriverInvariant, PTL

-------------------------------------------------------------------------------
\* The offline lane.

\* Each step of the lane is a step of the driven run, or changes nothing of it.
LEMMA LaneIsDriven == LaneNext => [DriveNext]_vars
<1> SUFFICES ASSUME LaneNext PROVE [DriveNext]_vars
  OBVIOUS
<1>1. ASSUME NEW n \in Node, SelfCheckPassed(n) \/ SelfCheckFailed(n) \/ VerdictStep(n)
      PROVE  Report(n)
  BY <1>1 DEF SelfCheckPassed, SelfCheckFailed, VerdictStep, Report, CeilingReport, OtherReport
<1>2. ASSUME NEW n \in Node, RetireStep(n) \/ Handoff(n) \/ Ratify(n) \/ Void(n)
      PROVE  NodeStep(n)
  BY <1>2 DEF RetireStep, Handoff, Ratify, Void, NodeStep, Outcome, OtherVerb,
              DispositionTerminals
<1>3. ASSUME Ask \/ Crash \/ \E n \in Node : PutAside(n) PROVE UNCHANGED vars
  BY <1>3 DEF Ask, Crash, PutAside
<1> QED
  BY <1>1, <1>2, <1>3 DEF LaneNext, DriveNext

(***************************************************************************)
(* The offline session is one user of the driver among the others: what is *)
(* true of every driven run is true of an offline one (cli-drive.js goes   *)
(* through driveReport and the reducer only).                              *)
(***************************************************************************)
THEOREM LaneIsADrivenRun == LaneSpec => DriveSpec
<1>1. LaneInit => Init
  BY DEF LaneInit
<1>2. [LaneNext]_laneVars => [DriveNext]_vars
  BY LaneIsDriven DEF laneVars
<1> QED
  BY <1>1, <1>2, PTL DEF LaneSpec, DriveSpec

\* A counter at zero stays there: what is released now was waited for.
LEMMA ZeroStays ==
  ASSUME TypeOK, IndegreeCoherent, NEW n \in Node, NodeStep(n) \/ Report(n),
         NEW m \in Node, indegree[m] = 0
  PROVE  indegree'[m] = 0
<1>1. CASE UNCHANGED indegree
  BY <1>1
<1>2. CASE ReleaseDependents(n) /\ ~ Resolved(n)
  <2>1. n \notin Deps[m]
    BY <1>2, ZeroMeansReady
  <2> QED
    BY <1>2, <2>1 DEF ReleaseDependents
<1> QED
  BY <1>1, <1>2, Resolving, ReportLeaves

\* A step of the run that takes no packet away but those about its own node.
HandsKept(n) ==
  /\ inHand' \subseteq inHand \cup {n}
  /\ lost' = lost
  /\ \A m \in inHand : m # n => m \in inHand'

\* What a step of the lane leaves of the nodes it is not about.
LEMMA LaneOthers ==
  ASSUME LaneInv, NEW n \in Node, NodeStep(n) \/ Report(n), HandsKept(n),
         NEW m \in Node, m # n
  PROVE  LaneAt(m)'
<1>1. TypeOK /\ IndegreeCoherent /\ LaneAt(m)
  BY DEF LaneInv, DriveInv, IInv
<1>2. /\ status'[m] = status[m] /\ generation'[m] = generation[m] /\ cycle'[m] = cycle[m]
      /\ parkRegister'[m] = parkRegister[m]
  BY <1>1, OthersKeep, ReportIsLocal, ReportLeaves
<1>3. LaneNodeInv(m)'
  BY <1>1, <1>2 DEF LaneAt, LaneNodeInv, HandsKept
<1>4. ASSUME m \in inHand' PROVE InHandInv(m)'
  <2>1. m \in inHand /\ InHandInv(m)
    BY <1>1, <1>4 DEF HandsKept, LaneAt
  <2>2. indegree[m] = 0 => indegree'[m] = 0
    BY <1>1, ZeroStays
  <2> QED
    BY <1>2, <2>1, <2>2 DEF InHandInv, Buildable
<1> QED
  BY <1>3, <1>4 DEF LaneAt

\* A step that is about one node and leaves it well leaves the lane well.
LEMMA LaneStepAt ==
  ASSUME LaneInv, NEW n \in Node, NodeStep(n) \/ Report(n), HandsKept(n), LaneAt(n)'
  PROVE  LaneInv'
<1>1. DriveInv' /\ inHand' \subseteq Node /\ lost' \subseteq Node
  <2>1. DriveInv'
    BY DriveStep DEF LaneInv, DriveNext
  <2> QED
    BY <2>1 DEF LaneInv, HandsKept
<1>2. \A m \in Node : m # n => LaneAt(m)'
  BY LaneOthers
<1> QED
  BY <1>1, <1>2 DEF LaneInv

\* What is true at a node stays true while the run stands still and the packets
\* of the node change hands.
LEMMA StillAt ==
  ASSUME UNCHANGED vars, NEW m \in Node, LaneNodeInv(m),
         m \in inHand \cup lost => m \in inHand' \cup lost',
         m \in inHand' => InHandInv(m)
  PROVE  LaneAt(m)'
<1>1. LaneNodeInv(m)'
  BY DEF LaneNodeInv, vars, artifactVars
<1>2. InHandInv(m) => InHandInv(m)'
  BY DEF InHandInv, Buildable, vars, registerVars
<1> QED
  BY <1>1, <1>2 DEF LaneAt

\* The offers: what is handed out is ready, and nothing was in hand before.
LEMMA AskKeeps ==
  ASSUME LaneInv, Ask
  PROVE  LaneInv'
<1>1. /\ inHand' = Batch /\ inHand = {} /\ Batch \subseteq Ready /\ lost' = lost \ Batch
      /\ UNCHANGED vars
  BY DecisionMeans, BatchIsReady DEF Ask
<1>2. DriveInv'
  BY <1>1, DriveStep DEF LaneInv
<1>3. ASSUME NEW m \in Node PROVE LaneAt(m)'
  <2>1. LaneNodeInv(m)
    BY DEF LaneInv, LaneAt
  <2>2. m \in inHand \cup lost => m \in inHand' \cup lost'
    BY <1>1
  <2>3. m \in inHand' => InHandInv(m)
    BY <1>1 DEF Ready, InHandInv
  <2> QED
    BY <1>1, <2>1, <2>2, <2>3, StillAt
<1>4. inHand' \subseteq Node /\ lost' \subseteq Node
  BY <1>1 DEF Ready, LaneInv
<1> QED
  BY <1>2, <1>3, <1>4 DEF LaneInv

\* The self-checks.
LEMMA SelfCheckKeeps ==
  ASSUME LaneInv, NEW n \in Node, SelfCheckPassed(n) \/ SelfCheckFailed(n)
  PROVE  LaneInv'
<1>1. /\ TypeOK /\ LaneNodeInv(n) /\ n \in inHand
      /\ status[n] \in {"PENDING", "GENERATED"} /\ Buildable(n)
  BY DEF SelfCheckPassed, SelfCheckFailed, LaneInv, LaneAt, InHandInv, DriveInv, IInv
<1>2. Report(n) /\ UNCHANGED lost
  BY DEF SelfCheckPassed, SelfCheckFailed, Report, CeilingReport, OtherReport
<1>3. /\ generation[n] \in Nat /\ cycle[n] \in Nat
      /\ generation'[n] = IF status[n] = "PENDING" THEN generation[n] + 1 ELSE generation[n]
      /\ cycle'[n] = cycle[n]
  <2>1. generation[n] \in Nat /\ cycle[n] \in Nat
    BY <1>1, PlanAssumption, MaxPhaseRetryCyclesAssumption DEF TypeOK
  <2>2. cycle'[n] = cycle[n]
    BY <1>1 DEF SelfCheckPassed, SelfCheckFailed, ReportSyntaxOk, ReportSyntaxFail,
                ReportSyntaxCeiling, SetStatus, IsRetry, TypeOK
  <2>3. generation'[n] = IF status[n] = "PENDING" THEN generation[n] + 1 ELSE generation[n]
    BY <1>1 DEF SelfCheckPassed, SelfCheckFailed, ReportSyntaxOk, ReportSyntaxFail,
                ReportSyntaxCeiling, CountFailure, NewArtifact, Ungenerated, TypeOK, artifactVars
  <2> QED
    BY <2>1, <2>2, <2>3
<1>4. generation'[n] <= cycle'[n] + 1
  BY <1>1, <1>3 DEF LaneNodeInv
<1>5. CASE SelfCheckPassed(n)
  <2>1. status'[n] = "SYNTAX_OK" /\ inHand' = inHand \ {n}
    BY <1>1, <1>5 DEF SelfCheckPassed, ReportSyntaxOk, TypeOK
  <2>2. LaneAt(n)'
    BY <1>4, <2>1 DEF LaneAt, LaneNodeInv, LaneStatuses
  <2> QED
    BY <1>2, <2>1, <2>2, LaneStepAt DEF HandsKept
<1>6. CASE ReportSyntaxFail(n) /\ UNCHANGED inHand
  <2>1. status'[n] = "GENERATED"
    BY <1>1, <1>6 DEF ReportSyntaxFail, Ungenerated, TypeOK
  <2>2. LaneAt(n)'
    BY <1>1, <1>4, <1>6, <2>1 DEF LaneAt, LaneNodeInv, LaneStatuses, InHandInv, Buildable
  <2> QED
    BY <1>2, <1>6, <2>2, LaneStepAt DEF HandsKept
<1>7. CASE ReportSyntaxCeiling(n) /\ inHand' = inHand \ {n}
  <2>1. status'[n] = "BLOCK"
    BY <1>1, <1>7 DEF ReportSyntaxCeiling, SetStatus, TypeOK
  <2>2. LaneAt(n)'
    BY <1>4, <1>7, <2>1 DEF LaneAt, LaneNodeInv, LaneStatuses
  <2> QED
    BY <1>2, <1>7, <2>2, LaneStepAt DEF HandsKept
<1> QED
  BY <1>5, <1>6, <1>7 DEF SelfCheckFailed

\* The verdict step: a defect hands the node out again, with its retry counted.
LEMMA VerdictStepKeeps ==
  ASSUME LaneInv, NEW n \in Node, VerdictStep(n)
  PROVE  LaneInv'
<1>1. /\ TypeOK /\ LaneNodeInv(n) /\ n \notin inHand
      /\ generation[n] \in Nat /\ cycle[n] \in Nat
  BY PlanAssumption, MaxPhaseRetryCyclesAssumption
     DEF VerdictStep, LaneInv, LaneAt, DriveInv, IInv, TypeOK
<1>2. Report(n) /\ UNCHANGED lost
  BY DEF VerdictStep, Report, CeilingReport, OtherReport
<1>3. ASSUME NEW passed \in BOOLEAN, ReportOfflineVerdict(n, passed), UNCHANGED inHand
      PROVE  LaneAt(n)'
  <2>1. status'[n] = "PROVISIONAL_GATED" /\ UNCHANGED <<generation, cycle>>
    BY <1>1, <1>3 DEF ReportOfflineVerdict, TypeOK
  <2> QED
    BY <1>1, <1>3, <2>1 DEF LaneAt, LaneNodeInv, LaneStatuses
<1>4. CASE ReportOfflineDefect(n) /\ inHand' = inHand \cup {n}
  <2>1. /\ status'[n] = "GENERATED" /\ Buildable(n)
        /\ generation'[n] = generation[n] + 1 /\ cycle'[n] = cycle[n] + 1
    BY <1>1, <1>4 DEF ReportOfflineDefect, NewArtifact, TypeOK
  <2>2. generation'[n] <= cycle'[n] + 1
    BY <1>1, <2>1 DEF LaneNodeInv
  <2>3. LaneAt(n)'
    BY <1>4, <2>1, <2>2 DEF LaneAt, LaneNodeInv, LaneStatuses, InHandInv, Buildable
  <2> QED
    BY <1>2, <1>4, <2>3, LaneStepAt DEF HandsKept
<1>5. CASE ReportOfflineCeiling(n) /\ UNCHANGED inHand
  <2>1. status'[n] = "BLOCK" /\ UNCHANGED <<generation, cycle>>
    BY <1>1, <1>5 DEF ReportOfflineCeiling, TypeOK
  <2>2. LaneAt(n)'
    BY <1>1, <1>5, <2>1 DEF LaneAt, LaneNodeInv, LaneStatuses
  <2> QED
    BY <1>2, <1>5, <2>2, LaneStepAt DEF HandsKept
<1>6. CASE UNCHANGED inHand /\ LaneAt(n)'
  BY <1>2, <1>6, LaneStepAt DEF HandsKept
<1> QED
  BY <1>3, <1>4, <1>5, <1>6 DEF VerdictStep

\* What people do: retire, hand off, ratify, and take a ratification back, the
\* last also of a node in hand.
LEMMA PersonKeeps ==
  ASSUME LaneInv, NEW n \in Node, RetireStep(n) \/ Handoff(n) \/ Ratify(n) \/ Void(n)
  PROVE  LaneInv'
<1>1. TypeOK /\ LaneAt(n)
  BY DEF LaneInv, DriveInv, IInv
<1>2. NodeStep(n) /\ HandsKept(n) /\ UNCHANGED inHand
  BY DEF RetireStep, Handoff, Ratify, Void, NodeStep, Outcome, OtherVerb, DispositionTerminals,
         HandsKept
<1>3. CASE Ratify(n) \/ Void(n)
  <2>1. UNCHANGED <<status, generation, cycle, parkRegister, indegree>>
    BY <1>3 DEF Ratify, Void, SetArchRatified, artifactVars, registerVars
  <2>2. LaneAt(n)'
    BY <1>1, <1>2, <2>1 DEF LaneAt, LaneNodeInv, InHandInv, Buildable, HandsKept
  <2> QED
    BY <1>2, <2>2, LaneStepAt
<1>4. CASE RetireStep(n)
  <2>1. Disposition[n] = "retire" /\ status[n] \in {"PENDING", "GROUNDED"}
    BY <1>4, DecisionMeans DEF RetireStep, Retiring
  <2>2. n \notin inHand
    BY <1>1, <2>1 DEF LaneAt, InHandInv, Buildable, NonBuildDispositions
  <2>3. /\ status'[n] \in {"GROUNDED", "RETIRED"}
        /\ UNCHANGED generation /\ cycle'[n] = cycle[n]
    BY <1>1, <1>4 DEF RetireStep, Dispatch, ResolveUnbuilt, SetStatus, IsRetry, TypeOK,
                      artifactVars
  <2>4. LaneAt(n)'
    BY <1>1, <1>2, <2>1, <2>2, <2>3 DEF LaneAt, LaneNodeInv, LaneStatuses
  <2> QED
    BY <1>2, <2>4, LaneStepAt
<1>5. CASE Handoff(n)
  <2>1. n \notin inHand
    BY <1>1, <1>5 DEF Handoff, LaneAt, InHandInv
  <2>2. /\ status'[n] = "REBUILT_HANDOFF"
        /\ UNCHANGED generation /\ cycle'[n] = cycle[n]
    BY <1>1, <1>5 DEF Handoff, ResolveUnbuilt, SetStatus, IsRetry, TypeOK, artifactVars
  <2>3. LaneAt(n)'
    BY <1>1, <1>2, <2>1, <2>2 DEF LaneAt, LaneNodeInv, LaneStatuses
  <2> QED
    BY <1>2, <2>3, LaneStepAt
<1> QED
  BY <1>3, <1>4, <1>5

\* A session that dies or puts a packet aside, and a step that changes nothing.
LEMMA QuietKeeps ==
  ASSUME LaneInv, Crash \/ (\E n \in Node : PutAside(n)) \/ UNCHANGED laneVars
  PROVE  LaneInv'
<1>1. /\ UNCHANGED vars
      /\ inHand' \subseteq inHand
      /\ inHand \cup lost \subseteq inHand' \cup lost'
      /\ lost' \subseteq inHand \cup lost
  BY DEF Crash, PutAside, laneVars
<1>2. DriveInv' /\ inHand' \subseteq Node /\ lost' \subseteq Node
  <2>1. DriveInv'
    BY <1>1, DriveStep DEF LaneInv
  <2> QED
    BY <1>1, <2>1 DEF LaneInv
<1>3. ASSUME NEW m \in Node PROVE LaneAt(m)'
  BY <1>1, StillAt DEF LaneInv, LaneAt
<1> QED
  BY <1>2, <1>3 DEF LaneInv

(***************************************************************************)
(* The strengthened invariant of the offline lane: what the session has in *)
(* its memory only, and what the persisted state says, agree at every step *)
(* of the session, of the people and of a crash.                           *)
(***************************************************************************)
THEOREM LaneInvariant == LaneSpec => []LaneInv
<1>1. LaneInit => LaneInv
  <2> SUFFICES ASSUME LaneInit PROVE LaneInv
    OBVIOUS
  <2>1. DriveInv
    BY InitDriveInv DEF LaneInit
  <2>2. \A n \in Node : LaneAt(n)
    BY DEF LaneInit, Init, LaneAt, LaneNodeInv, LaneStatuses
  <2> QED
    BY <2>1, <2>2 DEF LaneInit, LaneInv
<1>2. LaneInv /\ [LaneNext]_laneVars => LaneInv'
  BY AskKeeps, SelfCheckKeeps, VerdictStepKeeps, PersonKeeps, QuietKeeps DEF LaneNext
<1> QED
  BY <1>1, <1>2, PTL DEF LaneSpec

(***************************************************************************)
(* The retry budget: whatever the self-checks and verdicts say, and after  *)
(* every crash, each artifact but the first was paid for with a retry.     *)
(***************************************************************************)
THEOREM RetriesAreBudgeted == LaneSpec => []RetryBudget
<1>1. ASSUME LaneInv PROVE RetryBudget
  <2> SUFFICES ASSUME NEW n \in Node PROVE generation[n] <= MaxPhaseRetryCycles + 1
    BY DEF RetryBudget
  <2>1. generation[n] <= cycle[n] + 1
    BY <1>1 DEF LaneInv, LaneAt, LaneNodeInv
  <2>2. cycle[n] \in 0..MaxPhaseRetryCycles /\ generation[n] \in 0..MaxGeneration
    BY <1>1 DEF LaneInv, DriveInv, IInv, TypeOK
  <2> QED
    BY <2>1, <2>2, PlanAssumption, MaxPhaseRetryCyclesAssumption
<1> QED
  BY <1>1, LaneInvariant, PTL

(***************************************************************************)
(* What the session has in hand it can report on, for every plan, whatever *)
(* its own reports on other nodes and the people do meanwhile; a node whose *)
(* ratification a person took back (cmdDecide) has not moved, and the      *)
(* driver counts it among those that wait for one.                         *)
(***************************************************************************)
THEOREM InHandReportable == LaneSpec => []InHandIsReportable
<1>1. ASSUME LaneInv PROVE InHandIsReportable
  <2> SUFFICES ASSUME NEW n \in inHand
               PROVE  /\ status[n] \in {"PENDING", "GENERATED"} /\ Buildable(n)
                      /\ ArchClear(n) => MayGenerate(n)
                      /\ ~ ArchClear(n) => n \in AwaitingArch
    BY DEF InHandIsReportable
  <2>1. n \in Node /\ InHandInv(n)
    BY <1>1 DEF LaneInv, LaneAt
  <2>2. ArchClear(n) => MayGenerate(n)
    BY <2>1 DEF InHandInv, MayGenerate, MayDispatch, Ungenerated
  <2>3. ~ ArchClear(n) => n \in AwaitingArch
    BY <2>1 DEF InHandInv, AwaitingArch, ActiveStates, Rested
  <2> QED
    BY <2>1, <2>2, <2>3 DEF InHandInv
<1> QED
  BY <1>1, LaneInvariant, PTL

(***************************************************************************)
(* A run wedges only on lost work: for every plan and team, a node that    *)
(* neither rests nor is starved is in hand, is to be retired, waits for a  *)
(* person, is offered, or was generated from a packet that nobody has any  *)
(* more.                                                                   *)
(***************************************************************************)
THEOREM WedgedByLossOnly == LaneSpec => []WedgedOnlyByLoss
<1>1. ASSUME LaneInv PROVE WedgedOnlyByLoss
  <2> SUFFICES ASSUME inHand = {}, Decision.action = "blocked",
                      NEW n \in Decision.nodes, n \notin lost
               PROVE  FALSE
    BY DEF WedgedOnlyByLoss
  <2>1. /\ Retiring = {} /\ Ready = {} /\ AwaitingArch = {} /\ HumanGated = {}
        /\ Decision.nodes = Wedged
    BY DecisionMeans, BatchFindsWork
  <2>2. n \in Node /\ status[n] \notin Rested /\ ~ Starved(n)
    BY <2>1 DEF Wedged
  <2>3. /\ LaneNodeInv(n) /\ RegisterInv(n) /\ IndegreeCoherent /\ ClosureResolved
    BY <1>1, <2>2 DEF LaneInv, LaneAt, DriveInv, IInv, NodeInv
  <2>4. status[n] \in {"PENDING", "GROUNDED"}
    BY <2>2, <2>3 DEF LaneNodeInv, LaneStatuses, Rested
  <2> DEFINE Open == {d \in Deps[n] : ~ Resolved(d)}
  <2>5. indegree[n] = Cardinality(Open) /\ Cardinality(Open) \in Nat
    BY <2>2, <2>3, PlanAssumption, FS_Subset, FS_CardinalityType DEF IndegreeCoherent
  <2>6. indegree[n] = 0
    <3>1. CASE status[n] = "PENDING"
      BY <2>2, <2>5, <3>1 DEF Starved
    <3>2. CASE status[n] = "GROUNDED"
      <4>1. Open = {}
        BY <2>2, <2>3, <3>2 DEF ClosureResolved, Entered
      <4> QED
        BY <2>5, <4>1, FS_EmptySet
    <3> QED
      BY <2>4, <3>1, <3>2
  <2>7. Disposition[n] # "retire"
    BY <2>2, <2>1, <2>4, <2>6 DEF Retiring
  <2>8. status[n] = "PENDING"
    BY <2>3, <2>4, <2>7 DEF LaneNodeInv
  <2>9. n \notin Sealed /\ Disposition[n] # "seal"
    BY <2>2, <2>1, <2>8 DEF HumanGated, Seamed
  <2>10. ArchClear(n)
    BY <2>2, <2>1, <2>6, <2>8 DEF AwaitingArch
  <2>11. parkRegister[n] = <<>>
    BY <2>3, <2>8 DEF RegisterInv
  <2>12. n \in Ready
    BY <2>2, <2>6, <2>7, <2>8, <2>9, <2>10, <2>11 DEF Ready, Buildable, NonBuildDispositions
  <2> QED
    BY <2>1, <2>12
<1> QED
  BY <1>1, LaneInvariant, PTL
-------------------------------------------------------------------------------
(* The activation mutex: it is never taken from its owner nor taken along  *)
(* to a terminal, for every plan and every assignment of transports.       *)

MutexTypeOK ==
  /\ TypeOK
  /\ activateMutex \in [Transport -> Node \cup {NoOwner}]

\* A verb about one node leaves the status of every other node alone.
LEMMA OtherStatusKept ==
  ASSUME TypeOK, NEW n \in Node, NodeStep(n), NEW m \in Node \ {n}
  PROVE  status'[m] = status[m]
<1>1. \/ status' = status
      \/ \E to \in Statuses : status' = [status EXCEPT ![n] = to]
  BY DEF NodeStep, Outcome, OtherVerb, Green, Block, Park, Seam, ResolveUnbuilt,
         Dispatch, Progress, ReEnter, RecordVerdict, RecordProvisionalVerdict,
         SetArchRatified, SetStatus, Statuses, ActiveStates, TerminalOutcomes,
         DispositionTerminals
<1> QED
  BY <1>1 DEF TypeOK

\* The verbs and reports beside the outcomes lead to no terminal.
LEMMA NoTerminal ==
  ASSUME TypeOK, NEW n \in Node, OtherVerb(n) \/ OtherReport(n)
  PROVE  status'[n] = status[n] \/ status'[n] \notin TerminalOutcomes
<1>1. CASE OtherVerb(n)
  BY <1>1 DEF OtherVerb, Dispatch, Progress, ReEnter, RecordVerdict, RecordProvisionalVerdict,
              SetArchRatified, SetStatus, ActiveStates, TerminalOutcomes, TypeOK
<1>2. CASE OtherReport(n)
  BY <1>2 DEF OtherReport, ReportSyntaxOk, ReportSyntaxFail, ReportOfflineVerdict,
              ReportOfflineDefect, TerminalOutcomes, Ungenerated, TypeOK
<1> QED
  BY <1>1, <1>2

\* A step of the layer is a step of the driven run, or leaves its state alone.
LEMMA MutexStepIsDriven ==
  ASSUME NEW n \in Node, MutexStep(n)
  PROVE  NodeStep(n) \/ Report(n) \/ UNCHANGED vars
BY DEF MutexStep, NodeStep, Report, Acquire, Release

LEMMA MutexTypes ==
  ASSUME MutexTypeOK, [MutexNext]_mutexVars
  PROVE  MutexTypeOK'
<1>1. ASSUME NEW n \in Node, MutexStep(n) PROVE MutexTypeOK'
  <2>1. TypeOK'
    <3>1. CASE NodeStep(n)
      BY <3>1, NodeStepType DEF MutexTypeOK
    <3>2. CASE Report(n)
      BY <3>2, ReportType DEF MutexTypeOK
    <3>3. CASE UNCHANGED vars
      BY <3>3 DEF MutexTypeOK, TypeOK, vars, artifactVars, registerVars
    <3> QED
      BY <1>1, <3>1, <3>2, <3>3, MutexStepIsDriven
  <2>2. activateMutex' \in [Transport -> Node \cup {NoOwner}]
    BY <1>1 DEF MutexTypeOK, MutexStep, Acquire, Release, ReleaseIfOwner
  <2> QED
    BY <2>1, <2>2 DEF MutexTypeOK
<1>2. CASE UNCHANGED mutexVars
  BY <1>2 DEF MutexTypeOK, TypeOK, mutexVars, vars, artifactVars, registerVars
<1> QED
  BY <1>1, <1>2 DEF MutexNext

LEMMA MutexInitTypes == MutexInit => MutexTypeOK
BY InitType DEF MutexInit, MutexTypeOK

-------------------------------------------------------------------------------
\* The layer is one: with the mutex the driven run still is one, so all that is
\* proved of it holds beside the mutex (loop.js, acquireActivation and
\* releaseActivation, change nothing else).
THEOREM MutexKeepsDriver == MutexSpec => DriveSpec
<1>1. MutexInit => Init
  BY DEF MutexInit
<1>2. [MutexNext]_mutexVars => [DriveNext]_vars
  BY MutexStepIsDriven DEF MutexNext, DriveNext, mutexVars
<1> QED
  BY <1>1, <1>2, PTL DEF MutexSpec, DriveSpec

\* Who loses the mutex.
LEMMA OwnerLetsGo ==
  ASSUME MutexTypeOK, NEW k \in Node, MutexStep(k),
         NEW t \in Transport, NEW n \in Node,
         activateMutex[t] = n, activateMutex'[t] # n
  PROVE  k = n /\ TransportOf[k] = t /\ activateMutex'[t] = NoOwner
<1>1. n # NoOwner
  BY TransportAssumption
<1>2. TransportOf[k] \in Transport
  BY TransportAssumption
<1> QED
  BY <1>1, <1>2
     DEF MutexTypeOK, MutexStep, Acquire, Release, ReleaseIfOwner, Owns

\* Whoever gets to a terminal has let it go.
LEMMA TerminalLetsGo ==
  ASSUME MutexTypeOK, NEW k \in Node, MutexStep(k),
         status'[k] # status[k], status'[k] \in TerminalOutcomes
  PROVE  ~ Owns(k)'
<1>1. k # NoOwner /\ TransportOf[k] \in Transport
  BY TransportAssumption
<1>2. ~ (OtherVerb(k) \/ OtherReport(k))
  BY NoTerminal DEF MutexTypeOK
<1>3. ~ Acquire(k) /\ ~ Release(k)
  BY DEF Acquire, Release, vars
<1>4. ReleaseIfOwner(k)
  BY <1>2, <1>3 DEF MutexStep
<1> QED
  BY <1>1, <1>4 DEF ReleaseIfOwner, Owns, MutexTypeOK

\* The mutex is not taken from its owner, nor along to a terminal (loop.js,
\* acquireActivation, releaseActivation and the release at the end of
\* applyOutcome), by no verb and no report.
THEOREM MutexNotStolen == MutexSpec => NoTheft
<1>1. MutexTypeOK /\ [MutexNext]_mutexVars =>
        [/\ \A t \in Transport, n \in Node :
              activateMutex[t] = n /\ activateMutex'[t] # n =>
                /\ activateMutex'[t] = NoOwner
                /\ \A m \in Node \ {n} : status'[m] = status[m]
         /\ \A n \in Node :
              status'[n] # status[n] /\ status'[n] \in TerminalOutcomes => ~ Owns(n)']_mutexVars
  <2> SUFFICES ASSUME MutexTypeOK, NEW k \in Node, MutexStep(k)
               PROVE  /\ \A t \in Transport, n \in Node :
                           activateMutex[t] = n /\ activateMutex'[t] # n =>
                             /\ activateMutex'[t] = NoOwner
                             /\ \A m \in Node \ {n} : status'[m] = status[m]
                      /\ \A n \in Node : status'[n] # status[n] /\ status'[n] \in TerminalOutcomes
                                           => ~ Owns(n)'
    BY DEF MutexNext
  <2>1. \A m \in Node \ {k} : status'[m] = status[m]
    BY MutexStepIsDriven, OtherStatusKept, ReportIsLocal DEF MutexTypeOK, vars
  <2>2. ASSUME NEW t \in Transport, NEW n \in Node, activateMutex[t] = n, activateMutex'[t] # n
        PROVE  activateMutex'[t] = NoOwner /\ \A m \in Node \ {n} : status'[m] = status[m]
    BY <2>1, <2>2, OwnerLetsGo
  <2>3. ASSUME NEW n \in Node, status'[n] # status[n], status'[n] \in TerminalOutcomes
        PROVE  ~ Owns(n)'
    BY <2>1, <2>3, TerminalLetsGo
  <2> QED
    BY <2>2, <2>3
<1> QED
  BY <1>1, MutexInitTypes, MutexTypes, PTL DEF MutexSpec, NoTheft
===============================================================================
