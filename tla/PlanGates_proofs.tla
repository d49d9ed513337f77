--------------------------- MODULE PlanGates_proofs ---------------------------
(***************************************************************************)
(* The plan-time gates, for every set of nodes, dispositions, shapes and   *)
(* models, every evidence and every bound.                                 *)
(*                                                                         *)
(* The properties speak of the files; between two writes of a command the  *)
(* files are what the last write left, and what comes next is in todo.     *)
(* The inductive invariant therefore says of every write that is still to  *)
(* be made what it says of the file it will become, and of the last three  *)
(* writes of an arch what the register, the state and the manifest will be *)
(* to each other.  A state that is still to be written has the files of    *)
(* its contracts before it, or the files have them already; and if it      *)
(* binds another contract than the reviewer has read, the file that        *)
(* overtakes the reading comes first.  NoDecisionLost rests on the times of the decisions      *)
(* being all different, so that there is a last one, and on no write of    *)
(* the register being left when replan has answered.                       *)
(***************************************************************************)
EXTENDS PlanGates, FiniteSetTheorems, SequenceTheorems, WellFoundedInduction, TLAPS

Kinds == {"ARCH_REVIEW", "NO_TARGET_SHAPE", "DISPOSITION_REVIEW"}

Row ==
  [kind : Kinds, node : Node, status : {"OPEN", "RESOLVED"}, run : Plan \cup {None},
   verb : {"override", "shape", "other", "approve", None},
   arg : Disposition \cup Shape \cup {None}, at : Nat]

DecidedRows(reg) == {i \in DOMAIN reg : reg[i].at > 0}

\* A register: what is open is undecided, an override names a disposition, and
\* the decisions have the times 1, 2, ... in some order.
RegisterOK(reg) ==
  /\ reg \in Seq(Row)
  /\ \A i \in DOMAIN reg :
       /\ reg[i].status = "OPEN" => reg[i].run = None /\ reg[i].at = 0
       /\ reg[i].at > 0 /\ reg[i].verb = "override" => reg[i].arg \in Disposition
       /\ reg[i].at <= Cardinality(DecidedRows(reg))
  /\ \A i, j \in DecidedRows(reg) : reg[i].at = reg[j].at => i = j

Contract == [disposition : Disposition, shape : Shape]

Bindings ==
  [ref : Plan, hash : Contract, by : {None, "auto", "human"}, review : Contract \cup {None}]

States == [bound : [Node -> Bindings \cup {None}], word : SUBSET Node]

\* What the state of a run says of one node.
NodeOK(p, s, n) ==
  s.bound[n] # None =>
    /\ s.bound[n].hash.disposition = DispositionOf(p, n)
    /\ n \in GatedIn(p)
    /\ s.bound[n].by # None =>
         /\ n \in s.word
         /\ s.bound[n].review = s.bound[n].hash

StateOK(p, s) ==
  /\ s \in States
  /\ \A n \in Node : NodeOK(p, s, n)

Manifests == [Node -> Model \cup {None}]

Files == {"contract", "plan", "state", "manifest", "register", "arch_register"}

ContractFile == [node : Node, hash : Contract]

Writes ==
  [file : Files, run : Plan,
   content : Plan \cup States \cup Manifests \cup Seq(Row) \cup ContractFile]

\* What a write must be, given the plans there are.
WriteOK(w, ps) ==
  /\ w.file = "state" => w.run \in ps /\ StateOK(w.run, w.content)
  /\ w.file = "manifest" => w.content \in Manifests
  /\ w.file = "contract" => w.content \in ContractFile
  /\ w.file \in {"register", "arch_register"} => RegisterOK(w.content)

PlansOK == plans \subseteq Plan

StatesOK ==
  /\ DOMAIN state \subseteq plans
  /\ \A p \in DOMAIN state : StateOK(p, state[p])

ManifestsOK == \A p \in DOMAIN manifest : manifest[p] \in Manifests

CacheOK == \A k \in DOMAIN cache : cache[k] \in Fits[k.fact][k.disposition]

RowsOK == RegisterOK(rows)

TodoOK ==
  /\ todo \in Seq(Writes)
  /\ \A i \in DOMAIN todo : WriteOK(todo[i], plans)

ReplyOK ==
  reply.from # None =>
    /\ \A i \in DOMAIN todo : todo[i].file = "state"
    /\ NoDecisionLost

\* Every gated node is ratified, asked about, or in front of a person.
Covered(p, bound, requests, reg) ==
  \A n \in GatedIn(p) :
    \/ requests[n] # None
    \/ Ratified(bound[n])
    \/ \E i \in DOMAIN reg : /\ reg[i].node = n /\ reg[i].status = "OPEN"
                             /\ reg[i].kind \in {"ARCH_REVIEW", "NO_TARGET_SHAPE"}

\* The contracts a state binds are on file, or will be before the state is.
StatesFiled ==
  \A p \in DOMAIN state : \A n \in Node : state[p].bound[n] # None =>
    <<state[p].bound[n].ref, n>> \in DOMAIN onFile

ComesBefore(W, k, p, n) ==
  \E j \in DOMAIN W : /\ j < k /\ W[j].file = "contract"
                      /\ W[j].run = p /\ W[j].content.node = n

FilesComeFirst(W) ==
  \A k \in DOMAIN W : W[k].file = "state" =>
    \A n \in Node : W[k].content.bound[n] # None =>
      LET ref == W[k].content.bound[n].ref
      IN  <<ref, n>> \in DOMAIN onFile \/ ComesBefore(W, k, ref, n)

\* The contract the reviewer has read is not replaced behind the reviewer's back.
Readings ==
  [run : Plan \cup {None}, node : Node \cup {None}, read : Contract \cup {None, Overtaken}]

ReadingHolds(W) ==
  reading.run # None /\ reading.read # Overtaken /\ reading.node \in Node =>
    \A k \in DOMAIN W : W[k].file = "state" /\ W[k].run = reading.run =>
      LET b == W[k].content.bound[reading.node]
      IN  b # None =>
            b.hash = reading.read \/ \E j \in DOMAIN W : j < k /\ Overtakes(W[j])

\* An arch that is under way has the register as its last write, after the state,
\* after the manifest.
CoversAt(W, k, p) ==
  /\ k = Len(W)
  /\ k = 1 => Covered(p, state[p].bound, manifest[p], W[k].content)
  /\ k = 2 => /\ W[1].file = "state" /\ W[1].run = p
              /\ Covered(p, W[1].content.bound, manifest[p], W[k].content)
  /\ k >= 3 => /\ W[k - 1].file = "state" /\ W[k - 1].run = p
               /\ W[k - 2].file = "manifest" /\ W[k - 2].run = p
               /\ Covered(p, W[k - 1].content.bound, W[k - 2].content, W[k].content)

ArchCoversAll(W) ==
  \A k \in DOMAIN W : W[k].file = "arch_register" => CoversAt(W, k, W[k].run)

Prepared(W) == FilesComeFirst(W) /\ ReadingHolds(W) /\ ArchCoversAll(W)

ReadingOK == reading \in Readings /\ ReviewedAsRead

FilesOK == PlansOK /\ StatesOK /\ ManifestsOK /\ CacheOK /\ RowsOK

IInv == FilesOK /\ StatesFiled /\ ReadingOK /\ TodoOK /\ Prepared(todo) /\ ReplyOK

-------------------------------------------------------------------------------
\* Numbers, lists of nodes, and the register.

LEMMA LeastNumber ==
  ASSUME NEW T, T \subseteq Nat, T # {}
  PROVE  \E n \in T : \A m \in T : n <= m
<1> DEFINE R == {p \in Nat \X Nat : p[1] < p[2]}
<1>1. IsWellFoundedOn(R, Nat)
  BY NatLessThanWellFounded DEF OpToRel
<1>2. PICK n \in T : \A m \in T : ~ (<<m, n>> \in R)
  BY <1>1, WFMin DEF R
<1>3. ASSUME NEW m \in T PROVE n <= m
  <2>1. <<m, n>> \in Nat \X Nat /\ ~ (<<m, n>> \in R)
    BY <1>2
  <2>2. ~ (m < n)
    BY <2>1
  <2> QED
    BY <2>2
<1> QED
  BY <1>2, <1>3

\* A list of a finite set has every element.
LEMMA Listed ==
  ASSUME NEW S, IsFiniteSet(S)
  PROVE  /\ Cardinality(S) \in Nat
         /\ SetToSeq(S) \in [1..Cardinality(S) -> S]
         /\ \A x \in S : \E i \in 1..Cardinality(S) : SetToSeq(S)[i] = x
<1> DEFINE n == Cardinality(S)
           f == SetToSeq(S)
<1>1. n \in Nat /\ \E g \in [1..n -> S] : IsInjective(g)
  BY FS_CardinalityType DEF ExistsBijection, Bijection, Injection
<1>2. f \in [1..n -> S] /\ IsInjective(f)
  BY <1>1 DEF SetToSeq
<1>3. f \in Injection(1..n, S)
  BY <1>2 DEF Injection
<1>4. Cardinality(1..n) = n
  BY <1>1, FS_Interval
<1>5. f \in Surjection(1..n, S)
  BY <1>3, <1>4, FS_Injection
<1> QED
  BY <1>1, <1>2, <1>5 DEF Surjection

\* The decided rows of a register are finitely many.
LEMMA DecidedFinite ==
  ASSUME NEW reg \in Seq(Row)
  PROVE  /\ IsFiniteSet(DecidedRows(reg))
         /\ Cardinality(DecidedRows(reg)) \in Nat
<1>1. Len(reg) \in Nat /\ DOMAIN reg = 1..Len(reg)
  BY LenProperties
<1>2. IsFiniteSet(DOMAIN reg)
  BY <1>1, FS_Interval
<1>3. DecidedRows(reg) \in SUBSET (DOMAIN reg)
  BY DEF DecidedRows
<1> QED
  BY <1>2, <1>3, FS_Subset, FS_CardinalityType

\* All rows of a register are in another one; all nodes are asked about in one.
Keeps(R, reg) == \A i \in DOMAIN reg : i \in DOMAIN R /\ R[i] = reg[i]

AsksAll(R, kind, nodes) ==
  \A n \in nodes : \E i \in DOMAIN R :
    R[i].kind = kind /\ R[i].node = n /\ R[i].status = "OPEN"

\* Raising keeps what the register has, asks about every node, and decides nothing.
LEMMA RaisedRows ==
  ASSUME NEW reg, RegisterOK(reg), NEW kind \in Kinds, NEW nodes \in SUBSET Node,
         NEW R, R = RaiseAll(reg, kind, nodes)
  PROVE  RegisterOK(R) /\ Keeps(R, reg) /\ AsksAll(R, kind, nodes)
<1> DEFINE U == Unasked(reg, kind, nodes)
           m == Cardinality(U)
           t == [i \in DOMAIN SetToSeq(U) |-> Opened(kind, SetToSeq(U)[i])]
<1>1. R = reg \o t
  BY DEF RaiseAll
<1>2. U \in SUBSET Node /\ U \subseteq nodes
  BY DEF Unasked
<1>3. IsFiniteSet(U)
  BY <1>2, FS_Subset, PlanGatesAssumption
<1>4. /\ m \in Nat
      /\ SetToSeq(U) \in [1..m -> U]
      /\ \A x \in U : \E i \in 1..m : SetToSeq(U)[i] = x
  BY <1>3, Listed
<1>5. \A n \in Node : Opened(kind, n) \in Row
  BY DEF Opened, Row
<1>6. t = [i \in 1..m |-> Opened(kind, SetToSeq(U)[i])] /\ t \in [1..m -> Row]
  <2>1. DOMAIN SetToSeq(U) = 1..m
    BY <1>4
  <2>2. \A i \in 1..m : SetToSeq(U)[i] \in Node
    BY <1>2, <1>4
  <2> QED
    BY <2>1, <2>2, <1>5
<1>7. t \in Seq(Row) /\ Len(t) = m
  BY <1>4, <1>6
<1>8. /\ reg \in Seq(Row) /\ Len(reg) \in Nat /\ DOMAIN reg = 1..Len(reg)
  BY LenProperties DEF RegisterOK
<1>9. /\ R \in Seq(Row) /\ Len(R) = Len(reg) + m /\ DOMAIN R = 1..(Len(reg) + m)
      /\ \A i \in 1..(Len(reg) + m) : R[i] = IF i <= Len(reg) THEN reg[i] ELSE t[i - Len(reg)]
  BY <1>1, <1>7, <1>8, ConcatProperties, LenProperties
<1>10. ASSUME NEW i \in DOMAIN reg PROVE i \in DOMAIN R /\ R[i] = reg[i]
  <2>1. i \in 1..(Len(reg) + m) /\ i <= Len(reg)
    BY <1>4, <1>8
  <2> QED
    BY <2>1, <1>9
<1>11. \A i \in DOMAIN R : i \notin DOMAIN reg =>
         R[i].status = "OPEN" /\ R[i].run = None /\ R[i].at = 0
  <2> SUFFICES ASSUME NEW i \in DOMAIN R, i \notin DOMAIN reg
               PROVE  R[i].status = "OPEN" /\ R[i].run = None /\ R[i].at = 0
    OBVIOUS
  <2>1. i - Len(reg) \in 1..m /\ R[i] = t[i - Len(reg)]
    BY <1>4, <1>8, <1>9
  <2>2. R[i] = Opened(kind, SetToSeq(U)[i - Len(reg)])
    BY <2>1, <1>6
  <2> QED
    BY <2>2 DEF Opened
<1> HIDE DEF t
<1>12. DecidedRows(R) = DecidedRows(reg)
  BY <1>10, <1>11 DEF DecidedRows
<1> QED
  <2>1. \A i \in DOMAIN R : /\ R[i].status = "OPEN" => R[i].run = None /\ R[i].at = 0
                            /\ R[i].at > 0 /\ R[i].verb = "override" => R[i].arg \in Disposition
                            /\ R[i].at <= Cardinality(DecidedRows(R))
    BY <1>10, <1>11, <1>12, <1>8, DecidedFinite DEF RegisterOK
  <2>2. \A i, j \in DecidedRows(R) : R[i].at = R[j].at => i = j
    BY <1>10, <1>12 DEF RegisterOK, DecidedRows
  <2>3. RegisterOK(R)
    BY <1>9, <2>1, <2>2 DEF RegisterOK
  <2>4. ASSUME NEW n \in nodes
        PROVE  \E i \in DOMAIN R : R[i].kind = kind /\ R[i].node = n /\ R[i].status = "OPEN"
    <3>1. CASE n \in U
      <4>1. PICK k \in 1..m : SetToSeq(U)[k] = n
        BY <3>1, <1>4
      <4>2. k + Len(reg) \in DOMAIN R /\ R[k + Len(reg)] = t[k]
        BY <1>4, <1>8, <1>9
      <4>3. t[k] = Opened(kind, n)
        BY <4>1, <1>6
      <4> QED
        BY <4>2, <4>3 DEF Opened
    <3>2. CASE n \notin U
      <4>1. PICK k \in DOMAIN reg : reg[k].kind = kind /\ reg[k].node = n /\ reg[k].status = "OPEN"
        BY <3>2 DEF Unasked
      <4> QED
        BY <4>1, <1>10
    <3> QED
      BY <3>1, <3>2
  <2> QED
    BY <1>10, <2>3, <2>4 DEF Keeps, AsksAll

LEMMA DecidedRow ==
  ASSUME NEW row \in Row, NEW p \in Plan,
         NEW verb \in {"override", "shape", "other", "approve"},
         NEW arg \in Disposition \cup Shape \cup {None}, NEW at \in Nat
  PROVE  [row EXCEPT !.status = "RESOLVED", !.run = p, !.verb = verb,
                     !.arg = arg, !.at = at] \in Row
BY DEF Row

\* A decision gets a time of its own, later than all others.
LEMMA DecisionKeeps ==
  ASSUME RegisterOK(rows), NEW i \in DOMAIN rows, rows[i].status = "OPEN", NEW p \in Plan,
         NEW verb \in {"override", "shape", "other", "approve"},
         NEW arg \in Disposition \cup Shape \cup {None},
         verb = "override" => arg \in Disposition
  PROVE  RegisterOK(Resolve(i, p, verb, arg))
<1> DEFINE c == Cardinality(DecidedRows(rows))
           R == Resolve(i, p, verb, arg)
<1>1. /\ rows \in Seq(Row) /\ Len(rows) \in Nat /\ DOMAIN rows = 1..Len(rows)
      /\ c \in Nat /\ IsFiniteSet(DecidedRows(rows)) /\ Decided = DecidedRows(rows)
  BY LenProperties, DecidedFinite DEF RegisterOK, Decided, DecidedRows
<1>2. \A j \in DOMAIN rows : rows[j] \in Row
  BY <1>1, ElementOfSeq
<1> DEFINE row == [rows[i] EXCEPT !.status = "RESOLVED", !.run = p, !.verb = verb,
                                  !.arg = arg, !.at = c + 1]
<1>3. row \in Row
  <2>1. rows[i] \in Row /\ c + 1 \in Nat
    BY <1>1, <1>2
  <2> HIDE DEF c
  <2> QED
    BY <2>1, DecidedRow
<1>4. /\ row.status = "RESOLVED" /\ row.run = p /\ row.verb = verb
      /\ row.arg = arg /\ row.at = c + 1
  BY <1>2 DEF Row
<1> HIDE DEF row
<1>14. R = [rows EXCEPT ![i] = row]
  BY <1>1 DEF Resolve, row
<1>5. /\ R \in Seq(Row) /\ DOMAIN R = DOMAIN rows
      /\ \A j \in DOMAIN rows : R[j] = IF j = i THEN row ELSE rows[j]
  BY <1>1, <1>3, <1>14, ExceptSeq
<1> HIDE DEF R
<1>6. i \notin DecidedRows(rows)
  <2>1. rows[i].at = 0
    BY DEF RegisterOK
  <2> QED
    BY <2>1 DEF DecidedRows
<1>7. DecidedRows(R) = DecidedRows(rows) \cup {i}
  <2>1. row.at > 0
    BY <1>1, <1>4
  <2>2. R[i].at > 0 /\ \A j \in DOMAIN rows : j # i => R[j].at = rows[j].at
    BY <2>1, <1>5
  <2> QED
    BY <1>5, <2>2 DEF DecidedRows
<1>8. Cardinality(DecidedRows(R)) = c + 1
  BY <1>1, <1>6, <1>7, FS_AddElement
<1>9. \A j \in DOMAIN rows : rows[j].at \in Nat /\ rows[j].at <= c
  BY <1>2 DEF RegisterOK, Row
<1>10. \A j \in DOMAIN R : /\ R[j].status = "OPEN" => R[j].run = None /\ R[j].at = 0
                           /\ R[j].at > 0 /\ R[j].verb = "override" => R[j].arg \in Disposition
                           /\ R[j].at <= c + 1
  <2> SUFFICES ASSUME NEW j \in DOMAIN R
               PROVE  /\ R[j].status = "OPEN" => R[j].run = None /\ R[j].at = 0
                      /\ R[j].at > 0 /\ R[j].verb = "override" => R[j].arg \in Disposition
                      /\ R[j].at <= c + 1
    OBVIOUS
  <2>1. CASE j = i
    BY <2>1, <1>1, <1>4, <1>5
  <2>2. CASE j # i
    <3>1. j \in DOMAIN rows /\ R[j] = rows[j]
      BY <2>2, <1>5
    <3>2. R[j].at <= c + 1
      BY <3>1, <1>1, <1>9
    <3> QED
      BY <3>1, <3>2 DEF RegisterOK
  <2> QED
    BY <2>1, <2>2
<1>11. \A j, k \in DecidedRows(R) : R[j].at = R[k].at => j = k
  <2> SUFFICES ASSUME NEW j \in DecidedRows(R), NEW k \in DecidedRows(R), R[j].at = R[k].at
               PROVE  j = k
    OBVIOUS
  <2>1. \A x \in DecidedRows(rows) : x \in DOMAIN rows /\ x # i /\ R[x].at = rows[x].at /\ R[x].at <= c
    BY <1>5, <1>6, <1>9 DEF DecidedRows
  <2>2. R[i].at = c + 1
    BY <1>4, <1>5
  <2>3. CASE j = i \/ k = i
    BY <2>1, <2>2, <2>3, <1>7, <1>1
  <2>4. CASE j # i /\ k # i
    BY <2>1, <2>4, <1>7 DEF RegisterOK
  <2> QED
    BY <2>3, <2>4
<1> QED
  BY <1>5, <1>8, <1>10, <1>11 DEF RegisterOK, R

\* An answered review decides nothing.
LEMMA ReviewAnsweredKeeps ==
  ASSUME RegisterOK(rows), NEW i \in DOMAIN rows
  PROVE  RegisterOK(ResolveReview(i))
<1> DEFINE R == ResolveReview(i)
           row == [rows[i] EXCEPT !.status = "RESOLVED"]
<1>1. /\ rows \in Seq(Row) /\ Len(rows) \in Nat /\ DOMAIN rows = 1..Len(rows)
      /\ Cardinality(DecidedRows(rows)) \in Nat
  BY LenProperties, DecidedFinite DEF RegisterOK
<1>2. rows[i] \in Row
  BY <1>1, ElementOfSeq
<1>3. /\ row \in Row /\ row.status = "RESOLVED" /\ row.run = rows[i].run
      /\ row.verb = rows[i].verb /\ row.arg = rows[i].arg /\ row.at = rows[i].at
  BY <1>2 DEF Row
<1>4. R = [rows EXCEPT ![i] = row]
  BY <1>1 DEF ResolveReview
<1>5. /\ R \in Seq(Row) /\ DOMAIN R = DOMAIN rows
      /\ \A j \in DOMAIN rows : R[j] = IF j = i THEN row ELSE rows[j]
  BY <1>1, <1>3, <1>4, ExceptSeq
<1> HIDE DEF R, row
<1>6. DecidedRows(R) = DecidedRows(rows)
  BY <1>3, <1>5 DEF DecidedRows
<1>7. \A j \in DOMAIN R : R[j].at = rows[j].at
  BY <1>3, <1>5
<1>8. \A j \in DOMAIN R : /\ R[j].status = "OPEN" => R[j].run = None /\ R[j].at = 0
                          /\ R[j].at > 0 /\ R[j].verb = "override" => R[j].arg \in Disposition
                          /\ R[j].at <= Cardinality(DecidedRows(R))
  <2> SUFFICES ASSUME NEW j \in DOMAIN R
               PROVE  /\ R[j].status = "OPEN" => R[j].run = None /\ R[j].at = 0
                      /\ R[j].at > 0 /\ R[j].verb = "override" => R[j].arg \in Disposition
                      /\ R[j].at <= Cardinality(DecidedRows(R))
    OBVIOUS
  <2>1. /\ j \in DOMAIN rows /\ R[j].at = rows[j].at /\ R[j].run = rows[j].run
        /\ R[j].verb = rows[j].verb /\ R[j].arg = rows[j].arg
        /\ R[j].status = "OPEN" => rows[j].status = "OPEN"
    BY <1>3, <1>5
  <2> QED
    BY <2>1, <1>6 DEF RegisterOK
<1>9. \A j, k \in DecidedRows(R) : R[j].at = R[k].at => j = k
  BY <1>5, <1>6, <1>7 DEF RegisterOK, DecidedRows
<1> QED
  BY <1>5, <1>8, <1>9 DEF RegisterOK, R
\* Of the decisions about a node there is a last one.
LEMMA LastDecision ==
  ASSUME RowsOK, NEW p, NEW n, DecidedIn(p, n) # {}
  PROVE  /\ Final(p, n) \in DecidedIn(p, n)
         /\ \A j \in DecidedIn(p, n) : rows[j].at <= rows[Final(p, n)].at
<1> DEFINE D == DecidedIn(p, n)
           T == {k \in Nat : \A j \in D : rows[j].at <= k}
<1>1. /\ rows \in Seq(Row) /\ Cardinality(DecidedRows(rows)) \in Nat
      /\ \A j \in DOMAIN rows : rows[j] \in Row
  BY DecidedFinite, ElementOfSeq, LenProperties DEF RowsOK, RegisterOK
<1>2. \A j \in D : j \in DOMAIN rows /\ rows[j].at \in Nat /\ rows[j].at > 0
  BY <1>1 DEF DecidedIn, Decided, Row
<1>3. Cardinality(DecidedRows(rows)) \in T
  BY <1>1, <1>2 DEF RowsOK, RegisterOK
<1>4. T \subseteq Nat /\ T # {}
  BY <1>3
<1>5. PICK k \in T : \A m \in T : k <= m
  BY <1>4, LeastNumber
<1>6. \E j \in D : rows[j].at = k
  <2> SUFFICES ASSUME \A j \in D : rows[j].at # k
               PROVE  FALSE
    OBVIOUS
  <2>1. k \in Nat /\ \A j \in D : rows[j].at < k
    BY <1>2, <1>5
  <2>2. k > 0
    BY <2>1, <1>2
  <2>3. k - 1 \in Nat /\ \A j \in D : rows[j].at <= k - 1
    BY <2>1, <2>2, <1>2
  <2>4. k <= k - 1
    BY <2>3, <1>5
  <2> QED
    BY <2>1, <2>4
<1>7. \E i \in D : \A j \in D : rows[j].at <= rows[i].at
  BY <1>5, <1>6
<1> QED
  BY <1>7 DEF Final

-------------------------------------------------------------------------------
\* The writes, made one by one.

\* Making a write that is all right leaves the files all right.
LEMMA MadeKeeps ==
  ASSUME FilesOK, NEW w \in Writes, WriteOK(w, plans), Made(w)
  PROVE  FilesOK' /\ plans \subseteq plans'
<1>1. w.file \in Files /\ w.run \in Plan
  BY DEF Writes
<1>2. PlansOK' /\ plans \subseteq plans'
  BY <1>1 DEF FilesOK, PlansOK, Made
<1>3. StatesOK'
  <2>1. CASE w.file = "state"
    <3>1. state' = Put(state, w.run, w.content) /\ w.run \in plans /\ StateOK(w.run, w.content)
      BY <2>1 DEF Made, WriteOK
    <3>4. /\ DOMAIN state' = DOMAIN state \cup {w.run} /\ state'[w.run] = w.content
          /\ \A x \in DOMAIN state : x # w.run => state'[x] = state[x]
      BY <3>1 DEF Put
    <3>2. DOMAIN state' \subseteq plans
      BY <3>1, <3>4 DEF FilesOK, StatesOK
    <3>3. \A p \in DOMAIN state' : StateOK(p, state'[p])
      BY <3>1, <3>4 DEF FilesOK, StatesOK
    <3> QED
      BY <1>2, <3>2, <3>3 DEF StatesOK
  <2>2. CASE w.file # "state"
    <3>1. state' = state
      BY <2>2 DEF Made
    <3> QED
      BY <1>2, <3>1 DEF FilesOK, StatesOK
  <2> QED
    BY <2>1, <2>2
<1>4. ManifestsOK'
  <2>1. CASE w.file = "manifest"
    <3>1. manifest' = Put(manifest, w.run, w.content) /\ w.content \in Manifests
      BY <2>1 DEF Made, WriteOK
    <3>2. /\ DOMAIN manifest' = DOMAIN manifest \cup {w.run} /\ manifest'[w.run] = w.content
          /\ \A x \in DOMAIN manifest : x # w.run => manifest'[x] = manifest[x]
      BY <3>1 DEF Put
    <3> QED
      BY <3>1, <3>2 DEF FilesOK, ManifestsOK
  <2>2. CASE w.file # "manifest"
    BY <2>2 DEF Made, FilesOK, ManifestsOK
  <2> QED
    BY <2>1, <2>2
<1>5. CacheOK'
  BY DEF Made, FilesOK, CacheOK
<1>6. RowsOK'
  <2>1. CASE w.file \in {"register", "arch_register"}
    <3>1. rows' = w.content /\ RegisterOK(w.content)
      BY <2>1 DEF Made, WriteOK
    <3> QED
      BY <3>1 DEF RowsOK
  <2>2. CASE w.file \notin {"register", "arch_register"}
    <3>1. rows' = rows
      BY <2>2 DEF Made
    <3> QED
      BY <3>1 DEF FilesOK, RowsOK
  <2> QED
    BY <2>1, <2>2
<1> QED
  BY <1>2, <1>3, <1>4, <1>5, <1>6 DEF FilesOK

LEMMA MorePlans ==
  ASSUME NEW w, NEW ps, NEW qs, ps \subseteq qs, WriteOK(w, ps)
  PROVE  WriteOK(w, qs)
BY DEF WriteOK

LEMMA FirstAndLater ==
  ASSUME NEW W \in Seq(Writes), W # <<>>
  PROVE  /\ Len(W) \in Nat /\ Len(W) >= 1 /\ DOMAIN W = 1..Len(W)
         /\ Head(W) = W[1] /\ W[1] \in Writes
         /\ Tail(W) \in Seq(Writes) /\ Len(Tail(W)) = Len(W) - 1
         /\ DOMAIN Tail(W) = 1..(Len(W) - 1)
         /\ \A i \in DOMAIN Tail(W) : i + 1 \in 2..Len(W) /\ Tail(W)[i] = W[i + 1]
<1>1. /\ Len(W) \in Nat /\ Len(W) >= 1 /\ DOMAIN W = 1..Len(W)
      /\ W[1] \in Writes /\ Head(W) = W[1]
  BY EmptySeq, LenProperties, ElementOfSeq
<1>2. /\ Tail(W) \in Seq(Writes) /\ Len(Tail(W)) = Len(W) - 1
      /\ \A i \in 1..Len(Tail(W)) : Tail(W)[i] = W[i + 1]
  BY HeadTailProperties
<1>3. DOMAIN Tail(W) = 1..(Len(W) - 1)
  BY <1>2, LenProperties
<1> QED
  BY <1>1, <1>2, <1>3

\* A command makes its first write and leaves the others.
LEMMA DoesKeeps ==
  ASSUME FilesOK, NEW W \in Seq(Writes), W # <<>>, Does(W), WriteOK(W[1], plans),
         \A i \in 2..Len(W) : WriteOK(W[i], plans')
  PROVE  FilesOK' /\ TodoOK'
<1>1. W[1] \in Writes /\ Made(W[1]) /\ todo' = Tail(W)
  BY FirstAndLater DEF Does
<1>2. \A i \in DOMAIN todo' : WriteOK(todo'[i], plans')
  <2> SUFFICES ASSUME NEW i \in DOMAIN todo'
               PROVE  WriteOK(todo'[i], plans')
    OBVIOUS
  <2>1. i + 1 \in 2..Len(W) /\ todo'[i] = W[i + 1]
    BY <1>1, FirstAndLater
  <2> QED
    BY <2>1
<1>3. TodoOK'
  BY <1>1, <1>2, FirstAndLater DEF TodoOK
<1> QED
  BY <1>1, <1>3, MadeKeeps

\* What an arch has left covers everybody, when its first write is made.
LEMMA LaterCovers ==
  ASSUME NEW W \in Seq(Writes), W # <<>>, ArchCoversAll(W), Made(W[1]),
         NEW T \in Seq(Writes), Len(T) = Len(W) - 1, DOMAIN T = 1..(Len(W) - 1),
         \A i \in DOMAIN T : i + 1 \in DOMAIN W /\ T[i] = W[i + 1],
         NEW k \in DOMAIN T, T[k].file = "arch_register"
  PROVE  /\ k = Len(T)
         /\ k = 1 => Covered(T[k].run, state'[T[k].run].bound, manifest'[T[k].run], T[k].content)
         /\ k = 2 => /\ T[1].file = "state" /\ T[1].run = T[k].run
                     /\ Covered(T[k].run, T[1].content.bound, manifest'[T[k].run], T[k].content)
         /\ k >= 3 => /\ T[k - 1].file = "state" /\ T[k - 1].run = T[k].run
                      /\ T[k - 2].file = "manifest" /\ T[k - 2].run = T[k].run
                      /\ Covered(T[k].run, T[k - 1].content.bound, T[k - 2].content, T[k].content)
<1>1. PICK p : p = T[k].run
  OBVIOUS
<1>2. Len(W) \in Nat /\ DOMAIN W = 1..Len(W) /\ k \in Nat /\ k >= 1
  BY LenProperties
<1>3. k + 1 \in DOMAIN W /\ T[k] = W[k + 1] /\ CoversAt(W, k + 1, p)
  BY <1>1 DEF ArchCoversAll
<1>4. k + 1 = Len(W) /\ k = Len(T)
  BY <1>2, <1>3 DEF CoversAt
<1>5. CASE k = 1
  <2>1. /\ W[1].file = "state" /\ W[1].run = p
        /\ Covered(p, W[1].content.bound, manifest[p], W[2].content)
    BY <1>3, <1>5 DEF CoversAt
  <2>2. state'[p] = W[1].content /\ manifest' = manifest
    BY <2>1 DEF Made, Put
  <2>3. Covered(p, state'[p].bound, manifest'[p], T[1].content)
    BY <1>3, <1>5, <2>1, <2>2
  <2> QED
    BY <1>1, <1>4, <1>5, <2>3
<1>6. CASE k = 2
  <2>1. /\ W[2].file = "state" /\ W[2].run = p
        /\ W[1].file = "manifest" /\ W[1].run = p
        /\ Covered(p, W[2].content.bound, W[1].content, W[3].content)
    BY <1>3, <1>6 DEF CoversAt
  <2>2. manifest'[p] = W[1].content
    BY <2>1 DEF Made, Put
  <2>3. T[1] = W[2] /\ T[2] = W[3]
    BY <1>2, <1>4, <1>6
  <2> QED
    BY <1>1, <1>4, <1>6, <2>1, <2>2, <2>3
<1>7. CASE k >= 3
  <2>1. /\ W[k].file = "state" /\ W[k].run = p
        /\ W[k - 1].file = "manifest" /\ W[k - 1].run = p
        /\ Covered(p, W[k].content.bound, W[k - 1].content, W[k + 1].content)
    <3>1. k + 1 >= 3 /\ (k + 1) - 1 = k /\ (k + 1) - 2 = k - 1
      BY <1>2, <1>7
    <3> QED
      BY <1>3, <3>1 DEF CoversAt
  <2>2. /\ k - 1 \in DOMAIN T /\ (k - 1) + 1 = k
        /\ k - 2 \in DOMAIN T /\ (k - 2) + 1 = k - 1
    BY <1>2, <1>4, <1>7
  <2>3. T[k - 1] = W[k] /\ T[k - 2] = W[k - 1] /\ T[k] = W[k + 1]
    BY <1>3, <2>2
  <2>4. k # 1 /\ k # 2
    BY <1>2, <1>7
  <2> QED
    BY <1>1, <1>4, <2>1, <2>3, <2>4
<1> QED
  BY <1>2, <1>4, <1>5, <1>6, <1>7

\* What is prepared stays so when the first write is made.
LEMMA PreparedKeeps ==
  ASSUME StatesFiled, ReadingOK, NEW W \in Seq(Writes), W # <<>>, Prepared(W),
         Made(W[1]), todo' = Tail(W)
  PROVE  StatesFiled' /\ ReadingOK' /\ Prepared(todo)'
<1>1. /\ Len(W) \in Nat /\ Len(W) >= 1 /\ DOMAIN W = 1..Len(W) /\ W[1] \in Writes
      /\ todo' \in Seq(Writes) /\ Len(todo') = Len(W) - 1
      /\ DOMAIN todo' = 1..(Len(W) - 1)
  BY FirstAndLater
<1>2. \A k \in DOMAIN todo' : k + 1 \in DOMAIN W /\ k + 1 # 1 /\ todo'[k] = W[k + 1]
  BY <1>1, FirstAndLater
<1> DEFINE w == W[1]
<1>3. /\ DOMAIN onFile \subseteq DOMAIN onFile'
      /\ w.file = "contract" => <<w.run, w.content.node>> \in DOMAIN onFile'
  BY DEF Made, Put
<1>4. ASSUME NEW j \in DOMAIN W, NEW k \in DOMAIN todo', j < k + 1, j # 1
      PROVE  j - 1 \in DOMAIN todo' /\ j - 1 < k /\ todo'[j - 1] = W[j]
  <2>1. j - 1 \in DOMAIN todo' /\ j - 1 < k
    BY <1>1, <1>4
  <2>2. todo'[j - 1] = W[(j - 1) + 1]
    BY <2>1, <1>2
  <2>3. (j - 1) + 1 = j
    BY <1>1
  <2> QED
    BY <2>1, <2>2, <2>3
<1>5. /\ w.file # "state" => state' = state
      /\ w.file = "state" => state' = Put(state, w.run, w.content)
  BY DEF Made
<1>6. w.file = "state" =>
        /\ DOMAIN state' = DOMAIN state \cup {w.run} /\ state'[w.run] = w.content
        /\ \A x \in DOMAIN state : x # w.run => state'[x] = state[x]
  BY <1>5 DEF Put
<1>7. StatesFiled'
  <2> SUFFICES ASSUME NEW p \in DOMAIN state', NEW n \in Node, state'[p].bound[n] # None
               PROVE  <<state'[p].bound[n].ref, n>> \in DOMAIN onFile'
    BY DEF StatesFiled
  <2>1. CASE p \in DOMAIN state /\ state'[p] = state[p]
    BY <2>1, <1>3 DEF StatesFiled
  <2>2. CASE w.file = "state" /\ p = w.run
    <3>1. state'[p] = w.content /\ 1 \in DOMAIN W
      BY <2>2, <1>1, <1>6
    <3>2. \/ <<w.content.bound[n].ref, n>> \in DOMAIN onFile
          \/ ComesBefore(W, 1, w.content.bound[n].ref, n)
      BY <2>2, <3>1 DEF Prepared, FilesComeFirst
    <3>3. ~ ComesBefore(W, 1, w.content.bound[n].ref, n)
      BY <1>1 DEF ComesBefore
    <3> QED
      BY <3>1, <3>2, <3>3, <1>3
  <2> QED
    BY <2>1, <2>2, <1>5, <1>6
<1>8. FilesComeFirst(todo)'
  <2> SUFFICES ASSUME NEW k \in DOMAIN todo', todo'[k].file = "state",
                      NEW n \in Node, todo'[k].content.bound[n] # None,
                      NEW ref, ref = todo'[k].content.bound[n].ref
               PROVE  <<ref, n>> \in DOMAIN onFile' \/ ComesBefore(todo', k, ref, n)
    BY DEF FilesComeFirst, ComesBefore
  <2>1. <<ref, n>> \in DOMAIN onFile \/ ComesBefore(W, k + 1, ref, n)
    BY <1>2 DEF Prepared, FilesComeFirst
  <2>2. CASE <<ref, n>> \in DOMAIN onFile
    BY <2>2, <1>3
  <2>3. CASE ComesBefore(W, k + 1, ref, n)
    <3>1. PICK j \in DOMAIN W : /\ j < k + 1 /\ W[j].file = "contract"
                               /\ W[j].run = ref /\ W[j].content.node = n
      BY <2>3 DEF ComesBefore
    <3>2. CASE j = 1
      BY <3>1, <3>2, <1>3
    <3>3. CASE j # 1
      BY <3>1, <3>3, <1>4 DEF ComesBefore
    <3> QED
      BY <3>2, <3>3
  <2> QED
    BY <2>1, <2>2, <2>3
<1>9. reading' \in Readings
  BY DEF ReadingOK, Readings, Made
<1>10. ASSUME reading'.run # None, reading'.read # Overtaken
       PROVE  /\ reading' = reading /\ ~ Overtakes(w)
              /\ reading.run \in DOMAIN state
              /\ reading.node \in Bound(reading.run) =>
                   state[reading.run].bound[reading.node].hash = reading.read
  <2>1. ~ Overtakes(w)
    <3> SUFFICES ASSUME Overtakes(w) PROVE FALSE
      OBVIOUS
    <3>1. reading' = [reading EXCEPT !.read = Overtaken]
      BY DEF Made
    <3>2. reading'.read = Overtaken
      BY <3>1 DEF ReadingOK, Readings
    <3> QED
      BY <3>2, <1>10
  <2>2. reading' = reading
    BY <2>1 DEF Made
  <2> QED
    BY <2>1, <2>2, <1>10 DEF ReadingOK, ReviewedAsRead
<1>11. ReviewedAsRead'
  <2> DEFINE n == reading.node
  <2> SUFFICES ASSUME reading'.run # None, reading'.read # Overtaken
               PROVE  /\ reading'.run \in DOMAIN state'
                      /\ reading'.node \in Node /\ state'[reading'.run].bound[reading'.node] # None =>
                           state'[reading'.run].bound[reading'.node].hash = reading'.read
    BY DEF ReviewedAsRead, Bound
  <2>1. /\ reading' = reading /\ reading.run \in DOMAIN state
        /\ n \in Node /\ state[reading.run].bound[n] # None =>
             state[reading.run].bound[n].hash = reading.read
    BY <1>10 DEF Bound
  <2>2. CASE w.file = "state" /\ w.run = reading.run
    <3>1. state'[reading.run] = w.content /\ reading.run \in DOMAIN state' /\ 1 \in DOMAIN W
      BY <2>2, <1>1, <1>6
    <3>2. ASSUME n \in Node, w.content.bound[n] # None
          PROVE  w.content.bound[n].hash = reading.read
      <4>1. \/ w.content.bound[n].hash = reading.read
            \/ \E j \in DOMAIN W : j < 1 /\ Overtakes(W[j])
        BY <2>1, <2>2, <3>1, <3>2 DEF Prepared, ReadingHolds
      <4> QED
        BY <4>1, <1>1
    <3> QED
      BY <2>1, <3>1, <3>2
  <2>3. CASE ~ (w.file = "state" /\ w.run = reading.run)
    <3>1. reading.run \in DOMAIN state' /\ state'[reading.run] = state[reading.run]
      BY <2>1, <2>3, <1>5, <1>6
    <3> QED
      BY <2>1, <3>1
  <2> QED
    BY <2>2, <2>3
<1>12. ReadingHolds(todo)'
  <2> SUFFICES ASSUME reading'.run # None, reading'.read # Overtaken, reading'.node \in Node,
                      NEW k \in DOMAIN todo', todo'[k].file = "state", todo'[k].run = reading'.run,
                      NEW b, b = todo'[k].content.bound[reading'.node]
               PROVE  b # None =>
                         \/ b.hash = reading'.read
                         \/ \E j \in DOMAIN todo' : j < k /\ Overtakes(todo[j])'
    BY DEF ReadingHolds
  <2>1. reading' = reading /\ ~ Overtakes(w)
    BY <1>10
  <2>2. b # None =>
           b.hash = reading.read \/ \E j \in DOMAIN W : j < k + 1 /\ Overtakes(W[j])
    BY <2>1, <1>2 DEF Prepared, ReadingHolds
  <2>3. ASSUME NEW j \in DOMAIN W, j < k + 1, Overtakes(W[j])
        PROVE  j - 1 \in DOMAIN todo' /\ j - 1 < k /\ Overtakes(todo[j - 1])'
    <3>1. j # 1
      BY <2>1, <2>3
    <3>2. j - 1 \in DOMAIN todo' /\ j - 1 < k /\ todo'[j - 1] = W[j]
      BY <3>1, <2>3, <1>4
    <3> QED
      BY <2>1, <2>3, <3>2 DEF Overtakes
  <2> QED
    BY <2>1, <2>2, <2>3
<1>13. ArchCoversAll(todo)'
  <2> SUFFICES ASSUME NEW k \in DOMAIN todo', todo'[k].file = "arch_register"
               PROVE  CoversAt(todo, k, todo[k].run)'
    BY DEF ArchCoversAll
  <2>1. PICK T : T = todo'
    OBVIOUS
  <2>2. /\ T \in Seq(Writes) /\ Len(T) = Len(W) - 1 /\ DOMAIN T = 1..(Len(W) - 1)
        /\ \A i \in DOMAIN T : i + 1 \in DOMAIN W /\ T[i] = W[i + 1]
        /\ k \in DOMAIN T /\ T[k].file = "arch_register" /\ ArchCoversAll(W)
    BY <2>1, <1>1, <1>2 DEF Prepared
  <2>3. /\ k = Len(T)
        /\ k = 1 => Covered(T[k].run, state'[T[k].run].bound, manifest'[T[k].run], T[k].content)
        /\ k = 2 => /\ T[1].file = "state" /\ T[1].run = T[k].run
                    /\ Covered(T[k].run, T[1].content.bound, manifest'[T[k].run], T[k].content)
        /\ k >= 3 => /\ T[k - 1].file = "state" /\ T[k - 1].run = T[k].run
                     /\ T[k - 2].file = "manifest" /\ T[k - 2].run = T[k].run
                     /\ Covered(T[k].run, T[k - 1].content.bound, T[k - 2].content, T[k].content)
    BY <2>2, LaterCovers
  <2> QED
    BY <2>1, <2>3 DEF CoversAt
<1> QED
  BY <1>7, <1>8, <1>9, <1>11, <1>12, <1>13 DEF ReadingOK, Prepared

\* A command that answers nothing.
LEMMA CommandKeeps ==
  ASSUME IInv, NEW W \in Seq(Writes), W # <<>>, Does(W), reply' = NoReply,
         \A i \in DOMAIN W : WriteOK(W[i], plans), Prepared(W)
  PROVE  IInv'
<1>1. /\ FilesOK /\ StatesFiled /\ ReadingOK /\ W[1] \in Writes /\ 1 \in DOMAIN W
      /\ DOMAIN W = 1..Len(W) /\ Len(W) \in Nat /\ Made(W[1]) /\ todo' = Tail(W)
  BY FirstAndLater DEF IInv, Does
<1>2. WriteOK(W[1], plans) /\ plans \subseteq plans'
  BY <1>1, MadeKeeps
<1>3. \A i \in 2..Len(W) : WriteOK(W[i], plans')
  BY <1>1, <1>2, MorePlans
<1>4. FilesOK' /\ TodoOK'
  BY <1>1, <1>2, <1>3, DoesKeeps
<1>5. ReplyOK'
  BY DEF ReplyOK, NoReply
<1> QED
  BY <1>1, <1>4, <1>5, PreparedKeeps DEF IInv

\* Writes of which none is a state or ends an arch need no preparation.
LEMMA NoStatePrepared ==
  ASSUME NEW W, \A k \in DOMAIN W : W[k].file \notin {"state", "arch_register"}
  PROVE  Prepared(W)
BY DEF Prepared, FilesComeFirst, ReadingHolds, ArchCoversAll

\* Nor do writes of a state that binds the contracts the run has bound.
SameContracts(s, t) ==
  \A n \in Node : t.bound[n] # None =>
    /\ s.bound[n] # None
    /\ t.bound[n].ref = s.bound[n].ref /\ t.bound[n].hash = s.bound[n].hash

LEMMA SamePrepared ==
  ASSUME StatesFiled, ReadingOK, NEW p \in DOMAIN state, NEW W,
         \A k \in DOMAIN W :
           /\ W[k].file # "arch_register"
           /\ W[k].file = "state" => W[k].run = p /\ SameContracts(state[p], W[k].content)
  PROVE  Prepared(W)
<1>1. FilesComeFirst(W)
  BY DEF FilesComeFirst, StatesFiled, SameContracts
<1>2. ReadingHolds(W)
  BY DEF ReadingHolds, ReadingOK, ReviewedAsRead, Bound, SameContracts
<1>3. ArchCoversAll(W)
  BY DEF ArchCoversAll
<1> QED
  BY <1>1, <1>2, <1>3 DEF Prepared

\* A command with one write, of the register.
LEMMA RegisterCommand ==
  ASSUME IInv, NEW p \in Plan, NEW reg, RegisterOK(reg),
         Does(<<Write("register", p, reg)>>), reply' = NoReply
  PROVE  IInv'
<1> DEFINE w == Write("register", p, reg)
<1>1. w \in Writes /\ w.file = "register" /\ w.content = reg
  BY DEF Write, Writes, Files, RegisterOK
<1>2. WriteOK(w, plans)
  BY <1>1 DEF WriteOK
<1> HIDE DEF w
<1>3. <<w>> \in Seq(Writes) /\ <<w>> # <<>> /\ DOMAIN <<w>> = {1} /\ <<w>>[1] = w
  BY <1>1
<1>4. Prepared(<<w>>)
  BY <1>1, <1>3, NoStatePrepared
<1>5. Does(<<w>>)
  BY DEF w
<1> QED
  BY <1>2, <1>3, <1>4, <1>5, CommandKeeps
-------------------------------------------------------------------------------
\* The states the commands compute.

LEMMA DispositionType ==
  ASSUME NEW p \in Plan, NEW n \in Node
  PROVE  DispositionOf(p, n) \in Disposition
BY PlanGatesAssumption DEF Plan, DispositionOf

LEMMA LoadedState ==
  ASSUME FilesOK, NEW p, Loadable(p)
  PROVE  p \in Plan /\ p \in plans /\ StateOK(p, state[p]) /\ state[p] \in States
BY DEF FilesOK, PlansOK, StatesOK, StateOK, Loadable

\* What a person or a reviewer says of one node leaves the others alone.
LEMMA OneNodeChanged ==
  ASSUME NEW p, NEW s, StateOK(p, s), NEW n \in Node, NEW b \in Bindings, NEW t \in States,
         t.bound = [s.bound EXCEPT ![n] = b],
         t.word \in {s.word, s.word \cup {n}, s.word \ {n}},
         b.hash.disposition = DispositionOf(p, n), n \in GatedIn(p),
         b.by # None => n \in t.word /\ b.review = b.hash
  PROVE  StateOK(p, t)
<1>1. s.bound \in [Node -> Bindings \cup {None}]
  BY DEF StateOK, States
<1>2. t.bound[n] = b /\ \A m \in Node : m # n => t.bound[m] = s.bound[m]
  BY <1>1
<1>3. ASSUME NEW m \in Node PROVE NodeOK(p, t, m)
  <2>1. CASE m = n
    BY <2>1, <1>2 DEF NodeOK
  <2>2. CASE m # n
    <3>1. t.bound[m] = s.bound[m] /\ (m \in s.word => m \in t.word)
      BY <2>2, <1>2
    <3>2. NodeOK(p, s, m)
      BY DEF StateOK
    <3> QED
      BY <3>1, <3>2 DEF NodeOK
  <2> QED
    BY <2>1, <2>2
<1> QED
  BY <1>3 DEF StateOK

\* arch-review: a pass is a word on the contract it reviewed.
LEMMA ReviewedState ==
  ASSUME FilesOK, NEW p, Loadable(p), NEW n \in Node, NEW verdict, state[p].bound[n] # None
  PROVE  StateOK(p, Reviewed(p, n, verdict)) /\ SameContracts(state[p], Reviewed(p, n, verdict))
<1> DEFINE s == state[p]
           b == s.bound[n]
           by == IF verdict = "pass" THEN "auto" ELSE b.by
           word == IF verdict = "pass" THEN s.word \cup {n} ELSE s.word
           c == Binding(b.ref, b.hash, by, b.hash)
<1>1. StateOK(p, s) /\ s \in States
  BY LoadedState
<1>2. s.bound \in [Node -> Bindings \cup {None}] /\ s.word \in SUBSET Node
  BY <1>1 DEF States
<1>3. b \in Bindings
  BY <1>2
<1>4. b.ref \in Plan /\ b.hash \in Contract /\ b.by \in {None, "auto", "human"}
  BY <1>3 DEF Bindings
<1>5. NodeOK(p, s, n)
  BY <1>1 DEF StateOK
<1>6. c \in Bindings /\ c.ref = b.ref /\ c.hash = b.hash /\ c.by = by /\ c.review = b.hash
  BY <1>4 DEF Binding, Bindings
<1>7. word \in SUBSET Node /\ word \in {s.word, s.word \cup {n}, s.word \ {n}}
  BY <1>2
<1>8. c.by # None => n \in word /\ c.review = c.hash
  BY <1>5, <1>6 DEF NodeOK
<1> DEFINE t == Reviewed(p, n, verdict)
<1>12. [s.bound EXCEPT ![n] = c] \in [Node -> Bindings \cup {None}]
  BY <1>6, <1>2
<1>9. t \in States /\ t.bound = [s.bound EXCEPT ![n] = c] /\ t.word = word
  BY <1>1, <1>7, <1>12 DEF Reviewed, States
<1>10. c.hash.disposition = DispositionOf(p, n) /\ n \in GatedIn(p)
  BY <1>5, <1>6 DEF NodeOK
<1>11. SameContracts(s, t)
  <2>1. t.bound[n] = c /\ \A m \in Node : m # n => t.bound[m] = s.bound[m]
    BY <1>2, <1>9
  <2>2. b # None /\ c.ref = b.ref /\ c.hash = b.hash
    BY <1>3, <1>6 DEF Bindings
  <2> HIDE DEF c, t
  <2> QED
    BY <2>1, <2>2 DEF SameContracts
<1> HIDE DEF c, word, s, t
<1>13. StateOK(p, t)
  BY <1>1, <1>6, <1>7, <1>8, <1>9, <1>10, OneNodeChanged
<1> QED
  BY <1>11, <1>13 DEF s, t

\* decide: an approval is a word on the contract that was reviewed, a refusal
\* takes the word back.
LEMMA AnsweredState ==
  ASSUME FilesOK, NEW p, Loadable(p), NEW n \in Node, NEW verb, state[p].bound[n] # None,
         verb = "approve" => ReviewStands(p, n)
  PROVE  StateOK(p, Answered(p, n, verb)) /\ SameContracts(state[p], Answered(p, n, verb))
<1> DEFINE s == state[p]
           b == s.bound[n]
           by == IF verb = "approve" THEN "human" ELSE None
           word == IF verb = "approve" THEN s.word \cup {n} ELSE s.word \ {n}
           c == [b EXCEPT !.by = by]
<1>1. StateOK(p, s) /\ s \in States
  BY LoadedState
<1>2. s.bound \in [Node -> Bindings \cup {None}] /\ s.word \in SUBSET Node
  BY <1>1 DEF States
<1>3. b \in Bindings
  BY <1>2
<1>5. NodeOK(p, s, n)
  BY <1>1 DEF StateOK
<1>6. c \in Bindings /\ c.ref = b.ref /\ c.hash = b.hash /\ c.by = by /\ c.review = b.review
  BY <1>3 DEF Bindings
<1>7. word \in SUBSET Node /\ word \in {s.word, s.word \cup {n}, s.word \ {n}}
  BY <1>2
<1>8. c.by # None => n \in word /\ c.review = c.hash
  BY <1>6 DEF ReviewStands
<1> DEFINE t == Answered(p, n, verb)
<1>12. [s.bound EXCEPT ![n] = c] \in [Node -> Bindings \cup {None}]
  BY <1>6, <1>2
<1>9. t \in States /\ t.bound = [s.bound EXCEPT ![n] = c] /\ t.word = word
  BY <1>1, <1>7, <1>12 DEF Answered, States
<1>10. c.hash.disposition = DispositionOf(p, n) /\ n \in GatedIn(p)
  BY <1>5, <1>6 DEF NodeOK
<1>11. SameContracts(s, t)
  <2>1. t.bound[n] = c /\ \A m \in Node : m # n => t.bound[m] = s.bound[m]
    BY <1>2, <1>9
  <2>2. b # None /\ c.ref = b.ref /\ c.hash = b.hash
    BY <1>3, <1>6 DEF Bindings
  <2> HIDE DEF c, t
  <2> QED
    BY <2>1, <2>2 DEF SameContracts
<1> HIDE DEF c, word, s, t
<1>13. StateOK(p, t)
  BY <1>1, <1>6, <1>7, <1>8, <1>9, <1>10, OneNodeChanged
<1> QED
  BY <1>11, <1>13 DEF s, t

\* What the judge chose is a contract of the disposition of the plan.
LEMMA JudgedContract ==
  ASSUME FilesOK, NEW p \in Plan, NEW model, NEW n \in Judged(p, model)
  PROVE  /\ n \in Node /\ n \in GatedIn(p)
         /\ JudgedAs(p, n, model) \in Contract
         /\ JudgedAs(p, n, model).disposition = DispositionOf(p, n)
<1>1. /\ n \in Node /\ n \in GatedIn(p) /\ Key(p, n, model) \in DOMAIN cache
      /\ DispositionOf(p, n) \in Gated
  BY DEF Judged, GatedIn
<1>2. cache[Key(p, n, model)] \in Fits[Fact[n]][DispositionOf(p, n)]
  <2>1. cache[Key(p, n, model)] \in Fits[Key(p, n, model).fact][Key(p, n, model).disposition]
    BY <1>1 DEF FilesOK, CacheOK
  <2>2. Key(p, n, model).fact = Fact[n] /\ Key(p, n, model).disposition = DispositionOf(p, n)
    BY DEF Key
  <2> QED
    BY <2>1, <2>2
<1>3. cache[Key(p, n, model)] \in Shape
  BY <1>1, <1>2, PlanGatesAssumption
<1>4. JudgedAs(p, n, model) \in Contract
  BY <1>1, <1>3, DispositionType DEF JudgedAs, Hash, Contract
<1>5. JudgedAs(p, n, model).disposition = DispositionOf(p, n)
  BY DEF JudgedAs, Hash
<1> QED
  BY <1>1, <1>4, <1>5

\* arch: a contract is of the disposition of the plan, and a word stands only
\* over the contract it was given for.
LEMMA FrozenState ==
  ASSUME FilesOK, NEW p, Loadable(p), NEW model, NEW bound, bound = Frozen(p, model)
  PROVE  /\ StateOK(p, [bound |-> bound, word |-> StillMeant(p, bound)])
         /\ \A n \in Judged(p, model) : bound[n].ref = p /\ bound[n].hash = JudgedAs(p, n, model)
         /\ \A n \in Node \ Judged(p, model) : bound[n] = state[p].bound[n]
<1> DEFINE s == state[p]
           t == [bound |-> bound, word |-> StillMeant(p, bound)]
<1>1. StateOK(p, s) /\ s \in States /\ p \in Plan
  BY LoadedState
<1>2. s.bound \in [Node -> Bindings \cup {None}] /\ s.word \in SUBSET Node
  BY <1>1 DEF States
<1>3. \A n \in Node : NodeOK(p, s, n)
  BY <1>1 DEF StateOK
<1>4. \A n \in Judged(p, model) : bound[n] = Rebound(s.bound[n], p, JudgedAs(p, n, model))
  <2>1. \A n \in Judged(p, model) : n \in Node
    BY DEF Judged, GatedIn
  <2> QED
    BY <2>1 DEF Frozen
<1>5. \A n \in Node \ Judged(p, model) : bound[n] = s.bound[n]
  BY DEF Frozen
<1>6. ASSUME NEW n \in Judged(p, model)
      PROVE  /\ bound[n] \in Bindings /\ bound[n].ref = p
             /\ bound[n].hash = JudgedAs(p, n, model)
             /\ \/ bound[n].by = None
                \/ /\ s.bound[n] # None /\ s.bound[n].hash = bound[n].hash
                   /\ s.bound[n].by = bound[n].by /\ s.bound[n].review = bound[n].review
  <2> DEFINE h == JudgedAs(p, n, model)
  <2>1. n \in Node /\ h \in Contract
    BY <1>1, JudgedContract
  <2> HIDE DEF h
  <2>2. CASE s.bound[n] # None /\ s.bound[n].hash = h
    <3>1. bound[n] = [s.bound[n] EXCEPT !.ref = p]
      BY <1>4, <2>2 DEF Rebound, h
    <3>2. s.bound[n] \in Bindings
      BY <2>1, <2>2, <1>2
    <3>3. /\ bound[n] \in Bindings /\ bound[n].ref = p /\ bound[n].hash = s.bound[n].hash
          /\ bound[n].by = s.bound[n].by /\ bound[n].review = s.bound[n].review
      BY <3>1, <3>2, <1>1 DEF Bindings
    <3> QED
      BY <3>3, <2>2 DEF h
  <2>3. CASE ~ (s.bound[n] # None /\ s.bound[n].hash = h)
    <3>1. bound[n] = Binding(p, h, None, None)
      BY <1>4, <2>3 DEF Rebound, h
    <3>2. /\ Binding(p, h, None, None) \in Bindings /\ Binding(p, h, None, None).hash = h
          /\ Binding(p, h, None, None).by = None /\ Binding(p, h, None, None).ref = p
      BY <2>1, <1>1 DEF Binding, Bindings
    <3> QED
      BY <3>1, <3>2 DEF h
  <2> QED
    BY <2>2, <2>3
<1>8. bound \in [Node -> Bindings \cup {None}]
  <2>1. bound = [n \in Node |-> bound[n]]
    BY DEF Frozen
  <2>2. \A n \in Node : bound[n] \in Bindings \cup {None}
    BY <1>2, <1>5, <1>6
  <2> QED
    BY <2>1, <2>2
<1>9. t \in States /\ t.bound = bound /\ t.word = StillMeant(p, bound)
  BY <1>2, <1>8 DEF States, StillMeant
<1> HIDE DEF t
<1>10. ASSUME NEW n \in Node PROVE NodeOK(p, t, n)
  <2>1. CASE n \notin Judged(p, model)
    <3>1. t.bound[n] = s.bound[n]
      BY <2>1, <1>5, <1>9
    <3>2. n \in s.word /\ s.bound[n] # None => n \in t.word
      BY <3>1, <1>9 DEF StillMeant
    <3> QED
      BY <3>1, <3>2, <1>3 DEF NodeOK
  <2>2. CASE n \in Judged(p, model)
    <3>1. t.bound[n] = bound[n] /\ n \in GatedIn(p)
          /\ bound[n].hash.disposition = DispositionOf(p, n)
      BY <2>2, <1>1, <1>6, <1>9, JudgedContract
    <3>2. ASSUME bound[n] # None, bound[n].by # None
          PROVE  n \in t.word /\ bound[n].review = bound[n].hash
      <4>1. /\ s.bound[n] # None /\ s.bound[n].hash = bound[n].hash
            /\ s.bound[n].by # None /\ s.bound[n].review = bound[n].review
        BY <2>2, <3>2, <1>6
      <4>2. n \in s.word /\ s.bound[n].review = s.bound[n].hash
        BY <4>1, <1>3 DEF NodeOK
      <4> QED
        BY <4>1, <4>2, <3>2, <1>9 DEF StillMeant
    <3> QED
      BY <3>1, <3>2 DEF NodeOK
  <2> QED
    BY <2>1, <2>2
<1>11. StateOK(p, t)
  BY <1>9, <1>10 DEF StateOK
<1> QED
  BY <1>11, <1>5, <1>6 DEF t

\* replan: only what is still of the disposition of the plan is carried over.
LEMMA MigratedState ==
  ASSUME FilesOK, NEW p, Loadable(p), NEW q \in Plan
  PROVE  StateOK(q, Migrated(p, q))
<1> DEFINE s == state[p]
           bound == [n \in Node |-> IF n \in Changed(p, q) THEN None ELSE s.bound[n]]
           word == s.word \ Changed(p, q)
           t == Migrated(p, q)
<1>1. StateOK(p, s) /\ s \in States /\ p \in Plan
  BY LoadedState
<1>2. s.bound \in [Node -> Bindings \cup {None}] /\ s.word \in SUBSET Node
  BY <1>1 DEF States
<1>3. bound \in [Node -> Bindings \cup {None}] /\ word \in SUBSET Node
  BY <1>2
<1>4. t \in States /\ t.bound = bound /\ t.word = word
  BY <1>3 DEF Migrated, NewState, States
<1>5. ASSUME NEW n \in Node PROVE NodeOK(q, t, n)
  <2>1. CASE n \in Changed(p, q)
    <3>1. t.bound[n] = None
      BY <2>1, <1>4
    <3> QED
      BY <3>1 DEF NodeOK
  <2>2. CASE n \notin Changed(p, q)
    <3>1. t.bound[n] = s.bound[n] /\ (n \in s.word => n \in t.word)
      BY <2>2, <1>4
    <3>2. DispositionOf(p, n) = DispositionOf(q, n) /\ (n \in GatedIn(p) => n \in GatedIn(q))
      BY <2>2 DEF Changed, GatedIn
    <3>3. NodeOK(p, s, n)
      BY <1>1 DEF StateOK
    <3> QED
      BY <3>1, <3>2, <3>3 DEF NodeOK
  <2> QED
    BY <2>1, <2>2
<1> QED
  BY <1>4, <1>5 DEF StateOK
-------------------------------------------------------------------------------
\* The commands.

LEMMA TwoWrites ==
  ASSUME NEW a \in Writes, NEW b \in Writes
  PROVE  /\ <<a, b>> \in Seq(Writes) /\ <<a, b>> # <<>>
         /\ Len(<<a, b>>) = 2 /\ DOMAIN <<a, b>> = {1, 2}
         /\ <<a, b>>[1] = a /\ <<a, b>>[2] = b
         /\ Head(<<a, b>>) = a /\ Tail(<<a, b>>) = <<b>>
<1>1. /\ <<a, b>> \in Seq(Writes) /\ <<a, b>> # <<>>
      /\ Len(<<a, b>>) = 2 /\ DOMAIN <<a, b>> = {1, 2}
      /\ <<a, b>>[1] = a /\ <<a, b>>[2] = b
  OBVIOUS
<1>2. Head(<<a, b>>) = a
  OBVIOUS
<1>3. Tail(<<a, b>>) = <<b>>
  OBVIOUS
<1> QED
  BY <1>1, <1>2, <1>3

\* Three writes after others.
LEMMA ThreeMore ==
  ASSUME NEW C \in Seq(Writes), NEW a \in Writes, NEW b \in Writes, NEW c \in Writes,
         NEW m, m = Len(C), NEW W, W = C \o <<a, b, c>>
  PROVE  /\ m \in Nat /\ DOMAIN C = 1..m
         /\ W \in Seq(Writes) /\ W # <<>> /\ Len(W) = m + 3 /\ DOMAIN W = 1..(m + 3)
         /\ \A i \in 1..m : W[i] = C[i]
         /\ W[m + 1] = a /\ W[m + 2] = b /\ W[m + 3] = c
<1> DEFINE t == <<a, b, c>>
<1>1. t \in Seq(Writes) /\ Len(t) = 3 /\ t[1] = a /\ t[2] = b /\ t[3] = c
  OBVIOUS
<1>2. m \in Nat /\ DOMAIN C = 1..m
  BY LenProperties
<1> HIDE DEF t
<1>3. /\ W \in Seq(Writes) /\ Len(W) = m + 3
      /\ \A i \in 1..(m + 3) : W[i] = IF i <= m THEN C[i] ELSE t[i - m]
  BY <1>1, ConcatProperties DEF t
<1>4. W # <<>> /\ DOMAIN W = 1..(m + 3)
  BY <1>2, <1>3, EmptySeq, LenProperties
<1>5. \A i \in 1..m : W[i] = C[i]
  <2> SUFFICES ASSUME NEW i \in 1..m PROVE W[i] = C[i]
    OBVIOUS
  <2>1. i \in 1..(m + 3) /\ i <= m
    BY <1>2
  <2> QED
    BY <2>1, <1>3
<1>6. W[m + 1] = t[1] /\ W[m + 2] = t[2] /\ W[m + 3] = t[3]
  <2>1. /\ m + 1 \in 1..(m + 3) /\ ~ (m + 1 <= m) /\ (m + 1) - m = 1
        /\ m + 2 \in 1..(m + 3) /\ ~ (m + 2 <= m) /\ (m + 2) - m = 2
        /\ m + 3 \in 1..(m + 3) /\ ~ (m + 3 <= m) /\ (m + 3) - m = 3
    BY <1>2
  <2> QED
    BY <2>1, <1>3
<1> QED
  BY <1>1, <1>2, <1>3, <1>4, <1>5, <1>6

\* The contract files of an arch: one for every node that was judged.
LEMMA FilesOfContracts ==
  ASSUME FilesOK, NEW p \in Plan, NEW model, NEW C, C = ContractWrites(p, model)
  PROVE  /\ C \in Seq(Writes)
         /\ \A i \in DOMAIN C : C[i].file = "contract" /\ C[i].run = p /\ C[i].content \in ContractFile
         /\ \A n \in Judged(p, model) : \E i \in DOMAIN C :
              C[i].content.node = n /\ C[i].content.hash = JudgedAs(p, n, model)
<1> DEFINE J == Judged(p, model)
           m == Cardinality(J)
           f == SetToSeq(J)
           w(n) == Write("contract", p, [node |-> n, hash |-> JudgedAs(p, n, model)])
<1>1. IsFiniteSet(J)
  <2>1. J \in SUBSET Node
    BY DEF Judged, GatedIn
  <2> QED
    BY <2>1, FS_Subset, PlanGatesAssumption
<1>2. m \in Nat /\ f \in [1..m -> J] /\ \A n \in J : \E i \in 1..m : f[i] = n
  BY <1>1, Listed
<1>3. ASSUME NEW n \in J
      PROVE  /\ w(n) \in Writes /\ w(n).file = "contract" /\ w(n).run = p
             /\ w(n).content \in ContractFile
             /\ w(n).content.node = n /\ w(n).content.hash = JudgedAs(p, n, model)
  <2>1. n \in Node /\ JudgedAs(p, n, model) \in Contract
    BY JudgedContract
  <2>2. [node |-> n, hash |-> JudgedAs(p, n, model)] \in ContractFile
    BY <2>1 DEF ContractFile
  <2> QED
    BY <2>2 DEF Write, Writes, Files
<1>4. C = [i \in 1..m |-> w(f[i])]
  <2>1. DOMAIN f = 1..m
    BY <1>2
  <2> QED
    BY <2>1 DEF ContractWrites
<1> HIDE DEF w, m, f, J
<1>5. \A i \in 1..m : f[i] \in J /\ C[i] = w(f[i])
  BY <1>2, <1>4
<1>6. C \in [1..m -> Writes] /\ DOMAIN C = 1..m
  BY <1>3, <1>4, <1>5
<1>7. C \in Seq(Writes)
  BY <1>2, <1>6
<1>8. \A n \in J : \E i \in 1..m : C[i] = w(n)
  BY <1>2, <1>5
<1> QED
  BY <1>3, <1>5, <1>6, <1>7, <1>8 DEF J

LEMMA DispositionReviewsKeeps ==
  ASSUME IInv, NEW p \in plans, DispositionReviews(p)
  PROVE  IInv'
<1> DEFINE asked == {n \in Unsure : p[n] = Classifier}
           raised == RaiseAll(rows, "DISPOSITION_REVIEW", asked)
<1>1. RegisterOK(rows) /\ p \in Plan
  BY DEF IInv, FilesOK, RowsOK, PlansOK
<1>2. asked \in SUBSET Node
  BY PlanGatesAssumption
<1>3. RegisterOK(raised)
  BY <1>1, <1>2, RaisedRows DEF Kinds
<1>4. Does(<<Write("register", p, raised)>>) /\ reply' = NoReply
  BY DEF DispositionReviews
<1> QED
  BY <1>1, <1>3, <1>4, RegisterCommand

\* After an arch everybody is taken care of.
LEMMA ArchCovers ==
  ASSUME RegisterOK(rows), NEW p \in Plan, NEW model \in Model, NEW bound,
         NEW unratified, unratified = {n \in Judged(p, model) : ~ Ratified(bound[n])},
         NEW raised, raised = RaiseAll(RaiseAll(rows, "ARCH_REVIEW", unratified),
                                       "NO_TARGET_SHAPE", Unplaceable(p))
  PROVE  /\ RegisterOK(raised)
         /\ Covered(p, bound, Requests(p, model), raised)
<1> DEFINE first == RaiseAll(rows, "ARCH_REVIEW", unratified)
<1>1. unratified \in SUBSET Node /\ Unplaceable(p) \in SUBSET Node
  BY DEF Judged, Unplaceable, GatedIn
<1>2. RegisterOK(first) /\ AsksAll(first, "ARCH_REVIEW", unratified)
  <2>1. "ARCH_REVIEW" \in Kinds
    BY DEF Kinds
  <2> QED
    BY <1>1, <2>1, RaisedRows
<1> HIDE DEF first
<1>3. /\ RegisterOK(raised) /\ Keeps(raised, first)
      /\ AsksAll(raised, "NO_TARGET_SHAPE", Unplaceable(p))
  <2>1. "NO_TARGET_SHAPE" \in Kinds
    BY DEF Kinds
  <2>2. raised = RaiseAll(first, "NO_TARGET_SHAPE", Unplaceable(p))
    BY DEF first
  <2> QED
    BY <1>1, <1>2, <2>1, <2>2, RaisedRows
<1>4. ASSUME NEW n \in GatedIn(p), Requests(p, model)[n] = None, ~ Ratified(bound[n])
      PROVE  \E i \in DOMAIN raised :
               /\ raised[i].node = n /\ raised[i].status = "OPEN"
               /\ raised[i].kind \in {"ARCH_REVIEW", "NO_TARGET_SHAPE"}
  <2>1. n \in Unplaceable(p) \/ n \in Judged(p, model)
    <3>1. n \in Node /\ model # None
      BY PlanGatesAssumption DEF GatedIn
    <3> QED
      BY <3>1, <1>4 DEF Requests
  <2>2. CASE n \in Unplaceable(p)
    BY <2>2, <1>3 DEF AsksAll
  <2>3. CASE n \in Judged(p, model)
    <3>1. n \in unratified
      BY <2>3, <1>4
    <3>2. PICK i \in DOMAIN first :
            first[i].kind = "ARCH_REVIEW" /\ first[i].node = n /\ first[i].status = "OPEN"
      BY <3>1, <1>2 DEF AsksAll
    <3> QED
      BY <3>2, <1>3 DEF Keeps
  <2> QED
    BY <2>1, <2>2, <2>3
<1> QED
  BY <1>3, <1>4 DEF Covered

LEMMA ArchKeeps ==
  ASSUME IInv, NEW p \in plans, NEW model \in Model, Arch(p, model)
  PROVE  IInv'
<1>01. PICK bound : bound = Frozen(p, model)
  OBVIOUS
<1>02. PICK s : s = [bound |-> bound, word |-> StillMeant(p, bound)]
  OBVIOUS
<1>03. PICK unratified : unratified = {n \in Judged(p, model) : ~ Ratified(bound[n])}
  OBVIOUS
<1>04. PICK raised : raised = RaiseAll(RaiseAll(rows, "ARCH_REVIEW", unratified),
                                       "NO_TARGET_SHAPE", Unplaceable(p))
  OBVIOUS
<1>05. PICK C : C = ContractWrites(p, model)
  OBVIOUS
<1>06. PICK a, b, c : /\ a = Write("manifest", p, Requests(p, model))
                      /\ b = Write("state", p, s)
                      /\ c = Write("arch_register", p, raised)
  OBVIOUS
<1>07. PICK W : W = C \o <<a, b, c>>
  OBVIOUS
<1>08. PICK m : m = Len(C)
  OBVIOUS
<1>1. /\ FilesOK /\ StatesFiled /\ ReadingOK /\ RegisterOK(rows) /\ p \in Plan
      /\ Loadable(p) /\ Does(W) /\ reply' = NoReply
  <2>1. ArchWrites(p, model, C, bound, raised) = W
    BY <1>02, <1>06, <1>07 DEF ArchWrites
  <2>2. Does(ArchWrites(p, model, C, bound, raised))
    BY <1>01, <1>03, <1>04, <1>05 DEF Arch
  <2> QED
    BY <2>1, <2>2 DEF IInv, FilesOK, RowsOK, PlansOK, Arch
<1>2. RegisterOK(raised) /\ Covered(p, bound, Requests(p, model), raised)
  BY <1>1, <1>03, <1>04, ArchCovers
<1>3. /\ StateOK(p, s)
      /\ \A n \in Judged(p, model) : bound[n].ref = p /\ bound[n].hash = JudgedAs(p, n, model)
      /\ \A n \in Node \ Judged(p, model) : bound[n] = state[p].bound[n]
  BY <1>1, <1>01, <1>02, FrozenState
<1>4. s \in States /\ s.bound = bound
  BY <1>02, <1>3 DEF StateOK
<1>5. Requests(p, model) \in Manifests
  BY DEF Requests, Manifests
<1>6. /\ C \in Seq(Writes)
      /\ \A i \in DOMAIN C : C[i].file = "contract" /\ C[i].run = p /\ C[i].content \in ContractFile
      /\ \A n \in Judged(p, model) : \E i \in DOMAIN C :
           C[i].content.node = n /\ C[i].content.hash = JudgedAs(p, n, model)
  BY <1>1, <1>05, FilesOfContracts
<1>7. a \in Writes /\ a.file = "manifest" /\ a.run = p /\ a.content = Requests(p, model)
  BY <1>1, <1>5, <1>06 DEF Write, Writes, Files
<1>8. b \in Writes /\ b.file = "state" /\ b.run = p /\ b.content = s
  BY <1>1, <1>4, <1>06 DEF Write, Writes, Files
<1>9. c \in Writes /\ c.file = "arch_register" /\ c.run = p /\ c.content = raised
  BY <1>1, <1>2, <1>06 DEF Write, Writes, Files, RegisterOK
<1>10. WriteOK(a, plans) /\ WriteOK(b, plans) /\ WriteOK(c, plans)
  BY <1>2, <1>3, <1>5, <1>7, <1>8, <1>9 DEF WriteOK
<1>11. /\ m \in Nat /\ DOMAIN C = 1..m
       /\ W \in Seq(Writes) /\ W # <<>> /\ Len(W) = m + 3 /\ DOMAIN W = 1..(m + 3)
       /\ \A i \in 1..m : W[i] = C[i]
       /\ W[m + 1] = a /\ W[m + 2] = b /\ W[m + 3] = c
  <2>1. C \in Seq(Writes) /\ a \in Writes /\ b \in Writes /\ c \in Writes
    BY <1>6, <1>7, <1>8, <1>9
  <2> QED
    BY <2>1, <1>07, <1>08, ThreeMore
<1>12. \A k \in DOMAIN W : k \in 1..m \/ k = m + 1 \/ k = m + 2 \/ k = m + 3
  BY <1>11
<1>13. \A k \in 1..m : /\ k \in DOMAIN W /\ k < m + 2
                       /\ W[k].file = "contract" /\ W[k].run = p /\ W[k].content = C[k].content
                       /\ WriteOK(W[k], plans)
  BY <1>6, <1>11 DEF WriteOK
<1>14. \A k \in DOMAIN W : WriteOK(W[k], plans)
  BY <1>10, <1>11, <1>12, <1>13
<1>15. \A k \in DOMAIN W : /\ W[k].file = "state" => k = m + 2
                           /\ W[k].file = "arch_register" => k = m + 3
  BY <1>7, <1>8, <1>9, <1>11, <1>12, <1>13
<1>16. W[m + 2].content.bound = bound /\ W[m + 2].run = p
  BY <1>4, <1>8, <1>11
<1>17. ASSUME NEW n \in Judged(p, model)
       PROVE  \E j \in DOMAIN W : /\ j < m + 2 /\ W[j].file = "contract" /\ W[j].run = p
                                  /\ W[j].content.node = n
                                  /\ W[j].content.hash = bound[n].hash
  <2>1. PICK j \in 1..m : C[j].content.node = n /\ C[j].content.hash = JudgedAs(p, n, model)
    BY <1>6, <1>11
  <2> QED
    BY <2>1, <1>3, <1>13
<1>18. FilesComeFirst(W)
  <2> SUFFICES ASSUME NEW n \in Node, bound[n] # None
               PROVE  <<bound[n].ref, n>> \in DOMAIN onFile \/ ComesBefore(W, m + 2, bound[n].ref, n)
    BY <1>15, <1>16 DEF FilesComeFirst
  <2>1. CASE n \in Judged(p, model)
    BY <2>1, <1>3, <1>17 DEF ComesBefore
  <2>2. CASE n \notin Judged(p, model)
    <3>1. bound[n] = state[p].bound[n] /\ p \in DOMAIN state
      BY <2>2, <1>1, <1>3 DEF Loadable
    <3> QED
      BY <3>1, <1>1 DEF StatesFiled
  <2> QED
    BY <2>1, <2>2
<1>19. ReadingHolds(W)
  <2> DEFINE n == reading.node
  <2> SUFFICES ASSUME reading.run = p, reading.run # None, reading.read # Overtaken, n \in Node,
                      bound[n] # None
               PROVE  bound[n].hash = reading.read \/ \E j \in DOMAIN W : j < m + 2 /\ Overtakes(W[j])
    BY <1>15, <1>16 DEF ReadingHolds
  <2>1. CASE n \in Judged(p, model)
    <3>1. PICK j \in DOMAIN W : /\ j < m + 2 /\ W[j].file = "contract" /\ W[j].run = p
                               /\ W[j].content.node = n
                               /\ W[j].content.hash = bound[n].hash
      BY <2>1, <1>17
    <3> QED
      BY <3>1 DEF Overtakes
  <2>2. CASE n \notin Judged(p, model)
    <3>1. bound[n] = state[p].bound[n]
      BY <2>2, <1>3
    <3> QED
      BY <3>1, <1>1 DEF ReadingOK, ReviewedAsRead, Bound
  <2> QED
    BY <2>1, <2>2
<1>20. ArchCoversAll(W)
  <2>1. /\ m + 3 = Len(W) /\ m + 3 >= 2 /\ m + 3 >= 3
        /\ (m + 3) - 1 = m + 2 /\ (m + 3) - 2 = m + 1
    BY <1>11
  <2>2. Covered(p, W[m + 2].content.bound, W[m + 1].content, W[m + 3].content)
    BY <1>2, <1>7, <1>9, <1>11, <1>16
  <2>3. /\ W[m + 3].run = p /\ W[m + 2].run = p /\ W[m + 1].run = p
        /\ W[m + 2].file = "state" /\ W[m + 1].file = "manifest"
    BY <1>7, <1>8, <1>9, <1>11
  <2>4. m + 3 # 1 /\ (m + 3 = 2 => FALSE)
    BY <1>11
  <2>5. CoversAt(W, m + 3, p)
    BY <2>1, <2>2, <2>3, <2>4 DEF CoversAt
  <2> QED
    BY <1>15, <2>3, <2>5 DEF ArchCoversAll
<1>21. Prepared(W)
  BY <1>18, <1>19, <1>20 DEF Prepared
<1>22. Does(W) /\ reply' = NoReply
  BY <1>1
<1> QED
  BY <1>11, <1>14, <1>21, <1>22, CommandKeeps

\* What is prepared stays so while none of its files changes.
LEMMA PreparedStays ==
  ASSUME StatesFiled, ReadingOK, Prepared(todo),
         UNCHANGED <<state, manifest, onFile, reading, todo>>
  PROVE  StatesFiled' /\ ReadingOK' /\ Prepared(todo)'
<1>1. StatesFiled' /\ ReadingOK'
  BY DEF StatesFiled, ReadingOK, ReviewedAsRead, Bound
<1>2. FilesComeFirst(todo)'
  BY DEF Prepared, FilesComeFirst, ComesBefore
<1>3. ReadingHolds(todo)'
  BY DEF Prepared, ReadingHolds, Overtakes
<1>4. ArchCoversAll(todo)'
  BY DEF Prepared, ArchCoversAll, CoversAt
<1> QED
  BY <1>1, <1>2, <1>3, <1>4 DEF Prepared

LEMMA ArchVerdictKeeps ==
  ASSUME IInv, NEW p \in plans, NEW n \in Node, NEW model \in Model, NEW shape \in Shape,
         ArchVerdict(p, n, model, shape)
  PROVE  IInv'
<1>1. /\ cache' = Put(cache, Key(p, n, model), shape) /\ shape \in Candidates(p, n)
      /\ reply' = NoReply /\ UNCHANGED <<plans, state, manifest, onFile, reading, rows, todo>>
  BY DEF ArchVerdict
<1>2. CacheOK'
  <2>1. shape \in Fits[Key(p, n, model).fact][Key(p, n, model).disposition]
    BY <1>1 DEF Key, Candidates
  <2> HIDE DEF Key
  <2>2. \A k \in DOMAIN cache' : \/ k = Key(p, n, model) /\ cache'[k] = shape
                                 \/ k \in DOMAIN cache /\ cache'[k] = cache[k]
    BY <1>1 DEF Put
  <2> QED
    BY <2>1, <2>2 DEF CacheOK, IInv, FilesOK
<1>3. PlansOK' /\ StatesOK' /\ ManifestsOK' /\ RowsOK'
  BY <1>1 DEF IInv, FilesOK, PlansOK, StatesOK, ManifestsOK, RowsOK
<1>4. TodoOK'
  BY <1>1 DEF IInv, TodoOK
<1>5. ReplyOK'
  BY <1>1 DEF ReplyOK, NoReply
<1>6. StatesFiled' /\ ReadingOK' /\ Prepared(todo)'
  BY <1>1, PreparedStays DEF IInv
<1> QED
  BY <1>2, <1>3, <1>4, <1>5, <1>6 DEF IInv, FilesOK

\* The reviewer's reading is of the contract that is bound, or overtaken at once.
LEMMA ReviewerReadsKeeps ==
  ASSUME IInv, NEW p \in plans, NEW n \in Node, ReviewerReads(p, n)
  PROVE  IInv'
<1> DEFINE b == state[p].bound[n]
<1>1. /\ FilesOK /\ Loadable(p) /\ todo = <<>> /\ b # None
      /\ reading' = [run |-> p, node |-> n,
                     read |-> IF onFile[<<b.ref, n>>] = b.hash THEN b.hash ELSE Overtaken]
      /\ reply' = NoReply /\ UNCHANGED <<plans, state, manifest, onFile, cache, rows, todo>>
  BY DEF IInv, ReviewerReads, Idle
<1>2. p \in Plan /\ p \in DOMAIN state /\ b.hash \in Contract
  <2>1. p \in Plan /\ p \in DOMAIN state /\ state[p] \in States
    BY <1>1, LoadedState DEF Loadable
  <2>2. b \in Bindings
    BY <2>1, <1>1 DEF States
  <2> QED
    BY <2>1, <2>2 DEF Bindings
<1>3. FilesOK'
  BY <1>1 DEF FilesOK, PlansOK, StatesOK, ManifestsOK, CacheOK, RowsOK
<1>4. StatesFiled'
  BY <1>1 DEF IInv, StatesFiled
<1>5. ReadingOK'
  <2>1. reading' \in Readings
    BY <1>1, <1>2 DEF Readings
  <2>2. ReviewedAsRead'
    BY <1>1, <1>2 DEF ReviewedAsRead, Bound
  <2> QED
    BY <2>1, <2>2 DEF ReadingOK
<1>6. DOMAIN todo' = {} /\ todo' \in Seq(Writes)
  BY <1>1
<1>7. TodoOK' /\ Prepared(todo)'
  BY <1>6 DEF TodoOK, Prepared, FilesComeFirst, ReadingHolds, ArchCoversAll
<1>8. ReplyOK'
  BY <1>1 DEF ReplyOK, NoReply
<1> QED
  BY <1>3, <1>4, <1>5, <1>7, <1>8 DEF IInv

LEMMA ArchReviewKeeps ==
  ASSUME IInv, NEW p \in plans, NEW n \in Node, NEW verdict, ArchReview(p, n, verdict)
  PROVE  IInv'
<1> DEFINE answered == {i \in OpenRow("ARCH_REVIEW", n) : verdict = "pass"}
           reg == ResolveReview(CHOOSE i \in answered : TRUE)
           a == Write("state", p, Reviewed(p, n, verdict))
           b == Write("register", p, reg)
           m == Cardinality(answered)
           t == [k \in 1..m |-> b]
           W == <<a>> \o t
<1>1. /\ FilesOK /\ StatesFiled /\ ReadingOK /\ RegisterOK(rows) /\ p \in Plan /\ Loadable(p)
      /\ state[p].bound[n] # None /\ Does(W) /\ reply' = NoReply
  BY DEF IInv, FilesOK, RowsOK, PlansOK, ArchReview
<1>2. StateOK(p, Reviewed(p, n, verdict)) /\ SameContracts(state[p], Reviewed(p, n, verdict))
  BY <1>1, ReviewedState
<1>3. /\ a \in Writes /\ a.file = "state" /\ WriteOK(a, plans)
      /\ a.run = p /\ SameContracts(state[p], a.content)
  BY <1>1, <1>2 DEF Write, Writes, Files, WriteOK, StateOK
<1>4. IsFiniteSet(answered) /\ m \in Nat /\ (m > 0 => answered # {}) /\ answered \subseteq DOMAIN rows
  <2>1. /\ Len(rows) \in Nat /\ DOMAIN rows = 1..Len(rows)
    BY <1>1, LenProperties DEF RegisterOK
  <2>2. IsFiniteSet(DOMAIN rows)
    BY <2>1, FS_Interval
  <2>3. answered \in SUBSET (DOMAIN rows)
    BY DEF OpenRow
  <2>4. IsFiniteSet(answered)
    BY <2>2, <2>3, FS_Subset
  <2> QED
    BY <2>3, <2>4, FS_CardinalityType, FS_EmptySet
<1>5. m > 0 => b \in Writes /\ b.file = "register" /\ WriteOK(b, plans)
  <2> SUFFICES ASSUME m > 0
               PROVE  b \in Writes /\ b.file = "register" /\ WriteOK(b, plans)
    OBVIOUS
  <2>1. (CHOOSE i \in answered : TRUE) \in DOMAIN rows
    BY <1>4
  <2>2. RegisterOK(reg)
    BY <1>1, <2>1, ReviewAnsweredKeeps
  <2> QED
    BY <1>1, <2>2 DEF Write, Writes, Files, WriteOK, RegisterOK
<1> HIDE DEF a, b, m, answered
<1>6. t \in Seq(Writes) /\ Len(t) = m /\ \A k \in 1..m : t[k] = b
  <2>1. \A k \in 1..m : b \in Writes
    BY <1>4, <1>5
  <2>2. t \in [1..m -> Writes]
    BY <2>1
  <2> QED
    BY <1>4, <2>2
<1>7. <<a>> \in Seq(Writes) /\ Len(<<a>>) = 1 /\ <<a>>[1] = a
  BY <1>3
<1> HIDE DEF t
<1>8. /\ W \in Seq(Writes) /\ Len(W) = 1 + m
      /\ \A i \in 1..(1 + m) : W[i] = IF i <= 1 THEN <<a>>[i] ELSE t[i - 1]
  BY <1>6, <1>7, ConcatProperties
<1>9. W # <<>> /\ DOMAIN W = 1..(1 + m)
  BY <1>4, <1>8, LenProperties, EmptySeq
<1>10. ASSUME NEW i \in DOMAIN W
       PROVE  /\ WriteOK(W[i], plans) /\ W[i].file # "arch_register"
              /\ W[i].file = "state" => W[i].run = p /\ SameContracts(state[p], W[i].content)
  <2>1. CASE i = 1
    <3>1. W[i] = a
      BY <2>1, <1>4, <1>7, <1>8
    <3> QED
      BY <3>1, <1>3
  <2>2. CASE i # 1
    <3>1. i - 1 \in 1..m /\ W[i] = t[i - 1]
      BY <2>2, <1>4, <1>8, <1>9
    <3>2. m > 0 /\ W[i] = b
      BY <3>1, <1>4, <1>6
    <3> QED
      BY <3>2, <1>5
  <2> QED
    BY <2>1, <2>2
<1> HIDE DEF W
<1>11. Prepared(W)
  BY <1>1, <1>10, SamePrepared DEF Loadable
<1> QED
  BY <1>1, <1>8, <1>9, <1>10, <1>11, CommandKeeps

LEMMA DecideArchKeeps ==
  ASSUME IInv, NEW p \in plans, NEW i \in DOMAIN rows, NEW verb, DecideArch(p, i, verb)
  PROVE  IInv'
<1> DEFINE n == rows[i].node
           a == Write("state", p, Answered(p, n, verb))
           b == Write("register", p, ResolveReview(i))
<1>1. /\ FilesOK /\ StatesFiled /\ ReadingOK /\ RegisterOK(rows)
      /\ p \in Plan /\ Loadable(p) /\ reply' = NoReply
      /\ verb = "approve" => ReviewStands(p, n)
      /\ Does(IF state[p].bound[n] = None THEN <<b>> ELSE <<a, b>>)
  BY DEF IInv, FilesOK, RowsOK, PlansOK, DecideArch
<1>2. RegisterOK(ResolveReview(i))
  BY <1>1, ReviewAnsweredKeeps
<1>3. n \in Node
  <2>1. rows[i] \in Row
    BY <1>1, ElementOfSeq, LenProperties DEF RegisterOK
  <2> QED
    BY <2>1 DEF Row
<1>4. CASE state[p].bound[n] = None
  BY <1>1, <1>2, <1>4, RegisterCommand
<1>5. CASE state[p].bound[n] # None
  <2>1. StateOK(p, Answered(p, n, verb)) /\ SameContracts(state[p], Answered(p, n, verb))
    BY <1>1, <1>3, <1>5, AnsweredState
  <2>2. /\ a \in Writes /\ a.file = "state" /\ WriteOK(a, plans)
        /\ a.run = p /\ SameContracts(state[p], a.content)
    BY <1>1, <2>1 DEF Write, Writes, Files, WriteOK, StateOK
  <2>3. b \in Writes /\ b.file = "register" /\ WriteOK(b, plans)
    BY <1>1, <1>2 DEF Write, Writes, Files, WriteOK, RegisterOK
  <2>4. Does(<<a, b>>)
    BY <1>1, <1>5
  <2> HIDE DEF a, b
  <2>5. \A k \in DOMAIN <<a, b>> :
          /\ WriteOK(<<a, b>>[k], plans) /\ <<a, b>>[k].file # "arch_register"
          /\ <<a, b>>[k].file = "state" =>
               <<a, b>>[k].run = p /\ SameContracts(state[p], <<a, b>>[k].content)
    <3>1. DOMAIN <<a, b>> = {1, 2} /\ <<a, b>>[1] = a /\ <<a, b>>[2] = b
      BY <2>2, <2>3, TwoWrites
    <3> QED
      BY <2>2, <2>3, <3>1
  <2>6. Prepared(<<a, b>>)
    BY <1>1, <2>5, SamePrepared DEF Loadable
  <2> QED
    BY <1>1, <2>2, <2>3, <2>4, <2>5, <2>6, TwoWrites, CommandKeeps
<1> QED
  BY <1>4, <1>5

LEMMA DecideKeeps ==
  ASSUME IInv, NEW p \in plans, NEW i \in DOMAIN rows, rows[i].status = "OPEN",
         NEW verb \in {"override", "shape", "other", "approve"},
         NEW arg \in Disposition \cup Shape \cup {None},
         DecideUnplaceable(p, i, verb, arg) \/ DecideDisposition(p, i, verb, arg)
  PROVE  IInv'
<1>1. /\ Does(<<Write("register", p, Resolve(i, p, verb, arg))>>) /\ reply' = NoReply
      /\ verb = "override" => arg \in Disposition
  <2>1. CASE DecideUnplaceable(p, i, verb, arg)
    BY <2>1 DEF DecideUnplaceable
  <2>2. CASE DecideDisposition(p, i, verb, arg)
    BY <2>2 DEF DecideDisposition
  <2> QED
    BY <2>1, <2>2
<1>2. RegisterOK(rows) /\ p \in Plan
  BY DEF IInv, FilesOK, RowsOK, PlansOK
<1>3. RegisterOK(Resolve(i, p, verb, arg))
  BY <1>1, <1>2, DecisionKeeps
<1> QED
  BY <1>1, <1>2, <1>3, RegisterCommand

-------------------------------------------------------------------------------
\* replan

\* The last word about a node is a row of the register.
LEMMA DecidedRowIs ==
  ASSUME RowsOK, NEW p, NEW n, NEW i \in DecidedIn(p, n)
  PROVE  /\ i \in DOMAIN rows /\ i \in Decided /\ rows[i] \in Row
         /\ rows[i].at \in Nat /\ rows[i].at > 0
         /\ rows[i].verb = "override" => rows[i].arg \in Disposition
<1>1. i \in DOMAIN rows /\ i \in Decided
  BY DEF DecidedIn, Decided
<1>2. rows[i] \in Row
  BY <1>1, ElementOfSeq, LenProperties DEF RowsOK, RegisterOK
<1>3. rows[i].at > 0
  BY <1>1 DEF Decided
<1> QED
  BY <1>1, <1>2, <1>3 DEF RowsOK, RegisterOK, Row

LEMMA NextPlanType ==
  ASSUME RowsOK, NEW p \in Plan
  PROVE  NextPlan(p) \in Plan
<1>1. ASSUME NEW n \in Node PROVE Overridden(p, n) \in Disposition \cup {Classifier}
  <2>1. p[n] \in Disposition \cup {Classifier}
    BY DEF Plan
  <2>2. "re_architect" \in Disposition
    BY PlanGatesAssumption
  <2>3. CASE DecidedIn(p, n) = {}
    BY <2>1, <2>3 DEF Overridden
  <2>4. CASE DecidedIn(p, n) # {}
    <3>1. Final(p, n) \in DecidedIn(p, n)
      BY <2>4, LastDecision
    <3>2. rows[Final(p, n)].verb = "override" => rows[Final(p, n)].arg \in Disposition
      BY <3>1, DecidedRowIs
    <3> QED
      BY <2>1, <2>2, <2>4, <3>2 DEF Overridden
  <2> QED
    BY <2>3, <2>4
<1> QED
  BY <1>1 DEF NextPlan, Plan

\* What replan answers loses no decision.
LEMMA ReplanLosesNothing ==
  ASSUME RowsOK, NEW p \in Plan, NEW q, q = NextPlan(p),
         NEW to, to = IF Changed(p, q) = {} THEN p ELSE q,
         NEW n \in Node, NEW i \in DecidedIn(p, n), rows[i].verb = "override"
  PROVE  \/ DispositionOf(to, n) = rows[i].arg
         \/ \E j \in DecidedIn(p, n) :
              /\ rows[j].at > rows[i].at
              /\ \/ rows[j].verb \in {"override", "shape"}
                 \/ <<n, rows[i].arg>> \in Superseded(p)
<1> DEFINE f == Final(p, n)
<1>1. f \in DecidedIn(p, n) /\ rows[i].at <= rows[f].at
  BY LastDecision
<1>2. /\ i \in Decided /\ f \in Decided /\ rows[i].arg \in Disposition
      /\ rows[i].at \in Nat /\ rows[f].at \in Nat
  BY <1>1, DecidedRowIs
<1>3. CASE f = i
  <2>1. q[n] = rows[i].arg
    BY <1>3 DEF NextPlan, Overridden
  <2>2. DispositionOf(q, n) = rows[i].arg
    BY <2>1, <1>2, PlanGatesAssumption DEF DispositionOf, Classifier
  <2>3. DispositionOf(to, n) = DispositionOf(q, n)
    BY DEF Changed
  <2> QED
    BY <2>2, <2>3
<1>4. CASE f # i
  <2>1. rows[f].at # rows[i].at
    <3>1. f \in DecidedRows(rows) /\ i \in DecidedRows(rows)
      BY <1>2 DEF Decided, DecidedRows
    <3> QED
      BY <3>1, <1>4 DEF RowsOK, RegisterOK
  <2>2. rows[f].at > rows[i].at
    BY <2>1, <1>1, <1>2
  <2>3. CASE rows[f].verb \in {"override", "shape"}
    BY <2>2, <2>3, <1>1
  <2>4. CASE rows[f].verb \notin {"override", "shape"}
    <3> DEFINE x == <<n, i>>
    <3>1. x \in Node \X Decided /\ x[1] = n /\ x[2] = i
      BY <1>2
    <3>2. x[2] \in DecidedIn(p, x[1]) /\ rows[x[2]].verb = "override"
          /\ rows[Final(p, x[1])].verb # "override"
      BY <3>1, <2>4
    <3>3. <<x[1], rows[x[2]].arg>> \in Superseded(p)
      BY <3>1, <3>2 DEF Superseded
    <3>4. <<n, rows[i].arg>> \in Superseded(p)
      BY <3>1, <3>3
    <3> QED
      BY <2>2, <3>4, <1>1
  <2> QED
    BY <2>3, <2>4
<1> QED
  BY <1>3, <1>4

LEMMA ReplanKeeps ==
  ASSUME IInv, NEW p \in plans, NEW force, Replan(p, force)
  PROVE  IInv'
<1> DEFINE q == NextPlan(p)
           to == IF Changed(p, q) = {} THEN p ELSE q
           a == Write("plan", q, q)
           b == Write("state", q, Migrated(p, q))
<1>1. /\ FilesOK /\ StatesFiled /\ ReadingOK /\ RowsOK /\ p \in Plan /\ Loadable(p) /\ todo = <<>>
      /\ reply' = [from |-> p, to |-> to, superseded |-> Superseded(p)]
      /\ \/ UNCHANGED <<plans, state, manifest, onFile, reading, cache, rows, todo>>
         \/ q \notin DOMAIN state /\ Does(<<a, b>>)
  BY DEF IInv, FilesOK, PlansOK, Replan, ReplanWrites, Idle
<1>2. q \in Plan
  BY <1>1, NextPlanType
<1>3. StateOK(q, Migrated(p, q))
  BY <1>1, <1>2, MigratedState
<1>4. a \in Writes /\ a.file = "plan" /\ a.run = q
  BY <1>2 DEF Write, Writes, Files
<1>5. /\ b \in Writes /\ b.file = "state" /\ b.run = q /\ b.content = Migrated(p, q)
  BY <1>2, <1>3 DEF Write, Writes, Files, StateOK
<1>6. rows' = rows => NoDecisionLost'
  <2> SUFFICES ASSUME rows' = rows PROVE NoDecisionLost'
    OBVIOUS
  <2>1. /\ reply'.from = p /\ reply'.to = to /\ reply'.superseded = Superseded(p)
    BY <1>1
  <2>2. \A n \in Node : \A i \in DecidedIn(p, n) : rows[i].verb = "override" =>
          \/ DispositionOf(to, n) = rows[i].arg
          \/ \E j \in DecidedIn(p, n) :
               /\ rows[j].at > rows[i].at
               /\ \/ rows[j].verb \in {"override", "shape"}
                  \/ <<n, rows[i].arg>> \in Superseded(p)
    BY <1>1, ReplanLosesNothing
  <2> HIDE DEF to
  <2> QED
    BY <2>1, <2>2 DEF NoDecisionLost, DecidedIn, Decided
<1> HIDE DEF a, b, q, to
<1>7. CASE UNCHANGED <<plans, state, manifest, onFile, reading, cache, rows, todo>>
  <2>1. FilesOK'
    BY <1>1, <1>7 DEF FilesOK, PlansOK, StatesOK, ManifestsOK, CacheOK, RowsOK
  <2>2. TodoOK' /\ StatesFiled' /\ ReadingOK' /\ Prepared(todo)'
    BY <1>7, PreparedStays DEF IInv, TodoOK
  <2>3. ReplyOK'
    BY <1>1, <1>6, <1>7 DEF ReplyOK
  <2> QED
    BY <2>1, <2>2, <2>3 DEF IInv
<1>8. CASE q \notin DOMAIN state /\ Does(<<a, b>>)
  <2>1. Made(a) /\ todo' = <<b>>
    BY <1>4, <1>5, <1>8, TwoWrites DEF Does
  <2>2. q \in plans' /\ rows' = rows
    BY <2>1, <1>4 DEF Made
  <2>3. WriteOK(a, plans) /\ WriteOK(b, plans')
    BY <2>2, <1>3, <1>4, <1>5 DEF WriteOK
  <2>4. FilesOK' /\ TodoOK'
    <3>1. \A k \in 2..Len(<<a, b>>) : WriteOK(<<a, b>>[k], plans')
      BY <2>3, <1>4, <1>5, TwoWrites
    <3> QED
      BY <3>1, <2>3, <1>1, <1>4, <1>5, <1>8, TwoWrites, DoesKeeps
  <2>5. DOMAIN todo' = {1} /\ todo'[1] = b
    BY <2>1
  <2>6. ReplyOK'
    BY <2>2, <2>5, <1>5, <1>6 DEF ReplyOK
  <2>7. StatesFiled' /\ ReadingOK' /\ Prepared(todo)'
    <3> DEFINE W == <<a, b>>
    <3>1. W \in Seq(Writes) /\ W # <<>> /\ DOMAIN W = {1, 2} /\ W[1] = a /\ W[2] = b /\ Tail(W) = <<b>>
      BY <1>4, <1>5, TwoWrites
    <3> HIDE DEF W
    <3>2. \A k \in DOMAIN W : /\ W[k].file # "arch_register"
                              /\ W[k].file = "state" => W[k].run = q /\ W[k].content = Migrated(p, q)
      BY <3>1, <1>4, <1>5
    <3>3. FilesComeFirst(W)
      <4> SUFFICES ASSUME NEW n \in Node, Migrated(p, q).bound[n] # None
                   PROVE  <<Migrated(p, q).bound[n].ref, n>> \in DOMAIN onFile
        BY <3>2 DEF FilesComeFirst
      <4>1. Migrated(p, q).bound[n] = state[p].bound[n] /\ p \in DOMAIN state
        BY <1>1 DEF Migrated, NewState, Loadable
      <4> QED
        BY <4>1, <1>1 DEF StatesFiled
    <3>4. ReadingHolds(W)
      <4>1. reading.run # None /\ reading.read # Overtaken => reading.run # q
        BY <1>1, <1>8 DEF ReadingOK, ReviewedAsRead
      <4> QED
        BY <4>1, <3>2 DEF ReadingHolds
    <3>5. Prepared(W)
      BY <3>2, <3>3, <3>4 DEF Prepared, ArchCoversAll
    <3> QED
      BY <3>1, <3>5, <2>1, <1>1, PreparedKeeps
  <2> QED
    BY <2>4, <2>6, <2>7 DEF IInv
<1> QED
  BY <1>1, <1>7, <1>8
-------------------------------------------------------------------------------
\* The writes that are left.

LEMMA MakeWriteKeeps ==
  ASSUME IInv, MakeWrite
  PROVE  IInv'
<1>1. /\ todo \in Seq(Writes) /\ todo # <<>> /\ FilesOK
      /\ \A i \in DOMAIN todo : WriteOK(todo[i], plans)
      /\ reply' = reply /\ todo' = Tail(todo) /\ Made(Head(todo))
  BY DEF IInv, TodoOK, MakeWrite
<1>2. /\ Len(todo) \in Nat /\ Len(todo) >= 1 /\ DOMAIN todo = 1..Len(todo)
      /\ Head(todo) = todo[1] /\ todo[1] \in Writes
      /\ todo' \in Seq(Writes) /\ Len(todo') = Len(todo) - 1
      /\ DOMAIN todo' = 1..(Len(todo) - 1)
  BY <1>1, FirstAndLater
<1>3. \A i \in DOMAIN todo' : i + 1 \in DOMAIN todo /\ todo'[i] = todo[i + 1]
  BY <1>1, <1>2, FirstAndLater
<1>4. Made(todo[1]) /\ 1 \in DOMAIN todo /\ WriteOK(todo[1], plans)
  BY <1>1, <1>2
<1>5. FilesOK' /\ plans \subseteq plans'
  BY <1>1, <1>2, <1>4, MadeKeeps
<1>6. TodoOK'
  <2>1. \A i \in DOMAIN todo' : WriteOK(todo'[i], plans')
    BY <1>1, <1>3, <1>5, MorePlans
  <2> QED
    BY <2>1, <1>2 DEF TodoOK
<1>7. ReplyOK'
  <2> SUFFICES ASSUME reply.from # None
               PROVE  /\ \A i \in DOMAIN todo' : todo'[i].file = "state"
                      /\ NoDecisionLost'
    BY <1>1 DEF ReplyOK
  <2>1. (\A i \in DOMAIN todo : todo[i].file = "state") /\ NoDecisionLost
    BY DEF IInv, ReplyOK
  <2>2. rows' = rows
    BY <2>1, <1>4 DEF Made
  <2>3. NoDecisionLost'
    BY <2>1, <2>2, <1>1 DEF NoDecisionLost, DecidedIn, Decided
  <2> QED
    BY <2>1, <2>3, <1>3
<1>8. StatesFiled' /\ ReadingOK' /\ Prepared(todo)'
  BY <1>1, <1>4, PreparedKeeps DEF IInv
<1> QED
  BY <1>5, <1>6, <1>7, <1>8 DEF IInv

LEMMA DieKeeps ==
  ASSUME IInv, Die
  PROVE  IInv'
<1>1. todo' = <<>> /\ UNCHANGED <<plans, state, manifest, onFile, reading, cache, rows, reply>>
  BY DEF Die
<1>2. FilesOK'
  BY <1>1 DEF IInv, FilesOK, PlansOK, StatesOK, ManifestsOK, CacheOK, RowsOK
<1>3. DOMAIN todo' = {} /\ todo' \in Seq(Writes)
  BY <1>1
<1>4. TodoOK' /\ Prepared(todo)'
  BY <1>3 DEF TodoOK, Prepared, FilesComeFirst, ReadingHolds, ArchCoversAll
<1>6. StatesFiled' /\ ReadingOK'
  BY <1>1 DEF IInv, StatesFiled, ReadingOK, ReviewedAsRead, Bound
<1>5. ReplyOK'
  <2>1. NoDecisionLost => NoDecisionLost'
    BY <1>1 DEF NoDecisionLost, DecidedIn, Decided
  <2> QED
    BY <2>1, <1>1, <1>3 DEF IInv, ReplyOK
<1> QED
  BY <1>2, <1>4, <1>5, <1>6 DEF IInv

LEMMA StutterKeeps ==
  ASSUME IInv, UNCHANGED vars
  PROVE  IInv'
<1>1. UNCHANGED <<plans, state, manifest, onFile, reading, cache, rows, todo, reply>>
  BY DEF vars
<1>2. FilesOK'
  BY <1>1 DEF IInv, FilesOK, PlansOK, StatesOK, ManifestsOK, CacheOK, RowsOK
<1>3. TodoOK' /\ StatesFiled' /\ ReadingOK' /\ Prepared(todo)'
  BY <1>1, PreparedStays DEF IInv, TodoOK
<1>4. ReplyOK'
  <2>1. NoDecisionLost => NoDecisionLost'
    BY <1>1 DEF NoDecisionLost, DecidedIn, Decided
  <2> QED
    BY <2>1, <1>1 DEF IInv, ReplyOK
<1> QED
  BY <1>2, <1>3, <1>4 DEF IInv

-------------------------------------------------------------------------------
\* The invariant.

LEMMA Starts == Init => IInv
<1> SUFFICES ASSUME Init PROVE IInv
  OBVIOUS
<1> DEFINE first == [n \in Node |-> Classifier]
<1>1. /\ plans = {first} /\ state = [p \in {first} |-> NewState]
      /\ manifest = [p \in {first} |-> NoRequests]
      /\ cache = <<>> /\ rows = <<>> /\ todo = <<>> /\ reply = NoReply
      /\ reading = NoReading
  BY DEF Init
<1>2. first \in Plan
  BY DEF Plan
<1>3. NoRequests \in [Node -> Bindings \cup {None}] /\ NoRequests \in Manifests
  BY DEF NoRequests, Manifests
<1>4. NewState \in States /\ NewState.bound = NoRequests
  BY <1>3 DEF NewState, States
<1>5. StateOK(first, NewState)
  <2>1. \A n \in Node : NewState.bound[n] = None
    BY <1>4 DEF NoRequests
  <2> QED
    BY <2>1, <1>4 DEF StateOK, NodeOK
<1> HIDE DEF first
<1>6. PlansOK /\ StatesOK /\ ManifestsOK
  BY <1>1, <1>2, <1>3, <1>5 DEF PlansOK, StatesOK, ManifestsOK
<1>7. CacheOK
  BY <1>1 DEF CacheOK
<1>8. RowsOK
  <2>1. rows \in Seq(Row) /\ DOMAIN rows = {}
    BY <1>1
  <2> QED
    BY <2>1 DEF RowsOK, RegisterOK, DecidedRows
<1>9. TodoOK /\ Prepared(todo)
  <2>1. todo \in Seq(Writes) /\ DOMAIN todo = {}
    BY <1>1
  <2> QED
    BY <2>1 DEF TodoOK, Prepared, FilesComeFirst, ReadingHolds, ArchCoversAll
<1>10. ReplyOK
  BY <1>1 DEF ReplyOK, NoReply
<1>11. StatesFiled
  BY <1>1, <1>4 DEF StatesFiled, NoRequests
<1>12. ReadingOK
  BY <1>1 DEF ReadingOK, Readings, ReviewedAsRead, NoReading
<1> QED
  BY <1>6, <1>7, <1>8, <1>9, <1>10, <1>11, <1>12 DEF IInv, FilesOK

LEMMA Keeping == IInv /\ [Next]_vars => IInv'
<1> SUFFICES ASSUME IInv, [Next]_vars PROVE IInv'
  OBVIOUS
<1>1. ASSUME NEW p \in plans, DispositionReviews(p) PROVE IInv'
  BY <1>1, DispositionReviewsKeeps
<1>2. ASSUME NEW p \in plans, NEW model \in Model, Arch(p, model) PROVE IInv'
  BY <1>2, ArchKeeps
<1>3. ASSUME NEW p \in plans, NEW n \in Node, NEW model \in Model, NEW shape \in Shape,
             ArchVerdict(p, n, model, shape)
      PROVE  IInv'
  BY <1>3, ArchVerdictKeeps
<1>4. ASSUME NEW p \in plans, NEW n \in Node, NEW verdict, ArchReview(p, n, verdict) PROVE IInv'
  BY <1>4, ArchReviewKeeps
<1>5. ASSUME NEW p \in plans, NEW i \in DOMAIN rows, NEW verb, DecideArch(p, i, verb) PROVE IInv'
  BY <1>5, DecideArchKeeps
<1>6. ASSUME NEW p \in plans, NEW i \in DOMAIN rows, rows[i].status = "OPEN",
             NEW verb \in {"override", "shape", "other", "approve"},
             NEW arg \in Disposition \cup Shape \cup {None},
             DecideUnplaceable(p, i, verb, arg) \/ DecideDisposition(p, i, verb, arg)
      PROVE  IInv'
  BY <1>6, DecideKeeps
<1>7. ASSUME NEW p \in plans, NEW force, Replan(p, force) PROVE IInv'
  BY <1>7, ReplanKeeps
<1>8. ASSUME NEW p \in plans, NEW n \in Node, ReviewerReads(p, n) PROVE IInv'
  BY <1>8, ReviewerReadsKeeps
<1> QED
  BY <1>1, <1>2, <1>3, <1>4, <1>5, <1>6, <1>7, <1>8, MakeWriteKeeps, DieKeeps, StutterKeeps DEF Next

(***************************************************************************)
(* The inductive invariant: the files are all right, every write that is   *)
(* left will be, the answer of the last replan loses nothing, and an arch  *)
(* that is under way leaves nobody without a request or a row.             *)
(***************************************************************************)
THEOREM Invariant == Spec => []IInv
BY Starts, Keeping, PTL DEF Spec

-------------------------------------------------------------------------------
\* What follows from it.

LEMMA InvariantTypes == IInv => TypeOK
<1> SUFFICES ASSUME IInv PROVE TypeOK
  OBVIOUS
<1>1. plans \subseteq Plan /\ DOMAIN state \subseteq Plan
  BY DEF IInv, FilesOK, PlansOK, StatesOK
<1>2. ASSUME NEW p \in DOMAIN state, NEW n \in Node, state[p].bound[n] # None
      PROVE  /\ state[p].bound[n].hash.shape \in Shape
             /\ state[p].bound[n].by \in {None, "auto", "human"}
  <2>1. state[p] \in States
    BY DEF IInv, FilesOK, StatesOK, StateOK
  <2>2. state[p].bound \in [Node -> Bindings \cup {None}]
    BY <2>1 DEF States
  <2>3. state[p].bound[n] \in Bindings
    BY <2>2, <1>2
  <2>4. state[p].bound[n].hash \in Contract /\ state[p].bound[n].by \in {None, "auto", "human"}
    BY <2>3 DEF Bindings
  <2> QED
    BY <2>4 DEF Contract
<1>3. \A k \in DOMAIN cache : cache[k] \in Fits[k.fact][k.disposition]
  BY DEF IInv, FilesOK, CacheOK
<1>4. \A i \in DOMAIN rows : rows[i].run # None => rows[i].status = "RESOLVED"
  <2> SUFFICES ASSUME NEW i \in DOMAIN rows, rows[i].run # None
               PROVE  rows[i].status = "RESOLVED"
    OBVIOUS
  <2>1. RegisterOK(rows)
    BY DEF IInv, FilesOK, RowsOK
  <2>2. rows[i] \in Row
    BY <2>1, ElementOfSeq, LenProperties DEF RegisterOK
  <2>3. rows[i].status # "OPEN"
    BY <2>1 DEF RegisterOK
  <2> QED
    BY <2>2, <2>3 DEF Row
<1>5. \A p \in DOMAIN manifest : manifest[p] \in [Node -> Model \cup {None}]
  BY DEF IInv, FilesOK, ManifestsOK, Manifests
<1> QED
  BY <1>1, <1>2, <1>3, <1>4, <1>5 DEF TypeOK

LEMMA InvariantStates ==
  ASSUME IInv
  PROVE  /\ ContractFitsPlan /\ StateHasPlan /\ ContractOnFile
         /\ RatifiedByAWord /\ RatifiedWasReviewed /\ ReviewedAsRead
<1>1. DOMAIN state \subseteq plans
  BY DEF IInv, FilesOK, StatesOK
<1>2. \A p \in DOMAIN state : \A n \in Node : NodeOK(p, state[p], n)
  BY DEF IInv, FilesOK, StatesOK, StateOK
<1>3. \A p \in DOMAIN state : \A n \in Bound(p) :
        /\ state[p].bound[n].hash.disposition = DispositionOf(p, n)
        /\ n \in GatedIn(p)
        /\ state[p].bound[n].by # None =>
             /\ n \in state[p].word
             /\ state[p].bound[n].review = state[p].bound[n].hash
  BY <1>2 DEF NodeOK, Bound
<1>4. ContractOnFile /\ ReviewedAsRead
  BY DEF IInv, StatesFiled, ReadingOK, ContractOnFile, Bound
<1> QED
  BY <1>1, <1>3, <1>4
  DEF ContractFitsPlan, StateHasPlan, RatifiedByAWord, RatifiedWasReviewed, By

(***************************************************************************)
(* Wherever a command dies, a state has its plan, and its contracts are of *)
(* the dispositions of that plan and on file.                              *)
(***************************************************************************)
THEOREM RunsAreOfOnePiece == Spec => []PlanFitsState
<1>1. IInv => PlanFitsState
  BY InvariantTypes, InvariantStates DEF PlanFitsState
<1> QED
  BY <1>1, Invariant, PTL

(***************************************************************************)
(* Behind every ratified contract are a word, a person's or a reviewer's   *)
(* pass, and a review stamped with that very contract, through every arch, *)
(* review, decision, replan and crash; and what a reviewer has read is     *)
(* what the stamp will name unless an arch overtook it.                    *)
(***************************************************************************)
THEOREM RatificationsAreReal == Spec => []RatificationIsReal
<1>1. IInv => RatificationIsReal
  BY InvariantStates DEF RatificationIsReal
<1> QED
  BY <1>1, Invariant, PTL

(***************************************************************************)
(* An override that was given is in force after a replan, replaced by a    *)
(* later word, or reported as superseded.                                  *)
(***************************************************************************)
THEOREM DecisionsAreKept == Spec => []NoDecisionLost
<1>1. IInv => NoDecisionLost
  BY DEF IInv, ReplyOK, NoDecisionLost
<1> QED
  BY <1>1, Invariant, PTL

\* Only the judge's verdict goes to the cache.
LEMMA OnlyVerdictsAreCached ==
  ASSUME Next, cache' # cache
  PROVE  \E p \in plans, n \in Node, model \in Model, shape \in Shape :
           ArchVerdict(p, n, model, shape)
<1>1. ASSUME NEW W, Does(W) PROVE FALSE
  BY <1>1 DEF Does, Made
<1>2. ~ MakeWrite /\ ~ Die
  BY DEF MakeWrite, Die, Made
<1>3. ASSUME NEW p, DispositionReviews(p) PROVE FALSE
  BY <1>1, <1>3 DEF DispositionReviews
<1>4. ASSUME NEW p, NEW model, Arch(p, model) PROVE FALSE
  BY <1>1, <1>4 DEF Arch
<1>5. ASSUME NEW p, NEW n, NEW verdict, ArchReview(p, n, verdict) PROVE FALSE
  BY <1>1, <1>5 DEF ArchReview
<1>6. ASSUME NEW p, NEW i, NEW verb, DecideArch(p, i, verb) PROVE FALSE
  BY <1>1, <1>6 DEF DecideArch
<1>7. ASSUME NEW p, NEW i, NEW verb, NEW arg,
             DecideUnplaceable(p, i, verb, arg) \/ DecideDisposition(p, i, verb, arg)
      PROVE  FALSE
  BY <1>1, <1>7 DEF DecideUnplaceable, DecideDisposition
<1>8. ASSUME NEW p, NEW force, Replan(p, force) PROVE FALSE
  BY <1>1, <1>8 DEF Replan
<1>9. ASSUME NEW p, NEW n, ReviewerReads(p, n) PROVE FALSE
  BY <1>9 DEF ReviewerReads
<1> QED
  BY <1>2, <1>3, <1>4, <1>5, <1>6, <1>7, <1>8, <1>9 DEF Next

(***************************************************************************)
(* When an arch has made its last write, every gated node is ratified,     *)
(* requested, or in front of a person, and a verdict is filed under a key  *)
(* that somebody asked for.                                                *)
(***************************************************************************)
THEOREM EverybodyIsAskedFor == Spec => NobodyWaitsInVain
<1> DEFINE Asked ==
      /\ \A p \in plans : ArchEnds(p) =>
           \A n \in GatedIn(p) :
             \/ manifest[p][n] # None
             \/ Ratified(state[p].bound[n])
             \/ \E i \in DOMAIN rows' : /\ rows'[i].node = n /\ rows'[i].status = "OPEN"
                                       /\ rows'[i].kind \in {"ARCH_REVIEW", "NO_TARGET_SHAPE"}
      /\ \A k \in DOMAIN cache' \ DOMAIN cache :
           \E p \in DOMAIN manifest, n \in Node :
             manifest[p][n] # None /\ k = Key(p, n, manifest[p][n])
<1>1. IInv /\ [Next]_vars => [Asked]_vars
  <2> SUFFICES ASSUME IInv, Next PROVE Asked
    OBVIOUS
  <2>1. ASSUME NEW p \in plans, ArchEnds(p)
        PROVE  Covered(p, state[p].bound, manifest[p], rows')
    <3>2. 1 \in DOMAIN todo
      <4>1. Len(todo) = 1 /\ todo \in Seq(Writes)
        BY <2>1 DEF ArchEnds, IInv, TodoOK
      <4>2. DOMAIN todo = 1..Len(todo)
        BY <4>1, LenProperties
      <4> QED
        BY <4>1, <4>2
    <3>1. /\ todo[1].file = "arch_register" /\ todo[1].run = p
          /\ rows' = todo[1].content
      BY <2>1 DEF ArchEnds
    <3>3. Covered(p, state[p].bound, manifest[p], todo[1].content)
      BY <3>1, <3>2, <2>1 DEF IInv, Prepared, ArchCoversAll, CoversAt, ArchEnds
    <3> QED
      BY <3>1, <3>3
  <2>2. ASSUME NEW k \in DOMAIN cache' \ DOMAIN cache
        PROVE  \E p \in DOMAIN manifest, n \in Node :
                 manifest[p][n] # None /\ k = Key(p, n, manifest[p][n])
    <3>1. cache' # cache
      BY <2>2
    <3>2. PICK p \in plans, n \in Node, model \in Model, shape \in Shape :
            ArchVerdict(p, n, model, shape)
      BY <3>1, OnlyVerdictsAreCached
    <3>3. k = Key(p, n, model)
      BY <3>2, <2>2 DEF ArchVerdict, Put
    <3>4. p \in DOMAIN manifest /\ manifest[p][n] = model /\ model # None
      BY <3>2, PlanGatesAssumption DEF ArchVerdict, ServesRequest
    <3> QED
      BY <3>3, <3>4
  <2> QED
    BY <2>1, <2>2 DEF Covered
<1>2. [][Asked]_vars => NobodyWaitsInVain
  BY PTL DEF NobodyWaitsInVain
<1> QED
  BY <1>1, <1>2, Invariant, PTL DEF Spec
===============================================================================
