---------------------------- MODULE Sidecar_proofs ----------------------------
(***************************************************************************)
(* Proofs about the ADT lane: for any number of calls and objects, and     *)
(* whatever is refused, lost or answered too late, one writer holds a      *)
(* lock and gives it back, done is done, and the lane keeps the promise    *)
(* that AdtPromise makes to its callers.                                   *)
(***************************************************************************)
EXTENDS Sidecar, TLAPS

USE DEF changed

-------------------------------------------------------------------------------
\* Where a handler is: the request it makes next.

Stage(L) == IF L = <<>> THEN "end" ELSE Head(L)

\* What may be left of the requests of a tool: the list from any request on,
\* or the publication that follows the activation of a binding.
Remainders(t) == {<<>>} \cup
  (CASE t = "update" -> {<<"auth", "csrf", "lock", "put", "unlock">>,
                         <<"csrf", "lock", "put", "unlock">>,
                         <<"lock", "put", "unlock">>, <<"put", "unlock">>, <<"unlock">>}
     [] t = "create" -> {<<"auth", "csrf", "create">>, <<"csrf", "create">>, <<"create">>}
     [] t = "activate" -> {<<"auth", "csrf", "activate">>, <<"csrf", "activate">>,
                           <<"activate">>, <<"config", "publish">>, <<"publish">>}
     [] t = "batch" -> {<<"auth", "csrf", "start", "poll">>, <<"csrf", "start", "poll">>,
                        <<"start", "poll">>, <<"poll">>}
     [] t = "atc" -> {<<"auth", "csrf", "worklist", "start", "poll">>,
                      <<"csrf", "worklist", "start", "poll">>,
                      <<"worklist", "start", "poll">>, <<"start", "poll">>, <<"poll">>}
     [] t = "unit" -> {<<"auth", "fetch", "start", "poll">>, <<"fetch", "start", "poll">>,
                       <<"start", "poll">>, <<"poll">>}
     [] t = "check" -> {<<"auth", "csrf", "get">>, <<"csrf", "get">>, <<"get">>}
     [] t = "read" -> {<<"auth", "get">>, <<"get">>}
     [] OTHER -> {})

\* The request of a tool after the given one.
Following(t, step) ==
  CASE step = "auth" -> IF t = "read" THEN "get" ELSE IF t = "unit" THEN "fetch" ELSE "csrf"
    [] step = "csrf" -> CASE t = "update" -> "lock" [] t = "create" -> "create"
                          [] t = "activate" -> "activate" [] t = "batch" -> "start"
                          [] t = "atc" -> "worklist" [] OTHER -> "get"
    [] step = "fetch" -> "start"
    [] step = "worklist" -> "start"
    [] step = "start" -> "poll"
    [] step = "lock" -> "put"
    [] step = "put" -> "unlock"
    [] step = "config" -> "publish"
    [] OTHER -> "end"

\* The tools that make a request.
Makers(step) ==
  CASE step = "auth" -> Tools
    [] step = "csrf" -> Tools \ {"read", "unit"}
    [] step = "fetch" -> {"unit"}
    [] step = "worklist" -> {"atc"}
    [] step \in {"start", "poll"} -> {"batch", "atc", "unit"}
    [] step \in {"lock", "put", "unlock"} -> {"update"}
    [] step = "create" -> {"create"}
    [] step \in {"activate", "config", "publish"} -> {"activate"}
    [] step = "get" -> {"check", "read"}
    [] OTHER -> {}

-------------------------------------------------------------------------------
\* The inductive invariant: a conjunct for each thing said of a call by its
\* stage, one for the locks.

Types ==
  /\ allow \in BOOLEAN
  /\ tool \in [Calls -> Tools \cup {"none"}]
  /\ obj \in [Calls -> Objects \cup {Nobody}]
  /\ answer \in [Calls -> {"none", "blocked", "done", "negative", "error"}]
  /\ left = [c \in Calls |-> left[c]]
  /\ failed \in [Calls -> BOOLEAN]
  /\ polls \in [Calls -> 0..(MaxPolls - 1)]
  /\ token = [c \in Calls |-> token[c]]
  /\ lock \in [Objects -> Calls \cup {Nobody}]
  /\ draft \in [Objects -> Calls \cup {Nobody}]
  /\ active \in [Objects -> Calls \cup {Nobody, Earlier}]
  /\ published \subseteq Bindings
  /\ job \in [Calls -> {"none", "running", "good", "bad", "aborted"}]
  /\ changes \in [Calls -> Nat] /\ publications \in [Calls -> Nat] /\ dropped \subseteq Calls

\* A call walks through the requests of its tool; it is answered at the end,
\* and before only with an error.
WalkInv(c) ==
  /\ left[c] \in Remainders(tool[c])
  /\ IF tool[c] = "none" THEN answer[c] = "none" ELSE obj[c] \in Objects
  /\ Running(c) => answer[c] \in {"none", "error"}

\* What it did in SAP, by where it is: nothing twice.
TookInv(c) ==
  LET stage == Stage(left[c])
  IN  /\ changes[c] \in {0, 1} /\ publications[c] \in {0, 1}
      /\ publications[c] = 1 => changes[c] = 1
      /\ tool[c] = "none" \/ stage # "end" => publications[c] = 0
      /\ changes[c] = 1 =>
           /\ tool[c] \in WriteTools
           /\ tool[c] = "batch" => job[c] = "good"
           /\ tool[c] # "batch" => stage \in {"unlock", "config", "publish", "end"}
           /\ answer[c] # "blocked"
      /\ stage = "unlock" /\ ~ failed[c] => changes[c] = 1
      /\ stage \in {"config", "publish"} => changes[c] = 1 /\ obj[c] \in Bindings
      /\ tool[c] = "batch" /\ job[c] = "good" => changes[c] = 1

\* Its background job.
JobInv(c) ==
  /\ job[c] # "none" =>
       tool[c] \in {"batch", "atc", "unit"} /\ Stage(left[c]) \in {"poll", "end"}
  /\ job[c] = "running" => answer[c] \in {"none", "error"}
  /\ answer[c] = "blocked" => job[c] = "none"

\* Done is done, of one call.
DoneInv(c) == answer[c] = "done" =>
  /\ tool[c] \in WriteTools => changes[c] = 1
  /\ tool[c] \in {"unit", "batch"} => job[c] = "good"
  /\ tool[c] = "atc" => job[c] \in {"good", "aborted"}
  /\ tool[c] = "activate" /\ obj[c] \in Bindings =>
       obj[c] \in published /\ active[obj[c]] # Nobody

\* The locks: who is under one holds it; who holds one is under it, or out of
\* SAP's sight.
LockInv ==
  /\ \A c \in Calls : Stage(left[c]) \in {"put", "unlock"} => lock[obj[c]] = c
  /\ \A o \in Objects : lock[o] # Nobody =>
       /\ tool[lock[o]] # "none" /\ obj[lock[o]] = o
       /\ \/ Stage(left[lock[o]]) \in {"put", "unlock"}
          \/ Stage(left[lock[o]]) = "end" /\ lock[o] \in dropped

CallInv(c) == WalkInv(c) /\ TookInv(c) /\ JobInv(c) /\ DoneInv(c)

IInv == Types /\ LockInv /\ \A c \in Calls : CallInv(c)

-------------------------------------------------------------------------------
\* The requests: what follows what.

\* A request made: the next one is the one that follows it.
LEMMA Advance ==
  ASSUME NEW t \in Tools \cup {"none"}, NEW L \in Remainders(t), L # <<>>
  PROVE  /\ t \in Makers(Head(L))
         /\ Tail(L) \in Remainders(t)
         /\ Stage(Tail(L)) = Following(t, Head(L))
         /\ Len(L) <= 5
<1>1. CASE t = "update"
  <2>1. CASE L = <<"auth", "csrf", "lock", "put", "unlock">>
    BY <1>1, <2>1 DEF Remainders, Makers, Following, Stage
  <2>2. CASE L = <<"csrf", "lock", "put", "unlock">>
    BY <1>1, <2>2 DEF Remainders, Makers, Following, Stage
  <2>3. CASE L = <<"lock", "put", "unlock">>
    BY <1>1, <2>3 DEF Remainders, Makers, Following, Stage
  <2>4. CASE L = <<"put", "unlock">>
    BY <1>1, <2>4 DEF Remainders, Makers, Following, Stage
  <2>5. CASE L = <<"unlock">>
    BY <1>1, <2>5 DEF Remainders, Makers, Following, Stage
  <2> QED
    BY <1>1, <2>1, <2>2, <2>3, <2>4, <2>5 DEF Remainders
<1>2. CASE t = "create"
  <2>1. CASE L = <<"auth", "csrf", "create">>
    BY <1>2, <2>1 DEF Remainders, Makers, Following, Stage
  <2>2. CASE L = <<"csrf", "create">>
    BY <1>2, <2>2 DEF Remainders, Makers, Following, Stage
  <2>3. CASE L = <<"create">>
    BY <1>2, <2>3 DEF Remainders, Makers, Following, Stage
  <2> QED
    BY <1>2, <2>1, <2>2, <2>3 DEF Remainders
<1>3. CASE t = "activate"
  <2>1. CASE L = <<"auth", "csrf", "activate">>
    BY <1>3, <2>1 DEF Remainders, Makers, Following, Stage
  <2>2. CASE L = <<"csrf", "activate">>
    BY <1>3, <2>2 DEF Remainders, Makers, Following, Stage
  <2>3. CASE L = <<"activate">>
    BY <1>3, <2>3 DEF Remainders, Makers, Following, Stage
  <2>4. CASE L = <<"config", "publish">>
    BY <1>3, <2>4 DEF Remainders, Makers, Following, Stage
  <2>5. CASE L = <<"publish">>
    BY <1>3, <2>5 DEF Remainders, Makers, Following, Stage
  <2> QED
    BY <1>3, <2>1, <2>2, <2>3, <2>4, <2>5 DEF Remainders
<1>4. CASE t = "batch"
  <2>1. CASE L = <<"auth", "csrf", "start", "poll">>
    BY <1>4, <2>1 DEF Remainders, Makers, Following, Stage
  <2>2. CASE L = <<"csrf", "start", "poll">>
    BY <1>4, <2>2 DEF Remainders, Makers, Following, Stage
  <2>3. CASE L = <<"start", "poll">>
    BY <1>4, <2>3 DEF Remainders, Makers, Following, Stage
  <2>4. CASE L = <<"poll">>
    BY <1>4, <2>4 DEF Remainders, Makers, Following, Stage
  <2> QED
    BY <1>4, <2>1, <2>2, <2>3, <2>4 DEF Remainders
<1>5. CASE t = "atc"
  <2>1. CASE L = <<"auth", "csrf", "worklist", "start", "poll">>
    BY <1>5, <2>1 DEF Remainders, Makers, Following, Stage
  <2>2. CASE L = <<"csrf", "worklist", "start", "poll">>
    BY <1>5, <2>2 DEF Remainders, Makers, Following, Stage
  <2>3. CASE L = <<"worklist", "start", "poll">>
    BY <1>5, <2>3 DEF Remainders, Makers, Following, Stage
  <2>4. CASE L = <<"start", "poll">>
    BY <1>5, <2>4 DEF Remainders, Makers, Following, Stage
  <2>5. CASE L = <<"poll">>
    BY <1>5, <2>5 DEF Remainders, Makers, Following, Stage
  <2> QED
    BY <1>5, <2>1, <2>2, <2>3, <2>4, <2>5 DEF Remainders
<1>6. CASE t = "unit"
  <2>1. CASE L = <<"auth", "fetch", "start", "poll">>
    BY <1>6, <2>1 DEF Remainders, Makers, Following, Stage
  <2>2. CASE L = <<"fetch", "start", "poll">>
    BY <1>6, <2>2 DEF Remainders, Makers, Following, Stage
  <2>3. CASE L = <<"start", "poll">>
    BY <1>6, <2>3 DEF Remainders, Makers, Following, Stage
  <2>4. CASE L = <<"poll">>
    BY <1>6, <2>4 DEF Remainders, Makers, Following, Stage
  <2> QED
    BY <1>6, <2>1, <2>2, <2>3, <2>4 DEF Remainders
<1>7. CASE t = "check"
  <2>1. CASE L = <<"auth", "csrf", "get">>
    BY <1>7, <2>1 DEF Remainders, Makers, Following, Stage
  <2>2. CASE L = <<"csrf", "get">>
    BY <1>7, <2>2 DEF Remainders, Makers, Following, Stage
  <2>3. CASE L = <<"get">>
    BY <1>7, <2>3 DEF Remainders, Makers, Following, Stage
  <2> QED
    BY <1>7, <2>1, <2>2, <2>3 DEF Remainders
<1>8. CASE t = "read"
  <2>1. CASE L = <<"auth", "get">>
    BY <1>8, <2>1 DEF Remainders, Makers, Following, Stage
  <2>2. CASE L = <<"get">>
    BY <1>8, <2>2 DEF Remainders, Makers, Following, Stage
  <2> QED
    BY <1>8, <2>1, <2>2 DEF Remainders
<1>9. t # "none"
  BY DEF Remainders
<1> QED
  BY <1>1, <1>2, <1>3, <1>4, <1>5, <1>6, <1>7, <1>8, <1>9 DEF Tools, WriteTools, ReadTools

\* A list that a handler starts on, turns to, or has come to the end of.
LEMMA Turns ==
  /\ Stage(<<>>) = "end" /\ \A t : <<>> \in Remainders(t)
  /\ <<"unlock">> \in Remainders("update") /\ Stage(<<"unlock">>) = "unlock"
  /\ PublishServiceBinding \in Remainders("activate")
  /\ Stage(PublishServiceBinding) = "config"
  /\ \A t \in Tools : Requests(t) \in Remainders(t) /\ Stage(Requests(t)) = "auth"
<1>1. Stage(<<>>) = "end" /\ \A t : <<>> \in Remainders(t)
  BY DEF Stage, Remainders
<1>2. <<"unlock">> \in Remainders("update") /\ Stage(<<"unlock">>) = "unlock"
  BY DEF Stage, Remainders
<1>3. /\ PublishServiceBinding \in Remainders("activate")
      /\ Stage(PublishServiceBinding) = "config"
  BY DEF Stage, Remainders, PublishServiceBinding
<1>4. ASSUME NEW t \in Tools
      PROVE  Requests(t) \in Remainders(t) /\ Stage(Requests(t)) = "auth"
  BY DEF Tools, WriteTools, ReadTools, Requests, Remainders, Stage, UpdateSource,
         CreateObject, ActivateObject, ActivateBatch, RunAtcCheck, RunUnitTests,
         CheckSyntax, ReadObject
<1> QED
  BY <1>1, <1>2, <1>3, <1>4

\* What the stage of a call says: its tool makes that request, and goes on to
\* the next one.
LEMMA AtStage ==
  ASSUME Types, NEW c \in Calls, WalkInv(c)
  PROVE  /\ tool[c] \in Tools \cup {"none"}
         /\ \A step : step # "end" => (At(c, step) <=> Stage(left[c]) = step)
         /\ Running(c) <=> Stage(left[c]) # "end"
         /\ Running(c) <=> left[c] # <<>>
         /\ Running(c) =>
              /\ Stage(left[c]) = Head(left[c])
              /\ tool[c] \in Makers(Stage(left[c]))
              /\ Tail(left[c]) \in Remainders(tool[c])
              /\ Stage(Tail(left[c])) = Following(tool[c], Stage(left[c]))
              /\ Tail(left[c]) # <<>> => Stage(Tail(left[c])) # "end"
<1>1. tool[c] \in Tools \cup {"none"} /\ left[c] \in Remainders(tool[c])
  BY DEF Types, WalkInv
<1>2. left[c] # <<>> =>
        /\ tool[c] \in Makers(Head(left[c]))
        /\ Tail(left[c]) \in Remainders(tool[c])
        /\ Stage(Tail(left[c])) = Following(tool[c], Head(left[c]))
  BY <1>1, Advance
<1>3. left[c] # <<>> => Head(left[c]) # "end"
  BY <1>2 DEF Makers
<1>4. left[c] # <<>> /\ Tail(left[c]) # <<>> => Stage(Tail(left[c])) # "end"
  <2>1. left[c] # <<>> /\ Tail(left[c]) # <<>> => tool[c] \in Makers(Head(Tail(left[c])))
    BY <1>1, <1>2, Advance
  <2> QED
    BY <2>1 DEF Makers, Stage
<1> QED
  BY <1>1, <1>2, <1>3, <1>4 DEF At, Running, Stage

\* A call under way was asked for.
LEMMA AskedFor ==
  ASSUME Types, NEW c \in Calls, WalkInv(c), Running(c)
  PROVE  tool[c] \in Tools
<1>1. Remainders("none") = {<<>>}
  BY DEF Remainders
<1>2. tool[c] # "none"
  BY <1>1 DEF WalkInv, Running
<1> QED
  BY <1>2 DEF Types

-------------------------------------------------------------------------------
\* The frame: what a step leaves alone stays true.

\* A call that a step does not touch.
LEMMA Untouched ==
  ASSUME NEW d \in Calls, CallInv(d),
         tool'[d] = tool[d], obj'[d] = obj[d], answer'[d] = answer[d],
         left'[d] = left[d], failed'[d] = failed[d], job'[d] = job[d],
         changes'[d] = changes[d] /\ publications'[d] = publications[d], published \subseteq published',
         obj[d] \in Objects /\ active[obj[d]] # Nobody => active'[obj[d]] # Nobody
  PROVE  CallInv(d)'
<1>1. WalkInv(d)'
  BY DEF CallInv, WalkInv, Running
<1>2. TookInv(d)'
  BY DEF CallInv, TookInv
<1>3. JobInv(d)'
  BY DEF CallInv, JobInv
<1>4. DoneInv(d)'
  BY DEF CallInv, DoneInv, WalkInv, WriteTools
<1> QED
  BY <1>1, <1>2, <1>3, <1>4 DEF CallInv

\* The locks, when no lock changes hands: a call goes on outside its critical
\* section, or within it, or it ends, and then in the middle only in a death.
LEMMA LocksKept ==
  ASSUME Types, LockInv, \A c \in Calls : WalkInv(c), UNCHANGED lock,
         dropped \subseteq dropped',
         \A c \in Calls : tool[c] # "none" => tool'[c] = tool[c] /\ obj'[c] = obj[c],
         \A c \in Calls :
           LET before == Stage(left[c])
               after == Stage(left'[c])
           IN  \/ after = before
               \/ before = "put" /\ after = "unlock"
               \/ after = "end" /\ (before \in {"put", "unlock"} => c \in dropped')
               \/ {before, after} \cap {"put", "unlock", "end"} = {}
               \/ tool[c] = "none" /\ after \notin {"put", "unlock"}
  PROVE  LockInv'
<1>1. \A c \in Calls : Stage(left[c]) \in {"put", "unlock"} => tool[c] # "none"
  BY AtStage DEF Makers
<1>2. ASSUME NEW c \in Calls, Stage(left'[c]) \in {"put", "unlock"}
      PROVE  lock'[obj'[c]] = c
  <2>1. Stage(left[c]) \in {"put", "unlock"}
    BY <1>2
  <2> QED
    BY <1>1, <2>1 DEF LockInv
<1>3. ASSUME NEW o \in Objects, lock'[o] # Nobody
      PROVE  /\ tool'[lock'[o]] # "none" /\ obj'[lock'[o]] = o
             /\ \/ Stage(left'[lock'[o]]) \in {"put", "unlock"}
                \/ Stage(left'[lock'[o]]) = "end" /\ lock'[o] \in dropped'
  <2>1. PICK h \in Calls : h = lock[o] /\ lock'[o] = h
    BY <1>3 DEF Types
  <2>2. /\ tool[h] # "none" /\ obj[h] = o
        /\ \/ Stage(left[h]) \in {"put", "unlock"}
           \/ Stage(left[h]) = "end" /\ h \in dropped
    BY <1>3, <2>1 DEF LockInv
  <2>3. tool'[h] = tool[h] /\ obj'[h] = o
    BY <2>2
  <2>4. \/ Stage(left'[h]) \in {"put", "unlock"}
        \/ Stage(left'[h]) = "end" /\ h \in dropped'
    BY <2>2
  <2> QED
    BY <2>1, <2>2, <2>3, <2>4
<1> QED
  BY <1>2, <1>3 DEF LockInv

\* A step of one call, put together: its own books, the locks, and the frame.
LEMMA OneCall ==
  ASSUME IInv, NEW c \in Calls, Types', LockInv', CallInv(c)',
         \A d \in Calls : d # c =>
           /\ tool'[d] = tool[d] /\ obj'[d] = obj[d] /\ answer'[d] = answer[d]
           /\ left'[d] = left[d] /\ failed'[d] = failed[d] /\ job'[d] = job[d]
           /\ changes'[d] = changes[d] /\ publications'[d] = publications[d],
         published \subseteq published',
         \A o \in Objects : active[o] # Nobody => active'[o] # Nobody
  PROVE  IInv'
<1>1. ASSUME NEW d \in Calls, d # c PROVE CallInv(d)'
  BY <1>1, Untouched DEF IInv
<1> QED
  BY <1>1 DEF IInv

\* What a call does in SAP, it does once.
ChangesOnce(c) == changes[c] = 0 /\ Changes(c) /\ UNCHANGED publications

PublishesOnce(c) ==
  /\ changes[c] = 1 /\ publications[c] = 0
  /\ publications' = [publications EXCEPT ![c] = @ + 1]
  /\ UNCHANGED changes

\* The counts of a call after that, and those of the others.
LEMMA Counted ==
  ASSUME Types, NEW c \in Calls
  PROVE  /\ Changes(c) => changes' \in [Calls -> Nat]
         /\ ChangesOnce(c) =>
              /\ changes' \in [Calls -> Nat] /\ changes'[c] = 1 /\ UNCHANGED publications
              /\ \A d \in Calls : d # c => changes'[d] = changes[d]
         /\ PublishesOnce(c) =>
              /\ publications' \in [Calls -> Nat] /\ publications'[c] = 1 /\ UNCHANGED changes
              /\ \A d \in Calls : d # c => publications'[d] = publications[d]
BY DEF Types, Changes, ChangesOnce, PublishesOnce

\* What the callers see of a step of one call.
Promised(c) ==
  /\ UNCHANGED asked
  /\ \/ UNCHANGED changed
     \/ /\ ChangesOnce(c) \/ PublishesOnce(c)
        /\ tool[c] \in WriteTools /\ answer[c] \in {"none", "error"}
  /\ \/ UNCHANGED answer
     \/ /\ tool[c] # "none" /\ answer[c] = "none"
        /\ \E r \in {"done", "negative", "error"} :
             /\ r = "done" /\ tool[c] \in WriteTools => changes'[c] = 1
             /\ answer' = [answer EXCEPT ![c] = r]

-------------------------------------------------------------------------------
\* The requests that change nothing in SAP.

\* The session, the token, a read: on to the next request.
LEMMA GoesOn ==
  ASSUME IInv, NEW c \in Calls, Running(c),
         Stage(left[c]) \in {"auth", "csrf", "fetch", "get", "worklist", "config"},
         Tail(left[c]) # <<>>, Proceeds(c, Tail(left[c])),
         UNCHANGED <<asked, polls, sap, changed, dropped>>,
         token' = [d \in Calls |-> token'[d]]
  PROVE  IInv' /\ Promised(c)
<1> USE DEF asked, sap
<1>1. /\ Types /\ LockInv /\ WalkInv(c) /\ TookInv(c) /\ JobInv(c) /\ DoneInv(c)
      /\ \A d \in Calls : WalkInv(d)
  BY DEF IInv, CallInv
<1>2. /\ tool[c] \in Tools /\ tool[c] \in Makers(Stage(left[c]))
      /\ Tail(left[c]) \in Remainders(tool[c])
      /\ Stage(Tail(left[c])) = Following(tool[c], Stage(left[c]))
      /\ Stage(left[c]) # "end" /\ Stage(Tail(left[c])) # "end"
  BY <1>1, AtStage DEF Makers
<1>3. /\ left'[c] = Tail(left[c]) /\ \A d \in Calls : d # c => left'[d] = left[d]
      /\ UNCHANGED <<answer, failed>>
  BY <1>1 DEF Types, Proceeds
<1>4. Stage(Tail(left[c])) \notin {"auth", "put", "unlock", "poll", "end"}
  BY <1>2 DEF Following, Makers, Tools, WriteTools, ReadTools
<1>5. Types'
  BY <1>1 DEF Types, Proceeds
<1>6. LockInv'
  BY <1>1, <1>2, <1>3, <1>4, LocksKept
<1>7. WalkInv(c)'
  BY <1>1, <1>2, <1>3 DEF WalkInv, Running
<1>8. Stage(left[c]) = "config" => Stage(left'[c]) = "publish"
  BY <1>2, <1>3 DEF Following
<1>9. Stage(left'[c]) \in {"config", "publish"} => Stage(left[c]) = "config"
  BY <1>2, <1>3 DEF Following
<1>10. TookInv(c)'
  BY <1>1, <1>2, <1>3, <1>4, <1>8, <1>9 DEF TookInv
<1>11. JobInv(c)'
  BY <1>1, <1>2, <1>3, <1>4 DEF JobInv
<1>12. DoneInv(c)'
  BY <1>1, <1>3 DEF DoneInv
<1> QED
  BY <1>1, <1>3, <1>5, <1>6, <1>7, <1>10, <1>11, <1>12, OneCall DEF CallInv, Promised

\* A call that ends outside its critical section: with a true answer, and what
\* it changed last.
LEMMA Ends ==
  ASSUME IInv, NEW c \in Calls, Running(c), Stage(left[c]) \notin {"put", "unlock"},
         NEW a \in {"done", "negative", "error"}, Finishes(c, a),
         UNCHANGED <<asked, lock, dropped>>, Types',
         \/ UNCHANGED changed
         \/ ChangesOnce(c) /\ tool[c] \in {"create", "activate"}
         \/ ChangesOnce(c) /\ tool[c] = "batch" /\ job'[c] = "good"
         \/ PublishesOnce(c) /\ tool[c] = "activate",
         \A d \in Calls : d # c => job'[d] = job[d],
         \/ job'[c] = job[c]
         \/ job'[c] = "running" /\ tool[c] \in {"batch", "atc", "unit"} /\ changes[c] = 0
         \/ job'[c] = "bad" /\ tool[c] = "batch" /\ changes[c] = 0
         \/ job'[c] = "good" /\ tool[c] = "batch" /\ ChangesOnce(c),
         job'[c] = "running" => a = "error",
         published \subseteq published',
         \A o \in Objects : active[o] # Nobody => active'[o] # Nobody,
         a = "done" =>
           /\ tool[c] \in WriteTools => changes'[c] = 1
           /\ tool[c] \in {"unit", "batch"} => job'[c] = "good"
           /\ tool[c] = "atc" => job'[c] \in {"good", "aborted"}
           /\ tool[c] = "activate" /\ obj[c] \in Bindings =>
                obj[c] \in published' /\ active'[obj[c]] # Nobody
  PROVE  IInv' /\ Promised(c)
<1> USE DEF asked
<1>1. /\ Types /\ LockInv /\ WalkInv(c) /\ TookInv(c) /\ JobInv(c) /\ DoneInv(c)
      /\ \A d \in Calls : WalkInv(d)
  BY DEF IInv, CallInv
<1>2. /\ tool[c] \in Tools /\ obj[c] \in Objects /\ answer[c] \in {"none", "error"}
      /\ Stage(left[c]) # "end" /\ changes[c] = 0 => job[c] # "good" \/ tool[c] # "batch"
  BY <1>1, AtStage DEF Makers, WalkInv, TookInv, Tools, WriteTools, ReadTools
<1>3. /\ left'[c] = <<>> /\ \A d \in Calls : d # c => left'[d] = left[d]
      /\ UNCHANGED failed /\ Stage(left'[c]) = "end"
  BY <1>1 DEF Types, Finishes, Stage
<1>4. /\ answer'[c] = IF answer[c] = "none" THEN a ELSE "error"
      /\ \A d \in Calls : d # c => answer'[d] = answer[d]
  BY <1>1, <1>2 DEF Types, Finishes, Answer
<1>5. LockInv'
  BY <1>1, <1>3, LocksKept
<1>6. WalkInv(c)'
  BY <1>1, <1>2, <1>3, Turns DEF WalkInv, Running, Tools, WriteTools, ReadTools
<1>13. /\ \/ changes'[c] = changes[c] /\ publications'[c] = publications[c]
          \/ /\ changes[c] = 0 /\ changes'[c] = 1 /\ publications'[c] = publications[c]
             /\ \/ tool[c] \in {"create", "activate"}
                \/ tool[c] = "batch" /\ job'[c] = "good"
          \/ /\ changes[c] = 1 /\ changes'[c] = 1 /\ publications'[c] = 1
             /\ tool[c] = "activate"
       /\ \A d \in Calls : d # c =>
            changes'[d] = changes[d] /\ publications'[d] = publications[d]
  BY <1>1, Counted DEF ChangesOnce, PublishesOnce
<1>14. job'[c] = "good" /\ tool[c] = "batch" => job[c] = "good" \/ changes'[c] = 1
  BY <1>1, Counted
<1>15. job'[c] \in {"running", "bad"} /\ tool[c] = "batch" => changes[c] = 0 \/ job'[c] = job[c]
  OBVIOUS
<1>7. TookInv(c)'
  <2>1. tool'[c] = tool[c] /\ obj'[c] = obj[c] /\ Stage(left'[c]) = "end" /\ tool[c] # "none"
    BY <1>2, <1>3 DEF Tools, WriteTools, ReadTools
  <2>2. tool[c] = "batch" /\ changes'[c] = 1 => job'[c] = "good"
    BY <1>1, <1>13 DEF TookInv
  <2>3. tool[c] = "batch" /\ job'[c] = "good" => changes'[c] = 1
    BY <1>1, <1>13, <1>14 DEF TookInv
  <2>4. changes'[c] = 1 => tool[c] \in WriteTools
    BY <1>1, <1>13 DEF TookInv, WriteTools
  <2>5. /\ changes'[c] \in {0, 1} /\ publications'[c] \in {0, 1}
        /\ publications'[c] = 1 => changes'[c] = 1
    BY <1>1, <1>13 DEF TookInv
  <2>6. answer'[c] # "blocked"
    BY <1>4
  <2> QED
    BY <2>1, <2>2, <2>3, <2>4, <2>5, <2>6 DEF TookInv
<1>8. JobInv(c)'
  BY <1>1, <1>2, <1>3, <1>4 DEF JobInv
<1>9. DoneInv(c)'
  BY <1>4 DEF DoneInv
<1>10. IInv'
  BY <1>13, <1>3, <1>4, <1>5, <1>6, <1>7, <1>8, <1>9, OneCall DEF CallInv
<1>11. \/ UNCHANGED changed
       \/ /\ ChangesOnce(c) \/ PublishesOnce(c)
          /\ tool[c] \in WriteTools /\ answer[c] \in {"none", "error"}
  BY <1>2 DEF WriteTools
<1>12. \/ UNCHANGED answer
       \/ answer[c] = "none" /\ answer' = [answer EXCEPT ![c] = a]
  BY DEF Finishes, Answer
<1> QED
  BY <1>2, <1>10, <1>11, <1>12 DEF Promised, Tools, WriteTools, ReadTools

\* A call that throws, and SAP is as it was.
LEMMA Fails ==
  ASSUME IInv, NEW c \in Calls, Running(c), Stage(left[c]) \notin {"put", "unlock"},
         Throws(c), UNCHANGED <<asked, polls, sap, changed, dropped>>,
         token' = [d \in Calls |-> token'[d]]
  PROVE  IInv' /\ Promised(c)
<1> USE DEF sap
<1>1. Finishes(c, "error")
  BY DEF Finishes, Throws
<1>2. Types'
  BY DEF IInv, Types, Throws, Answer, asked
<1>3. job[c] = "running" => tool[c] \in {"batch", "atc", "unit"}
  BY DEF IInv, CallInv, JobInv
<1> QED
  BY <1>1, <1>2, <1>3, Ends

\* The stage of a running call, from the guard of an action.
LEMMA StageOf ==
  ASSUME NEW c \in Calls, NEW step, At(c, step)
  PROVE  Running(c) /\ Stage(left[c]) = step
BY DEF At, Running, Stage

-------------------------------------------------------------------------------
\* Every action keeps the invariant and the promise.

LEMMA AuthenticateKeeps ==
  ASSUME IInv, NEW c \in Calls, Authenticate(c)
  PROVE  IInv' /\ Promised(c)
<1>1. Running(c) /\ Stage(left[c]) = "auth"
  BY StageOf DEF Authenticate
<1>2. Types /\ WalkInv(c)
  BY DEF IInv, CallInv
<1>3. Tail(left[c]) # <<>>
  BY <1>1, <1>2, AtStage DEF Following, Stage
<1>4. token' = [d \in Calls |-> token'[d]]
  BY <1>2 DEF Authenticate, Types
<1>5. CASE Proceeds(c, Tail(left[c]))
  BY <1>1, <1>3, <1>4, <1>5, GoesOn DEF Authenticate
<1>6. CASE Throws(c)
  BY <1>1, <1>4, <1>6, Fails DEF Authenticate
<1> QED
  BY <1>5, <1>6 DEF Authenticate

LEMMA EnsureFreshCsrfKeeps ==
  ASSUME IInv, NEW c \in Calls, EnsureFreshCsrf(c)
  PROVE  IInv' /\ Promised(c)
<1>1. Running(c) /\ Stage(left[c]) = "csrf"
  BY StageOf DEF EnsureFreshCsrf
<1>2. Types /\ WalkInv(c)
  BY DEF IInv, CallInv
<1>3. Tail(left[c]) # <<>>
  BY <1>1, <1>2, AtStage DEF Following, Stage
<1>4. token' = [d \in Calls |-> token'[d]]
  BY <1>2 DEF EnsureFreshCsrf, Types
<1>5. CASE Proceeds(c, Tail(left[c]))
  BY <1>1, <1>3, <1>4, <1>5, GoesOn DEF EnsureFreshCsrf
<1>6. CASE Throws(c)
  BY <1>1, <1>4, <1>6, Fails DEF EnsureFreshCsrf
<1> QED
  BY <1>5, <1>6 DEF EnsureFreshCsrf

LEMMA FetchTokenKeeps ==
  ASSUME IInv, NEW c \in Calls, FetchToken(c)
  PROVE  IInv' /\ Promised(c)
<1>1. Running(c) /\ Stage(left[c]) = "fetch"
  BY StageOf DEF FetchToken
<1>2. Types /\ WalkInv(c)
  BY DEF IInv, CallInv
<1>3. Tail(left[c]) # <<>>
  BY <1>1, <1>2, AtStage DEF Following, Stage
<1>4. token' = [d \in Calls |-> token'[d]]
  BY <1>2 DEF FetchToken, Types
<1>5. CASE Proceeds(c, Tail(left[c]))
  BY <1>1, <1>3, <1>4, <1>5, GoesOn DEF FetchToken
<1>6. CASE Throws(c)
  BY <1>1, <1>4, <1>6, Fails DEF FetchToken
<1> QED
  BY <1>5, <1>6 DEF FetchToken

LEMMA ReadKeeps ==
  ASSUME IInv, NEW c \in Calls, Read(c)
  PROVE  IInv' /\ Promised(c)
<1>1. Running(c) /\ Stage(left[c]) \in {"get", "worklist", "config"}
  BY DEF Read, Running, Stage
<1>2. Types /\ WalkInv(c) /\ JobInv(c)
  BY DEF IInv, CallInv
<1>3. token' = [d \in Calls |-> token'[d]]
  BY <1>2 DEF Read, Types
<1>4. CASE Tail(left[c]) # <<>> /\ Proceeds(c, Tail(left[c]))
  BY <1>1, <1>3, <1>4, GoesOn DEF Read
<1>5. CASE Tail(left[c]) = <<>> /\ Finishes(c, "done")
  <2>1. Stage(left[c]) = "get"
    BY <1>1, <1>2, <1>5, AtStage DEF Following, Stage
  <2>2. tool[c] \in {"check", "read"}
    BY <1>1, <1>2, <2>1, AtStage DEF Makers
  <2>3. Types'
    BY <1>2, <1>5 DEF Types, Read, Finishes, Answer, asked, sap
  <2>4. job[c] # "running"
    BY <1>2, <2>2 DEF JobInv
  <2> QED
    BY <1>1, <1>5, <2>1, <2>2, <2>3, <2>4, Ends DEF Read, sap, WriteTools
<1>6. CASE Throws(c)
  BY <1>1, <1>3, <1>6, Fails DEF Read
<1> QED
  BY <1>4, <1>5, <1>6 DEF Read

LEMMA LockKeeps ==
  ASSUME IInv, NEW c \in Calls, Lock(c)
  PROVE  IInv' /\ Promised(c)
<1> USE DEF asked, sap
<1>1. Running(c) /\ Stage(left[c]) = "lock"
  BY StageOf DEF Lock
<1>2. /\ Types /\ LockInv /\ WalkInv(c) /\ TookInv(c) /\ JobInv(c) /\ DoneInv(c)
      /\ \A d \in Calls : WalkInv(d)
  BY DEF IInv, CallInv
<1>3. /\ tool[c] = "update" /\ obj[c] \in Objects /\ answer[c] \in {"none", "error"}
      /\ Tail(left[c]) \in Remainders(tool[c]) /\ Stage(Tail(left[c])) = "put"
      /\ changes[c] = 0 /\ job[c] = "none"
  BY <1>1, <1>2, AtStage DEF Makers, WalkInv, TookInv, JobInv, Following
<1>4. Types'
  <2>1. lock' \in [Objects -> Calls \cup {Nobody}]
    BY <1>2 DEF Lock, Types
  <2>2. /\ left' = [d \in Calls |-> left'[d]] /\ UNCHANGED failed
        /\ answer' \in [Calls -> {"none", "blocked", "done", "negative", "error"}]
    BY <1>2 DEF Lock, Types, Proceeds, Throws, LockRefused, Answer
  <2>3. dropped' \subseteq Calls
    BY <1>2 DEF Lock, Types
  <2> QED
    BY <1>2, <2>1, <2>2, <2>3 DEF Lock, Types
<1>5. CASE LockRefused(c) /\ UNCHANGED <<lock, dropped>>
  BY <1>1, <1>4, <1>5, <1>2, Fails DEF Lock, LockRefused, Types
<1>6. CASE /\ lock[obj[c]] = Nobody /\ lock' = [lock EXCEPT ![obj[c]] = c]
           /\ \/ Proceeds(c, Tail(left[c])) /\ UNCHANGED dropped
              \/ Throws(c) /\ dropped' = dropped \cup {c}
  <2>1. /\ left'[c] = Tail(left[c]) \/ left'[c] = <<>>
        /\ \A d \in Calls : d # c => left'[d] = left[d]
        /\ UNCHANGED failed /\ dropped \subseteq dropped'
    BY <1>2, <1>6 DEF Types, Proceeds, Throws
  <2>2. /\ answer'[c] \in {"none", "error"}
        /\ \/ UNCHANGED answer
           \/ answer[c] = "none" /\ answer' = [answer EXCEPT ![c] = "error"]
        /\ \A d \in Calls : d # c => answer'[d] = answer[d]
    BY <1>2, <1>3, <1>6 DEF Types, Proceeds, Throws, Answer
  <2>3. \/ Stage(left'[c]) = "put"
        \/ Stage(left'[c]) = "end" /\ c \in dropped'
    BY <1>2, <1>3, <1>6, Turns DEF Types, Proceeds, Throws
  <2>4. ASSUME NEW d \in Calls, Stage(left'[d]) \in {"put", "unlock"}
        PROVE  lock'[obj'[d]] = d
    <3>1. CASE d = c
      BY <1>2, <1>3, <1>6, <3>1 DEF Lock, Types
    <3>2. CASE d # c
      <4>1. lock[obj[d]] = d /\ tool[d] \in Tools
        BY <1>2, <2>1, <2>4, <3>2, AtStage DEF LockInv, Makers
      <4>2. obj[d] \in Objects
        BY <1>2, <4>1 DEF WalkInv, Tools, WriteTools, ReadTools
      <4>3. obj[d] # obj[c]
        BY <1>6, <4>1, SidecarAssumption
      <4> QED
        BY <1>2, <1>3, <1>6, <4>1, <4>2, <4>3 DEF Lock, Types
    <3> QED
      BY <3>1, <3>2
  <2>5. ASSUME NEW o \in Objects, lock'[o] # Nobody
        PROVE  /\ tool'[lock'[o]] # "none" /\ obj'[lock'[o]] = o
               /\ \/ Stage(left'[lock'[o]]) \in {"put", "unlock"}
                  \/ Stage(left'[lock'[o]]) = "end" /\ lock'[o] \in dropped'
    <3>1. CASE o = obj[c]
      BY <1>2, <1>3, <1>6, <2>3, <3>1 DEF Lock, Types
    <3>2. CASE o # obj[c]
      <4>1. PICK h \in Calls : h = lock[o] /\ lock'[o] = h
        BY <1>2, <1>6, <2>5, <3>2 DEF Types
      <4>2. /\ tool[h] # "none" /\ obj[h] = o /\ h # c
            /\ \/ Stage(left[h]) \in {"put", "unlock"}
               \/ Stage(left[h]) = "end" /\ h \in dropped
        BY <1>2, <2>5, <3>2, <4>1, SidecarAssumption DEF LockInv
      <4> QED
        BY <2>1, <4>1, <4>2 DEF Lock
    <3> QED
      BY <3>1, <3>2
  <2>6. LockInv'
    BY <2>4, <2>5 DEF LockInv
  <2>7. WalkInv(c)'
    BY <1>2, <1>3, <2>1, <2>2, Turns DEF Lock, WalkInv, Running
  <2>8. TookInv(c)'
    BY <1>1, <1>2, <1>3, <2>2, <2>3 DEF Lock, TookInv
  <2>9. JobInv(c)' /\ DoneInv(c)'
    BY <1>3, <2>2 DEF Lock, JobInv, DoneInv
  <2>10. IInv'
    BY <1>4, <2>1, <2>2, <2>6, <2>7, <2>8, <2>9, OneCall DEF Lock, CallInv
  <2> QED
    BY <1>3, <2>2, <2>10 DEF Lock, Promised
<1> QED
  BY <1>5, <1>6 DEF Lock

LEMMA PutKeeps ==
  ASSUME IInv, NEW c \in Calls, Put(c)
  PROVE  IInv' /\ Promised(c)
<1> USE DEF asked
<1>1. Running(c) /\ Stage(left[c]) = "put"
  BY StageOf DEF Put
<1>2. /\ Types /\ LockInv /\ WalkInv(c) /\ TookInv(c) /\ JobInv(c) /\ DoneInv(c)
      /\ \A d \in Calls : WalkInv(d)
  BY DEF IInv, CallInv
<1>3. /\ tool[c] = "update" /\ obj[c] \in Objects /\ answer[c] \in {"none", "error"}
      /\ Tail(left[c]) \in Remainders(tool[c]) /\ Stage(Tail(left[c])) = "unlock"
      /\ changes[c] = 0 /\ job[c] = "none"
  BY <1>1, <1>2, AtStage DEF Makers, WalkInv, TookInv, JobInv, Following
<1>4. Types'
  <2>1. draft' \in [Objects -> Calls \cup {Nobody}] /\ changes' \in [Calls -> Nat]
    BY <1>2, Counted DEF Put, Types
  <2>2. /\ left' = [d \in Calls |-> left'[d]] /\ UNCHANGED answer
        /\ failed' \in [Calls -> BOOLEAN]
    BY <1>2 DEF Put, Types, Proceeds, ThrowsUnderLock, PutFails
  <2> QED
    BY <1>2, <2>1, <2>2 DEF Put, Types
<1>5. /\ left'[c] \in Remainders("update") /\ Stage(left'[c]) = "unlock"
      /\ \A d \in Calls : d # c => left'[d] = left[d] /\ failed'[d] = failed[d]
      /\ UNCHANGED answer
      /\ failed'[c] \/ ChangesOnce(c)
  BY <1>2, <1>3, Turns
     DEF Put, PutFails, ThrowsUnderLock, Proceeds, Types, ChangesOnce
<1>6. /\ UNCHANGED changed \/ ChangesOnce(c)
      /\ UNCHANGED <<lock, active, published, job, dropped>>
  BY <1>3 DEF Put, ChangesOnce
<1>12. /\ changes'[c] \in {0, 1} /\ publications'[c] = 0
       /\ failed'[c] \/ changes'[c] = 1
       /\ \A d \in Calls : d # c =>
            changes'[d] = changes[d] /\ publications'[d] = publications[d]
  BY <1>1, <1>2, <1>3, <1>5, <1>6, Counted DEF TookInv
<1>7. LockInv'
  BY <1>1, <1>2, <1>5, <1>6, LocksKept DEF Put
<1>8. WalkInv(c)'
  BY <1>2, <1>3, <1>5 DEF Put, WalkInv, Running
<1>9. TookInv(c)'
  BY <1>3, <1>5, <1>6, <1>12 DEF Put, TookInv, WriteTools
<1>10. JobInv(c)' /\ DoneInv(c)'
  BY <1>3, <1>5, <1>6 DEF Put, JobInv, DoneInv
<1>11. IInv'
  BY <1>4, <1>5, <1>6, <1>7, <1>8, <1>9, <1>10, <1>12, OneCall DEF Put, CallInv
<1> QED
  BY <1>3, <1>5, <1>6, <1>11 DEF Put, Promised, WriteTools

LEMMA UnlockKeeps ==
  ASSUME IInv, NEW c \in Calls, Unlock(c)
  PROVE  IInv' /\ Promised(c)
<1> USE DEF asked
<1>1. Running(c) /\ Stage(left[c]) = "unlock"
  BY StageOf DEF Unlock
<1>2. /\ Types /\ LockInv /\ WalkInv(c) /\ TookInv(c) /\ JobInv(c) /\ DoneInv(c)
      /\ \A d \in Calls : WalkInv(d)
  BY DEF IInv, CallInv
<1>3. /\ tool[c] = "update" /\ obj[c] \in Objects /\ answer[c] \in {"none", "error"}
      /\ lock[obj[c]] = c /\ job[c] = "none" /\ (~ failed[c] => changes[c] = 1)
  BY <1>1, <1>2, AtStage DEF Makers, WalkInv, TookInv, JobInv, LockInv
<1>4. PICK a \in {"done", "error"} :
        /\ Finishes(c, a) /\ (a = "done" => changes[c] = 1)
  BY <1>3 DEF Unlock
<1>5. /\ left'[c] = <<>> /\ left' = [d \in Calls |-> left'[d]]
      /\ \A d \in Calls : d # c => left'[d] = left[d]
      /\ UNCHANGED failed /\ Stage(left'[c]) = "end"
  BY <1>2, <1>4 DEF Types, Finishes, Stage
<1>6. /\ answer'[c] \in {"error", a}
      /\ \A d \in Calls : d # c => answer'[d] = answer[d]
      /\ answer' \in [Calls -> {"none", "blocked", "done", "negative", "error"}]
      /\ \/ UNCHANGED answer
         \/ answer[c] = "none" /\ answer' = [answer EXCEPT ![c] = a]
  BY <1>2, <1>3, <1>4 DEF Types, Finishes, Answer
<1>7. /\ lock' \in [Objects -> Calls \cup {Nobody}]
      /\ \A o \in Objects : o # obj[c] => lock'[o] = lock[o]
      /\ \/ lock'[obj[c]] = Nobody
         \/ lock'[obj[c]] = c /\ c \in dropped'
      /\ dropped \subseteq dropped' /\ dropped' \subseteq Calls
  BY <1>2, <1>3 DEF Types, Unlock
<1>8. Types'
  BY <1>2, <1>5, <1>6, <1>7 DEF Types, Unlock
<1>9. LockInv'
  <2>1. ASSUME NEW d \in Calls, Stage(left'[d]) \in {"put", "unlock"}
        PROVE  lock'[obj'[d]] = d
    <3>1. lock[obj[d]] = d /\ tool[d] \in Tools /\ d # c
      BY <1>2, <1>5, <2>1, AtStage DEF LockInv, Makers
    <3>2. obj[d] \in Objects /\ obj[d] # obj[c]
      BY <1>2, <1>3, <3>1 DEF WalkInv, Tools, WriteTools, ReadTools
    <3> QED
      BY <1>7, <3>1, <3>2 DEF Unlock
  <2>2. ASSUME NEW o \in Objects, lock'[o] # Nobody
        PROVE  /\ tool'[lock'[o]] # "none" /\ obj'[lock'[o]] = o
               /\ \/ Stage(left'[lock'[o]]) \in {"put", "unlock"}
                  \/ Stage(left'[lock'[o]]) = "end" /\ lock'[o] \in dropped'
    <3>1. CASE o = obj[c]
      BY <1>3, <1>5, <1>7, <2>2, <3>1 DEF Unlock
    <3>2. CASE o # obj[c]
      <4>1. PICK h \in Calls : h = lock[o] /\ lock'[o] = h
        BY <1>2, <1>7, <2>2, <3>2 DEF Types
      <4>2. /\ tool[h] # "none" /\ obj[h] = o /\ h # c
            /\ \/ Stage(left[h]) \in {"put", "unlock"}
               \/ Stage(left[h]) = "end" /\ h \in dropped
        BY <1>2, <2>2, <1>7, <3>2, <4>1 DEF LockInv
      <4> QED
        BY <1>5, <1>7, <4>1, <4>2 DEF Unlock
    <3> QED
      BY <3>1, <3>2
  <2> QED
    BY <2>1, <2>2 DEF LockInv
<1>10. WalkInv(c)'
  BY <1>3, <1>5, Turns DEF Unlock, WalkInv, Running
<1>11. TookInv(c)' /\ JobInv(c)' /\ DoneInv(c)'
  BY <1>2, <1>3, <1>4, <1>5, <1>6 DEF Unlock, TookInv, JobInv, DoneInv
<1>12. IInv'
  BY <1>5, <1>6, <1>8, <1>9, <1>10, <1>11, OneCall DEF Unlock, CallInv
<1> QED
  BY <1>3, <1>4, <1>6, <1>12 DEF Unlock, Promised

LEMMA CreateKeeps ==
  ASSUME IInv, NEW c \in Calls, Create(c)
  PROVE  IInv' /\ Promised(c)
<1> USE DEF asked
<1>1. Running(c) /\ Stage(left[c]) = "create"
  BY StageOf DEF Create
<1>2. Types /\ WalkInv(c) /\ TookInv(c) /\ JobInv(c)
  BY DEF IInv, CallInv
<1>3. tool[c] = "create" /\ changes[c] = 0 /\ job[c] = "none"
  BY <1>1, <1>2, AtStage DEF Makers, TookInv, JobInv
<1>4. PICK a \in {"done", "error"} :
        /\ Finishes(c, a)
        /\ UNCHANGED publications
        /\ \/ ChangesOnce(c) /\ draft' = [draft EXCEPT ![obj[c]] = c]
           \/ a = "error" /\ UNCHANGED <<changes, draft>>
  BY <1>3 DEF Create, Throws, Finishes, ChangesOnce
<1>5. Types'
  <2>1. draft' \in [Objects -> Calls \cup {Nobody}] /\ changes' \in [Calls -> Nat]
    BY <1>2, <1>4, Counted DEF Types
  <2>2. /\ left' = [d \in Calls |-> left'[d]] /\ UNCHANGED failed
        /\ answer' \in [Calls -> {"none", "blocked", "done", "negative", "error"}]
    BY <1>2, <1>4 DEF Types, Finishes, Answer
  <2> QED
    BY <1>2, <2>1, <2>2 DEF Create, Types
<1>6. ChangesOnce(c) => changes'[c] = 1
  BY <1>2, Counted
<1> QED
  BY <1>1, <1>3, <1>4, <1>5, <1>6, Ends DEF Create

\* What an activation does: an object that had an active version still has one.
LEMMA Activated ==
  ASSUME Types, NEW O, Activates(O)
  PROVE  /\ draft' \in [Objects -> Calls \cup {Nobody}]
         /\ active' \in [Objects -> Calls \cup {Nobody, Earlier}]
         /\ \A o \in Objects : active[o] # Nobody => active'[o] # Nobody
BY DEF Types, Activates

LEMMA ActivateKeeps ==
  ASSUME IInv, NEW c \in Calls, Activate(c)
  PROVE  IInv' /\ Promised(c)
<1> USE DEF asked
<1>1. Running(c) /\ Stage(left[c]) = "activate"
  BY StageOf DEF Activate
<1>2. /\ Types /\ LockInv /\ WalkInv(c) /\ TookInv(c) /\ JobInv(c) /\ DoneInv(c)
      /\ \A d \in Calls : WalkInv(d)
  BY DEF IInv, CallInv
<1>3. /\ tool[c] = "activate" /\ changes[c] = 0 /\ job[c] = "none"
      /\ obj[c] \in Objects /\ answer[c] \in {"none", "error"}
  BY <1>1, <1>2, AtStage DEF Makers, TookInv, JobInv, WalkInv
<1>4. /\ \/ Activates({obj[c]}) /\ ChangesOnce(c)
         \/ UNCHANGED <<active, draft, changes>>
      /\ UNCHANGED <<polls, token, lock, published, job, publications, dropped>>
  BY <1>3 DEF Activate, ChangesOnce
<1>5. /\ draft' \in [Objects -> Calls \cup {Nobody}]
      /\ active' \in [Objects -> Calls \cup {Nobody, Earlier}]
      /\ \A o \in Objects : active[o] # Nobody => active'[o] # Nobody
      /\ changes' \in [Calls -> Nat]
  BY <1>2, <1>4, Activated, Counted DEF Types
<1>6. ASSUME NEW a \in {"done", "negative", "error"}, Finishes(c, a),
             a = "done" => changes'[c] = 1 /\ obj[c] \notin Bindings
      PROVE  IInv' /\ Promised(c)
  <2>1. /\ left' = [d \in Calls |-> left'[d]] /\ UNCHANGED failed
        /\ answer' \in [Calls -> {"none", "blocked", "done", "negative", "error"}]
    BY <1>2, <1>6 DEF Types, Finishes, Answer
  <2>2. Types'
    BY <1>2, <1>4, <1>5, <2>1 DEF Activate, Types
  <2>3. Stage(left[c]) \notin {"put", "unlock"}
    BY <1>1
  <2> QED
    BY <1>1, <1>3, <1>4, <1>5, <1>6, <2>2, <2>3, Ends DEF Activate
<1>7. ASSUME Proceeds(c, PublishServiceBinding), obj[c] \in Bindings, ChangesOnce(c)
      PROVE  IInv' /\ Promised(c)
  <2>1. /\ left' = [d \in Calls |-> left'[d]] /\ left'[c] = PublishServiceBinding
        /\ \A d \in Calls : d # c => left'[d] = left[d]
        /\ UNCHANGED <<answer, failed>>
        /\ Stage(left'[c]) = "config"
    BY <1>2, <1>7, Turns DEF Types, Proceeds
  <2>2. Types'
    BY <1>2, <1>4, <1>5, <2>1 DEF Activate, Types
  <2>3. LockInv'
    BY <1>1, <1>2, <1>4, <2>1, LocksKept DEF Activate
  <2>4. WalkInv(c)'
    BY <1>2, <1>3, <2>1, Turns DEF Activate, WalkInv, Running
  <2>7. /\ changes'[c] = 1 /\ publications'[c] = 0
        /\ \A d \in Calls : d # c =>
             changes'[d] = changes[d] /\ publications'[d] = publications[d]
    BY <1>1, <1>2, <1>7, Counted DEF TookInv
  <2>5. TookInv(c)' /\ JobInv(c)' /\ DoneInv(c)'
    BY <1>3, <1>4, <1>7, <2>1, <2>7 DEF Activate, TookInv, JobInv, DoneInv, WriteTools
  <2>6. IInv'
    BY <2>7, <1>4, <1>5, <1>7, <2>1, <2>2, <2>3, <2>4, <2>5, OneCall DEF Activate, CallInv
  <2> QED
    BY <1>3, <1>7, <2>1, <2>6 DEF Activate, Promised, WriteTools
<1>8. \/ /\ ChangesOnce(c) /\ changes'[c] = 1
         /\ \/ obj[c] \in Bindings /\ Proceeds(c, PublishServiceBinding)
            \/ obj[c] \notin Bindings /\ Finishes(c, "done")
            \/ Finishes(c, "error")
      \/ Finishes(c, "negative") \/ Finishes(c, "error")
  BY <1>2, <1>3, Counted DEF Activate, AfterActivation, Throws, Finishes, ChangesOnce
<1> QED
  BY <1>6, <1>7, <1>8

LEMMA PublishKeeps ==
  ASSUME IInv, NEW c \in Calls, Publish(c)
  PROVE  IInv' /\ Promised(c)
<1> USE DEF asked
<1>1. Running(c) /\ Stage(left[c]) = "publish"
  BY StageOf DEF Publish
<1>2. Types /\ WalkInv(c) /\ TookInv(c) /\ JobInv(c)
  BY DEF IInv, CallInv
<1>3. tool[c] = "activate" /\ changes[c] = 1 /\ obj[c] \in Bindings /\ job[c] = "none"
  BY <1>1, <1>2, AtStage DEF Makers, TookInv, JobInv
<1>4. PICK a \in {"done", "error"} :
        /\ Finishes(c, a)
        /\ \/ active[obj[c]] # Nobody /\ published' = published \cup {obj[c]}
           \/ a = "error" /\ UNCHANGED published
        /\ PublishesOnce(c) \/ UNCHANGED publications
  <2>1. publications[c] = 0
    BY <1>1, <1>2 DEF TookInv
  <2> QED
    BY <1>3, <2>1 DEF Publish, Throws, Finishes, PublishesOnce
<1>5. Types'
  <2>1. published \subseteq published' /\ published' \subseteq Bindings
    BY <1>2, <1>3, <1>4 DEF Types
  <2>2. /\ left' = [d \in Calls |-> left'[d]] /\ UNCHANGED failed
        /\ answer' \in [Calls -> {"none", "blocked", "done", "negative", "error"}]
    BY <1>2, <1>4 DEF Types, Finishes, Answer
  <2> QED
    BY <1>2, <1>4, <2>1, <2>2, Counted DEF Publish, Types
<1>6. /\ UNCHANGED <<lock, dropped, changes, job, active>>
      /\ UNCHANGED <<allow, tool, obj>> /\ published \subseteq published'
      /\ a = "done" => obj[c] \in published' /\ active'[obj[c]] # Nobody
  BY <1>4 DEF Publish
<1> QED
  BY <1>1, <1>3, <1>4, <1>5, <1>6, Ends

LEMMA StartJobKeeps ==
  ASSUME IInv, NEW c \in Calls, StartJob(c)
  PROVE  IInv' /\ Promised(c)
<1> USE DEF asked
<1>1. Running(c) /\ Stage(left[c]) = "start"
  BY StageOf DEF StartJob
<1>2. /\ Types /\ LockInv /\ WalkInv(c) /\ TookInv(c) /\ JobInv(c) /\ DoneInv(c)
      /\ \A d \in Calls : WalkInv(d)
  BY DEF IInv, CallInv
<1>3. /\ tool[c] \in {"batch", "atc", "unit"} /\ changes[c] = 0 /\ job[c] = "none"
      /\ obj[c] \in Objects /\ answer[c] \in {"none", "error"}
      /\ Tail(left[c]) \in Remainders(tool[c]) /\ Stage(Tail(left[c])) = "poll"
  BY <1>1, <1>2, AtStage DEF Makers, TookInv, JobInv, WalkInv, Following
<1>4. /\ job' \in [Calls -> {"none", "running", "good", "bad", "aborted"}]
      /\ job'[c] \in {"none", "running"} /\ \A d \in Calls : d # c => job'[d] = job[d]
      /\ UNCHANGED <<polls, token, lock, draft, active, published, changed, dropped>>
  BY <1>2, <1>3 DEF StartJob, Types
<1>5. CASE Throws(c)
  <2>1. /\ left' = [d \in Calls |-> left'[d]] /\ UNCHANGED failed
        /\ answer' \in [Calls -> {"none", "blocked", "done", "negative", "error"}]
    BY <1>2, <1>5 DEF Types, Throws, Answer
  <2>2. Types'
    BY <1>2, <1>4, <2>1 DEF StartJob, Types
  <2>3. Finishes(c, "error")
    BY <1>5 DEF Finishes, Throws
  <2> QED
    BY <1>1, <1>3, <1>4, <2>2, <2>3, Ends DEF StartJob
<1>6. CASE Proceeds(c, Tail(left[c]))
  <2>1. /\ left' = [d \in Calls |-> left'[d]] /\ left'[c] = Tail(left[c])
        /\ \A d \in Calls : d # c => left'[d] = left[d]
        /\ UNCHANGED <<answer, failed>>
    BY <1>2, <1>6 DEF Types, Proceeds
  <2>2. Types'
    BY <1>2, <1>4, <2>1 DEF StartJob, Types
  <2>3. LockInv'
    BY <1>1, <1>2, <1>3, <1>4, <2>1, LocksKept DEF StartJob
  <2>4. WalkInv(c)'
    BY <1>2, <1>3, <2>1 DEF StartJob, WalkInv, Running
  <2>5. TookInv(c)' /\ JobInv(c)' /\ DoneInv(c)'
    BY <1>1, <1>2, <1>3, <1>4, <2>1 DEF StartJob, TookInv, JobInv, DoneInv
  <2>6. IInv'
    BY <1>4, <2>1, <2>2, <2>3, <2>4, <2>5, OneCall DEF StartJob, CallInv
  <2> QED
    BY <1>4, <2>1, <2>6 DEF StartJob, Promised
<1> QED
  BY <1>5, <1>6 DEF StartJob

LEMMA BatchAtOnceKeeps ==
  ASSUME IInv, NEW c \in Calls, BatchAtOnce(c)
  PROVE  IInv' /\ Promised(c)
<1> USE DEF asked
<1>1. Running(c) /\ Stage(left[c]) = "start" /\ tool[c] = "batch"
  BY StageOf DEF BatchAtOnce
<1>2. Types /\ WalkInv(c) /\ TookInv(c) /\ JobInv(c)
  BY DEF IInv, CallInv
<1>3. changes[c] = 0 /\ job[c] = "none"
  BY <1>1, <1>2 DEF TookInv, JobInv
<1>4. PICK a \in {"done", "negative", "error"} :
        /\ Finishes(c, a)
        /\ \/ /\ job' = [job EXCEPT ![c] = "good"] /\ a # "negative"
              /\ Activates(Objects) /\ ChangesOnce(c)
           \/ /\ job' = [job EXCEPT ![c] = "bad"] /\ a # "done"
              /\ UNCHANGED <<active, draft, changed>>
  BY <1>3 DEF BatchAtOnce, Throws, Finishes, ChangesOnce
<1>5. /\ draft' \in [Objects -> Calls \cup {Nobody}]
      /\ active' \in [Objects -> Calls \cup {Nobody, Earlier}]
      /\ \A o \in Objects : active[o] # Nobody => active'[o] # Nobody
      /\ changes' \in [Calls -> Nat] /\ (ChangesOnce(c) => changes'[c] = 1)
  BY <1>2, <1>4, Activated, Counted DEF Types
<1>6. /\ job' \in [Calls -> {"none", "running", "good", "bad", "aborted"}]
      /\ \A d \in Calls : d # c => job'[d] = job[d]
      /\ \/ job'[c] = "good" /\ ChangesOnce(c) /\ a # "negative"
         \/ job'[c] = "bad" /\ UNCHANGED changed /\ a # "done"
  BY <1>2, <1>4 DEF Types
<1>7. Types'
  <2>1. /\ left' = [d \in Calls |-> left'[d]] /\ UNCHANGED failed
        /\ answer' \in [Calls -> {"none", "blocked", "done", "negative", "error"}]
    BY <1>2, <1>4 DEF Types, Finishes, Answer
  <2> QED
    BY <1>2, <1>5, <1>6, <2>1 DEF BatchAtOnce, Types
<1> QED
  BY <1>1, <1>3, <1>4, <1>5, <1>6, <1>7, Ends DEF BatchAtOnce

LEMMA PollKeeps ==
  ASSUME IInv, NEW c \in Calls, Poll(c)
  PROVE  IInv' /\ Promised(c)
<1> USE DEF asked, sap
<1>1. Running(c) /\ Stage(left[c]) = "poll"
  BY StageOf DEF Poll
<1>2. /\ Types /\ LockInv /\ WalkInv(c) /\ TookInv(c) /\ JobInv(c) /\ DoneInv(c)
      /\ \A d \in Calls : WalkInv(d)
  BY DEF IInv, CallInv
<1>3. /\ tool[c] \in {"batch", "atc", "unit"}
      /\ job[c] = "good" /\ tool[c] = "batch" => changes[c] = 1
  BY <1>1, <1>2, AtStage DEF Makers, TookInv
<1>4. ASSUME NEW a \in {"done", "negative", "error"}, Finishes(c, a), UNCHANGED polls,
             a = "done" => job[c] = "good" \/ (tool[c] = "atc" /\ job[c] = "aborted"),
             job[c] = "running" => a = "error"
      PROVE  IInv' /\ Promised(c)
  <2>1. /\ left' = [d \in Calls |-> left'[d]] /\ UNCHANGED failed
        /\ answer' \in [Calls -> {"none", "blocked", "done", "negative", "error"}]
    BY <1>2, <1>4 DEF Types, Finishes, Answer
  <2>2. Types'
    BY <1>2, <1>4, <2>1 DEF Poll, Types
  <2>3. /\ UNCHANGED <<changed, job, published, active>>
        /\ a = "done" => (tool[c] \in WriteTools => changes[c] = 1)
        /\ tool[c] # "activate"
    BY <1>3, <1>4 DEF Poll, WriteTools
  <2> QED
    BY <1>1, <1>4, <2>2, <2>3, Ends DEF Poll
<1>5. ASSUME Proceeds(c, left[c]), polls' = [polls EXCEPT ![c] = @ + 1],
             polls[c] + 1 # MaxPolls
      PROVE  IInv' /\ Promised(c)
  <2>1. UNCHANGED <<left, answer, failed>>
    BY <1>2, <1>5 DEF Proceeds, Types
  <2>2. polls' \in [Calls -> 0..(MaxPolls - 1)]
    BY <1>2, <1>5, SidecarAssumption DEF Types
  <2>3. Types'
    BY <1>2, <2>1, <2>2 DEF Poll, Types
  <2>4. LockInv'
    BY <1>2, <2>1, LocksKept DEF Poll
  <2>5. CallInv(c)'
    BY <2>1, Untouched DEF IInv, Poll
  <2>6. IInv'
    BY <2>1, <2>3, <2>4, <2>5, OneCall DEF Poll
  <2> QED
    BY <2>1, <2>6 DEF Poll, Promised
<1>6. \/ Finishes(c, "error") /\ UNCHANGED polls
      \/ /\ Proceeds(c, left[c]) /\ polls' = [polls EXCEPT ![c] = @ + 1]
         /\ polls[c] + 1 # MaxPolls
      \/ job[c] = "good" /\ Finishes(c, "done") /\ UNCHANGED polls
      \/ job[c] = "bad" /\ Finishes(c, "negative") /\ UNCHANGED polls
      \/ /\ tool[c] = "atc" /\ job[c] = "aborted" /\ UNCHANGED polls
         /\ Finishes(c, "done") \/ Finishes(c, "negative")
  BY DEF Poll, PollAgain, PollsOver, AtcComplete, Throws, Finishes
<1> QED
  BY <1>4, <1>5, <1>6

LEMMA JobEndsKeeps ==
  ASSUME IInv, NEW c \in Calls, JobEnds(c)
  PROVE  IInv' /\ Promised(c)
<1> USE DEF asked, handler
<1>1. /\ Types /\ LockInv /\ WalkInv(c) /\ TookInv(c) /\ JobInv(c) /\ DoneInv(c)
      /\ \A d \in Calls : WalkInv(d)
  BY DEF IInv, CallInv
<1>2. /\ job[c] = "running" /\ tool[c] \in {"batch", "atc", "unit"}
      /\ answer[c] \in {"none", "error"} /\ Stage(left[c]) \in {"poll", "end"}
      /\ tool[c] = "batch" => changes[c] = 0
  BY <1>1 DEF JobEnds, JobInv, TookInv
<1>3. /\ job' \in [Calls -> {"none", "running", "good", "bad", "aborted"}]
      /\ job'[c] \in {"good", "bad", "aborted"} /\ \A d \in Calls : d # c => job'[d] = job[d]
      /\ UNCHANGED <<allow, tool, obj, answer, left, failed, polls, token>>
      /\ UNCHANGED <<lock, published, dropped>>
  BY <1>1, <1>2 DEF JobEnds, Types
<1>4. \/ /\ tool[c] = "batch" /\ job'[c] = "good"
         /\ Activates(Objects) /\ ChangesOnce(c)
      \/ /\ tool[c] = "batch" => job'[c] \in {"bad", "aborted"}
         /\ UNCHANGED <<active, draft, changed>>
  BY <1>1, <1>2 DEF JobEnds, Types, ChangesOnce, TookInv
<1>5. /\ draft' \in [Objects -> Calls \cup {Nobody}]
      /\ active' \in [Objects -> Calls \cup {Nobody, Earlier}]
      /\ \A o \in Objects : active[o] # Nobody => active'[o] # Nobody
      /\ changes' \in [Calls -> Nat] /\ UNCHANGED publications
      /\ \A d \in Calls : d # c => changes'[d] = changes[d]
      /\ tool[c] = "batch" /\ job'[c] = "good" => changes'[c] = 1
      /\ tool[c] = "batch" /\ job'[c] # "good" => changes'[c] = 0
      /\ tool[c] # "batch" => changes'[c] = changes[c]
  BY <1>1, <1>2, <1>4, Activated, Counted DEF Types, TookInv
<1>6. Types'
  BY <1>1, <1>3, <1>5 DEF Types
<1>7. LockInv'
  BY <1>1, <1>3, LocksKept
<1>8. WalkInv(c)'
  BY <1>1, <1>3 DEF WalkInv, Running
<1>9. TookInv(c)' /\ JobInv(c)' /\ DoneInv(c)'
  BY <1>1, <1>2, <1>3, <1>5 DEF TookInv, JobInv, DoneInv, WriteTools
<1>10. IInv'
  BY <1>3, <1>4, <1>5, <1>6, <1>7, <1>8, <1>9, OneCall DEF CallInv
<1> QED
  BY <1>2, <1>3, <1>4, <1>10 DEF Promised, WriteTools

\* A call that is asked for: what the step does to its books.
LEMMA Asks ==
  ASSUME IInv, NEW c \in Calls, Ask(c)
  PROVE  /\ tool[c] = "none" /\ answer[c] = "none"
         /\ tool'[c] \in Tools
         /\ \A d \in Calls : d # c => tool'[d] = tool[d]
         /\ UNCHANGED <<allow, changed>>
         /\ \/ UNCHANGED answer /\ (tool'[c] \in WriteTools => allow)
            \/ /\ tool'[c] \in WriteTools /\ ~ allow
               /\ answer' = [answer EXCEPT ![c] = "blocked"]
         /\ IInv'
<1>1. /\ Types /\ LockInv /\ WalkInv(c) /\ TookInv(c) /\ JobInv(c) /\ DoneInv(c)
      /\ \A d \in Calls : WalkInv(d)
  BY DEF IInv, CallInv
<1>2. PICK t \in Tools, o \in Objects :
        /\ tool[c] = "none"
        /\ tool' = [tool EXCEPT ![c] = t] /\ obj' = [obj EXCEPT ![c] = o]
        /\ \/ /\ t \in WriteTools /\ ~ allow
              /\ answer' = [answer EXCEPT ![c] = "blocked"] /\ UNCHANGED left
           \/ /\ t \in WriteTools => allow
              /\ left' = [left EXCEPT ![c] = Requests(t)] /\ UNCHANGED answer
        /\ UNCHANGED <<allow, failed, polls, token, sap, changed, dropped>>
  BY DEF Ask, MUTATING
<1>3. /\ left[c] = <<>> /\ answer[c] = "none" /\ job[c] = "none" /\ changes[c] = 0 /\ publications[c] = 0
  BY <1>1, <1>2 DEF WalkInv, TookInv, JobInv, Remainders, WriteTools
<1>4. /\ tool'[c] = t /\ obj'[c] = o
      /\ \A d \in Calls : d # c => /\ tool'[d] = tool[d] /\ obj'[d] = obj[d]
                                   /\ left'[d] = left[d] /\ answer'[d] = answer[d]
      /\ left'[c] \in Remainders(t) /\ Stage(left'[c]) \in {"auth", "end"}
      /\ \/ answer'[c] = "none"
         \/ answer'[c] = "blocked" /\ left'[c] = <<>>
  BY <1>1, <1>2, <1>3, Turns DEF Types
<1>5. Types'
  <2>1. /\ tool' \in [Calls -> Tools \cup {"none"}]
        /\ obj' \in [Calls -> Objects \cup {Nobody}]
        /\ left' = [d \in Calls |-> left'[d]]
    BY <1>1, <1>2 DEF Types
  <2>2. answer' \in [Calls -> {"none", "blocked", "done", "negative", "error"}]
    BY <1>1, <1>2 DEF Types
  <2> QED
    BY <1>1, <1>2, <2>1, <2>2 DEF Types, sap
<1>6. LockInv'
  <2>1. \A d \in Calls : tool[d] # "none" => tool'[d] = tool[d] /\ obj'[d] = obj[d]
    BY <1>2, <1>4
  <2>2. tool[c] = "none" /\ Stage(left'[c]) \notin {"put", "unlock"}
    BY <1>2, <1>4
  <2> QED
    BY <1>1, <1>2, <1>4, <2>1, <2>2, LocksKept DEF sap
<1>7. WalkInv(c)'
  BY <1>4 DEF WalkInv, Running, Tools, WriteTools, ReadTools
<1>8. TookInv(c)' /\ JobInv(c)' /\ DoneInv(c)'
  BY <1>2, <1>3, <1>4 DEF TookInv, JobInv, DoneInv, sap
<1>9. ASSUME NEW d \in Calls, d # c PROVE CallInv(d)'
  BY <1>2, <1>4, <1>9, Untouched DEF IInv, sap
<1>10. IInv'
  BY <1>5, <1>6, <1>7, <1>8, <1>9 DEF IInv, CallInv
<1> QED
  BY <1>2, <1>3, <1>4, <1>10

LEMMA LockExpiresKeeps ==
  ASSUME IInv, NEW o \in Objects, LockExpires(o)
  PROVE  IInv'
<1>1. Types /\ LockInv /\ \A d \in Calls : WalkInv(d)
  BY DEF IInv, CallInv
<1>2. /\ UNCHANGED <<allow, tool, obj, answer, left, failed, polls, token>>
      /\ UNCHANGED <<draft, active, published, job, changed, dropped>>
      /\ lock' = [lock EXCEPT ![o] = Nobody] /\ ~ Running(lock[o]) /\ lock[o] \in Calls
  BY <1>1 DEF LockExpires, asked, handler, Types
<1>3. Types'
  <2>1. lock' \in [Objects -> Calls \cup {Nobody}]
    BY <1>1, <1>2 DEF Types
  <2> QED
    BY <1>1, <1>2, <2>1 DEF Types
<1>4. LockInv'
  <2>1. ASSUME NEW d \in Calls, Stage(left[d]) \in {"put", "unlock"}
        PROVE  lock'[obj[d]] = d
    <3>1. lock[obj[d]] = d /\ Running(d) /\ tool[d] \in Tools
      BY <1>1, <2>1, AtStage DEF LockInv, Makers
    <3>2. obj[d] # o /\ obj[d] \in Objects
      BY <1>1, <1>2, <3>1 DEF WalkInv, Tools, WriteTools, ReadTools
    <3> QED
      BY <1>1, <1>2, <3>1, <3>2 DEF Types
  <2>2. ASSUME NEW p \in Objects, lock'[p] # Nobody
        PROVE  p # o /\ lock'[p] = lock[p]
    BY <1>1, <1>2, <2>2 DEF Types
  <2> QED
    BY <1>1, <1>2, <2>1, <2>2 DEF LockInv
<1>5. ASSUME NEW d \in Calls PROVE CallInv(d)'
  BY <1>2, Untouched DEF IInv
<1> QED
  BY <1>3, <1>4, <1>5 DEF IInv

LEMMA BridgeLosesKeeps ==
  ASSUME IInv, NEW c \in Calls, BridgeLoses(c)
  PROVE  IInv' /\ Promised(c)
<1> USE DEF asked, sap
<1>1. /\ Types /\ LockInv /\ WalkInv(c) /\ TookInv(c) /\ JobInv(c) /\ DoneInv(c)
      /\ \A d \in Calls : WalkInv(d)
  BY DEF IInv, CallInv
<1>2. /\ answer' = [answer EXCEPT ![c] = "error"] /\ answer'[c] = "error"
      /\ answer[c] = "none" /\ tool[c] # "none"
      /\ \A d \in Calls : d # c => answer'[d] = answer[d]
      /\ answer' \in [Calls -> {"none", "blocked", "done", "negative", "error"}]
  <2>1. tool[c] # "none"
    BY <1>1, AskedFor DEF BridgeLoses, Tools, WriteTools, ReadTools
  <2> QED
    BY <1>1, <2>1 DEF BridgeLoses, Types
<1>3. Types'
  BY <1>1, <1>2 DEF BridgeLoses, Types
<1>4. LockInv'
  BY <1>1, LocksKept DEF BridgeLoses
<1>5. WalkInv(c)' /\ TookInv(c)' /\ JobInv(c)' /\ DoneInv(c)'
  BY <1>1, <1>2 DEF BridgeLoses, WalkInv, TookInv, JobInv, DoneInv, Running
<1>6. IInv'
  BY <1>2, <1>3, <1>4, <1>5, OneCall DEF BridgeLoses, CallInv
<1> QED
  BY <1>2, <1>6 DEF BridgeLoses, Promised

LEMMA SidecarDiesKeeps ==
  ASSUME IInv, SidecarDies
  PROVE  IInv'
<1> USE DEF asked, sap
<1>1. Types /\ LockInv /\ \A d \in Calls : WalkInv(d)
  BY DEF IInv, CallInv
<1>2. ASSUME NEW c \in Calls
      PROVE  /\ left'[c] = <<>> /\ Stage(left'[c]) = "end"
             /\ \/ answer'[c] = answer[c]
                \/ Running(c) /\ answer[c] = "none" /\ answer'[c] = "error"
             /\ Running(c) => c \in dropped'
             /\ tool[c] = "none" => ~ Running(c)
             /\ Stage(left[c]) \in {"put", "unlock"} => Running(c)
  <2>1. tool[c] = "none" => ~ Running(c)
    BY <1>1, AskedFor DEF Tools, WriteTools, ReadTools
  <2>2. Stage(left[c]) \in {"put", "unlock"} => Running(c)
    BY <1>1, AtStage
  <2> QED
    BY <2>1, <2>2, Turns DEF SidecarDies
<1>3. Types'
  <2>1. /\ answer' \in [Calls -> {"none", "blocked", "done", "negative", "error"}]
        /\ left' = [c \in Calls |-> left'[c]] /\ dropped' \subseteq Calls
    BY <1>1 DEF SidecarDies, Types
  <2> QED
    BY <1>1, <2>1 DEF SidecarDies, Types
<1>4. LockInv'
  BY <1>1, <1>2, LocksKept DEF SidecarDies
<1>5. ASSUME NEW c \in Calls
      PROVE  WalkInv(c)' /\ TookInv(c)' /\ JobInv(c)' /\ DoneInv(c)'
  <2>1. WalkInv(c) /\ TookInv(c) /\ JobInv(c) /\ DoneInv(c)
    BY DEF IInv, CallInv
  <2>2. WalkInv(c)'
    BY <1>2, <2>1, Turns DEF SidecarDies, WalkInv, Running
  <2>3. TookInv(c)'
    BY <1>2, <2>1 DEF SidecarDies, TookInv
  <2>4. JobInv(c)'
    BY <1>2, <2>1 DEF SidecarDies, JobInv
  <2>5. DoneInv(c)'
    BY <1>2, <2>1 DEF SidecarDies, DoneInv
  <2> QED
    BY <2>2, <2>3, <2>4, <2>5
<1> QED
  BY <1>3, <1>4, <1>5 DEF IInv, CallInv

-------------------------------------------------------------------------------
\* The invariant, and what it says.

LEMMA Starts == Init => IInv
<1> SUFFICES ASSUME Init PROVE IInv
  OBVIOUS
<1>1. Types
  BY SidecarAssumption DEF Init, Types
<1>2. LockInv
  BY Turns DEF Init, LockInv
<1>3. ASSUME NEW c \in Calls PROVE CallInv(c)
  BY Turns DEF Init, CallInv, WalkInv, TookInv, JobInv, DoneInv, Running, WriteTools
<1> QED
  BY <1>1, <1>2, <1>3 DEF IInv

\* A step of a handler.
LEMMA StepOfHandler ==
  ASSUME IInv, NEW c \in Calls, Step(c) \/ JobEnds(c) \/ BridgeLoses(c)
  PROVE  IInv' /\ Promised(c)
BY AuthenticateKeeps, EnsureFreshCsrfKeeps, FetchTokenKeeps, ReadKeeps, LockKeeps, PutKeeps,
   UnlockKeeps, CreateKeeps, ActivateKeeps, PublishKeeps, StartJobKeeps, BatchAtOnceKeeps,
   PollKeeps,
   JobEndsKeeps, BridgeLosesKeeps DEF Step

LEMMA Keeps == IInv /\ [Next]_vars => IInv'
<1> SUFFICES ASSUME IInv, [Next]_vars PROVE IInv'
  OBVIOUS
<1>1. CASE Next
  BY <1>1, Asks, StepOfHandler, LockExpiresKeeps, SidecarDiesKeeps DEF Next
<1>2. CASE UNCHANGED vars
  <2> USE <1>2 DEF vars, asked, handler, sap
  <2>1. Types' /\ LockInv'
    BY DEF IInv, Types, LockInv
  <2>2. ASSUME NEW c \in Calls PROVE CallInv(c)'
    BY Untouched DEF IInv
  <2> QED
    BY <2>1, <2>2 DEF IInv
<1> QED
  BY <1>1, <1>2

(***************************************************************************)
(* The inductive invariant: every handler walks through the requests of    *)
(* its tool, and what SAP holds for it, or did for it, follows from where  *)
(* it is.                                                                  *)
(***************************************************************************)
THEOREM Invariant == Spec => []IInv
<1>1. Init => IInv
  BY Starts
<1>2. IInv /\ [Next]_vars => IInv'
  BY Keeps
<1> QED
  BY <1>1, <1>2, PTL DEF Spec

LEMMA AtMostFive ==
  ASSUME NEW t \in Tools \cup {"none"}, NEW L \in Remainders(t)
  PROVE  Len(L) <= 5
<1>1. CASE L = <<>>
  BY <1>1
<1>2. CASE L # <<>>
  BY <1>2, Advance
<1> QED
  BY <1>1, <1>2

(***************************************************************************)
(* For any number of calls side by side: one writer at a time under the    *)
(* lock of an object, no lock leaked by any path of the code, and a call   *)
(* answered as done did what it says (AnswersAreTrue).                     *)
(***************************************************************************)
THEOREM Truthful == Spec => []AnswersAreTrue
<1>1. IInv => AnswersAreTrue
  <2> SUFFICES ASSUME IInv PROVE AnswersAreTrue
    OBVIOUS
  <2>1. Types /\ LockInv
    BY DEF IInv
  <2>2. ASSUME NEW c \in Calls
        PROVE  tool[c] \in Tools \cup {"none"} /\ left[c] \in Remainders(tool[c])
    BY DEF IInv, Types, CallInv, WalkInv
  <2>3. TypeOK
    BY <2>1, <2>2, AtMostFive DEF Types, TypeOK
  <2>4. OneWriter
    BY <2>1, StageOf DEF OneWriter, LockInv
  <2>5. NoLeakedLock
    <3> SUFFICES ASSUME NEW o \in Objects, lock[o] # Nobody
                 PROVE  Running(lock[o]) \/ lock[o] \in dropped
      BY DEF NoLeakedLock
    <3> QED
      BY <2>1 DEF LockInv, Running, Stage
  <2>6. DoneMeansDone
    BY DEF IInv, CallInv, DoneInv, DoneMeansDone
  <2> QED
    BY <2>3, <2>4, <2>5, <2>6 DEF AnswersAreTrue
<1> QED
  BY <1>1, Invariant, PTL

-------------------------------------------------------------------------------
\* The refinement, step by step.

LEMMA PromisedIsPromised ==
  ASSUME NEW c \in Calls, Promised(c)
  PROVE  [Promise!Next]_Promise!vars
<1>1. /\ UNCHANGED <<allow, Asked, Mutating>>
  BY DEF Promised, asked, Asked, Mutating
<1>2. UNCHANGED changed \/ Promise!Change(c) \/ Promise!Publication(c)
  BY DEF Promised, ChangesOnce, PublishesOnce, Changes, Promise!Change, Promise!Publication,
         Promise!MayAct, Mutating
<1>3. UNCHANGED answer \/ Promise!Reply(c)
  BY DEF Promised, Promise!Reply, Mutating, Asked
<1>4. Promise!Work
  BY <1>1, <1>2, <1>3 DEF Promise!Work
<1> QED
  BY <1>4 DEF Promise!Next

LEMMA AskIsAskFor ==
  ASSUME IInv, NEW c \in Calls, Ask(c)
  PROVE  Promise!AskFor(c)
<1>1. /\ tool[c] = "none" /\ answer[c] = "none"
      /\ tool'[c] \in Tools
      /\ \A d \in Calls : d # c => tool'[d] = tool[d]
      /\ UNCHANGED <<allow, changed>>
      /\ \/ UNCHANGED answer /\ (tool'[c] \in WriteTools => allow)
         \/ /\ tool'[c] \in WriteTools /\ ~ allow
            /\ answer' = [answer EXCEPT ![c] = "blocked"]
  BY Asks
<1>2. c \notin Asked /\ Asked' = Asked \cup {c}
  BY <1>1 DEF Asked, Tools, WriteTools, ReadTools
<1>3. \/ tool'[c] \notin WriteTools /\ Mutating' = Mutating /\ UNCHANGED answer
      \/ tool'[c] \in WriteTools /\ Mutating' = Mutating \cup {c}
  BY <1>1 DEF Mutating, WriteTools
<1> QED
  BY <1>1, <1>2, <1>3 DEF Promise!AskFor

LEMMA DeathIsReplies ==
  ASSUME IInv, SidecarDies
  PROVE  Promise!Work
<1> DEFINE C == {c \in Calls : Running(c) /\ answer[c] = "none"}
<1>1. C \in SUBSET {c \in Asked : answer[c] = "none"}
  BY AskedFor DEF IInv, CallInv, Asked, Tools, WriteTools, ReadTools
<1>2. answer' = [c \in Calls |-> IF c \in C THEN "error" ELSE answer[c]]
  BY DEF SidecarDies
<1>3. UNCHANGED <<allow, Asked, Mutating, changed>>
  BY DEF SidecarDies, asked, Asked, Mutating
<1> QED
  BY <1>1, <1>2, <1>3 DEF Promise!Work

(***************************************************************************)
(* The lane implements its abstract specification: every step of it is one *)
(* that AdtPromise allows, or none.                                        *)
(***************************************************************************)
THEOREM Refinement == Spec => KeepsPromise
<1>1. Init => Promise!Init
  BY DEF Init, Promise!Init, Asked, Mutating, WriteTools
<1>2. IInv /\ [Next]_vars => [Promise!Next]_Promise!vars
  <2> SUFFICES ASSUME IInv, [Next]_vars PROVE [Promise!Next]_Promise!vars
    OBVIOUS
  <2>1. ASSUME NEW c \in Calls, Ask(c) PROVE Promise!Next
    BY <2>1, AskIsAskFor DEF Promise!Next
  <2>2. ASSUME NEW c \in Calls, Step(c) \/ JobEnds(c) \/ BridgeLoses(c)
        PROVE  [Promise!Next]_Promise!vars
    BY <2>2, StepOfHandler, PromisedIsPromised
  <2>3. ASSUME NEW o \in Objects, LockExpires(o) PROVE UNCHANGED Promise!vars
    BY <2>3 DEF LockExpires, asked, handler, Promise!vars, Asked, Mutating
  <2>4. CASE SidecarDies
    BY <2>4, DeathIsReplies DEF Promise!Next
  <2>5. CASE UNCHANGED vars
    BY <2>5 DEF vars, asked, handler, Promise!vars, Asked, Mutating
  <2> QED
    BY <2>1, <2>2, <2>3, <2>4, <2>5 DEF Next
<1> QED
  BY <1>1, <1>2, Invariant, PTL DEF Spec, KeepsPromise, Promise!Spec
===============================================================================
