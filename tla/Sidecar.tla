-------------------------------- MODULE Sidecar --------------------------------
(***************************************************************************)
(* The ADT lane: the MCP bridge, which forwards tool calls without waiting *)
(* for one another, and the sidecar, where each call is a session of its   *)
(* own that walks through a fixed list of HTTP requests to SAP.  Any       *)
(* request may be refused, lost on the way, or carried out with its answer *)
(* lost (a timeout); the bridge may lose the sidecar's answer; the sidecar *)
(* may die.  SAP is modelled from what the handlers rely on: a lock has    *)
(* one holder, source is written under the lock, locks of dead sessions    *)
(* expire, a batch is activated at once or by a job of its own, and a job  *)
(* ends with a result, good or bad, or is aborted without one.             *)
(***************************************************************************)
EXTENDS Integers, Sequences

CONSTANTS Calls,      \* tool calls of one bridge process
          Objects,    \* repository objects
          Bindings,   \* the service bindings among them: published when active
          MaxPolls,   \* polls of a job before the handler gives up
          Nobody,     \* no call: nothing written, nothing locked
          Earlier     \* the author of what was active before

ASSUME SidecarAssumption ==
  /\ Bindings \subseteq Objects /\ MaxPolls \in Nat \ {0} /\ {Nobody, Earlier} \cap Calls = {}

VARIABLES
  allow,      \* HARNESS_ADT_ALLOW_WRITE of the bridge process
  tool, obj,  \* per call: what was asked, on which object
  answer,     \* per call: what the bridge has answered
  left,       \* per call: the requests its handler has still to make
  failed,     \* per call: a step threw (the unlock of its finally may be left)
  polls,      \* per call: polls made
  token,      \* per call: a CSRF token SAP accepts is at hand
  lock,       \* SAP: per object the session that holds its lock
  draft,      \* SAP: per object the call whose source is the inactive version
  active,     \* SAP: per object the call whose source is the active version
  published,  \* SAP: the bindings whose service is registered
  job,        \* SAP: per call the state of its background job
  changes,    \* history: per call how often it changed a source or activated
  publications, \* history: per call how often it published
  dropped     \* history: the calls of which SAP lost sight (request lost, death)

asked == <<allow, tool, obj>>
handler == <<answer, left, failed, polls, token>>
sap == <<lock, draft, active, published, job>>
changed == <<changes, publications>>
vars == <<asked, handler, sap, changed, dropped>>

WriteTools == {"create", "update", "activate", "batch"}
MUTATING == WriteTools
ReadTools == {"read", "check", "atc", "unit"}
Tools == WriteTools \cup ReadTools

UpdateSource == <<"auth", "csrf", "lock", "put", "unlock">>
CreateObject == <<"auth", "csrf", "create">>
ActivateObject == <<"auth", "csrf", "activate">>
PublishServiceBinding == <<"config", "publish">>
ActivateBatch == <<"auth", "csrf", "start", "poll">>
RunAtcCheck == <<"auth", "csrf", "worklist", "start", "poll">>
RunUnitTests == <<"auth", "fetch", "start", "poll">>
CheckSyntax == <<"auth", "csrf", "get">>
ReadObject == <<"auth", "get">>

Requests(t) ==
  CASE t = "update" -> UpdateSource
    [] t = "create" -> CreateObject
    [] t = "activate" -> ActivateObject
    [] t = "batch" -> ActivateBatch
    [] t = "atc" -> RunAtcCheck
    [] t = "unit" -> RunUnitTests
    [] t = "check" -> CheckSyntax
    [] t = "read" -> ReadObject

At(c, step) == left[c] # <<>> /\ Head(left[c]) = step
Running(c) == left[c] # <<>>
-------------------------------------------------------------------------------
Init ==
  /\ allow \in BOOLEAN
  /\ tool = [c \in Calls |-> "none"] /\ obj = [c \in Calls |-> Nobody]
  /\ answer = [c \in Calls |-> "none"]
  /\ left = [c \in Calls |-> <<>>]
  /\ failed = [c \in Calls |-> FALSE]
  /\ polls = [c \in Calls |-> 0]
  /\ token = [c \in Calls |-> FALSE]
  /\ lock = [o \in Objects |-> Nobody]
  /\ draft = [o \in Objects |-> Nobody]
  /\ \E who \in {Nobody, Earlier} : active = [o \in Objects |-> who]
  /\ published = {}
  /\ job = [c \in Calls |-> "none"]
  /\ changes = [c \in Calls |-> 0] /\ publications = [c \in Calls |-> 0]
  /\ dropped = {}

(* handleCall: a write is blocked unless the process allows writes; every  *)
(* other call is forwarded, whatever calls are under way.                  *)
Ask(c) == \E t \in Tools, o \in Objects :
  /\ tool[c] = "none"
  /\ tool' = [tool EXCEPT ![c] = t] /\ obj' = [obj EXCEPT ![c] = o]
  /\ IF t \in MUTATING /\ ~ allow
     THEN answer' = [answer EXCEPT ![c] = "blocked"] /\ UNCHANGED left
     ELSE left' = [left EXCEPT ![c] = Requests(t)] /\ UNCHANGED answer
  /\ UNCHANGED <<allow, failed, polls, token, sap, changed, dropped>>

Answer(c, a) ==
  answer' = IF answer[c] = "none" THEN [answer EXCEPT ![c] = a] ELSE answer

\* A step that throws: straight to the answer, unless a lock has to be given up.
Throws(c) ==
  /\ left' = [left EXCEPT ![c] = <<>>]
  /\ Answer(c, "error")
  /\ UNCHANGED failed

ThrowsUnderLock(c) ==
  /\ left' = [left EXCEPT ![c] = <<"unlock">>]
  /\ failed' = [failed EXCEPT ![c] = TRUE]
  /\ UNCHANGED answer

Proceeds(c, steps) ==
  /\ left' = [left EXCEPT ![c] = steps]
  /\ UNCHANGED <<answer, failed>>

Finishes(c, a) ==
  /\ left' = [left EXCEPT ![c] = <<>>]
  /\ Answer(c, a)
  /\ UNCHANGED failed

-------------------------------------------------------------------------------
(* authenticate: 200 or the call ends; the answer may carry a token.       *)
Authenticate(c) ==
  /\ At(c, "auth")
  /\ \/ Proceeds(c, Tail(left[c])) /\ \E t \in BOOLEAN : token' = [token EXCEPT ![c] = t]
     \/ Throws(c) /\ UNCHANGED token
  /\ UNCHANGED <<asked, polls, sap, changed, dropped>>

(* ensureFreshCsrf: nothing to do with a token, else one of three sources  *)
(* has to give one.                                                        *)
EnsureFreshCsrf(c) ==
  /\ At(c, "csrf")
  /\ \/ Proceeds(c, Tail(left[c])) /\ token' = [token EXCEPT ![c] = TRUE]
     \/ ~ token[c] /\ Throws(c) /\ UNCHANGED token
  /\ UNCHANGED <<asked, polls, sap, changed, dropped>>

(* runUnitTests fetches a token of its own and does not look at the reply. *)
FetchToken(c) ==
  /\ At(c, "fetch")
  /\ \/ /\ Proceeds(c, Tail(left[c]))
        /\ \E t \in BOOLEAN : token' = [token EXCEPT ![c] = token[c] \/ t]
     \/ Throws(c) /\ UNCHANGED token
  /\ UNCHANGED <<asked, polls, sap, changed, dropped>>

(* A request SAP only reads for.  publishServiceBinding reads the binding  *)
(* first and takes any reply for its configuration.                        *)
Read(c) ==
  /\ left[c] # <<>> /\ Head(left[c]) \in {"get", "worklist", "config"}
  /\ \/ Tail(left[c]) # <<>> /\ Proceeds(c, Tail(left[c]))
     \/ Tail(left[c]) = <<>> /\ Finishes(c, "done")
     \/ Throws(c)
  /\ UNCHANGED <<asked, polls, token, sap, changed, dropped>>

Exists(o) == draft[o] # Nobody \/ active[o] # Nobody

LockRefused(c) == Throws(c)

(* lock: no handle, no write.  When SAP locked and the answer is lost the  *)
(* handler ends before its try block: nobody will unlock.                  *)
Lock(c) ==
  /\ At(c, "lock")
  /\ \/ /\ Exists(obj[c]) /\ lock[obj[c]] = Nobody
        /\ lock' = [lock EXCEPT ![obj[c]] = c]
        /\ \/ Proceeds(c, Tail(left[c])) /\ UNCHANGED dropped
           \/ Throws(c) /\ dropped' = dropped \cup {c}
     \/ LockRefused(c) /\ UNCHANGED <<lock, dropped>>
  /\ UNCHANGED <<asked, polls, token, draft, active, published, job, changed>>

\* SAP carries out a change for a call: one more of its doing.
Changes(c) == changes' = [changes EXCEPT ![c] = @ + 1]

PutAgain(c) == Proceeds(c, left[c])     \* an answer lost is asked for again

(* putSource under the lock; whatever goes wrong, the finally unlocks.     *)
PutFails(c) == ThrowsUnderLock(c)

Put(c) ==
  /\ At(c, "put")
  /\ \/ /\ lock[obj[c]] = c
        /\ draft' = [draft EXCEPT ![obj[c]] = c]
        /\ Changes(c)
        /\ Proceeds(c, Tail(left[c])) \/ PutFails(c)
     \/ PutFails(c) /\ UNCHANGED <<draft, changes>>
  /\ UNCHANGED <<asked, polls, token, lock, active, published, job, publications, dropped>>

(* unlock, best effort: its failure is swallowed, the write's result stays. *)
Unlock(c) ==
  /\ At(c, "unlock")
  /\ \/ /\ lock[obj[c]] = c /\ lock' = [lock EXCEPT ![obj[c]] = Nobody]
        /\ UNCHANGED dropped
     \/ dropped' = dropped \cup {c} /\ UNCHANGED lock
  /\ Finishes(c, IF failed[c] THEN "error" ELSE "done")
  /\ UNCHANGED <<asked, polls, token, draft, active, published, job, changed>>

Create(c) ==
  /\ At(c, "create")
  /\ \/ /\ ~ Exists(obj[c])
        /\ draft' = [draft EXCEPT ![obj[c]] = c]
        /\ Changes(c)
        /\ Finishes(c, "done") \/ Throws(c)
     \/ Throws(c) /\ UNCHANGED <<draft, changes>>
  /\ UNCHANGED <<asked, polls, token, lock, active, published, job, publications, dropped>>

\* SAP activates the inactive version of each object of O, if it has one.
Activates(O) ==
  /\ active' = [o \in Objects |-> IF o \in O /\ draft[o] # Nobody THEN draft[o] ELSE active[o]]
  /\ draft' = [o \in Objects |-> IF o \in O THEN Nobody ELSE draft[o]]

NotPublished(c) == Finishes(c, "done")

AfterActivation(c) ==
  IF obj[c] \in Bindings THEN Proceeds(c, PublishServiceBinding) ELSE Finishes(c, "done")

(* activateObject: error messages are a result (success: false), a binding *)
(* goes on to be published.                                                *)
Activate(c) ==
  /\ At(c, "activate")
  /\ \/ /\ Exists(obj[c])
        /\ Activates({obj[c]})
        /\ Changes(c)
        /\ AfterActivation(c) \/ Throws(c)
     \/ (Finishes(c, "negative") \/ Throws(c)) /\ UNCHANGED <<active, draft, changes>>
  /\ UNCHANGED <<asked, polls, token, lock, published, job, publications, dropped>>

Publish(c) ==
  /\ At(c, "publish")
  /\ \/ /\ active[obj[c]] # Nobody
        /\ published' = published \cup {obj[c]}
        /\ publications' = [publications EXCEPT ![c] = @ + 1]
        /\ Finishes(c, "done") \/ Throws(c)
     \/ Throws(c) /\ UNCHANGED <<published, publications>>
  /\ UNCHANGED <<asked, polls, token, lock, draft, active, job, changes, dropped>>

(* SAP can do what a job is started for (a batch activates every object).  *)
Startable(c) == token[c] /\ (tool[c] = "batch" => \A o \in Objects : Exists(o))

(* The start of a background job.                                          *)
StartJob(c) ==
  /\ At(c, "start")
  /\ \/ /\ Startable(c)
        /\ job' = [job EXCEPT ![c] = "running"]
        /\ Proceeds(c, Tail(left[c])) \/ Throws(c)
     \/ Throws(c) /\ UNCHANGED job
  /\ UNCHANGED <<asked, polls, token, lock, draft, active, published, changed, dropped>>

(* A batch that SAP answers at once, with 200 and no job to poll.          *)
BatchAtOnce(c) ==
  /\ At(c, "start") /\ tool[c] = "batch" /\ Startable(c)
  /\ \/ /\ job' = [job EXCEPT ![c] = "good"]
        /\ Activates(Objects)
        /\ Changes(c)
        /\ Finishes(c, "done") \/ Throws(c)
     \/ /\ job' = [job EXCEPT ![c] = "bad"]
        /\ Finishes(c, "negative") \/ Throws(c)
        /\ UNCHANGED <<active, draft, changes>>
  /\ UNCHANGED <<asked, polls, token, lock, published, publications, dropped>>

PollsOver(c) == Throws(c)

PollForever(c) ==
  polls' = [polls EXCEPT ![c] = (@ + 1) % MaxPolls] /\ Proceeds(c, left[c])

PollAgain(c) ==
  IF polls[c] + 1 = MaxPolls
  THEN PollsOver(c) /\ UNCHANGED polls
  ELSE polls' = [polls EXCEPT ![c] = @ + 1] /\ Proceeds(c, left[c])

(* What a poll may show of a job without a result: the batch takes an      *)
(* error page for "still running", a unit run that was aborted never says  *)
(* FINISHED.                                                               *)
Unfinished(c) ==
  \/ job[c] = "running"
  \/ tool[c] = "batch"
  \/ tool[c] = "unit" /\ job[c] = "aborted"

(* A worklist in any status but RUNNING is complete: an ATC run that was   *)
(* aborted is answered with the findings it has, or as clean.              *)
AtcComplete(c) ==
  /\ tool[c] = "atc" /\ job[c] = "aborted"
  /\ Finishes(c, "done") \/ Finishes(c, "negative")

(* One poll.  A reply that is not 200 ends the other two.                  *)
Poll(c) ==
  /\ At(c, "poll")
  /\ \/ Unfinished(c) /\ PollAgain(c)
     \/ job[c] = "good" /\ Finishes(c, "done") /\ UNCHANGED polls
     \/ job[c] = "bad" /\ Finishes(c, "negative") /\ UNCHANGED polls
     \/ AtcComplete(c) /\ UNCHANGED polls
     \/ Throws(c) /\ UNCHANGED polls
  /\ UNCHANGED <<asked, token, sap, changed, dropped>>

(* SAP ends a job in its own time, whether anybody still polls it or not:  *)
(* with a result that is good or bad, or without one.                      *)
JobEnds(c) ==
  /\ job[c] = "running"
  /\ \/ /\ job' = [job EXCEPT ![c] = "good"]
        /\ IF tool[c] = "batch"
           THEN Activates(Objects) /\ Changes(c)
           ELSE UNCHANGED <<active, draft, changes>>
     \/ /\ \E end \in {"bad", "aborted"} : job' = [job EXCEPT ![c] = end]
        /\ UNCHANGED <<active, draft, changes>>
  /\ UNCHANGED <<asked, handler, lock, published, publications, dropped>>

\* The lock of a session that is gone times out.
LockExpires(o) ==
  /\ lock[o] # Nobody /\ ~ Running(lock[o])
  /\ lock' = [lock EXCEPT ![o] = Nobody]
  /\ UNCHANGED <<asked, handler, draft, active, published, job, changed, dropped>>

\* The bridge's own request fails while the sidecar goes on.
BridgeLoses(c) ==
  /\ Running(c) /\ answer[c] = "none"
  /\ answer' = [answer EXCEPT ![c] = "error"]
  /\ UNCHANGED <<asked, left, failed, polls, token, sap, changed, dropped>>

SidecarDies ==
  /\ \E c \in Calls : Running(c)
  /\ left' = [c \in Calls |-> <<>>]
  /\ answer' = [c \in Calls |-> IF Running(c) /\ answer[c] = "none" THEN "error" ELSE answer[c]]
  /\ dropped' = dropped \cup {c \in Calls : Running(c)}
  /\ UNCHANGED <<asked, failed, polls, token, sap, changed>>

Step(c) ==
  \/ Authenticate(c) \/ EnsureFreshCsrf(c) \/ FetchToken(c) \/ Read(c)
  \/ Lock(c) \/ Put(c) \/ Unlock(c) \/ Create(c)
  \/ Activate(c) \/ Publish(c) \/ StartJob(c) \/ BatchAtOnce(c) \/ Poll(c)

Next ==
  \/ \E c \in Calls : Ask(c) \/ Step(c) \/ JobEnds(c) \/ BridgeLoses(c)
  \/ \E o \in Objects : LockExpires(o)
  \/ SidecarDies

\* Every request ends by its own timeout of 60 s: a handler always goes on.
Fairness == \A c \in Calls : WF_vars(Step(c))

Spec == Init /\ [][Next]_vars /\ Fairness
-------------------------------------------------------------------------------
TypeOK ==
  /\ allow \in BOOLEAN
  /\ tool \in [Calls -> Tools \cup {"none"}]
  /\ obj \in [Calls -> Objects \cup {Nobody}]
  /\ answer \in [Calls -> {"none", "blocked", "done", "negative", "error"}]
  /\ \A c \in Calls : Len(left[c]) <= 5
  /\ polls \in [Calls -> 0..(MaxPolls - 1)]
  /\ lock \in [Objects -> Calls \cup {Nobody}]
  /\ draft \in [Objects -> Calls \cup {Nobody}]
  /\ active \in [Objects -> Calls \cup {Nobody, Earlier}]
  /\ published \subseteq Bindings
  /\ job \in [Calls -> {"none", "running", "good", "bad", "aborted"}]
  /\ changes \in [Calls -> Nat] /\ publications \in [Calls -> Nat]
  /\ dropped \subseteq Calls

(***************************************************************************)
(* One writer at a time: of the calls the bridge lets run side by side, at *)
(* most one is between its lock and its unlock of an object, and it is the *)
(* one whose lock SAP holds (write.js updateSource).                       *)
(***************************************************************************)
OneWriter == \A c \in Calls :
  At(c, "put") \/ At(c, "unlock") => lock[obj[c]] = c

(***************************************************************************)
(* No path of the code leaks a lock: when the handler that took a lock has *)
(* ended, SAP still holds it only if it lost sight of the handler: the     *)
(* answer to the lock or the unlock was lost, or the sidecar died.         *)
(***************************************************************************)
NoLeakedLock == \A o \in Objects :
  lock[o] # Nobody => Running(lock[o]) \/ lock[o] \in dropped

(***************************************************************************)
(* Done means done: a write answered as done changed SAP; a batch or a     *)
(* unit run answered as done ended with a good result; and a binding       *)
(* answered as activated is active and published.  Of an ATC run done says *)
(* less: that its worklist is no longer RUNNING and shows no finding; the  *)
(* run may have been aborted.                                              *)
(***************************************************************************)
DoneMeansDone == \A c \in Calls :
  answer[c] = "done" =>
    /\ tool[c] \in WriteTools => changes[c] = 1
    /\ tool[c] \in {"unit", "batch"} => job[c] = "good"
    /\ tool[c] = "atc" => job[c] \in {"good", "aborted"}
    /\ tool[c] = "activate" /\ obj[c] \in Bindings =>
         obj[c] \in published /\ active[obj[c]] # Nobody

(***************************************************************************)
(* The lane does what it says and lets go of what it took: locks are held  *)
(* by one writer and given back, and done is done.                         *)
(***************************************************************************)
AnswersAreTrue ==
  /\ TypeOK
  /\ OneWriter
  /\ NoLeakedLock
  /\ DoneMeansDone

(***************************************************************************)
(* Every forwarded call is answered, even when the job it waits for never  *)
(* ends: polling is bounded (quality.js, aunit.js).                        *)
(***************************************************************************)
EveryCallAnswered == \A c \in Calls : (tool[c] # "none") ~> (answer[c] # "none")

(***************************************************************************)
(* What a caller of the bridge may rely on, as a specification of its own. *)
(***************************************************************************)
Asked == {c \in Calls : tool[c] # "none"}
Mutating == {c \in Calls : tool[c] \in WriteTools}
Promise == INSTANCE AdtPromise
  WITH asked <- Asked, writes <- Mutating, reply <- answer

KeepsPromise == Promise!Spec
===============================================================================
