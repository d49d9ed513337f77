------------------------------- MODULE AdtPromise ------------------------------
(***************************************************************************)
(* What the ADT lane promises to the caller of a tool, whatever is lost on *)
(* the way: a blocked call changes nothing, ever; a call changes SAP once  *)
(* at most, and publishes once at most, after its change; "done" comes     *)
(* after the change; and a change that comes after its answer is one of a  *)
(* call answered with an error, so that an error says nothing about what   *)
(* happened.                                                               *)
(***************************************************************************)
EXTENDS Naturals

CONSTANT Calls

VARIABLES
  allow, asked, writes, reply,
  changes,       \* per call, how often it changed a source or activated
  publications   \* per call, how often it published

vars == <<allow, asked, writes, reply, changes, publications>>

Init ==
  /\ allow \in BOOLEAN
  /\ asked = {} /\ writes = {}
  /\ changes = [c \in Calls |-> 0] /\ publications = [c \in Calls |-> 0]
  /\ reply = [c \in Calls |-> "none"]

AskFor(c) ==
  /\ c \notin asked /\ asked' = asked \cup {c}
  /\ \/ writes' = writes /\ UNCHANGED reply
     \/ writes' = writes \cup {c}
        /\ reply' = IF allow THEN reply ELSE [reply EXCEPT ![c] = "blocked"]
  /\ UNCHANGED <<allow, changes, publications>>

\* Only what has not been answered yet, or with an error, still changes SAP.
MayAct(c) == c \in writes /\ reply[c] \in {"none", "error"}

Change(c) ==
  /\ MayAct(c) /\ changes[c] = 0
  /\ changes' = [changes EXCEPT ![c] = 1]
  /\ UNCHANGED publications

Publication(c) ==
  /\ MayAct(c) /\ changes[c] = 1 /\ publications[c] = 0
  /\ publications' = [publications EXCEPT ![c] = 1]
  /\ UNCHANGED changes

Reply(c) ==
  /\ c \in asked /\ reply[c] = "none"
  /\ \E r \in {"done", "negative", "error"} :
       /\ r = "done" /\ c \in writes => changes'[c] = 1
       /\ reply' = [reply EXCEPT ![c] = r]

\* A change and a reply may fall together, and one death answers many calls.
Work ==
  /\ \/ UNCHANGED <<changes, publications>>
     \/ \E c \in Calls : Change(c) \/ Publication(c)
  /\ \/ UNCHANGED reply
     \/ \E c \in Calls : Reply(c)
     \/ \E C \in SUBSET {c \in asked : reply[c] = "none"} :
          reply' = [c \in Calls |-> IF c \in C THEN "error" ELSE reply[c]]
  /\ UNCHANGED <<allow, asked, writes>>

Next == (\E c \in Calls : AskFor(c)) \/ Work

Spec == Init /\ [][Next]_vars
===============================================================================
