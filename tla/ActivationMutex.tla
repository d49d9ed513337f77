----------------------------- MODULE ActivationMutex -----------------------------
(***************************************************************************)
(* The per-transport activation mutex laid over the driven run             *)
(* (moderniser/src/sched/loop.js, acquireActivation, releaseActivation and *)
(* the last line of applyOutcome).  Acquire and Release are verbs of the   *)
(* reducer beside the others, which nothing else asks for: no verb, report *)
(* or command looks at the mutex before a node is registered or activated. *)
(* So the mutex promises something about itself only.                      *)
(***************************************************************************)
EXTENDS SchedDriver

CONSTANTS
  Transport,       \* transport requests
  TransportOf,     \* TransportOf[n]: the one n activates on
  NoOwner          \* the mutex of a transport nobody holds

ASSUME TransportAssumption ==
  /\ TransportOf \in [Node -> Transport]
  /\ NoOwner \notin Node

VARIABLE activateMutex     \* transport -> owner

mutexVars == <<vars, activateMutex>>

Owns(n) == activateMutex[TransportOf[n]] = n

\* acquireActivation.  A repeat by the owner changes nothing.
Acquire(n) ==
  /\ activateMutex[TransportOf[n]] = NoOwner
  /\ activateMutex' = [activateMutex EXCEPT ![TransportOf[n]] = n]
  /\ UNCHANGED vars

ReleaseIfOwnerVariant(n) ==    \* whoever holds it
  activateMutex' = [activateMutex EXCEPT ![TransportOf[n]] = NoOwner]

ReleaseIfOwner(n) ==
  activateMutex' = [activateMutex EXCEPT ![TransportOf[n]] =
                      IF @ = n THEN NoOwner ELSE @]

\* releaseActivation.
Release(n) ==
  /\ Owns(n)
  /\ ReleaseIfOwner(n)
  /\ UNCHANGED vars

MutexInit == Init /\ activateMutex = [t \in Transport |-> NoOwner]

MutexStep(n) ==
  \/ Acquire(n)
  \/ Release(n)
  \/ (Outcome(n) \/ CeilingReport(n)) /\ ReleaseIfOwner(n)
  \/ (OtherVerb(n) \/ OtherReport(n)) /\ UNCHANGED activateMutex

MutexNext == \E n \in Node : MutexStep(n)

MutexSpec == MutexInit /\ [][MutexNext]_mutexVars

-------------------------------------------------------------------------------
(***************************************************************************)
(* A held mutex passes to nobody directly: its owner lets it go first, by  *)
(* releasing it or by an outcome of its own, and no outcome, report or     *)
(* verb of another node of the transport can do it for the owner.  And no  *)
(* node takes it along into quarantine, a seam, a park or completion, by   *)
(* whichever verb or report it gets there.                                 *)
(***************************************************************************)
NoTheft ==
  [][/\ \A t \in Transport, n \in Node :
          activateMutex[t] = n /\ activateMutex'[t] # n =>
            /\ activateMutex'[t] = NoOwner
            /\ \A m \in Node \ {n} : status'[m] = status[m]
     /\ \A n \in Node :
          status'[n] # status[n] /\ status'[n] \in TerminalOutcomes => ~ Owns(n)']_mutexVars
===============================================================================
