------------------------------ MODULE JobService ------------------------------
(***************************************************************************)
(* What a job worker promises, whichever protocol it polls with: it never  *)
(* services more jobs than its capacity (interfaces-1.0.ts:398), takes     *)
(* none once it is told to stop, and reports that it has stopped only when *)
(* it has drained the jobs it held (ZBWorkerBase.ts:220,                   *)
(* CamundaJobWorker.ts:131).                                               *)
(***************************************************************************)
EXTENDS Naturals

CONSTANTS
  Capacity,    \* maxJobsToActivate
  Restartable  \* the worker has a start() as well as a stop()

VARIABLES
  held,   \* jobs whose handlers have not finished
  state   \* "accepting", "stopping" or "stopped"

vars == <<held, state>>

Init ==
  /\ held = 0
  /\ state = "accepting"

(* The broker answers a poll with some jobs. *)
Take ==
  /\ state = "accepting"
  /\ \E n \in 1..Capacity : held + n <= Capacity /\ held' = held + n
  /\ UNCHANGED state

(* A handler finishes with its job. *)
Release ==
  /\ held > 0
  /\ held' = held - 1
  /\ UNCHANGED state

(* An idle worker may report at once. *)
Stop ==
  /\ state = "accepting"
  /\ \/ state' = "stopping"
     \/ held = 0 /\ state' = "stopped"
  /\ UNCHANGED held

(* The promise that close() or stop() returned resolves. *)
Finish ==
  /\ state = "stopping"
  /\ held = 0
  /\ state' = "stopped"
  /\ UNCHANGED held

Restart ==
  /\ Restartable
  /\ state # "accepting"
  /\ state' = "accepting"
  /\ UNCHANGED held

Next == Take \/ Release \/ Stop \/ Finish \/ Restart

Spec == Init /\ [][Next]_vars
===============================================================================
