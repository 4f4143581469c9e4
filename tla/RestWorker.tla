------------------------------ MODULE RestWorker ------------------------------
(***************************************************************************)
(* The polling REST job worker: CamundaJobWorker, with the part of         *)
(* CamundaRestClient.activateJobs that decides how a cancelled poll        *)
(* settles.                                                                *)
(*                                                                         *)
(* A step is one macrotask of the event loop.  Jobs are interchangeable,   *)
(* so the jobs in a handler are counted.  A slot of Call is one            *)
(* activateJobs promise, from poll() to its settlement.                    *)
(***************************************************************************)
EXTENDS Integers

CONSTANTS
  Call,       \* slots for activateJobs promises
  NoCall,     \* activePoll is undefined
  MaxJobs,    \* maxJobsToActivate
  MaxWaiting  \* bound: stop() promises pending at once

ASSUME CallAssumption == NoCall \notin Call
ASSUME CapacityAssumption == MaxJobs \in Nat \ {0} /\ MaxWaiting \in Nat

VARIABLES
  currentlyActiveJobCount,
  working,       \* jobs in a handler
  failing,       \* jobs whose handler threw, while job.fail() is awaited
  pollLock,
  activePoll,
  backoffTimer,
  call,          \* slot -> the promise: its phase and the jobs it asked for
  polling,       \* the interval of start() is armed
  stopping,
  stopped,       \* a stop() promise has resolved since the last start()
  waiting        \* stop() promises that still wait for the jobs

jobVars == <<currentlyActiveJobCount, working, failing>>
pollVars == <<pollLock, activePoll, backoffTimer, call>>
stopVars == <<polling, stopping, stopped, waiting>>
vars == <<jobVars, pollVars, stopVars>>

(* A promise waits for the headers, then for the response.  Cancelling it in
   the first phase abandons it, in the second aborts the request. *)
Phases == {"free", "preparing", "requested", "abandoned", "aborted"}

TypeOK ==
  /\ currentlyActiveJobCount \in Int
  /\ working \in Nat
  /\ failing \in Nat
  /\ pollLock \in BOOLEAN
  /\ activePoll \in Call \cup {NoCall}
  /\ backoffTimer \in BOOLEAN
  /\ call \in [Call -> [phase : Phases, amount : Nat]]
  /\ polling \in BOOLEAN
  /\ stopping \in BOOLEAN
  /\ stopped \in BOOLEAN
  /\ waiting \in Nat

FreeSlot == [phase |-> "free", amount |-> 0]
PreparingSlot(amount) == [phase |-> "preparing", amount |-> amount]

(* A worker created with autoStart: false. *)
Init ==
  /\ currentlyActiveJobCount = 0
  /\ working = 0
  /\ failing = 0
  /\ pollLock = FALSE
  /\ activePoll = NoCall
  /\ backoffTimer = FALSE
  /\ call = [c \in Call |-> FreeSlot]
  /\ polling = FALSE
  /\ stopping = FALSE
  /\ stopped = FALSE
  /\ waiting = 0

held == working + failing

-------------------------------------------------------------------------------
(* The poll loop *)

AtCapacity == currentlyActiveJobCount >= MaxJobs

(* Mutant: the promise is not kept, so stop() cannot cancel it. *)
RequestUntracked(c) ==
  /\ call[c].phase = "free"
  /\ pollLock' = TRUE
  /\ call' = [call EXCEPT ![c] = PreparingSlot(MaxJobs - currentlyActiveJobCount)]
  /\ UNCHANGED activePoll

(* Mutant: the lock is never taken. *)
RequestUnlocked(c) ==
  /\ call[c].phase = "free"
  /\ activePoll' = c
  /\ call' = [call EXCEPT ![c] = PreparingSlot(MaxJobs - currentlyActiveJobCount)]
  /\ UNCHANGED pollLock

(* poll() takes the lock and calls activateJobs for the remaining capacity. *)
Request(c) ==
  /\ call[c].phase = "free"
  /\ pollLock' = TRUE
  /\ activePoll' = c
  /\ call' = [call EXCEPT ![c] = PreparingSlot(MaxJobs - currentlyActiveJobCount)]

(* The interval fires; at capacity poll() drops the lock it took. *)
PollDue(c) ==
  /\ polling
  /\ ~pollLock /\ ~stopping /\ ~AtCapacity
  /\ Request(c)
  /\ UNCHANGED <<jobVars, backoffTimer, stopVars>>

(* Token and client are there.  A promise cancelled meanwhile sends nothing
   and never settles. *)
HeadersReady(c) ==
  /\ call[c].phase \in {"preparing", "abandoned"}
  /\ call' = IF call[c].phase = "preparing"
             THEN [call EXCEPT ![c].phase = "requested"]
             ELSE [call EXCEPT ![c] = FreeSlot]
  /\ UNCHANGED <<jobVars, pollLock, activePoll, backoffTimer, stopVars>>

(* The response: perhaps no job, when the long poll ends. *)
JobsActivated(c, n) ==
  /\ call[c].phase = "requested"
  /\ n <= call[c].amount
  /\ call' = [call EXCEPT ![c] = FreeSlot]
  /\ currentlyActiveJobCount' = currentlyActiveJobCount + n
  /\ working' = working + n
  /\ pollLock' = FALSE
  /\ UNCHANGED <<failing, activePoll, backoffTimer, stopVars>>

(* Mutant: a failed poll is not retried after a backoff. *)
PollFailsForGood(c) ==
  /\ call[c].phase \in {"preparing", "requested", "abandoned"}
  /\ call' = [call EXCEPT ![c] = FreeSlot]
  /\ activePoll' = NoCall
  /\ UNCHANGED <<jobVars, pollLock, backoffTimer, stopVars>>

(* No headers, or the request fails: the lock stays taken while the worker
   backs off.  This includes a promise that was cancelled before its headers
   failed. *)
PollFails(c) ==
  /\ call[c].phase \in {"preparing", "requested", "abandoned"}
  /\ call' = [call EXCEPT ![c] = FreeSlot]
  /\ activePoll' = NoCall
  /\ backoffTimer' = TRUE
  /\ UNCHANGED <<jobVars, pollLock, stopVars>>

(* An aborted request rejects with ERR_CANCELED: ignored while stopping, and
   backed off from when the worker has been started again. *)
PollAborted(c) ==
  /\ call[c].phase = "aborted"
  /\ call' = [call EXCEPT ![c] = FreeSlot]
  /\ IF stopping
     THEN UNCHANGED <<activePoll, backoffTimer>>
     ELSE activePoll' = NoCall /\ backoffTimer' = TRUE
  /\ UNCHANGED <<jobVars, pollLock, stopVars>>

(* The backoff timer releases the lock and polls. *)
BackoffElapses(c) ==
  /\ backoffTimer
  /\ backoffTimer' = FALSE
  /\ IF stopping \/ AtCapacity
     THEN pollLock' = FALSE /\ UNCHANGED <<activePoll, call>>
     ELSE Request(c)
  /\ UNCHANGED <<jobVars, stopVars>>

-------------------------------------------------------------------------------
(* The life of a job *)

HandlerReturns ==
  /\ working > 0
  /\ working' = working - 1
  /\ currentlyActiveJobCount' = currentlyActiveJobCount - 1
  /\ UNCHANGED <<failing, pollVars, stopVars>>

(* The handler throws, a rejected job action included: the job is failed. *)
HandlerThrows ==
  /\ working > 0
  /\ working' = working - 1
  /\ failing' = failing + 1
  /\ UNCHANGED <<currentlyActiveJobCount, pollVars, stopVars>>

(* Mutant: the count of another job is taken down. *)
FailSettlesSwapped ==
  /\ failing > 0
  /\ working' = working - 1
  /\ currentlyActiveJobCount' = currentlyActiveJobCount - 1
  /\ UNCHANGED <<failing, pollVars, stopVars>>

(* job.fail() resolves or rejects. *)
FailSettles ==
  /\ failing > 0
  /\ failing' = failing - 1
  /\ currentlyActiveJobCount' = currentlyActiveJobCount - 1
  /\ UNCHANGED <<working, pollVars, stopVars>>

-------------------------------------------------------------------------------
(* start() and stop() *)

(* The first poll is made at once, if the lock and the capacity allow it. *)
Start(c) ==
  /\ stopping' = FALSE
  /\ stopped' = FALSE
  /\ polling' = TRUE
  /\ IF pollLock \/ AtCapacity
     THEN UNCHANGED <<pollLock, activePoll, call>>
     ELSE Request(c)
  /\ UNCHANGED <<jobVars, backoffTimer, waiting>>

(* activePoll.cancel(): nothing once it has settled. *)
Cancelled(r) ==
  CASE r.phase = "preparing" -> [r EXCEPT !.phase = "abandoned"]
    [] r.phase = "requested" -> [r EXCEPT !.phase = "aborted"]
    [] OTHER -> r

(* Mutant: the poll in flight is not cancelled. *)
StopUncancelled ==
  /\ waiting < MaxWaiting
  /\ stopping' = TRUE
  /\ polling' = FALSE
  /\ backoffTimer' = FALSE
  /\ IF currentlyActiveJobCount = 0
     THEN stopped' = TRUE /\ UNCHANGED waiting
     ELSE waiting' = waiting + 1 /\ UNCHANGED stopped
  /\ UNCHANGED <<jobVars, pollLock, activePoll, call>>

(* Polling stops at once.  The promise resolves at once when no job is active,
   and otherwise looks every 500 ms, up to its deadline. *)
Stop ==
  /\ waiting < MaxWaiting
  /\ stopping' = TRUE
  /\ polling' = FALSE
  /\ backoffTimer' = FALSE
  /\ activePoll' = NoCall
  /\ call' = [c \in Call |-> IF c = activePoll THEN Cancelled(call[c])
                                               ELSE call[c]]
  /\ IF currentlyActiveJobCount = 0
     THEN stopped' = TRUE /\ UNCHANGED waiting
     ELSE waiting' = waiting + 1 /\ UNCHANGED stopped
  /\ UNCHANGED <<jobVars, pollLock>>

StopResolves ==
  /\ waiting > 0
  /\ currentlyActiveJobCount = 0
  /\ waiting' = waiting - 1
  /\ stopped' = (stopped \/ stopping)
  /\ UNCHANGED <<jobVars, pollVars, polling, stopping>>

DeadlinePasses ==
  /\ waiting > 0
  /\ waiting' = waiting - 1
  /\ UNCHANGED <<jobVars, pollVars, polling, stopping, stopped>>

-------------------------------------------------------------------------------
HandlerSettles ==
  \/ HandlerReturns
  \/ HandlerThrows

CallSettles(c) ==
  \/ HeadersReady(c)
  \/ \E n \in 0..MaxJobs : JobsActivated(c, n)
  \/ PollFails(c)
  \/ PollAborted(c)

Next ==
  \/ \E c \in Call :
       \/ PollDue(c)
       \/ CallSettles(c)
       \/ BackoffElapses(c)
       \/ Start(c)
  \/ HandlerSettles
  \/ FailSettles
  \/ Stop
  \/ StopResolves
  \/ DeadlinePasses

Spec == Init /\ [][Next]_vars

(* The runtime serves the interval and the timers, requests settle, handlers
   finish.  Nothing obliges the application to start or to stop the worker. *)
Fairness ==
  /\ WF_vars(\E c \in Call : PollDue(c))
  /\ \A c \in Call : WF_vars(CallSettles(c))
  /\ WF_vars(\E c \in Call : BackoffElapses(c))
  /\ WF_vars(HandlerSettles)
  /\ WF_vars(FailSettles)

FairSpec == Spec /\ Fairness

-------------------------------------------------------------------------------
(* Properties *)

Pending(c) == call[c].phase \in {"preparing", "requested"}

(* The poll lock is the right to poll: while it is free no promise of
   activateJobs is pending, cancelled or not, and no backoff is under way; the
   promise that is pending is the one that stop() would cancel. *)
LockGuardsPoll ==
  /\ \A c, d \in Call :
       call[c].phase \in Phases \ {"free"} /\ Pending(d) => c = d
  /\ ~pollLock => ~backoffTimer /\ \A c \in Call : ~Pending(c)
  /\ \A c \in Call : Pending(c) => activePoll = c

(* stop() ends polling (CamundaJobWorker.ts:131): while the worker is stopping
   no activation that could still deliver jobs is pending, whatever was in
   flight when stop() was called. *)
NoPollOutlivesStop == stopping => \A c \in Call : ~Pending(c)

(* The worker never services more jobs than its capacity ("as soon as it
   has capacity for more jobs", CamundaRestClient.ts:765). *)
CapacityRespected == held <= MaxJobs

(* A stop() promise that has resolved means what it says until start(): all
   active jobs are completed, and none arrives later (CamundaJobWorker.ts:131). *)
StopDrained == stopped => held = 0

serviceState ==
  IF ~stopping THEN "accepting" ELSE IF stopped THEN "stopped" ELSE "stopping"

(* The worker keeps the promise of a job worker, restarts included. *)
Service == INSTANCE JobService WITH
  Capacity <- MaxJobs,
  Restartable <- TRUE,
  state <- serviceState

ServicePromise == Service!Spec

Requesting == \E c \in Call : call[c].phase = "preparing"

(* A started worker asks for jobs again and again until it is stopped, whatever
   fails (CamundaJobWorker.ts:60, CamundaRestClient.ts:764).  No run checks it: a
   worker that is stopped and started again may keep its lock for good
   (CamundaJobWorker.ts:134), which no doc rules out. *)
PollsAgain == polling ~> stopping \/ Requesting

(* The same of a worker that is never stopped, however often it is started. *)
UnstoppedPollsAgain == <>stopping \/ (polling ~> Requesting)
===============================================================================
