------------------------------ MODULE PollWorker ------------------------------
(***************************************************************************)
(* The polling gRPC job worker: ZBWorkerBase (capacity accounting, the     *)
(* poll loop, its backoff timers, close) with ZBWorker (the life of a job  *)
(* in a handler).                                                          *)
(*                                                                         *)
(* A step is one macrotask of the event loop.  Jobs are interchangeable,   *)
(* so the jobs in a handler are counted.  A slot of Stream is one          *)
(* ActivateJobs call, from poll() to the last event of its stream.         *)
(***************************************************************************)
EXTENDS Integers, FiniteSets

CONSTANTS
  Stream,             \* slots for ActivateJobs calls
  NoStream,           \* jobStream is undefined
  MaxJobs,            \* maxJobsToActivate
  CancelOnException,  \* failProcessOnException
  MaxLateErrors,      \* bounds: of lateErrors,
  MaxDoubled,         \* of doubled,
  MaxLeaked           \* and of leaked

ASSUME StreamAssumption == NoStream \notin Stream
ASSUME CapacityAssumption == MaxJobs \in Nat \ {0}
ASSUME OptionAssumption == CancelOnException \in BOOLEAN
ASSUME BoundAssumption ==
  MaxLateErrors \in Nat /\ MaxDoubled \in Nat /\ MaxLeaked \in Nat

VARIABLES
  activeJobs,      \* the worker's count of the jobs it services
  working,         \* jobs in a handler, up to the settlement of its job action
  cancelling,      \* jobs whose handler threw, while their process is cancelled
  pollMutex,
  jobStream,
  backoffTimeout,  \* the slot whose timer this.backoffTimeout holds
  stream,          \* slot -> the call: its phase, the jobs it may still
                   \* deliver, and the backoff timer armed on its failure
  closePhase,      \* how far close() is
  lateErrors,      \* history: errors a stream emitted after its end (:470)
  doubled,         \* history: jobs that were counted out twice
  leaked           \* history: jobs that were counted in and never out

jobVars == <<activeJobs, working, cancelling>>
pollVars == <<pollMutex, jobStream, backoffTimeout, stream>>
faultVars == <<lateErrors, doubled, leaked>>
vars == <<jobVars, pollVars, closePhase, faultVars>>

Phases == {"free", "activating", "live", "ended"}
ClosePhases ==
  {"open", "draining", "closingIdle", "closingDrained", "closed"}

TypeOK ==
  /\ activeJobs \in Int
  /\ working \in Nat
  /\ cancelling \in Nat
  /\ pollMutex \in BOOLEAN
  /\ jobStream \in Stream \cup {NoStream}
  /\ backoffTimeout \in Stream \cup {NoStream}
  /\ stream \in [Stream -> [phase : Phases, amount : Nat, timer : BOOLEAN]]
  /\ closePhase \in ClosePhases
  /\ lateErrors \in 0..MaxLateErrors
  /\ doubled \in 0..MaxDoubled
  /\ leaked \in 0..MaxLeaked

FreeSlot == [phase |-> "free", amount |-> 0, timer |-> FALSE]
CallSlot(amount) == [phase |-> "activating", amount |-> amount, timer |-> FALSE]
FailedSlot(backoff) == [FreeSlot EXCEPT !.timer = backoff]

Init ==
  /\ activeJobs = 0
  /\ working = 0
  /\ cancelling = 0
  /\ pollMutex = FALSE
  /\ jobStream = NoStream
  /\ backoffTimeout = NoStream
  /\ stream = [s \in Stream |-> FreeSlot]
  /\ closePhase = "open"
  /\ lateErrors = 0
  /\ doubled = 0
  /\ leaked = 0

closing == closePhase # "open"
held == working + cancelling

-------------------------------------------------------------------------------
(* Capacity *)

(* drainOne(), n times: close() waits for the moment the count is zero. *)
Drain(n) ==
  /\ activeJobs' = activeJobs - n
  /\ closePhase' = IF closePhase = "draining" /\ activeJobs \in 1..n
                   THEN "closingDrained" ELSE closePhase

(* activeJobs <= maxJobsToActivate * 0.3 *)
SpareCapacity == 10 * activeJobs <= 3 * MaxJobs

-------------------------------------------------------------------------------
(* The life of a job *)

(* Mutant: the action's finally does not drain. *)
HandlerSettlesUndrained ==
  /\ working > 0
  /\ working' = working - 1
  /\ UNCHANGED <<activeJobs, cancelling, pollVars, closePhase, faultVars>>

(* complete() or fail() succeeds, error() settles, forward() is called, or
   the handler itself deals with a rejected action: one drain. *)
HandlerSettles ==
  /\ working > 0
  /\ working' = working - 1
  /\ Drain(1)
  /\ UNCHANGED <<cancelling, pollVars, faultVars>>

(* The handler throws before it has called a job action.  The drain waits for
   the cancellation of the process instance, if that is asked for; failJob is
   not awaited. *)
HandlerThrows ==
  /\ working > 0
  /\ working' = working - 1
  /\ IF CancelOnException
     THEN cancelling' = cancelling + 1 /\ UNCHANGED <<activeJobs, closePhase>>
     ELSE Drain(1) /\ UNCHANGED cancelling
  /\ UNCHANGED <<pollVars, faultVars>>

(* complete() or fail() rejects and the handler lets it through: the action's
   finally drains, then the catch of handleJob drains again. *)
ActionRejected ==
  /\ working > 0
  /\ doubled < MaxDoubled
  /\ working' = working - 1
  /\ IF CancelOnException
     THEN Drain(1) /\ cancelling' = cancelling + 1
     ELSE Drain(2) /\ UNCHANGED cancelling
  /\ doubled' = doubled + 1
  /\ UNCHANGED <<pollVars, lateErrors, leaked>>

(* cancelProcessInstance resolves or rejects. *)
CancellationSettles ==
  /\ cancelling > 0
  /\ cancelling' = cancelling - 1
  /\ Drain(1)
  /\ UNCHANGED <<working, pollVars, faultVars>>

(* The handler ends with cancelWorkflow(), which drains nothing. *)
WorkflowCancelled ==
  /\ working > 0
  /\ leaked < MaxLeaked
  /\ working' = working - 1
  /\ leaked' = leaked + 1
  /\ UNCHANGED <<activeJobs, cancelling, pollVars, closePhase, lateErrors, doubled>>

-------------------------------------------------------------------------------
(* The poll loop *)

(* Mutant: the poll asks for its full capacity, whatever is active. *)
PollForAll(s) ==
  /\ ~pollMutex /\ jobStream = NoStream
  /\ ~closing
  /\ SpareCapacity
  /\ stream[s] = FreeSlot
  /\ pollMutex' = TRUE
  /\ stream' = [stream EXCEPT ![s] = CallSlot(MaxJobs)]
  /\ UNCHANGED <<jobVars, jobStream, backoffTimeout, closePhase, faultVars>>

(* Mutant: the mutex alone guards the poll. *)
PollUnlessActivating(s) ==
  /\ ~pollMutex
  /\ ~closing
  /\ SpareCapacity
  /\ stream[s] = FreeSlot
  /\ pollMutex' = TRUE
  /\ stream' = [stream EXCEPT ![s] = CallSlot(MaxJobs - activeJobs)]
  /\ UNCHANGED <<jobVars, jobStream, backoffTimeout, closePhase, faultVars>>

(* The interval fires and poll() calls ActivateJobs. *)
Poll(s) ==
  /\ ~pollMutex /\ jobStream = NoStream
  /\ ~closing
  /\ SpareCapacity
  /\ stream[s] = FreeSlot
  /\ pollMutex' = TRUE
  /\ stream' = [stream EXCEPT ![s] = CallSlot(MaxJobs - activeJobs)]
  /\ UNCHANGED <<jobVars, jobStream, backoffTimeout, closePhase, faultVars>>

(* The call returns a stream, on a closing worker too. *)
ActivationOpens(s) ==
  /\ stream[s].phase = "activating"
  /\ stream' = [stream EXCEPT ![s].phase = "live"]
  /\ jobStream' = s
  /\ pollMutex' = FALSE
  /\ UNCHANGED <<jobVars, backoffTimeout, closePhase, faultVars>>

(* Mutant: the mutex is released only by a backoff timer. *)
ActivationFailsLocked(s, backoff) ==
  /\ stream[s].phase = "activating"
  /\ stream' = [stream EXCEPT ![s] = FailedSlot(backoff)]
  /\ backoffTimeout' = IF backoff THEN s ELSE backoffTimeout
  /\ UNCHANGED <<jobVars, pollMutex, jobStream, closePhase, faultVars>>

(* No token, or the call cannot be made: the mutex stays held while the worker
   backs off. *)
ActivationFails(s, backoff) ==
  /\ stream[s].phase = "activating"
  /\ stream' = [stream EXCEPT ![s] = FailedSlot(backoff)]
  /\ backoffTimeout' = IF backoff THEN s ELSE backoffTimeout
  /\ pollMutex' = (pollMutex /\ backoff)
  /\ UNCHANGED <<jobVars, jobStream, closePhase, faultVars>>

(* Mutant: jobs are accepted while closing. *)
JobsArriveAnyway(s, n, unparsable) ==
  /\ stream[s].phase = "live"
  /\ n <= stream[s].amount
  /\ stream' = [stream EXCEPT ![s].amount = @ - n]
  /\ leaked + unparsable <= MaxLeaked
  /\ activeJobs' = activeJobs + n
  /\ working' = working + n - unparsable
  /\ leaked' = leaked + unparsable
  /\ UNCHANGED <<cancelling, pollMutex, jobStream, backoffTimeout, closePhase,
                 lateErrors, doubled>>

(* A response with n jobs.  A closing worker drops it.  Jobs that do not parse
   are counted and failed, and reach no handler that would drain them. *)
JobsArrive(s, n, unparsable) ==
  /\ stream[s].phase = "live"
  /\ n <= stream[s].amount
  /\ stream' = [stream EXCEPT ![s].amount = @ - n]
  /\ IF closing
     THEN UNCHANGED <<activeJobs, working, leaked>>
     ELSE /\ leaked + unparsable <= MaxLeaked
          /\ activeJobs' = activeJobs + n
          /\ working' = working + n - unparsable
          /\ leaked' = leaked + unparsable
  /\ UNCHANGED <<cancelling, pollMutex, jobStream, backoffTimeout, closePhase,
                 lateErrors, doubled>>

(* The server completes the response or its deadline passes, or the client's
   own timeout emits end while the call is still open. *)
StreamEnds(s) ==
  /\ stream[s].phase = "live"
  /\ stream' = [stream EXCEPT ![s] = [FreeSlot EXCEPT !.phase = "ended"]]
  /\ jobStream' = NoStream
  /\ UNCHANGED <<jobVars, pollMutex, backoffTimeout, closePhase, faultVars>>

(* The stream emits error, then end.  Nothing keeps this backoff timer. *)
StreamErrors(s, backoff) ==
  /\ stream[s].phase = "live"
  /\ stream' = [stream EXCEPT ![s] = FailedSlot(backoff)]
  /\ pollMutex' = backoff
  /\ jobStream' = NoStream
  /\ UNCHANGED <<jobVars, backoffTimeout, closePhase, faultVars>>

(* The error comes after end: the handlers are still there, and act on the
   mutex and the jobStream of whichever poll is under way. *)
LateError(s, backoff) ==
  /\ stream[s].phase = "ended"
  /\ lateErrors < MaxLateErrors
  /\ lateErrors' = lateErrors + 1
  /\ stream' = [stream EXCEPT ![s] = FailedSlot(backoff)]
  /\ pollMutex' = backoff
  /\ jobStream' = IF backoff THEN jobStream ELSE NoStream
  /\ UNCHANGED <<jobVars, backoffTimeout, closePhase, doubled, leaked>>

(* The call of an ended stream completes without an error. *)
CallCompletes(s) ==
  /\ stream[s].phase = "ended"
  /\ stream' = [stream EXCEPT ![s] = FreeSlot]
  /\ UNCHANGED <<jobVars, pollMutex, jobStream, backoffTimeout, closePhase, faultVars>>

BackoffElapses(s) ==
  /\ stream[s].timer
  /\ stream' = [stream EXCEPT ![s].timer = FALSE]
  /\ backoffTimeout' = IF backoffTimeout = s THEN NoStream ELSE backoffTimeout
  /\ jobStream' = NoStream
  /\ pollMutex' = FALSE
  /\ UNCHANGED <<jobVars, closePhase, faultVars>>

-------------------------------------------------------------------------------
(* close() *)

(* The interval and this.backoffTimeout are cleared.  A later call returns the
   same promise. *)
Close ==
  /\ ~closing
  /\ closePhase' = IF activeJobs <= 0 THEN "closingIdle" ELSE "draining"
  /\ stream' = [s \in Stream |-> IF s = backoffTimeout
                                 THEN [stream[s] EXCEPT !.timer = FALSE]
                                 ELSE stream[s]]
  /\ backoffTimeout' = NoStream
  /\ UNCHANGED <<jobVars, pollMutex, jobStream, faultVars>>

(* The channel is closed and the promise resolves.  Only a worker that was
   idle when close() was called cancels its stream. *)
ChannelCloses ==
  /\ closePhase \in {"closingIdle", "closingDrained"}
  /\ closePhase' = "closed"
  /\ IF closePhase = "closingIdle"
     THEN /\ jobStream' = NoStream
          /\ stream' = [s \in Stream |-> IF s = jobStream THEN FreeSlot
                                                          ELSE stream[s]]
     ELSE UNCHANGED <<jobStream, stream>>
  /\ UNCHANGED <<jobVars, pollMutex, backoffTimeout, faultVars>>

-------------------------------------------------------------------------------
JobSettles ==
  \/ HandlerSettles
  \/ HandlerThrows
  \/ ActionRejected
  \/ CancellationSettles
  \/ WorkflowCancelled

ActivationSettles(s) ==
  \/ ActivationOpens(s)
  \/ \E backoff \in BOOLEAN : ActivationFails(s, backoff)

StreamDelivers(s) ==
  \E n \in 1..(MaxJobs + MaxDoubled), unparsable \in 0..MaxLeaked :
    unparsable <= n /\ JobsArrive(s, n, unparsable)

Next ==
  \/ JobSettles
  \/ \E s \in Stream :
       \/ Poll(s)
       \/ ActivationSettles(s)
       \/ StreamDelivers(s)
       \/ StreamEnds(s)
       \/ CallCompletes(s)
       \/ BackoffElapses(s)
       \/ \E backoff \in BOOLEAN :
            \/ StreamErrors(s, backoff)
            \/ LateError(s, backoff)
  \/ Close
  \/ ChannelCloses

Spec == Init /\ [][Next]_vars

(* The runtime serves the interval and the timers; a call is answered, and its
   stream ends at the latest at the client-side timeout; handlers finish. *)
Fairness ==
  /\ WF_vars(JobSettles)
  /\ WF_vars(\E s \in Stream : Poll(s))
  /\ \A s \in Stream :
       /\ WF_vars(ActivationSettles(s))
       /\ WF_vars(StreamEnds(s))
       /\ WF_vars(CallCompletes(s))
       /\ WF_vars(BackoffElapses(s))
  /\ WF_vars(ChannelCloses)

FairSpec == Spec /\ Fairness

-------------------------------------------------------------------------------
(* Properties *)

Polling(s) == stream[s].phase \in {"activating", "live"}

(* Slots that keep the worker from making another call, if it knows of them. *)
Underway == {s \in Stream : Polling(s) \/ stream[s].timer}

(* Only errors that come after the end of a stream make ActivateJobs calls
   overlap, or be made while a failure is backed off from, and each lets in one
   call more (ZBWorkerBase.ts:480). *)
OverlapsAreLate == Cardinality(Underway) <= 1 + lateErrors

(* The count is off by the jobs that leaked and those counted out twice, and by
   nothing else, in whatever order jobs, their actions and close() come
   (ZBWorkerBase.ts:666). *)
CountIsExact == activeJobs = held + leaked - doubled

(* What a double count can do, and no more: the worker exceeds its capacity
   (interfaces-1.0.ts:398) and close() resolves too early (ZBWorkerBase.ts:220)
   by the jobs counted out twice. *)
DriftIsBounded ==
  /\ lateErrors = 0 => held + leaked <= MaxJobs + doubled
  /\ closePhase = "closed" => held + leaked <= doubled

serviceState ==
  IF ~closing THEN "accepting"
  ELSE IF closePhase = "closed" THEN "stopped" ELSE "stopping"

(* The worker keeps the promise of a job worker: it takes jobs up to its
   capacity, none while it closes, and closes when it is drained. *)
Service == INSTANCE JobService WITH
  Capacity <- MaxJobs,
  Restartable <- FALSE,
  state <- serviceState

breached == lateErrors > 0 \/ doubled > 0

(* Until a late error or a double count, every step is a step of that promise,
   capacity that leaks included. *)
ServicePromise ==
  Service!Init /\ [][breached' \/ Service!Next]_(Service!vars)

(* The leaked jobs alone fill the capacity. *)
LeaksFill == leaked - doubled \in {n \in 1..MaxLeaked : 10 * n > 3 * MaxJobs}

(* Polling never ends before close(), however polls and job actions fail, unless
   leaked jobs fill the capacity. *)
PollsAgain ==
  []<>(closing \/ LeaksFill \/ \E s \in Stream : stream[s].phase = "activating")

(* The promise of close() resolves (ZBWorkerBase.ts:220) unless it waits for
   jobs that leaked. *)
CloseResolves == closing ~> closePhase = "closed" \/ leaked > doubled
===============================================================================
