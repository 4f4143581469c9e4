----------------------------- MODULE StreamWorker -----------------------------
(***************************************************************************)
(* One ZBStreamWorker.streamJobs call: its connection (StreamConnection)   *)
(* and its polling (BacklogDrain) composed with pollAndStream(), the       *)
(* caller, the worker's close() and the broker they talk to.               *)
(*                                                                         *)
(* A step is one macrotask of the event loop with the microtasks it leads  *)
(* to: a timer, a raw stream event, the settlement of a call to the        *)
(* gateway or of the task handlers, or a call from the application.        *)
(***************************************************************************)
EXTENDS StreamConnection, BacklogDrain

CONSTANTS
  BatchSize,           \* pollMaxJobsToActivate
  MaxBacklog,          \* bound: activatable jobs waiting at the broker
  ActivationsMayFail,  \* the gateway may reject an ActivateJobs call
  JobsMayRequeue       \* jobs may also time out while the stream is up

ASSUME BatchAssumption == BatchSize \in Nat \ {0} /\ MaxBacklog \in Nat
ASSUME GatewayAssumption ==
  ActivationsMayFail \in BOOLEAN /\ JobsMayRequeue \in BOOLEAN

VARIABLE
  backlog  \* activatable jobs at the broker that only a poll can reach

vars == <<callVars, connVars, drainVars, backlog>>

TypeOK ==
  /\ CallTypeOK
  /\ ConnTypeOK
  /\ DrainTypeOK
  /\ backlog \in 0..MaxBacklog

Init ==
  /\ CallInit
  /\ ConnInit
  /\ DrainInit
  /\ backlog \in 0..MaxBacklog

-------------------------------------------------------------------------------
(* pollAndStream() *)

(* streamJobs is called.  On a closed worker it opens nothing. *)
CallStreamJobs ==
  /\ pc = "idle"
  /\ pc' = IF closed THEN "returned" ELSE "jitter"
  /\ machine' = IF closed THEN Transition(ClosedState("client-closed"))
                ELSE machine
  /\ UNCHANGED <<closed, handleClosed, failures, reconnectTimer, current,
                 streams, stream, drainVars, backlog>>

(* The jitter is over (a call without one waits no time): open the stream,
   whatever happened to the worker meanwhile. *)
JitterElapses(s) ==
  /\ pc = "jitter"
  /\ pc' = "opening"
  /\ StartOpen(s, "main")
  /\ UNCHANGED <<closed, handleClosed, machine, failures, reconnectTimer,
                 current, streams, drainVars, backlog>>

(* Mutant: no backfill follows a re-open. *)
StreamOpensUnfilled(s) ==
  /\ OpenStreamOk(s)
  /\ IF stream[s].by = "main" THEN Backfill("main")
                              ELSE UNCHANGED <<reserved, requested, poller>>
  /\ pc' = CASE stream[s].by = "reconnect" -> pc
             [] stream[s].by = "main" /\ IsClosed -> "returned"
             [] OTHER -> "backfilling"
  /\ UNCHANGED <<closed, handleClosed, sidecarTimer, pollTimers, backlog>>

(* An open resolves with a stream, and the backfill follows it. *)
StreamOpens(s) ==
  /\ OpenStreamOk(s)
  /\ Backfill(stream[s].by)
  /\ pc' = CASE stream[s].by = "reconnect" -> pc
             [] stream[s].by = "main" /\ IsClosed -> "returned"
             [] OTHER -> "backfilling"
  /\ UNCHANGED <<closed, handleClosed, sidecarTimer, pollTimers, backlog>>

(* An open resolves with an error.  The first one rejects streamJobs when
   reconnection is disabled; otherwise the sidecar starts without a stream. *)
StreamOpenFails(s) ==
  /\ OpenStreamError(s)
  /\ IF stream[s].by = "main"
     THEN /\ pc' = IF IsClosed \/ ReconnectEnabled THEN "returned"
                   ELSE "rejected"
          /\ IF ~IsClosed /\ ReconnectEnabled
             THEN StartSidecar
             ELSE UNCHANGED <<sidecarTimer, pollTimers>>
     ELSE UNCHANGED <<pc, sidecarTimer, pollTimers>>
  /\ UNCHANGED <<closed, handleClosed, reserved, requested, poller, backlog>>

-------------------------------------------------------------------------------
(* The stream *)

Pushing == \E s \in Stream : stream[s].phase = "up"

(* The broker pushes a job to the stream, and its handler starts.  Handlers
   of pushed jobs are not awaited, so they are no state of this call. *)
JobPushed(s) ==
  /\ StreamData(s)
  /\ UNCHANGED <<callVars, drainVars, backlog>>

StreamLost(s) ==
  /\ StreamDrops(s)
  /\ UNCHANGED <<callVars, drainVars, backlog>>

StreamReports(s, e, longUp) ==
  /\ StreamEvent(s, e, longUp)
  /\ UNCHANGED <<callVars, drainVars, backlog>>

ReconnectDue(s, callbackCloses) ==
  /\ ReconnectFires(s, callbackCloses)
  /\ IF callbackCloses
     THEN handleClosed' = TRUE /\ CloseSidecar
     ELSE UNCHANGED <<handleClosed, drainVars>>
  /\ UNCHANGED <<pc, closed, backlog>>

-------------------------------------------------------------------------------
(* The polls *)

(* A job becomes activatable while no stream is there to push it to, or comes
   back after its timeout. *)
JobQueued ==
  /\ backlog < MaxBacklog
  /\ JobsMayRequeue \/ ~Pushing
  /\ backlog' = backlog + 1
  /\ UNCHANGED <<callVars, connVars, drainVars>>

(* ActivateJobs answers with as many jobs as there are, up to the maximum. *)
JobsActivated(p) ==
  /\ ActivationReturns(p, backlog >= BatchSize)
  /\ backlog' = IF backlog >= BatchSize THEN backlog - BatchSize ELSE 0
  /\ UNCHANGED <<closed, handleClosed, connVars>>

ActivationRejected(p) ==
  /\ ActivationsMayFail
  /\ FirstActivationFails(p) \/ NextActivationFails(p)
  /\ UNCHANGED <<closed, handleClosed, connVars, backlog>>

BatchHandled(p) ==
  /\ HandlersSettle(p)
  /\ UNCHANGED <<callVars, connVars, backlog>>

SidecarDue ==
  /\ SidecarFires
  /\ UNCHANGED <<callVars, connVars, backlog>>

-------------------------------------------------------------------------------
(* Closing *)

CloseHandle ==
  /\ HandleHeld
  /\ ~handleClosed
  /\ handleClosed' = TRUE
  /\ HandleCloses
  /\ CloseSidecar
  /\ UNCHANGED <<pc, closed, backlog>>

CloseWorker ==
  /\ ~closed
  /\ closed' = TRUE
  /\ IF pc = "idle"
     THEN UNCHANGED <<connVars, drainVars>>
     ELSE WorkerCloses /\ CloseAllSidecars
  /\ UNCHANGED <<pc, handleClosed, backlog>>

-------------------------------------------------------------------------------
Next ==
  \/ CallStreamJobs
  \/ \E s \in Stream :
       \/ JitterElapses(s)
       \/ StreamOpens(s)
       \/ StreamOpenFails(s)
       \/ JobPushed(s)
       \/ StreamLost(s)
       \/ \E e \in RawEvents, longUp \in BOOLEAN : StreamReports(s, e, longUp)
       \/ \E callbackCloses \in BOOLEAN : ReconnectDue(s, callbackCloses)
  \/ JobQueued
  \/ \E p \in Poller :
       \/ JobsActivated(p)
       \/ ActivationRejected(p)
       \/ BatchHandled(p)
  \/ SidecarDue
  \/ CloseHandle
  \/ CloseWorker

Spec == Init /\ [][Next]_vars

(* The runtime serves timers and answers; the gateway and the task handlers
   answer in the end, and a poll that may be rejected is not rejected for
   ever.  Nothing obliges jobs to appear, streams to drop or anyone to close.
   A dead stream is noticed because gRPC keepalive pings fail. *)
Fairness ==
  /\ \A s \in Stream :
       /\ WF_vars(JitterElapses(s))
       /\ WF_vars(StreamOpens(s))
       /\ WF_vars(\E e \in RawEvents, longUp \in BOOLEAN :
                    StreamReports(s, e, longUp))
       /\ WF_vars(ReconnectDue(s, FALSE))
  /\ \A p \in Poller :
       /\ SF_vars(JobsActivated(p))
       /\ WF_vars(BatchHandled(p))
  /\ WF_vars(SidecarDue)

FairSpec == Spec /\ Fairness

-------------------------------------------------------------------------------
(* Properties *)

(* The worker never holds more than one batch of polled jobs: no two chains of
   activations and drains are in flight at once (ZBStreamWorker.ts:254, 296). *)
OnePolledBatch == \A p, q \in Poller : Busy(p) /\ Busy(q) => p = q

(* activationReserved is TRUE exactly while a chain is in flight: it is neither
   leaked, which would end all polling, nor released under a running drain. *)
ReservationHeld == reserved <=> \E p \in Poller : Busy(p)

(* A stream that is being opened, is up, or is dead and not yet reported. *)
Underway(s) ==
  \/ stream[s].phase \in {"opening", "up"}
  \/ stream[s].phase = "down" /\ ~stream[s].settled

(* A dead stream is re-opened once: the error, end and close of one stream
   never lead to two streams, nor to a timer beside a stream. *)
AtMostOneStream ==
  /\ \A s, t \in Stream : Underway(s) /\ Underway(t) => s = t
  /\ reconnectTimer => \A s \in Stream : ~Underway(s)

(* Recovery never stalls: while the call is open and reconnection is enabled, a
   stream is underway or a reconnect timer is armed. *)
NeverStalled ==
  ReconnectEnabled /\ ~IsClosed /\ pc \notin {"idle", "jitter"}
    => reconnectTimer \/ \E s \in Stream : Underway(s)

(* handle.state tells the truth: open means a stream is attached and has not
   been reported dead; reconnecting means a re-open is scheduled or in flight
   and names the failures that drive its backoff; a closed handle was closed,
   unless reconnection is disabled and the stream died. *)
HandleTruthful ==
  /\ HandleHeld /\ machine.status = "open" =>
       /\ current # NoStream
       /\ stream[current].phase \in {"up", "down"}
       /\ ~stream[current].settled
  /\ machine.status = "reconnecting" =>
       /\ machine.attempt = failures /\ failures > 0
       /\ reconnectTimer \/ \E s \in Stream : stream[s].phase = "opening"
  /\ machine.status = "closed" => IsClosed \/ ~ReconnectEnabled
  /\ IsClosed /\ pc \notin {"idle"} => machine.status = "closed"

(* close() of the handle or of the worker stops everything at once: no timer
   stays armed and no attached stream can still reach a handler. *)
NothingOutlivesClose ==
  IsClosed =>
    /\ ~reconnectTimer /\ ~sidecarTimer
    /\ streams = {}
    /\ \A s \in Stream : Underway(s) => stream[s].phase = "opening"

(* The sidecar's chain of timers and polls never breaks before a close, not
   even when the stream is down for good (README.md:760). *)
SidecarAlive ==
  PollEnabled /\ HandleHeld /\ ~IsClosed =>
    sidecarTimer # (\E p \in Poller : Busy(p) /\ poller[p].origin = "sidecar")

(* A backfill that was deferred, or is being activated. *)
BackfillOwed ==
  \/ requested
  \/ \E p \in Poller :
       \/ poller[p].phase = "reactivating" /\ poller[p].honours
       \/ poller[p].phase = "activating" /\ poller[p].origin # "sidecar"

(* A backfill that is owed stays owed until an activation answers it, its own
   first activation is rejected, or the call is closed: a drain that fails
   does not discard it. *)
OwedBackfillKept ==
  [][BackfillOwed /\ ~BackfillOwed' =>
       \/ IsClosed'
       \/ \E p \in Poller :
            \/ Awaiting(p) /\ poller'[p].phase = "handling"
            \/ poller[p].phase = "activating" /\ poller'[p].phase = "idle"
    ]_vars

(* The caller awaits or holds a handle that nobody has closed. *)
Serving == pc \in {"backfilling", "returned"} /\ ~IsClosed

(* A deferred backfill always has a chain in flight that will run it, so jobs
   created while the stream was down are picked up without recurring polling
   (ZBStreamWorker.ts:345). *)
DeferredBackfillCarried == requested /\ Serving => reserved

(* The call keeps the promise of its handle. *)
Handle == INSTANCE StreamHandle WITH
  Recovers <- ReconnectEnabled,
  status <- machine.status,
  reason <- machine.reason,
  attempt <- machine.attempt,
  connected <- Pushing

HandlePromise == Handle!Spec

(* A handle that is reconnecting gets a stream again, or is closed. *)
Reconnects == machine.status = "reconnecting" ~> machine.status # "reconnecting"

(* Subscribe, then backfill: no job that only a poll can reach waits for ever
   while the call is served (ZBStreamWorker.ts:289, 589), unless new ones are
   queued for ever. *)
NoJobStranded ==
  \/ []<><<JobQueued>>_vars
  \/ Serving /\ backlog > 0 ~> ~Serving \/ backlog = 0

(* After a close every raw stream ends and every poll and timer with it. *)
Quiet ==
  /\ ~reconnectTimer /\ ~sidecarTimer
  /\ \A s \in Stream : stream[s].phase = "free"
  /\ \A p \in Poller : ~Busy(p)
Quiesces == IsClosed /\ pc \in {"returned", "rejected"} ~> Quiet
===============================================================================
