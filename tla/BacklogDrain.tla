----------------------------- MODULE BacklogDrain -----------------------------
(***************************************************************************)
(* The polling half of a streamJobs call: the initial and the reconnect    *)
(* backfill, the recurring sidecar poll, and the drain loop each of them   *)
(* feeds.  activationReserved keeps at most one of them running; a         *)
(* backfill that finds it taken leaves backfillRequested behind for the    *)
(* drain in flight.                                                        *)
(*                                                                         *)
(* A poller is one chain of promises: an activation, then the drain of the *)
(* batches it leads to.                                                    *)
(***************************************************************************)
EXTENDS StreamCall

CONSTANTS
  Poller,      \* slots for chains of promises
  PollEnabled  \* pollInterval > 0

ASSUME PollEnabledAssumption == PollEnabled \in BOOLEAN

VARIABLES
  reserved,      \* activationReserved
  requested,     \* backfillRequested
  poller,        \* the chains in flight
  sidecarTimer,  \* the sidecar timer is armed
  pollTimers     \* this.pollTimers holds this call's timer

drainVars == <<reserved, requested, poller, sidecarTimer, pollTimers>>

-------------------------------------------------------------------------------
(* A chain awaits its first activation, the handlers of a batch, or the
   activation of the drain's next batch.  `honours` marks a next activation
   that consumed a deferred backfill; `full`, a batch of the maximum size. *)
PollerPhases == {"idle", "activating", "handling", "reactivating"}
Origins == {"main", "reconnect", "deferred", "sidecar"}

Chain == [phase : PollerPhases, origin : Origins, honours : BOOLEAN,
          full : BOOLEAN]

IdleChain == [phase |-> "idle", origin |-> "main", honours |-> FALSE,
              full |-> FALSE]

Activating(origin) == [IdleChain EXCEPT !.phase = "activating",
                                        !.origin = origin]

Handling(c, isFull) == [c EXCEPT !.phase = "handling", !.honours = FALSE,
                                 !.full = isFull]

Reactivating(c, forBackfill) == [c EXCEPT !.phase = "reactivating",
                                          !.honours = forBackfill]

Busy(p) == poller[p].phase # "idle"
Awaiting(p) == poller[p].phase \in {"activating", "reactivating"}

DrainTypeOK ==
  /\ reserved \in BOOLEAN
  /\ requested \in BOOLEAN
  /\ poller \in [Poller -> Chain]
  /\ sidecarTimer \in BOOLEAN
  /\ pollTimers \in BOOLEAN

DrainInit ==
  /\ reserved = FALSE
  /\ requested = FALSE
  /\ poller = [p \in Poller |-> IdleChain]
  /\ sidecarTimer = FALSE
  /\ pollTimers = FALSE

-------------------------------------------------------------------------------
(* schedulePoll(): the next sidecar timer, unless the call is over. *)
SchedulePoll ==
  IF IsClosed
  THEN UNCHANGED <<sidecarTimer, pollTimers>>
  ELSE sidecarTimer' = TRUE /\ pollTimers' = TRUE

(* The end of pollAndStream(): the sidecar starts when polling is enabled. *)
StartSidecar ==
  IF PollEnabled THEN SchedulePoll ELSE UNCHANGED <<sidecarTimer, pollTimers>>

(* Reserve, then activate, on some idle chain of `chains`. *)
Activate(chains, origin) ==
  \E p \in Poller :
    /\ chains[p].phase = "idle"
    /\ reserved' = TRUE
    /\ poller' = [chains EXCEPT ![p] = Activating(origin)]

(* Mutant: a reconnect backfill does not look at the reservation. *)
BackfillUnreserved(origin) ==
  IF IsClosed THEN UNCHANGED <<reserved, requested, poller>>
              ELSE Activate(poller, origin) /\ UNCHANGED requested

(* backfill() *)
Backfill(origin) ==
  \/ IsClosed /\ UNCHANGED <<reserved, requested, poller>>
  \/ ~IsClosed /\ reserved /\ requested' = TRUE /\ UNCHANGED <<reserved, poller>>
  \/ ~IsClosed /\ ~reserved /\ Activate(poller, origin) /\ UNCHANGED requested

(* runDrain's finally, with backfillRequested at `pending`: release, and run a
   backfill the drain left behind.  A sidecar chain then schedules its next
   poll. *)
FinishDrain(p, pending) ==
  LET released == [poller EXCEPT ![p] = IdleChain]
  IN  /\ requested' = FALSE
      /\ IF pending /\ ~IsClosed
         THEN Activate(released, "deferred")
         ELSE reserved' = FALSE /\ poller' = released
      /\ IF poller[p].origin = "sidecar"
         THEN SchedulePoll
         ELSE UNCHANGED <<sidecarTimer, pollTimers>>

(* Mutant: the drain does not look for a deferred backfill. *)
HandlersSettleBlind(p) ==
  /\ poller[p].phase = "handling"
  /\ IF ~poller[p].full \/ IsClosed
     THEN /\ poller' = [poller EXCEPT ![p] = IdleChain]
          /\ reserved' = FALSE
          /\ IF poller[p].origin = "sidecar"
             THEN SchedulePoll
             ELSE UNCHANGED <<sidecarTimer, pollTimers>>
     ELSE /\ poller' = [poller EXCEPT ![p] = Reactivating(@, FALSE)]
          /\ UNCHANGED <<reserved, sidecarTimer, pollTimers>>
  /\ UNCHANGED requested

(* Every handler of the batch has settled: honour a deferred backfill, stop
   after a partial batch or a close, or fetch the next batch. *)
HandlersSettle(p) ==
  /\ poller[p].phase = "handling"
  /\ \/ /\ requested /\ ~IsClosed
        /\ requested' = FALSE
        /\ poller' = [poller EXCEPT ![p] = Reactivating(@, TRUE)]
        /\ UNCHANGED <<reserved, sidecarTimer, pollTimers>>
     \/ /\ ~(requested /\ ~IsClosed)
        /\ ~poller[p].full \/ IsClosed
        /\ FinishDrain(p, requested)
     \/ /\ ~requested /\ ~IsClosed /\ poller[p].full
        /\ poller' = [poller EXCEPT ![p] = Reactivating(@, FALSE)]
        /\ UNCHANGED <<reserved, requested, sidecarTimer, pollTimers>>

(* An activation resolves: its batch goes to the handlers.  The first one of
   the initial backfill also lets pollAndStream() go on. *)
ActivationReturns(p, isFull) ==
  /\ Awaiting(p)
  /\ poller' = [poller EXCEPT ![p] = Handling(@, isFull)]
  /\ IF poller[p].phase = "activating" /\ poller[p].origin = "main"
     THEN pc' = "returned" /\ StartSidecar
     ELSE UNCHANGED <<pc, sidecarTimer, pollTimers>>
  /\ UNCHANGED <<reserved, requested>>

(* Mutant: a rejected activation keeps the reservation. *)
FirstActivationFailsReserved(p) ==
  /\ poller[p].phase = "activating"
  /\ poller' = [poller EXCEPT ![p] = IdleChain]
  /\ pc' = IF poller[p].origin = "main" THEN "rejected" ELSE pc
  /\ IF poller[p].origin = "sidecar"
     THEN SchedulePoll
     ELSE UNCHANGED <<sidecarTimer, pollTimers>>
  /\ UNCHANGED <<reserved, requested>>

(* Mutant: the sidecar schedules its next poll only after a successful one. *)
FirstActivationFailsUnscheduled(p) ==
  /\ poller[p].phase = "activating"
  /\ poller' = [poller EXCEPT ![p] = IdleChain]
  /\ reserved' = FALSE
  /\ pc' = IF poller[p].origin = "main" THEN "rejected" ELSE pc
  /\ UNCHANGED <<requested, sidecarTimer, pollTimers>>

(* The first activation of a chain rejects: the reservation is released where
   it was taken.  The initial backfill rejects streamJobs itself; the sidecar
   schedules its next poll; the other two only log. *)
FirstActivationFails(p) ==
  /\ poller[p].phase = "activating"
  /\ poller' = [poller EXCEPT ![p] = IdleChain]
  /\ reserved' = FALSE
  /\ pc' = IF poller[p].origin = "main" THEN "rejected" ELSE pc
  /\ IF poller[p].origin = "sidecar"
     THEN SchedulePoll
     ELSE UNCHANGED <<sidecarTimer, pollTimers>>
  /\ UNCHANGED requested

(* Mutant: a drain that fails does not restore the deferral it consumed. *)
NextActivationFailsForgets(p) ==
  /\ poller[p].phase = "reactivating"
  /\ FinishDrain(p, requested)
  /\ UNCHANGED pc

(* A later activation of a drain rejects, and ends the drain: one that was
   honouring a deferred backfill restores the deferral first. *)
NextActivationFails(p) ==
  /\ poller[p].phase = "reactivating"
  /\ FinishDrain(p, requested \/ poller[p].honours)
  /\ UNCHANGED pc

(* The sidecar timer fires.  An activation already in flight does its job. *)
SidecarFires ==
  /\ sidecarTimer
  /\ IF reserved \/ IsClosed
     THEN /\ sidecarTimer' = ~IsClosed
          /\ pollTimers' = ~IsClosed
          /\ UNCHANGED <<reserved, poller>>
     ELSE /\ Activate(poller, "sidecar")
          /\ sidecarTimer' = FALSE
          /\ pollTimers' = FALSE
  /\ UNCHANGED requested

(* closeHandle() clears the timer it armed last, but leaves the entry in
   this.pollTimers. *)
CloseSidecar ==
  /\ sidecarTimer' = FALSE
  /\ UNCHANGED <<reserved, requested, poller, pollTimers>>

(* ZBStreamWorker.close() clears the timers it finds in the list, and empties
   it. *)
CloseAllSidecars ==
  /\ sidecarTimer' = (sidecarTimer /\ ~pollTimers)
  /\ pollTimers' = FALSE
  /\ UNCHANGED <<reserved, requested, poller>>
===============================================================================
