-------------------------- MODULE StreamPromiseProofs --------------------------
(***************************************************************************)
(* What a streamJobs call promises its caller, for every value of the      *)
(* constants: the sidecar stays alive, the handle tells the truth, and the *)
(* call implements StreamHandle.                                           *)
(***************************************************************************)
EXTENDS StreamWorkerProofs

-------------------------------------------------------------------------------
(* The sidecar: the recurring poll of a served call. *)

OnSidecar == \E p \in Poller : Busy(p) /\ poller[p].origin = "sidecar"

(* The first activation of the initial backfill. *)
FirstPoll(p) == poller[p].phase = "activating" /\ poller[p].origin = "main"

(* The first open. *)
FirstOpen(s) == stream[s].phase = "opening" /\ stream[s].by = "main"

(* SidecarAlive strengthened: the sidecar starts when pollAndStream() resolves
   and not before, and pollAndStream() resolves once. *)
FirstOpenAwaited == \A s \in Stream : FirstOpen(s) => pc = "opening"

SidecarTurns ==
  /\ pc \in {"idle", "jitter", "opening", "backfilling"} =>
       ~sidecarTimer /\ ~OnSidecar
  /\ \A p \in Poller : FirstPoll(p) => pc = "backfilling"
  /\ PollEnabled /\ HandleHeld /\ ~IsClosed =>
       (sidecarTimer => ~OnSidecar) /\ (~sidecarTimer => OnSidecar)

SidecarInv == FirstOpenAwaited /\ SidecarTurns

LEMMA ActivateMoves ==
  ASSUME NEW chains \in [Poller -> Chain], NEW o,
         \A p \in Poller : chains[p].phase = "idle",
         Activate(chains, o)
  PROVE  /\ OnSidecar' <=> o = "sidecar"
         /\ \A p \in Poller : FirstPoll(p)' => o = "main"
<1>1. PICK p \in Poller : poller' = [chains EXCEPT ![p] = Activating(o)]
  BY DEF Activate
<1>2. poller'[p] = Activating(o) /\ \A q \in Poller \ {p} : poller'[q] = chains[q]
  BY <1>1
<1>3. Activating(o).phase = "activating" /\ Activating(o).origin = o
  BY DEF Activating, IdleChain
<1>4. QED
  BY <1>2, <1>3 DEF OnSidecar, FirstPoll, Busy

(* What one busy chain says of all of them. *)
LEMMA OnlyChain ==
  ASSUME OnePolledBatch, NEW p \in Poller, Busy(p)
  PROVE  OnSidecar <=> poller[p].origin = "sidecar"
BY DEF OnePolledBatch, OnSidecar

(* The chain in flight moves on, or ends. *)
LEMMA ChainMoves ==
  ASSUME DrainTypeOK, OnePolledBatch, NEW p \in Poller, Busy(p), NEW c,
         poller' = [poller EXCEPT ![p] = c]
  PROVE  /\ OnSidecar' <=> c.phase # "idle" /\ c.origin = "sidecar"
         /\ \A q \in Poller : FirstPoll(q)' => c.phase = "activating"
<1>1. poller'[p] = c /\ \A q \in Poller \ {p} : poller'[q] = poller[q]
  BY DEF DrainTypeOK
<1>2. \A q \in Poller \ {p} : ~Busy(q)
  BY DEF OnePolledBatch
<1>3. QED
  BY <1>1, <1>2 DEF OnSidecar, FirstPoll, Busy

(* The drain ends: one that the sidecar began has scheduled the next poll. *)
LEMMA FinishMoves ==
  ASSUME DrainTypeOK, OnePolledBatch, NEW p \in Poller, Busy(p), NEW pending,
         FinishDrain(p, pending)
  PROVE  /\ ~OnSidecar'
         /\ \A q \in Poller : ~FirstPoll(q)'
         /\ OnSidecar /\ ~IsClosed => sidecarTimer'
         /\ ~OnSidecar => UNCHANGED sidecarTimer
<1> DEFINE released == [poller EXCEPT ![p] = IdleChain]
<1>1. released \in [Poller -> Chain] /\ \A q \in Poller : released[q].phase = "idle"
  BY ChainTypes DEF DrainTypeOK, OnePolledBatch, Busy, IdleChain
<1>2. ~OnSidecar' /\ \A q \in Poller : ~FirstPoll(q)'
  <2>1. Activate(released, "deferred") \/ poller' = released
    BY DEF FinishDrain
  <2> HIDE DEF released
  <2>2. CASE Activate(released, "deferred")
    <3>1. \A o : Activate(released, o) =>
            /\ OnSidecar' <=> o = "sidecar"
            /\ \A q \in Poller : FirstPoll(q)' => o = "main"
      BY <1>1, ActivateMoves
    <3>2. QED
      BY <2>2, <3>1
  <2>3. CASE poller' = released
    BY <2>3, <1>1 DEF OnSidecar, FirstPoll, Busy
  <2>4. QED
    BY <2>1, <2>2, <2>3
<1>3. QED
  BY <1>2, OnlyChain DEF FinishDrain, SchedulePoll

(* Streams open, drop and are disposed without another first open. *)
LEMMA FirstOpenOnce ==
  ASSUME ConnTypeOK, [Next]_vars
  PROVE  \A s \in Stream : FirstOpen(s)' => FirstOpen(s) \/ pc' = "opening"
<1> USE DEF FirstOpen, ConnTypeOK
<1>1. ASSUME NEW s \in Stream, JitterElapses(s) PROVE pc' = "opening"
  BY <1>1 DEF JitterElapses
<1>2. ASSUME NEW s \in Stream, StreamOpens(s) \/ StreamOpenFails(s)
      PROVE  \A t \in Stream : FirstOpen(t)' => FirstOpen(t)
  <2>1. \/ stream' = [stream EXCEPT ![s] = FreeSlot]
        \/ stream' = [stream EXCEPT ![s] = Attached(stream[s])]
    BY <1>2 DEF StreamOpens, StreamOpenFails, OpenStreamOk, OpenStreamError
  <2>2. FreeSlot.phase = "free" /\ Attached(stream[s]).phase = "up"
    BY DEF FreeSlot, Attached, RawStream
  <2>3. QED
    BY <2>1, <2>2
<1>3. ASSUME NEW s \in Stream, JobPushed(s) \/ StreamLost(s)
      PROVE  \A t \in Stream : FirstOpen(t)' => FirstOpen(t)
  BY <1>3 DEF JobPushed, StreamData, StreamLost, StreamDrops, RawStream
<1>4. ASSUME NEW s \in Stream, NEW e \in RawEvents, NEW longUp \in BOOLEAN,
             StreamReports(s, e, longUp)
      PROVE  \A t \in Stream : FirstOpen(t)' => FirstOpen(t)
  <2>1. stream[s] \in RawStream /\ stream[s].phase = "down"
    BY <1>4 DEF StreamReports, StreamEvent
  <2>2. AfterEvent(stream[s], e).phase \in {"free", "down"}
    BY <2>1 DEF AfterEvent, FreeSlot, RawStream
  <2>3. stream' = [stream EXCEPT ![s] = AfterEvent(stream[s], e)]
    BY <1>4 DEF StreamReports, StreamEvent
  <2>4. QED
    BY <2>2, <2>3
<1>5. ASSUME NEW s \in Stream, NEW callbackCloses \in BOOLEAN,
             ReconnectDue(s, callbackCloses)
      PROVE  \A t \in Stream : FirstOpen(t)' => FirstOpen(t)
  <2>1. stream' = [stream EXCEPT ![s] = OpeningSlot("reconnect")]
    BY <1>5 DEF ReconnectDue, ReconnectFires, StartOpen
  <2>2. OpeningSlot("reconnect").by = "reconnect"
    BY DEF OpeningSlot, FreeSlot
  <2>3. QED
    BY <2>1, <2>2
<1>6. ASSUME NEW S \in SUBSET Stream, stream' = DisposeAll(S)
      PROVE  \A t \in Stream : FirstOpen(t)' => FirstOpen(t)
  <2>1. \A t \in Stream : stream'[t] = stream[t] \/ stream'[t] = Disposed(stream[t])
    BY <1>6 DEF DisposeAll
  <2>2. \A t \in Stream : Disposed(stream[t]).phase = "opening" =>
                            Disposed(stream[t]) = stream[t]
    BY DEF Disposed, RawStream
  <2>3. QED
    BY <2>1, <2>2
<1>7. CASE CloseHandle
  <2>1. stream' = DisposeAll({current})
    BY <1>7 DEF CloseHandle, HandleCloses
  <2>2. DisposeAll({current}) = DisposeAll({current} \cap Stream)
    BY DEF DisposeAll
  <2>3. QED
    BY <2>1, <2>2, <1>6
<1>8. CASE CloseWorker
  BY <1>8, <1>6 DEF CloseWorker, WorkerCloses, connVars
<1>9. CASE UNCHANGED stream
  BY <1>9
<1>10. QED
  BY <1>1, <1>2, <1>3, <1>4, <1>5, <1>7, <1>8, <1>9
  DEF Next, vars, connVars, CallStreamJobs, JobQueued, JobsActivated,
      ActivationRejected, BatchHandled, SidecarDue
LEMMA FirstOpenStep ==
  ASSUME TypeOK, ConnInv, FirstOpenAwaited, [Next]_vars
  PROVE  FirstOpenAwaited'
<1> SUFFICES ASSUME NEW s \in Stream, FirstOpen(s)', pc' # "opening"
             PROVE  FALSE
  BY DEF FirstOpenAwaited
<1>1. FirstOpen(s) /\ pc = "opening"
  BY FirstOpenOnce DEF FirstOpenAwaited, TypeOK
<1>2. \A p \in Poller : ~Busy(p)
  BY <1>1 DEF ConnInv, StartedInOrder
<1>3. PICK t \in Stream : StreamOpens(t) \/ StreamOpenFails(t)
  BY <1>1, <1>2
  DEF Next, vars, callVars, CallStreamJobs, JitterElapses, JobPushed,
      StreamLost, StreamReports, ReconnectDue, JobQueued, JobsActivated,
      ActivationReturns, ActivationRejected, FirstActivationFails,
      NextActivationFails, Awaiting, Busy, BatchHandled, SidecarDue,
      CloseHandle, HandleHeld, CloseWorker
<1>4. stream[t].phase = "opening" /\ stream'[t].phase # "opening"
  BY <1>3
  DEF TypeOK, ConnTypeOK, StreamOpens, StreamOpenFails, OpenStreamOk,
      OpenStreamError, FreeSlot, Attached, RawStream
<1>5. s = t
  BY <1>1, <1>4 DEF FirstOpen, ConnInv, AtMostOneStream, Underway
<1>6. QED
  BY <1>4, <1>5 DEF FirstOpen

LEMMA TurnsKept ==
  ASSUME SidecarTurns, UNCHANGED <<poller, sidecarTimer>>, IsClosed => IsClosed',
         \/ UNCHANGED pc
         \/ /\ pc \in {"idle", "jitter", "opening"}
            /\ \A p \in Poller : ~Busy(p)
            /\ pc' = "returned" => IsClosed \/ ~PollEnabled
  PROVE  SidecarTurns'
<1>1. OnSidecar' <=> OnSidecar
  BY DEF OnSidecar, Busy
<1>2. \A p \in Poller : FirstPoll(p)' <=> FirstPoll(p)
  BY DEF FirstPoll
<1>3. \A p \in Poller : FirstPoll(p) => Busy(p)
  BY DEF FirstPoll, Busy
<1>4. QED
  BY <1>1, <1>2, <1>3 DEF SidecarTurns, HandleHeld

LEMMA TurnsOpens ==
  ASSUME TypeOK, ConnInv, DrainInv, SidecarInv, NEW s \in Stream, StreamOpens(s)
  PROVE  SidecarTurns'
<1>1. /\ UNCHANGED <<closed, handleClosed, sidecarTimer>>
      /\ Backfill(stream[s].by)
      /\ stream[s].phase = "opening"
  BY DEF StreamOpens, OpenStreamOk
<1>2. stream[s].by \in {"main", "reconnect"}
  BY DEF TypeOK, ConnTypeOK, RawStream, Openers
<1>3. stream[s].by = "reconnect" => UNCHANGED pc
  BY DEF StreamOpens
<1>4. stream[s].by = "main" =>
        /\ pc = "opening"
        /\ pc' \in {"backfilling", "returned"}
        /\ pc' = "returned" => IsClosed
        /\ \A p \in Poller : ~Busy(p)
  BY <1>1
  DEF StreamOpens, SidecarInv, FirstOpenAwaited, FirstOpen, ConnInv,
      StartedInOrder
<1>5. CASE UNCHANGED poller
  <2>1. IsClosed => IsClosed'
    BY <1>1 DEF IsClosed
  <2>2. CASE stream[s].by = "reconnect"
    BY <1>1, <1>3, <1>5, <2>1, <2>2, TurnsKept DEF SidecarInv
  <2>3. CASE stream[s].by = "main"
    BY <1>1, <1>4, <1>5, <2>1, <2>3, TurnsKept DEF SidecarInv
  <2>4. QED
    BY <1>2, <2>2, <2>3
<1>6. CASE ~IsClosed /\ ~reserved /\ Activate(poller, stream[s].by)
  <2>1. \A p \in Poller : poller[p].phase = "idle"
    BY <1>6 DEF DrainInv, ReservationHeld, Busy
  <2>2. /\ ~OnSidecar'
        /\ \A p \in Poller : FirstPoll(p)' => stream[s].by = "main"
    BY <1>2, <1>6, <2>1, ActivateMoves DEF TypeOK, DrainTypeOK
  <2>3. ~OnSidecar
    BY <2>1 DEF OnSidecar, Busy
  <2>4. CASE stream[s].by = "reconnect"
    BY <1>1, <1>3, <2>2, <2>3, <2>4
    DEF SidecarInv, SidecarTurns, HandleHeld, IsClosed
  <2>5. CASE stream[s].by = "main"
    BY <1>1, <1>4, <1>6, <2>2, <2>3, <2>5
    DEF SidecarInv, SidecarTurns, HandleHeld
  <2>6. QED
    BY <1>2, <2>4, <2>5
<1>7. QED
  BY <1>1, <1>5, <1>6 DEF Backfill

LEMMA TurnsOpenFails ==
  ASSUME TypeOK, ConnInv, SidecarInv, NEW s \in Stream, StreamOpenFails(s)
  PROVE  SidecarTurns'
<1>1. /\ UNCHANGED <<closed, handleClosed, poller>>
      /\ stream[s].phase = "opening"
  BY DEF StreamOpenFails, OpenStreamError
<1>2. IsClosed => IsClosed'
  BY <1>1 DEF IsClosed
<1>3. CASE stream[s].by # "main"
  BY <1>1, <1>2, <1>3, TurnsKept DEF StreamOpenFails, SidecarInv
<1>4. CASE stream[s].by = "main"
  <2>1. pc = "opening" /\ \A p \in Poller : ~Busy(p)
    BY <1>1, <1>4
    DEF SidecarInv, FirstOpenAwaited, FirstOpen, ConnInv, StartedInOrder
  <2>2. /\ ~OnSidecar'
        /\ \A p \in Poller : ~FirstPoll(p)'
    BY <1>1, <2>1 DEF OnSidecar, FirstPoll, Busy
  <2>3. CASE ~IsClosed /\ ReconnectEnabled
    BY <1>1, <1>4, <2>2, <2>3
    DEF StreamOpenFails, StartSidecar, SchedulePoll, SidecarTurns, HandleHeld,
        IsClosed
  <2>4. CASE IsClosed \/ ~ReconnectEnabled
    <3>1. /\ UNCHANGED sidecarTimer
          /\ pc' = "returned" => IsClosed
      BY <1>4, <2>4 DEF StreamOpenFails
    <3>2. QED
      BY <1>1, <1>2, <2>1, <3>1, TurnsKept DEF SidecarInv
  <2>5. QED
    BY <2>3, <2>4
<1>5. QED
  BY <1>3, <1>4

LEMMA TurnsActivated ==
  ASSUME TypeOK, DrainInv, SidecarInv, NEW p \in Poller, JobsActivated(p)
  PROVE  SidecarTurns'
<1> DEFINE c == Handling(poller[p], backlog >= BatchSize)
<1>1. /\ UNCHANGED <<closed, handleClosed>>
      /\ Busy(p)
      /\ poller' = [poller EXCEPT ![p] = c]
  BY DEF JobsActivated, ActivationReturns, Awaiting, Busy, TypeOK, DrainTypeOK
<1>2. c.phase = "handling" /\ c.origin = poller[p].origin
  BY DEF Handling, TypeOK, DrainTypeOK, Chain
<1> HIDE DEF c
<1>3. /\ OnSidecar' <=> poller[p].origin = "sidecar"
      /\ \A q \in Poller : ~FirstPoll(q)'
  BY <1>1, <1>2, ChainMoves DEF DrainInv, TypeOK
<1>4. OnSidecar <=> poller[p].origin = "sidecar"
  BY <1>1, OnlyChain DEF DrainInv
<1>5. CASE FirstPoll(p)
  <2>1. pc' = "returned" /\ StartSidecar
    BY <1>5 DEF JobsActivated, ActivationReturns, FirstPoll
  <2>2. ~OnSidecar'
    BY <1>3, <1>5 DEF FirstPoll
  <2>3. QED
    BY <1>1, <1>3, <2>1, <2>2
    DEF StartSidecar, SchedulePoll, SidecarTurns, IsClosed
<1>6. CASE ~FirstPoll(p)
  <2>1. UNCHANGED <<pc, sidecarTimer>>
    BY <1>6 DEF JobsActivated, ActivationReturns, FirstPoll
  <2>2. QED
    BY <1>1, <1>3, <1>4, <2>1 DEF SidecarInv, SidecarTurns, HandleHeld, IsClosed
<1>7. QED
  BY <1>5, <1>6

LEMMA TurnsRejected ==
  ASSUME TypeOK, DrainInv, SidecarInv, NEW p \in Poller,
         ActivationRejected(p) \/ BatchHandled(p)
  PROVE  SidecarTurns'
<1>1. UNCHANGED <<closed, handleClosed>> /\ Busy(p)
  BY DEF ActivationRejected, FirstActivationFails, NextActivationFails,
     BatchHandled, HandlersSettle, callVars, Busy
<1>2. OnSidecar <=> poller[p].origin = "sidecar"
  BY <1>1, OnlyChain DEF DrainInv
<1>3. CASE ActivationRejected(p) /\ FirstActivationFails(p)
  <2>1. /\ ~OnSidecar'
        /\ \A q \in Poller : ~FirstPoll(q)'
    <3>1. poller' = [poller EXCEPT ![p] = IdleChain] /\ IdleChain.phase = "idle"
      BY <1>3 DEF FirstActivationFails, IdleChain
    <3>2. QED
      BY <1>1, <3>1, ChainMoves DEF DrainInv, TypeOK
  <2>2. UNCHANGED pc \/ pc' = "rejected"
    BY <1>3 DEF FirstActivationFails
  <2>3. /\ OnSidecar /\ ~IsClosed => sidecarTimer'
        /\ ~OnSidecar => UNCHANGED sidecarTimer
        /\ OnSidecar /\ IsClosed => UNCHANGED sidecarTimer
    BY <1>2, <1>3 DEF FirstActivationFails, SchedulePoll
  <2>4. QED
    BY <1>1, <2>1, <2>2, <2>3 DEF SidecarInv, SidecarTurns, HandleHeld, IsClosed
<1>4. ASSUME UNCHANGED pc, NEW pending, FinishDrain(p, pending)
      PROVE  SidecarTurns'
  <2>1. /\ ~OnSidecar'
        /\ \A q \in Poller : ~FirstPoll(q)'
        /\ OnSidecar /\ ~IsClosed => sidecarTimer'
        /\ ~OnSidecar => UNCHANGED sidecarTimer
    BY <1>1, <1>4, FinishMoves DEF DrainInv, TypeOK
  <2>2. QED
    BY <1>1, <1>4, <2>1 DEF SidecarInv, SidecarTurns, HandleHeld, IsClosed
<1>5. ASSUME NEW b \in BOOLEAN, UNCHANGED <<pc, sidecarTimer>>,
             poller' = [poller EXCEPT ![p] = Reactivating(poller[p], b)]
      PROVE  SidecarTurns'
  <2>1. /\ Reactivating(poller[p], b).phase = "reactivating"
        /\ Reactivating(poller[p], b).origin = poller[p].origin
    BY DEF Reactivating, TypeOK, DrainTypeOK, Chain
  <2>2. /\ OnSidecar' <=> OnSidecar
        /\ \A q \in Poller : ~FirstPoll(q)'
    BY <1>1, <1>2, <1>5, <2>1, ChainMoves DEF DrainInv, TypeOK
  <2>3. QED
    BY <1>1, <1>5, <2>2 DEF SidecarInv, SidecarTurns, HandleHeld, IsClosed
<1>6. CASE ActivationRejected(p) /\ NextActivationFails(p)
  BY <1>4, <1>6 DEF NextActivationFails
<1>7. CASE BatchHandled(p)
  BY <1>4, <1>5, <1>7 DEF BatchHandled, HandlersSettle, callVars
<1>8. QED
  BY <1>3, <1>6, <1>7 DEF ActivationRejected

LEMMA TurnsDue ==
  ASSUME TypeOK, ConnInv, DrainInv, SidecarInv, SidecarDue
  PROVE  SidecarTurns'
<1>1. UNCHANGED <<pc, closed, handleClosed>> /\ sidecarTimer
  BY DEF SidecarDue, SidecarFires, callVars
<1>2. ~IsClosed
  BY <1>1 DEF ConnInv, ClosedQuiet
<1>3. CASE reserved
  <2>1. sidecarTimer' /\ UNCHANGED poller
    BY <1>2, <1>3 DEF SidecarDue, SidecarFires
  <2>2. /\ OnSidecar' <=> OnSidecar
        /\ \A p \in Poller : FirstPoll(p)' <=> FirstPoll(p)
    BY <2>1 DEF OnSidecar, FirstPoll, Busy
  <2>3. QED
    BY <1>1, <2>1, <2>2 DEF SidecarInv, SidecarTurns, HandleHeld, IsClosed
<1>4. CASE ~reserved
  <2>1. ~sidecarTimer' /\ Activate(poller, "sidecar")
    BY <1>2, <1>4 DEF SidecarDue, SidecarFires
  <2>2. \A p \in Poller : poller[p].phase = "idle"
    BY <1>4 DEF DrainInv, ReservationHeld, Busy
  <2>3. OnSidecar' /\ \A p \in Poller : ~FirstPoll(p)'
    BY <2>1, <2>2, ActivateMoves DEF TypeOK, DrainTypeOK
  <2>4. QED
    BY <1>1, <2>1, <2>3 DEF SidecarInv, SidecarTurns, HandleHeld
<1>5. QED
  BY <1>3, <1>4

LEMMA TurnsClosed ==
  ASSUME SidecarInv, UNCHANGED <<pc, poller>>, IsClosed', sidecarTimer' => sidecarTimer
  PROVE  SidecarTurns'
<1>1. OnSidecar' <=> OnSidecar
  BY DEF OnSidecar, Busy
<1>2. \A p \in Poller : FirstPoll(p)' <=> FirstPoll(p)
  BY DEF FirstPoll
<1>3. QED
  BY <1>1, <1>2 DEF SidecarInv, SidecarTurns

LEMMA SidecarInvStep ==
  ASSUME TypeOK, ConnInv, DrainInv, SidecarInv, [Next]_vars
  PROVE  SidecarInv'
<1>1. FirstOpenAwaited'
  BY FirstOpenStep DEF SidecarInv
<1>2. SidecarTurns
  BY DEF SidecarInv
<1>3. pc \in {"idle", "jitter", "opening"} => \A p \in Poller : ~Busy(p)
  BY DEF ConnInv, StartedInOrder
<1>4. ASSUME CallStreamJobs PROVE SidecarTurns'
  BY <1>2, <1>3, <1>4, TurnsKept DEF CallStreamJobs, drainVars, IsClosed
<1>5. ASSUME NEW s \in Stream, JitterElapses(s) PROVE SidecarTurns'
  BY <1>2, <1>3, <1>5, TurnsKept DEF JitterElapses, drainVars, IsClosed
<1>6. ASSUME NEW s \in Stream, StreamOpens(s) \/ StreamOpenFails(s)
      PROVE  SidecarTurns'
  BY <1>6, TurnsOpens, TurnsOpenFails
<1>7. ASSUME UNCHANGED <<callVars, drainVars>> PROVE SidecarTurns'
  BY <1>2, <1>7, TurnsKept DEF callVars, drainVars, IsClosed
<1>8. ASSUME NEW s \in Stream, NEW callbackCloses \in BOOLEAN,
             ReconnectDue(s, callbackCloses)
      PROVE  SidecarTurns'
  <2>1. CASE callbackCloses
    BY <1>8, <2>1, TurnsClosed DEF ReconnectDue, CloseSidecar, IsClosed
  <2>2. CASE ~callbackCloses
    BY <1>2, <1>8, <2>2, TurnsKept DEF ReconnectDue, drainVars, IsClosed
  <2>3. QED
    BY <2>1, <2>2
<1>9. ASSUME NEW p \in Poller,
             JobsActivated(p) \/ ActivationRejected(p) \/ BatchHandled(p)
      PROVE  SidecarTurns'
  BY <1>9, TurnsActivated, TurnsRejected
<1>10. ASSUME SidecarDue PROVE SidecarTurns'
  BY <1>10, TurnsDue
<1>11. ASSUME CloseHandle PROVE SidecarTurns'
  BY <1>11, TurnsClosed DEF CloseHandle, CloseSidecar, IsClosed
<1>12. ASSUME CloseWorker PROVE SidecarTurns'
  BY <1>12, TurnsClosed DEF CloseWorker, CloseAllSidecars, drainVars, IsClosed
<1>13. SidecarTurns'
  BY <1>4, <1>5, <1>6, <1>7, <1>8, <1>9, <1>10, <1>11, <1>12
  DEF Next, vars, JobPushed, StreamLost, StreamReports, JobQueued
<1>14. QED
  BY <1>1, <1>13 DEF SidecarInv

(* While a handle is held and not closed, either the sidecar timer is armed or
   the poll that will arm it again is in flight, and never both: no failed poll,
   failed open or deferred backfill breaks the chain or doubles it. *)
THEOREM SidecarStaysAlive == Spec => []SidecarAlive
<1>1. Init => SidecarInv
  BY DEF Init, CallInit, ConnInit, DrainInit, SidecarInv, FirstOpenAwaited,
     FirstOpen, FreeSlot, SidecarTurns, OnSidecar, FirstPoll, Busy, IdleChain,
     HandleHeld
<1>2. TypeOK /\ SidecarInv => SidecarAlive
  <2> SUFFICES ASSUME TypeOK, SidecarInv, PollEnabled, HandleHeld, ~IsClosed
               PROVE  sidecarTimer # OnSidecar
    BY Zenon DEF SidecarAlive, OnSidecar
  <2>1. sidecarTimer \in BOOLEAN
    BY DEF TypeOK, DrainTypeOK
  <2>2. (sidecarTimer => ~OnSidecar) /\ (~sidecarTimer => OnSidecar)
    BY DEF SidecarInv, SidecarTurns
  <2>3. CASE sidecarTimer
    BY <2>2, <2>3, Zenon DEF OnSidecar
  <2>4. CASE ~sidecarTimer
    BY <2>2, <2>4, Zenon DEF OnSidecar
  <2>5. QED
    BY <2>3, <2>4
<1>3. QED
  BY <1>1, <1>2, SidecarInvStep, TypeCorrect, ConnInvariant, DrainInvariant, PTL
  DEF Spec

-------------------------------------------------------------------------------
(* The handle *)

NotYetOpened == pc \in {"idle", "jitter", "opening"}

(* How the handle's state follows the streams.  HandleTruthful strengthened by
   what holds before the first open has settled. *)
StateInv ==
  /\ machine.status = "reconnecting" =>
       /\ ReconnectEnabled
       /\ machine.attempt = failures /\ failures > 0
       /\ reconnectTimer \/ \E s \in Stream : stream[s].phase = "opening"
  /\ machine.status = "open" =>
       /\ machine.attempt = 0
       /\ ~NotYetOpened => current \in streams
  /\ machine.status = "closed" =>
       IsClosed \/ (~ReconnectEnabled /\ \A s \in Stream : ~Underway(s))
  /\ machine.status # "closed" => machine.reason = "none"
  /\ NotYetOpened /\ ~IsClosed => machine.status = "open"
  /\ IsClosed /\ pc # "idle" => machine.status = "closed"
  /\ handleClosed => pc # "idle"
  /\ reconnectTimer => ReconnectEnabled

(* What the transitions of the state machine lead to. *)
LEMMA TransitionsTo ==
  ASSUME ConnTypeOK
  PROVE  /\ \A why : Transition(ClosedState(why)).status = "closed"
         /\ machine.status = "closed" => \A next : Transition(next) = machine
         /\ machine.status # "closed" => \A next : Transition(next) = next
BY DEF Transition, ClosedState

(* A dead stream or a failed open, noticed while the call is open: nothing was
   armed, so the failure is recorded for good or one re-open is scheduled. *)
LEMMA StreamDownRecords ==
  ASSUME ConnTypeOK, NEW f \in Nat, OnStreamDown(f), ~IsClosed,
         ~reconnectTimer, machine.status # "closed"
  PROVE  \/ /\ ~ReconnectEnabled /\ ~reconnectTimer'
            /\ machine' = ClosedState("stream-failed")
         \/ /\ ReconnectEnabled /\ reconnectTimer'
            /\ machine' = ReconnectingState(f + 1)
            /\ failures' = f + 1
BY TransitionsTo DEF OnStreamDown, ScheduleReconnect

(* A step after which one noticed failure is recorded. *)
LEMMA FailureRecorded ==
  ASSUME ConnTypeOK, NEW f \in Nat, OnStreamDown(f), ~IsClosed, ~IsClosed',
         ~reconnectTimer, machine.status # "closed",
         \A s \in Stream : ~Underway(s)', pc' \notin {"idle", "jitter", "opening"}
  PROVE  StateInv'
<1>1. CASE ~ReconnectEnabled
  <2>1. machine' = ClosedState("stream-failed") /\ ~reconnectTimer'
    BY <1>1, StreamDownRecords
  <2>2. machine'.status = "closed"
    BY <2>1 DEF ClosedState
  <2>3. QED
    BY <1>1, <2>1, <2>2 DEF StateInv, NotYetOpened, IsClosed
<1>2. CASE ReconnectEnabled
  <2>1. /\ reconnectTimer'
        /\ machine' = ReconnectingState(f + 1)
        /\ failures' = f + 1
    BY <1>2, StreamDownRecords
  <2>2. /\ machine'.status = "reconnecting"
        /\ machine'.attempt = f + 1
        /\ machine'.reason = "none"
    BY <2>1 DEF ReconnectingState
  <2>3. QED
    BY <1>2, <2>1, <2>2 DEF StateInv, NotYetOpened, IsClosed
<1>3. QED
  BY <1>1, <1>2 DEF ConnTypeOK

(* A stream underway and the call open: the handle's state is not final. *)
LEMMA UnderwayNotFinal ==
  ASSUME StateInv, ~IsClosed, NEW s \in Stream, Underway(s)
  PROVE  machine.status # "closed"
BY DEF StateInv

(* A live attachment: the handle is not reconnecting. *)
LEMMA AttachedNotReconnecting ==
  ASSUME ConnInv, StateInv, NEW s \in Stream, LiveAttachment(s)
  PROVE  machine.status # "reconnecting"
<1>1. Underway(s) /\ stream[s].phase # "opening"
  BY DEF LiveAttachment, Underway
<1>2. ~reconnectTimer /\ \A t \in Stream : stream[t].phase # "opening"
  BY <1>1 DEF ConnInv, AtMostOneStream, Underway
<1>3. QED
  BY <1>2 DEF StateInv

(* Steps that leave machine, failures, timer and streams as they are. *)
LEMMA StateKept ==
  ASSUME StateInv, UNCHANGED <<machine, failures, reconnectTimer, current, streams>>,
         UNCHANGED <<closed, handleClosed>>, NotYetOpened' => NotYetOpened,
         ~NotYetOpened' /\ NotYetOpened => machine.status # "open",
         pc' = pc \/ (pc # "idle" /\ pc' # "idle"),
         \A s \in Stream : Underway(s)' => Underway(s),
         (\E s \in Stream : stream[s].phase = "opening") =>
           \E s \in Stream : stream'[s].phase = "opening"
  PROVE  StateInv'
BY DEF StateInv, IsClosed

LEMMA StateInvPolling ==
  ASSUME TypeOK, ConnInv, StateInv, NEW p \in Poller,
         JobsActivated(p) \/ ActivationRejected(p) \/ BatchHandled(p)
  PROVE  StateInv'
<1>1. Busy(p)
  BY DEF JobsActivated, ActivationReturns, Awaiting, ActivationRejected,
     FirstActivationFails, NextActivationFails, BatchHandled, HandlersSettle,
     Busy
<1>2. ~NotYetOpened
  BY <1>1 DEF ConnInv, StartedInOrder, NotYetOpened
<1>3. UNCHANGED <<closed, handleClosed, connVars>>
  BY DEF JobsActivated, ActivationRejected, BatchHandled, callVars
<1>4. ~NotYetOpened'
  BY <1>2 DEF JobsActivated, ActivationReturns, ActivationRejected,
     FirstActivationFails, NextActivationFails, BatchHandled, callVars,
     NotYetOpened
<1>5. UNCHANGED <<machine, failures, reconnectTimer, current, streams, stream>>
  BY <1>3 DEF connVars
<1>6. pc # "idle" /\ pc' # "idle"
  BY <1>2, <1>4 DEF NotYetOpened
<1>7. QED
  BY <1>2, <1>3, <1>4, <1>5, <1>6, SameStreams, StateKept

LEMMA StateInvIdle ==
  ASSUME TypeOK, ConnInv, StateInv,
         CallStreamJobs \/ JobQueued \/ SidecarDue \/ UNCHANGED vars
  PROVE  StateInv'
<1>1. UNCHANGED <<closed, handleClosed, failures, reconnectTimer, current,
                  streams, stream>>
  BY DEF CallStreamJobs, JobQueued, SidecarDue, vars, callVars, connVars
<1>2. CASE UNCHANGED <<pc, machine>>
  BY <1>1, <1>2, SameStreams, StateKept DEF NotYetOpened
<1>3. CASE CallStreamJobs
  <2>1. CASE closed
    <3>1. IsClosed' /\ ~NotYetOpened' /\ pc' # "idle"
      BY <1>1, <1>3, <2>1 DEF IsClosed, CallStreamJobs, NotYetOpened
    <3>2. machine'.status = "closed"
      BY <1>3, <2>1, TransitionsTo DEF CallStreamJobs, TypeOK
    <3>3. UNCHANGED reconnectTimer
      BY <1>1
    <3>4. QED
      BY <3>1, <3>2, <3>3 DEF StateInv
  <2>2. CASE ~closed
    <3>1. pc' = "jitter" /\ pc = "idle" /\ machine' = machine
      BY <1>3, <2>2 DEF CallStreamJobs
    <3>2. ~IsClosed /\ ~IsClosed'
      BY <1>1, <2>2, <3>1 DEF StateInv, IsClosed
    <3>3. machine.status = "open"
      BY <3>1, <3>2 DEF StateInv, NotYetOpened
    <3>4. QED
      BY <1>1, <3>1, <3>2, <3>3 DEF StateInv, NotYetOpened
  <2>3. QED
    BY <2>1, <2>2
<1>4. QED
  BY <1>2, <1>3 DEF JobQueued, SidecarDue, vars, callVars, connVars

-------------------------------------------------------------------------------
LEMMA StateInvOpening ==
  ASSUME TypeOK, ConnInv, StateInv, NEW s \in Stream,
         JitterElapses(s) \/ ReconnectDue(s, FALSE)
  PROVE  StateInv'
<1>1. stream'[s].phase = "opening"
  BY DEF JitterElapses, ReconnectDue, ReconnectFires, StartOpen, OpeningSlot,
     FreeSlot, TypeOK, ConnTypeOK
<1>2. UNCHANGED <<closed, handleClosed, machine, failures, current, streams>>
  BY DEF JitterElapses, ReconnectDue, ReconnectFires
<1>3. IsClosed' <=> IsClosed
  BY <1>2 DEF IsClosed
<1>4. CASE JitterElapses(s)
  <2>1. pc = "jitter" /\ pc' = "opening"
    BY <1>4 DEF JitterElapses
  <2>2. machine.status = "open" \/ (machine.status = "closed" /\ IsClosed)
    BY <2>1 DEF StateInv, NotYetOpened
  <2>3. UNCHANGED reconnectTimer
    BY <1>4 DEF JitterElapses
  <2>4. QED
    BY <1>2, <1>3, <2>1, <2>2, <2>3 DEF StateInv, NotYetOpened
<1>5. CASE ReconnectDue(s, FALSE)
  <2>1. UNCHANGED pc /\ reconnectTimer /\ ~IsClosed
    BY <1>5 DEF ReconnectDue, ReconnectFires
  <2>2. machine.status # "closed"
    BY <2>1 DEF StateInv
  <2>3. ~reconnectTimer'
    BY <1>5 DEF ReconnectDue, ReconnectFires
  <2>4. QED
    BY <1>1, <1>2, <1>3, <2>1, <2>2, <2>3 DEF StateInv, NotYetOpened
<1>6. QED
  BY <1>4, <1>5

LEMMA StateInvOpens ==
  ASSUME TypeOK, ConnInv, ConnInv', StateInv, NEW s \in Stream, StreamOpens(s)
  PROVE  StateInv'
<1>a. ConnTypeOK
  BY DEF TypeOK
<1>b. Underway(s) /\ UNCHANGED <<closed, handleClosed, reconnectTimer, failures>>
  BY DEF StreamOpens, OpenStreamOk, Underway
<1>c. pc # "idle" /\ pc' # "idle"
  BY <1>b DEF ConnInv, StartedInOrder, StreamOpens
<1>d. ~reconnectTimer
  BY <1>b DEF ConnInv, AtMostOneStream
<1>1. CASE IsClosed
  <2>1. machine.status = "closed" /\ UNCHANGED machine
    BY <1>1, <1>c DEF StateInv, StreamOpens, OpenStreamOk
  <2>2. IsClosed'
    BY <1>1, <1>b DEF IsClosed
  <2>3. QED
    BY <2>1, <2>2, <1>b, <1>c, <1>d DEF StateInv
<1>2. CASE ~IsClosed
  <2>1. machine.status # "closed"
    BY <1>2, <1>b, UnderwayNotFinal
  <2>2. machine' = OpenState /\ current' = s /\ s \in streams'
    BY <1>2, <1>a, <2>1, TransitionsTo DEF StreamOpens, OpenStreamOk
  <2>3. ~IsClosed'
    BY <1>2, <1>b DEF IsClosed
  <2>4. QED
    BY <2>2, <2>3, <1>b, <1>c, <1>d DEF StateInv, OpenState, IsClosed
<1>3. QED
  BY <1>1, <1>2

LEMMA StateInvOpenFails ==
  ASSUME TypeOK, ConnInv, ConnInv', StateInv, NEW s \in Stream,
         StreamOpenFails(s)
  PROVE  StateInv'
<1>a. ConnTypeOK
  BY DEF TypeOK
<1>b. /\ Underway(s) /\ stream[s].phase = "opening"
      /\ UNCHANGED <<closed, handleClosed>>
  BY DEF StreamOpenFails, OpenStreamError, Underway
<1>c. pc # "idle" /\ pc' # "idle"
  BY <1>b DEF ConnInv, StartedInOrder, StreamOpenFails
<1>d. ~reconnectTimer
  BY <1>b DEF ConnInv, AtMostOneStream
<1>1. CASE IsClosed
  <2>1. machine.status = "closed" /\ UNCHANGED <<machine, reconnectTimer>>
    BY <1>1, <1>c DEF StateInv, StreamOpenFails, OpenStreamError
  <2>2. IsClosed'
    BY <1>1, <1>b DEF IsClosed
  <2>3. QED
    BY <2>1, <2>2, <1>b, <1>c, <1>d DEF StateInv
<1>2. CASE ~IsClosed
  <2>1. machine.status # "closed" /\ ~IsClosed'
    BY <1>2, <1>b, UnderwayNotFinal DEF IsClosed
  <2>2. OnStreamDown(failures) /\ failures \in Nat
    BY <1>2, <1>a DEF StreamOpenFails, OpenStreamError, ConnTypeOK
  <2>3. \A t \in Stream : ~Underway(t)'
    <3>1. stream' = [stream EXCEPT ![s] = FreeSlot]
      BY DEF StreamOpenFails, OpenStreamError
    <3>2. stream'[s] = FreeSlot /\ \A t \in Stream \ {s} : ~Underway(t)'
      BY <3>1, <1>a, <1>b, OtherSlots DEF ConnInv, AtMostOneStream
    <3>3. ~Underway(s)'
      BY <3>2 DEF Underway, FreeSlot
    <3>4. QED
      BY <3>2, <3>3
  <2>4. pc' \notin {"idle", "jitter", "opening"}
    <3>1. CASE stream[s].by = "main"
      BY <3>1 DEF StreamOpenFails
    <3>2. CASE stream[s].by = "reconnect"
      BY <3>2, <1>b DEF StreamOpenFails, ConnInv, StartedInOrder
    <3>3. QED
      BY <3>1, <3>2, <1>a DEF ConnTypeOK, RawStream, Openers
  <2>5. QED
    BY <1>2, <1>a, <1>d, <2>1, <2>2, <2>3, <2>4, FailureRecorded
<1>3. QED
  BY <1>1, <1>2

LEMMA StateInvUp ==
  ASSUME TypeOK, ConnInv, ConnInv', StateInv, NEW s \in Stream,
         JobPushed(s) \/ StreamLost(s)
  PROVE  StateInv'
<1>1. LiveAttachment(s) /\ Underway(s)
  BY DEF JobPushed, StreamData, StreamLost, StreamDrops, LiveAttachment,
     Underway
<1>2. machine.status # "reconnecting"
  BY <1>1, AttachedNotReconnecting
<1>3. machine.status = "closed" => IsClosed
  BY <1>1, UnderwayNotFinal
<1>4. UNCHANGED <<pc, closed, handleClosed, machine, reconnectTimer, current,
                  streams>>
  BY DEF JobPushed, StreamData, StreamLost, StreamDrops, callVars
<1>5. QED
  BY <1>2, <1>3, <1>4 DEF StateInv, NotYetOpened, IsClosed

LEMMA StateInvReports ==
  ASSUME TypeOK, ConnInv, ConnInv', StateInv, NEW s \in Stream,
         NEW e \in RawEvents, NEW longUp \in BOOLEAN,
         StreamReports(s, e, longUp)
  PROVE  StateInv'
<1>a. ConnTypeOK
  BY DEF TypeOK
<1>b. stream[s].phase = "down" /\ UNCHANGED <<pc, closed, handleClosed>>
  BY DEF StreamReports, StreamEvent, callVars
<1>1. stream' = [stream EXCEPT ![s] = AfterEvent(stream[s], e)]
  BY <1>a DEF StreamReports, StreamEvent, ConnTypeOK
<1>2. stream'[s] = AfterEvent(stream[s], e)
      /\ \A t \in Stream \ {s} : /\ Underway(t)' <=> Underway(t)
                                  /\ stream'[t] = stream[t]
  BY <1>a, <1>1, OtherSlots
<1>3. ~Underway(s)'
  <2>1. /\ AfterEvent(stream[s], e).phase \in {"free", "down"}
        /\ AfterEvent(stream[s], e).phase = "down" =>
             AfterEvent(stream[s], e).settled
    BY <1>a, <1>b DEF AfterEvent, FreeSlot, ConnTypeOK, RawStream
  <2>2. QED
    BY <1>2, <2>1 DEF Underway
<1>4. CASE stream[s].settled
  <2>1. UNCHANGED <<machine, failures, reconnectTimer, current, streams>>
    BY <1>4 DEF StreamReports, StreamEvent
  <2>2. ASSUME NEW t \in Stream, stream[t].phase = "opening"
        PROVE  \E u \in Stream : stream'[u].phase = "opening"
    <3>1. t # s
      BY <2>2, <1>b
    <3>2. stream'[t] = stream[t]
      BY <3>1, <1>1, <1>a DEF ConnTypeOK
    <3>3. QED
      BY <2>2, <3>2
  <2>3. \A t \in Stream : Underway(t)' => Underway(t)
    BY <1>2, <1>3
  <2>4. NotYetOpened' <=> NotYetOpened
    BY <1>b DEF NotYetOpened
  <2>5. QED
    BY <2>1, <2>2, <2>3, <2>4, <1>b, StateKept
<1>5. CASE ~stream[s].settled
  <2>1. Underway(s) /\ ~reconnectTimer
    BY <1>5, <1>b DEF Underway, ConnInv, AtMostOneStream
  <2>2. \A t \in Stream : ~Underway(t)'
    BY <1>2, <1>3, <2>1 DEF ConnInv, AtMostOneStream
  <2>3. pc \notin {"idle", "jitter", "opening"}
    BY <2>1, <1>b DEF ConnInv, StartedInOrder
  <2>4. PICK f \in Nat : OnStreamDown(f)
    BY <1>5, <1>a DEF StreamReports, StreamEvent, ConnTypeOK
  <2>5. CASE IsClosed
    <3>1. machine.status = "closed" /\ UNCHANGED <<machine, reconnectTimer>>
      BY <2>3, <2>4, <2>5 DEF StateInv, OnStreamDown
    <3>2. QED
      BY <3>1, <2>1, <2>3, <2>5, <1>b DEF StateInv, IsClosed
  <2>6. CASE ~IsClosed
    BY <2>1, <2>2, <2>3, <2>4, <2>6, <1>a, <1>b, UnderwayNotFinal,
       FailureRecorded DEF IsClosed
  <2>7. QED
    BY <2>5, <2>6
<1>6. QED
  BY <1>4, <1>5

LEMMA StateInvClose ==
  ASSUME TypeOK, ConnInv, ConnInv', StateInv,
         \/ CloseHandle \/ CloseWorker
         \/ \E s \in Stream : ReconnectDue(s, TRUE)
  PROVE  StateInv'
<1>a. IsClosed' /\ ~reconnectTimer'
  <2>1. IsClosed'
    BY DEF CloseHandle, CloseWorker, ReconnectDue, IsClosed
  <2>2. QED
    BY <2>1 DEF ConnInv, ClosedQuiet
<1>b. UNCHANGED pc /\ (handleClosed' => handleClosed \/ pc # "idle")
  BY DEF CloseHandle, CloseWorker, ReconnectDue, ReconnectFires, HandleHeld
<1>1. CASE pc = "idle"
  <2>1. CloseWorker /\ UNCHANGED <<handleClosed, machine, failures>>
    BY <1>1 DEF CloseHandle, CloseWorker, ReconnectDue, ReconnectFires,
       HandleHeld, connVars
  <2>2. machine.status # "reconnecting"
    BY <1>1 DEF StateInv, ConnInv, StartedInOrder, Underway
  <2>3. QED
    BY <1>1, <2>1, <2>2, <1>a, <1>b DEF StateInv, NotYetOpened
<1>2. CASE pc # "idle"
  <2>1. \E why : machine' = Transition(ClosedState(why))
    BY <1>2 DEF CloseHandle, HandleCloses, CloseWorker, WorkerCloses,
       ReconnectDue, ReconnectFires, CloseConnection
  <2>2. machine'.status = "closed"
    BY <2>1, TransitionsTo DEF TypeOK
  <2>3. QED
    BY <1>2, <2>2, <1>a, <1>b DEF StateInv, NotYetOpened
<1>3. QED
  BY <1>1, <1>2

LEMMA StateInvStep ==
  TypeOK /\ ConnInv /\ ConnInv' /\ StateInv /\ [Next]_vars => StateInv'
<1> SUFFICES ASSUME TypeOK, ConnInv, ConnInv', StateInv, [Next]_vars
             PROVE  StateInv'
  OBVIOUS
<1>1. CASE CallStreamJobs \/ JobQueued \/ SidecarDue \/ UNCHANGED vars
  BY <1>1, StateInvIdle
<1>2. ASSUME NEW s \in Stream, JitterElapses(s) \/ ReconnectDue(s, FALSE)
      PROVE StateInv'
  BY <1>2, StateInvOpening
<1>3. ASSUME NEW s \in Stream, StreamOpens(s) PROVE StateInv'
  BY <1>3, StateInvOpens
<1>4. ASSUME NEW s \in Stream, StreamOpenFails(s) PROVE StateInv'
  BY <1>4, StateInvOpenFails
<1>5. ASSUME NEW s \in Stream, JobPushed(s) \/ StreamLost(s) PROVE StateInv'
  BY <1>5, StateInvUp
<1>6. ASSUME NEW s \in Stream, NEW e \in RawEvents, NEW longUp \in BOOLEAN,
             StreamReports(s, e, longUp)
      PROVE StateInv'
  BY <1>6, StateInvReports
<1>7. ASSUME NEW p \in Poller,
             JobsActivated(p) \/ ActivationRejected(p) \/ BatchHandled(p)
      PROVE StateInv'
  BY <1>7, StateInvPolling
<1>8. CASE \/ CloseHandle \/ CloseWorker
           \/ \E s \in Stream : ReconnectDue(s, TRUE)
  BY <1>8, StateInvClose
<1>9. QED
  BY <1>1, <1>2, <1>3, <1>4, <1>5, <1>6, <1>7, <1>8 DEF Next

LEMMA StateInvariant == Spec => []StateInv
<1>1. Init => StateInv
  BY DEF Init, CallInit, ConnInit, OpenState, StateInv, NotYetOpened, IsClosed
<1>2. QED
  BY <1>1, StateInvStep, ConnInvariant, TypeCorrect, PTL DEF Spec

(* handle.state never claims a stream that is not attached, nor a re-open that
   nobody does; and it is closed exactly when it should be. *)
THEOREM StateIsTruthful == Spec => []HandleTruthful
<1>1. TypeOK /\ ConnInv /\ StateInv => HandleTruthful
  <2> SUFFICES ASSUME TypeOK, ConnInv, StateInv PROVE HandleTruthful
    OBVIOUS
  <2>1. ASSUME HandleHeld, machine.status = "open"
        PROVE  /\ current # NoStream
               /\ stream[current].phase \in {"up", "down"}
               /\ ~stream[current].settled
    <3>1. current \in streams
      BY <2>1 DEF StateInv, HandleHeld, NotYetOpened
    <3>2. current \in Stream /\ LiveAttachment(current)
      BY <3>1 DEF TypeOK, ConnTypeOK, ConnInv, AttachmentsKnown
    <3>3. QED
      BY <3>2, NoStreamAssumption
      DEF LiveAttachment, ConnInv, AttachmentsKnown
  <2>2. machine.status = "closed" => IsClosed \/ ~ReconnectEnabled
    BY DEF StateInv
  <2>3. QED
    BY <2>1, <2>2 DEF HandleTruthful, StateInv
<1>2. QED
  BY <1>1, StateInvariant, ConnInvariant, TypeCorrect, PTL

-------------------------------------------------------------------------------
(* Every step of the call maps to a step of StreamHandle or to a stutter. *)
LEMMA Stutters ==
  ASSUME UNCHANGED machine,
         \A s \in Stream : stream'[s].phase = "up" <=> stream[s].phase = "up"
  PROVE  UNCHANGED Handle!vars
<1>1. Pushing' = Pushing
  BY DEF Pushing
<1>2. QED
  BY <1>1 DEF Handle!vars

(* A failure noticed by an open call is reported, or gives up. *)
LEMMA FailureReported ==
  ASSUME ConnTypeOK, StateInv, NEW f \in Nat, OnStreamDown(f), ~IsClosed,
         ~reconnectTimer, machine.status # "closed",
         machine.status = "reconnecting" => f = failures,
         ~Pushing, ~Pushing'
  PROVE  Handle!Next
<1>0. Pushing' = Pushing
  BY DEF Pushing
<1>1. CASE ~ReconnectEnabled
  <2>1. machine' = ClosedState("stream-failed")
    BY <1>1, StreamDownRecords
  <2>2. /\ machine'.status = "closed"
        /\ machine'.reason = "stream-failed"
        /\ machine'.attempt = 0
    BY <2>1 DEF ClosedState
  <2>3. machine.status = "open" /\ machine.attempt = 0
    BY <1>1 DEF StateInv, ConnTypeOK, Statuses
  <2>4. Handle!GiveUp
    BY <1>0, <1>1, <2>2, <2>3 DEF Handle!GiveUp
  <2>5. QED
    BY <2>4 DEF Handle!Next
<1>2. CASE ReconnectEnabled
  <2>1. machine' = ReconnectingState(f + 1)
    BY <1>2, StreamDownRecords
  <2>2. /\ machine'.status = "reconnecting"
        /\ machine'.reason = "none"
        /\ machine'.attempt = f + 1
    BY <2>1 DEF ReconnectingState
  <2>3. machine.reason = "none"
    BY DEF StateInv
  <2>4. machine.status = "reconnecting" => machine'.attempt = machine.attempt + 1
    BY <2>2 DEF StateInv
  <2>5. machine'.attempt \in Nat \ {0}
    BY <2>2
  <2>6. Handle!Report
    BY <1>0, <1>2, <2>2, <2>3, <2>4, <2>5 DEF Handle!Report
  <2>7. QED
    BY <2>6 DEF Handle!Next
<1>3. QED
  BY <1>1, <1>2

LEMMA OpensMaps ==
  ASSUME TypeOK, ConnInv, StateInv, NEW s \in Stream, StreamOpens(s)
  PROVE  Handle!Next \/ UNCHANGED Handle!vars
<1>a. ConnTypeOK
  BY DEF TypeOK
<1>b. stream[s].phase = "opening" /\ Underway(s)
  BY DEF StreamOpens, OpenStreamOk, Underway
<1>1. CASE IsClosed
  <2>1. UNCHANGED machine /\ stream' = [stream EXCEPT ![s] = FreeSlot]
    BY <1>1 DEF StreamOpens, OpenStreamOk
  <2>2. QED
    BY <2>1, <1>a, <1>b, Stutters DEF FreeSlot, ConnTypeOK
<1>2. CASE ~IsClosed
  <2>1. machine.status # "closed"
    BY <1>2, <1>b, UnderwayNotFinal
  <2>2. machine' = OpenState /\ stream'[s] = Attached(stream[s])
    BY <1>2, <1>a, <2>1, TransitionsTo DEF StreamOpens, OpenStreamOk, ConnTypeOK
  <2>3. ~Pushing
    BY <1>b DEF Pushing, ConnInv, AtMostOneStream, Underway
  <2>4. Pushing'
    BY <2>2, <1>a DEF Pushing, Attached, ConnTypeOK, RawStream
  <2>5. machine.reason = "none" /\ machine'.status = "open"
        /\ machine'.reason = "none" /\ machine'.attempt = 0
    BY <2>1, <2>2 DEF StateInv, OpenState
  <2>6. Pushing' = TRUE
    BY <2>4 DEF Pushing
  <2>7. Handle!Connect
    BY <2>1, <2>3, <2>5, <2>6 DEF Handle!Connect
  <2>8. QED
    BY <2>7 DEF Handle!Next
<1>3. QED
  BY <1>1, <1>2

LEMMA OpenFailsMaps ==
  ASSUME TypeOK, ConnInv, StateInv, NEW s \in Stream, StreamOpenFails(s)
  PROVE  Handle!Next \/ UNCHANGED Handle!vars
<1>a. ConnTypeOK
  BY DEF TypeOK
<1>b. /\ stream[s].phase = "opening" /\ Underway(s)
      /\ stream' = [stream EXCEPT ![s] = FreeSlot]
  BY DEF StreamOpenFails, OpenStreamError, Underway
<1>1. \A t \in Stream : stream'[t].phase = "up" <=> stream[t].phase = "up"
  BY <1>a, <1>b DEF FreeSlot, ConnTypeOK
<1>2. CASE IsClosed
  BY <1>1, <1>2, Stutters DEF StreamOpenFails, OpenStreamError
<1>3. CASE ~IsClosed
  <2>1. OnStreamDown(failures) /\ failures \in Nat
    BY <1>3, <1>a DEF StreamOpenFails, OpenStreamError, ConnTypeOK
  <2>2. ~Pushing /\ ~reconnectTimer
    BY <1>b DEF Pushing, ConnInv, AtMostOneStream, Underway
  <2>3. ~Pushing'
    BY <1>1, <2>2 DEF Pushing
  <2>4. QED
    BY <1>3, <1>a, <1>b, <2>1, <2>2, <2>3, UnderwayNotFinal, FailureReported
<1>4. QED
  BY <1>2, <1>3

LEMMA UpMaps ==
  ASSUME TypeOK, ConnInv, StateInv, NEW s \in Stream,
         JobPushed(s) \/ StreamLost(s)
  PROVE  Handle!Next \/ UNCHANGED Handle!vars
<1>a. ConnTypeOK
  BY DEF TypeOK
<1>b. stream[s].phase = "up" /\ UNCHANGED machine
  BY DEF JobPushed, StreamData, StreamLost, StreamDrops
<1>1. CASE JobPushed(s)
  <2>1. stream' = [stream EXCEPT ![s] = [stream[s] EXCEPT !.received = TRUE]]
    BY <1>1, <1>a DEF JobPushed, StreamData, ConnTypeOK
  <2>2. \A t \in Stream : stream'[t].phase = "up" <=> stream[t].phase = "up"
    BY <2>1, <1>a, <1>b DEF ConnTypeOK, RawStream
  <2>3. QED
    BY <2>2, <1>b, Stutters
<1>2. CASE StreamLost(s)
  <2>1. stream' = [stream EXCEPT ![s] = [stream[s] EXCEPT !.phase = "down",
                                                         !.events = RawEvents]]
    BY <1>2, <1>a DEF StreamLost, StreamDrops, ConnTypeOK
  <2>2. \A t \in Stream : stream[t].phase = "up" => t = s
    BY <1>b DEF ConnInv, AtMostOneStream, Underway
  <2>3. \A t \in Stream : stream'[t].phase # "up"
    BY <2>1, <2>2, <1>a DEF ConnTypeOK, RawStream
  <2>4. Pushing /\ Pushing' = FALSE
    BY <2>3, <1>b DEF Pushing
  <2>5. Handle!Lose
    BY <2>4, <1>b DEF Handle!Lose
  <2>6. QED
    BY <2>5 DEF Handle!Next
<1>3. QED
  BY <1>1, <1>2

LEMMA ReportsMaps ==
  ASSUME TypeOK, ConnInv, StateInv, NEW s \in Stream, NEW e \in RawEvents,
         NEW longUp \in BOOLEAN, StreamReports(s, e, longUp)
  PROVE  Handle!Next \/ UNCHANGED Handle!vars
<1>a. ConnTypeOK
  BY DEF TypeOK
<1>b. stream[s].phase = "down"
      /\ stream' = [stream EXCEPT ![s] = AfterEvent(stream[s], e)]
  BY <1>a DEF StreamReports, StreamEvent, ConnTypeOK
<1>c. AfterEvent(stream[s], e).phase # "up"
  BY <1>a, <1>b DEF AfterEvent, FreeSlot, ConnTypeOK, RawStream
<1>1. \A t \in Stream : stream'[t].phase = "up" <=> stream[t].phase = "up"
  BY <1>a, <1>b, <1>c DEF ConnTypeOK
<1>2. CASE stream[s].settled
  BY <1>1, <1>2, Stutters DEF StreamReports, StreamEvent
<1>3. CASE ~stream[s].settled
  <2>1. LiveAttachment(s) /\ Underway(s)
    BY <1>3, <1>b DEF LiveAttachment, Underway
  <2>2. PICK f \in Nat : OnStreamDown(f)
    BY <1>3, <1>a DEF StreamReports, StreamEvent, ConnTypeOK
  <2>3. CASE IsClosed
    BY <2>2, <2>3, <1>1, Stutters DEF OnStreamDown
  <2>4. CASE ~IsClosed
    <3>1. ~Pushing /\ ~reconnectTimer
      BY <1>b, <2>1 DEF Pushing, ConnInv, AtMostOneStream, Underway
    <3>2. ~Pushing'
      BY <1>1, <3>1 DEF Pushing
    <3>3. machine.status # "reconnecting" /\ machine.status # "closed"
      BY <2>1, <2>4, AttachedNotReconnecting, UnderwayNotFinal
    <3>4. QED
      BY <1>a, <2>2, <2>4, <3>1, <3>2, <3>3, FailureReported
  <2>5. QED
    BY <2>3, <2>4
<1>4. QED
  BY <1>2, <1>3

LEMMA CloseMaps ==
  ASSUME TypeOK, ConnInv, ConnInv', StateInv,
         \/ CloseHandle \/ CloseWorker
         \/ \E s \in Stream : ReconnectDue(s, TRUE)
  PROVE  Handle!Next \/ UNCHANGED Handle!vars
<1>1. CASE CloseWorker /\ pc = "idle"
  BY <1>1, Stutters DEF CloseWorker, connVars
<1>2. CASE ~(CloseWorker /\ pc = "idle")
  <2>1. PICK why \in {"closed-by-caller", "client-closed"} :
          machine' = Transition(ClosedState(why))
    BY <1>2 DEF CloseHandle, HandleCloses, CloseWorker, WorkerCloses,
       ReconnectDue, ReconnectFires, CloseConnection
  <2>2. streams' = {}
    BY DEF CloseHandle, CloseWorker, ReconnectDue, IsClosed, ConnInv,
       ClosedQuiet
  <2>3. Pushing' = FALSE
    BY <2>2 DEF Pushing, ConnInv, AttachmentsKnown, LiveAttachment
  <2>4. CASE machine.status = "closed"
    <3>1. UNCHANGED machine
      BY <2>1, <2>4, TransitionsTo DEF TypeOK
    <3>2. \A s \in Stream : ~LiveAttachment(s)
      BY <2>4 DEF StateInv, ConnInv, ClosedQuiet, AttachmentsKnown, Underway,
         LiveAttachment
    <3>3. Pushing' = Pushing
      BY <2>3, <3>2 DEF Pushing, LiveAttachment
    <3>4. QED
      BY <3>1, <3>3 DEF Handle!vars
  <2>5. CASE machine.status # "closed"
    <3>1. machine' = ClosedState(why)
      BY <2>1, <2>5, TransitionsTo DEF TypeOK
    <3>2. Handle!Close
      BY <2>3, <2>5, <3>1 DEF Handle!Close, ClosedState
    <3>3. QED
      BY <3>2 DEF Handle!Next
  <2>6. QED
    BY <2>4, <2>5
<1>3. QED
  BY <1>1, <1>2

LEMMA OpeningMaps ==
  ASSUME TypeOK, NEW s \in Stream, JitterElapses(s) \/ ReconnectDue(s, FALSE)
  PROVE  UNCHANGED Handle!vars
<1>1. /\ UNCHANGED machine
      /\ stream[s].phase = "free"
      /\ \E by : stream' = [stream EXCEPT ![s] = OpeningSlot(by)]
  BY DEF JitterElapses, ReconnectDue, ReconnectFires, StartOpen
<1>2. QED
  BY <1>1, Stutters DEF OpeningSlot, FreeSlot, TypeOK, ConnTypeOK

(* streamJobs called on a closed worker closes the handle it returns. *)
LEMMA CallMaps ==
  ASSUME TypeOK, ConnInv, StateInv, CallStreamJobs
  PROVE  Handle!Next \/ UNCHANGED Handle!vars
<1>1. CASE UNCHANGED machine
  BY <1>1, Stutters DEF CallStreamJobs
<1>2. CASE machine' # machine
  <2>1. machine' = Transition(ClosedState("client-closed"))
    BY <1>2 DEF CallStreamJobs
  <2>2. machine.status # "closed" /\ machine' = ClosedState("client-closed")
    BY <1>2, <2>1, TransitionsTo DEF TypeOK
  <2>3. \A s \in Stream : ~Underway(s)
    BY DEF CallStreamJobs, ConnInv, StartedInOrder
  <2>4. Pushing' = FALSE
    BY <2>3 DEF CallStreamJobs, Pushing, Underway
  <2>5. Handle!Close
    BY <2>2, <2>4 DEF Handle!Close, ClosedState
  <2>6. QED
    BY <2>5 DEF Handle!Next
<1>3. QED
  BY <1>1, <1>2

LEMMA StepMaps ==
  TypeOK /\ ConnInv /\ ConnInv' /\ StateInv /\ [Next]_vars
    => Handle!Next \/ UNCHANGED Handle!vars
<1> SUFFICES ASSUME TypeOK, ConnInv, ConnInv', StateInv, [Next]_vars
             PROVE  Handle!Next \/ UNCHANGED Handle!vars
  OBVIOUS
<1>1. CASE CallStreamJobs
  BY <1>1, CallMaps
<1>2. ASSUME NEW s \in Stream, JitterElapses(s) \/ ReconnectDue(s, FALSE)
      PROVE  UNCHANGED Handle!vars
  BY <1>2, OpeningMaps
<1>3. ASSUME NEW s \in Stream, StreamOpens(s)
      PROVE  Handle!Next \/ UNCHANGED Handle!vars
  BY <1>3, OpensMaps
<1>4. ASSUME NEW s \in Stream, StreamOpenFails(s)
      PROVE  Handle!Next \/ UNCHANGED Handle!vars
  BY <1>4, OpenFailsMaps
<1>5. ASSUME NEW s \in Stream, JobPushed(s) \/ StreamLost(s)
      PROVE  Handle!Next \/ UNCHANGED Handle!vars
  BY <1>5, UpMaps
<1>6. ASSUME NEW s \in Stream, NEW e \in RawEvents, NEW longUp \in BOOLEAN,
             StreamReports(s, e, longUp)
      PROVE  Handle!Next \/ UNCHANGED Handle!vars
  BY <1>6, ReportsMaps
<1>7. CASE \/ CloseHandle \/ CloseWorker
           \/ \E s \in Stream : ReconnectDue(s, TRUE)
  BY <1>7, CloseMaps
<1>8. CASE UNCHANGED connVars
  BY <1>8, Stutters DEF connVars
<1>9. QED
  BY <1>1, <1>2, <1>3, <1>4, <1>5, <1>6, <1>7, <1>8
  DEF Next, vars, JobQueued, JobsActivated, ActivationRejected, BatchHandled,
      SidecarDue

(* The call keeps the promise of its handle: what its holder can observe is
   what StreamHandle allows, whatever the streams, polls and timers do. *)
THEOREM PromiseKept == Spec => HandlePromise
<1>1. Init => Handle!Init
  <2>1. Init => Pushing = FALSE
    BY DEF Init, ConnInit, Pushing, FreeSlot
  <2>2. QED
    BY <2>1 DEF Init, ConnInit, OpenState, Handle!Init
<1>2. TypeOK /\ ConnInv /\ ConnInv' /\ StateInv /\ [Next]_vars
        => [Handle!Next]_(Handle!vars)
  BY StepMaps
<1>3. QED
  BY <1>1, <1>2, TypeCorrect, ConnInvariant, StateInvariant, PTL
  DEF Spec, HandlePromise, Handle!Spec
===============================================================================
