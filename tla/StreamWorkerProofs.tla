-------------------------- MODULE StreamWorkerProofs --------------------------
(***************************************************************************)
(* Safety of one streamJobs call, for every number of stream and poller    *)
(* slots, every batch size and every bound: types, polls and backfills,    *)
(* streams, recovery and close.                                            *)
(***************************************************************************)
EXTENDS StreamWorker, TLAPS

(* Types of the records the two components are made of. *)
LEMMA SlotTypes ==
  /\ FreeSlot \in RawStream
  /\ \A by \in Openers : OpeningSlot(by) \in RawStream
  /\ \A r \in RawStream : Attached(r) \in RawStream
  /\ \A r \in RawStream : Disposed(r) \in RawStream
  /\ \A r \in RawStream, e \in RawEvents : AfterEvent(r, e) \in RawStream
BY DEF FreeSlot, RawStream, OpeningSlot, Attached, Disposed, AfterEvent,
       Phases, Openers, RawEvents

LEMMA ChainTypes ==
  /\ IdleChain \in Chain
  /\ \A o \in Origins : Activating(o) \in Chain
  /\ \A c \in Chain, b \in BOOLEAN : Handling(c, b) \in Chain
  /\ \A c \in Chain, b \in BOOLEAN : Reactivating(c, b) \in Chain
BY DEF IdleChain, Chain, Activating, Handling, Reactivating, PollerPhases,
       Origins

MachineStates == [status : Statuses, reason : Reasons, attempt : Nat]

LEMMA MachineTypes ==
  /\ OpenState \in MachineStates
  /\ \A n \in Nat : ReconnectingState(n) \in MachineStates
  /\ \A why \in Reasons : ClosedState(why) \in MachineStates
  /\ \A next \in MachineStates :
       ConnTypeOK => Transition(next) \in MachineStates
BY DEF MachineStates, OpenState, ReconnectingState, ClosedState, Transition,
       Statuses, Reasons, ConnTypeOK

-------------------------------------------------------------------------------
(* Types of the operators the actions are made of. *)
LEMMA OnStreamDownType ==
  ASSUME ConnTypeOK, NEW f \in Nat, OnStreamDown(f)
  PROVE  /\ machine' \in MachineStates
         /\ failures' \in Nat
         /\ reconnectTimer' \in BOOLEAN
<1>1. machine \in MachineStates
  BY DEF ConnTypeOK, MachineStates
<1>2. reconnectTimer \in BOOLEAN
  BY DEF ConnTypeOK
<1>3. Transition(ReconnectingState(f + 1)) \in MachineStates
  BY MachineTypes
<1>4. Transition(ClosedState("stream-failed")) \in MachineStates
  BY MachineTypes DEF Reasons
<1>5. machine' \in MachineStates
  BY <1>1, <1>3, <1>4 DEF OnStreamDown, ScheduleReconnect
<1>6. failures' \in Nat
  BY DEF OnStreamDown, ScheduleReconnect
<1>7. reconnectTimer' \in BOOLEAN
  BY <1>2 DEF OnStreamDown, ScheduleReconnect
<1>8. QED
  BY <1>5, <1>6, <1>7

LEMMA ActivateType ==
  ASSUME NEW chains \in [Poller -> Chain], NEW o \in Origins,
         Activate(chains, o)
  PROVE  reserved' \in BOOLEAN /\ poller' \in [Poller -> Chain]
BY ChainTypes DEF Activate

LEMMA BackfillType ==
  ASSUME DrainTypeOK, NEW o \in Origins, Backfill(o)
  PROVE  /\ reserved' \in BOOLEAN
         /\ requested' \in BOOLEAN
         /\ poller' \in [Poller -> Chain]
BY ActivateType DEF Backfill, DrainTypeOK

LEMMA SidecarType ==
  ASSUME DrainTypeOK, SchedulePoll \/ StartSidecar
  PROVE  sidecarTimer' \in BOOLEAN /\ pollTimers' \in BOOLEAN
BY DEF DrainTypeOK, SchedulePoll, StartSidecar

LEMMA FinishDrainType ==
  ASSUME DrainTypeOK, NEW p \in Poller, NEW pending \in BOOLEAN,
         FinishDrain(p, pending)
  PROVE  DrainTypeOK'
<1>. DEFINE released == [poller EXCEPT ![p] = IdleChain]
<1>1. released \in [Poller -> Chain]
  BY ChainTypes DEF DrainTypeOK
<1>2. reserved' \in BOOLEAN /\ poller' \in [Poller -> Chain]
  BY <1>1, ActivateType DEF FinishDrain, Origins
<1>3. sidecarTimer' \in BOOLEAN /\ pollTimers' \in BOOLEAN
  BY SidecarType DEF FinishDrain, DrainTypeOK
<1>4. QED
  BY <1>2, <1>3 DEF FinishDrain, DrainTypeOK

(* Every action preserves the three type invariants. *)
LEMMA CallStep == CallTypeOK /\ [Next]_vars => CallTypeOK'
<1> SUFFICES ASSUME CallTypeOK, [Next]_vars PROVE CallTypeOK'
  OBVIOUS
<1> USE DEF CallTypeOK, ControlStates, callVars
<1>1. CASE CallStreamJobs
  BY <1>1 DEF CallStreamJobs
<1>2. ASSUME NEW s \in Stream, JitterElapses(s) PROVE CallTypeOK'
  BY <1>2 DEF JitterElapses
<1>3. ASSUME NEW s \in Stream, StreamOpens(s) PROVE CallTypeOK'
  BY <1>3 DEF StreamOpens
<1>4. ASSUME NEW s \in Stream, StreamOpenFails(s) PROVE CallTypeOK'
  BY <1>4 DEF StreamOpenFails
<1>5. ASSUME NEW s \in Stream, JobPushed(s) PROVE CallTypeOK'
  BY <1>5 DEF JobPushed
<1>6. ASSUME NEW s \in Stream, StreamLost(s) PROVE CallTypeOK'
  BY <1>6 DEF StreamLost
<1>7. ASSUME NEW s \in Stream, NEW e \in RawEvents, NEW longUp \in BOOLEAN,
             StreamReports(s, e, longUp)
      PROVE CallTypeOK'
  BY <1>7 DEF StreamReports
<1>8. ASSUME NEW s \in Stream, NEW callbackCloses \in BOOLEAN,
             ReconnectDue(s, callbackCloses)
      PROVE CallTypeOK'
  BY <1>8 DEF ReconnectDue
<1>9. CASE JobQueued
  BY <1>9 DEF JobQueued
<1>10. ASSUME NEW p \in Poller, JobsActivated(p) PROVE CallTypeOK'
  BY <1>10 DEF JobsActivated, ActivationReturns
<1>11. ASSUME NEW p \in Poller, ActivationRejected(p) PROVE CallTypeOK'
  BY <1>11 DEF ActivationRejected, FirstActivationFails, NextActivationFails
<1>12. ASSUME NEW p \in Poller, BatchHandled(p) PROVE CallTypeOK'
  BY <1>12 DEF BatchHandled
<1>13. CASE SidecarDue
  BY <1>13 DEF SidecarDue
<1>14. CASE CloseHandle
  BY <1>14 DEF CloseHandle
<1>15. CASE CloseWorker
  BY <1>15 DEF CloseWorker
<1>16. CASE UNCHANGED vars
  BY <1>16 DEF vars
<1>17. QED
  BY <1>1, <1>2, <1>3, <1>4, <1>5, <1>6, <1>7, <1>8, <1>9, <1>10, <1>11,
     <1>12, <1>13, <1>14, <1>15, <1>16 DEF Next

LEMMA ConnStep == ConnTypeOK /\ [Next]_vars => ConnTypeOK'
<1> SUFFICES ASSUME ConnTypeOK, [Next]_vars PROVE ConnTypeOK'
  OBVIOUS
<1>a. /\ machine \in MachineStates
      /\ failures \in Nat
      /\ current \in Stream \cup {NoStream}
      /\ streams \subseteq Stream
      /\ stream \in [Stream -> RawStream]
  BY DEF ConnTypeOK, MachineStates
<1>b. reconnectTimer \in BOOLEAN
  BY DEF ConnTypeOK
<1>c. /\ Transition(OpenState) \in MachineStates
      /\ \A why \in Reasons : Transition(ClosedState(why)) \in MachineStates
  BY MachineTypes
<1>d. SUFFICES /\ machine' \in MachineStates
               /\ failures' \in Nat
               /\ reconnectTimer' \in BOOLEAN
               /\ current' \in Stream \cup {NoStream}
               /\ streams' \subseteq Stream
               /\ stream' \in [Stream -> RawStream]
  BY DEF ConnTypeOK, MachineStates
<1>e. \A S : DisposeAll(S) \in [Stream -> RawStream]
  BY <1>a, SlotTypes DEF DisposeAll
<1>1. CASE CallStreamJobs
  BY <1>1, <1>a, <1>b, <1>c DEF CallStreamJobs, Reasons
<1>2. ASSUME NEW s \in Stream, JitterElapses(s) PROVE ConnTypeOK'
  BY <1>2, <1>a, <1>b, SlotTypes DEF JitterElapses, StartOpen, Openers,
     ConnTypeOK, MachineStates
<1>3. ASSUME NEW s \in Stream, StreamOpens(s) PROVE ConnTypeOK'
  <2>1. stream' \in [Stream -> RawStream]
    BY <1>3, <1>a, SlotTypes DEF StreamOpens, OpenStreamOk
  <2>2. /\ machine' \in MachineStates
        /\ current' \in Stream \cup {NoStream}
        /\ streams' \subseteq Stream
    BY <1>3, <1>a, <1>c DEF StreamOpens, OpenStreamOk
  <2>3. failures' \in Nat /\ reconnectTimer' \in BOOLEAN
    BY <1>3, <1>a, <1>b DEF StreamOpens, OpenStreamOk
  <2>4. QED
    BY <2>1, <2>2, <2>3 DEF ConnTypeOK, MachineStates
<1>4. ASSUME NEW s \in Stream, StreamOpenFails(s) PROVE ConnTypeOK'
  <2>1. stream' \in [Stream -> RawStream]
    BY <1>4, <1>a, SlotTypes DEF StreamOpenFails, OpenStreamError
  <2>2. machine' \in MachineStates /\ failures' \in Nat
        /\ reconnectTimer' \in BOOLEAN
    <3>1. CASE IsClosed
      BY <3>1, <1>4, <1>a, <1>b DEF StreamOpenFails, OpenStreamError
    <3>2. CASE ~IsClosed
      <4>1. OnStreamDown(failures)
        BY <3>2, <1>4 DEF StreamOpenFails, OpenStreamError
      <4>2. QED
        BY <4>1, <1>a, OnStreamDownType
    <3>3. QED
      BY <3>1, <3>2
  <2>3. QED
    BY <2>1, <2>2, <1>4, <1>a DEF StreamOpenFails, OpenStreamError,
       ConnTypeOK, MachineStates
<1>5. ASSUME NEW s \in Stream, JobPushed(s) PROVE ConnTypeOK'
  <2>1. stream' \in [Stream -> RawStream]
    BY <1>5, <1>a DEF JobPushed, StreamData, RawStream
  <2>2. QED
    BY <2>1, <1>5, <1>a, <1>b DEF JobPushed, StreamData, ConnTypeOK,
       MachineStates
<1>6. ASSUME NEW s \in Stream, StreamLost(s) PROVE ConnTypeOK'
  <2>1. stream' \in [Stream -> RawStream]
    BY <1>6, <1>a DEF StreamLost, StreamDrops, RawStream, Phases
  <2>2. QED
    BY <2>1, <1>6, <1>a, <1>b DEF StreamLost, StreamDrops, ConnTypeOK,
       MachineStates
<1>7. ASSUME NEW s \in Stream, NEW e \in RawEvents, NEW longUp \in BOOLEAN,
             StreamReports(s, e, longUp)
      PROVE ConnTypeOK'
  <2>1. stream' \in [Stream -> RawStream]
    BY <1>7, <1>a, SlotTypes DEF StreamReports, StreamEvent
  <2>2. CASE stream[s].settled
    BY <2>1, <2>2, <1>7, <1>a, <1>b DEF StreamReports, StreamEvent, ConnTypeOK,
       MachineStates
  <2>3. CASE ~stream[s].settled
    <3>1. PICK f \in Nat : OnStreamDown(f)
      BY <2>3, <1>7, <1>a DEF StreamReports, StreamEvent
    <3>2. machine' \in MachineStates /\ failures' \in Nat
          /\ reconnectTimer' \in BOOLEAN
      BY <3>1, OnStreamDownType
    <3>3. QED
      BY <2>1, <2>3, <3>2, <1>7, <1>a DEF StreamReports, StreamEvent,
         ConnTypeOK, MachineStates
  <2>4. QED
    BY <2>2, <2>3
<1>8. ASSUME NEW s \in Stream, NEW callbackCloses \in BOOLEAN,
             ReconnectDue(s, callbackCloses)
      PROVE ConnTypeOK'
  <2>1. stream' \in [Stream -> RawStream]
    BY <1>8, <1>a, SlotTypes DEF ReconnectDue, ReconnectFires, StartOpen,
       Openers
  <2>2. QED
    BY <2>1, <1>8, <1>a, <1>c DEF ReconnectDue, ReconnectFires,
       CloseConnection, ConnTypeOK, MachineStates, Reasons
<1>9. CASE JobQueued
  BY <1>9, <1>a, <1>b DEF JobQueued, connVars
<1>10. ASSUME NEW p \in Poller, JobsActivated(p) PROVE ConnTypeOK'
  BY <1>10 DEF JobsActivated, connVars, ConnTypeOK
<1>11. ASSUME NEW p \in Poller, ActivationRejected(p) PROVE ConnTypeOK'
  BY <1>11 DEF ActivationRejected, connVars, ConnTypeOK
<1>12. ASSUME NEW p \in Poller, BatchHandled(p) PROVE ConnTypeOK'
  BY <1>12 DEF BatchHandled, connVars, ConnTypeOK
<1>13. CASE SidecarDue
  BY <1>13, <1>a, <1>b DEF SidecarDue, connVars
<1>14. CASE CloseHandle
  BY <1>14, <1>a, <1>c, <1>e DEF CloseHandle, HandleCloses, CloseConnection,
     Reasons
<1>15. CASE CloseWorker
  BY <1>15, <1>a, <1>b, <1>c, <1>e DEF CloseWorker, WorkerCloses, connVars,
     Reasons
<1>16. CASE UNCHANGED vars
  BY <1>16, <1>a, <1>b DEF vars, connVars
<1>17. QED
  BY <1>1, <1>2, <1>3, <1>4, <1>5, <1>6, <1>7, <1>8, <1>9, <1>10, <1>11,
     <1>12, <1>13, <1>14, <1>15, <1>16 DEF Next, ConnTypeOK, MachineStates

LEMMA DrainStep == CallTypeOK /\ ConnTypeOK /\ DrainTypeOK /\ [Next]_vars
                     => DrainTypeOK'
<1> SUFFICES ASSUME CallTypeOK, ConnTypeOK, DrainTypeOK, [Next]_vars
             PROVE  DrainTypeOK'
  OBVIOUS
<1>a. /\ reserved \in BOOLEAN
      /\ requested \in BOOLEAN
      /\ poller \in [Poller -> Chain]
      /\ sidecarTimer \in BOOLEAN
      /\ pollTimers \in BOOLEAN
  BY DEF DrainTypeOK
<1>1. CASE CallStreamJobs
  BY <1>1, <1>a DEF CallStreamJobs, drainVars, DrainTypeOK
<1>2. ASSUME NEW s \in Stream, JitterElapses(s) PROVE DrainTypeOK'
  BY <1>2, <1>a DEF JitterElapses, drainVars, DrainTypeOK
<1>3. ASSUME NEW s \in Stream, StreamOpens(s) PROVE DrainTypeOK'
  <2>1. stream[s].by \in Origins
    BY DEF ConnTypeOK, RawStream, Openers, Origins
  <2>2. Backfill(stream[s].by)
    BY <1>3 DEF StreamOpens
  <2>3. QED
    BY <2>1, <2>2, <1>3, <1>a, BackfillType DEF StreamOpens, DrainTypeOK
<1>4. ASSUME NEW s \in Stream, StreamOpenFails(s) PROVE DrainTypeOK'
  BY <1>4, <1>a, SidecarType DEF StreamOpenFails, DrainTypeOK
<1>5. ASSUME NEW s \in Stream, JobPushed(s) PROVE DrainTypeOK'
  BY <1>5, <1>a DEF JobPushed, drainVars, DrainTypeOK
<1>6. ASSUME NEW s \in Stream, StreamLost(s) PROVE DrainTypeOK'
  BY <1>6, <1>a DEF StreamLost, drainVars, DrainTypeOK
<1>7. ASSUME NEW s \in Stream, NEW e \in RawEvents, NEW longUp \in BOOLEAN,
             StreamReports(s, e, longUp)
      PROVE DrainTypeOK'
  BY <1>7, <1>a DEF StreamReports, drainVars, DrainTypeOK
<1>8. ASSUME NEW s \in Stream, NEW callbackCloses \in BOOLEAN,
             ReconnectDue(s, callbackCloses)
      PROVE DrainTypeOK'
  BY <1>8, <1>a DEF ReconnectDue, CloseSidecar, drainVars, DrainTypeOK
<1>9. CASE JobQueued
  BY <1>9, <1>a DEF JobQueued, drainVars, DrainTypeOK
<1>10. ASSUME NEW p \in Poller, JobsActivated(p) PROVE DrainTypeOK'
  <2>1. poller' \in [Poller -> Chain]
    <3>1. (backlog >= BatchSize) \in BOOLEAN
      OBVIOUS
    <3>2. Handling(poller[p], backlog >= BatchSize) \in Chain
      BY <3>1, <1>a, ChainTypes
    <3>3. QED
      BY <3>2, <1>10, <1>a DEF JobsActivated, ActivationReturns
  <2>2. sidecarTimer' \in BOOLEAN /\ pollTimers' \in BOOLEAN
    BY <1>10, <1>a, SidecarType DEF JobsActivated, ActivationReturns
  <2>3. QED
    BY <2>1, <2>2, <1>10, <1>a DEF JobsActivated, ActivationReturns,
       DrainTypeOK
<1>11. ASSUME NEW p \in Poller, ActivationRejected(p) PROVE DrainTypeOK'
  <2>1. CASE FirstActivationFails(p)
    <3>1. poller' \in [Poller -> Chain]
      BY <2>1, <1>a, ChainTypes DEF FirstActivationFails
    <3>2. sidecarTimer' \in BOOLEAN /\ pollTimers' \in BOOLEAN
      BY <2>1, <1>a, SidecarType DEF FirstActivationFails
    <3>3. QED
      BY <3>1, <3>2, <2>1, <1>a DEF FirstActivationFails, DrainTypeOK
  <2>2. CASE NextActivationFails(p)
    <3>1. poller[p].honours \in BOOLEAN
      BY <1>a DEF Chain
    <3>2. (requested \/ poller[p].honours) \in BOOLEAN
      BY <3>1, <1>a
    <3>3. QED
      BY <3>2, <2>2, FinishDrainType DEF NextActivationFails
  <2>3. QED
    BY <2>1, <2>2, <1>11 DEF ActivationRejected
<1>12. ASSUME NEW p \in Poller, BatchHandled(p) PROVE DrainTypeOK'
  <2>1. CASE FinishDrain(p, requested)
    BY <2>1, <1>a, FinishDrainType
  <2>2. CASE ~FinishDrain(p, requested)
    BY <2>2, <1>12, <1>a, ChainTypes DEF BatchHandled, HandlersSettle,
       DrainTypeOK
  <2>3. QED
    BY <2>1, <2>2
<1>13. CASE SidecarDue
  <2>1. reserved' \in BOOLEAN /\ poller' \in [Poller -> Chain]
    BY <1>13, <1>a, ActivateType DEF SidecarDue, SidecarFires, Origins
  <2>2. sidecarTimer' \in BOOLEAN /\ pollTimers' \in BOOLEAN
    BY <1>13 DEF SidecarDue, SidecarFires, IsClosed
  <2>3. QED
    BY <2>1, <2>2, <1>13, <1>a DEF SidecarDue, SidecarFires, DrainTypeOK
<1>14. CASE CloseHandle
  BY <1>14, <1>a DEF CloseHandle, CloseSidecar, DrainTypeOK
<1>15. CASE CloseWorker
  BY <1>15, <1>a DEF CloseWorker, CloseAllSidecars, drainVars, DrainTypeOK
<1>16. CASE UNCHANGED vars
  BY <1>16, <1>a DEF vars, drainVars, DrainTypeOK
<1>17. QED
  BY <1>1, <1>2, <1>3, <1>4, <1>5, <1>6, <1>7, <1>8, <1>9, <1>10, <1>11,
     <1>12, <1>13, <1>14, <1>15, <1>16 DEF Next

LEMMA BacklogStep == backlog \in 0..MaxBacklog /\ [Next]_vars
                       => backlog' \in 0..MaxBacklog
BY BatchAssumption DEF Next, vars, CallStreamJobs, JitterElapses, StreamOpens,
   StreamOpenFails, JobPushed, StreamLost, StreamReports, ReconnectDue,
   JobQueued, JobsActivated, ActivationRejected, BatchHandled, SidecarDue,
   CloseHandle, CloseWorker

(* The variables of the call keep their types: the reservation and the timers
   are flags, the failure count is a number, and every slot holds a raw stream
   or a chain of promises of the shapes the code builds. *)
THEOREM TypeCorrect == Spec => []TypeOK
<1>1. Init => TypeOK
  <2>1. CallInit => CallTypeOK
    BY DEF CallInit, CallTypeOK, ControlStates
  <2>2. ConnInit => ConnTypeOK
    <3>1. ConnInit => /\ machine \in MachineStates
                      /\ stream \in [Stream -> RawStream]
      BY SlotTypes, MachineTypes DEF ConnInit
    <3>2. ConnInit => /\ failures \in Nat
                      /\ current \in Stream \cup {NoStream}
                      /\ streams \subseteq Stream
      BY DEF ConnInit
    <3>3. ConnInit => reconnectTimer \in BOOLEAN
      BY DEF ConnInit
    <3>4. QED
      BY <3>1, <3>2, <3>3 DEF ConnTypeOK, MachineStates
  <2>3. DrainInit => DrainTypeOK
    BY ChainTypes DEF DrainInit, DrainTypeOK
  <2>4. QED
    BY <2>1, <2>2, <2>3 DEF Init, TypeOK
<1>2. TypeOK /\ [Next]_vars => TypeOK'
  BY CallStep, ConnStep, DrainStep, BacklogStep DEF TypeOK
<1>3. QED
  BY <1>1, <1>2, PTL DEF Spec

-------------------------------------------------------------------------------
(* One chain of polls at a time.  The two properties are inductive together:
   the reservation is what keeps a second chain from starting, and a single
   chain is what makes its end the moment to release the reservation. *)
DrainInv == OnePolledBatch /\ ReservationHeld

LEMMA ActivateAlone ==
  ASSUME NEW chains \in [Poller -> Chain], NEW o \in Origins,
         \A p \in Poller : chains[p].phase = "idle",
         Activate(chains, o)
  PROVE  DrainInv'
<1>1. PICK p \in Poller : /\ reserved' = TRUE
                          /\ poller' = [chains EXCEPT ![p] = Activating(o)]
  BY DEF Activate
<1>2. \A q \in Poller : Busy(q)' <=> q = p
  BY <1>1 DEF Busy, Activating, IdleChain
<1>3. QED
  BY <1>1, <1>2 DEF DrainInv, OnePolledBatch, ReservationHeld

LEMMA BackfillAlone ==
  ASSUME DrainTypeOK, DrainInv, NEW o \in Origins, Backfill(o)
  PROVE  DrainInv'
<1>1. CASE UNCHANGED <<reserved, poller>>
  BY <1>1 DEF DrainInv, OnePolledBatch, ReservationHeld, Busy
<1>2. CASE ~reserved /\ Activate(poller, o)
  <2>1. \A p \in Poller : poller[p].phase = "idle"
    BY <1>2 DEF DrainInv, ReservationHeld, Busy
  <2>2. QED
    BY <1>2, <2>1, ActivateAlone DEF DrainTypeOK
<1>3. QED
  BY <1>1, <1>2 DEF Backfill

LEMMA FinishAlone ==
  ASSUME DrainTypeOK, DrainInv, NEW p \in Poller, NEW pending, Busy(p),
         FinishDrain(p, pending)
  PROVE  DrainInv'
<1>. DEFINE released == [poller EXCEPT ![p] = IdleChain]
<1>1. released \in [Poller -> Chain]
  BY ChainTypes DEF DrainTypeOK
<1>2. \A q \in Poller : released[q].phase = "idle"
  BY DEF DrainTypeOK, DrainInv, OnePolledBatch, Busy, IdleChain
<1>3. CASE Activate(released, "deferred")
  BY <1>1, <1>2, <1>3, ActivateAlone DEF Origins
<1>4. CASE reserved' = FALSE /\ poller' = released
  BY <1>2, <1>4 DEF DrainInv, OnePolledBatch, ReservationHeld, Busy
<1>5. QED
  BY <1>3, <1>4 DEF FinishDrain

(* A chain that moves from one busy phase to another. *)
LEMMA AdvanceAlone ==
  ASSUME DrainTypeOK, DrainInv, NEW p \in Poller, Busy(p), UNCHANGED reserved,
         NEW c \in Chain, c.phase # "idle",
         poller' = [poller EXCEPT ![p] = c]
  PROVE  DrainInv'
<1>1. \A q \in Poller : Busy(q)' <=> Busy(q)
  BY DEF DrainTypeOK, Busy
<1>2. QED
  BY <1>1 DEF DrainInv, OnePolledBatch, ReservationHeld

LEMMA DrainInvStep == TypeOK /\ DrainInv /\ [Next]_vars => DrainInv'
<1> SUFFICES ASSUME TypeOK, DrainInv, [Next]_vars PROVE DrainInv'
  OBVIOUS
<1>a. DrainTypeOK
  BY DEF TypeOK
<1>b. ASSUME UNCHANGED <<reserved, poller>> PROVE DrainInv'
  BY <1>b DEF DrainInv, OnePolledBatch, ReservationHeld, Busy
<1>1. ASSUME NEW s \in Stream, StreamOpens(s) PROVE DrainInv'
  <2>1. stream[s].by \in Origins
    BY DEF TypeOK, ConnTypeOK, RawStream, Openers, Origins
  <2>2. QED
    BY <2>1, <1>1, <1>a, BackfillAlone DEF StreamOpens
<1>2. ASSUME NEW p \in Poller, JobsActivated(p) PROVE DrainInv'
  <2>1. (backlog >= BatchSize) \in BOOLEAN
    OBVIOUS
  <2>2. Handling(poller[p], backlog >= BatchSize) \in Chain
    BY <2>1, <1>a, ChainTypes DEF DrainTypeOK
  <2>3. Handling(poller[p], backlog >= BatchSize).phase # "idle"
    BY <1>a DEF Handling, DrainTypeOK, Chain
  <2>4. /\ Busy(p)
        /\ UNCHANGED reserved
        /\ poller' = [poller EXCEPT ![p] =
                        Handling(poller[p], backlog >= BatchSize)]
    BY <1>2, <1>a DEF JobsActivated, ActivationReturns, Awaiting, Busy,
       DrainTypeOK
  <2>5. QED
    BY <2>2, <2>3, <2>4, <1>a, AdvanceAlone
<1>3. ASSUME NEW p \in Poller, ActivationRejected(p) PROVE DrainInv'
  <2>1. CASE FirstActivationFails(p)
    <3>1. /\ reserved' = FALSE
          /\ poller' = [poller EXCEPT ![p] = IdleChain]
          /\ Busy(p)
      BY <2>1 DEF FirstActivationFails, Busy
    <3>2. \A q \in Poller : ~Busy(q)'
      BY <3>1, <1>a DEF DrainTypeOK, DrainInv, OnePolledBatch, Busy, IdleChain
    <3>3. QED
      BY <3>1, <3>2 DEF DrainInv, OnePolledBatch, ReservationHeld
  <2>2. CASE NextActivationFails(p)
    BY <2>2, <1>a, FinishAlone DEF NextActivationFails, Busy
  <2>3. QED
    BY <1>3, <2>1, <2>2 DEF ActivationRejected
<1>4. ASSUME NEW p \in Poller, BatchHandled(p) PROVE DrainInv'
  <2>1. Busy(p)
    BY <1>4 DEF BatchHandled, HandlersSettle, Busy
  <2>2. CASE FinishDrain(p, requested)
    BY <2>1, <2>2, <1>a, FinishAlone
  <2>3. ASSUME NEW b \in BOOLEAN, UNCHANGED reserved,
               poller' = [poller EXCEPT ![p] = Reactivating(poller[p], b)]
        PROVE  DrainInv'
    <3>1. Reactivating(poller[p], b) \in Chain
      BY <1>a, ChainTypes DEF DrainTypeOK
    <3>2. Reactivating(poller[p], b).phase # "idle"
      BY <1>a DEF Reactivating, DrainTypeOK, Chain
    <3>3. QED
      BY <3>1, <3>2, <2>1, <2>3, <1>a, AdvanceAlone
  <2>4. QED
    BY <2>2, <2>3, <1>4, <1>a DEF BatchHandled, HandlersSettle, DrainTypeOK
<1>5. CASE SidecarDue
  <2>1. CASE ~reserved /\ Activate(poller, "sidecar")
    <3>1. \A p \in Poller : poller[p].phase = "idle"
      BY <2>1 DEF DrainInv, ReservationHeld, Busy
    <3>2. QED
      BY <2>1, <3>1, <1>a, ActivateAlone DEF DrainTypeOK, Origins
  <2>2. CASE UNCHANGED <<reserved, poller>>
    BY <2>2, <1>b
  <2>3. QED
    BY <2>1, <2>2, <1>5 DEF SidecarDue, SidecarFires
<1>6. CASE UNCHANGED <<reserved, poller>>
  BY <1>6, <1>b
<1>7. QED
  BY <1>1, <1>2, <1>3, <1>4, <1>5, <1>6
  DEF Next, vars, drainVars, CallStreamJobs, JitterElapses, StreamOpenFails,
      JobPushed, StreamLost, StreamReports, ReconnectDue, JobQueued,
      CloseHandle, CloseWorker, CloseSidecar, CloseAllSidecars

LEMMA DrainInvariant == Spec => []DrainInv
<1>1. Init => DrainInv
  BY DEF Init, DrainInit, DrainInv, OnePolledBatch, ReservationHeld, Busy,
     IdleChain
<1>2. QED
  BY <1>1, DrainInvStep, TypeCorrect, PTL DEF Spec

(* No two chains of activations and drains are ever in flight, whatever
   backfills, sidecar polls, failures and closes interleave. *)
THEOREM PolledBatchIsSingle == Spec => []OnePolledBatch
<1>1. DrainInv => OnePolledBatch
  BY DEF DrainInv
<1>2. QED
  BY <1>1, DrainInvariant, PTL

(* The reservation is held exactly while a chain is in flight. *)
THEOREM ReservationIsExact == Spec => []ReservationHeld
<1>1. DrainInv => ReservationHeld
  BY DEF DrainInv
<1>2. QED
  BY <1>1, DrainInvariant, PTL
-------------------------------------------------------------------------------
(* How an owed backfill may stop being owed. *)
Discharged ==
  \/ IsClosed'
  \/ \E p \in Poller :
       \/ Awaiting(p) /\ poller'[p].phase = "handling"
       \/ poller[p].phase = "activating" /\ poller'[p].phase = "idle"

LEMMA ActivateOwes ==
  ASSUME NEW chains \in [Poller -> Chain], NEW o, o # "sidecar",
         Activate(chains, o)
  PROVE  BackfillOwed'
<1>1. PICK p \in Poller : poller' = [chains EXCEPT ![p] = Activating(o)]
  BY DEF Activate
<1>2. Activating(o).phase = "activating" /\ Activating(o).origin = o
  BY DEF Activating, IdleChain
<1>3. QED
  BY <1>1, <1>2 DEF BackfillOwed

LEMMA FinishOwes ==
  ASSUME DrainTypeOK, NEW p \in Poller, UNCHANGED <<closed, handleClosed>>,
         \/ IsClosed
         \/ ~BackfillOwed
         \/ Activate([poller EXCEPT ![p] = IdleChain], "deferred")
  PROVE  BackfillOwed /\ ~BackfillOwed' => Discharged
<1> DEFINE released == [poller EXCEPT ![p] = IdleChain]
<1>1. released \in [Poller -> Chain]
  BY ChainTypes DEF DrainTypeOK
<1>2. IsClosed \/ ~BackfillOwed \/ Activate(released, "deferred")
  OBVIOUS
<1> HIDE DEF released
<1>3. Activate(released, "deferred") => BackfillOwed'
  BY <1>1, ActivateOwes
<1>4. IsClosed => IsClosed'
  BY DEF IsClosed
<1>5. QED
  BY <1>2, <1>3, <1>4 DEF Discharged

LEMMA BackfillOwes ==
  ASSUME DrainTypeOK, NEW o, o # "sidecar", Backfill(o), BackfillOwed
  PROVE  BackfillOwed'
<1>1. CASE UNCHANGED <<requested, poller>>
  BY <1>1 DEF BackfillOwed
<1>2. CASE requested' = TRUE
  BY <1>2 DEF BackfillOwed
<1>3. CASE Activate(poller, o)
  BY <1>3, ActivateOwes DEF DrainTypeOK
<1>4. QED
  BY <1>1, <1>2, <1>3 DEF Backfill

LEMMA HandledOwes ==
  ASSUME TypeOK, OnePolledBatch, NEW p \in Poller, BatchHandled(p)
  PROVE  BackfillOwed /\ ~BackfillOwed' => Discharged
<1>1. poller[p].phase = "handling" /\ UNCHANGED <<closed, handleClosed>>
  BY DEF BatchHandled, HandlersSettle, callVars
<1>2. BackfillOwed => requested
  BY <1>1 DEF BackfillOwed, OnePolledBatch, Busy
<1>3. CASE FinishDrain(p, requested)
  <2>1. \/ IsClosed
        \/ ~BackfillOwed
        \/ Activate([poller EXCEPT ![p] = IdleChain], "deferred")
    BY <1>2, <1>3 DEF FinishDrain
  <2>2. QED
    BY <1>1, <2>1, FinishOwes DEF TypeOK
<1>4. CASE requested /\ poller' = [poller EXCEPT ![p] = Reactivating(@, TRUE)]
  <2>1. /\ Reactivating(poller[p], TRUE).phase = "reactivating"
        /\ Reactivating(poller[p], TRUE).honours
    BY DEF Reactivating, TypeOK, DrainTypeOK, Chain
  <2>2. QED
    BY <1>4, <2>1 DEF BackfillOwed, TypeOK, DrainTypeOK
<1>5. CASE ~requested
  BY <1>2, <1>5
<1>6. QED
  BY <1>3, <1>4, <1>5 DEF BatchHandled, HandlersSettle

LEMMA RejectedOwes ==
  ASSUME TypeOK, OnePolledBatch, NEW p \in Poller, ActivationRejected(p)
  PROVE  BackfillOwed /\ ~BackfillOwed' => Discharged
<1>1. CASE FirstActivationFails(p)
  <2>1. poller[p].phase = "activating" /\ poller'[p].phase = "idle"
    BY <1>1 DEF FirstActivationFails, IdleChain, TypeOK, DrainTypeOK
  <2>2. QED
    BY <2>1 DEF Discharged
<1>2. CASE NextActivationFails(p)
  <2>1. poller[p].phase = "reactivating" /\ UNCHANGED <<closed, handleClosed>>
    BY <1>2 DEF NextActivationFails, ActivationRejected
  <2>2. BackfillOwed => requested \/ poller[p].honours
    BY <2>1 DEF BackfillOwed, OnePolledBatch, Busy
  <2>3. FinishDrain(p, requested \/ poller[p].honours)
    BY <1>2 DEF NextActivationFails
  <2>4. \/ IsClosed
        \/ ~BackfillOwed
        \/ Activate([poller EXCEPT ![p] = IdleChain], "deferred")
    BY <2>2, <2>3 DEF FinishDrain
  <2>5. QED
    BY <2>1, <2>4, FinishOwes DEF TypeOK
<1>3. QED
  BY <1>1, <1>2 DEF ActivationRejected

(* A backfill that is owed stays owed until an activation answers it, its own
   first activation is rejected, or the call is closed, whatever ends the drain
   that carries it. *)
THEOREM OwedBackfillIsKept == Spec => OwedBackfillKept
<1>1. ASSUME TypeOK, DrainInv, [Next]_vars
      PROVE  BackfillOwed /\ ~BackfillOwed' => Discharged
  <2>a. DrainTypeOK /\ OnePolledBatch
    BY <1>1 DEF TypeOK, DrainInv
  <2>b. ASSUME UNCHANGED <<requested, poller>>
        PROVE  BackfillOwed /\ ~BackfillOwed' => Discharged
    BY <2>b DEF BackfillOwed
  <2>1. ASSUME NEW s \in Stream, StreamOpens(s)
        PROVE  BackfillOwed /\ ~BackfillOwed' => Discharged
    <3>1. stream[s].by # "sidecar"
      BY <1>1 DEF TypeOK, ConnTypeOK, RawStream, Openers
    <3>2. Backfill(stream[s].by)
      BY <2>1 DEF StreamOpens
    <3>3. QED
      BY <2>a, <3>1, <3>2, BackfillOwes
  <2>2. ASSUME NEW p \in Poller, JobsActivated(p)
        PROVE  Discharged
    <3>1. Awaiting(p) /\ poller' = [poller EXCEPT ![p] = Handling(@, backlog >= BatchSize)]
      BY <2>2 DEF JobsActivated, ActivationReturns
    <3>2. poller'[p].phase = "handling"
      BY <2>a, <3>1 DEF Handling, DrainTypeOK, Chain
    <3>3. QED
      BY <3>1, <3>2 DEF Discharged
  <2>3. ASSUME NEW p \in Poller, ActivationRejected(p) \/ BatchHandled(p)
        PROVE  BackfillOwed /\ ~BackfillOwed' => Discharged
    BY <1>1, <2>a, <2>3, HandledOwes, RejectedOwes
  <2>4. ASSUME SidecarDue
        PROVE  BackfillOwed /\ ~BackfillOwed' => Discharged
    <3>1. CASE UNCHANGED <<requested, poller>>
      BY <2>b, <3>1
    <3>2. CASE ~reserved /\ UNCHANGED requested
      <4>1. \A p \in Poller : poller[p].phase = "idle"
        BY <1>1, <3>2 DEF DrainInv, ReservationHeld, Busy
      <4>2. QED
        BY <3>2, <4>1 DEF BackfillOwed
    <3>3. QED
      BY <2>4, <3>1, <3>2 DEF SidecarDue, SidecarFires
  <2>5. QED
    BY <1>1, <2>b, <2>1, <2>2, <2>3, <2>4
    DEF Next, vars, drainVars, CallStreamJobs, JitterElapses, StreamOpenFails,
        JobPushed, StreamLost, StreamReports, ReconnectDue, JobQueued,
        CloseHandle, CloseWorker, CloseSidecar, CloseAllSidecars
<1>2. QED
  BY <1>1, TypeCorrect, DrainInvariant, PTL
  DEF Spec, OwedBackfillKept, Discharged

-------------------------------------------------------------------------------
(* Recovery and shutdown: at most one stream, a recovery that never stalls, and
   a close that leaves nothing behind. *)

(* A stream whose handlers can still run. *)
LiveAttachment(s) ==
  \/ stream[s].phase = "up"
  \/ stream[s].phase = "down" /\ ~stream[s].settled

(* Nothing is armed or in flight before pollAndStream() gets there. *)
StartedInOrder ==
  /\ pc \in {"idle", "jitter", "opening"} =>
       /\ ~reconnectTimer /\ ~sidecarTimer
       /\ \A p \in Poller : ~Busy(p)
  /\ pc \in {"idle", "jitter"} => \A s \in Stream : ~Underway(s)
  /\ pc = "opening" =>
       \A s \in Stream : Underway(s) => stream[s].phase = "opening"
                                       /\ stream[s].by = "main"

(* this.streams and currentStream know exactly the live attachments. *)
AttachmentsKnown ==
  /\ \A s \in Stream : s \in streams <=> LiveAttachment(s)
  /\ streams \subseteq {current}
  /\ \A s \in Stream :
       stream[s].phase \in {"opening", "up"} => ~stream[s].settled

ClosedQuiet == IsClosed => ~reconnectTimer /\ ~sidecarTimer /\ streams = {}

ConnInv ==
  AtMostOneStream /\ StartedInOrder /\ AttachmentsKnown /\ ClosedQuiet

(* close() of the worker reaches an armed sidecar timer through pollTimers. *)
SidecarTracked == sidecarTimer => pollTimers

-------------------------------------------------------------------------------
LEMMA SidecarTrackedStep == SidecarTracked /\ [Next]_vars => SidecarTracked'
<1> SUFFICES ASSUME SidecarTracked, [Next]_vars PROVE SidecarTracked'
  OBVIOUS
<1>a. ASSUME UNCHANGED <<sidecarTimer, pollTimers>> PROVE SidecarTracked'
  BY <1>a DEF SidecarTracked
<1>b. ASSUME StartSidecar \/ SchedulePoll PROVE SidecarTracked'
  BY <1>b DEF StartSidecar, SchedulePoll, SidecarTracked
<1>1. CASE CallStreamJobs \/ JobQueued \/ UNCHANGED vars
  BY <1>1, <1>a DEF CallStreamJobs, JobQueued, vars, drainVars
<1>2. ASSUME NEW s \in Stream,
             \/ JitterElapses(s) \/ StreamOpens(s) \/ JobPushed(s)
             \/ StreamLost(s)
             \/ \E e \in RawEvents, longUp \in BOOLEAN :
                  StreamReports(s, e, longUp)
      PROVE  SidecarTracked'
  BY <1>2, <1>a DEF JitterElapses, StreamOpens, JobPushed, StreamLost,
     StreamReports, drainVars
<1>3. ASSUME NEW s \in Stream, StreamOpenFails(s) PROVE SidecarTracked'
  BY <1>3, <1>a, <1>b DEF StreamOpenFails
<1>4. ASSUME NEW s \in Stream, NEW callbackCloses \in BOOLEAN,
             ReconnectDue(s, callbackCloses)
      PROVE  SidecarTracked'
  BY <1>4, <1>a DEF ReconnectDue, CloseSidecar, SidecarTracked, drainVars
<1>5. ASSUME NEW p \in Poller, JobsActivated(p) PROVE SidecarTracked'
  BY <1>5, <1>a, <1>b DEF JobsActivated, ActivationReturns
<1>6. ASSUME NEW p \in Poller, ActivationRejected(p) \/ BatchHandled(p)
      PROVE  SidecarTracked'
  BY <1>6, <1>a, <1>b DEF ActivationRejected, FirstActivationFails,
     NextActivationFails, BatchHandled, HandlersSettle, FinishDrain
<1>7. CASE SidecarDue
  BY <1>7 DEF SidecarDue, SidecarFires, SidecarTracked
<1>8. CASE CloseHandle \/ CloseWorker
  BY <1>8, <1>a DEF CloseHandle, CloseWorker, HandleCloses, WorkerCloses,
     CloseSidecar, CloseAllSidecars, SidecarTracked, drainVars
<1>9. QED
  BY <1>1, <1>2, <1>3, <1>4, <1>5, <1>6, <1>7, <1>8 DEF Next

LEMMA SidecarIsTracked == Spec => []SidecarTracked
<1>1. Init => SidecarTracked
  BY DEF Init, DrainInit, SidecarTracked
<1>2. QED
  BY <1>1, SidecarTrackedStep, PTL DEF Spec

(* A step that leaves every stream as far underway as it was. *)
LEMMA SameStreams ==
  ASSUME UNCHANGED stream
  PROVE  /\ \A s \in Stream : Underway(s)' <=> Underway(s)
         /\ \A s \in Stream : LiveAttachment(s)' <=> LiveAttachment(s)
BY DEF Underway, LiveAttachment

(* Disposal never brings a stream back. *)
LEMMA DisposalEnds ==
  ASSUME ConnTypeOK, NEW S \in SUBSET Stream, stream' = DisposeAll(S)
  PROVE  \A s \in Stream :
           /\ Underway(s)' => Underway(s)
           /\ LiveAttachment(s)' <=> LiveAttachment(s) /\ s \notin S
           /\ stream'[s].phase \in {"opening", "up"} =>
                stream'[s].settled = stream[s].settled
<1>1. \A s \in Stream :
        stream'[s] = IF s \in S THEN Disposed(stream[s]) ELSE stream[s]
  BY DEF DisposeAll
<1>2. ASSUME NEW s \in Stream, s \in S
      PROVE  /\ Underway(s)' => Underway(s)
             /\ ~LiveAttachment(s)'
             /\ stream'[s].phase \in {"opening", "up"} =>
                  stream'[s].settled = stream[s].settled
  BY <1>1, <1>2 DEF Disposed, Underway, LiveAttachment, ConnTypeOK, RawStream
<1>3. ASSUME NEW s \in Stream, s \notin S
      PROVE  /\ Underway(s)' <=> Underway(s)
             /\ LiveAttachment(s)' <=> LiveAttachment(s)
             /\ stream'[s].phase \in {"opening", "up"} =>
                  stream'[s].settled = stream[s].settled
  BY <1>1, <1>3 DEF Underway, LiveAttachment
<1>4. QED
  BY <1>2, <1>3

(* A step that changes one slot leaves the others underway as they were. *)
LEMMA OtherSlots ==
  ASSUME ConnTypeOK, NEW s \in Stream, NEW r,
         stream' = [stream EXCEPT ![s] = r]
  PROVE  /\ stream'[s] = r
         /\ \A t \in Stream \ {s} :
              /\ Underway(t)' <=> Underway(t)
              /\ LiveAttachment(t)' <=> LiveAttachment(t)
              /\ stream'[t] = stream[t]
BY DEF ConnTypeOK, Underway, LiveAttachment

(* Polling steps: the connection is left alone, and a chain or a sidecar timer
   can only follow from a chain or a sidecar timer. *)
LEMMA PollingKeeps ==
  ASSUME ConnInv, UNCHANGED <<closed, handleClosed, connVars>>,
         pc' # pc => pc' \notin {"idle", "jitter", "opening"},
         pc' \in {"idle", "jitter", "opening"} =>
           ~sidecarTimer' /\ \A p \in Poller : ~Busy(p)',
         IsClosed => ~sidecarTimer'
  PROVE  ConnInv'
<1>1. UNCHANGED <<stream, streams, current, reconnectTimer>>
  BY DEF connVars
<1>2. AtMostOneStream' /\ AttachmentsKnown'
  BY <1>1, SameStreams DEF ConnInv, AtMostOneStream, AttachmentsKnown
<1>3. StartedInOrder'
  BY <1>1, SameStreams DEF ConnInv, StartedInOrder
<1>4. ClosedQuiet'
  BY <1>1 DEF ConnInv, ClosedQuiet, IsClosed
<1>5. QED
  BY <1>2, <1>3, <1>4 DEF ConnInv

LEMMA PollingSteps ==
  ASSUME TypeOK, ConnInv, NEW p \in Poller,
         JobsActivated(p) \/ ActivationRejected(p) \/ BatchHandled(p)
  PROVE  ConnInv'
<1>1. Busy(p)
  BY DEF JobsActivated, ActivationReturns, Awaiting, ActivationRejected,
     FirstActivationFails, NextActivationFails, BatchHandled, HandlersSettle,
     Busy
<1>2. pc \notin {"idle", "jitter", "opening"}
  BY <1>1 DEF ConnInv, StartedInOrder
<1>3. /\ UNCHANGED <<closed, handleClosed, connVars>>
      /\ pc' \notin {"idle", "jitter", "opening"}
  BY <1>2 DEF JobsActivated, ActivationReturns, ActivationRejected,
     FirstActivationFails, NextActivationFails, BatchHandled, callVars
<1>4. IsClosed => ~sidecarTimer'
  BY DEF JobsActivated, ActivationReturns, ActivationRejected, StartSidecar,
     FirstActivationFails, NextActivationFails, BatchHandled, HandlersSettle,
     FinishDrain, SchedulePoll, ConnInv, ClosedQuiet
<1>5. QED
  BY <1>3, <1>4, PollingKeeps

LEMMA SidecarStep == ASSUME ConnInv, SidecarDue PROVE ConnInv'
<1>1. sidecarTimer
  BY DEF SidecarDue, SidecarFires
<1>2. pc \notin {"idle", "jitter", "opening"} /\ ~IsClosed
  BY <1>1 DEF ConnInv, StartedInOrder, ClosedQuiet
<1>3. UNCHANGED <<pc, closed, handleClosed, connVars>>
  BY DEF SidecarDue, callVars
<1>4. QED
  BY <1>2, <1>3, PollingKeeps

-------------------------------------------------------------------------------
(* Steps of one stream. *)
LEMMA OpensStep ==
  ASSUME TypeOK, ConnInv, NEW s \in Stream, StreamOpens(s)
  PROVE  ConnInv'
<1>a. ConnTypeOK
  BY DEF TypeOK
<1>b. stream[s].phase = "opening" /\ ~stream[s].settled /\ Underway(s)
  BY DEF StreamOpens, OpenStreamOk, Underway, ConnInv, AttachmentsKnown
<1>c. ~reconnectTimer /\ \A t \in Stream : Underway(t) => t = s
  BY <1>b DEF ConnInv, AtMostOneStream
<1>d. UNCHANGED <<closed, handleClosed, reconnectTimer, sidecarTimer>>
  BY DEF StreamOpens, OpenStreamOk
<1>e. streams = {}
  BY <1>b, <1>c DEF ConnInv, AttachmentsKnown, LiveAttachment, Underway,
     TypeOK, ConnTypeOK
<1>f. pc \notin {"idle", "jitter"}
  BY <1>b DEF ConnInv, StartedInOrder
<1>1. PICK r : stream' = [stream EXCEPT ![s] = r]
  BY <1>a DEF StreamOpens, OpenStreamOk, ConnTypeOK
<1>2. \A t \in Stream : Underway(t)' => t = s
  BY <1>a, <1>c, <1>1, OtherSlots
<1>3. AtMostOneStream'
  BY <1>2, <1>c, <1>d DEF AtMostOneStream
<1>4. AttachmentsKnown'
  <2>1. \A t \in Stream \ {s} : t \notin streams' /\ ~LiveAttachment(t)'
                                /\ stream'[t] = stream[t]
    BY <1>a, <1>e, <1>1, OtherSlots
    DEF StreamOpens, OpenStreamOk, ConnInv, AttachmentsKnown
  <2>2. CASE IsClosed
    <3>1. stream'[s] = FreeSlot /\ streams' = {}
      BY <2>2, <1>a, <1>e DEF StreamOpens, OpenStreamOk, ConnTypeOK
    <3>2. QED
      BY <3>1, <2>1 DEF ConnInv, AttachmentsKnown, LiveAttachment, FreeSlot
  <2>3. CASE ~IsClosed
    <3>1. /\ stream'[s] = Attached(stream[s])
          /\ streams' = {s} /\ current' = s
      BY <2>3, <1>a, <1>e DEF StreamOpens, OpenStreamOk, ConnTypeOK
    <3>2. stream'[s].phase = "up" /\ ~stream'[s].settled
      BY <3>1, <1>a, <1>b DEF Attached, ConnTypeOK, RawStream
    <3>3. QED
      BY <3>1, <3>2, <2>1 DEF ConnInv, AttachmentsKnown, LiveAttachment
  <2>4. QED
    BY <2>2, <2>3
<1>5. ClosedQuiet'
  BY <1>c, <1>d, <1>e DEF StreamOpens, OpenStreamOk, ConnInv, ClosedQuiet,
     IsClosed
<1>6. pc' \notin {"idle", "jitter", "opening"}
  <2>1. CASE stream[s].by = "main"
    BY <2>1 DEF StreamOpens
  <2>2. CASE stream[s].by = "reconnect"
    BY <2>2, <1>b, <1>f DEF StreamOpens, ConnInv, StartedInOrder
  <2>3. QED
    BY <2>1, <2>2, <1>a DEF ConnTypeOK, RawStream, Openers
<1>7. QED
  BY <1>3, <1>4, <1>5, <1>6 DEF ConnInv, StartedInOrder

LEMMA OpenFailsStep ==
  ASSUME TypeOK, ConnInv, NEW s \in Stream, StreamOpenFails(s)
  PROVE  ConnInv'
<1>a. ConnTypeOK
  BY DEF TypeOK
<1>b. stream[s].phase = "opening" /\ Underway(s)
  BY DEF StreamOpenFails, OpenStreamError, Underway
<1>c. \A t \in Stream : Underway(t) => t = s
  BY <1>b DEF ConnInv, AtMostOneStream
<1>d. UNCHANGED <<closed, handleClosed, streams, current>>
  BY DEF StreamOpenFails, OpenStreamError
<1>e. stream' = [stream EXCEPT ![s] = FreeSlot]
  BY DEF StreamOpenFails, OpenStreamError
<1>1. \A t \in Stream : ~Underway(t)'
  <2>1. stream'[s] = FreeSlot /\ \A t \in Stream \ {s} : ~Underway(t)'
    BY <1>a, <1>c, <1>e, OtherSlots
  <2>2. ~Underway(s)'
    BY <2>1 DEF Underway, FreeSlot
  <2>3. QED
    BY <2>1, <2>2
<1>2. AtMostOneStream'
  BY <1>1 DEF AtMostOneStream
<1>3. AttachmentsKnown'
  <2>1. \A t \in Stream \ {s} : (LiveAttachment(t)' <=> LiveAttachment(t))
                                /\ stream'[t] = stream[t]
    BY <1>a, <1>e, OtherSlots
  <2>2. ~LiveAttachment(s) /\ ~LiveAttachment(s)' /\ stream'[s] = FreeSlot
    BY <1>a, <1>b, <1>e DEF LiveAttachment, FreeSlot, ConnTypeOK
  <2>3. QED
    BY <2>1, <2>2, <1>d DEF ConnInv, AttachmentsKnown, FreeSlot
<1>4. IsClosed => UNCHANGED reconnectTimer /\ UNCHANGED sidecarTimer
  BY DEF StreamOpenFails, OpenStreamError, StartSidecar, SchedulePoll
<1>5. ClosedQuiet'
  BY <1>4, <1>d DEF ConnInv, ClosedQuiet, IsClosed
<1>6. pc' \notin {"idle", "jitter", "opening"}
  <2>1. CASE stream[s].by = "main"
    BY <2>1 DEF StreamOpenFails
  <2>2. CASE stream[s].by = "reconnect"
    BY <2>2, <1>b DEF StreamOpenFails, ConnInv, StartedInOrder
  <2>3. QED
    BY <2>1, <2>2, <1>a DEF ConnTypeOK, RawStream, Openers
<1>7. QED
  BY <1>2, <1>3, <1>5, <1>6 DEF ConnInv, StartedInOrder

(* A job arrives, or the stream is lost: it stays a live attachment. *)
LEMMA UpStep ==
  ASSUME TypeOK, ConnInv, NEW s \in Stream, JobPushed(s) \/ StreamLost(s)
  PROVE  ConnInv'
<1>a. ConnTypeOK
  BY DEF TypeOK
<1>b. stream[s].phase = "up" /\ ~stream[s].settled /\ Underway(s)
  BY DEF JobPushed, StreamData, StreamLost, StreamDrops, Underway, ConnInv,
     AttachmentsKnown
<1>c. UNCHANGED <<pc, closed, handleClosed, reconnectTimer, current, streams,
                  sidecarTimer, poller>>
  BY DEF JobPushed, StreamData, StreamLost, StreamDrops, callVars, drainVars
<1>d. PICK r \in RawStream :
        /\ stream' = [stream EXCEPT ![s] = r]
        /\ r.phase \in {"up", "down"} /\ ~r.settled
  <2>1. CASE JobPushed(s)
    <3>. DEFINE r == [stream[s] EXCEPT !.received = TRUE]
    <3>1. stream' = [stream EXCEPT ![s] = r]
      BY <2>1, <1>a DEF JobPushed, StreamData, ConnTypeOK
    <3>2. r \in RawStream /\ r.phase = "up" /\ ~r.settled
      BY <1>a, <1>b DEF ConnTypeOK, RawStream
    <3>3. QED
      BY <3>1, <3>2
  <2>2. CASE StreamLost(s)
    <3>. DEFINE r == [stream[s] EXCEPT !.phase = "down", !.events = RawEvents]
    <3>1. stream' = [stream EXCEPT ![s] = r]
      BY <2>2, <1>a DEF StreamLost, StreamDrops, ConnTypeOK
    <3>2. r \in RawStream /\ r.phase = "down" /\ ~r.settled
      BY <1>a, <1>b DEF ConnTypeOK, RawStream, Phases
    <3>3. QED
      BY <3>1, <3>2
  <2>3. QED
    BY <2>1, <2>2
<1>1. \A t \in Stream : /\ Underway(t)' <=> Underway(t)
                        /\ LiveAttachment(t)' <=> LiveAttachment(t)
  BY <1>a, <1>b, <1>d, OtherSlots DEF Underway, LiveAttachment
<1>2. AtMostOneStream'
  BY <1>1, <1>c DEF ConnInv, AtMostOneStream
<1>3. AttachmentsKnown'
  BY <1>a, <1>1, <1>c, <1>d, OtherSlots DEF ConnInv, AttachmentsKnown
<1>4. pc' \notin {"idle", "jitter", "opening"}
  BY <1>b, <1>c DEF ConnInv, StartedInOrder
<1>5. ClosedQuiet'
  BY <1>c DEF ConnInv, ClosedQuiet, IsClosed
<1>6. QED
  BY <1>2, <1>3, <1>4, <1>5 DEF ConnInv, StartedInOrder

LEMMA ReportsStep ==
  ASSUME TypeOK, ConnInv, NEW s \in Stream, NEW e \in RawEvents,
         NEW longUp \in BOOLEAN, StreamReports(s, e, longUp)
  PROVE  ConnInv'
<1>a. ConnTypeOK
  BY DEF TypeOK
<1>b. stream[s].phase = "down"
  BY DEF StreamReports, StreamEvent
<1>c. UNCHANGED <<pc, closed, handleClosed, sidecarTimer, poller>>
  BY DEF StreamReports, callVars, drainVars
<1>d. PICK r : /\ stream' = [stream EXCEPT ![s] = r]
               /\ r.phase \in {"free", "down"}
               /\ r.phase = "down" => r.settled
  <2>1. stream' = [stream EXCEPT ![s] = AfterEvent(stream[s], e)]
    BY <1>a DEF StreamReports, StreamEvent, ConnTypeOK
  <2>2. /\ AfterEvent(stream[s], e).phase \in {"free", "down"}
        /\ AfterEvent(stream[s], e).phase = "down" =>
             AfterEvent(stream[s], e).settled
    BY <1>a, <1>b DEF AfterEvent, FreeSlot, ConnTypeOK, RawStream
  <2>3. QED
    BY <2>1, <2>2
<1>1. ~Underway(s)' /\ ~LiveAttachment(s)'
  <2>1. stream'[s] = r
    BY <1>a, <1>d, OtherSlots
  <2>2. QED
    BY <2>1, <1>d DEF Underway, LiveAttachment
<1>2. \A t \in Stream \ {s} : /\ Underway(t)' <=> Underway(t)
                              /\ LiveAttachment(t)' <=> LiveAttachment(t)
                              /\ stream'[t] = stream[t]
  BY <1>a, <1>d, OtherSlots
<1>3. CASE stream[s].settled
  <2>1. UNCHANGED <<reconnectTimer, current, streams>>
    BY <1>3 DEF StreamReports, StreamEvent
  <2>2. ~LiveAttachment(s)
    BY <1>3, <1>b DEF LiveAttachment
  <2>3. AtMostOneStream'
    BY <2>1, <1>1, <1>2 DEF ConnInv, AtMostOneStream
  <2>4. AttachmentsKnown'
    BY <2>1, <2>2, <1>a, <1>1, <1>2, <1>d, OtherSlots
    DEF ConnInv, AttachmentsKnown
  <2>5. StartedInOrder'
    BY <2>1, <1>1, <1>2, <1>c DEF ConnInv, StartedInOrder, Busy
  <2>6. QED
    BY <2>1, <2>3, <2>4, <2>5, <1>c DEF ConnInv, ClosedQuiet, IsClosed
<1>4. CASE ~stream[s].settled
  <2>1. Underway(s) /\ \A t \in Stream : Underway(t) => t = s
    BY <1>4, <1>b DEF Underway, ConnInv, AtMostOneStream
  <2>2. AtMostOneStream'
    BY <2>1, <1>1, <1>2 DEF AtMostOneStream
  <2>3. /\ streams' = streams \ {s}
        /\ current' = IF current = s THEN NoStream ELSE current
    BY <1>4 DEF StreamReports, StreamEvent
  <2>4. AttachmentsKnown'
    <3>1. \A t \in Stream : t \in streams' <=> LiveAttachment(t)'
      BY <2>3, <1>1, <1>2 DEF ConnInv, AttachmentsKnown
    <3>2. streams' \subseteq {current'}
      BY <2>3 DEF ConnInv, AttachmentsKnown
    <3>3. \A t \in Stream :
            stream'[t].phase \in {"opening", "up"} => ~stream'[t].settled
      BY <1>a, <1>2, <1>d, OtherSlots DEF ConnInv, AttachmentsKnown
    <3>4. QED
      BY <3>1, <3>2, <3>3 DEF AttachmentsKnown
  <2>5. pc' \notin {"idle", "jitter", "opening"}
    BY <2>1, <1>b, <1>c DEF ConnInv, StartedInOrder
  <2>6. IsClosed => UNCHANGED reconnectTimer
    BY <1>4 DEF StreamReports, StreamEvent, OnStreamDown
  <2>7. ClosedQuiet'
    BY <2>3, <2>6, <1>c DEF ConnInv, ClosedQuiet, IsClosed
  <2>8. QED
    BY <2>2, <2>4, <2>5, <2>7 DEF ConnInv, StartedInOrder
<1>5. QED
  BY <1>3, <1>4

(* An open starts: nothing else was underway. *)
LEMMA StartsOpening ==
  ASSUME ConnTypeOK, AttachmentsKnown, NEW s \in Stream,
         NEW by \in Openers, StartOpen(s, by),
         \A t \in Stream : ~Underway(t), streams' \subseteq streams
  PROVE  /\ \A t \in Stream : Underway(t)' => t = s
         /\ stream'[s].phase = "opening" /\ stream'[s].by = by
         /\ streams' = {}
         /\ AttachmentsKnown'
<1>a. stream' = [stream EXCEPT ![s] = OpeningSlot(by)]
  BY DEF StartOpen
<1>1. /\ stream'[s] = OpeningSlot(by)
      /\ \A t \in Stream \ {s} : /\ ~Underway(t)'
                                 /\ ~LiveAttachment(t)'
                                 /\ stream'[t] = stream[t]
  BY <1>a, OtherSlots DEF Underway, LiveAttachment
<1>2. streams = {}
  BY DEF AttachmentsKnown, Underway, LiveAttachment, ConnTypeOK
<1>3. stream'[s].phase = "opening" /\ stream'[s].by = by /\ ~stream'[s].settled
  BY <1>1 DEF OpeningSlot, FreeSlot
<1>4. AttachmentsKnown'
  BY <1>1, <1>2, <1>3 DEF AttachmentsKnown, LiveAttachment
<1>5. QED
  BY <1>1, <1>2, <1>3, <1>4

LEMMA JitterStep ==
  ASSUME TypeOK, ConnInv, NEW s \in Stream, JitterElapses(s)
  PROVE  ConnInv'
<1>a. /\ pc = "jitter" /\ pc' = "opening"
      /\ StartOpen(s, "main")
      /\ UNCHANGED <<closed, handleClosed, reconnectTimer, current, streams,
                     sidecarTimer, poller>>
  BY DEF JitterElapses, drainVars
<1>b. /\ ~reconnectTimer /\ ~sidecarTimer
      /\ \A t \in Stream : ~Underway(t)
      /\ \A p \in Poller : ~Busy(p)
  BY <1>a DEF ConnInv, StartedInOrder
<1>1. /\ \A t \in Stream : Underway(t)' => t = s
      /\ stream'[s].phase = "opening" /\ stream'[s].by = "main"
      /\ streams' = {}
      /\ AttachmentsKnown'
  BY <1>a, <1>b, StartsOpening DEF TypeOK, ConnInv, Openers
<1>2. AtMostOneStream'
  BY <1>a, <1>b, <1>1 DEF AtMostOneStream
<1>3. StartedInOrder'
  BY <1>a, <1>b, <1>1 DEF StartedInOrder, Busy
<1>4. ClosedQuiet'
  BY <1>a, <1>b, <1>1 DEF ClosedQuiet, IsClosed
<1>5. QED
  BY <1>1, <1>2, <1>3, <1>4 DEF ConnInv

LEMMA ReconnectStep ==
  ASSUME TypeOK, ConnInv, NEW s \in Stream, NEW callbackCloses \in BOOLEAN,
         ReconnectDue(s, callbackCloses)
  PROVE  ConnInv'
<1>a. reconnectTimer /\ ~IsClosed /\ StartOpen(s, "reconnect")
  BY DEF ReconnectDue, ReconnectFires
<1>b. /\ ~reconnectTimer'
      /\ streams' \subseteq streams
      /\ UNCHANGED <<pc, closed, poller>>
  BY DEF ReconnectDue, ReconnectFires, CloseConnection, CloseSidecar, drainVars
<1>c. \A t \in Stream : ~Underway(t)
  BY <1>a DEF ConnInv, AtMostOneStream
<1>1. /\ \A t \in Stream : Underway(t)' => t = s
      /\ streams' = {}
      /\ AttachmentsKnown'
  BY <1>a, <1>b, <1>c, StartsOpening DEF TypeOK, ConnInv, Openers
<1>2. AtMostOneStream'
  BY <1>b, <1>1 DEF AtMostOneStream
<1>3. pc' \notin {"idle", "jitter", "opening"}
  BY <1>a, <1>b DEF ConnInv, StartedInOrder
<1>4. ClosedQuiet'
  <2>1. CASE callbackCloses
    BY <2>1, <1>b, <1>1 DEF ReconnectDue, CloseSidecar, ClosedQuiet
  <2>2. CASE ~callbackCloses
    BY <2>2, <1>a, <1>b DEF ReconnectDue, ClosedQuiet, IsClosed
  <2>3. QED
    BY <2>1, <2>2
<1>5. QED
  BY <1>1, <1>2, <1>3, <1>4 DEF ConnInv, StartedInOrder

-------------------------------------------------------------------------------
(* Closing *)
LEMMA CloseStep ==
  ASSUME TypeOK, ConnInv, SidecarTracked, CloseHandle \/ CloseWorker
  PROVE  ConnInv'
<1>a. ConnTypeOK
  BY DEF TypeOK
<1>1. CASE CloseWorker /\ pc = "idle"
  <2>1. UNCHANGED <<pc, handleClosed, connVars, sidecarTimer, poller>>
    BY <1>1 DEF CloseWorker, drainVars
  <2>2. UNCHANGED <<stream, streams, current, reconnectTimer>>
    BY <2>1 DEF connVars
  <2>3. /\ ~reconnectTimer /\ ~sidecarTimer
        /\ \A t \in Stream : ~Underway(t)
    BY <1>1 DEF ConnInv, StartedInOrder
  <2>4. streams = {}
    BY <2>3, <1>a DEF ConnInv, AttachmentsKnown, Underway, LiveAttachment,
       ConnTypeOK
  <2>5. AtMostOneStream' /\ AttachmentsKnown'
    BY <2>2, SameStreams DEF ConnInv, AtMostOneStream, AttachmentsKnown
  <2>6. StartedInOrder'
    BY <2>1, <2>2, SameStreams DEF ConnInv, StartedInOrder, Busy
  <2>7. QED
    BY <2>1, <2>2, <2>3, <2>4, <2>5, <2>6 DEF ConnInv, ClosedQuiet
<1>2. CASE CloseHandle \/ (CloseWorker /\ pc # "idle")
  <2>1. PICK S \in SUBSET Stream :
          stream' = DisposeAll(S) /\ \A t \in Stream : t \in streams => t \in S
    <3>1. CASE CloseHandle
      <4>1. stream' = DisposeAll({current} \cap Stream)
        BY <3>1 DEF CloseHandle, HandleCloses, DisposeAll
      <4>2. \A t \in Stream : t \in streams => t \in {current} \cap Stream
        BY DEF ConnInv, AttachmentsKnown
      <4>3. QED
        BY <4>1, <4>2
    <3>2. CASE CloseWorker /\ pc # "idle"
      BY <3>2, <1>a DEF CloseWorker, WorkerCloses, ConnTypeOK
    <3>3. QED
      BY <1>2, <3>1, <3>2
  <2>2. /\ ~reconnectTimer' /\ ~sidecarTimer'
        /\ streams' = {}
        /\ UNCHANGED <<pc, poller>>
    BY <1>2 DEF CloseHandle, HandleCloses, CloseConnection, CloseSidecar,
       CloseWorker, WorkerCloses, CloseAllSidecars, ConnInv, AttachmentsKnown,
     SidecarTracked
  <2>3. \A t \in Stream :
          /\ Underway(t)' => Underway(t)
          /\ ~LiveAttachment(t)'
          /\ stream'[t].phase \in {"opening", "up"} => ~stream'[t].settled
    <3>1. \A t \in Stream :
            stream'[t].phase \in {"opening", "up"} => ~stream'[t].settled
      BY <1>a, <2>1 DEF DisposeAll, Disposed, ConnInv, AttachmentsKnown,
         ConnTypeOK, RawStream
    <3>2. QED
      BY <3>1, <1>a, <2>1, DisposalEnds DEF ConnInv, AttachmentsKnown
  <2>4. \A t \in Stream : Underway(t)' => UNCHANGED stream[t]
    BY <2>1, <2>3, <1>a
    DEF DisposeAll, Disposed, Underway, LiveAttachment, ConnTypeOK, RawStream
  <2>5. AtMostOneStream'
    BY <2>2, <2>3 DEF ConnInv, AtMostOneStream
  <2>6. StartedInOrder'
    BY <2>2, <2>3, <2>4 DEF ConnInv, StartedInOrder, Busy
  <2>7. AttachmentsKnown' /\ ClosedQuiet'
    BY <2>2, <2>3 DEF AttachmentsKnown, ClosedQuiet
  <2>8. QED
    BY <2>5, <2>6, <2>7 DEF ConnInv
<1>3. (CloseWorker /\ pc = "idle") \/ CloseHandle \/ (CloseWorker /\ pc # "idle")
  OBVIOUS
<1>4. QED
  BY <1>1, <1>2, <1>3

LEMMA IdleSteps ==
  ASSUME ConnInv, CallStreamJobs \/ JobQueued \/ UNCHANGED vars
  PROVE  ConnInv'
<1>1. UNCHANGED <<closed, handleClosed, reconnectTimer, current, streams,
                  stream, sidecarTimer, poller>>
  BY DEF CallStreamJobs, JobQueued, vars, callVars, connVars, drainVars
<1>2. pc' = pc \/ (pc = "idle" /\ pc' \in {"jitter", "returned"})
  BY DEF CallStreamJobs, JobQueued, vars, callVars
<1>3. AtMostOneStream' /\ AttachmentsKnown'
  BY <1>1, SameStreams DEF ConnInv, AtMostOneStream, AttachmentsKnown
<1>4. StartedInOrder'
  BY <1>1, <1>2, SameStreams DEF ConnInv, StartedInOrder, Busy
<1>5. ClosedQuiet'
  BY <1>1 DEF ConnInv, ClosedQuiet, IsClosed
<1>6. QED
  BY <1>3, <1>4, <1>5 DEF ConnInv

LEMMA ConnInvStep ==
  TypeOK /\ ConnInv /\ SidecarTracked /\ [Next]_vars => ConnInv'
<1> SUFFICES ASSUME TypeOK, ConnInv, SidecarTracked, [Next]_vars PROVE ConnInv'
  OBVIOUS
<1>1. CASE CallStreamJobs \/ JobQueued \/ UNCHANGED vars
  BY <1>1, IdleSteps
<1>2. ASSUME NEW s \in Stream, JitterElapses(s) PROVE ConnInv'
  BY <1>2, JitterStep
<1>3. ASSUME NEW s \in Stream, StreamOpens(s) PROVE ConnInv'
  BY <1>3, OpensStep
<1>4. ASSUME NEW s \in Stream, StreamOpenFails(s) PROVE ConnInv'
  BY <1>4, OpenFailsStep
<1>5. ASSUME NEW s \in Stream, JobPushed(s) \/ StreamLost(s) PROVE ConnInv'
  BY <1>5, UpStep
<1>6. ASSUME NEW s \in Stream, NEW e \in RawEvents, NEW longUp \in BOOLEAN,
             StreamReports(s, e, longUp)
      PROVE ConnInv'
  BY <1>6, ReportsStep
<1>7. ASSUME NEW s \in Stream, NEW callbackCloses \in BOOLEAN,
             ReconnectDue(s, callbackCloses)
      PROVE ConnInv'
  BY <1>7, ReconnectStep
<1>8. ASSUME NEW p \in Poller,
             JobsActivated(p) \/ ActivationRejected(p) \/ BatchHandled(p)
      PROVE ConnInv'
  BY <1>8, PollingSteps
<1>9. CASE SidecarDue
  BY <1>9, SidecarStep
<1>10. CASE CloseHandle \/ CloseWorker
  BY <1>10, CloseStep
<1>11. QED
  BY <1>1, <1>2, <1>3, <1>4, <1>5, <1>6, <1>7, <1>8, <1>9, <1>10 DEF Next

LEMMA ConnInvariant == Spec => []ConnInv
<1>1. Init => ConnInv
  BY DEF Init, CallInit, ConnInit, DrainInit, ConnInv, AtMostOneStream,
     StartedInOrder, AttachmentsKnown, ClosedQuiet, IsClosed, Underway,
     LiveAttachment, Busy, FreeSlot, IdleChain
<1>2. QED
  BY <1>1, ConnInvStep, SidecarIsTracked, TypeCorrect, PTL DEF Spec

(* The error, end and close of a dead stream never lead to two streams, nor to
   a reconnect timer beside a stream. *)
THEOREM StreamIsSingle == Spec => []AtMostOneStream
<1>1. ConnInv => AtMostOneStream
  BY DEF ConnInv
<1>2. QED
  BY <1>1, ConnInvariant, PTL

(* After close() of the handle or the worker no timer is armed and no attached
   stream reaches a handler, whatever was in flight when it was called. *)
THEOREM CloseIsFinal == Spec => []NothingOutlivesClose
<1>1. TypeOK /\ ConnInv => NothingOutlivesClose
  BY DEF TypeOK, ConnTypeOK, RawStream, Phases, ConnInv, ClosedQuiet,
     AttachmentsKnown, LiveAttachment, NothingOutlivesClose, Underway
<1>2. QED
  BY <1>1, ConnInvariant, TypeCorrect, PTL

-------------------------------------------------------------------------------
(* Recovery never stalls.  Inductive beside ConnInv: whatever ends a stream's
   being underway arms the timer, and whatever consumes the timer opens one. *)
Recovering == reconnectTimer \/ \E s \in Stream : Underway(s)

LEMMA StreamDownRecovers ==
  ASSUME NEW f, ReconnectEnabled, ~IsClosed, OnStreamDown(f)
  PROVE  reconnectTimer'
BY DEF OnStreamDown, ScheduleReconnect

LEMMA NeverStalledStep ==
  TypeOK /\ ConnInv /\ NeverStalled /\ [Next]_vars => NeverStalled'
<1> SUFFICES ASSUME TypeOK, ConnInv, NeverStalled, [Next]_vars,
                    ReconnectEnabled, ~IsClosed', pc' \notin {"idle", "jitter"}
             PROVE  Recovering'
  BY DEF NeverStalled, Recovering
<1>a. ConnTypeOK
  BY DEF TypeOK
<1>b. ~IsClosed
  BY DEF IsClosed, Next, vars, callVars, CallStreamJobs, JitterElapses,
     StreamOpens, StreamOpenFails, JobPushed, StreamLost, StreamReports,
     ReconnectDue, JobQueued, JobsActivated, ActivationRejected, BatchHandled,
     SidecarDue, CloseHandle, CloseWorker
<1>c. ASSUME pc \notin {"idle", "jitter"}, UNCHANGED <<stream, reconnectTimer>>
      PROVE  Recovering'
  BY <1>b, <1>c, SameStreams DEF NeverStalled, Recovering
<1>1. CASE CallStreamJobs
  BY <1>1, <1>b DEF CallStreamJobs, IsClosed
<1>2. ASSUME NEW s \in Stream, StartOpen(s, "main") \/ StartOpen(s, "reconnect")
      PROVE  Recovering'
  <2>1. stream'[s].phase = "opening"
    BY <1>2, <1>a DEF StartOpen, OpeningSlot, FreeSlot, ConnTypeOK
  <2>2. QED
    BY <2>1 DEF Recovering, Underway
<1>3. ASSUME NEW s \in Stream, StreamOpens(s) PROVE Recovering'
  <2>1. stream'[s] = Attached(stream[s])
    BY <1>3, <1>a, <1>b DEF StreamOpens, OpenStreamOk, ConnTypeOK
  <2>2. stream'[s].phase = "up"
    BY <2>1, <1>a DEF Attached, ConnTypeOK, RawStream
  <2>3. QED
    BY <2>2 DEF Recovering, Underway
<1>4. ASSUME NEW s \in Stream, StreamOpenFails(s) PROVE Recovering'
  BY <1>4, <1>b, StreamDownRecovers
  DEF StreamOpenFails, OpenStreamError, Recovering
<1>5. ASSUME NEW s \in Stream, JobPushed(s) \/ StreamLost(s) PROVE Recovering'
  <2>1. stream[s].phase = "up" /\ ~stream[s].settled
    BY <1>5 DEF JobPushed, StreamData, StreamLost, StreamDrops, ConnInv,
       AttachmentsKnown
  <2>2. stream'[s].phase \in {"up", "down"} /\ ~stream'[s].settled
    BY <2>1, <1>5, <1>a DEF JobPushed, StreamData, StreamLost, StreamDrops,
       ConnTypeOK, RawStream
  <2>3. QED
    BY <2>2 DEF Recovering, Underway
<1>6. ASSUME NEW s \in Stream, NEW e \in RawEvents, NEW longUp \in BOOLEAN,
             StreamReports(s, e, longUp)
      PROVE  Recovering'
  <2>1. CASE stream[s].settled
    <3>1. ~Underway(s) /\ pc' = pc /\ UNCHANGED reconnectTimer
      BY <1>6, <2>1 DEF StreamReports, StreamEvent, Underway, callVars
    <3>2. reconnectTimer \/ \E t \in Stream \ {s} : Underway(t)
      BY <3>1, <1>b DEF NeverStalled
    <3>3. \A t \in Stream \ {s} : Underway(t)' <=> Underway(t)
      BY <1>6, <1>a, OtherSlots DEF StreamReports, StreamEvent
    <3>4. QED
      BY <3>1, <3>2, <3>3 DEF Recovering
  <2>2. CASE ~stream[s].settled
    <3>1. PICK f : OnStreamDown(f)
      BY <1>6, <2>2 DEF StreamReports, StreamEvent
    <3>2. QED
      BY <3>1, <1>b, StreamDownRecovers DEF Recovering
  <2>3. QED
    BY <2>1, <2>2
<1>7. ASSUME NEW p \in Poller,
             JobsActivated(p) \/ ActivationRejected(p) \/ BatchHandled(p)
      PROVE  Recovering'
  <2>1. Busy(p)
    BY <1>7 DEF JobsActivated, ActivationReturns, Awaiting, ActivationRejected,
       FirstActivationFails, NextActivationFails, BatchHandled, HandlersSettle,
       Busy
  <2>2. pc \notin {"idle", "jitter"}
    BY <2>1 DEF ConnInv, StartedInOrder
  <2>3. UNCHANGED <<stream, reconnectTimer>>
    BY <1>7 DEF JobsActivated, ActivationRejected, BatchHandled, connVars
  <2>4. QED
    BY <2>2, <2>3, <1>c
<1>8. CASE JobQueued \/ SidecarDue \/ UNCHANGED vars
  BY <1>8, <1>c DEF JobQueued, SidecarDue, vars, callVars, connVars
<1>9. CASE CloseHandle \/ CloseWorker
  BY <1>9 DEF CloseHandle, CloseWorker, IsClosed
<1>10. QED
  BY <1>1, <1>2, <1>3, <1>4, <1>5, <1>6, <1>7, <1>8, <1>9
  DEF Next, JitterElapses, ReconnectDue, ReconnectFires

(* While the call is open and reconnection is enabled, a stream is underway or
   a reconnect timer is armed: no order of failures ends the recovery. *)
THEOREM RecoveryNeverStalls == Spec => []NeverStalled
<1>1. Init => NeverStalled
  BY DEF Init, CallInit, NeverStalled
<1>2. QED
  BY <1>1, NeverStalledStep, ConnInvariant, TypeCorrect, PTL DEF Spec

-------------------------------------------------------------------------------
(* A deferred backfill while the worker serves. *)

(* A deferral is kept for a chain in flight.  Unlike the property it proves, it
   speaks of every control state: a call may begin to serve with a deferral. *)
DeferralHeld == requested /\ ~IsClosed => reserved

(* The first activation of a chain is rejected. *)
ChainRejected ==
  \E p \in Poller :
    poller[p].phase = "activating" /\ poller'[p].phase = "idle"

LEMMA DeferralStep ==
  ASSUME TypeOK, DeferralHeld, [Next]_vars
  PROVE  DeferralHeld' \/ (ActivationsMayFail /\ ChainRejected)
<1>a. ASSUME UNCHANGED <<reserved, requested>>, IsClosed => IsClosed'
      PROVE  DeferralHeld'
  BY <1>a DEF DeferralHeld
<1>b. UNCHANGED <<closed, handleClosed>> => (IsClosed => IsClosed')
  BY DEF IsClosed
<1>c. ASSUME requested' = FALSE PROVE DeferralHeld'
  BY <1>c DEF DeferralHeld
<1>1. ASSUME NEW s \in Stream, StreamOpens(s) PROVE DeferralHeld'
  <2>1. UNCHANGED <<closed, handleClosed>>
    BY <1>1 DEF StreamOpens
  <2>2. CASE UNCHANGED <<reserved, requested>>
    BY <2>1, <2>2, <1>a, <1>b
  <2>3. CASE reserved /\ UNCHANGED reserved
    BY <2>3 DEF DeferralHeld
  <2>4. CASE Activate(poller, stream[s].by)
    BY <2>4 DEF Activate, DeferralHeld
  <2>5. QED
    BY <2>2, <2>3, <2>4, <1>1 DEF StreamOpens, Backfill
<1>2. ASSUME NEW p \in Poller, JobsActivated(p) PROVE DeferralHeld'
  BY <1>2, <1>a, <1>b DEF JobsActivated, ActivationReturns
<1>3. ASSUME NEW p \in Poller, ActivationRejected(p)
      PROVE  DeferralHeld' \/ (ActivationsMayFail /\ ChainRejected)
  <2>1. CASE FirstActivationFails(p)
    <3>1. poller[p].phase = "activating" /\ poller'[p].phase = "idle"
      BY <2>1 DEF FirstActivationFails, IdleChain, TypeOK, DrainTypeOK
    <3>2. QED
      BY <3>1, <1>3 DEF ChainRejected, ActivationRejected
  <2>2. CASE NextActivationFails(p)
    BY <2>2, <1>c DEF NextActivationFails, FinishDrain
  <2>3. QED
    BY <2>1, <2>2, <1>3 DEF ActivationRejected
<1>4. ASSUME NEW p \in Poller, BatchHandled(p) PROVE DeferralHeld'
  <2>1. UNCHANGED <<closed, handleClosed>>
    BY <1>4 DEF BatchHandled, callVars
  <2>2. CASE requested' = FALSE
    BY <2>2, <1>c
  <2>3. CASE UNCHANGED <<reserved, requested>>
    BY <2>1, <2>3, <1>a, <1>b
  <2>4. QED
    BY <2>2, <2>3, <1>4 DEF BatchHandled, HandlersSettle, FinishDrain
<1>5. CASE SidecarDue
  <2>1. UNCHANGED <<closed, handleClosed, requested>>
    BY <1>5 DEF SidecarDue, SidecarFires, callVars
  <2>2. CASE UNCHANGED reserved
    BY <2>1, <2>2, <1>a, <1>b
  <2>3. CASE Activate(poller, "sidecar")
    BY <2>3 DEF Activate, DeferralHeld
  <2>4. QED
    BY <2>2, <2>3, <1>5 DEF SidecarDue, SidecarFires
<1>6. ASSUME NEW s \in Stream, NEW callbackCloses \in BOOLEAN,
             ReconnectDue(s, callbackCloses)
      PROVE  DeferralHeld'
  <2>1. UNCHANGED <<reserved, requested, closed>>
    BY <1>6 DEF ReconnectDue, CloseSidecar, drainVars
  <2>2. handleClosed => handleClosed'
    BY <1>6 DEF ReconnectDue
  <2>3. QED
    BY <2>1, <2>2, <1>a DEF IsClosed
<1>7. CASE CloseHandle \/ CloseWorker
  <2>1. UNCHANGED <<reserved, requested>>
    BY <1>7 DEF CloseHandle, CloseWorker, CloseSidecar, CloseAllSidecars,
       drainVars
  <2>2. IsClosed'
    BY <1>7 DEF CloseHandle, CloseWorker, IsClosed
  <2>3. QED
    BY <2>1, <2>2, <1>a
<1>8. CASE UNCHANGED <<reserved, requested, closed, handleClosed>>
  BY <1>8, <1>a, <1>b
<1>9. QED
  BY <1>1, <1>2, <1>3, <1>4, <1>5, <1>6, <1>7, <1>8
  DEF Next, vars, callVars, drainVars, CallStreamJobs, JitterElapses,
      StreamOpenFails, JobPushed, StreamLost, StreamReports, JobQueued

LEMMA DeferralInitially == Init => DeferralHeld
BY DEF Init, DrainInit, DeferralHeld

(* Where the gateway rejects no activation, a deferred backfill always has a
   chain in flight that will run it. *)
THEOREM DeferredIsCarried ==
  ASSUME ~ActivationsMayFail PROVE Spec => []DeferredBackfillCarried
<1>1. TypeOK /\ DeferralHeld /\ [Next]_vars => DeferralHeld'
  BY DeferralStep
<1>2. DeferralHeld => DeferredBackfillCarried
  BY DEF DeferralHeld, DeferredBackfillCarried, Serving
<1>3. QED
  BY <1>1, <1>2, DeferralInitially, TypeCorrect, PTL DEF Spec

(* And where it does, that is the only way a deferral is left without one: the
   chain it waits for is rejected at its first activation. *)
THEOREM DeferralIsLostOnlyByRejection ==
  Spec => [][DeferralHeld => DeferralHeld' \/ ChainRejected]_vars
<1>1. TypeOK /\ DeferralHeld /\ [Next]_vars => DeferralHeld' \/ ChainRejected
  BY DeferralStep
<1>2. QED
  BY <1>1, TypeCorrect, PTL DEF Spec

-------------------------------------------------------------------------------
(* After a close the call only winds down. *)

(* No chain of polls begins and none fetches a batch: a chain may only go from
   an activation to its handlers, and from there to its end. *)
PollsWindDown ==
  \A p \in Poller : (Busy(p)' => Busy(p)) /\ (Awaiting(p)' => Awaiting(p))

(* No stream is attached, none emits what it had not already to emit, and only
   a call still in its jitter opens one. *)
StreamsWindDown ==
  \A s \in Stream :
    /\ stream[s].phase = "free" => stream'[s].phase = "free" \/ pc = "jitter"
    /\ stream'[s].phase # "up"
    /\ stream'[s].events \subseteq stream[s].events

LEMMA PollsKept ==
  ASSUME UNCHANGED poller PROVE PollsWindDown
BY DEF PollsWindDown, Busy, Awaiting

LEMMA ChainWindsDown ==
  ASSUME DrainTypeOK, NEW p \in Poller, NEW c \in Chain, Busy(p),
         c.phase \in {"idle", "handling"},
         poller' = [poller EXCEPT ![p] = c]
  PROVE  PollsWindDown
BY DEF DrainTypeOK, PollsWindDown, Busy, Awaiting

LEMMA ClosedPolls ==
  ASSUME TypeOK, ConnInv, IsClosed, [Next]_vars PROVE PollsWindDown
<1>a. DrainTypeOK
  BY DEF TypeOK
<1>1. ASSUME NEW s \in Stream, StreamOpens(s) PROVE PollsWindDown
  BY <1>1, PollsKept DEF StreamOpens, Backfill
<1>2. ASSUME NEW p \in Poller, JobsActivated(p) PROVE PollsWindDown
  <2> DEFINE full == backlog >= BatchSize
  <2>1. full \in BOOLEAN
    OBVIOUS
  <2>2. Busy(p) /\ poller' = [poller EXCEPT ![p] = Handling(poller[p], full)]
    BY <1>2, <1>a DEF JobsActivated, ActivationReturns, Awaiting, Busy,
       DrainTypeOK
  <2> HIDE DEF full
  <2>3. Handling(poller[p], full) \in Chain
    BY <2>1, <1>a, ChainTypes DEF DrainTypeOK
  <2>4. Handling(poller[p], full).phase = "handling"
    BY <1>a DEF Handling, DrainTypeOK, Chain
  <2>5. QED
    BY <2>2, <2>3, <2>4, <1>a, ChainWindsDown
<1>3. ASSUME NEW p \in Poller, Busy(p),
             poller' = [poller EXCEPT ![p] = IdleChain]
      PROVE  PollsWindDown
  BY <1>3, <1>a, ChainTypes, ChainWindsDown DEF IdleChain
<1>4. ASSUME NEW p \in Poller, ActivationRejected(p) PROVE PollsWindDown
  BY <1>3, <1>4 DEF ActivationRejected, FirstActivationFails,
     NextActivationFails, FinishDrain, Busy
<1>5. ASSUME NEW p \in Poller, BatchHandled(p) PROVE PollsWindDown
  BY <1>3, <1>5 DEF BatchHandled, HandlersSettle, FinishDrain, Busy
<1>6. CASE SidecarDue
  BY <1>6 DEF SidecarDue, SidecarFires, ConnInv, ClosedQuiet
<1>7. CASE UNCHANGED poller
  BY <1>7, PollsKept
<1>8. QED
  BY <1>1, <1>2, <1>4, <1>5, <1>6, <1>7
  DEF Next, vars, drainVars, CallStreamJobs, JitterElapses, StreamOpenFails,
      JobPushed, StreamLost, StreamReports, ReconnectDue, JobQueued,
      CloseHandle, CloseWorker, CloseSidecar, CloseAllSidecars

LEMMA SlotWindsDown ==
  ASSUME ConnTypeOK, \A t \in Stream : stream[t].phase # "up",
         NEW s \in Stream, NEW r \in RawStream,
         r.phase # "up", r.events \subseteq stream[s].events,
         stream[s].phase = "free" => r.phase = "free" \/ pc = "jitter",
         stream' = [stream EXCEPT ![s] = r]
  PROVE  StreamsWindDown
BY DEF ConnTypeOK, StreamsWindDown

LEMMA ClosedStreams ==
  ASSUME TypeOK, ConnInv, IsClosed, [Next]_vars PROVE StreamsWindDown
<1>a. ConnTypeOK /\ ~reconnectTimer /\ streams = {}
  BY DEF TypeOK, ConnInv, ClosedQuiet
<1>b. \A t \in Stream : stream[t].phase # "up"
  BY <1>a DEF ConnInv, AttachmentsKnown, LiveAttachment
<1>1. ASSUME NEW s \in Stream, JitterElapses(s) PROVE StreamsWindDown
  <2>1. /\ stream' = [stream EXCEPT ![s] = OpeningSlot("main")]
        /\ pc = "jitter"
    BY <1>1 DEF JitterElapses, StartOpen
  <2>2. OpeningSlot("main") \in RawStream
    BY SlotTypes DEF Openers
  <2>3. OpeningSlot("main").phase = "opening" /\ OpeningSlot("main").events = {}
    BY DEF OpeningSlot, FreeSlot
  <2>4. QED
    BY <2>1, <2>2, <2>3, <1>a, <1>b, SlotWindsDown
<1>2. ASSUME NEW s \in Stream, stream' = [stream EXCEPT ![s] = FreeSlot]
      PROVE  StreamsWindDown
  <2>1. FreeSlot.phase = "free" /\ FreeSlot.events = {}
    BY DEF FreeSlot
  <2>2. QED
    BY <2>1, <1>2, <1>a, <1>b, SlotTypes, SlotWindsDown
<1>3. ASSUME NEW s \in Stream, StreamOpens(s) \/ StreamOpenFails(s)
      PROVE  StreamsWindDown
  BY <1>2, <1>3 DEF StreamOpens, OpenStreamOk, StreamOpenFails, OpenStreamError
<1>4. ASSUME NEW s \in Stream, JobPushed(s) \/ StreamLost(s)
      PROVE  StreamsWindDown
  BY <1>4, <1>b DEF JobPushed, StreamData, StreamLost, StreamDrops
<1>5. ASSUME NEW s \in Stream, NEW e \in RawEvents, NEW longUp \in BOOLEAN,
             StreamReports(s, e, longUp)
      PROVE  StreamsWindDown
  <2>1. /\ stream' = [stream EXCEPT ![s] = AfterEvent(stream[s], e)]
        /\ stream[s].phase = "down"
    BY <1>5, <1>a DEF StreamReports, StreamEvent, ConnTypeOK
  <2>2. AfterEvent(stream[s], e) \in RawStream
    BY <1>a, SlotTypes DEF ConnTypeOK
  <2>3. /\ AfterEvent(stream[s], e).phase # "up"
        /\ AfterEvent(stream[s], e).events \subseteq stream[s].events
    BY <2>1, <1>a DEF AfterEvent, FreeSlot, ConnTypeOK, RawStream
  <2>4. QED
    BY <2>1, <2>2, <2>3, <1>a, <1>b, SlotWindsDown
<1>6. ASSUME NEW S, stream' = DisposeAll(S) PROVE StreamsWindDown
  <2>1. ASSUME NEW s \in Stream
        PROVE  /\ stream'[s].phase = stream[s].phase
               /\ stream'[s].events = stream[s].events
    <3>1. stream'[s] = stream[s] \/ stream'[s] = Disposed(stream[s])
      BY <1>6 DEF DisposeAll
    <3>2. stream[s] \in RawStream /\ stream[s].phase # "up"
      BY <1>a, <1>b DEF ConnTypeOK
    <3>3. /\ Disposed(stream[s]).phase = stream[s].phase
          /\ Disposed(stream[s]).events = stream[s].events
      BY <3>2 DEF Disposed, RawStream
    <3>4. QED
      BY <3>1, <3>3
  <2>2. QED
    BY <2>1, <1>b DEF StreamsWindDown
<1>7. CASE CloseHandle \/ CloseWorker
  BY <1>6, <1>7, <1>b DEF CloseHandle, HandleCloses, CloseWorker, WorkerCloses,
     connVars, StreamsWindDown
<1>8. ASSUME NEW s \in Stream, NEW callbackCloses \in BOOLEAN,
             ReconnectDue(s, callbackCloses)
      PROVE  StreamsWindDown
  BY <1>8, <1>a DEF ReconnectDue, ReconnectFires
<1>9. CASE UNCHANGED stream
  BY <1>9, <1>b DEF StreamsWindDown
<1>10. QED
  BY <1>1, <1>3, <1>4, <1>5, <1>7, <1>8, <1>9
  DEF Next, vars, connVars, CallStreamJobs, JobQueued, JobsActivated,
      ActivationRejected, BatchHandled, SidecarDue

(* Once the handle or the worker is closed nothing starts any more, whatever
   answers, events and failures are still to come: no poll, no further batch,
   no stream but that of a call still in its jitter.  What is left can only
   run out, which is why a closed call falls silent. *)
THEOREM CloseWindsDown ==
  Spec => [][IsClosed => PollsWindDown /\ StreamsWindDown]_vars
<1>1. TypeOK /\ ConnInv /\ [Next]_vars
        => (IsClosed => PollsWindDown /\ StreamsWindDown)
  BY ClosedPolls, ClosedStreams
<1>2. QED
  BY <1>1, TypeCorrect, ConnInvariant, PTL DEF Spec
===============================================================================
