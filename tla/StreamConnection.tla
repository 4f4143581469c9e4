--------------------------- MODULE StreamConnection ---------------------------
(***************************************************************************)
(* The connection half of a streamJobs call: opening the gRPC stream, the  *)
(* adapter that turns its error/end/close events into one settlement       *)
(* (attachStream), the handle's state machine, and the reconnect timer.    *)
(*                                                                         *)
(* A raw stream is a slot of Stream.  A slot is free until an open call    *)
(* takes it, and is free again once the open failed or the raw stream has  *)
(* emitted its last event.                                                 *)
(***************************************************************************)
EXTENDS StreamCall, Naturals, FiniteSets

CONSTANTS
  Stream,            \* slots for raw gRPC streams
  NoStream,          \* currentStream === undefined
  ReconnectEnabled,  \* streamReconnect !== false
  MaxFailures        \* bound: the gateway fails at most so often in a row

ASSUME NoStreamAssumption == NoStream \notin Stream
ASSUME ReconnectAssumption == ReconnectEnabled \in BOOLEAN
ASSUME MaxFailuresAssumption == MaxFailures \in Nat

VARIABLES
  machine,         \* the StreamStateMachine: status, reason, attempt
  failures,        \* consecutiveFailures
  reconnectTimer,  \* a reconnect timer is armed
  current,         \* currentStream
  streams,         \* this.streams: the attachments close() will dispose
  stream           \* the raw streams

connVars == <<machine, failures, reconnectTimer, current, streams, stream>>

-------------------------------------------------------------------------------
(* Raw streams. `settled` and `received` are the adapter's and openStream's
   closure variables; `events` are those the dead raw stream has yet to emit. *)
Phases == {"free", "opening", "up", "down"}
Openers == {"main", "reconnect"}
RawEvents == {"error", "end", "close"}

RawStream == [phase : Phases, by : Openers, settled : BOOLEAN,
              received : BOOLEAN, events : SUBSET RawEvents]

FreeSlot == [phase |-> "free", by |-> "main", settled |-> FALSE,
             received |-> FALSE, events |-> {}]

OpeningSlot(by) == [FreeSlot EXCEPT !.phase = "opening", !.by = by]

Attached(r) == [r EXCEPT !.phase = "up"]

(* Mutant: dispose() suppresses the handlers but does not cancel the call. *)
DisposedUncancelled(r) == [r EXCEPT !.settled = r.phase # "opening"]

(* cancelStream() on an attached stream: destroying it makes it emit a
   CANCELLED error and a close, which the settled adapter swallows. *)
Disposed(r) ==
  CASE r.phase = "up" -> [r EXCEPT !.phase = "down", !.settled = TRUE,
                                   !.events = {"error", "close"}]
    [] r.phase = "down" -> [r EXCEPT !.settled = TRUE]
    [] OTHER -> r

DisposeAll(S) == [s \in Stream |-> IF s \in S THEN Disposed(stream[s])
                                   ELSE stream[s]]

(* Mutant: the adapter forgets that it has settled. *)
AfterEventUnsettled(r, e) ==
  LET rest == IF e = "close" THEN {} ELSE r.events \ {e}
  IN  IF rest = {} THEN FreeSlot ELSE [r EXCEPT !.events = rest]

(* The stream after one more raw event; `close` is the last it can emit. *)
AfterEvent(r, e) ==
  LET rest == IF e = "close" THEN {} ELSE r.events \ {e}
  IN  IF rest = {} THEN FreeSlot
      ELSE [r EXCEPT !.events = rest, !.settled = TRUE]

-------------------------------------------------------------------------------
(* The state machine behind handle.state and handle.done. *)
Statuses == {"open", "reconnecting", "closed"}
Reasons == {"none", "closed-by-caller", "client-closed", "stream-failed"}

OpenState == [status |-> "open", reason |-> "none", attempt |-> 0]
ReconnectingState(n) ==
  [status |-> "reconnecting", reason |-> "none", attempt |-> n]
ClosedState(why) == [status |-> "closed", reason |-> why, attempt |-> 0]

(* Mutant: a late transition revives a closed handle. *)
TransitionRevives(next) == next

(* `closed` is terminal: a transition after it is ignored. *)
Transition(next) == IF machine.status = "closed" THEN machine ELSE next

-------------------------------------------------------------------------------
ConnTypeOK ==
  /\ machine \in [status : Statuses, reason : Reasons, attempt : Nat]
  /\ failures \in Nat
  /\ reconnectTimer \in BOOLEAN
  /\ current \in Stream \cup {NoStream}
  /\ streams \subseteq Stream
  /\ stream \in [Stream -> RawStream]

ConnInit ==
  /\ machine = OpenState
  /\ failures = 0
  /\ reconnectTimer = FALSE
  /\ current = NoStream
  /\ streams = {}
  /\ stream = [s \in Stream |-> FreeSlot]

-------------------------------------------------------------------------------
(* Mutant: the failure count is stepped the wrong way. *)
ScheduleReconnectCountsDown(f) ==
  IF ~ReconnectEnabled \/ IsClosed \/ reconnectTimer
  THEN failures' = f /\ UNCHANGED <<machine, reconnectTimer>>
  ELSE /\ failures' = f - 1
       /\ machine' = Transition(ReconnectingState(f + 1))
       /\ reconnectTimer' = TRUE

(* scheduleReconnect(), entered with the failure count at f: one timer at a
   time, and none once closed. *)
ScheduleReconnect(f) ==
  IF ~ReconnectEnabled \/ IsClosed \/ reconnectTimer
  THEN failures' = f /\ UNCHANGED <<machine, reconnectTimer>>
  ELSE /\ failures' = f + 1
       /\ machine' = Transition(ReconnectingState(f + 1))
       /\ reconnectTimer' = TRUE

(* onStreamDown(): the stream died or could not be opened.  Re-open it, or
   record that it is closed for good. *)
OnStreamDown(f) ==
  \/ /\ IsClosed
     /\ failures' = f
     /\ UNCHANGED <<machine, reconnectTimer>>
  \/ /\ ~IsClosed /\ ~ReconnectEnabled
     /\ machine' = Transition(ClosedState("stream-failed"))
     /\ failures' = f
     /\ UNCHANGED reconnectTimer
  \/ ~IsClosed /\ ReconnectEnabled /\ ScheduleReconnect(f)

(* openStream() up to its await. *)
StartOpen(s, by) ==
  /\ stream[s].phase = "free"
  /\ stream' = [stream EXCEPT ![s] = OpeningSlot(by)]

(* Mutant: a stream that arrives after close() is attached. *)
OpenStreamOkLate(s) ==
  /\ stream[s].phase = "opening"
  /\ stream' = [stream EXCEPT ![s] = Attached(@)]
  /\ streams' = streams \cup {s}
  /\ current' = s
  /\ machine' = Transition(OpenState)
  /\ UNCHANGED <<failures, reconnectTimer>>

(* Mutant: a re-opened stream is not recorded in the handle's state. *)
OpenStreamOkUnrecorded(s) ==
  /\ stream[s].phase = "opening"
  /\ IF IsClosed
     THEN /\ stream' = [stream EXCEPT ![s] = FreeSlot]
          /\ UNCHANGED <<streams, current>>
     ELSE /\ stream' = [stream EXCEPT ![s] = Attached(@)]
          /\ streams' = streams \cup {s}
          /\ current' = s
  /\ UNCHANGED <<failures, reconnectTimer, machine>>

(* openStream() resumes with a stream: one that arrives after close() is
   cancelled and never attached. *)
OpenStreamOk(s) ==
  /\ stream[s].phase = "opening"
  /\ IF IsClosed
     THEN /\ stream' = [stream EXCEPT ![s] = FreeSlot]
          /\ UNCHANGED <<streams, current, machine>>
     ELSE /\ stream' = [stream EXCEPT ![s] = Attached(@)]
          /\ streams' = streams \cup {s}
          /\ current' = s
          /\ machine' = Transition(OpenState)
  /\ UNCHANGED <<failures, reconnectTimer>>

(* Mutant: a failed open is reported, but no other one is scheduled. *)
OpenStreamErrorGivesUp(s) ==
  /\ stream[s].phase = "opening"
  /\ IsClosed \/ failures < MaxFailures
  /\ stream' = [stream EXCEPT ![s] = FreeSlot]
  /\ UNCHANGED <<machine, failures, reconnectTimer, streams, current>>

(* openStream() resumes with an open error, and its caller reports it through
   handleOpenFailure() unless close() came first. *)
OpenStreamError(s) ==
  /\ stream[s].phase = "opening"
  /\ IsClosed \/ failures < MaxFailures
  /\ stream' = [stream EXCEPT ![s] = FreeSlot]
  /\ IF IsClosed THEN UNCHANGED <<machine, failures, reconnectTimer>>
                 ELSE OnStreamDown(failures)
  /\ UNCHANGED <<streams, current>>

(* A job arrives on the stream: the first one restarts the backoff. *)
StreamData(s) ==
  /\ stream[s].phase = "up"
  /\ ~stream[s].settled
  /\ stream' = [stream EXCEPT ![s].received = TRUE]
  /\ failures' = IF stream[s].received THEN failures ELSE 0
  /\ UNCHANGED <<machine, reconnectTimer, current, streams>>

(* The gateway or the network drops the stream.  The client has yet to see
   the events this leads to. *)
StreamDrops(s) ==
  /\ stream[s].phase = "up"
  /\ failures < MaxFailures
  /\ stream' = [stream EXCEPT ![s].phase = "down", ![s].events = RawEvents]
  /\ UNCHANGED <<machine, failures, reconnectTimer, current, streams>>

(* A raw event of a dead stream.  The first one settles the adapter: the
   handler of that event runs, then `close`.  `longUp` says the stream stayed
   up for at least the maximum delay. *)
StreamEvent(s, e, longUp) ==
  /\ stream[s].phase = "down"
  /\ e \in stream[s].events
  /\ stream' = [stream EXCEPT ![s] = AfterEvent(@, e)]
  /\ IF stream[s].settled
     THEN UNCHANGED <<machine, failures, reconnectTimer, current, streams>>
     ELSE /\ streams' = streams \ {s}
          /\ current' = IF current = s THEN NoStream ELSE current
          /\ OnStreamDown(IF ~IsClosed /\ (longUp \/ stream[s].received)
                          THEN 0 ELSE failures)

-------------------------------------------------------------------------------
(* closeHandle(), the connection's part of it. *)
CloseConnection ==
  /\ machine' = Transition(ClosedState("closed-by-caller"))
  /\ reconnectTimer' = FALSE
  /\ streams' = streams \ {current}
  /\ current' = NoStream
  /\ UNCHANGED failures

(* The timer fires: onStreamReconnect is notified, and its callback may close
   the handle, in which case reconnect() still starts an open. *)
ReconnectFires(s, callbackCloses) ==
  /\ reconnectTimer
  /\ ~IsClosed
  /\ StartOpen(s, "reconnect")
  /\ IF callbackCloses
     THEN HandleHeld /\ CloseConnection
     ELSE /\ reconnectTimer' = FALSE
          /\ UNCHANGED <<machine, failures, current, streams>>

HandleCloses ==
  /\ CloseConnection
  /\ stream' = DisposeAll({current})

(* ZBStreamWorker.close(), the connection's part of it: the closure's
   currentStream is left as it is. *)
WorkerCloses ==
  /\ machine' = Transition(ClosedState("client-closed"))
  /\ reconnectTimer' = FALSE
  /\ stream' = DisposeAll(streams)
  /\ streams' = {}
  /\ UNCHANGED <<failures, current>>
===============================================================================
