------------------------------ MODULE GrpcStatus ------------------------------
(***************************************************************************)
(* What ZeebeGrpcClient believes of its connection: GrpcClient, which      *)
(* debounces the outcomes of calls with two timers; GrpcMiddleware, which  *)
(* holds notifications back for the initial connection tolerance; and the  *)
(* listeners of the client.                                                *)
(*                                                                         *)
(* Both timers run for connectionTolerance.  The fail timer is always the  *)
(* older one when both run; the model lets them fire in either order.      *)
(***************************************************************************)
EXTENDS Naturals

VARIABLES
  probe,       \* the waitForReady call of the constructor (:322)
  readyTimer,
  failTimer,
  blocking,    \* the middleware holds notifications back
  state,       \* the middleware's State
  channelClosed,
  listening,   \* the listeners on the gRPC client have not been removed
  status,      \* the client: connected, readied and the last event it emitted
  taken,       \* history: what GrpcClient took the last outcome for; "nothing"
               \* when the probe and a timer that runs disagree
  learned      \* history: what that outcome says of the gateway

statusVars ==
  <<probe, readyTimer, failTimer, blocking, state, channelClosed, listening,
    status, taken, learned>>

Verdicts == {"nothing", "up", "down"}
Evidence == {"nothing", "reachable", "unreachable"}

StatusTypeOK ==
  /\ probe \in {"unbuilt", "pending", "over"}
  /\ readyTimer \in BOOLEAN
  /\ failTimer \in BOOLEAN
  /\ blocking \in BOOLEAN
  /\ state \in {"UNKNOWN", "ERROR", "CONNECTED"}
  /\ channelClosed \in BOOLEAN
  /\ listening \in BOOLEAN
  /\ status \in [connected : {"unknown", "yes", "no"},
                 readied : BOOLEAN,
                 heard : {"nothing", "ready", "connectionError", "close"}]
  /\ taken \in Verdicts
  /\ learned \in Evidence

(* Whether there is a tolerance depends on the host and the environment. *)
StatusInit ==
  /\ probe = "unbuilt"
  /\ readyTimer = FALSE
  /\ failTimer = FALSE
  /\ blocking \in BOOLEAN
  /\ state = "UNKNOWN"
  /\ channelClosed = FALSE
  /\ listening = TRUE
  /\ status = [connected |-> "unknown", readied |-> FALSE, heard |-> "nothing"]
  /\ taken = "nothing"
  /\ learned = "nothing"

(* The gRPC client is made when the certificates have been read. *)
built == probe # "unbuilt"

-------------------------------------------------------------------------------
(* Notifications *)

HearReady ==
  [connected |-> "yes", readied |-> TRUE,
   heard |-> IF status.readied THEN status.heard ELSE "ready"]

HearError ==
  [connected |-> "no", readied |-> FALSE,
   heard |-> IF status.connected = "no" THEN status.heard ELSE "connectionError"]

(* Event.Ready, through the middleware. *)
EventReady ==
  /\ state' = IF listening THEN "CONNECTED" ELSE state
  /\ status' = IF listening /\ ~blocking THEN HearReady ELSE status

(* Event.Error, through the middleware. *)
EventError ==
  /\ state' = IF listening THEN "ERROR" ELSE state
  /\ status' = IF listening /\ ~blocking THEN HearError ELSE status

NoEvent == UNCHANGED <<state, status>>

(* The tolerance is over: what was held back is told. *)
ToleranceElapses ==
  /\ built
  /\ blocking
  /\ ~channelClosed
  /\ blocking' = FALSE
  /\ status' = CASE state = "ERROR" -> HearError
                 [] state = "CONNECTED" -> HearReady
                 [] state = "UNKNOWN" -> status
  /\ UNCHANGED <<probe, readyTimer, failTimer, state, channelClosed, listening,
                 taken, learned>>

-------------------------------------------------------------------------------
(* Evidence *)

BuildChannel ==
  /\ ~built
  /\ probe' = "pending"
  /\ UNCHANGED <<readyTimer, failTimer, blocking, state, channelClosed,
                 listening, status, taken, learned>>

(* The probe does not touch the timers: one that runs has its say later. *)
ProbeConnects ==
  /\ probe = "pending"
  /\ probe' = "over"
  /\ taken' = IF failTimer /\ ~readyTimer THEN "nothing" ELSE "up"
  /\ learned' = "reachable"
  /\ EventReady
  /\ UNCHANGED <<readyTimer, failTimer, blocking, channelClosed, listening>>

ProbeGivesUp ==
  /\ probe = "pending"
  /\ probe' = "over"
  /\ taken' = IF readyTimer THEN "nothing" ELSE "down"
  /\ learned' = "unreachable"
  /\ EventError
  /\ UNCHANGED <<readyTimer, failTimer, blocking, channelClosed, listening>>

setReady ==
  /\ readyTimer' = TRUE
  /\ taken' = "up"
  /\ UNCHANGED failTimer

(* Mutant: the ready timer survives a failure. *)
setNotReadyKeepsTimer ==
  /\ failTimer' = TRUE
  /\ taken' = "down"
  /\ UNCHANGED readyTimer

setNotReady ==
  /\ readyTimer' = FALSE
  /\ failTimer' = TRUE
  /\ taken' = "down"

(* A command is answered with data. *)
CallSucceeds ==
  /\ EventReady
  /\ setReady
  /\ learned' = "reachable"
  /\ UNCHANGED <<probe, blocking, channelClosed, listening>>

(* A command is answered with an error that is not of the network. *)
CallIsRefused ==
  /\ NoEvent
  /\ setReady
  /\ learned' = "reachable"
  /\ UNCHANGED <<probe, blocking, channelClosed, listening>>

(* A command fails with UNAVAILABLE. *)
CallIsLost ==
  /\ NoEvent
  /\ setNotReady
  /\ learned' = "unreachable"
  /\ UNCHANGED <<probe, blocking, channelClosed, listening>>

(* A stream is made: no answer has come yet. *)
StreamIsCreated ==
  /\ NoEvent
  /\ setReady
  /\ UNCHANGED <<probe, blocking, channelClosed, listening, learned>>

(* A stream cannot be made: there is no token, or the channel is shut down. *)
StreamIsNotCreated ==
  /\ EventError
  /\ setNotReady
  /\ UNCHANGED <<probe, blocking, channelClosed, listening, learned>>

(* A stream emits an error, of the network or from the gateway. *)
StreamFails(evidence) ==
  /\ EventError
  /\ setNotReady
  /\ learned' = evidence
  /\ UNCHANGED <<probe, blocking, channelClosed, listening>>

(* A stream ends; only a later call looks at that. *)
StreamCompletes ==
  /\ learned' = "reachable"
  /\ UNCHANGED <<probe, readyTimer, failTimer, blocking, state, channelClosed,
                 listening, status, taken>>

ReadyTimerFires ==
  /\ readyTimer
  /\ readyTimer' = FALSE
  /\ failTimer' = FALSE
  /\ EventReady
  /\ UNCHANGED <<probe, blocking, channelClosed, listening, taken, learned>>

FailTimerFires ==
  /\ failTimer
  /\ failTimer' = FALSE
  /\ IF readyTimer THEN NoEvent ELSE EventError
  /\ UNCHANGED <<probe, readyTimer, blocking, channelClosed, listening, taken,
                 learned>>

(* GrpcClient.close(): the channel is shut down at once, the timer of the
   middleware is cleared, the two of the client are not. *)
CloseChannel ==
  /\ channelClosed' = TRUE
  /\ UNCHANGED <<probe, readyTimer, failTimer, blocking, state, listening, status,
                 taken, learned>>

(* Mutant: close is emitted and the listeners are left. *)
StopListeningKept ==
  /\ status' = [status EXCEPT !.heard = "close"]
  /\ UNCHANGED <<probe, readyTimer, failTimer, blocking, state, channelClosed,
                 listening, taken, learned>>

(* close is emitted and every listener is removed. *)
StopListening ==
  /\ listening' = FALSE
  /\ status' = [status EXCEPT !.heard = "close"]
  /\ UNCHANGED <<probe, readyTimer, failTimer, blocking, state, channelClosed,
                 taken, learned>>

StatusStep ==
  \/ BuildChannel
  \/ ProbeConnects
  \/ ProbeGivesUp
  \/ ReadyTimerFires
  \/ FailTimerFires
  \/ ToleranceElapses

-------------------------------------------------------------------------------
(* No timer runs and nothing is held back. *)
Settled == ~readyTimer /\ ~failTimer /\ ~blocking /\ listening

(* Once the timers have run out, the connection status the application reads is
   what GrpcClient took the last outcome for (GrpcClient.ts:655), however the
   outcomes of commands, streams and the probe and the timers interleaved. *)
StatusFollows ==
  Settled =>
    /\ taken = "up" => status.connected = "yes"
    /\ taken = "down" => status.connected = "no"

(* "True means 'we know we are connected'" (ZeebeGrpcClient.ts:121): the status
   does not settle on it after an outcome that tells otherwise. *)
StatusTruthful ==
  Settled /\ status.connected = "yes" => learned # "unreachable"
===============================================================================
