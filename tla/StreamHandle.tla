----------------------------- MODULE StreamHandle -----------------------------
(***************************************************************************)
(* What the handle of a streaming call promises its holder, whatever       *)
(* implements it: `state` and `done` as StreamLifecycle.ts declares them,  *)
(* related to whether jobs are being pushed.                               *)
(***************************************************************************)
EXTENDS Naturals

CONSTANT Recovers  \* the call re-opens a dead stream

VARIABLES
  status,     \* state.status
  reason,     \* state.reason.kind, what `done` resolves with
  attempt,    \* state.attempt
  connected   \* a stream is attached and the gateway pushes to it

vars == <<status, reason, attempt, connected>>

Init ==
  /\ status = "open"
  /\ reason = "none"
  /\ attempt = 0
  /\ connected = FALSE

(* A stream is attached: only while none is, and only on a live handle. *)
Connect ==
  /\ status # "closed"
  /\ ~connected
  /\ connected' = TRUE
  /\ status' = "open"
  /\ attempt' = 0
  /\ UNCHANGED reason

(* The stream dies before anyone notices. *)
Lose ==
  /\ connected
  /\ connected' = FALSE
  /\ UNCHANGED <<status, reason, attempt>>

(* The failure is noticed.  Failures in a row are counted one by one. *)
Report ==
  /\ Recovers
  /\ status # "closed"
  /\ ~connected
  /\ status' = "reconnecting"
  /\ IF status = "reconnecting" THEN attempt' = attempt + 1
                                ELSE attempt' \in Nat \ {0}
  /\ UNCHANGED <<reason, connected>>

GiveUp ==
  /\ ~Recovers
  /\ status = "open"
  /\ ~connected
  /\ status' = "closed"
  /\ reason' = "stream-failed"
  /\ UNCHANGED <<attempt, connected>>

(* Closing disconnects in the same step, and settles `done` once. *)
Close ==
  /\ status # "closed"
  /\ status' = "closed"
  /\ reason' \in {"closed-by-caller", "client-closed"}
  /\ attempt' = 0
  /\ connected' = FALSE

Next == Connect \/ Lose \/ Report \/ GiveUp \/ Close

Spec == Init /\ [][Next]_vars
===============================================================================
