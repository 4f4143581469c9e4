------------------------------ MODULE StreamCall ------------------------------
(***************************************************************************)
(* What the two halves of one ZBStreamWorker.streamJobs call share: the    *)
(* control state of the promise the caller awaits, and the two flags that  *)
(* say the call is over.  StreamConnection and BacklogDrain extend it.     *)
(***************************************************************************)

VARIABLES
  pc,            \* where pollAndStream() stands
  closed,        \* ZBStreamWorker.closed, set by the worker's close()
  handleClosed   \* set by close() of the handle streamJobs returned

callVars == <<pc, closed, handleClosed>>

(* pollAndStream(): not called yet; waiting out the jitter; awaiting
   openStream(); awaiting the initial backfill(); resolved with the handle;
   rejected, in which case the caller never gets a handle. *)
ControlStates ==
  {"idle", "jitter", "opening", "backfilling", "returned", "rejected"}

CallTypeOK ==
  /\ pc \in ControlStates
  /\ closed \in BOOLEAN
  /\ handleClosed \in BOOLEAN

CallInit ==
  /\ pc = "idle"
  /\ closed = FALSE
  /\ handleClosed = FALSE

IsClosed == closed \/ handleClosed

(* The caller holds a handle, and so can close it, only once streamJobs has
   resolved. *)
HandleHeld == pc = "returned"
===============================================================================
