--------------------------- MODULE PollingOperation ---------------------------
(***************************************************************************)
(* PollingOperation with a request as its operation: the request is made   *)
(* again, an interval after each failure, until its result is the awaited  *)
(* one or a failure comes after the deadline.                              *)
(***************************************************************************)
EXTENDS HttpRequest

VARIABLES
  polling,   \* what the operation's promise waits for
  expired,   \* the deadline has passed
  lateCalls  \* history: operations started after the deadline

pollingVars == <<polling, expired, lateCalls>>
vars == <<requestVars, pollingVars>>

PollingTypeOK ==
  /\ polling \in {"idle", "operating", "interval", "resolved", "rejected"}
  /\ expired \in BOOLEAN
  /\ lateCalls \in Nat

TypeOK == RequestTypeOK /\ PollingTypeOK

Init ==
  /\ RequestInit
  /\ polling = "idle"
  /\ expired = FALSE
  /\ lateCalls = 0

(* poll(): the operation is called, whatever the time. *)
Operate ==
  /\ NewRequest
  /\ polling' = "operating"
  /\ lateCalls' = IF expired THEN lateCalls + 1 ELSE lateCalls
  /\ UNCHANGED expired

Start == polling = "idle" /\ Operate

IntervalElapses == polling = "interval" /\ Operate

DeadlinePasses ==
  /\ polling \in {"operating", "interval"}
  /\ ~expired
  /\ expired' = TRUE
  /\ UNCHANGED <<requestVars, polling, lateCalls>>

(* The predicate holds of the result. *)
Matches ==
  /\ polling = "operating"
  /\ phase = "settled"
  /\ result \in {"response", "errorResponse"}
  /\ polling' = "resolved"
  /\ UNCHANGED <<requestVars, expired, lateCalls>>

(* Mutant: the deadline is looked at only when the operation throws. *)
MismatchesRetries ==
  /\ polling = "operating"
  /\ phase = "settled"
  /\ polling' = IF expired /\ result \in {"error", "canceled"} THEN "rejected" ELSE "interval"
  /\ UNCHANGED <<requestVars, expired, lateCalls>>

(* The predicate does not hold, or the operation has rejected. *)
Mismatches ==
  /\ polling = "operating"
  /\ phase = "settled"
  /\ polling' = IF expired THEN "rejected" ELSE "interval"
  /\ UNCHANGED <<requestVars, expired, lateCalls>>

RequestSteps == RequestStep /\ UNCHANGED pollingVars

Next ==
  \/ Start
  \/ IntervalElapses
  \/ DeadlinePasses
  \/ Matches
  \/ Mismatches
  \/ RequestSteps
  \/ Cancel /\ UNCHANGED pollingVars

Spec == Init /\ [][Next]_vars

(* Hooks return, a request on the wire is answered or fails, timers fire.  A
   calculateDelay of the application's does not ask for a retry for ever. *)
Fairness ==
  /\ WF_vars(RequestSteps)
  /\ SF_vars(CustomDelayGivesUp /\ UNCHANGED pollingVars)
  /\ WF_vars(IntervalElapses)
  /\ WF_vars(DeadlinePasses)
  /\ WF_vars(Matches \/ Mismatches)

FairSpec == Spec /\ Fairness

-------------------------------------------------------------------------------
(* Once started, a polling operation resolves or rejects. *)
PollingSettles ==
  polling = "operating" ~> polling \in {"resolved", "rejected"}

(* At most one operation is started after the deadline, and the promise does
   not reject before it. *)
DeadlineKept ==
  /\ lateCalls <= 1
  /\ polling = "rejected" => expired
===============================================================================
