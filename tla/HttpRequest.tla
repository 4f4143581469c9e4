------------------------------ MODULE HttpRequest ------------------------------
(***************************************************************************)
(* One request of HttpClient: the retry loop (executeWithRetry), an        *)
(* attempt (executeOnce), the hooks around both, and cancel(), which may   *)
(* come while any of them is awaited.                                      *)
(*                                                                         *)
(* A failure is abstracted to its kind and to what defaultCalculateDelay   *)
(* makes of its method, code, status and Retry-After: a delay or none.     *)
(***************************************************************************)
EXTENDS Naturals

CONSTANT
  Limit  \* retry.limit

ASSUME LimitAssumption == Limit \in Nat

VARIABLES
  options,    \* the application's calculateDelay, throwHttpErrors
  phase,      \* what the request awaits
  attempt,    \* executeWithRetry's count of failed attempts; not counted when
              \* only the application's calculateDelay looks at it
  failure,    \* the error in hand
  cancelled,  \* cancel() has been called
  result

requestVars == <<options, phase, attempt, failure, cancelled, result>>

Options == [customDelay : BOOLEAN, throwHttpErrors : BOOLEAN]
Failures == [http : BOOLEAN, retriable : BOOLEAN]
NoFailure == [http |-> FALSE, retriable |-> FALSE]

Phases ==
  {"idle", "beforeRequest", "sent", "afterResponse", "calculateDelay",
   "beforeRetry", "sleeping", "beforeError", "settled"}

RequestTypeOK ==
  /\ options \in Options
  /\ phase \in Phases
  /\ attempt \in 0..(Limit + 1)
  /\ failure \in Failures
  /\ cancelled \in BOOLEAN
  /\ result \in {"none", "response", "errorResponse", "error", "canceled"}

RequestInit ==
  /\ options \in Options
  /\ phase = "idle"
  /\ attempt = 0
  /\ failure = NoFailure
  /\ cancelled = FALSE
  /\ result = "none"

(* Nothing of an earlier request is left in a new one. *)
NewRequest ==
  /\ options' \in Options
  /\ phase' = "beforeRequest"
  /\ attempt' = 0
  /\ failure' = NoFailure
  /\ cancelled' = FALSE
  /\ result' = "none"

-------------------------------------------------------------------------------
SettleAs(r) ==
  /\ phase' = "settled"
  /\ result' = r
  /\ failure' = NoFailure
  /\ UNCHANGED <<options, attempt, cancelled>>

Await(next) ==
  /\ phase' = next
  /\ UNCHANGED <<options, attempt, failure, cancelled, result>>

Fail(next, n, f) ==
  /\ phase' = next
  /\ attempt' = n
  /\ failure' = f
  /\ UNCHANGED <<options, cancelled, result>>

(* No further attempt: an HTTP error may be handed back as a response. *)
GiveUp(n, f) ==
  IF f.http /\ ~options.throwHttpErrors
  THEN /\ phase' = "settled"
       /\ result' = "errorResponse"
       /\ attempt' = n
       /\ failure' = NoFailure
       /\ UNCHANGED <<options, cancelled>>
  ELSE Fail("beforeError", n, f)

(* Mutant: the attempt is compared before it is counted. *)
DefaultRetriesLate(n, f) == f.retriable /\ n <= Limit + 1

(* defaultCalculateDelay: the attempts are not exhausted, and the error is one
   to retry. *)
DefaultRetries(n, f) == f.retriable /\ n <= Limit

(* The catch of executeWithRetry. *)
Caught(f) ==
  IF cancelled THEN SettleAs("canceled")
  ELSE IF options.customDelay THEN Fail("calculateDelay", attempt, f)
  ELSE IF DefaultRetries(attempt + 1, f)
       THEN Fail("beforeRetry", attempt + 1, f)
       ELSE GiveUp(attempt + 1, f)

HookError == [http : {FALSE}, retriable : BOOLEAN]
HttpError == [http : {TRUE}, retriable : BOOLEAN]

-------------------------------------------------------------------------------
(* An attempt *)

(* Mutant: the signal of the request is not linked to that of the attempt. *)
SendUnlinked ==
  /\ phase = "beforeRequest"
  /\ Await("sent")

(* The hooks have run.  undici rejects at once on an aborted signal. *)
Send ==
  /\ phase = "beforeRequest"
  /\ IF cancelled THEN SettleAs("canceled") ELSE Await("sent")

(* A hook answers the request itself: nothing is sent. *)
ShortCircuit ==
  /\ phase = "beforeRequest"
  /\ Await("afterResponse")

BeforeRequestThrows ==
  /\ phase = "beforeRequest"
  /\ \E f \in HookError : Caught(f)

Responds ==
  /\ phase = "sent"
  /\ Await("afterResponse")

(* The transport fails, or the attempt times out. *)
TransportFails ==
  /\ phase = "sent"
  /\ \E retriable \in BOOLEAN :
       Caught([http |-> FALSE, retriable |-> retriable])

(* The status is judged when the hooks have had the response. *)
Accepted ==
  /\ phase = "afterResponse"
  /\ SettleAs("response")

StatusIsError ==
  /\ phase = "afterResponse"
  /\ \E f \in HttpError : Caught(f)

AfterResponseThrows ==
  /\ phase = "afterResponse"
  /\ \E f \in HookError : Caught(f)

-------------------------------------------------------------------------------
(* Between attempts *)

CustomDelayRetries ==
  /\ phase = "calculateDelay"
  /\ Await("beforeRetry")

CustomDelayGivesUp ==
  /\ phase = "calculateDelay"
  /\ GiveUp(attempt, failure)

CustomDelayThrows ==
  /\ phase = "calculateDelay"
  /\ Await("beforeError")

(* sleep() rejects at once on an aborted signal. *)
BeforeRetryDone ==
  /\ phase = "beforeRetry"
  /\ IF cancelled THEN SettleAs("canceled") ELSE Await("sleeping")

BeforeRetryThrows ==
  /\ phase = "beforeRetry"
  /\ Await("beforeError")

SleepElapses ==
  /\ phase = "sleeping"
  /\ Await("beforeRequest")

BeforeErrorDone ==
  /\ phase = "beforeError"
  /\ SettleAs("error")

(* Mutant: a sleep is cancelled without being rejected. *)
CancelLosesSleep ==
  /\ phase \notin {"idle", "settled"}
  /\ ~cancelled
  /\ cancelled' = TRUE
  /\ IF phase \in {"sent", "sleeping"}
     THEN /\ phase' = IF phase = "sent" THEN "settled" ELSE "idle"
          /\ result' = IF phase = "sent" THEN "canceled" ELSE result
          /\ failure' = NoFailure
     ELSE UNCHANGED <<phase, failure, result>>
  /\ UNCHANGED <<options, attempt>>

(* The abort reaches an attempt on the wire and a sleep; what awaits a hook or
   the delay finds out later. *)
Cancel ==
  /\ phase \notin {"idle", "settled"}
  /\ ~cancelled
  /\ cancelled' = TRUE
  /\ IF phase \in {"sent", "sleeping"}
     THEN phase' = "settled" /\ result' = "canceled" /\ failure' = NoFailure
     ELSE UNCHANGED <<phase, failure, result>>
  /\ UNCHANGED <<options, attempt>>

RequestStep ==
  \/ Send
  \/ ShortCircuit
  \/ BeforeRequestThrows
  \/ Responds
  \/ TransportFails
  \/ Accepted
  \/ StatusIsError
  \/ AfterResponseThrows
  \/ CustomDelayRetries
  \/ CustomDelayGivesUp
  \/ CustomDelayThrows
  \/ BeforeRetryDone
  \/ BeforeRetryThrows
  \/ SleepElapses
  \/ BeforeErrorDone

-------------------------------------------------------------------------------
(* With the default delay a request makes at most Limit + 1 attempts. *)
AttemptsBounded ==
  ~options.customDelay =>
    attempt + (IF phase \in {"beforeRequest", "sent", "afterResponse"}
               THEN 1 ELSE 0) <= Limit + 1

(* A cancelled request puts no attempt on the wire and sleeps for none,
   whatever was awaited when cancel() came. *)
CancelEndsAttempts ==
  [][cancelled /\ cancelled' /\ phase' # phase => phase' \notin {"sent", "sleeping"}]_requestVars
===============================================================================
