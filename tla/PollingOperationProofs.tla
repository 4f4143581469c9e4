------------------------ MODULE PollingOperationProofs ------------------------
(***************************************************************************)
(* The requests a polling operation makes, and the operation's deadline,   *)
(* for every retry limit.                                                  *)
(***************************************************************************)
EXTENDS PollingOperation, TLAPS

(* AttemptsBounded strengthened: while another attempt may follow, the limit
   leaves room for it. *)
AttemptInv ==
  ~options.customDelay =>
    /\ phase # "calculateDelay"
    /\ phase \notin {"beforeError", "settled"} => attempt <= Limit

(* DeadlineKept strengthened: an operation is late only if the deadline passed
   in the interval before it, and no interval follows a late operation. *)
DeadlineInv ==
  /\ lateCalls \in {0, 1}
  /\ lateCalls = 1 => expired /\ polling \notin {"idle", "interval"}
  /\ polling = "rejected" => expired

(* RequestTypeOK without the count of attempts. *)
OthersTyped ==
  /\ options \in Options
  /\ phase \in Phases
  /\ failure \in Failures
  /\ cancelled \in BOOLEAN
  /\ result \in {"none", "response", "errorResponse", "error", "canceled"}

(* What is left for the count: its range, and that it leaves room. *)
Counted == attempt \in 0..(Limit + 1) /\ AttemptInv

LEMMA TypedAndCounted == RequestTypeOK /\ AttemptInv <=> OthersTyped /\ Counted
BY Zenon DEF RequestTypeOK, OthersTyped, Counted

LEMMA FailuresTyped ==
  /\ NoFailure \in Failures
  /\ HookError \subseteq Failures
  /\ HttpError \subseteq Failures
  /\ \A retriable \in BOOLEAN : [http |-> FALSE, retriable |-> retriable] \in Failures
BY DEF NoFailure, HookError, HttpError, Failures

(* The catch of executeWithRetry keeps the types, and the count, when an
   attempt is under way. *)
LEMMA CaughtTyped ==
  ASSUME OthersTyped, NEW f \in Failures, Caught(f)
  PROVE  OthersTyped'
BY FailuresTyped, Zenon
DEF OthersTyped, Phases, Caught, SettleAs, Fail, GiveUp

LEMMA CaughtCounts ==
  ASSUME Counted, NEW f \in Failures, Caught(f),
         phase \in {"beforeRequest", "sent", "afterResponse"}
  PROVE  Counted'
<1>1. CASE cancelled
  BY <1>1, Zenon DEF Caught, SettleAs, Counted, AttemptInv
<1>2. CASE ~cancelled /\ options.customDelay
  BY <1>2, Zenon DEF Caught, Fail, Counted, AttemptInv
<1>3. CASE ~cancelled /\ ~options.customDelay
  <2>1. attempt + 1 \in 0..(Limit + 1)
    <3>1. attempt \in 0..(Limit + 1) /\ attempt <= Limit
      BY <1>3, Zenon DEF Counted, AttemptInv
    <3>2. QED
      BY <3>1, LimitAssumption
  <2>2. attempt' = attempt + 1
    BY <1>3, Zenon DEF Caught, GiveUp, Fail
  <2>3. \/ phase' \in {"beforeError", "settled"}
        \/ phase' = "beforeRetry" /\ attempt + 1 <= Limit
    BY <1>3, Zenon DEF Caught, GiveUp, Fail, DefaultRetries
  <2>4. QED
    BY <2>1, <2>2, <2>3, Zenon DEF Counted, AttemptInv
<1>4. QED
  BY <1>1, <1>2, <1>3

LEMMA RequestStepKeeps ==
  ASSUME OthersTyped, Counted, RequestStep
  PROVE  OthersTyped' /\ Counted'
<1>1. CASE Send \/ ShortCircuit \/ Responds \/ Accepted
  BY <1>1, FailuresTyped, Zenon
  DEF Send, ShortCircuit, Responds, Accepted, SettleAs, Await,
      OthersTyped, Phases, Counted, AttemptInv
<1>2. CASE \/ BeforeRequestThrows \/ StatusIsError \/ AfterResponseThrows
           \/ TransportFails
  <2>1. PICK f \in Failures : Caught(f)
    BY <1>2, FailuresTyped, Zenon
    DEF BeforeRequestThrows, StatusIsError, AfterResponseThrows, TransportFails
  <2>2. phase \in {"beforeRequest", "sent", "afterResponse"}
    BY <1>2
    DEF BeforeRequestThrows, StatusIsError, AfterResponseThrows, TransportFails
  <2>3. QED
    BY <2>1, <2>2, CaughtTyped, CaughtCounts
<1>3. CASE CustomDelayRetries \/ CustomDelayThrows
  BY <1>3, Zenon DEF CustomDelayRetries, CustomDelayThrows, Await,
     OthersTyped, Phases, Counted, AttemptInv
<1>4. CASE CustomDelayGivesUp
  BY <1>4, FailuresTyped, Zenon DEF CustomDelayGivesUp, GiveUp, Fail,
     OthersTyped, Phases, Counted, AttemptInv
<1>5. CASE BeforeRetryDone \/ BeforeRetryThrows \/ SleepElapses \/ BeforeErrorDone
  BY <1>5, FailuresTyped, Zenon
  DEF BeforeRetryDone, BeforeRetryThrows, SleepElapses, BeforeErrorDone,
      SettleAs, Await, OthersTyped, Phases, Counted, AttemptInv
<1>6. QED
  BY <1>1, <1>2, <1>3, <1>4, <1>5 DEF RequestStep

LEMMA RequestInvStep ==
  ASSUME OthersTyped, Counted, [Next]_vars
  PROVE  OthersTyped' /\ Counted'
<1>1. CASE Start \/ IntervalElapses
  <2>1. NewRequest
    BY <1>1 DEF Start, IntervalElapses, Operate
  <2>2. 0 \in 0..(Limit + 1) /\ 0 <= Limit
    BY LimitAssumption
  <2>3. QED
    BY <2>1, <2>2, FailuresTyped, Zenon
    DEF NewRequest, OthersTyped, Phases, Counted, AttemptInv
<1>2. CASE RequestSteps
  BY <1>2, RequestStepKeeps DEF RequestSteps
<1>3. CASE Cancel
  BY <1>3, FailuresTyped, Zenon
  DEF Cancel, OthersTyped, Phases, Counted, AttemptInv
<1>4. CASE DeadlinePasses \/ Matches \/ Mismatches \/ UNCHANGED vars
  <2>1. UNCHANGED requestVars
    BY <1>4 DEF DeadlinePasses, Matches, Mismatches, vars
  <2>2. QED
    BY <2>1, Zenon DEF requestVars, OthersTyped, Counted, AttemptInv
<1>5. QED
  BY <1>1, <1>2, <1>3, <1>4 DEF Next

(* The request a polling operation makes has its types, and AttemptInv. *)
THEOREM RequestInvariant == Spec => [](RequestTypeOK /\ AttemptInv)
<1>1. Init => OthersTyped /\ Counted
  <2>1. 0 \in 0..(Limit + 1) /\ 0 <= Limit
    BY LimitAssumption
  <2>2. QED
    BY <2>1, FailuresTyped, Zenon
    DEF Init, RequestInit, OthersTyped, Phases, Counted, AttemptInv
<1>2. OthersTyped /\ Counted /\ [Next]_vars => (OthersTyped /\ Counted)'
  BY RequestInvStep
<1>3. QED
  BY <1>1, <1>2, TypedAndCounted, PTL DEF Spec

(* With the default delay no request makes more than Limit + 1 attempts,
   whatever hooks, cancellations and failures there are. *)
THEOREM AttemptsAreBounded == Spec => []AttemptsBounded
<1>1. RequestTypeOK /\ AttemptInv => AttemptsBounded
  BY LimitAssumption DEF RequestTypeOK, AttemptInv, AttemptsBounded
<1>2. QED
  BY <1>1, RequestInvariant, PTL

-------------------------------------------------------------------------------
LEMMA CancelledStep ==
  ASSUME RequestStep, cancelled, phase' # phase
  PROVE  phase' \notin {"sent", "sleeping"}
<1>1. CASE Send \/ ShortCircuit \/ Responds \/ Accepted
  BY <1>1 DEF Send, ShortCircuit, Responds, Accepted, SettleAs, Await
<1>2. CASE BeforeRequestThrows \/ StatusIsError \/ AfterResponseThrows
           \/ TransportFails
  <2>1. PICK f : Caught(f)
    BY <1>2
    DEF BeforeRequestThrows, StatusIsError, AfterResponseThrows, TransportFails
  <2>2. QED
    BY <2>1 DEF Caught, SettleAs
<1>3. CASE CustomDelayRetries \/ CustomDelayThrows \/ CustomDelayGivesUp
  BY <1>3 DEF CustomDelayRetries, CustomDelayThrows, CustomDelayGivesUp,
     GiveUp, Fail, Await
<1>4. CASE BeforeRetryDone \/ BeforeRetryThrows \/ SleepElapses \/ BeforeErrorDone
  BY <1>4 DEF BeforeRetryDone, BeforeRetryThrows, SleepElapses, BeforeErrorDone,
     SettleAs, Await
<1>5. QED
  BY <1>1, <1>2, <1>3, <1>4 DEF RequestStep

(* A cancelled request puts nothing more on the wire and sleeps no more, even
   if a hook was awaited when cancel() came. *)
THEOREM CancellationEnds == Spec => CancelEndsAttempts
<1> DEFINE Ends ==
      cancelled /\ cancelled' /\ phase' # phase => phase' \notin {"sent", "sleeping"}
<1>1. ASSUME [Next]_vars PROVE [Ends]_requestVars
  <2>1. CASE Start \/ IntervalElapses
    BY <2>1 DEF Start, IntervalElapses, Operate, NewRequest
  <2>2. CASE RequestSteps
    BY <2>2, CancelledStep DEF RequestSteps
  <2>3. CASE Cancel
    BY <2>3 DEF Cancel
  <2>4. CASE DeadlinePasses \/ Matches \/ Mismatches \/ UNCHANGED vars
    BY <2>4 DEF DeadlinePasses, Matches, Mismatches, vars, requestVars
  <2>5. QED
    BY <1>1, <2>1, <2>2, <2>3, <2>4 DEF Next
<1>2. QED
  BY <1>1, PTL DEF Spec, CancelEndsAttempts

-------------------------------------------------------------------------------
LEMMA DeadlineInvStep ==
  ASSUME DeadlineInv, [Next]_vars
  PROVE  DeadlineInv'
<1> USE DEF DeadlineInv
<1>1. CASE Start \/ IntervalElapses
  BY <1>1 DEF Start, IntervalElapses, Operate
<1>2. CASE DeadlinePasses
  BY <1>2 DEF DeadlinePasses
<1>3. CASE Matches \/ Mismatches
  BY <1>3 DEF Matches, Mismatches
<1>4. CASE RequestSteps \/ (Cancel /\ UNCHANGED pollingVars) \/ UNCHANGED vars
  BY <1>4 DEF RequestSteps, pollingVars, vars
<1>5. QED
  BY <1>1, <1>2, <1>3, <1>4 DEF Next

(* At most one operation starts after the deadline, and the promise does not
   reject before it. *)
THEOREM DeadlineIsKept == Spec => []DeadlineKept
<1>1. Init => DeadlineInv
  BY DEF Init, DeadlineInv
<1>2. DeadlineInv => DeadlineKept
  BY DEF DeadlineInv, DeadlineKept
<1>3. QED
  BY <1>1, <1>2, DeadlineInvStep, PTL DEF Spec

(* Every variable keeps its type. *)
THEOREM TypeCorrect == Spec => []TypeOK
<1>1. Init => PollingTypeOK
  <2>1. Init => polling = "idle" /\ expired = FALSE /\ lateCalls = 0
    BY DEF Init
  <2>2. 0 \in Nat
    OBVIOUS
  <2>3. QED
    BY <2>1, <2>2, Zenon DEF PollingTypeOK
<1>2. PollingTypeOK /\ [Next]_vars => PollingTypeOK'
  <2> SUFFICES ASSUME PollingTypeOK, [Next]_vars PROVE PollingTypeOK'
    OBVIOUS
  <2>1. lateCalls + 1 \in Nat
    BY DEF PollingTypeOK
  <2>2. CASE Start \/ IntervalElapses
    BY <2>1, <2>2, Zenon DEF PollingTypeOK, Start, IntervalElapses, Operate
  <2>3. CASE DeadlinePasses \/ Matches \/ Mismatches
    BY <2>3, Zenon DEF PollingTypeOK, DeadlinePasses, Matches, Mismatches
  <2>4. CASE RequestSteps \/ (Cancel /\ UNCHANGED pollingVars) \/ UNCHANGED vars
    BY <2>4, Zenon DEF PollingTypeOK, RequestSteps, pollingVars, vars
  <2>5. QED
    BY <2>2, <2>3, <2>4 DEF Next
<1>3. QED
  BY <1>1, <1>2, RequestInvariant, PTL DEF Spec, TypeOK

-------------------------------------------------------------------------------
(* The retry loop runs out *)

(* How far an attempt, and the wait before it, have come. *)
Progress ==
  CASE phase = "beforeRetry" -> 1
    [] phase = "sleeping" -> 2
    [] phase = "beforeRequest" -> 3
    [] phase = "sent" -> 4
    [] phase = "afterResponse" -> 5
    [] phase = "beforeError" -> 6
    [] phase = "settled" -> 7
    [] OTHER -> 0

MovesOn == attempt' > attempt \/ (attempt' = attempt /\ Progress' > Progress)

(* With the default delay every step of a request fails an attempt or brings it
   further, and cancel() never takes it back. *)
RetriesRunOut ==
  /\ ~options.customDelay /\ RequestStep => MovesOn
  /\ Cancel => attempt' = attempt /\ Progress' >= Progress

LEMMA CaughtMovesOn ==
  ASSUME attempt \in Nat, ~options.customDelay, NEW f, Caught(f),
         phase \in {"beforeRequest", "sent", "afterResponse"}
  PROVE  MovesOn
<1>1. CASE cancelled
  <2>1. attempt' = attempt /\ phase' = "settled"
    BY <1>1, Zenon DEF Caught, SettleAs
  <2>2. Progress < 7 /\ Progress' = 7
    BY <2>1 DEF Progress
  <2>3. QED
    BY <2>1, <2>2 DEF MovesOn
<1>2. CASE ~cancelled
  <2>1. attempt' = attempt + 1
    BY <1>2, Zenon DEF Caught, GiveUp, Fail
  <2>2. QED
    BY <2>1 DEF MovesOn
<1>3. QED
  BY <1>1, <1>2

(* Each step and the phases it leads from and to. *)
LEMMA StepMovesOn ==
  ASSUME attempt \in Nat, ~options.customDelay, phase # "calculateDelay", RequestStep
  PROVE  MovesOn
<1>1. CASE Send \/ ShortCircuit
  <2>1. /\ phase = "beforeRequest" /\ attempt' = attempt
        /\ phase' \in {"settled", "sent", "afterResponse"}
    BY <1>1, Zenon DEF Send, ShortCircuit, SettleAs, Await
  <2>2. QED
    BY <2>1 DEF MovesOn, Progress
<1>2. CASE Responds \/ Accepted
  <2>1. /\ attempt' = attempt
        /\ \/ phase = "sent" /\ phase' = "afterResponse"
           \/ phase = "afterResponse" /\ phase' = "settled"
    BY <1>2, Zenon DEF Responds, Accepted, SettleAs, Await
  <2>2. QED
    BY <2>1 DEF MovesOn, Progress
<1>3. CASE \/ BeforeRequestThrows \/ StatusIsError \/ AfterResponseThrows
           \/ TransportFails
  <2>1. PICK f : Caught(f)
    BY <1>3
    DEF BeforeRequestThrows, StatusIsError, AfterResponseThrows, TransportFails
  <2>2. phase \in {"beforeRequest", "sent", "afterResponse"}
    BY <1>3
    DEF BeforeRequestThrows, StatusIsError, AfterResponseThrows, TransportFails
  <2>3. QED
    BY <2>1, <2>2, CaughtMovesOn
<1>4. CASE BeforeRetryDone \/ BeforeRetryThrows
  <2>1. /\ phase = "beforeRetry" /\ attempt' = attempt
        /\ phase' \in {"settled", "sleeping", "beforeError"}
    BY <1>4, Zenon DEF BeforeRetryDone, BeforeRetryThrows, SettleAs, Await
  <2>2. QED
    BY <2>1 DEF MovesOn, Progress
<1>5. CASE SleepElapses \/ BeforeErrorDone
  <2>1. /\ attempt' = attempt
        /\ \/ phase = "sleeping" /\ phase' = "beforeRequest"
           \/ phase = "beforeError" /\ phase' = "settled"
    BY <1>5, Zenon DEF SleepElapses, BeforeErrorDone, SettleAs, Await
  <2>2. QED
    BY <2>1 DEF MovesOn, Progress
<1>6. CASE CustomDelayRetries \/ CustomDelayThrows \/ CustomDelayGivesUp
  BY <1>6 DEF CustomDelayRetries, CustomDelayThrows, CustomDelayGivesUp
<1>7. QED
  BY <1>1, <1>2, <1>3, <1>4, <1>5, <1>6 DEF RequestStep

(* A request with the default delay takes at most 7 * (Limit + 2) steps, whatever
   fails and for every limit: each step moves it on, and the count of attempts is
   at most Limit + 1.  PollingSettles waits for no retry loop in vain. *)
THEOREM RequestsRunOut == Spec => [](attempt <= Limit + 1) /\ [][RetriesRunOut]_vars
<1>1. RequestTypeOK /\ AttemptInv => attempt <= Limit + 1
  BY LimitAssumption DEF RequestTypeOK
<1>2. RequestTypeOK /\ AttemptInv /\ [Next]_vars => [RetriesRunOut]_vars
  <2> SUFFICES ASSUME RequestTypeOK, AttemptInv PROVE RetriesRunOut
    OBVIOUS
  <2>1. attempt \in Nat
    BY LimitAssumption DEF RequestTypeOK
  <2>2. ASSUME ~options.customDelay, RequestStep PROVE MovesOn
    BY <2>1, <2>2, StepMovesOn DEF AttemptInv
  <2>3. ASSUME Cancel PROVE attempt' = attempt /\ Progress' >= Progress
    <3>1. attempt' = attempt /\ (phase' = phase \/ phase' = "settled")
      BY <2>3, Zenon DEF Cancel
    <3>2. QED
      BY <3>1 DEF Progress
  <2>4. QED
    BY <2>2, <2>3 DEF RetriesRunOut
<1>3. QED
  BY <1>1, <1>2, RequestInvariant, PTL DEF Spec

(* A polling operation waits for a request that is under way or has settled,
   and between operations there is none under way. *)
OperationInv ==
  /\ polling = "operating" => phase # "idle"
  /\ polling \in {"interval", "resolved", "rejected"} => phase = "settled"
  /\ polling = "idle" => phase = "idle"

LEMMA OperationStep ==
  ASSUME OperationInv, [Next]_vars
  PROVE  OperationInv'
<1>1. CASE Start \/ IntervalElapses
  BY <1>1, Zenon DEF Start, IntervalElapses, Operate, NewRequest, OperationInv
<1>2. CASE DeadlinePasses
  BY <1>2, Zenon DEF DeadlinePasses, requestVars, OperationInv
<1>3. CASE Matches \/ Mismatches
  BY <1>3, Zenon DEF Matches, Mismatches, requestVars, OperationInv
<1>4. CASE RequestSteps
  <2>1. phase \notin {"idle", "settled"} /\ phase' # "idle" /\ UNCHANGED polling
    <3>1. CASE \/ BeforeRequestThrows \/ StatusIsError \/ AfterResponseThrows
               \/ TransportFails
      <4>1. PICK f : Caught(f)
        BY <3>1
        DEF BeforeRequestThrows, StatusIsError, AfterResponseThrows, TransportFails
      <4>2. phase' # "idle"
        BY <4>1, Zenon DEF Caught, SettleAs, Fail, GiveUp
      <4>3. QED
        BY <1>4, <3>1, <4>2
        DEF RequestSteps, pollingVars, BeforeRequestThrows, StatusIsError,
            AfterResponseThrows, TransportFails
    <3>2. CASE Send \/ ShortCircuit \/ Responds \/ Accepted \/ CustomDelayRetries
               \/ CustomDelayGivesUp \/ CustomDelayThrows \/ BeforeRetryDone
               \/ BeforeRetryThrows \/ SleepElapses \/ BeforeErrorDone
      BY <1>4, <3>2
      DEF RequestSteps, pollingVars, Send, ShortCircuit, Responds, Accepted,
          CustomDelayRetries, CustomDelayGivesUp, CustomDelayThrows, BeforeRetryDone,
          BeforeRetryThrows, SleepElapses, BeforeErrorDone, SettleAs, Await, Fail,
          GiveUp
    <3>3. QED
      BY <1>4, <3>1, <3>2 DEF RequestSteps, RequestStep
  <2>2. QED
    BY <2>1, Zenon DEF OperationInv
<1>5. CASE Cancel /\ UNCHANGED pollingVars
  <2>1. /\ phase \notin {"idle", "settled"} /\ phase' # "idle"
        /\ UNCHANGED polling
    BY <1>5, Zenon DEF Cancel, pollingVars
  <2>2. QED
    BY <2>1, Zenon DEF OperationInv
<1>6. CASE UNCHANGED vars
  BY <1>6, Zenon DEF vars, requestVars, pollingVars, OperationInv
<1>7. QED
  BY <1>1, <1>2, <1>3, <1>4, <1>5, <1>6 DEF Next

(* Operations never overlap, and none is waited for that is not there: while the
   operation's promise waits for a request, there is one, and a new one starts
   only when it has settled, however it was cancelled. *)
THEOREM OperationsAreSerial == Spec => []OperationInv
<1>1. Init => OperationInv
  BY Zenon DEF Init, RequestInit, OperationInv
<1>2. QED
  BY <1>1, OperationStep, PTL DEF Spec
===============================================================================
