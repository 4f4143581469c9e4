--------------------------- MODULE RestWorkerProofs ---------------------------
(***************************************************************************)
(* Theorems about RestWorker, for every set of calls, capacity and bound,  *)
(* restarts included.  Nothing is asked of the environment: unlike the     *)
(* gRPC worker, this one counts every job out exactly once.                *)
(***************************************************************************)
EXTENDS RestWorker, TLAPS

Slot == [phase : Phases, amount : Nat]

(* poll() asks for a natural number of jobs. *)
LEMMA RequestType ==
  ASSUME TypeOK, NEW c \in Call, ~AtCapacity, Request(c)
  PROVE  /\ pollLock' \in BOOLEAN /\ activePoll' \in Call
         /\ call' \in [Call -> Slot]
<1>1. MaxJobs - currentlyActiveJobCount \in Nat
  BY CapacityAssumption DEF TypeOK, AtCapacity
<1>2. PreparingSlot(MaxJobs - currentlyActiveJobCount) \in Slot
  BY <1>1 DEF PreparingSlot, Slot, Phases
<1> QED BY <1>2 DEF TypeOK, Request, Slot

LEMMA FreeSlotType == FreeSlot \in Slot
  BY DEF FreeSlot, Slot, Phases

LEMMA TypeStep ==
  ASSUME TypeOK, [Next]_vars
  PROVE  TypeOK'
<1> USE DEF TypeOK, Slot
<1>1. ASSUME NEW c \in Call, PollDue(c)
      PROVE  TypeOK'
  BY <1>1, RequestType DEF PollDue, jobVars, stopVars
<1>2. ASSUME NEW c \in Call, HeadersReady(c)
      PROVE  TypeOK'
  <2>1. call' \in [Call -> Slot]
    BY <1>2, FreeSlotType DEF HeadersReady, Phases
  <2> QED BY <1>2, <2>1 DEF HeadersReady, jobVars, stopVars
<1>3. ASSUME NEW c \in Call, NEW n \in Nat, JobsActivated(c, n)
      PROVE  TypeOK'
  <2>1. call' \in [Call -> Slot] /\ pollLock' \in BOOLEAN
    BY <1>3, FreeSlotType DEF JobsActivated
  <2>2. working' \in Nat /\ currentlyActiveJobCount' \in Int
    BY <1>3 DEF JobsActivated
  <2>3. UNCHANGED <<failing, activePoll, backoffTimer, stopVars>>
    BY <1>3 DEF JobsActivated
  <2> QED BY <2>1, <2>2, <2>3 DEF stopVars
<1>4. ASSUME NEW c \in Call, PollFails(c)
      PROVE  TypeOK'
  BY <1>4, FreeSlotType DEF PollFails, jobVars, stopVars
<1>5. ASSUME NEW c \in Call, PollAborted(c)
      PROVE  TypeOK'
  BY <1>5, FreeSlotType DEF PollAborted, jobVars, stopVars
<1>6. ASSUME NEW c \in Call, BackoffElapses(c)
      PROVE  TypeOK'
  BY <1>6, RequestType DEF BackoffElapses, jobVars, stopVars
<1>7. ASSUME NEW c \in Call, Start(c)
      PROVE  TypeOK'
  <2>1. /\ pollLock' \in BOOLEAN /\ activePoll' \in Call \cup {NoCall}
        /\ call' \in [Call -> Slot]
    BY <1>7, RequestType DEF Start
  <2>2. stopping' \in BOOLEAN /\ stopped' \in BOOLEAN /\ polling' \in BOOLEAN
    BY <1>7 DEF Start
  <2>3. UNCHANGED <<jobVars, backoffTimer, waiting>>
    BY <1>7 DEF Start
  <2> QED BY <2>1, <2>2, <2>3 DEF jobVars
<1>8. CASE HandlerSettles
  BY <1>8 DEF HandlerSettles, HandlerReturns, HandlerThrows, pollVars, stopVars
<1>9. CASE FailSettles
  BY <1>9 DEF FailSettles, pollVars, stopVars
<1>10. CASE Stop
  <2>1. \A c \in Call : Cancelled(call[c]) \in Slot
    BY DEF Cancelled, Phases
  <2>2. call' \in [Call -> Slot]
    BY <1>10, <2>1 DEF Stop
  <2>3. /\ stopping' \in BOOLEAN /\ stopped' \in BOOLEAN
        /\ polling' \in BOOLEAN /\ backoffTimer' \in BOOLEAN
    BY <1>10 DEF Stop
  <2>4. waiting' \in Nat /\ activePoll' = NoCall
    BY <1>10 DEF Stop
  <2>5. UNCHANGED <<jobVars, pollLock>>
    BY <1>10 DEF Stop
  <2> QED BY <2>2, <2>3, <2>4, <2>5 DEF jobVars
<1>11. CASE StopResolves
  BY <1>11 DEF StopResolves, jobVars, pollVars
<1>12. CASE DeadlinePasses
  BY <1>12 DEF DeadlinePasses, jobVars, pollVars
<1>13. CASE UNCHANGED vars
  BY <1>13 DEF vars, jobVars, pollVars, stopVars
<1> QED
  BY <1>1, <1>2, <1>3, <1>4, <1>5, <1>6, <1>7, <1>8, <1>9, <1>10, <1>11, <1>12,
     <1>13
  DEF Next, CallSettles

(* The type invariant. *)
THEOREM TypeCorrect == Spec => []TypeOK
<1>1. Init => TypeOK
  <2> SUFFICES ASSUME Init PROVE TypeOK
    OBVIOUS
  <2>1. call \in [Call -> Slot]
    BY FreeSlotType DEF Init
  <2>2. /\ pollLock \in BOOLEAN /\ backoffTimer \in BOOLEAN
        /\ polling \in BOOLEAN /\ stopping \in BOOLEAN /\ stopped \in BOOLEAN
    BY DEF Init
  <2> QED BY <2>1, <2>2 DEF Init, TypeOK, Slot
<1>2. TypeOK /\ [Next]_vars => TypeOK'
  BY TypeStep
<1> QED BY <1>1, <1>2, PTL DEF Spec

-------------------------------------------------------------------------------
(* The poll lock *)

(* What the lock protects, and what stop() finds. *)
LockInv ==
  /\ \A c, d \in Call :
       call[c].phase # "free" /\ call[d].phase # "free" => c = d
  /\ \A c \in Call : call[c].phase # "free" => pollLock /\ ~backoffTimer
  /\ backoffTimer => pollLock
  /\ \A c \in Call : Pending(c) => activePoll = c
  /\ stopping => \A c \in Call : ~Pending(c)

(* poll() on a free lock. *)
LEMMA RequestLocks ==
  ASSUME TypeOK, NEW c \in Call, Request(c),
         \A d \in Call : call[d].phase = "free",
         ~backoffTimer', ~stopping'
  PROVE  LockInv'
<1>1. /\ call'[c].phase = "preparing"
      /\ \A d \in Call : d # c => call'[d] = call[d]
  BY DEF Request, TypeOK, PreparingSlot
<1> QED BY <1>1 DEF Request, LockInv, Pending

(* The one unsettled promise settles, and only the lock and the backoff timer
   may change with it. *)
LEMMA SettleUnlocks ==
  ASSUME TypeOK, LockInv, NEW c \in Call, call[c].phase # "free",
         call' = [call EXCEPT ![c] = FreeSlot],
         backoffTimer' => pollLock'
  PROVE  LockInv'
<1>1. \A d \in Call : call'[d].phase = "free"
  BY DEF TypeOK, LockInv, FreeSlot
<1> QED BY <1>1 DEF LockInv, Pending

LEMMA LockStep ==
  ASSUME TypeOK, LockInv, [Next]_vars
  PROVE  LockInv'
<1>1. CASE UNCHANGED <<pollVars, stopping>>
  BY <1>1 DEF LockInv, Pending, pollVars
<1>2. CASE HandlerSettles \/ FailSettles \/ StopResolves \/ DeadlinePasses
  <2> UNCHANGED <<pollVars, stopping>>
    BY <1>2 DEF HandlerSettles, HandlerReturns, HandlerThrows, FailSettles,
                StopResolves, DeadlinePasses, stopVars
  <2> QED BY <1>1
<1>3. ASSUME NEW c \in Call, PollDue(c)
      PROVE  LockInv'
  <2>1. ~backoffTimer' /\ ~stopping' /\ \A d \in Call : call[d].phase = "free"
    BY <1>3 DEF PollDue, LockInv, stopVars
  <2> QED BY <1>3, <2>1, RequestLocks DEF PollDue
<1>4. ASSUME NEW c \in Call, HeadersReady(c)
      PROVE  LockInv'
  <2>1. CASE call[c].phase = "preparing"
    <3>1. /\ call'[c].phase = "requested"
          /\ \A d \in Call : d # c => call'[d] = call[d]
      BY <1>4, <2>1 DEF HeadersReady, TypeOK
    <3>2. UNCHANGED <<pollLock, backoffTimer, activePoll, stopping>>
      BY <1>4 DEF HeadersReady, stopVars
    <3> QED BY <2>1, <3>1, <3>2 DEF LockInv, Pending
  <2>2. CASE call[c].phase # "preparing"
    <3>1. call' = [call EXCEPT ![c] = FreeSlot] /\ call[c].phase # "free"
      BY <1>4, <2>2 DEF HeadersReady
    <3>2. backoffTimer' => pollLock'
      BY <1>4 DEF HeadersReady, LockInv
    <3> QED BY <3>1, <3>2, SettleUnlocks
  <2> QED BY <2>1, <2>2
<1>5. ASSUME NEW c \in Call, NEW n \in Nat, JobsActivated(c, n)
      PROVE  LockInv'
  <2>1. ~backoffTimer'
    BY <1>5 DEF JobsActivated, LockInv
  <2> QED BY <1>5, <2>1, SettleUnlocks DEF JobsActivated
<1>6. ASSUME NEW c \in Call, PollFails(c)
      PROVE  LockInv'
  <2>1. pollLock'
    BY <1>6 DEF PollFails, LockInv
  <2> QED BY <1>6, <2>1, SettleUnlocks DEF PollFails
<1>7. ASSUME NEW c \in Call, PollAborted(c)
      PROVE  LockInv'
  <2>1. pollLock'
    BY <1>7 DEF PollAborted, LockInv
  <2> QED BY <1>7, <2>1, SettleUnlocks DEF PollAborted
<1>8. ASSUME NEW c \in Call, BackoffElapses(c)
      PROVE  LockInv'
  <2>1. ~backoffTimer' /\ \A d \in Call : call[d].phase = "free"
    BY <1>8 DEF BackoffElapses, LockInv
  <2>2. CASE stopping \/ AtCapacity
    <3>1. UNCHANGED call
      BY <1>8, <2>2 DEF BackoffElapses
    <3> QED BY <2>1, <3>1 DEF LockInv, Pending
  <2>3. CASE ~(stopping \/ AtCapacity)
    <3>1. Request(c) /\ ~stopping'
      BY <1>8, <2>3 DEF BackoffElapses, stopVars
    <3> QED BY <2>1, <3>1, RequestLocks
  <2> QED BY <2>2, <2>3
<1>9. ASSUME NEW c \in Call, Start(c)
      PROVE  LockInv'
  <2>1. ~stopping' /\ backoffTimer' = backoffTimer
    BY <1>9 DEF Start
  <2>2. CASE pollLock \/ AtCapacity
    <3>1. UNCHANGED <<pollLock, activePoll, call>>
      BY <1>9, <2>2 DEF Start
    <3> QED BY <2>1, <3>1 DEF LockInv, Pending
  <2>3. CASE ~(pollLock \/ AtCapacity)
    <3>1. Request(c)
      BY <1>9, <2>3 DEF Start
    <3>2. ~backoffTimer /\ \A d \in Call : call[d].phase = "free"
      BY <2>3 DEF LockInv
    <3> QED BY <2>1, <3>1, <3>2, RequestLocks
  <2> QED BY <2>2, <2>3
<1>10. CASE Stop
  <2>1. \A c \in Call :
          /\ call'[c].phase = "free" <=> call[c].phase = "free"
          /\ ~Pending(c)'
    <3> SUFFICES ASSUME NEW c \in Call
                 PROVE  /\ call'[c].phase = "free" <=> call[c].phase = "free"
                        /\ ~Pending(c)'
      OBVIOUS
    <3>1. call[c] \in Slot
      BY DEF TypeOK, Slot
    <3>2. CASE c = activePoll
      <4>1. call'[c] = Cancelled(call[c])
        BY <1>10, <3>2 DEF Stop
      <4> QED BY <3>1, <4>1 DEF Cancelled, Pending, Slot, Phases
    <3>3. CASE c # activePoll
      <4>1. call'[c] = call[c]
        BY <1>10, <3>3 DEF Stop
      <4> QED BY <3>3, <4>1 DEF LockInv, Pending
    <3> QED BY <3>2, <3>3
  <2>2. ~backoffTimer' /\ pollLock' = pollLock
    BY <1>10 DEF Stop
  <2> QED BY <2>1, <2>2 DEF LockInv
<1>11. CASE UNCHANGED vars
  <2> UNCHANGED <<pollVars, stopping>>
    BY <1>11 DEF vars, stopVars
  <2> QED BY <1>1
<1> QED
  BY <1>2, <1>3, <1>4, <1>5, <1>6, <1>7, <1>8, <1>9, <1>10, <1>11
  DEF Next, CallSettles

LEMMA LockInductive == Spec => [](TypeOK /\ LockInv)
<1>1. Init => LockInv
  BY DEF Init, LockInv, FreeSlot, Pending
<1>2. TypeOK /\ LockInv /\ [Next]_vars => LockInv'
  BY LockStep
<1> QED BY <1>1, <1>2, TypeCorrect, PTL DEF Spec

(* A free poll lock means that no poll is pending and no backoff is under way;
   the pending promise is the one that stop() cancels. *)
THEOREM LockIsExact == Spec => []LockGuardsPoll
<1>1. TypeOK /\ LockInv => LockGuardsPoll
  BY DEF LockInv, LockGuardsPoll, Pending
<1> QED BY <1>1, LockInductive, PTL

(* stop() leaves no activation pending that could deliver jobs. *)
THEOREM StopEndsPolling == Spec => []NoPollOutlivesStop
<1>1. LockInv => NoPollOutlivesStop
  BY DEF LockInv, NoPollOutlivesStop
<1> QED BY <1>1, LockInductive, PTL

-------------------------------------------------------------------------------
(* Who gives the lock back.  A worker that is never stopped polls for ever
   because its lock is always on its way back; a stop() may break that. *)

(* A pending poll or a backoff timer is there to release the lock. *)
LockAccounted == pollLock => backoffTimer \/ \E c \in Call : Pending(c)

LEMMA AccountedStep ==
  ASSUME TypeOK, LockInv, LockAccounted, [Next]_vars, ~Stop
  PROVE  LockAccounted'
<1>1. ASSUME NEW c \in Call, Request(c) PROVE LockAccounted'
  <2>1. call'[c].phase = "preparing"
    BY <1>1 DEF Request, TypeOK, PreparingSlot
  <2> QED BY <2>1 DEF LockAccounted, Pending
<1>2. CASE UNCHANGED pollVars
  BY <1>2 DEF LockAccounted, Pending, pollVars
<1>3. CASE HandlerSettles \/ FailSettles \/ StopResolves \/ DeadlinePasses
  BY <1>2, <1>3 DEF HandlerSettles, HandlerReturns, HandlerThrows, FailSettles,
                    StopResolves, DeadlinePasses
<1>4. ASSUME NEW c \in Call, HeadersReady(c) PROVE LockAccounted'
  <2>1. UNCHANGED <<pollLock, backoffTimer>>
    BY <1>4 DEF HeadersReady
  <2>2. CASE call[c].phase = "preparing"
    <3>1. call'[c].phase = "requested"
      BY <1>4, <2>2 DEF HeadersReady, TypeOK
    <3> QED BY <3>1 DEF LockAccounted, Pending
  <2>3. CASE call[c].phase = "abandoned"
    <3>1. \A d \in Call : ~Pending(d)
      BY <2>3 DEF LockInv, Pending
    <3> QED BY <2>1, <3>1 DEF LockAccounted
  <2> QED BY <1>4, <2>2, <2>3 DEF HeadersReady
<1>5. ASSUME NEW c \in Call, NEW n \in Nat, JobsActivated(c, n)
      PROVE  LockAccounted'
  BY <1>5 DEF JobsActivated, LockAccounted
<1>6. ASSUME NEW c \in Call, PollFails(c) PROVE LockAccounted'
  BY <1>6 DEF PollFails, LockAccounted
<1>7. ASSUME NEW c \in Call, PollAborted(c) PROVE LockAccounted'
  <2>1. ~backoffTimer /\ \A d \in Call : ~Pending(d)
    BY <1>7 DEF PollAborted, LockInv, Pending
  <2>2. ~pollLock'
    BY <1>7, <2>1 DEF PollAborted, LockAccounted
  <2> QED BY <2>2 DEF LockAccounted
<1>8. ASSUME NEW c \in Call, BackoffElapses(c) PROVE LockAccounted'
  <2>1. CASE stopping \/ AtCapacity
    BY <1>8, <2>1 DEF BackoffElapses, LockAccounted
  <2>2. CASE ~(stopping \/ AtCapacity)
    BY <1>1, <1>8, <2>2 DEF BackoffElapses
  <2> QED BY <2>1, <2>2
<1>9. ASSUME NEW c \in Call, PollDue(c) PROVE LockAccounted'
  BY <1>1, <1>9 DEF PollDue
<1>10. ASSUME NEW c \in Call, Start(c) PROVE LockAccounted'
  <2>1. CASE pollLock \/ AtCapacity
    BY <1>2, <1>10, <2>1 DEF Start, pollVars
  <2>2. CASE ~(pollLock \/ AtCapacity)
    BY <1>1, <1>10, <2>2 DEF Start
  <2> QED BY <2>1, <2>2
<1>11. CASE UNCHANGED vars
  BY <1>2, <1>11 DEF vars
<1> QED
  BY <1>3, <1>4, <1>5, <1>6, <1>7, <1>8, <1>9, <1>10, <1>11
  DEF Next, CallSettles

(* Whatever fails, a poll lock that a pending poll or a backoff timer will
   release stays so; only a stop() may leave it without either. *)
THEOREM LockIsGivenBack ==
  Spec => LockAccounted /\ [][LockAccounted => LockAccounted' \/ Stop]_vars
<1>1. Init => LockAccounted
  BY DEF Init, LockAccounted
<1>2. TypeOK /\ LockInv /\ [Next]_vars
        => (LockAccounted => LockAccounted' \/ Stop)
  BY AccountedStep
<1> QED BY <1>1, <1>2, LockInductive, PTL DEF Spec

(* The lock is held and nothing is left that would release it. *)
LockLost ==
  pollLock /\ ~backoffTimer /\ \A c \in Call : call[c].phase = "free"

(* A lock that a stop() left behind is lost for good: no later start(), stop()
   or settlement gives it back, and no poll is ever made again. *)
THEOREM LostLockStaysLost == Spec => [][LockLost => LockLost']_vars
<1>1. ASSUME TypeOK, LockLost, [Next]_vars PROVE LockLost'
  <2> USE DEF LockLost
  <2>1. ASSUME NEW c \in Call, PollDue(c) \/ CallSettles(c) \/ BackoffElapses(c)
        PROVE  FALSE
    BY <1>1, <2>1 DEF PollDue, CallSettles, HeadersReady, JobsActivated,
       PollFails, PollAborted, BackoffElapses
  <2>2. ASSUME NEW c \in Call, Start(c) PROVE LockLost'
    BY <1>1, <2>2 DEF Start
  <2>3. CASE Stop
    <3>1. \A c \in Call : Cancelled(call[c]) = call[c]
      BY <1>1 DEF Cancelled
    <3>2. \A c \in Call : call'[c] = call[c]
      BY <2>3, <3>1 DEF Stop
    <3> QED BY <1>1, <2>3, <3>2 DEF Stop
  <2>4. CASE HandlerSettles \/ FailSettles \/ StopResolves \/ DeadlinePasses
    <3>1. UNCHANGED pollVars
      BY <2>4 DEF HandlerSettles, HandlerReturns, HandlerThrows, FailSettles,
                  StopResolves, DeadlinePasses
    <3> QED BY <1>1, <3>1 DEF pollVars
  <2>5. CASE UNCHANGED vars
    BY <1>1, <2>5 DEF vars, pollVars
  <2> QED BY <1>1, <2>1, <2>2, <2>3, <2>4, <2>5 DEF Next
<1> QED BY <1>1, TypeCorrect, PTL DEF Spec

-------------------------------------------------------------------------------
(* Capacity and stop() *)

(* The count is exact, and leaves room for what the pending poll may deliver. *)
CountInv ==
  /\ currentlyActiveJobCount = held
  /\ held <= MaxJobs
  /\ \A c \in Call : Pending(c) => call[c].amount + held <= MaxJobs

StopInv == stopped => stopping /\ held = 0

(* poll() leaves room for what it asks for. *)
LEMMA RequestCounts ==
  ASSUME TypeOK, CountInv, NEW c \in Call, Request(c), UNCHANGED jobVars
  PROVE  CountInv'
<1>1. /\ call'[c].amount = MaxJobs - currentlyActiveJobCount
      /\ \A d \in Call : d # c => call'[d] = call[d]
  BY DEF Request, TypeOK, PreparingSlot
<1>2. UNCHANGED <<held, currentlyActiveJobCount>> /\ held \in Nat
  BY DEF jobVars, held, TypeOK
<1>3. call'[c].amount + held' <= MaxJobs
  BY <1>1, <1>2, CapacityAssumption DEF CountInv
<1> QED BY <1>1, <1>2, <1>3 DEF CountInv, Pending

(* Settling, cancelling or advancing a promise asks for nothing new. *)
LEMMA CallCounts ==
  ASSUME CountInv, UNCHANGED jobVars,
         \A c \in Call : Pending(c)' =>
           Pending(c) /\ call'[c].amount = call[c].amount
  PROVE  CountInv'
  BY DEF CountInv, jobVars, held

LEMMA HandlerCounts ==
  ASSUME TypeOK, CountInv, UNCHANGED call, HandlerSettles \/ FailSettles
  PROVE  CountInv' /\ held' <= held /\ held' \in Nat
<1>1. /\ currentlyActiveJobCount' = held' /\ held' <= held
      /\ held \in Nat /\ held' \in Nat
  BY DEF TypeOK, CountInv, HandlerSettles, HandlerReturns, HandlerThrows,
         FailSettles, held
<1>2. ASSUME NEW c \in Call, Pending(c)
      PROVE  call[c].amount + held' <= MaxJobs
  BY <1>1, <1>2, CapacityAssumption DEF TypeOK, CountInv
<1>3. held' <= MaxJobs
  BY <1>1, CapacityAssumption DEF CountInv
<1> QED BY <1>1, <1>2, <1>3 DEF CountInv, Pending

LEMMA CountStep ==
  ASSUME TypeOK, LockInv, CountInv, [Next]_vars
  PROVE  CountInv'
<1>1. ASSUME NEW c \in Call, PollDue(c)
      PROVE  CountInv'
  BY <1>1, RequestCounts DEF PollDue
<1>2. ASSUME NEW c \in Call, HeadersReady(c)
      PROVE  CountInv'
  <2>1. \A d \in Call : Pending(d)' =>
          Pending(d) /\ call'[d].amount = call[d].amount
    BY <1>2 DEF HeadersReady, Pending, TypeOK, FreeSlot
  <2> QED BY <1>2, <2>1, CallCounts DEF HeadersReady
<1>3. ASSUME NEW c \in Call, NEW n \in Nat, JobsActivated(c, n)
      PROVE  CountInv'
  <2>1. /\ n <= call[c].amount /\ Pending(c) /\ call[c].amount \in Nat
        /\ held \in Nat /\ held' = held + n
        /\ currentlyActiveJobCount' = currentlyActiveJobCount + n
    BY <1>3 DEF JobsActivated, Pending, TypeOK, held
  <2>2. \A d \in Call : ~Pending(d)'
    BY <1>3 DEF JobsActivated, Pending, LockInv, TypeOK, FreeSlot
  <2>3. held' <= MaxJobs
    BY <2>1, CapacityAssumption DEF CountInv
  <2> QED BY <2>1, <2>2, <2>3 DEF CountInv
<1>4. ASSUME NEW c \in Call, PollFails(c) \/ PollAborted(c)
      PROVE  CountInv'
  <2>1. \A d \in Call : Pending(d)' =>
          Pending(d) /\ call'[d].amount = call[d].amount
    BY <1>4 DEF PollFails, PollAborted, Pending, TypeOK, FreeSlot
  <2> QED BY <1>4, <2>1, CallCounts DEF PollFails, PollAborted
<1>5. ASSUME NEW c \in Call, BackoffElapses(c) \/ Start(c)
      PROVE  CountInv'
  <2>1. UNCHANGED jobVars /\ (Request(c) \/ UNCHANGED call)
    BY <1>5 DEF BackoffElapses, Start
  <2>2. CASE UNCHANGED call
    BY <2>1, <2>2, CallCounts DEF Pending
  <2> QED BY <2>1, <2>2, RequestCounts
<1>6. CASE HandlerSettles \/ FailSettles
  <2> UNCHANGED call
    BY <1>6 DEF HandlerSettles, HandlerReturns, HandlerThrows, FailSettles,
                pollVars
  <2> QED BY <1>6, HandlerCounts
<1>7. CASE Stop
  <2>1. ASSUME NEW c \in Call, Pending(c)'
        PROVE  Pending(c) /\ call'[c].amount = call[c].amount
    BY <1>7, <2>1 DEF Stop, Cancelled, Pending, LockInv
  <2> QED BY <1>7, <2>1, CallCounts DEF Stop
<1>8. CASE StopResolves \/ DeadlinePasses \/ UNCHANGED vars
  <2> UNCHANGED <<jobVars, call>>
    BY <1>8 DEF StopResolves, DeadlinePasses, vars, pollVars
  <2> QED BY CallCounts DEF Pending
<1> QED
  BY <1>1, <1>2, <1>3, <1>4, <1>5, <1>6, <1>7, <1>8
  DEF Next, CallSettles

LEMMA StopStep ==
  ASSUME TypeOK, LockInv, CountInv, StopInv, [Next]_vars
  PROVE  StopInv'
<1>1. CASE UNCHANGED <<jobVars, stopVars>>
  BY <1>1 DEF StopInv, held, jobVars, stopVars
<1>2. ASSUME NEW c \in Call, 
             \/ PollDue(c) \/ HeadersReady(c) \/ PollFails(c)
             \/ PollAborted(c) \/ BackoffElapses(c)
      PROVE  StopInv'
  <2> UNCHANGED <<jobVars, stopVars>>
    BY <1>2 DEF PollDue, HeadersReady, PollFails, PollAborted, BackoffElapses
  <2> QED BY <1>1
<1>3. ASSUME NEW c \in Call, NEW n \in Nat, JobsActivated(c, n)
      PROVE  StopInv'
  <2>1. ~stopping
    BY <1>3 DEF JobsActivated, LockInv, Pending
  <2> QED BY <1>3, <2>1 DEF JobsActivated, StopInv, stopVars
<1>4. ASSUME NEW c \in Call, Start(c)
      PROVE  StopInv'
  BY <1>4 DEF Start, StopInv
<1>5. CASE HandlerSettles \/ FailSettles
  <2>1. UNCHANGED <<call, stopVars>>
    BY <1>5 DEF HandlerSettles, HandlerReturns, HandlerThrows, FailSettles,
                pollVars
  <2>2. held' <= held /\ held' \in Nat
    BY <1>5, <2>1, HandlerCounts
  <2> QED BY <2>1, <2>2 DEF StopInv, stopVars
<1>6. CASE Stop
  <2>1. held' = held /\ stopping'
    BY <1>6 DEF Stop, jobVars, held
  <2> QED BY <1>6, <2>1 DEF Stop, StopInv, CountInv
<1>7. CASE StopResolves
  <2>1. held' = held /\ held = 0
    BY <1>7 DEF StopResolves, jobVars, held, CountInv
  <2>2. stopping' = stopping /\ (stopped' => stopped \/ stopping)
    BY <1>7 DEF StopResolves
  <2> QED BY <2>1, <2>2 DEF StopInv
<1>8. CASE DeadlinePasses
  BY <1>8 DEF DeadlinePasses, StopInv, jobVars, held
<1>9. CASE UNCHANGED vars
  <2> UNCHANGED <<jobVars, stopVars>>
    BY <1>9 DEF vars
  <2> QED BY <1>1
<1> QED
  BY <1>2, <1>3, <1>4, <1>5, <1>6, <1>7, <1>8, <1>9 DEF Next, CallSettles

IInv == TypeOK /\ LockInv /\ CountInv /\ StopInv

LEMMA Inductive == Spec => []IInv
<1>1. Init => CountInv /\ StopInv
  <2> SUFFICES ASSUME Init PROVE CountInv /\ StopInv
    OBVIOUS
  <2>1. CountInv
    BY CapacityAssumption DEF Init, CountInv, Pending, FreeSlot, held
  <2>2. StopInv
    BY DEF Init, StopInv
  <2> QED BY <2>1, <2>2
<1>2. TypeOK /\ LockInv /\ CountInv /\ StopInv /\ [Next]_vars
        => CountInv' /\ StopInv'
  BY CountStep, StopStep
<1> QED BY <1>1, <1>2, LockInductive, PTL DEF Spec, IInv

(* The worker never services more jobs than its capacity. *)
THEOREM CapacityKept == Spec => []CapacityRespected
<1>1. IInv => CapacityRespected
  BY DEF IInv, CountInv, CapacityRespected
<1> QED BY <1>1, Inductive, PTL

(* When a stop() promise has resolved, every job is completed, and none arrives
   before the next start(). *)
THEOREM StopWaits == Spec => []StopDrained
<1>1. IInv => StopDrained
  BY DEF IInv, StopInv, StopDrained
<1> QED BY <1>1, Inductive, PTL

-------------------------------------------------------------------------------
(* The promise of a job worker *)

LEMMA ServiceStutter ==
  ASSUME UNCHANGED <<jobVars, stopping, stopped>>
  PROVE  UNCHANGED <<held, serviceState>>
  BY DEF jobVars, held, serviceState

LEMMA HeldRelease ==
  ASSUME held > 0, held' = held - 1, UNCHANGED stopVars
  PROVE  Service!Next
<1> UNCHANGED serviceState
  BY DEF stopVars, serviceState
<1> QED BY DEF Service!Next, Service!Release

LEMMA StepMaps ==
  ASSUME IInv, IInv', [Next]_vars
  PROVE  Service!Next \/ UNCHANGED <<held, serviceState>>
<1> USE DEF IInv
<1>1. ASSUME NEW c \in Call,
             \/ PollDue(c) \/ HeadersReady(c) \/ PollFails(c)
             \/ PollAborted(c) \/ BackoffElapses(c)
      PROVE  UNCHANGED <<held, serviceState>>
  <2> UNCHANGED <<jobVars, stopping, stopped>>
    BY <1>1 DEF PollDue, HeadersReady, PollFails, PollAborted, BackoffElapses,
                stopVars
  <2> QED BY ServiceStutter
<1>2. ASSUME NEW c \in Call, NEW n \in Nat, JobsActivated(c, n)
      PROVE  Service!Next \/ UNCHANGED <<held, serviceState>>
  <2>1. serviceState = "accepting" /\ UNCHANGED serviceState
    BY <1>2 DEF JobsActivated, LockInv, Pending, stopVars, serviceState
  <2>2. held \in Nat /\ held' = held + n
    BY <1>2 DEF JobsActivated, TypeOK, held
  <2>3. held + n <= MaxJobs
    BY <2>2 DEF CountInv
  <2>4. CASE n = 0
    BY <2>1, <2>2, <2>4
  <2>5. CASE n # 0
    <3>1. n \in 1..MaxJobs
      BY <2>2, <2>3, <2>5, CapacityAssumption
    <3> QED BY <2>1, <2>2, <2>3, <3>1 DEF Service!Next, Service!Take
  <2> QED BY <2>4, <2>5
<1>3. ASSUME NEW c \in Call, Start(c)
      PROVE  Service!Next \/ UNCHANGED <<held, serviceState>>
  <2>1. held' = held /\ serviceState' = "accepting"
    BY <1>3 DEF Start, jobVars, held, serviceState
  <2>2. CASE serviceState = "accepting"
    BY <2>1, <2>2
  <2>3. CASE serviceState # "accepting"
    BY <2>1, <2>3 DEF Service!Next, Service!Restart
  <2> QED BY <2>2, <2>3
<1>4. CASE HandlerReturns \/ FailSettles
  <2>1. held > 0 /\ held' = held - 1
    <3>1. working \in Nat /\ failing \in Nat
      BY DEF TypeOK
    <3>2. CASE HandlerReturns
      BY <3>1, <3>2 DEF HandlerReturns, held
    <3>3. CASE FailSettles
      BY <3>1, <3>3 DEF FailSettles, held
    <3> QED BY <1>4, <3>2, <3>3
  <2>2. UNCHANGED stopVars
    BY <1>4 DEF HandlerReturns, FailSettles
  <2> QED BY <2>1, <2>2, HeldRelease
<1>5. CASE HandlerThrows
  <2>1. held' = held
    BY <1>5 DEF HandlerThrows, TypeOK, held
  <2>2. UNCHANGED serviceState
    BY <1>5 DEF HandlerThrows, stopVars, serviceState
  <2> QED BY <2>1, <2>2
<1>6. CASE Stop
  <2>1. held' = held /\ stopping'
    BY <1>6 DEF Stop, jobVars, held
  <2>2. CASE held = 0
    <3>1. serviceState' = "stopped"
      BY <1>6, <2>1, <2>2 DEF Stop, CountInv, serviceState
    <3>2. serviceState \in {"accepting", "stopping", "stopped"}
      BY DEF serviceState
    <3> QED
      BY <2>1, <2>2, <3>1, <3>2 DEF Service!Next, Service!Stop, Service!Finish
  <2>3. CASE held # 0
    <3>1. ~stopped /\ ~stopped'
      BY <1>6, <2>3 DEF Stop, CountInv, StopInv
    <3>2. serviceState' = "stopping" /\ serviceState \in {"accepting", "stopping"}
      BY <2>1, <3>1 DEF serviceState
    <3> QED BY <2>1, <3>2 DEF Service!Next, Service!Stop
  <2> QED BY <2>2, <2>3
<1>7. CASE StopResolves
  <2>1. held = 0 /\ held' = held /\ stopping' = stopping
    BY <1>7 DEF StopResolves, CountInv, jobVars, held
  <2> stopped' <=> stopped \/ stopping
    BY <1>7 DEF StopResolves
  <2>2. CASE stopping /\ ~stopped
    <3>1. stopping' /\ stopped'
      BY <2>1, <2>2
    <3>2. serviceState = "stopping"
      BY <2>2 DEF serviceState
    <3>3. serviceState' = "stopped"
      BY <3>1 DEF serviceState
    <3> QED BY <2>1, <3>2, <3>3 DEF Service!Next, Service!Finish
  <2>3. CASE ~stopping
    <3> ~stopping'
      BY <2>1, <2>3
    <3> QED BY <2>1, <2>3 DEF serviceState
  <2>4. CASE stopping /\ stopped
    <3> stopping' /\ stopped'
      BY <2>1, <2>4
    <3> QED BY <2>1, <2>4 DEF serviceState
  <2> QED BY <2>2, <2>3, <2>4
<1>8. CASE DeadlinePasses \/ UNCHANGED vars
  <2> UNCHANGED <<jobVars, stopping, stopped>>
    BY <1>8 DEF DeadlinePasses, vars, stopVars
  <2> QED BY ServiceStutter
<1> QED
  BY <1>1, <1>2, <1>3, <1>4, <1>5, <1>6, <1>7, <1>8
  DEF Next, CallSettles, HandlerSettles

(* The worker implements JobService, restarts included: a step simulation under
   the inductive invariant. *)
THEOREM ServiceKept == Spec => ServicePromise
<1>1. Init => Service!Init
  BY DEF Init, Service!Init, held, serviceState
<1>2. IInv /\ IInv' /\ [Next]_vars => [Service!Next]_(Service!vars)
  BY StepMaps DEF Service!vars
<1> QED
  BY <1>1, <1>2, Inductive, PTL DEF Spec, ServicePromise, Service!Spec
===============================================================================
