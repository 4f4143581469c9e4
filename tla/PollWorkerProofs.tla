--------------------------- MODULE PollWorkerProofs ---------------------------
(***************************************************************************)
(* Theorems about PollWorker, for every set of calls, capacity and bound,  *)
(* and whatever the environment does: job actions that reject, jobs that   *)
(* do not parse, handlers that end with cancelWorkflow() and streams that  *)
(* fail after their end are steps of the model, which counts them.         *)
(***************************************************************************)
EXTENDS PollWorker, FiniteSetTheorems, TLAPS

(* What every step on one slot needs of the new record. *)
LEMMA SlotUpdate ==
  ASSUME TypeOK, NEW s \in Stream,
         NEW r \in [phase : Phases, amount : Nat, timer : BOOLEAN]
  PROVE  /\ [stream EXCEPT ![s] = r]
              \in [Stream -> [phase : Phases, amount : Nat, timer : BOOLEAN]]
         /\ [stream EXCEPT ![s] = r][s] = r
         /\ \A t \in Stream : t # s => [stream EXCEPT ![s] = r][t] = stream[t]
  BY DEF TypeOK

LEMMA FreeSlotType ==
  /\ FreeSlot \in [phase : Phases, amount : Nat, timer : BOOLEAN]
  /\ \A b \in BOOLEAN :
       FailedSlot(b) \in [phase : Phases, amount : Nat, timer : BOOLEAN]
  BY DEF FreeSlot, FailedSlot, Phases

LEMMA DrainType ==
  ASSUME TypeOK, NEW n \in Nat, Drain(n)
  PROVE  activeJobs' \in Int /\ closePhase' \in ClosePhases
  BY DEF TypeOK, Drain, ClosePhases

(* poll() asks for a natural number of jobs. *)
LEMMA SpareIsNat ==
  ASSUME TypeOK, SpareCapacity
  PROVE  activeJobs <= MaxJobs /\ MaxJobs - activeJobs \in Nat
  BY CapacityAssumption DEF TypeOK, SpareCapacity

LEMMA TypeStep ==
  ASSUME TypeOK, [Next]_vars
  PROVE  TypeOK'
<1> USE DEF TypeOK, faultVars
<1> USE BoundAssumption
<1>1. CASE UNCHANGED vars
  BY <1>1 DEF vars, jobVars, pollVars
<1>2. CASE HandlerSettles
  BY <1>2, DrainType DEF HandlerSettles, pollVars
<1>3. CASE HandlerThrows
  <2>1. working' \in Nat /\ cancelling' \in Nat
    BY <1>3 DEF HandlerThrows
  <2>2. activeJobs' \in Int /\ closePhase' \in ClosePhases
    BY <1>3, DrainType DEF HandlerThrows
  <2> QED BY <1>3, <2>1, <2>2 DEF HandlerThrows, pollVars
<1>4. CASE ActionRejected
  <2>1. working' \in Nat /\ cancelling' \in Nat /\ doubled' \in 0..MaxDoubled
    BY <1>4 DEF ActionRejected
  <2>2. activeJobs' \in Int /\ closePhase' \in ClosePhases
    BY <1>4, DrainType DEF ActionRejected
  <2> QED BY <1>4, <2>1, <2>2 DEF ActionRejected, pollVars
<1>5. CASE CancellationSettles
  BY <1>5, DrainType DEF CancellationSettles, pollVars
<1>6. CASE WorkflowCancelled
  BY <1>6 DEF WorkflowCancelled, pollVars
<1>7. ASSUME NEW s \in Stream, Poll(s)
      PROVE  TypeOK'
  <2>1. CallSlot(MaxJobs - activeJobs)
          \in [phase : Phases, amount : Nat, timer : BOOLEAN]
    BY <1>7, SpareIsNat DEF Poll, CallSlot, Phases
  <2> QED BY <1>7, <2>1 DEF Poll, jobVars
<1>8. ASSUME NEW s \in Stream, ActivationOpens(s)
      PROVE  TypeOK'
  BY <1>8 DEF ActivationOpens, jobVars, Phases
<1>9. ASSUME NEW s \in Stream, NEW b \in BOOLEAN, ActivationFails(s, b)
      PROVE  TypeOK'
  <2>1. stream' = [stream EXCEPT ![s] = FailedSlot(b)] /\ pollMutex' \in BOOLEAN
    BY <1>9 DEF ActivationFails
  <2> QED BY <1>9, <2>1, FreeSlotType DEF ActivationFails, jobVars
<1>10. ASSUME NEW s \in Stream, NEW n \in Nat, NEW u \in Nat, u <= n,
              JobsArrive(s, n, u)
       PROVE  TypeOK'
  <2>1. stream[s].amount - n \in Nat
    BY <1>10 DEF JobsArrive
  <2>2. stream' \in [Stream -> [phase : Phases, amount : Nat, timer : BOOLEAN]]
    BY <1>10, <2>1 DEF JobsArrive
  <2>3. activeJobs' \in Int /\ working' \in Nat /\ leaked' \in 0..MaxLeaked
    BY <1>10 DEF JobsArrive
  <2> QED BY <1>10, <2>2, <2>3 DEF JobsArrive
<1>11. ASSUME NEW s \in Stream, StreamEnds(s)
       PROVE  TypeOK'
  <2>1. [FreeSlot EXCEPT !.phase = "ended"]
          \in [phase : Phases, amount : Nat, timer : BOOLEAN]
    BY DEF FreeSlot, Phases
  <2> QED BY <1>11, <2>1, FreeSlotType DEF StreamEnds, jobVars
<1>12. ASSUME NEW s \in Stream, NEW b \in BOOLEAN, StreamErrors(s, b)
       PROVE  TypeOK'
  BY <1>12, FreeSlotType DEF StreamErrors, jobVars
<1>13. ASSUME NEW s \in Stream, NEW b \in BOOLEAN, LateError(s, b)
       PROVE  TypeOK'
  BY <1>13, FreeSlotType DEF LateError, jobVars
<1>14. ASSUME NEW s \in Stream, CallCompletes(s)
       PROVE  TypeOK'
  BY <1>14, FreeSlotType DEF CallCompletes, jobVars
<1>15. ASSUME NEW s \in Stream, BackoffElapses(s)
       PROVE  TypeOK'
  BY <1>15 DEF BackoffElapses, jobVars
<1>16. CASE Close
  BY <1>16 DEF Close, ClosePhases, jobVars
<1>17. CASE ChannelCloses
  BY <1>17, FreeSlotType DEF ChannelCloses, ClosePhases, jobVars
<1> QED
  BY <1>1, <1>2, <1>3, <1>4, <1>5, <1>6, <1>7, <1>8, <1>9, <1>10, <1>11,
     <1>12, <1>13, <1>14, <1>15, <1>16, <1>17, CapacityAssumption
  DEF Next, JobSettles, ActivationSettles, StreamDelivers

(* The type invariant, whatever the environment does. *)
THEOREM TypeCorrect == Spec => []TypeOK
<1>1. Init => TypeOK
  <2> SUFFICES ASSUME Init PROVE TypeOK
    OBVIOUS
  <2>1. stream \in [Stream -> [phase : Phases, amount : Nat, timer : BOOLEAN]]
    BY FreeSlotType DEF Init
  <2>2. pollMutex \in BOOLEAN
    BY DEF Init
  <2> QED BY <2>1, <2>2, BoundAssumption DEF Init, TypeOK, ClosePhases
<1>2. TypeOK /\ [Next]_vars => TypeOK'
  BY TypeStep
<1> QED BY <1>1, <1>2, PTL DEF Spec

-------------------------------------------------------------------------------
(* One poll at a time, but for late errors *)

(* A backoff timer has no call beside it. *)
TimersApart == \A s \in Stream : stream[s].timer => stream[s].phase = "free"

LEMMA TimersApartStep ==
  ASSUME TypeOK, TimersApart, [Next]_vars
  PROVE  TimersApart'
<1> USE DEF TypeOK, TimersApart
<1>1. CASE JobSettles
  BY <1>1 DEF JobSettles, HandlerSettles, HandlerThrows, ActionRejected,
              CancellationSettles, WorkflowCancelled, pollVars
<1>2. ASSUME NEW s \in Stream, Poll(s) \/ ActivationOpens(s) PROVE TimersApart'
  BY <1>2 DEF Poll, CallSlot, ActivationOpens
<1>3. ASSUME NEW s \in Stream, NEW b \in BOOLEAN,
             ActivationFails(s, b) \/ StreamErrors(s, b) \/ LateError(s, b)
      PROVE  TimersApart'
  BY <1>3 DEF ActivationFails, StreamErrors, LateError, FailedSlot, FreeSlot
<1>4. ASSUME NEW s \in Stream, StreamDelivers(s) PROVE TimersApart'
  BY <1>4 DEF StreamDelivers, JobsArrive
<1>5. ASSUME NEW s \in Stream, StreamEnds(s) \/ CallCompletes(s)
      PROVE  TimersApart'
  BY <1>5 DEF StreamEnds, CallCompletes, FreeSlot
<1>6. ASSUME NEW s \in Stream, BackoffElapses(s) PROVE TimersApart'
  BY <1>6 DEF BackoffElapses
<1>7. CASE Close \/ ChannelCloses
  BY <1>7 DEF Close, ChannelCloses, FreeSlot
<1>8. CASE UNCHANGED vars
  BY <1>8 DEF vars, pollVars
<1> QED
  BY <1>1, <1>2, <1>3, <1>4, <1>5, <1>6, <1>7, <1>8 DEF Next, ActivationSettles

(* What a poll that begins now would add to the calls underway. *)
Free == IF ~pollMutex /\ jobStream = NoStream /\ ~closing THEN 1 ELSE 0

(* pollMutex and jobStream stand for one of the calls underway; a late error
   makes the worker forget one, or adds a timer to it. *)
OverlapInv ==
  /\ TimersApart
  /\ IsFiniteSet(Underway)
  /\ Cardinality(Underway) + Free <= 1 + lateErrors

LEMMA FreeIsBit == Free \in {0, 1}
  BY DEF Free

LEMMA UnderwayIsNat ==
  ASSUME OverlapInv
  PROVE  Cardinality(Underway) \in Nat
  BY FS_CardinalityType DEF OverlapInv

(* A step that leaves the calls underway alone and lets no new one in. *)
LEMMA UnderwayKept ==
  ASSUME TypeOK, OverlapInv, TimersApart', Underway' = Underway,
         Free' <= Free, UNCHANGED lateErrors
  PROVE  OverlapInv'
  BY FreeIsBit, UnderwayIsNat, BoundAssumption DEF OverlapInv, TypeOK, Free

(* A call that begins where one may. *)
LEMMA UnderwayBegins ==
  ASSUME TypeOK, OverlapInv, TimersApart', NEW s,
         Underway' = Underway \cup {s}, Free = 1, Free' = 0,
         UNCHANGED lateErrors
  PROVE  OverlapInv'
<1>1. /\ IsFiniteSet(Underway')
      /\ Cardinality(Underway') <= Cardinality(Underway) + 1
  BY FS_AddElement, UnderwayIsNat DEF OverlapInv
<1>2. Cardinality(Underway') \in Nat
  BY <1>1, FS_CardinalityType
<1> QED
  BY <1>1, <1>2, UnderwayIsNat, BoundAssumption DEF OverlapInv, TypeOK

(* A call that ends lets another one begin. *)
LEMMA UnderwayEnds ==
  ASSUME TypeOK, OverlapInv, TimersApart', NEW s \in Underway,
         Underway' = Underway \ {s}, Free' \in {0, 1}, UNCHANGED lateErrors
  PROVE  OverlapInv'
<1>1. /\ IsFiniteSet(Underway')
      /\ Cardinality(Underway') = Cardinality(Underway) - 1
  BY FS_RemoveElement DEF OverlapInv
<1> QED
  BY <1>1, UnderwayIsNat, FreeIsBit, BoundAssumption DEF OverlapInv, TypeOK

(* A late error arms one timer more, or lets in one call more. *)
LEMMA UnderwayOverlaps ==
  ASSUME TypeOK, OverlapInv, TimersApart', NEW s,
         \/ Underway' = Underway \cup {s} /\ Free' = 0
         \/ Underway' = Underway /\ Free' = 1,
         lateErrors' = lateErrors + 1
  PROVE  OverlapInv'
<1>1. /\ IsFiniteSet(Underway \cup {s})
      /\ Cardinality(Underway \cup {s}) <= Cardinality(Underway) + 1
      /\ Cardinality(Underway \cup {s}) \in Nat
  <2>1. IsFiniteSet(Underway)
    BY DEF OverlapInv
  <2>2. /\ IsFiniteSet(Underway \cup {s})
        /\ \/ Cardinality(Underway \cup {s}) = Cardinality(Underway)
           \/ Cardinality(Underway \cup {s}) = Cardinality(Underway) + 1
    BY <2>1, FS_AddElement
  <2> QED BY <2>2, UnderwayIsNat
<1>2. CASE Underway' = Underway \cup {s} /\ Free' = 0
  BY <1>1, <1>2, UnderwayIsNat, FreeIsBit, BoundAssumption DEF OverlapInv, TypeOK
<1>3. CASE Underway' = Underway /\ Free' = 1
  BY <1>3, UnderwayIsNat, FreeIsBit, BoundAssumption DEF OverlapInv, TypeOK
<1> QED BY <1>2, <1>3

LEMMA OverlapStep ==
  ASSUME TypeOK, OverlapInv, [Next]_vars
  PROVE  OverlapInv'
<1> USE DEF TypeOK
<1>a. TimersApart /\ TimersApart'
  BY TimersApartStep DEF OverlapInv
<1>b. ASSUME NEW s \in Stream, NEW r, stream' = [stream EXCEPT ![s] = r],
             r.phase \notin {"activating", "live"}, ~r.timer
      PROVE  Underway' = Underway \ {s}
  BY <1>b DEF Underway, Polling
<1>c. ASSUME NEW s \in Stream, NEW r, stream' = [stream EXCEPT ![s] = r],
             r.phase \in {"activating", "live"} \/ r.timer
      PROVE  Underway' = Underway \cup {s}
  BY <1>c DEF Underway, Polling
<1>d. Free' \in {0, 1}
  BY DEF Free
<1>1. ASSUME UNCHANGED <<pollVars, lateErrors>>, closing => closing'
      PROVE  OverlapInv'
  <2>1. Underway' = Underway /\ Free' <= Free
    BY <1>1 DEF pollVars, Underway, Polling, Free
  <2> QED BY <1>1, <1>a, <2>1, UnderwayKept
<1>2. CASE JobSettles
  <2>1. UNCHANGED <<pollVars, lateErrors>>
    BY <1>2 DEF JobSettles, HandlerSettles, HandlerThrows, ActionRejected,
                CancellationSettles, WorkflowCancelled, faultVars
  <2>2. closing => closing'
    BY <1>2 DEF JobSettles, HandlerSettles, HandlerThrows, ActionRejected,
                CancellationSettles, WorkflowCancelled, Drain, closing
  <2> QED BY <1>1, <2>1, <2>2
<1>3. ASSUME NEW s \in Stream, Poll(s)
      PROVE  OverlapInv'
  <2> DEFINE r == CallSlot(MaxJobs - activeJobs)
  <2>1. stream' = [stream EXCEPT ![s] = r] /\ r.phase = "activating"
    BY <1>3 DEF Poll, CallSlot
  <2>2. Underway' = Underway \cup {s}
    BY <1>c, <2>1
  <2>3. Free = 1 /\ Free' = 0 /\ UNCHANGED lateErrors
    BY <1>3 DEF Poll, Free, faultVars
  <2> QED BY <1>a, <2>2, <2>3, UnderwayBegins
<1>4. ASSUME NEW s \in Stream, ActivationOpens(s)
      PROVE  OverlapInv'
  <2>1. Underway' = Underway
    BY <1>4 DEF ActivationOpens, Underway, Polling
  <2>2. Free' = 0 /\ UNCHANGED lateErrors
    BY <1>4, StreamAssumption DEF ActivationOpens, Free, faultVars
  <2> QED BY <1>a, <2>1, <2>2, FreeIsBit, UnderwayKept
<1>5. ASSUME NEW s \in Stream, NEW b \in BOOLEAN,
             ActivationFails(s, b) \/ StreamErrors(s, b)
      PROVE  OverlapInv'
  <2>1. s \in Underway /\ UNCHANGED lateErrors
    BY <1>5 DEF ActivationFails, StreamErrors, Underway, Polling, faultVars
  <2>2. stream' = [stream EXCEPT ![s] = FailedSlot(b)]
    BY <1>5 DEF ActivationFails, StreamErrors
  <2>3. FailedSlot(b).phase = "free" /\ FailedSlot(b).timer = b
    BY DEF FailedSlot, FreeSlot
  <2>4. CASE b
    <3>1. Underway' = Underway
      BY <1>c, <2>1, <2>2, <2>3, <2>4
    <3>2. Free' <= Free
      <4>1. CASE ActivationFails(s, b)
        BY <2>4, <4>1 DEF ActivationFails, Free, closing
      <4>2. CASE StreamErrors(s, b)
        <5>1. Free' = 0
          BY <2>4, <4>2 DEF StreamErrors, Free
        <5> QED BY <5>1, FreeIsBit
      <4> QED BY <1>5, <4>1, <4>2
    <3> QED BY <1>a, <2>1, <3>1, <3>2, UnderwayKept
  <2>5. CASE ~b
    BY <1>a, <1>b, <1>d, <2>1, <2>2, <2>3, <2>5, UnderwayEnds
  <2> QED BY <2>4, <2>5
<1>6. ASSUME NEW s \in Stream, StreamDelivers(s)
      PROVE  OverlapInv'
  <2> PICK n, u : JobsArrive(s, n, u)
    BY <1>6 DEF StreamDelivers
  <2>1. Underway' = Underway
    BY DEF JobsArrive, Underway, Polling
  <2>2. Free' <= Free /\ UNCHANGED lateErrors
    BY DEF JobsArrive, Free, closing
  <2> QED BY <1>a, <2>1, <2>2, UnderwayKept
<1>7. ASSUME NEW s \in Stream, StreamEnds(s)
      PROVE  OverlapInv'
  <2> DEFINE r == [FreeSlot EXCEPT !.phase = "ended"]
  <2>1. /\ stream' = [stream EXCEPT ![s] = r]
        /\ r.phase = "ended" /\ ~r.timer
    BY <1>7 DEF StreamEnds, FreeSlot
  <2>2. s \in Underway /\ UNCHANGED lateErrors
    BY <1>7 DEF StreamEnds, Underway, Polling, faultVars
  <2>3. Underway' = Underway \ {s}
    BY <1>b, <2>1
  <2> QED BY <1>a, <1>d, <2>2, <2>3, UnderwayEnds
<1>8. ASSUME NEW s \in Stream, NEW b \in BOOLEAN, LateError(s, b)
      PROVE  OverlapInv'
  <2>1. s \notin Underway /\ lateErrors' = lateErrors + 1
    BY <1>8, <1>a DEF LateError, Underway, Polling, TimersApart
  <2>2. stream' = [stream EXCEPT ![s] = FailedSlot(b)]
    BY <1>8 DEF LateError
  <2>3. FailedSlot(b).phase = "free" /\ FailedSlot(b).timer = b
    BY DEF FailedSlot, FreeSlot
  <2>4. CASE b
    <3>1. Underway' = Underway \cup {s}
      BY <1>c, <2>2, <2>3, <2>4
    <3>2. Free' = 0
      BY <1>8, <2>4 DEF LateError, Free
    <3> QED BY <1>a, <2>1, <3>1, <3>2, UnderwayOverlaps
  <2>5. CASE ~b
    <3>1. Underway' = Underway
      <4>1. Underway' = Underway \ {s}
        BY <1>b, <2>2, <2>3, <2>5
      <4> QED BY <2>1, <4>1
    <3>2. CASE Free' = 1
      BY <1>a, <2>1, <3>1, <3>2, UnderwayOverlaps
    <3>3. CASE Free' = 0
      BY <1>a, <2>1, <3>1, <3>3, UnderwayIsNat, FreeIsBit, BoundAssumption
      DEF OverlapInv
    <3> QED BY <1>d, <3>2, <3>3
  <2> QED BY <2>4, <2>5
<1>9. ASSUME NEW s \in Stream, CallCompletes(s)
      PROVE  OverlapInv'
  <2>1. Underway' = Underway
    BY <1>9, <1>a DEF CallCompletes, Underway, Polling, FreeSlot, TimersApart
  <2>2. Free' <= Free /\ UNCHANGED lateErrors
    BY <1>9 DEF CallCompletes, Free, closing, faultVars
  <2> QED BY <1>a, <2>1, <2>2, UnderwayKept
<1>10. ASSUME NEW s \in Stream, BackoffElapses(s)
       PROVE  OverlapInv'
  <2>1. s \in Underway /\ UNCHANGED lateErrors
    BY <1>10 DEF BackoffElapses, Underway, faultVars
  <2>2. Underway' = Underway \ {s}
    BY <1>10, <1>a DEF BackoffElapses, Underway, Polling, TimersApart
  <2> QED BY <1>a, <1>d, <2>1, <2>2, UnderwayEnds
<1>11. CASE Close \/ ChannelCloses
  <2>1. Underway' \in SUBSET Underway
    BY <1>11 DEF Close, ChannelCloses, Underway, Polling, FreeSlot
  <2>2. Free' = 0 /\ UNCHANGED lateErrors
    BY <1>11 DEF Close, ChannelCloses, Free, closing, faultVars
  <2>3. /\ IsFiniteSet(Underway')
        /\ Cardinality(Underway') <= Cardinality(Underway)
        /\ Cardinality(Underway') \in Nat
    BY <2>1, FS_Subset, FS_CardinalityType DEF OverlapInv
  <2> QED
    BY <1>a, <2>2, <2>3, UnderwayIsNat, FreeIsBit, BoundAssumption DEF OverlapInv
<1>12. CASE UNCHANGED vars
  <2>1. UNCHANGED <<pollVars, lateErrors>> /\ (closing => closing')
    BY <1>12 DEF vars, faultVars, closing
  <2> QED BY <1>1, <2>1
<1> QED
  BY <1>2, <1>3, <1>4, <1>5, <1>6, <1>7, <1>8, <1>9, <1>10, <1>11, <1>12
  DEF Next, ActivationSettles

LEMMA OverlapInvariant == Spec => []OverlapInv
<1>1. Init => OverlapInv
  <2> SUFFICES ASSUME Init PROVE OverlapInv
    OBVIOUS
  <2>1. Underway = {} /\ TimersApart
    BY DEF Init, Underway, Polling, TimersApart, FreeSlot
  <2>2. lateErrors = 0
    BY DEF Init
  <2> QED BY <2>1, <2>2, FS_EmptySet, FreeIsBit DEF OverlapInv
<1>2. TypeOK /\ OverlapInv /\ [Next]_vars => OverlapInv'
  BY OverlapStep
<1> QED BY <1>1, <1>2, TypeCorrect, PTL DEF Spec

(* Every overlap of ActivateJobs calls, with each other or with a backoff, takes
   a late error of its own: without one there is at most one. *)
THEOREM OverlapsTakeLateErrors == Spec => []OverlapsAreLate
<1>1. TypeOK /\ OverlapInv => OverlapsAreLate
  BY UnderwayIsNat, FreeIsBit, BoundAssumption
  DEF OverlapInv, OverlapsAreLate, TypeOK
<1> QED BY <1>1, OverlapInvariant, TypeCorrect, PTL

-------------------------------------------------------------------------------
(* Nothing is waited for in vain. *)

(* What keeps the interval from polling is there to end: the mutex is held for
   a call or a backoff timer, jobStream names a stream that delivers. *)
PollReleased ==
  /\ pollMutex => \E s \in Stream :
       stream[s].phase = "activating" \/ stream[s].timer
  /\ jobStream # NoStream => stream[jobStream].phase = "live"

LEMMA PollReleasedStep ==
  ASSUME TypeOK, TimersApart, ~closing => PollReleased, [Next]_vars
  PROVE  ~closing' => PollReleased'
<1> SUFFICES ASSUME ~closing' PROVE PollReleased'
  OBVIOUS
<1> USE DEF TypeOK, PollReleased
<1>0. ASSUME UNCHANGED closePhase PROVE PollReleased
  BY <1>0 DEF closing
<1>1. CASE JobSettles
  <2>1. UNCHANGED pollVars
    BY <1>1 DEF JobSettles, HandlerSettles, HandlerThrows, ActionRejected,
                CancellationSettles, WorkflowCancelled
  <2>2. ~closing
    BY <1>1 DEF JobSettles, HandlerSettles, HandlerThrows, ActionRejected,
                CancellationSettles, WorkflowCancelled, Drain, closing
  <2> QED BY <2>1, <2>2 DEF pollVars
<1>2. ASSUME NEW s \in Stream, Poll(s) PROVE PollReleased'
  <2>1. stream'[s].phase = "activating" /\ jobStream' = NoStream
    BY <1>2 DEF Poll, CallSlot
  <2> QED BY <2>1
<1>3. ASSUME NEW s \in Stream, ActivationOpens(s) PROVE PollReleased'
  <2>1. stream'[s].phase = "live" /\ jobStream' = s /\ pollMutex' = FALSE
    BY <1>3 DEF ActivationOpens
  <2> QED BY <2>1
<1>4. ASSUME NEW s \in Stream, NEW b \in BOOLEAN, ActivationFails(s, b)
      PROVE  PollReleased'
  <2>1. /\ stream'[s].timer = b
        /\ \A t \in Stream : t # s => stream'[t] = stream[t]
        /\ stream[s].phase = "activating"
        /\ UNCHANGED <<jobStream, closePhase>>
    BY <1>4 DEF ActivationFails, FailedSlot, FreeSlot
  <2>2. pollMutex' => b
    BY <1>4 DEF ActivationFails
  <2>3. jobStream # NoStream => stream[jobStream].phase = "live"
    BY <2>1, <1>0
  <2> QED BY <2>1, <2>2, <2>3
<1>5. ASSUME NEW s \in Stream, StreamDelivers(s) PROVE PollReleased'
  <2> PICK n, u : JobsArrive(s, n, u)
    BY <1>5 DEF StreamDelivers
  <2>1. /\ \A t \in Stream : /\ stream'[t].phase = stream[t].phase
                            /\ stream'[t].timer = stream[t].timer
        /\ UNCHANGED <<pollMutex, jobStream, closePhase>>
    BY DEF JobsArrive
  <2> QED BY <2>1, <1>0
<1>6. ASSUME NEW s \in Stream, StreamEnds(s) PROVE PollReleased'
  <2>1. /\ stream[s].phase = "live" /\ ~stream[s].timer
        /\ \A t \in Stream : t # s => stream'[t] = stream[t]
        /\ jobStream' = NoStream
        /\ UNCHANGED <<pollMutex, closePhase>>
    BY <1>6 DEF StreamEnds, TimersApart
  <2> QED BY <2>1, <1>0
<1>7. ASSUME NEW s \in Stream, NEW b \in BOOLEAN, StreamErrors(s, b)
      PROVE  PollReleased'
  <2>1. stream'[s].timer = b /\ jobStream' = NoStream
    BY <1>7 DEF StreamErrors, FailedSlot, FreeSlot
  <2>2. pollMutex' = b
    BY <1>7 DEF StreamErrors
  <2> QED BY <2>1, <2>2
<1>8. ASSUME NEW s \in Stream, NEW b \in BOOLEAN, LateError(s, b)
      PROVE  PollReleased'
  <2>1. /\ stream[s].phase = "ended"
        /\ stream'[s].timer = b
        /\ \A t \in Stream : t # s => stream'[t] = stream[t]
        /\ jobStream' = jobStream \/ jobStream' = NoStream
        /\ UNCHANGED closePhase
    BY <1>8 DEF LateError, FailedSlot, FreeSlot
  <2>2. pollMutex' = b
    BY <1>8 DEF LateError
  <2>3. jobStream # NoStream => jobStream # s
    BY <2>1, <1>0
  <2> QED BY <2>1, <2>2, <2>3, <1>0
<1>9. ASSUME NEW s \in Stream, CallCompletes(s) PROVE PollReleased'
  <2>1. /\ stream[s].phase = "ended" /\ ~stream[s].timer
        /\ \A t \in Stream : t # s => stream'[t] = stream[t]
        /\ UNCHANGED <<pollMutex, jobStream, closePhase>>
    BY <1>9 DEF CallCompletes, TimersApart
  <2> QED BY <2>1, <1>0
<1>10. ASSUME NEW s \in Stream, BackoffElapses(s) PROVE PollReleased'
  <2>1. pollMutex' = FALSE /\ jobStream' = NoStream
    BY <1>10 DEF BackoffElapses
  <2> QED BY <2>1
<1>11. CASE Close \/ ChannelCloses
  BY <1>11 DEF Close, ChannelCloses, closing
<1>12. CASE UNCHANGED vars
  BY <1>12, <1>0 DEF vars, pollVars
<1> QED
  BY <1>1, <1>2, <1>3, <1>4, <1>5, <1>6, <1>7, <1>8, <1>9, <1>10, <1>11, <1>12
  DEF Next, ActivationSettles

(* Until close() the mutex and jobStream are never left behind: whatever fails,
   in whatever order, something that ends is there to release them. *)
THEOREM PollIsReleased == Spec => [](~closing => PollReleased)
<1>1. Init => TimersApart /\ (~closing => PollReleased)
  BY DEF Init, TimersApart, PollReleased, FreeSlot
<1>2. /\ TypeOK /\ TimersApart /\ (~closing => PollReleased) /\ [Next]_vars
      => TimersApart' /\ (~closing' => PollReleased')
  BY TimersApartStep, PollReleasedStep
<1> QED BY <1>1, <1>2, TypeCorrect, PTL DEF Spec

-------------------------------------------------------------------------------
(* The count *)

(* The count is off by what is known of it, and close() waits for it to become
   zero: while it waits it is not, and it is when close() goes on. *)
CountInv ==
  /\ CountIsExact
  /\ closePhase = "draining" => activeJobs > 0
  /\ closePhase \in {"closingIdle", "closingDrained", "closed"} => activeJobs <= 0

LEMMA DrainCounts ==
  ASSUME TypeOK, CountInv, NEW n \in {1, 2}, Drain(n), TypeOK',
         held' + leaked' - doubled' = held + leaked - doubled - n
  PROVE  CountInv'
<1>1. /\ activeJobs \in Int /\ closePhase \in ClosePhases
      /\ held \in Int /\ leaked \in Int /\ doubled \in Int
  BY BoundAssumption DEF TypeOK, held
<1>2. activeJobs' = activeJobs - n
  BY DEF Drain
<1>3. CountIsExact'
  <2>1. activeJobs = held + leaked - doubled
    BY DEF CountInv, CountIsExact
  <2>2. activeJobs' = held' + leaked' - doubled'
    BY <1>1, <1>2, <2>1
  <2> QED BY <2>2 DEF CountIsExact
<1>4. ASSUME closePhase' = "draining" PROVE activeJobs' > 0
  <2>1. closePhase = "draining" /\ activeJobs \notin 1..n
    BY <1>4 DEF Drain
  <2>2. activeJobs > n
    BY <1>1, <2>1 DEF CountInv
  <2> QED BY <1>1, <1>2, <2>2
<1>5. ASSUME closePhase' \in {"closingIdle", "closingDrained", "closed"}
      PROVE  activeJobs' <= 0
  <2>1. CASE closePhase = "draining" /\ activeJobs \in 1..n
    BY <1>1, <1>2, <2>1
  <2>2. CASE ~(closePhase = "draining" /\ activeJobs \in 1..n)
    <3>1. closePhase' = closePhase
      BY <2>2 DEF Drain
    <3>2. activeJobs <= 0
      BY <1>5, <3>1 DEF CountInv
    <3> QED BY <1>1, <1>2, <3>2
  <2> QED BY <2>1, <2>2
<1> QED BY <1>3, <1>4, <1>5 DEF CountInv

LEMMA CountStep ==
  ASSUME TypeOK, CountInv, [Next]_vars, TypeOK'
  PROVE  CountInv'
<1>a. /\ working \in Nat /\ cancelling \in Nat /\ activeJobs \in Int
      /\ doubled \in Nat /\ leaked \in Nat /\ held \in Nat
  BY BoundAssumption DEF TypeOK, held
<1>b. ASSUME Drain(1), UNCHANGED <<leaked, doubled>>, held' = held - 1
      PROVE  CountInv'
  <2>1. held' + leaked' - doubled' = held + leaked - doubled - 1
    BY <1>a, <1>b
  <2> QED BY <1>b, <2>1, DrainCounts
<1>1. CASE HandlerSettles
  <2>1. Drain(1) /\ UNCHANGED <<leaked, doubled>> /\ held' = held - 1
    BY <1>1, <1>a DEF HandlerSettles, held, faultVars
  <2> QED BY <1>b, <2>1
<1>2. CASE HandlerThrows
  <2>1. CASE CancelOnException
    <3>1. /\ UNCHANGED <<activeJobs, closePhase, leaked, doubled>>
          /\ held' = held
      BY <1>2, <1>a, <2>1 DEF HandlerThrows, held, faultVars
    <3> QED BY <3>1 DEF CountInv, CountIsExact
  <2>2. CASE ~CancelOnException
    <3>1. Drain(1) /\ UNCHANGED <<leaked, doubled>> /\ held' = held - 1
      BY <1>2, <1>a, <2>2 DEF HandlerThrows, held, faultVars
    <3> QED BY <1>b, <3>1
  <2> QED BY <2>1, <2>2
<1>3. CASE ActionRejected
  <2>1. doubled' = doubled + 1 /\ UNCHANGED leaked
    BY <1>3 DEF ActionRejected
  <2>2. CASE CancelOnException
    <3>1. Drain(1) /\ held' = held
      BY <1>3, <1>a, <2>2 DEF ActionRejected, held
    <3>2. held' + leaked' - doubled' = held + leaked - doubled - 1
      BY <1>a, <2>1, <3>1
    <3> QED BY <3>1, <3>2, DrainCounts
  <2>3. CASE ~CancelOnException
    <3>1. Drain(2) /\ held' = held - 1
      BY <1>3, <1>a, <2>3 DEF ActionRejected, held
    <3>2. held' + leaked' - doubled' = held + leaked - doubled - 2
      BY <1>a, <2>1, <3>1
    <3> QED BY <3>1, <3>2, DrainCounts
  <2> QED BY <2>2, <2>3
<1>4. CASE CancellationSettles
  <2>1. Drain(1) /\ UNCHANGED <<leaked, doubled>> /\ held' = held - 1
    BY <1>4, <1>a DEF CancellationSettles, held, faultVars
  <2> QED BY <1>b, <2>1
<1>5. CASE WorkflowCancelled
  <2>1. /\ UNCHANGED <<activeJobs, closePhase, doubled>>
        /\ leaked' = leaked + 1 /\ held' = held - 1
    BY <1>5, <1>a DEF WorkflowCancelled, held
  <2>2. held' + leaked' - doubled' = held + leaked - doubled
    BY <1>a, <2>1
  <2> QED BY <2>1, <2>2 DEF CountInv, CountIsExact
<1>6. ASSUME NEW s \in Stream, StreamDelivers(s) PROVE CountInv'
  <2> PICK n \in 1..(MaxJobs + MaxDoubled), u \in 0..MaxLeaked :
        u <= n /\ JobsArrive(s, n, u)
    BY <1>6 DEF StreamDelivers
  <2>1. u \in Nat /\ n \in Nat
    BY CapacityAssumption, BoundAssumption
  <2>2. UNCHANGED <<cancelling, closePhase, doubled>>
    BY DEF JobsArrive
  <2>3. CASE closing
    <3>1. UNCHANGED <<activeJobs, working, leaked>>
      BY <2>3 DEF JobsArrive
    <3> QED BY <2>2, <3>1 DEF CountInv, CountIsExact, held
  <2>4. CASE ~closing
    <3>1. /\ activeJobs' = activeJobs + n
          /\ working' = working + n - u
          /\ leaked' = leaked + u
      BY <2>4 DEF JobsArrive
    <3>2. closePhase' = "open"
      BY <2>2, <2>4 DEF closing
    <3> QED BY <1>a, <2>1, <2>2, <3>1, <3>2 DEF CountInv, CountIsExact, held
  <2> QED BY <2>3, <2>4
<1>7. ASSUME UNCHANGED <<jobVars, closePhase, leaked, doubled>> PROVE CountInv'
  BY <1>7 DEF CountInv, CountIsExact, held, jobVars
<1>8. ASSUME NEW s \in Stream,
             \/ Poll(s)
             \/ ActivationSettles(s)
             \/ StreamEnds(s)
             \/ CallCompletes(s)
             \/ BackoffElapses(s)
             \/ \E b \in BOOLEAN : StreamErrors(s, b) \/ LateError(s, b)
      PROVE  CountInv'
  <2>1. UNCHANGED <<jobVars, closePhase, leaked, doubled>>
    BY <1>8 DEF Poll, ActivationSettles, ActivationOpens, ActivationFails,
                StreamEnds, CallCompletes, BackoffElapses, StreamErrors, LateError,
                faultVars
  <2> QED BY <1>7, <2>1
<1>9. CASE Close
  <2>1. /\ UNCHANGED <<jobVars, leaked, doubled>>
        /\ closePhase' = IF activeJobs <= 0 THEN "closingIdle" ELSE "draining"
    BY <1>9 DEF Close, faultVars
  <2> QED BY <1>a, <2>1 DEF CountInv, CountIsExact, held, jobVars
<1>10. CASE ChannelCloses
  <2>1. /\ UNCHANGED <<jobVars, leaked, doubled>> /\ closePhase' = "closed"
        /\ closePhase \in {"closingIdle", "closingDrained"}
    BY <1>10 DEF ChannelCloses, faultVars
  <2> QED BY <2>1 DEF CountInv, CountIsExact, held, jobVars
<1>11. CASE UNCHANGED vars
  BY <1>7, <1>11 DEF vars, faultVars
<1> QED
  BY <1>1, <1>2, <1>3, <1>4, <1>5, <1>6, <1>8, <1>9, <1>10, <1>11
  DEF Next, JobSettles

LEMMA CountInvariant == Spec => []CountInv
<1>1. Init => CountInv
  BY DEF Init, CountInv, CountIsExact, held
<1>2. TypeOK /\ CountInv /\ [Next]_vars => TypeOK' /\ CountInv'
  BY TypeStep, CountStep
<1> QED BY <1>1, <1>2, TypeCorrect, PTL DEF Spec

(* The count of active jobs is off by the jobs that leaked and those counted out
   twice, and by nothing else. *)
THEOREM CountKept == Spec => []CountIsExact
<1>1. CountInv => CountIsExact
  BY DEF CountInv
<1> QED BY <1>1, CountInvariant, PTL

(* The interval may poll again, or something that is bound to end keeps it from
   doing so, or the leaked jobs do: until close() no other state is reached. *)
NeverStalls ==
  ~closing =>
    \/ ~pollMutex /\ jobStream = NoStream /\ SpareCapacity
    \/ \E s \in Stream : Polling(s) \/ stream[s].timer
    \/ held > 0
    \/ LeaksFill

(* Whatever fails, and however often, the next interval polls, or a call, a
   stream, a backoff timer or a handler is there whose end lets a later one poll,
   unless jobs that leaked fill the capacity. *)
THEOREM PollingNeverStalls == Spec => []NeverStalls
<1>1. TypeOK /\ CountInv /\ (~closing => PollReleased) => NeverStalls
  <2> SUFFICES ASSUME TypeOK, CountInv, PollReleased,
                      ~(~pollMutex /\ jobStream = NoStream /\ SpareCapacity)
               PROVE  \/ \E s \in Stream : Polling(s) \/ stream[s].timer
                      \/ held > 0
                      \/ LeaksFill
    BY DEF NeverStalls
  <2>1. CASE pollMutex
    BY <2>1 DEF PollReleased, Polling
  <2>2. CASE jobStream # NoStream
    BY <2>2 DEF PollReleased, Polling, TypeOK
  <2>3. CASE ~SpareCapacity /\ ~(held > 0)
    <3>1. held = 0 /\ doubled \in Nat /\ leaked \in 0..MaxLeaked
      BY <2>3, BoundAssumption DEF TypeOK, held
    <3>2. leaked - doubled = activeJobs
      BY <3>1, BoundAssumption DEF CountInv, CountIsExact, TypeOK
    <3>3. activeJobs \in Int /\ 10 * activeJobs > 3 * MaxJobs
      BY <2>3, CapacityAssumption DEF SpareCapacity, TypeOK
    <3>4. activeJobs \in 1..MaxLeaked
      BY <3>1, <3>2, <3>3, CapacityAssumption, BoundAssumption
    <3> QED BY <3>2, <3>3, <3>4 DEF LeaksFill
  <2> QED BY <2>1, <2>2, <2>3
<1> QED BY <1>1, PollIsReleased, CountInvariant, TypeCorrect, PTL

(* A close() that waits has a job to wait for, or waits for one that leaked. *)
CloseHasJobs == closePhase = "draining" => held > 0 \/ leaked > doubled

(* close() never waits for a job that is not there, but for those that leaked. *)
THEOREM CloseIsNeverStuck == Spec => []CloseHasJobs
<1>1. TypeOK /\ CountInv => CloseHasJobs
  BY BoundAssumption DEF CountInv, CountIsExact, CloseHasJobs, TypeOK, held
<1> QED BY <1>1, CountInvariant, TypeCorrect, PTL

-------------------------------------------------------------------------------
(* Capacity *)

(* Until a late error the count leaves room for what the call under way may
   still deliver. *)
RoomInv ==
  lateErrors = 0 =>
    /\ activeJobs <= MaxJobs
    /\ \A s \in Stream : Polling(s) => stream[s].amount + activeJobs <= MaxJobs

LEMMA OnePollUntilLate ==
  ASSUME TypeOK, OverlapInv, lateErrors = 0,
         NEW s \in Stream, NEW t \in Stream, Polling(s), Polling(t)
  PROVE  s = t
<1>1. s \in Underway /\ t \in Underway
  BY DEF Underway
<1>2. Cardinality(Underway) <= 1
  BY UnderwayIsNat, FreeIsBit DEF OverlapInv
<1>3. Cardinality(Underway \ {s}) = 0 /\ IsFiniteSet(Underway \ {s})
  <2>1. /\ IsFiniteSet(Underway \ {s})
        /\ Cardinality(Underway \ {s}) = Cardinality(Underway) - 1
    BY <1>1, FS_RemoveElement DEF OverlapInv
  <2>2. Cardinality(Underway \ {s}) \in Nat
    BY <2>1, FS_CardinalityType
  <2> QED BY <1>2, <2>1, <2>2, UnderwayIsNat
<1>4. Underway \ {s} = {}
  BY <1>3, FS_EmptySet
<1> QED BY <1>1, <1>4

(* A step that leaves the count or lowers it, and lets no call ask for more. *)
LEMMA RoomKept ==
  ASSUME TypeOK, TypeOK', RoomInv, lateErrors' = 0 => lateErrors = 0,
         activeJobs' <= activeJobs,
         \A s \in Stream : Polling(s)' =>
           \/ stream'[s].amount + activeJobs' <= MaxJobs
           \/ Polling(s) /\ stream'[s].amount = stream[s].amount
  PROVE  RoomInv'
<1>1. MaxJobs \in Int /\ activeJobs \in Int /\ activeJobs' \in Int
  BY CapacityAssumption DEF TypeOK
<1>2. SUFFICES ASSUME lateErrors' = 0
               PROVE  /\ activeJobs' <= MaxJobs
                      /\ \A s \in Stream : Polling(s)' =>
                           stream'[s].amount + activeJobs' <= MaxJobs
  BY DEF RoomInv, Polling
<1>3. activeJobs' <= MaxJobs
  BY <1>1, <1>2 DEF RoomInv
<1>4. ASSUME NEW s \in Stream, Polling(s)'
      PROVE  stream'[s].amount + activeJobs' <= MaxJobs
  <2>1. CASE Polling(s) /\ stream'[s].amount = stream[s].amount
    <3>1. stream[s].amount + activeJobs <= MaxJobs /\ stream[s].amount \in Int
      BY <1>2, <2>1 DEF RoomInv, TypeOK
    <3> QED BY <1>1, <2>1, <3>1
  <2> QED BY <1>4, <2>1
<1> QED BY <1>3, <1>4

LEMMA RoomStep ==
  ASSUME TypeOK, TypeOK', OverlapInv, RoomInv, [Next]_vars
  PROVE  RoomInv'
<1> USE DEF TypeOK
<1>1. CASE JobSettles
  <2>1. UNCHANGED <<stream, lateErrors>>
    BY <1>1 DEF JobSettles, HandlerSettles, HandlerThrows, ActionRejected,
                CancellationSettles, WorkflowCancelled, pollVars, faultVars
  <2>2. activeJobs' <= activeJobs
    BY <1>1 DEF JobSettles, HandlerSettles, HandlerThrows, ActionRejected,
                CancellationSettles, WorkflowCancelled, Drain
  <2> QED BY <2>1, <2>2, RoomKept DEF Polling
<1>2. ASSUME NEW s \in Stream, Poll(s)
      PROVE  RoomInv'
  <2>1. /\ stream'[s].amount = MaxJobs - activeJobs
        /\ \A t \in Stream : t # s => stream'[t] = stream[t]
        /\ UNCHANGED <<activeJobs, lateErrors>>
    BY <1>2 DEF Poll, CallSlot, jobVars, faultVars
  <2>2. stream'[s].amount + activeJobs' <= MaxJobs
    BY <2>1, CapacityAssumption
  <2> QED BY <2>1, <2>2, RoomKept DEF Polling
<1>3. ASSUME NEW s \in Stream, ActivationOpens(s)
      PROVE  RoomInv'
  <2>1. /\ stream'[s].amount = stream[s].amount
        /\ \A t \in Stream : t # s => stream'[t] = stream[t]
        /\ stream[s].phase = "activating"
        /\ UNCHANGED <<activeJobs, lateErrors>>
    BY <1>3 DEF ActivationOpens, jobVars, faultVars
  <2> QED BY <2>1, RoomKept DEF Polling
<1>4. ASSUME NEW s \in Stream, StreamDelivers(s)
      PROVE  RoomInv'
  <2> PICK n \in 1..(MaxJobs + MaxDoubled), u \in 0..MaxLeaked :
        u <= n /\ JobsArrive(s, n, u)
    BY <1>4 DEF StreamDelivers
  <2>1. n \in Nat
    BY CapacityAssumption, BoundAssumption
  <2>2. /\ stream[s].phase = "live" /\ n <= stream[s].amount
        /\ stream'[s].amount = stream[s].amount - n
        /\ \A t \in Stream : t # s => stream'[t] = stream[t]
        /\ lateErrors' = lateErrors
    BY DEF JobsArrive
  <2>3. activeJobs' \in {activeJobs, activeJobs + n}
    BY DEF JobsArrive
  <2>4. SUFFICES ASSUME lateErrors = 0 PROVE RoomInv'
    BY <2>2 DEF RoomInv
  <2>5. \A t \in Stream : t # s => ~Polling(t)'
    BY <2>2, <2>4, OnePollUntilLate DEF Polling
  <2>6. stream[s].amount + activeJobs <= MaxJobs
    BY <2>2, <2>4 DEF RoomInv, Polling
  <2>7. stream'[s].amount + activeJobs' <= MaxJobs /\ activeJobs' <= MaxJobs
    BY <2>1, <2>2, <2>3, <2>6, CapacityAssumption
  <2> QED BY <2>5, <2>7 DEF RoomInv
<1>5. ASSUME NEW s \in Stream,
             \/ StreamEnds(s)
             \/ \E b \in BOOLEAN :
                  ActivationFails(s, b) \/ StreamErrors(s, b) \/ LateError(s, b)
             \/ CallCompletes(s)
      PROVE  RoomInv'
  <2>1. /\ stream'[s].phase \notin {"activating", "live"}
        /\ \A t \in Stream : t # s => stream'[t] = stream[t]
    BY <1>5 DEF StreamEnds, ActivationFails, StreamErrors, LateError,
                CallCompletes, FreeSlot, FailedSlot
  <2>2. UNCHANGED activeJobs
    BY <1>5 DEF StreamEnds, ActivationFails, StreamErrors, LateError,
                CallCompletes, jobVars
  <2>3. lateErrors' = lateErrors \/ lateErrors' = lateErrors + 1
    BY <1>5 DEF StreamEnds, ActivationFails, StreamErrors, LateError,
                CallCompletes, faultVars
  <2>4. lateErrors' = 0 => lateErrors = 0
    BY <2>3, BoundAssumption
  <2> QED BY <2>1, <2>2, <2>4, RoomKept DEF Polling
<1>6. ASSUME NEW s \in Stream, BackoffElapses(s)
      PROVE  RoomInv'
  <2>1. \A t \in Stream : /\ stream'[t].phase = stream[t].phase
                         /\ stream'[t].amount = stream[t].amount
    BY <1>6 DEF BackoffElapses
  <2>2. UNCHANGED <<activeJobs, lateErrors>>
    BY <1>6 DEF BackoffElapses, jobVars, faultVars
  <2> QED BY <2>1, <2>2, RoomKept DEF Polling
<1>7. CASE Close
  <2>1. \A t \in Stream : /\ stream'[t].phase = stream[t].phase
                         /\ stream'[t].amount = stream[t].amount
    BY <1>7 DEF Close
  <2>2. UNCHANGED <<activeJobs, lateErrors>>
    BY <1>7 DEF Close, jobVars, faultVars
  <2> QED BY <2>1, <2>2, RoomKept DEF Polling
<1>8. CASE ChannelCloses
  <2>1. \A t \in Stream : stream'[t] = stream[t] \/ stream'[t].phase = "free"
    BY <1>8 DEF ChannelCloses, FreeSlot
  <2>2. UNCHANGED <<activeJobs, lateErrors>>
    BY <1>8 DEF ChannelCloses, jobVars, faultVars
  <2> QED BY <2>1, <2>2, RoomKept DEF Polling
<1>9. CASE UNCHANGED vars
  <2>1. UNCHANGED <<activeJobs, stream, lateErrors>>
    BY <1>9 DEF vars, jobVars, pollVars, faultVars
  <2> QED BY <2>1, RoomKept DEF Polling
<1> QED
  BY <1>1, <1>2, <1>3, <1>4, <1>5, <1>6, <1>7, <1>8, <1>9
  DEF Next, ActivationSettles

IInv == TypeOK /\ OverlapInv /\ CountInv /\ RoomInv

LEMMA Inductive == Spec => []IInv
<1>1. Init => RoomInv
  BY CapacityAssumption DEF Init, RoomInv, Polling, FreeSlot
<1>2. TypeOK /\ OverlapInv /\ RoomInv /\ [Next]_vars => RoomInv'
  BY TypeStep, RoomStep
<1> QED
  BY <1>1, <1>2, TypeCorrect, OverlapInvariant, CountInvariant, PTL
  DEF Spec, IInv

(* The worker exceeds its capacity, and close() resolves before every job has
   drained, by no more than the jobs counted out twice. *)
THEOREM DriftKept == Spec => []DriftIsBounded
<1>1. IInv => DriftIsBounded
  BY CapacityAssumption, BoundAssumption
  DEF IInv, TypeOK, CountInv, CountIsExact, RoomInv, DriftIsBounded, held
<1> QED BY <1>1, Inductive, PTL

-------------------------------------------------------------------------------
(* The promise of a job worker *)

LEMMA HeldRelease ==
  ASSUME held > 0, held' = held - 1, UNCHANGED serviceState
  PROVE  Service!Next
  BY DEF Service!Next, Service!Release

LEMMA DrainStays ==
  ASSUME NEW n, Drain(n)
  PROVE  UNCHANGED serviceState
  BY DEF Drain, serviceState, closing

LEMMA ServiceStutter ==
  ASSUME UNCHANGED <<jobVars, closePhase>>
  PROVE  UNCHANGED <<held, serviceState>>
  BY DEF jobVars, held, serviceState, closing

LEMMA StepMaps ==
  ASSUME IInv, IInv', [Next]_vars, ~breached'
  PROVE  Service!Next \/ UNCHANGED <<held, serviceState>>
<1> USE DEF IInv, TypeOK
<1>1. CASE HandlerSettles
  <2>1. held > 0 /\ held' = held - 1
    BY <1>1 DEF HandlerSettles, held
  <2> QED BY <1>1, <2>1, DrainStays, HeldRelease DEF HandlerSettles
<1>2. CASE HandlerThrows
  <2>1. CASE CancelOnException
    BY <1>2, <2>1 DEF HandlerThrows, held, serviceState, closing
  <2>2. CASE ~CancelOnException
    <3>1. held > 0 /\ held' = held - 1
      BY <1>2, <2>2 DEF HandlerThrows, held
    <3> QED BY <1>2, <2>2, <3>1, DrainStays, HeldRelease DEF HandlerThrows
  <2> QED BY <2>1, <2>2
<1>3. CASE ActionRejected
  BY <1>3, BoundAssumption DEF ActionRejected, breached
<1>4. CASE CancellationSettles
  <2>1. held > 0 /\ held' = held - 1
    BY <1>4 DEF CancellationSettles, held
  <2> QED BY <1>4, <2>1, DrainStays, HeldRelease DEF CancellationSettles
<1>5. CASE WorkflowCancelled
  <2>1. held > 0 /\ held' = held - 1
    BY <1>5 DEF WorkflowCancelled, held
  <2>2. UNCHANGED serviceState
    BY <1>5 DEF WorkflowCancelled, serviceState, closing
  <2> QED BY <2>1, <2>2, HeldRelease
<1>6. ASSUME NEW s \in Stream, StreamDelivers(s)
      PROVE  Service!Next \/ UNCHANGED <<held, serviceState>>
  <2> PICK n \in 1..(MaxJobs + MaxDoubled), u \in 0..MaxLeaked :
        u <= n /\ JobsArrive(s, n, u)
    BY <1>6 DEF StreamDelivers
  <2> DEFINE k == n - u
  <2>1. k \in Nat
    BY CapacityAssumption, BoundAssumption
  <2>2. UNCHANGED serviceState
    BY DEF JobsArrive, serviceState, closing
  <2>3. CASE closing
    BY <2>2, <2>3 DEF JobsArrive, held
  <2>4. CASE ~closing
    <3>1. held' = held + k
      BY <2>1, <2>4, CapacityAssumption, BoundAssumption DEF JobsArrive, held
    <3>2. held + k <= MaxJobs
      <4>1. lateErrors' = 0 /\ doubled' = 0
        BY BoundAssumption DEF breached
      <4>2. activeJobs' = held' + leaked' - doubled' /\ activeJobs' <= MaxJobs
        BY <4>1 DEF CountInv, CountIsExact, RoomInv
      <4>3. held' \in Int /\ leaked' \in Nat
        BY BoundAssumption DEF held
      <4> QED BY <3>1, <4>1, <4>2, <4>3, CapacityAssumption
    <3>3. serviceState = "accepting"
      BY <2>4 DEF serviceState
    <3>4. CASE k = 0
      <4>1. held \in Nat
        BY DEF held
      <4>2. held' = held
        BY <3>1, <3>4, <4>1
      <4> QED BY <2>2, <4>2
    <3>5. CASE k # 0
      <4>1. held \in Nat
        BY DEF held
      <4>2. k \in 1..MaxJobs
        BY <2>1, <3>2, <3>5, <4>1, CapacityAssumption
      <4> HIDE DEF k
      <4> QED BY <2>2, <3>1, <3>2, <3>3, <4>2 DEF Service!Next, Service!Take
    <3> QED BY <3>4, <3>5
  <2> QED BY <2>3, <2>4
<1>7. ASSUME NEW s \in Stream,
             \/ Poll(s)
             \/ ActivationSettles(s)
             \/ StreamEnds(s)
             \/ CallCompletes(s)
             \/ BackoffElapses(s)
             \/ \E b \in BOOLEAN : StreamErrors(s, b) \/ LateError(s, b)
      PROVE  Service!Next \/ UNCHANGED <<held, serviceState>>
  <2>1. UNCHANGED <<jobVars, closePhase>>
    BY <1>7 DEF Poll, ActivationSettles, ActivationOpens, ActivationFails,
                StreamEnds, CallCompletes, BackoffElapses, StreamErrors, LateError
  <2> QED BY <2>1, ServiceStutter
<1>8. CASE Close
  <2>1. held' = held
    BY <1>8 DEF Close, jobVars, held
  <2>2. serviceState = "accepting" /\ serviceState' = "stopping"
    BY <1>8 DEF Close, serviceState, closing
  <2> QED BY <2>1, <2>2 DEF Service!Next, Service!Stop
<1>9. CASE ChannelCloses
  <2>1. held = 0 /\ held' = held
    <3>1. UNCHANGED <<jobVars, doubled>> /\ activeJobs <= 0
      BY <1>9 DEF ChannelCloses, CountInv, faultVars
    <3>2. held + leaked <= 0
      BY <3>1, BoundAssumption DEF breached, CountInv, CountIsExact, held
    <3>3. held \in Nat /\ leaked \in Nat
      BY BoundAssumption DEF held
    <3> QED BY <3>1, <3>2, <3>3 DEF jobVars, held
  <2>2. serviceState = "stopping" /\ serviceState' = "stopped"
    BY <1>9 DEF ChannelCloses, serviceState, closing
  <2> QED BY <2>1, <2>2 DEF Service!Next, Service!Finish
<1>10. CASE UNCHANGED vars
  <2>1. UNCHANGED <<jobVars, closePhase>>
    BY <1>10 DEF vars
  <2> QED BY <2>1, ServiceStutter
<1> QED
  BY <1>1, <1>2, <1>3, <1>4, <1>5, <1>6, <1>7, <1>8, <1>9, <1>10
  DEF Next, JobSettles

(* Until a late error or a double count the worker implements JobService: a step
   simulation under the inductive invariant. *)
THEOREM ServiceKept == Spec => ServicePromise
<1>1. Init => Service!Init
  BY DEF Init, Service!Init, held, serviceState, closing
<1>2. IInv /\ IInv' /\ [Next]_vars
        => [breached' \/ Service!Next]_(Service!vars)
  BY StepMaps DEF Service!vars
<1> QED
  BY <1>1, <1>2, Inductive, PTL DEF Spec, ServicePromise
===============================================================================
