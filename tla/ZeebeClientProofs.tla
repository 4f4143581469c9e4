--------------------------- MODULE ZeebeClientProofs ---------------------------
(***************************************************************************)
(* Theorems about GrpcStatus and ZeebeClient, for every set of commands    *)
(* and workers and every number of retries.                                *)
(***************************************************************************)
EXTENDS ZeebeClient, TLAPS

CallRecord ==
  [phase : Phases, retries : 0..MaxRetries, authFailed : BOOLEAN,
   result : Results]

StatusRecord ==
  [connected : {"unknown", "yes", "no"}, readied : BOOLEAN,
   heard : {"nothing", "ready", "connectionError", "close"}]

LEMMA HearType ==
  ASSUME StatusTypeOK
  PROVE  HearReady \in StatusRecord /\ HearError \in StatusRecord
  BY DEF StatusTypeOK, StatusRecord, HearReady, HearError

LEMMA EventType ==
  ASSUME StatusTypeOK, EventReady \/ EventError \/ NoEvent
  PROVE  status' \in StatusRecord /\ state' \in {"UNKNOWN", "ERROR", "CONNECTED"}
  BY HearType DEF StatusTypeOK, StatusRecord, EventReady, EventError, NoEvent

LEMMA UnissuedType == Unissued \in CallRecord
  BY RetryAssumption DEF Unissued, CallRecord, Phases, Results

LEMMA GoesType ==
  ASSUME TypeOK, NEW c \in Call, NEW phase \in Phases, Goes(c, phase)
  PROVE  call' \in [Call -> CallRecord]
  BY DEF TypeOK, Goes, CallRecord

LEMMA FailsWithType ==
  ASSUME TypeOK, NEW c \in Call, NEW error \in Errors, FailsWith(c, error)
  PROVE  call' \in [Call -> CallRecord]
  <1>1. error \in Results /\ "failed" \in Phases
    BY DEF Errors, Results, Phases
  <1>2. [call[c] EXCEPT !.phase = "failed", !.result = error] \in CallRecord
    BY <1>1 DEF TypeOK, CallRecord
  <1> QED
    BY <1>1, <1>2 DEF TypeOK, FailsWith, CallRecord

WorkerStates == {"absent", "idle", "busy", "draining", "closed"}

LEMMA SettlesWithType ==
  ASSUME TypeOK, NEW c \in Call, NEW result \in Results, SettlesWith(c, result)
  PROVE  call' \in [Call -> CallRecord] /\ worker' \in [Worker -> WorkerStates]
  <1>1. [Unissued EXCEPT !.phase = "settled", !.result = result] \in CallRecord
    <2>1. "settled" \in Phases
      BY DEF Phases
    <2> QED
      BY <2>1, UnissuedType DEF CallRecord
  <1>2. call' \in [Call -> CallRecord]
    BY <1>1 DEF TypeOK, SettlesWith, CallRecord
  <1>3. worker' \in [Worker -> WorkerStates]
    BY DEF TypeOK, SettlesWith, WorkerDrained, WorkerStates
  <1> QED
    BY <1>2, <1>3

LEMMA AttemptType ==
  ASSUME TypeOK, NEW c \in Call, Attempt(c)
  PROVE  call' \in [Call -> CallRecord] /\ worker' \in [Worker -> WorkerStates]
  <1>1. CASE closing
    BY <1>1, SettlesWithType DEF Attempt, Results
  <1>2. CASE ~closing
    BY <1>2, GoesType DEF Attempt, Phases, TypeOK, WorkerStates
  <1> QED
    BY <1>1, <1>2

LEMMA ActivationType ==
  ASSUME TypeOK, NEW s \in Activation, ActivationStep(s)
  PROVE  /\ StatusTypeOK'
         /\ activation' \in [Activation -> {"idle", "authenticating", "open"}]
         /\ UNCHANGED <<call, worker, streamWorker, closeStep>>
  <1>1. PICK phase \in {"idle", "authenticating", "open"} : ActivationGoes(s, phase)
    BY DEF ActivationStep, activateJobs, ActivationOpens, ActivationFails,
           ActivationErrors, ActivationCompletes
  <1>2. StatusTypeOK'
    <2>1. activateJobs(s) => StatusTypeOK'
      BY DEF activateJobs, TypeOK, statusVars, StatusTypeOK
    <2>2. ActivationOpens(s) => StatusTypeOK'
      BY DEF ActivationOpens, StreamIsCreated, NoEvent, setReady, TypeOK,
             StatusTypeOK, Verdicts
    <2>3. ActivationFails(s) => StatusTypeOK'
      BY EventType
      DEF ActivationFails, StreamIsNotCreated, setNotReady, TypeOK, StatusTypeOK,
          StatusRecord, Verdicts
    <2>4. ActivationErrors(s) => StatusTypeOK'
      BY EventType
      DEF ActivationErrors, StreamFails, setNotReady, TypeOK, StatusTypeOK,
          StatusRecord, Verdicts, Evidence
    <2>5. ActivationCompletes(s) => StatusTypeOK'
      BY DEF ActivationCompletes, StreamCompletes, TypeOK, StatusTypeOK, Evidence
    <2> QED
      BY <2>1, <2>2, <2>3, <2>4, <2>5 DEF ActivationStep
  <1> QED
    BY <1>1, <1>2 DEF ActivationGoes, TypeOK

LEMMA TypeStep == TypeOK /\ [Next]_vars => TypeOK'
  <1> SUFFICES ASSUME TypeOK, [Next]_vars PROVE TypeOK'
    OBVIOUS
  <1> USE DEF WorkerStates
  <1>1. CASE StatusStep /\ UNCHANGED clientVars
    <2>1. BuildChannel => StatusTypeOK'
      BY DEF BuildChannel, TypeOK, StatusTypeOK
    <2>2. ProbeConnects => StatusTypeOK'
      BY EventType DEF ProbeConnects, TypeOK, StatusTypeOK, StatusRecord, Evidence, Verdicts
    <2>3. ProbeGivesUp => StatusTypeOK'
      BY EventType DEF ProbeGivesUp, TypeOK, StatusTypeOK, StatusRecord, Evidence, Verdicts
    <2>4. ReadyTimerFires => StatusTypeOK'
      BY EventType DEF ReadyTimerFires, TypeOK, StatusTypeOK, StatusRecord
    <2>5. FailTimerFires => StatusTypeOK'
      BY EventType DEF FailTimerFires, TypeOK, StatusTypeOK, StatusRecord
    <2>6. ToleranceElapses => StatusTypeOK'
      BY HearType DEF ToleranceElapses, TypeOK, StatusTypeOK, StatusRecord
    <2>7. StatusTypeOK'
      BY <1>1, <2>1, <2>2, <2>3, <2>4, <2>5, <2>6 DEF StatusStep
    <2> QED
      BY <1>1, <2>7 DEF clientVars, TypeOK
  <1>2. ASSUME NEW c \in Command, Issue(c) PROVE TypeOK'
    BY <1>2, AttemptType DEF Issue, Call, TypeOK, CallRecord, statusVars, StatusTypeOK
  <1>3. ASSUME NEW c \in Call, CallStep(c) PROVE TypeOK'
    <2>1. BackoffElapses(c) => TypeOK'
      BY AttemptType
      DEF BackoffElapses, TypeOK, CallRecord, statusVars, StatusTypeOK
    <2>2. ChannelAwaited(c) => TypeOK'
      BY GoesType, SettlesWithType
      DEF ChannelAwaited, TypeOK, CallRecord, statusVars, StatusTypeOK, Phases, Results
    <2>3. CallSync(c) => TypeOK'
      BY GoesType, SettlesWithType
      DEF CallSync, TypeOK, CallRecord, statusVars, StatusTypeOK, Phases, Results
    <2>4. Sends(c) => TypeOK'
      BY GoesType, FailsWithType
      DEF Sends, TypeOK, CallRecord, statusVars, StatusTypeOK, Phases, Errors
    <2>5. HeadersFail(c) => TypeOK'
      BY FailsWithType
      DEF HeadersFail, TypeOK, CallRecord, statusVars, StatusTypeOK, Errors
    <2>6. Succeeds(c) => TypeOK'
      <3> SUFFICES ASSUME Succeeds(c) PROVE TypeOK'
        OBVIOUS
      <3>1. StatusTypeOK'
        BY EventType
        DEF Succeeds, CallSucceeds, setReady, TypeOK, StatusTypeOK, StatusRecord, Evidence,
            Verdicts
      <3> QED
        BY <3>1, SettlesWithType DEF Succeeds, TypeOK, CallRecord, Results
    <2>7. ASSUME NEW error \in Errors, Refused(c, error) PROVE TypeOK'
      <3>1. StatusTypeOK'
        BY <2>7
        DEF Refused, CallIsRefused, NoEvent, setReady, TypeOK, StatusTypeOK, Evidence,
            Verdicts
      <3> QED
        BY <2>7, <3>1, FailsWithType DEF Refused, TypeOK, CallRecord
    <2>8. Lost(c) => TypeOK'
      <3> SUFFICES ASSUME Lost(c) PROVE TypeOK'
        OBVIOUS
      <3>1. StatusTypeOK'
        BY DEF Lost, CallIsLost, NoEvent, setNotReady, TypeOK, StatusTypeOK, Evidence,
               Verdicts
      <3> QED
        BY <3>1, FailsWithType DEF Lost, TypeOK, CallRecord, Errors
    <2>9. Retries(c) => TypeOK'
      <3> SUFFICES ASSUME Retries(c) PROVE TypeOK'
        OBVIOUS
      <3>1. CASE c \in Forever \/ call[c].retries < MaxRetries
        <4> DEFINE again ==
              [phase |-> "backingOff",
               retries |-> IF c \in Forever THEN 0 ELSE call[c].retries + 1,
               authFailed |-> call[c].authFailed \/ call[c].result = "auth",
               result |-> "pending"]
        <4>1. call[c] \in CallRecord
          BY DEF TypeOK, CallRecord
        <4>2. again.retries \in 0..MaxRetries
          BY <3>1, <4>1, RetryAssumption DEF CallRecord
        <4>3. again.authFailed \in BOOLEAN
          OBVIOUS
        <4>4. again \in CallRecord
          BY <4>2, <4>3 DEF CallRecord, Phases, Results
        <4>5. call' = [call EXCEPT ![c] = again] /\ UNCHANGED worker
          BY <3>1 DEF Retries
        <4> HIDE DEF again
        <4> QED
          BY <4>4, <4>5
          DEF Retries, TypeOK, CallRecord, statusVars, StatusTypeOK
      <3>2. CASE ~(c \in Forever \/ call[c].retries < MaxRetries)
        BY <3>2, SettlesWithType
        DEF Retries, TypeOK, CallRecord, statusVars, StatusTypeOK, Results
      <3> QED
        BY <3>1, <3>2
    <2>10. GivesUp(c) => TypeOK'
      BY SettlesWithType
      DEF GivesUp, TypeOK, CallRecord, statusVars, StatusTypeOK, Results
    <2>11. Swallowed(c) => TypeOK'
      BY GoesType
      DEF Swallowed, TypeOK, CallRecord, statusVars, StatusTypeOK, Phases
    <2> QED
      BY <1>3, <2>1, <2>2, <2>3, <2>4, <2>5, <2>6, <2>7, <2>8, <2>9, <2>10, <2>11
      DEF CallStep, Proceeds, Answered, Swallowed
  <1>4. ASSUME NEW w \in Worker, createWorker(w) PROVE TypeOK'
    BY <1>4 DEF createWorker, TypeOK, statusVars, StatusTypeOK
  <1>5. ASSUME NEW w \in Worker, WorkerTakesJob(w) PROVE TypeOK'
    BY <1>5 DEF WorkerTakesJob, TypeOK, statusVars, StatusTypeOK
  <1>6. ASSUME NEW w \in Worker, HandlerActs(w) PROVE TypeOK'
    BY <1>6, AttemptType
    DEF HandlerActs, Call, TypeOK, CallRecord, statusVars, StatusTypeOK
  <1>7. CASE streamJobs
    BY <1>7 DEF streamJobs, TypeOK, statusVars, StatusTypeOK
  <1>8. CASE close
    BY <1>8 DEF close, TypeOK, statusVars, StatusTypeOK
  <1>9. CASE ChannelCloses
    BY <1>9 DEF ChannelCloses, CloseChannel, TypeOK, StatusTypeOK
  <1>10. CASE CloseFinishes
    <2>1. status' \in StatusRecord
      BY <1>10 DEF CloseFinishes, StopListening, TypeOK, StatusTypeOK, StatusRecord
    <2> QED
      BY <1>10, <2>1
      DEF CloseFinishes, StopListening, TypeOK, StatusTypeOK, StatusRecord
  <1>11. CASE UNCHANGED vars
    BY <1>11 DEF vars, statusVars, clientVars, TypeOK, StatusTypeOK
  <1>12. ASSUME NEW s \in Activation, ActivationStep(s) PROVE TypeOK'
    BY <1>12, ActivationType DEF TypeOK
  <1> QED
    BY <1>1, <1>2, <1>3, <1>4, <1>5, <1>6, <1>7, <1>8, <1>9, <1>10, <1>11, <1>12
    DEF Next

LEMMA TypeInit == Init => TypeOK
  <1> SUFFICES ASSUME Init PROVE TypeOK
    OBVIOUS
  <1>1. StatusTypeOK
    BY DEF Init, StatusInit, StatusTypeOK, Evidence, Verdicts
  <1>2. call \in [Call -> CallRecord]
    BY UnissuedType DEF Init
  <1> QED
    BY <1>1, <1>2 DEF Init, TypeOK, CallRecord

(* Every variable keeps its type, whatever the gateway answers. *)
THEOREM TypeCorrect == Spec => []TypeOK
  BY TypeInit, TypeStep, PTL DEF Spec
-------------------------------------------------------------------------------
(* A ready timer is armed by an outcome that is taken for a connection and
   dropped by one that is not; a fail timer alone runs only after the latter.
   When neither runs, the middleware's state is the verdict, and the client has
   been told of it as soon as nothing is held back. *)
StatusInv ==
  /\ readyTimer => taken # "down"
  /\ failTimer /\ ~readyTimer => taken # "up"
  /\ ~readyTimer /\ ~failTimer /\ listening =>
       /\ taken = "up" => state = "CONNECTED"
       /\ taken = "down" => state = "ERROR"
  /\ ~blocking =>
       /\ state = "CONNECTED" => status.connected = "yes"
       /\ state = "ERROR" => status.connected = "no"

(* A job action is in hand only while its worker is, and close() has left no
   worker to itself. *)
InHand(c) == call[c].phase \notin {"unissued", "settled"}

CloseInv ==
  /\ channelClosed <=> closeStep \in {"streams", "closed"}
  /\ listening <=> closeStep # "closed"
  /\ \A w \in Worker :
       /\ InHand(w) => worker[w] \in {"busy", "draining"}
       /\ closing => worker[w] \in {"absent", "draining", "closed"}
       /\ channelClosed => worker[w] # "draining"
  /\ closeStep = "closed" => streamWorker # "open"

LEMMA HearVerdict == HearReady.connected = "yes" /\ HearError.connected = "no"
  BY DEF HearReady, HearError

LEMMA StatusInvInit == Init => StatusInv
  BY DEF Init, StatusInit, StatusInv

LEMMA StatusInvStep == TypeOK /\ StatusInv /\ [Next]_vars => StatusInv'
  <1> SUFFICES ASSUME StatusTypeOK, StatusInv, [Next]_vars PROVE StatusInv'
    BY DEF TypeOK
  <1> USE DEF StatusInv
  <1>1. CASE BuildChannel
    BY <1>1 DEF BuildChannel, built
  <1>2. CASE ProbeConnects
    <2>1. (readyTimer' <=> readyTimer) /\ (failTimer' <=> failTimer)
      BY <1>2 DEF ProbeConnects
    <2>2. listening' = listening /\ blocking' = blocking
      BY <1>2 DEF ProbeConnects
    <2>3. taken' = IF failTimer /\ ~readyTimer THEN "nothing" ELSE "up"
      BY <1>2 DEF ProbeConnects
    <2>4. state' = IF listening THEN "CONNECTED" ELSE state
      BY <1>2 DEF ProbeConnects, EventReady
    <2>5. status' = IF listening /\ ~blocking THEN HearReady ELSE status
      BY <1>2 DEF ProbeConnects, EventReady
    <2> QED
      BY <2>1, <2>2, <2>3, <2>4, <2>5, HearVerdict
  <1>3. CASE ProbeGivesUp
    <2>1. (readyTimer' <=> readyTimer) /\ (failTimer' <=> failTimer)
      BY <1>3 DEF ProbeGivesUp
    <2>2. listening' = listening /\ blocking' = blocking
      BY <1>3 DEF ProbeGivesUp
    <2>3. taken' = IF readyTimer THEN "nothing" ELSE "down"
      BY <1>3 DEF ProbeGivesUp
    <2>4. state' = IF listening THEN "ERROR" ELSE state
      BY <1>3 DEF ProbeGivesUp, EventError
    <2>5. status' = IF listening /\ ~blocking THEN HearError ELSE status
      BY <1>3 DEF ProbeGivesUp, EventError
    <2> QED
      BY <2>1, <2>2, <2>3, <2>4, <2>5, HearVerdict
  <1>4. CASE ReadyTimerFires
    <2>1. taken' # "down" /\ ~readyTimer' /\ ~failTimer'
      BY <1>4 DEF ReadyTimerFires
    <2>2. listening' = listening /\ blocking' = blocking
      BY <1>4 DEF ReadyTimerFires
    <2>3. state' = IF listening THEN "CONNECTED" ELSE state
      BY <1>4 DEF ReadyTimerFires, EventReady
    <2>4. status' = IF listening /\ ~blocking THEN HearReady ELSE status
      BY <1>4 DEF ReadyTimerFires, EventReady
    <2> QED
      BY <2>1, <2>2, <2>3, <2>4, HearVerdict
  <1>5. CASE FailTimerFires
    <2>1. ~failTimer' /\ taken' = taken /\ (readyTimer' <=> readyTimer)
      BY <1>5 DEF FailTimerFires
    <2>2. listening' = listening /\ blocking' = blocking
      BY <1>5 DEF FailTimerFires
    <2>3. CASE readyTimer
      BY <1>5, <2>1, <2>2, <2>3 DEF FailTimerFires, NoEvent
    <2>4. CASE ~readyTimer
      <3>1. taken # "up"
        BY <1>5, <2>4 DEF FailTimerFires
      <3>2. state' = IF listening THEN "ERROR" ELSE state
        BY <1>5, <2>4 DEF FailTimerFires, EventError
      <3>3. status' = IF listening /\ ~blocking THEN HearError ELSE status
        BY <1>5, <2>4 DEF FailTimerFires, EventError
      <3> QED
        BY <2>1, <2>2, <2>4, <3>1, <3>2, <3>3, HearVerdict
    <2> QED
      BY <2>3, <2>4
  <1>6. CASE ToleranceElapses
    <2>1. state' = state /\ taken' = taken /\ listening' = listening
      BY <1>6 DEF ToleranceElapses
    <2>2. /\ readyTimer' <=> readyTimer
          /\ failTimer' <=> failTimer
      BY <1>6 DEF ToleranceElapses
    <2>3. state = "CONNECTED" => status'.connected = "yes"
      BY <1>6, HearVerdict DEF ToleranceElapses
    <2>4. state = "ERROR" => status'.connected = "no"
      BY <1>6, HearVerdict DEF ToleranceElapses
    <2> QED
      BY <2>1, <2>2, <2>3, <2>4
  <1>7. ASSUME NEW c \in Call, Succeeds(c) PROVE StatusInv'
    <2>1. readyTimer' /\ taken' = "up"
      BY <1>7 DEF Succeeds, CallSucceeds, setReady
    <2>2. listening' = listening /\ blocking' = blocking
      BY <1>7 DEF Succeeds, CallSucceeds
    <2>3. state' = IF listening THEN "CONNECTED" ELSE state
      BY <1>7 DEF Succeeds, CallSucceeds, EventReady
    <2>4. status' = IF listening /\ ~blocking THEN HearReady ELSE status
      BY <1>7 DEF Succeeds, CallSucceeds, EventReady
    <2> QED
      BY <2>1, <2>2, <2>3, <2>4, HearVerdict
  <1>8. ASSUME NEW c \in Call, NEW error \in Errors, Refused(c, error)
        PROVE  StatusInv'
    BY <1>8 DEF Refused, CallIsRefused, NoEvent, setReady
  <1>9. ASSUME NEW c \in Call, Lost(c) PROVE StatusInv'
    BY <1>9 DEF Lost, CallIsLost, NoEvent, setNotReady
  <1>10. CASE CloseFinishes
    <2>1. status'.connected = status.connected
      BY <1>10 DEF CloseFinishes, StopListening, StatusTypeOK
    <2>2. /\ ~listening' /\ state' = state /\ taken' = taken
          /\ readyTimer' <=> readyTimer
          /\ failTimer' <=> failTimer
          /\ blocking' <=> blocking
      BY <1>10 DEF CloseFinishes, StopListening
    <2> QED
      BY <2>1, <2>2
  <1>11. CASE ChannelCloses
    BY <1>11 DEF ChannelCloses, CloseChannel
  <1>12. CASE UNCHANGED statusVars
    BY <1>12 DEF statusVars
  <1>13. ASSUME NEW c \in Call, CallStep(c)
         PROVE  StatusInv'
    BY <1>7, <1>8, <1>9, <1>12, <1>13
    DEF CallStep, Proceeds, Answered, Swallowed, BackoffElapses, ChannelAwaited,
        CallSync, Sends, HeadersFail, Retries, GivesUp
  <1>14. CASE StatusStep /\ UNCHANGED clientVars
    BY <1>1, <1>2, <1>3, <1>4, <1>5, <1>6, <1>14 DEF StatusStep
  <1>15. ASSUME NEW s \in Activation, ActivationStep(s) PROVE StatusInv'
    <2>1. CASE activateJobs(s)
      BY <1>12, <2>1 DEF activateJobs
    <2>2. CASE ActivationOpens(s)
      BY <2>2 DEF ActivationOpens, StreamIsCreated, NoEvent, setReady
    <2>3. ASSUME EventError, setNotReady, UNCHANGED <<listening, blocking>>
          PROVE  StatusInv'
      <3>1. ~readyTimer' /\ failTimer' /\ taken' = "down"
        BY <2>3 DEF setNotReady
      <3>2. state' = IF listening THEN "ERROR" ELSE state
        BY <2>3 DEF EventError
      <3>3. status' = IF listening /\ ~blocking THEN HearError ELSE status
        BY <2>3 DEF EventError
      <3> QED
        BY <2>3, <3>1, <3>2, <3>3, HearVerdict
    <2>4. CASE ActivationFails(s) \/ ActivationErrors(s)
      BY <2>3, <2>4
      DEF ActivationFails, ActivationErrors, StreamIsNotCreated, StreamFails
    <2>5. CASE ActivationCompletes(s)
      BY <2>5 DEF ActivationCompletes, StreamCompletes
    <2> QED
      BY <1>15, <2>1, <2>2, <2>4, <2>5 DEF ActivationStep
  <1> QED
    BY <1>10, <1>11, <1>12, <1>13, <1>14, <1>15
    DEF Next, vars, Issue, createWorker, WorkerTakesJob, HandlerActs, streamJobs,
        close

(* What the application reads of the connection is, once the timers have run
   out, what GrpcClient took the last outcome for, that of a stream on the same
   channel included. *)
THEOREM StatusKeepsUp == Spec => []StatusFollows
  <1>1. TypeOK /\ StatusInv => StatusFollows
    BY DEF StatusInv, StatusFollows, Settled
  <1> QED
    BY <1>1, TypeInit, TypeStep, StatusInvInit, StatusInvStep, PTL DEF Spec

-------------------------------------------------------------------------------
(* A call in hand may go on: its worker, if it is a job action, is busy. *)
Held(c) == c \in Worker => worker[c] \in {"busy", "draining"}

closeState == <<channelClosed, listening, streamWorker, closeStep>>

LEMMA HeldInHand ==
  ASSUME CloseInv, NEW c \in Call, InHand(c)
  PROVE  Held(c)
  BY DEF CloseInv, Held

LEMMA GoesOnKeeps ==
  ASSUME TypeOK, CloseInv, NEW c \in Call, Held(c), NEW r,
         call' = [call EXCEPT ![c] = r], UNCHANGED worker, UNCHANGED closeState
  PROVE  CloseInv'
  <1>1. \A w \in Worker : w # c => (InHand(w)' <=> InHand(w))
    BY DEF InHand, TypeOK, Call
  <1>2. /\ channelClosed' = channelClosed /\ listening' = listening
        /\ streamWorker' = streamWorker /\ closeStep' = closeStep
    BY DEF closeState
  <1>3. ASSUME NEW w \in Worker
        PROVE  /\ InHand(w)' => worker'[w] \in {"busy", "draining"}
               /\ closing' => worker'[w] \in {"absent", "draining", "closed"}
               /\ channelClosed' => worker'[w] # "draining"
    <2>1. worker'[w] = worker[w] /\ (closing' <=> closing)
      BY <1>2 DEF closing
    <2>2. CASE w = c
      BY <1>2, <2>1, <2>2 DEF CloseInv, Held
    <2>3. CASE w # c
      BY <1>1, <1>2, <2>1, <2>3 DEF CloseInv
    <2> QED
      BY <2>2, <2>3
  <1> QED
    BY <1>2, <1>3 DEF CloseInv

LEMMA SettlesKeeps ==
  ASSUME TypeOK, CloseInv, NEW c \in Call, Held(c), NEW r,
         SettlesWith(c, r), UNCHANGED closeState
  PROVE  CloseInv'
  <1>1. \A w \in Worker : w # c => call'[w] = call[w]
    BY DEF SettlesWith, TypeOK, Call
  <1>2. call'[c].phase = "settled"
    BY DEF SettlesWith, TypeOK, Unissued
  <1>3. /\ channelClosed' = channelClosed /\ listening' = listening
        /\ streamWorker' = streamWorker /\ closeStep' = closeStep
    BY DEF closeState
  <1>4. ASSUME NEW w \in Worker
        PROVE  /\ InHand(w)' => worker'[w] \in {"busy", "draining"}
               /\ closing' => worker'[w] \in {"absent", "draining", "closed"}
               /\ channelClosed' => worker'[w] # "draining"
    <2>1. closing' <=> closing
      BY <1>3 DEF closing
    <2>2. CASE w = c
      <3>1. worker'[w] = IF worker[w] = "draining" THEN "closed" ELSE "idle"
        BY <2>2 DEF SettlesWith, WorkerDrained
      <3>2. ~InHand(w)'
        BY <1>2, <2>2 DEF InHand
      <3>3. closing => worker[w] = "draining"
        BY <2>2 DEF CloseInv, Held
      <3> QED
        BY <2>1, <3>1, <3>2, <3>3
    <2>3. CASE w # c
      <3>1. worker'[w] = worker[w]
        BY <2>3 DEF SettlesWith, WorkerDrained
      <3>2. InHand(w)' <=> InHand(w)
        BY <1>1, <2>3 DEF InHand
      <3> QED
        BY <1>3, <2>1, <3>1, <3>2 DEF CloseInv
    <2> QED
      BY <2>2, <2>3
  <1> QED
    BY <1>3, <1>4 DEF CloseInv

LEMMA GoesKeeps ==
  ASSUME TypeOK, CloseInv, NEW c \in Call, Held(c), NEW phase, Goes(c, phase),
         UNCHANGED worker, UNCHANGED closeState
  PROVE  CloseInv'
  <1>1. call' = [call EXCEPT ![c] = [call[c] EXCEPT !.phase = phase]]
    BY DEF Goes
  <1> QED
    BY <1>1, GoesOnKeeps

LEMMA FailsKeeps ==
  ASSUME TypeOK, CloseInv, NEW c \in Call, Held(c), NEW error,
         FailsWith(c, error), UNCHANGED worker, UNCHANGED closeState
  PROVE  CloseInv'
  <1>1. call' = [call EXCEPT ![c] =
                   [call[c] EXCEPT !.phase = "failed", !.result = error]]
    BY DEF FailsWith
  <1> QED
    BY <1>1, GoesOnKeeps

LEMMA AttemptKeeps ==
  ASSUME TypeOK, CloseInv, NEW c \in Call, Held(c), Attempt(c),
         UNCHANGED closeState
  PROVE  CloseInv'
  <1>1. CASE closing
    BY <1>1, SettlesKeeps DEF Attempt
  <1>2. CASE ~closing
    BY <1>2, GoesKeeps DEF Attempt
  <1> QED
    BY <1>1, <1>2

LEMMA CallStepKeeps ==
  ASSUME TypeOK, CloseInv, NEW c \in Call, CallStep(c)
  PROVE  CloseInv'
  <1> USE DEF statusVars, closeState
  <1>1. InHand(c)
    BY DEF CallStep, Proceeds, Answered, Swallowed, BackoffElapses, ChannelAwaited,
           CallSync, Sends, HeadersFail, Succeeds, Refused, Lost, Retries, GivesUp, InHand
  <1>2. Held(c)
    BY <1>1, HeldInHand
  <1>3. CASE BackoffElapses(c)
    BY <1>2, <1>3, AttemptKeeps DEF BackoffElapses
  <1>4. CASE ChannelAwaited(c)
    BY <1>2, <1>4, GoesKeeps, SettlesKeeps DEF ChannelAwaited
  <1>5. CASE CallSync(c)
    BY <1>2, <1>5, GoesKeeps, SettlesKeeps DEF CallSync
  <1>6. CASE Sends(c)
    BY <1>2, <1>6, GoesKeeps, FailsKeeps DEF Sends
  <1>7. CASE HeadersFail(c)
    BY <1>2, <1>7, FailsKeeps DEF HeadersFail
  <1>8. CASE Succeeds(c)
    BY <1>2, <1>8, SettlesKeeps DEF Succeeds, CallSucceeds
  <1>9. ASSUME NEW error \in Errors, Refused(c, error) PROVE CloseInv'
    BY <1>2, <1>9, FailsKeeps DEF Refused, CallIsRefused
  <1>10. CASE Lost(c)
    BY <1>2, <1>10, FailsKeeps DEF Lost, CallIsLost
  <1>11. CASE Retries(c)
    BY <1>2, <1>11, GoesOnKeeps, SettlesKeeps DEF Retries
  <1>12. CASE GivesUp(c)
    BY <1>2, <1>12, SettlesKeeps DEF GivesUp
  <1>13. CASE Swallowed(c)
    BY <1>2, <1>13, GoesKeeps DEF Swallowed
  <1> QED
    BY <1>3, <1>4, <1>5, <1>6, <1>7, <1>8, <1>9, <1>10, <1>11, <1>12, <1>13
    DEF CallStep, Proceeds, Answered, Swallowed

(* activateJobs touches the status only, and that only while anyone listens. *)
LEMMA ActivationQuiet ==
  ASSUME NEW s \in Activation, ActivationStep(s)
  PROVE  /\ UNCHANGED <<call, worker, streamWorker, closeStep>>
         /\ UNCHANGED <<channelClosed, listening>>
         /\ ~listening => UNCHANGED status
  <1>1. UNCHANGED <<call, worker, streamWorker, closeStep>>
    BY DEF ActivationStep, activateJobs, ActivationOpens, ActivationFails,
           ActivationErrors, ActivationCompletes, ActivationGoes
  <1>2. UNCHANGED <<channelClosed, listening>>
    BY DEF ActivationStep, activateJobs, ActivationOpens, ActivationFails,
           ActivationErrors, ActivationCompletes, StreamIsCreated,
           StreamIsNotCreated, StreamFails, StreamCompletes, statusVars
  <1>3. ~listening => UNCHANGED status
    BY DEF ActivationStep, activateJobs, ActivationOpens, ActivationFails,
           ActivationErrors, ActivationCompletes, StreamIsCreated,
           StreamIsNotCreated, StreamFails, StreamCompletes, statusVars,
           NoEvent, EventError
  <1> QED
    BY <1>1, <1>2, <1>3

LEMMA CloseInvInit == Init => CloseInv
  BY DEF Init, StatusInit, CloseInv, InHand, Unissued, closing, Call

LEMMA CloseInvStep == TypeOK /\ CloseInv /\ [Next]_vars => CloseInv'
  <1> SUFFICES ASSUME TypeOK, CloseInv, [Next]_vars PROVE CloseInv'
    OBVIOUS
  <1>1. CASE StatusStep /\ UNCHANGED clientVars
    <2>1. channelClosed' = channelClosed /\ listening' = listening
      BY <1>1 DEF StatusStep, BuildChannel, ProbeConnects, ProbeGivesUp,
                  ReadyTimerFires, FailTimerFires, ToleranceElapses
    <2> QED
      BY <1>1, <2>1 DEF CloseInv, clientVars, InHand, closing
  <1>2. ASSUME NEW c \in Command, Issue(c) PROVE CloseInv'
    <2>1. c \in Call /\ Held(c)
      BY CallAssumption DEF Call, Held
    <2> QED
      BY <1>2, <2>1, AttemptKeeps DEF Issue, statusVars, closeState
  <1>3. ASSUME NEW c \in Call, CallStep(c) PROVE CloseInv'
    BY <1>3, CallStepKeeps
  <1>4. ASSUME NEW w \in Worker, createWorker(w) PROVE CloseInv'
    <2>1. ~InHand(w)
      BY <1>4 DEF createWorker, CloseInv
    <2> QED
      BY <1>4, <2>1
      DEF createWorker, CloseInv, InHand, closing, statusVars, TypeOK
  <1>5. ASSUME NEW w \in Worker, WorkerTakesJob(w) PROVE CloseInv'
    <2>1. ~closing
      BY <1>5 DEF WorkerTakesJob, CloseInv
    <2> QED
      BY <1>5, <2>1
      DEF WorkerTakesJob, CloseInv, InHand, closing, statusVars, TypeOK
  <1>6. ASSUME NEW w \in Worker, HandlerActs(w) PROVE CloseInv'
    <2>1. w \in Call /\ Held(w)
      BY <1>6 DEF HandlerActs, Call, Held
    <2> QED
      BY <1>6, <2>1, AttemptKeeps DEF HandlerActs, statusVars, closeState
  <1>7. CASE streamJobs
    BY <1>7 DEF streamJobs, CloseInv, InHand, closing, statusVars
  <1>8. CASE close
    <2>1. ASSUME NEW w \in Worker
          PROVE  /\ worker'[w] \in {"absent", "draining", "closed"}
                 /\ InHand(w)' => worker'[w] = "draining"
      <3>1. worker[w] = "idle" => worker'[w] = "closed"
        BY <1>8 DEF close
      <3>2. worker[w] = "busy" => worker'[w] = "draining"
        BY <1>8 DEF close
      <3>3. worker[w] \notin {"idle", "busy"} => worker'[w] = worker[w]
        BY <1>8 DEF close
      <3>4. InHand(w)' <=> InHand(w)
        BY <1>8 DEF close, InHand
      <3> QED
        BY <3>1, <3>2, <3>3, <3>4 DEF TypeOK, CloseInv
    <2> QED
      BY <1>8, <2>1 DEF close, CloseInv, closing, statusVars
  <1>9. CASE ChannelCloses
    BY <1>9 DEF ChannelCloses, CloseChannel, CloseInv, InHand, closing
  <1>10. CASE CloseFinishes
    BY <1>10 DEF CloseFinishes, StopListening, CloseInv, InHand, closing
  <1>11. CASE UNCHANGED vars
    BY <1>11 DEF vars, statusVars, clientVars, CloseInv, InHand, closing
  <1>12. ASSUME NEW s \in Activation, ActivationStep(s) PROVE CloseInv'
    BY <1>12, ActivationQuiet DEF CloseInv, InHand, closing
  <1> QED
    BY <1>1, <1>2, <1>3, <1>4, <1>5, <1>6, <1>7, <1>8, <1>9, <1>10, <1>11, <1>12
    DEF Next

(* When close() has resolved, every channel that was made until then is closed:
   only a stream worker made by a later streamJobs is not. *)
THEOREM ChannelsAreClosed == Spec => []NothingOutlivesClose
  <1>1. TypeOK /\ CloseInv => NothingOutlivesClose
    BY DEF TypeOK, CloseInv, NothingOutlivesClose, closing
  <1> QED
    BY <1>1, TypeInit, TypeStep, CloseInvInit, CloseInvStep, PTL DEF Spec

(* close is the last event, and no command goes on the wire after it. *)
THEOREM NothingAfterClose == Spec => SilentAfterClose
  <1> DEFINE Silent ==
        closeStep = "closed" =>
          /\ UNCHANGED status
          /\ \A c \in Call : call'[c].phase = "sent" => call[c].phase = "sent"
  <1>1. TypeOK /\ CloseInv /\ [Next]_vars => [Silent]_vars
    <2> SUFFICES ASSUME TypeOK, CloseInv, Next, closeStep = "closed"
                 PROVE  Silent
      OBVIOUS
    <2>1. channelClosed /\ ~listening /\ closing
      BY DEF CloseInv, closing
    <2>2. ASSUME NEW c \in Call, NEW d \in Call,
                 \/ Attempt(c)
                 \/ \E phase \in Phases \ {"sent"} : Goes(c, phase)
                 \/ \E e : FailsWith(c, e)
                 \/ \E r : SettlesWith(c, r)
                 \/ Retries(c)
          PROVE  call'[d].phase = "sent" => call[d].phase = "sent"
      <3>1. \A r : call' = [call EXCEPT ![c] = r] /\ r.phase # "sent"
                     => (call'[d].phase = "sent" => call[d].phase = "sent")
        BY DEF TypeOK
      <3>2. ASSUME NEW phase \in Phases \ {"sent"}, Goes(c, phase)
            PROVE  call' = [call EXCEPT ![c] = [call[c] EXCEPT !.phase = phase]]
                   /\ [call[c] EXCEPT !.phase = phase].phase # "sent"
        BY <3>2 DEF Goes, TypeOK
      <3>3. ASSUME NEW e, FailsWith(c, e)
            PROVE  call'[d].phase = "sent" => call[d].phase = "sent"
        BY <3>3 DEF FailsWith, TypeOK
      <3>4. ASSUME NEW r, SettlesWith(c, r)
            PROVE  call'[d].phase = "sent" => call[d].phase = "sent"
        <4>1. [Unissued EXCEPT !.phase = "settled", !.result = r].phase # "sent"
          BY DEF Unissued
        <4> QED
          BY <3>1, <3>4, <4>1 DEF SettlesWith
      <3>5. ASSUME Attempt(c)
            PROVE  call'[d].phase = "sent" => call[d].phase = "sent"
        BY <2>1, <3>4, <3>5 DEF Attempt
      <3>6. ASSUME Retries(c)
            PROVE  call'[d].phase = "sent" => call[d].phase = "sent"
        <4>1. CASE c \in Forever \/ call[c].retries < MaxRetries
          <5> DEFINE retried ==
                [phase |-> "backingOff",
                 retries |-> IF c \in Forever THEN 0 ELSE call[c].retries + 1,
                 authFailed |-> call[c].authFailed \/ call[c].result = "auth",
                 result |-> "pending"]
          <5>1. call' = [call EXCEPT ![c] = retried]
            BY <3>6, <4>1 DEF Retries
          <5>2. retried.phase # "sent"
            OBVIOUS
          <5> HIDE DEF retried
          <5> QED
            BY <3>1, <5>1, <5>2
        <4>2. CASE ~(c \in Forever \/ call[c].retries < MaxRetries)
          BY <3>4, <3>6, <4>2 DEF Retries
        <4> QED
          BY <4>1, <4>2
      <3> QED
        BY <2>2, <3>1, <3>2, <3>3, <3>4, <3>5, <3>6
    <2>3. CASE StatusStep /\ UNCHANGED clientVars
      BY <2>1, <2>3
      DEF StatusStep, BuildChannel, ProbeConnects, ProbeGivesUp, ReadyTimerFires,
          FailTimerFires, ToleranceElapses, EventReady, EventError, NoEvent,
          clientVars
    <2>4. ASSUME NEW c \in Call, CallStep(c) PROVE Silent
      <3>1. UNCHANGED status
        BY <2>1, <2>4
        DEF CallStep, Proceeds, Answered, Swallowed, BackoffElapses, ChannelAwaited,
            CallSync, Sends, HeadersFail, Succeeds, Refused, Lost, Retries, GivesUp,
            CallSucceeds, CallIsRefused, CallIsLost, EventReady, NoEvent, statusVars
      <3>2. \/ Attempt(c)
            \/ \E phase \in Phases \ {"sent"} : Goes(c, phase)
            \/ \E e : FailsWith(c, e)
            \/ \E r : SettlesWith(c, r)
            \/ Retries(c)
        <4>1. CASE Swallowed(c)
          BY <4>1 DEF Swallowed, Phases
        <4>2. CASE ~Swallowed(c)
          BY <2>1, <2>4, <4>2
          DEF CallStep, Proceeds, Answered, BackoffElapses, ChannelAwaited,
              CallSync, Sends, HeadersFail, Succeeds, Refused, Lost, GivesUp
        <4> QED
          BY <4>1, <4>2
      <3> QED
        BY <2>2, <3>1, <3>2
    <2>5. ASSUME NEW c \in Call, Attempt(c), UNCHANGED statusVars PROVE Silent
      BY <2>2, <2>5 DEF statusVars
    <2>6. CASE UNCHANGED <<statusVars, call>>
      BY <2>6 DEF statusVars
    <2>7. ASSUME NEW s \in Activation, ActivationStep(s) PROVE Silent
      BY <2>1, <2>7, ActivationQuiet
    <2> QED
      BY <2>1, <2>3, <2>4, <2>5, <2>6, <2>7
      DEF Next, Issue, HandlerActs, createWorker, WorkerTakesJob, streamJobs, close,
          ChannelCloses, CloseFinishes, Call
  <1>2. TypeOK /\ CloseInv /\ [Next]_vars => (TypeOK /\ CloseInv)'
    BY TypeStep, CloseInvStep
  <1> QED
    BY <1>1, <1>2, TypeInit, CloseInvInit, PTL DEF Spec, SilentAfterClose

-------------------------------------------------------------------------------
(* What a command has still to go through, and who waits for it. *)
StepsLeft(phase) ==
  CASE phase = "unissued" -> 7
    [] phase = "checked" -> 6
    [] phase = "calling" -> 5
    [] phase = "authenticating" -> 4
    [] phase = "sent" -> 3
    [] phase = "swallowed" -> 1
    [] phase = "failed" -> 2
    [] phase = "backingOff" -> 1
    [] phase = "settled" -> 0

(* The results of a command that was dropped. *)
Nothing == {"null", "undefined"}

Settling(c) ==
  \E result \in Results :
    SettlesWith(c, result) /\ (result \in Nothing => closing)

Advancing(c) ==
  \E r \in CallRecord :
    /\ call' = [call EXCEPT ![c] = r]
    /\ UNCHANGED worker
    /\ r.phase # "settled"
    /\ r.result = call[c].result \/ r.result \notin Nothing
    /\ closing => StepsLeft(r.phase) < StepsLeft(call[c].phase)

LEMMA GoesAdvances ==
  ASSUME TypeOK, NEW c \in Call, NEW phase \in Phases \ {"settled"},
         Goes(c, phase), UNCHANGED worker,
         closing => StepsLeft(phase) < StepsLeft(call[c].phase)
  PROVE  Advancing(c)
  <1> DEFINE r == [call[c] EXCEPT !.phase = phase]
  <1>1. r \in CallRecord /\ r.phase = phase /\ r.result = call[c].result
    BY DEF TypeOK, CallRecord
  <1>2. call' = [call EXCEPT ![c] = r]
    BY DEF Goes
  <1> HIDE DEF r
  <1> QED
    BY <1>1, <1>2 DEF Advancing

LEMMA FailsAdvances ==
  ASSUME TypeOK, NEW c \in Call, NEW error \in Errors, FailsWith(c, error),
         UNCHANGED worker, call[c].phase \in {"authenticating", "sent"}
  PROVE  Advancing(c)
  <1> DEFINE r == [call[c] EXCEPT !.phase = "failed", !.result = error]
  <1>1. error \in Results /\ error \notin Nothing /\ "failed" \in Phases
    BY DEF Errors, Results, Nothing, Phases
  <1>2. r \in CallRecord /\ r.phase = "failed" /\ r.result = error
    BY <1>1 DEF TypeOK, CallRecord
  <1>3. call' = [call EXCEPT ![c] = r]
    BY DEF FailsWith
  <1>4. StepsLeft("failed") < StepsLeft(call[c].phase)
    BY DEF StepsLeft
  <1> HIDE DEF r
  <1> QED
    BY <1>1, <1>2, <1>3, <1>4 DEF Advancing

LEMMA RetryAdvances ==
  ASSUME TypeOK, NEW c \in Call, Retries(c),
         c \in Forever \/ call[c].retries < MaxRetries
  PROVE  Advancing(c)
  <1> DEFINE r == [phase |-> "backingOff",
                   retries |-> IF c \in Forever THEN 0 ELSE call[c].retries + 1,
                   authFailed |-> call[c].authFailed \/ call[c].result = "auth",
                   result |-> "pending"]
  <1>1. call[c] \in CallRecord /\ call[c].phase = "failed"
    BY DEF TypeOK, CallRecord, Retries
  <1>2. r.retries \in 0..MaxRetries
    BY <1>1, RetryAssumption DEF CallRecord
  <1>3. r.authFailed \in BOOLEAN
    OBVIOUS
  <1>4. r \in CallRecord
    BY <1>2, <1>3 DEF CallRecord, Phases, Results
  <1>5. call' = [call EXCEPT ![c] = r] /\ UNCHANGED worker
    BY DEF Retries
  <1>6. r.phase = "backingOff" /\ r.result = "pending" /\ "pending" \notin Nothing
    BY DEF Nothing
  <1>7. StepsLeft("backingOff") < StepsLeft(call[c].phase)
    BY <1>1 DEF StepsLeft
  <1> HIDE DEF r
  <1> QED
    BY <1>4, <1>5, <1>6, <1>7 DEF Advancing

LEMMA AttemptMoves ==
  ASSUME TypeOK, NEW c \in Call, Attempt(c)
  PROVE  Settling(c) \/ Advancing(c)
  <1>1. CASE closing
    BY <1>1 DEF Attempt, Settling, Results
  <1>2. CASE ~closing
    BY <1>2, GoesAdvances DEF Attempt, Phases
  <1> QED
    BY <1>1, <1>2

(* Every step of a command settles it, with nothing only while closing, or
   moves it on: while closing, closer to its end. *)
LEMMA CallMoves ==
  ASSUME TypeOK, CloseInv, NEW c \in Call, CallStep(c)
  PROVE  call[c].phase # "settled" /\ (Settling(c) \/ Advancing(c))
  <1>a. call[c].phase # "settled"
    BY DEF CallStep, Proceeds, Answered, Swallowed, BackoffElapses, ChannelAwaited,
           CallSync, Sends, HeadersFail, Succeeds, Refused, Lost, Retries, GivesUp
  <1>b. channelClosed => closing
    BY DEF CloseInv, closing
  <1>1. CASE BackoffElapses(c)
    BY <1>1, AttemptMoves DEF BackoffElapses
  <1>2. CASE ChannelAwaited(c)
    <2>1. CASE channelClosed
      BY <1>b, <1>2, <2>1 DEF ChannelAwaited, Settling, Results
    <2>2. CASE ~channelClosed
      <3>1. StepsLeft("calling") < StepsLeft(call[c].phase)
        BY <1>2 DEF ChannelAwaited, StepsLeft
      <3> QED
        BY <1>2, <2>2, <3>1, GoesAdvances DEF ChannelAwaited, Phases
    <2> QED
      BY <2>1, <2>2
  <1>3. CASE CallSync(c)
    <2>1. CASE channelClosed
      BY <1>b, <1>3, <2>1 DEF CallSync, Settling, Results
    <2>2. CASE ~channelClosed
      <3>1. StepsLeft("authenticating") < StepsLeft(call[c].phase)
        BY <1>3 DEF CallSync, StepsLeft
      <3> QED
        BY <1>3, <2>2, <3>1, GoesAdvances DEF CallSync, Phases
    <2> QED
      BY <2>1, <2>2
  <1>4. CASE Sends(c)
    <2>1. CASE channelClosed
      BY <1>4, <2>1, FailsAdvances DEF Sends, Errors
    <2>2. CASE ~channelClosed
      <3>1. StepsLeft("sent") < StepsLeft(call[c].phase)
        BY <1>4 DEF Sends, StepsLeft
      <3> QED
        BY <1>4, <2>2, <3>1, GoesAdvances DEF Sends, Phases
    <2> QED
      BY <2>1, <2>2
  <1>5. CASE HeadersFail(c)
    BY <1>5, FailsAdvances DEF HeadersFail, Errors
  <1>6. CASE Succeeds(c)
    BY <1>6 DEF Succeeds, Settling, Results, Nothing
  <1>7. ASSUME NEW error \in Errors, Refused(c, error) PROVE Advancing(c)
    BY <1>7, FailsAdvances DEF Refused
  <1>8. CASE Lost(c)
    BY <1>8, FailsAdvances DEF Lost, Errors
  <1>9. CASE Retries(c)
    <2>1. CASE c \in Forever \/ call[c].retries < MaxRetries
      BY <1>a, <1>9, <2>1, RetryAdvances
    <2>2. CASE ~(c \in Forever \/ call[c].retries < MaxRetries)
      BY <1>9, <2>2 DEF Retries, Settling, Results, Nothing
    <2> QED
      BY <2>1, <2>2
  <1>10. CASE GivesUp(c)
    <2>1. CASE channelClosed
      <3>1. SettlesWith(c, "null") /\ closing
        BY <1>b, <1>10, <2>1 DEF GivesUp
      <3> QED
        BY <1>a, <3>1 DEF Settling, Results
    <2>2. CASE ~channelClosed
      <3>1. SettlesWith(c, "rejected")
        BY <1>10, <2>2 DEF GivesUp
      <3> QED
        BY <1>a, <3>1 DEF Settling, Results, Nothing
    <2> QED
      BY <2>1, <2>2
  <1>11. CASE Swallowed(c)
    <2>1. StepsLeft("swallowed") < StepsLeft(call[c].phase)
      BY <1>11 DEF Swallowed, StepsLeft
    <2> QED
      BY <1>11, <2>1, GoesAdvances DEF Swallowed, Phases
  <1> QED
    BY <1>a, <1>1, <1>2, <1>3, <1>4, <1>5, <1>6, <1>7, <1>8, <1>9, <1>10, <1>11
    DEF CallStep, Proceeds, Answered, Swallowed

LEMMA StartMoves ==
  ASSUME TypeOK, NEW c \in Call, Issue(c) \/ HandlerActs(c)
  PROVE  call[c].phase = "unissued" /\ (Settling(c) \/ Advancing(c))
  BY AttemptMoves DEF Issue, HandlerActs

(* While the client closes, every step of a command that is left brings it
   closer to its end, a command that retries for ever included: none is issued,
   sent or retried anew, so that close() waits for a bounded number of steps and
   for the gateway's answers only (ZeebeGrpcClient.ts:1636). *)
CommandsRunOut ==
  [][closing => \A c \in Call : call'[c] # call[c] =>
       StepsLeft(call'[c].phase) < StepsLeft(call[c].phase)]_vars

(* Only these steps touch a command. *)
LEMMA NextMoves ==
  ASSUME [Next]_vars
  PROVE  \/ \E c \in Call : CallStep(c) \/ Issue(c) \/ HandlerActs(c)
         \/ UNCHANGED call
  <1>1. CASE StatusStep /\ UNCHANGED clientVars
    BY <1>1 DEF clientVars
  <1>2. CASE \E c \in Command : Issue(c)
    BY <1>2 DEF Call
  <1>3. CASE \E w \in Worker :
               createWorker(w) \/ WorkerTakesJob(w) \/ HandlerActs(w)
    BY <1>3 DEF Call, createWorker, WorkerTakesJob
  <1>4. CASE streamJobs \/ close \/ ChannelCloses \/ CloseFinishes
    BY <1>4 DEF streamJobs, close, ChannelCloses, CloseFinishes
  <1>5. CASE UNCHANGED vars
    BY <1>5 DEF vars, clientVars
  <1>6. CASE \E s \in Activation : ActivationStep(s)
    BY <1>6, ActivationQuiet
  <1> QED
    BY <1>1, <1>2, <1>3, <1>4, <1>5, <1>6 DEF Next

LEMMA MovesRunOut ==
  ASSUME TypeOK, closing, NEW c \in Call, Settling(c) \/ Advancing(c),
         call[c].phase # "settled", NEW d \in Call, call'[d] # call[d]
  PROVE  StepsLeft(call'[d].phase) < StepsLeft(call[d].phase)
  <1>1. CASE Settling(c)
    <2>1. PICK result : SettlesWith(c, result)
      BY <1>1 DEF Settling
    <2>2. d = c /\ call'[d].phase = "settled"
      BY <2>1 DEF SettlesWith, TypeOK, Unissued
    <2>3. call[c].phase \in Phases
      BY DEF TypeOK
    <2> QED
      BY <2>2, <2>3 DEF StepsLeft, Phases
  <1>2. CASE Advancing(c)
    BY <1>2 DEF Advancing, TypeOK
  <1> QED
    BY <1>1, <1>2

(* A command that is left when close() begins runs out, whatever it is answered. *)
THEOREM ClosingCommandsRunOut == Spec => CommandsRunOut
  <1>1. ASSUME TypeOK, CloseInv, [Next]_vars, closing, NEW d \in Call,
               call'[d] # call[d]
        PROVE  StepsLeft(call'[d].phase) < StepsLeft(call[d].phase)
    <2>1. ASSUME NEW c \in Call, CallStep(c)
          PROVE  StepsLeft(call'[d].phase) < StepsLeft(call[d].phase)
      BY <1>1, <2>1, CallMoves, MovesRunOut
    <2>2. ASSUME NEW c \in Call, Issue(c) \/ HandlerActs(c)
          PROVE  StepsLeft(call'[d].phase) < StepsLeft(call[d].phase)
      <3>1. call[c].phase = "unissued" /\ (Settling(c) \/ Advancing(c))
        BY <1>1, <2>2, StartMoves
      <3> QED
        BY <1>1, <3>1, MovesRunOut
    <2>3. CASE UNCHANGED call
      BY <1>1, <2>3
    <2>4. \/ \E c \in Call : CallStep(c) \/ Issue(c) \/ HandlerActs(c)
          \/ UNCHANGED call
      BY <1>1, NextMoves
    <2> QED
      BY <2>1, <2>2, <2>3, <2>4
  <1>2. TypeOK /\ CloseInv /\ [Next]_vars
          => (closing => \A c \in Call : call'[c] # call[c] =>
                StepsLeft(call'[c].phase) < StepsLeft(call[c].phase))
    BY <1>1
  <1>3. TypeOK /\ CloseInv /\ [Next]_vars => (TypeOK /\ CloseInv)'
    BY TypeStep, CloseInvStep
  <1> QED
    BY <1>2, <1>3, TypeInit, CloseInvInit, PTL DEF Spec, CommandsRunOut

(* A command resolves with neither an answer nor an error on a closing client
   only. *)
DroppedOnlyByClose ==
  \A c \in Call : call[c].result \in Nothing => closing

(* A job that is being handled is not answered for yet, so that a close() that
   drains a worker has its job action to wait for (ZeebeGrpcClient.ts:590). *)
JobsInHand ==
  \A w \in Worker :
    worker[w] \in {"busy", "draining"} => call[w].phase # "settled"

ServiceInv == DroppedOnlyByClose /\ JobsInHand

LEMMA MovesKeepService ==
  ASSUME TypeOK, ServiceInv, NEW c \in Call, Settling(c) \/ Advancing(c),
         UNCHANGED closeStep
  PROVE  ServiceInv'
  <1>a. closing' <=> closing
    BY DEF closing
  <1>1. CASE Settling(c)
    <2>1. PICK result : SettlesWith(c, result) /\ (result \in Nothing => closing)
      BY <1>1 DEF Settling
    <2>2. /\ call'[c].result = result
          /\ \A d \in Call : d # c => call'[d] = call[d]
      BY <2>1 DEF SettlesWith, TypeOK, Unissued
    <2>3. /\ c \in Worker => worker'[c] \notin {"busy", "draining"}
          /\ \A w \in Worker : w # c => worker'[w] = worker[w]
      BY <2>1 DEF SettlesWith, WorkerDrained
    <2>4. DroppedOnlyByClose'
      BY <1>a, <2>1, <2>2 DEF ServiceInv, DroppedOnlyByClose
    <2>5. JobsInHand'
      BY <2>2, <2>3 DEF ServiceInv, JobsInHand, Call
    <2> QED
      BY <2>4, <2>5 DEF ServiceInv
  <1>2. CASE Advancing(c)
    <2>1. PICK r \in CallRecord :
            /\ call' = [call EXCEPT ![c] = r]
            /\ UNCHANGED worker
            /\ r.phase # "settled"
            /\ r.result = call[c].result \/ r.result \notin Nothing
      BY <1>2 DEF Advancing
    <2>2. call'[c] = r /\ \A d \in Call : d # c => call'[d] = call[d]
      BY <2>1 DEF TypeOK
    <2>3. DroppedOnlyByClose'
      BY <1>a, <2>1, <2>2 DEF ServiceInv, DroppedOnlyByClose
    <2>4. JobsInHand'
      BY <2>1, <2>2 DEF ServiceInv, JobsInHand, Call
    <2> QED
      BY <2>3, <2>4 DEF ServiceInv
  <1> QED
    BY <1>1, <1>2

LEMMA ServiceInvStep ==
  ASSUME TypeOK, CloseInv, ServiceInv, [Next]_vars PROVE ServiceInv'
  <1>1. ASSUME NEW c \in Call, CallStep(c) PROVE ServiceInv'
    <2>1. UNCHANGED closeStep
      BY <1>1 DEF CallStep, Proceeds, Answered, Swallowed, BackoffElapses,
                  ChannelAwaited, CallSync, Sends, HeadersFail, Succeeds, Refused, Lost, Retries, GivesUp
    <2> QED
      BY <1>1, <2>1, CallMoves, MovesKeepService
  <1>2. ASSUME NEW c \in Call, Issue(c) \/ HandlerActs(c) PROVE ServiceInv'
    <2>1. UNCHANGED closeStep
      BY <1>2 DEF Issue, HandlerActs
    <2> QED
      BY <1>2, <2>1, StartMoves, MovesKeepService
  <1>3. ASSUME UNCHANGED call, closing => closing',
               \A w \in Worker : worker'[w] \in {"busy", "draining"} =>
                 \/ worker[w] \in {"busy", "draining"}
                 \/ call[w].phase = "unissued"
        PROVE  ServiceInv'
    BY <1>3 DEF ServiceInv, DroppedOnlyByClose, JobsInHand
  <1>4. ASSUME NEW w \in Worker, createWorker(w) \/ WorkerTakesJob(w)
        PROVE  ServiceInv'
    BY <1>3, <1>4 DEF createWorker, WorkerTakesJob, closing, TypeOK
  <1>5. CASE streamJobs \/ close \/ ChannelCloses \/ CloseFinishes
    BY <1>3, <1>5 DEF streamJobs, close, ChannelCloses, CloseFinishes, closing
  <1>6. CASE UNCHANGED clientVars
    BY <1>3, <1>6 DEF clientVars, closing
  <1>7. CASE \E c \in Command : Issue(c)
    BY <1>2, <1>7 DEF Call
  <1>8. CASE \E w \in Worker :
               createWorker(w) \/ WorkerTakesJob(w) \/ HandlerActs(w)
    BY <1>2, <1>4, <1>8 DEF Call
  <1>9. ASSUME NEW s \in Activation, ActivationStep(s) PROVE ServiceInv'
    BY <1>3, <1>9, ActivationQuiet DEF closing
  <1> QED
    BY <1>1, <1>5, <1>6, <1>7, <1>8, <1>9 DEF Next, vars

LEMMA ServiceInvariant == Spec => []ServiceInv
  <1>1. Init => ServiceInv
    BY DEF Init, ServiceInv, DroppedOnlyByClose, JobsInHand, Unissued, Nothing,
           Call
  <1>2. TypeOK /\ CloseInv /\ [Next]_vars => (TypeOK /\ CloseInv)'
    BY TypeStep, CloseInvStep
  <1>3. TypeOK /\ CloseInv /\ ServiceInv /\ [Next]_vars => ServiceInv'
    BY ServiceInvStep
  <1> QED
    BY <1>1, <1>2, <1>3, TypeInit, CloseInvInit, PTL DEF Spec

(* Before close() a command that resolves has been answered, whatever fails and
   however often its retries do. *)
THEOREM ResolvedIsAnswered == Spec => []DroppedOnlyByClose
  <1>1. ServiceInv => DroppedOnlyByClose
    BY DEF ServiceInv
  <1> QED
    BY <1>1, ServiceInvariant, PTL

(* A close() that drains a worker has the action of its job to wait for. *)
THEOREM DrainedJobsAreInHand == Spec => []JobsInHand
  <1>1. ServiceInv => JobsInHand
    BY DEF ServiceInv
  <1> QED
    BY <1>1, ServiceInvariant, PTL
===============================================================================
