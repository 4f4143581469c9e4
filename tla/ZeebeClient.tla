------------------------------ MODULE ZeebeClient ------------------------------
(***************************************************************************)
(* ZeebeGrpcClient: its commands, with retryOnFailure and the unary calls  *)
(* of GrpcClient under them; activateJobs, which the stream worker's polls *)
(* call too, a stream on the client's own channel; the workers and the     *)
(* stream worker it creates; and close(), which shuts all of them down in  *)
(* order.  The job actions of a worker's handler are commands, too.        *)
(*                                                                         *)
(* The worker's polling is PollWorker's, the stream worker's StreamWorker's.*)
(***************************************************************************)
EXTENDS GrpcStatus, Integers

CONSTANTS
  Command,      \* commands the application issues
  Worker,       \* workers it creates; each takes one job
  Activation,   \* slots for the activateJobs calls underway
  Forever,      \* the calls with maxRetries = -1
  MaxRetries    \* of every other call; 0 when ZEEBE_GRPC_CLIENT_RETRY is off

Call == Command \cup Worker

ASSUME CallAssumption == Command \cap Worker = {} /\ Forever \subseteq Call
ASSUME RetryAssumption == MaxRetries \in Nat

VARIABLES
  call,          \* call -> how far executeOperation is with it
  activation,    \* slot -> how far activateJobs is
  worker,        \* worker -> its life; a command named by it is its job action
  streamWorker,  \* "late" when it is made after close() has resolved
  closeStep      \* what close() waits for

clientVars == <<call, activation, worker, streamWorker, closeStep>>
vars == <<statusVars, clientVars>>

Phases ==
  {"unissued", "checked", "calling", "authenticating", "sent", "swallowed",
   "failed", "backingOff", "settled"}
Errors == {"network", "busy", "auth", "other"}
Results == {"pending", "data", "null", "undefined", "rejected"} \cup Errors

TypeOK ==
  /\ StatusTypeOK
  /\ call \in [Call -> [phase : Phases, retries : 0..MaxRetries,
                        authFailed : BOOLEAN, result : Results]]
  /\ activation \in [Activation -> {"idle", "authenticating", "open"}]
  /\ worker \in [Worker -> {"absent", "idle", "busy", "draining", "closed"}]
  /\ streamWorker \in {"absent", "open", "closed", "late"}
  /\ closeStep \in {"open", "workers", "streams", "closed"}

Unissued ==
  [phase |-> "unissued", retries |-> 0, authFailed |-> FALSE, result |-> "pending"]

Init ==
  /\ StatusInit
  /\ call = [c \in Call |-> Unissued]
  /\ activation = [s \in Activation |-> "idle"]
  /\ worker = [w \in Worker |-> "absent"]
  /\ streamWorker = "absent"
  /\ closeStep = "open"

closing == closeStep # "open"

-------------------------------------------------------------------------------
(* One command *)

Goes(c, phase) == call' = [call EXCEPT ![c].phase = phase]

FailsWith(c, error) ==
  call' = [call EXCEPT ![c].phase = "failed", ![c].result = error]

(* A worker whose job action settles has drained its job (drainOne). *)
WorkerDrained(c) ==
  worker' = [w \in Worker |->
    IF w # c THEN worker[w]
    ELSE IF worker[w] = "draining" THEN "closed" ELSE "idle"]

SettlesWith(c, result) ==
  /\ call' = [call EXCEPT ![c] =
                [Unissued EXCEPT !.phase = "settled", !.result = result]]
  /\ WorkerDrained(c)

(* The client looks at closing, then awaits its gRPC client. *)
Attempt(c) ==
  IF closing THEN SettlesWith(c, "null")
             ELSE Goes(c, "checked") /\ UNCHANGED worker

Issue(c) ==
  /\ c \in Command
  /\ call[c].phase = "unissued"
  /\ Attempt(c)
  /\ UNCHANGED <<statusVars, activation, streamWorker, closeStep>>

(* The task handler ends its job with a job action. *)
HandlerActs(w) ==
  /\ worker[w] \in {"busy", "draining"}
  /\ call[w].phase = "unissued"
  /\ Attempt(w)
  /\ UNCHANGED <<statusVars, activation, streamWorker, closeStep>>

BackoffElapses(c) ==
  /\ call[c].phase = "backingOff"
  /\ Attempt(c)
  /\ UNCHANGED <<statusVars, activation, streamWorker, closeStep>>

ChannelAwaited(c) ==
  /\ call[c].phase = "checked"
  /\ built
  /\ IF channelClosed THEN SettlesWith(c, "null")
     ELSE Goes(c, "calling") /\ UNCHANGED worker
  /\ UNCHANGED <<statusVars, activation, streamWorker, closeStep>>

(* Mutant: a call made on a closing gRPC client is left pending. *)
CallSyncPending(c) ==
  /\ call[c].phase = "calling"
  /\ ~channelClosed
  /\ Goes(c, "authenticating")
  /\ UNCHANGED <<statusVars, activation, worker, streamWorker, closeStep>>

(* xxxSync: nothing is returned once the gRPC client is closing. *)
CallSync(c) ==
  /\ call[c].phase = "calling"
  /\ IF channelClosed THEN SettlesWith(c, "undefined")
     ELSE Goes(c, "authenticating") /\ UNCHANGED worker
  /\ UNCHANGED <<statusVars, activation, streamWorker, closeStep>>

(* The headers are there; a channel that was shut down throws. *)
Sends(c) ==
  /\ call[c].phase = "authenticating"
  /\ IF channelClosed THEN FailsWith(c, "other") ELSE Goes(c, "sent")
  /\ UNCHANGED <<statusVars, activation, worker, streamWorker, closeStep>>

HeadersFail(c) ==
  /\ call[c].phase = "authenticating"
  /\ FailsWith(c, "other")
  /\ UNCHANGED <<statusVars, activation, worker, streamWorker, closeStep>>

(* An answer comes over a connected channel, which the probe has seen. *)
Succeeds(c) ==
  /\ call[c].phase = "sent"
  /\ probe = "over"
  /\ CallSucceeds
  /\ SettlesWith(c, "data")
  /\ UNCHANGED <<activation, streamWorker, closeStep>>

Refused(c, error) ==
  /\ call[c].phase = "sent"
  /\ probe = "over"
  /\ CallIsRefused
  /\ FailsWith(c, error)
  /\ UNCHANGED <<activation, worker, streamWorker, closeStep>>

Lost(c) ==
  /\ call[c].phase = "sent"
  /\ CallIsLost
  /\ FailsWith(c, "network")
  /\ UNCHANGED <<activation, worker, streamWorker, closeStep>>

(* The interceptor keeps a status to itself: CANCELLED with a 503, or CANCELLED
   on a closing channel.  The callback of the call is never called. *)
Swallowed(c) ==
  /\ call[c].phase = "sent"
  /\ probe = "over"
  /\ Goes(c, "swallowed")
  /\ UNCHANGED <<statusVars, activation, worker, streamWorker, closeStep>>

(* Network errors and backpressure are retried, an authentication error once. *)
Retriable(c) ==
  \/ call[c].result \in {"network", "busy"}
  \/ call[c].result = "auth" /\ ~call[c].authFailed

(* Out of retries, promise-retry rejects with the error itself. *)
Retries(c) ==
  /\ call[c].phase = "failed"
  /\ Retriable(c)
  /\ IF c \in Forever \/ call[c].retries < MaxRetries
     THEN /\ call' = [call EXCEPT ![c] =
               [phase |-> "backingOff",
                retries |-> IF c \in Forever THEN 0 ELSE @.retries + 1,
                authFailed |-> @.authFailed \/ @.result = "auth",
                result |-> "pending"]]
          /\ UNCHANGED worker
     ELSE SettlesWith(c, "rejected")
  /\ UNCHANGED <<statusVars, activation, streamWorker, closeStep>>

GivesUp(c) ==
  /\ call[c].phase = "failed"
  /\ ~Retriable(c)
  /\ SettlesWith(c, IF channelClosed THEN "null" ELSE "rejected")
  /\ UNCHANGED <<statusVars, activation, streamWorker, closeStep>>

-------------------------------------------------------------------------------
(* activateJobs *)

ActivationGoes(s, phase) ==
  /\ activation' = [activation EXCEPT ![s] = phase]
  /\ UNCHANGED <<call, worker, streamWorker, closeStep>>

(* Called by the application or a stream worker's poll, on a closing client too;
   a closing gRPC client returns nothing, and the call rejects at once. *)
activateJobs(s) ==
  /\ activation[s] = "idle"
  /\ built /\ ~channelClosed
  /\ ActivationGoes(s, "authenticating")
  /\ UNCHANGED statusVars

ActivationOpens(s) ==
  /\ activation[s] = "authenticating"
  /\ ~channelClosed
  /\ StreamIsCreated
  /\ ActivationGoes(s, "open")

ActivationFails(s) ==
  /\ activation[s] = "authenticating"
  /\ StreamIsNotCreated
  /\ ActivationGoes(s, "idle")

(* The network fails it, or the gateway, which the probe has seen then. *)
ActivationErrors(s) ==
  /\ activation[s] = "open"
  /\ \E evidence \in {"reachable", "unreachable"} :
       /\ evidence = "reachable" => probe = "over"
       /\ StreamFails(evidence)
  /\ ActivationGoes(s, "idle")

ActivationCompletes(s) ==
  /\ activation[s] = "open"
  /\ probe = "over"
  /\ StreamCompletes
  /\ ActivationGoes(s, "idle")

-------------------------------------------------------------------------------
(* Workers and close() *)

(* Mutant: a worker may be created while the client closes. *)
createWorkerAnytime(w) ==
  /\ worker[w] = "absent"
  /\ worker' = [worker EXCEPT ![w] = "idle"]
  /\ UNCHANGED <<statusVars, call, activation, streamWorker, closeStep>>

createWorker(w) ==
  /\ ~closing
  /\ worker[w] = "absent"
  /\ worker' = [worker EXCEPT ![w] = "idle"]
  /\ UNCHANGED <<statusVars, call, activation, streamWorker, closeStep>>

WorkerTakesJob(w) ==
  /\ worker[w] = "idle"
  /\ call[w].phase = "unissued"
  /\ worker' = [worker EXCEPT ![w] = "busy"]
  /\ UNCHANGED <<statusVars, call, activation, streamWorker, closeStep>>

(* The first call creates the stream worker, on a channel of its own, whether or
   not the client is closed. *)
streamJobs ==
  /\ streamWorker = "absent"
  /\ streamWorker' = IF closeStep = "closed" THEN "late" ELSE "open"
  /\ UNCHANGED <<statusVars, call, activation, worker, closeStep>>

(* Every worker is told to close; one with a job in hand drains it first. *)
close ==
  /\ ~closing
  /\ closeStep' = "workers"
  /\ worker' = [w \in Worker |->
       CASE worker[w] = "idle" -> "closed"
         [] worker[w] = "busy" -> "draining"
         [] OTHER -> worker[w]]
  /\ UNCHANGED <<statusVars, call, activation, streamWorker>>

ChannelCloses ==
  /\ closeStep = "workers"
  /\ \A w \in Worker : worker[w] # "draining"
  /\ built
  /\ closeStep' = "streams"
  /\ CloseChannel
  /\ UNCHANGED <<call, activation, worker, streamWorker>>

CloseFinishes ==
  /\ closeStep = "streams"
  /\ closeStep' = "closed"
  /\ streamWorker' = IF streamWorker = "open" THEN "closed" ELSE streamWorker
  /\ StopListening
  /\ UNCHANGED <<call, activation, worker>>

-------------------------------------------------------------------------------
Answered(c) ==
  \/ Succeeds(c)
  \/ \E error \in Errors \ {"network"} : Refused(c, error)
  \/ Lost(c)

(* What the client does by itself with a command. *)
Proceeds(c) ==
  \/ BackoffElapses(c)
  \/ ChannelAwaited(c)
  \/ CallSync(c)
  \/ Sends(c)
  \/ HeadersFail(c)
  \/ Retries(c)
  \/ GivesUp(c)

CallStep(c) == Proceeds(c) \/ Answered(c) \/ Swallowed(c)

ActivationStep(s) ==
  \/ activateJobs(s)
  \/ ActivationOpens(s)
  \/ ActivationFails(s)
  \/ ActivationErrors(s)
  \/ ActivationCompletes(s)

Next ==
  \/ StatusStep /\ UNCHANGED clientVars
  \/ \E c \in Command : Issue(c)
  \/ \E c \in Call : CallStep(c)
  \/ \E s \in Activation : ActivationStep(s)
  \/ \E w \in Worker : createWorker(w) \/ WorkerTakesJob(w) \/ HandlerActs(w)
  \/ streamJobs
  \/ close
  \/ ChannelCloses
  \/ CloseFinishes

Spec == Init /\ [][Next]_vars

(* The certificates are read, the probe has its deadline, tokens, timers and
   microtasks come, handlers finish.  A command has no deadline: that it is
   answered is not assumed, nor that its answer gets past the interceptor. *)
Fairness ==
  /\ WF_vars(BuildChannel /\ UNCHANGED clientVars)
  /\ WF_vars((ProbeConnects \/ ProbeGivesUp) /\ UNCHANGED clientVars)
  /\ \A c \in Call : WF_vars(Proceeds(c))
  /\ \A w \in Worker : WF_vars(HandlerActs(w))
  /\ WF_vars(ChannelCloses)
  /\ WF_vars(CloseFinishes)

FairSpec == Spec /\ Fairness

-------------------------------------------------------------------------------
(* Properties *)

(* When close() has resolved, every channel made until then is closed: the
   client's own, its workers' and its stream worker's. *)
NothingOutlivesClose ==
  closeStep = "closed" =>
    /\ channelClosed
    /\ streamWorker # "open"
    /\ \A w \in Worker : worker[w] \in {"absent", "closed"}

(* close is the last event the application hears, and no command reaches the
   gateway after it, although timers, the probe and retries are not stopped. *)
SilentAfterClose ==
  [][closeStep = "closed" =>
       /\ UNCHANGED status
       /\ \A c \in Call : call'[c].phase = "sent" => call[c].phase = "sent"]_vars

(* A command that waits for its answer, or in vain for one that was swallowed. *)
Unanswered(c) == call[c].phase \in {"sent", "swallowed"}

(* close() settles every command, those that retry for ever included
   (ZeebeGrpcClient.ts:1636), but for those the gateway does not answer, and
   resolves unless one of these is the job action of a worker it drains. *)
CloseSettlesAll ==
  closing ~>
    /\ \A c \in Call : call[c].phase \in {"unissued", "settled"} \/ Unanswered(c)
    /\ \/ closeStep = "closed"
       \/ \E w \in Worker : worker[w] = "draining" /\ Unanswered(w)

(* close() drains existing tasks (ZeebeGrpcClient.ts:590): a job action is sent,
   or its failure is reported to the handler. *)
JobActionsSent ==
  \A w \in Worker :
    call[w].phase = "settled" => call[w].result \in {"data", "rejected"}
===============================================================================
