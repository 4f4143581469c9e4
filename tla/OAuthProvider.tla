---------------------------- MODULE OAuthProvider ----------------------------
(***************************************************************************)
(* The OAuth token provider: OAuthProvider.getHeaders with its memory and  *)
(* file caches, the token request that concurrent calls share, the backoff *)
(* after a failure and the memory of a 401.  The files are shared by every *)
(* process that uses the cache directory.                                  *)
(*                                                                         *)
(* A step is one macrotask of an event loop, or one system call of an      *)
(* asynchronous file write.  A token is named by the request it answers;   *)
(* time is the set of the tokens that have expired.                        *)
(***************************************************************************)
EXTENDS Naturals

CONSTANTS
  Call,         \* calls of getHeaders
  Provider,     \* OAuthProvider objects
  Processes,    \* the processes, each the set of the providers it holds
  FileCaching,  \* providers with useFileCache
  FailOnError,  \* providers with failOnError
  Credential,   \* a client id with an audience
  SaaS,         \* isCamundaSaaS
  Attempt,      \* bound: token requests
  NoAttempt

ASSUME AttemptAssumption == NoAttempt \notin Attempt
ASSUME ProcessAssumption == \A P \in Processes : P \subseteq Provider

VARIABLES
  call,          \* the state of each call
  request,       \* the state of each token request
  inflight,      \* inflightTokenRequests
  tokenCache,
  memoized401,
  failed,
  failureCount,
  tarpit401,     \* what the provider knows of the tarpit
  file,          \* the token files on disk
  write,         \* fs.writeFile of a token: queued, open (truncated) or over
  tarpit,        \* the tarpit files on disk
  expired,       \* tokens within the refresh window
  refused        \* history: credentials refused and written to the tarpit,
                 \* not cleared since

providerVars == <<inflight, tokenCache, memoized401, failed, failureCount, tarpit401>>
diskVars == <<file, write, tarpit>>
vars == <<call, request, providerVars, diskVars, expired, refused>>

CallStatuses == {"idle", "waiting", "token", "refused", "failed"}
RequestPhases == {"unused", "delayed", "sent", "granted", "over"}

CallRecord(status, p, k, a) ==
  [status |-> status, provider |-> p, credential |-> k, attempt |-> a]

RequestRecord(phase, p, k, delay) ==
  [phase |-> phase, provider |-> p, credential |-> k, delay |-> delay]

TypeOK ==
  /\ call \in [Call -> [status : CallStatuses, provider : Provider,
                        credential : Credential,
                        attempt : Attempt \cup {NoAttempt}]]
  /\ request \in [Attempt -> [phase : RequestPhases, provider : Provider,
                              credential : Credential, delay : Nat]]
  /\ inflight \in [Provider -> [Credential -> Attempt \cup {NoAttempt}]]
  /\ tokenCache \in [Provider -> [Credential -> Attempt \cup {NoAttempt}]]
  /\ memoized401 \in [Provider -> SUBSET Credential]
  /\ failed \in [Provider -> BOOLEAN]
  /\ failureCount \in [Provider -> Nat]
  /\ tarpit401 \in [Provider -> SUBSET Credential]
  /\ file \in [Credential -> Attempt \cup {NoAttempt}]
  /\ write \in [Attempt -> {"none", "queued", "open"}]
  /\ tarpit \in SUBSET Credential
  /\ expired \in SUBSET Attempt
  /\ refused \in [Provider -> SUBSET Credential]

(* The first providers of an empty cache directory. *)
Init ==
  /\ \E p \in Provider, k \in Credential :
       /\ call = [c \in Call |-> CallRecord("idle", p, k, NoAttempt)]
       /\ request = [a \in Attempt |-> RequestRecord("unused", p, k, 0)]
  /\ inflight = [p \in Provider |-> [k \in Credential |-> NoAttempt]]
  /\ tokenCache = [p \in Provider |-> [k \in Credential |-> NoAttempt]]
  /\ memoized401 = [p \in Provider |-> {}]
  /\ failed = [p \in Provider |-> FALSE]
  /\ failureCount = [p \in Provider |-> 0]
  /\ tarpit401 = [p \in Provider |-> {}]
  /\ file = [k \in Credential |-> NoAttempt]
  /\ write = [a \in Attempt |-> "none"]
  /\ tarpit = {}
  /\ expired = {}
  /\ refused = [p \in Provider |-> {}]

-------------------------------------------------------------------------------
(* getHeaders *)

Fresh(a) == a # NoAttempt /\ a \notin expired

CachedInMemory(p, k) == Fresh(tokenCache[p][k])
(* Mutant: an expired token is served from the file. *)
CachedInFileUnchecked(p, k) == p \in FileCaching /\ file[k] # NoAttempt

CachedInFile(p, k) == p \in FileCaching /\ Fresh(file[k])

(* isTarpitted reads the set first, then looks for the file. *)
Tarpitted(p, k) == SaaS /\ k \in tarpit401[p] /\ k \in tarpit

Asks(c) == call[c].status # "waiting"

GetFromMemory(c, p, k) ==
  /\ Asks(c)
  /\ CachedInMemory(p, k)
  /\ call' = [call EXCEPT ![c] = CallRecord("token", p, k, tokenCache[p][k])]
  /\ UNCHANGED <<request, providerVars, diskVars, expired, refused>>

GetFromFile(c, p, k) ==
  /\ Asks(c)
  /\ ~CachedInMemory(p, k) /\ CachedInFile(p, k)
  /\ tokenCache' = [tokenCache EXCEPT ![p][k] = file[k]]
  /\ call' = [call EXCEPT ![c] = CallRecord("token", p, k, file[k])]
  /\ UNCHANGED <<request, inflight, memoized401, failed, failureCount,
                 tarpit401, diskVars, expired, refused>>

(* No cache has a fresh token: the expired one is evicted from memory. *)
Misses(c, p, k) ==
  /\ Asks(c)
  /\ ~CachedInMemory(p, k) /\ ~CachedInFile(p, k)
  /\ tokenCache' = [tokenCache EXCEPT ![p][k] = NoAttempt]

RefusedUnasked(c, p, k) ==
  /\ Misses(c, p, k)
  /\ Tarpitted(p, k) \/ k \in memoized401[p]
  /\ call' = [call EXCEPT ![c] = CallRecord("refused", p, k, NoAttempt)]
  /\ UNCHANGED <<request, inflight, memoized401, failed, failureCount,
                 tarpit401, diskVars, expired, refused>>

Joins(c, p, k) ==
  /\ Misses(c, p, k)
  /\ ~Tarpitted(p, k) /\ k \notin memoized401[p]
  /\ inflight[p][k] # NoAttempt
  /\ call' = [call EXCEPT ![c] = CallRecord("waiting", p, k, inflight[p][k])]
  /\ UNCHANGED <<request, inflight, memoized401, failed, failureCount,
                 tarpit401, diskVars, expired, refused>>

(* In multiples of BACKOFF_TOKEN_ENDPOINT_FAILURE; its limit is left out. *)
Backoff(p) == IF failed[p] /\ p \notin FailOnError THEN failureCount[p] ELSE 0

Begins(c, p, k, a) ==
  /\ Misses(c, p, k)
  /\ ~Tarpitted(p, k) /\ k \notin memoized401[p]
  /\ inflight[p][k] = NoAttempt
  /\ request[a].phase = "unused"
  /\ request' = [request EXCEPT ![a] = RequestRecord("delayed", p, k, Backoff(p))]
  /\ inflight' = [inflight EXCEPT ![p][k] = a]
  /\ call' = [call EXCEPT ![c] = CallRecord("waiting", p, k, a)]
  /\ UNCHANGED <<memoized401, failed, failureCount, tarpit401, diskVars,
                 expired, refused>>

(* The timer fires: makeDebouncedTokenRequest. *)
Sends(a) ==
  /\ request[a].phase = "delayed"
  /\ request' = [request EXCEPT ![a] =
                   RequestRecord("sent", @.provider, @.credential, 0)]
  /\ UNCHANGED <<call, providerVars, diskVars, expired, refused>>

-------------------------------------------------------------------------------
(* The answer of the token endpoint *)

(* Mutant: the entry of the request is not deleted. *)
SettlesUndeleted(a, phase, status, token) ==
  LET p == request[a].provider
      k == request[a].credential
  IN /\ request[a].phase = "sent"
     /\ request' = [request EXCEPT ![a].phase = phase]
     /\ inflight' = inflight
     /\ call' = [c \in Call |->
          IF call[c].status = "waiting" /\ call[c].attempt = a
          THEN CallRecord(status, p, k, token)
          ELSE call[c]]

(* The promise that the calls share settles, and its entry is deleted. *)
Settles(a, phase, status, token) ==
  LET p == request[a].provider
      k == request[a].credential
  IN /\ request[a].phase = "sent"
     /\ request' = [request EXCEPT ![a].phase = phase]
     /\ inflight' = [inflight EXCEPT ![p][k] = NoAttempt]
     /\ call' = [c \in Call |->
          IF call[c].status = "waiting" /\ call[c].attempt = a
          THEN CallRecord(status, p, k, token)
          ELSE call[c]]

(* A decodable token: it goes to the file, in the background, and to memory. *)
Granted(a) ==
  LET p == request[a].provider
      k == request[a].credential
  IN /\ Settles(a, "granted", "token", a)
     /\ write' = [write EXCEPT ![a] = IF p \in FileCaching THEN "queued" ELSE "none"]
     /\ tokenCache' = [tokenCache EXCEPT ![p][k] = a]
     /\ memoized401' = [memoized401 EXCEPT ![p] = @ \ {k}]
     /\ failed' = [failed EXCEPT ![p] = FALSE]
     /\ failureCount' = [failureCount EXCEPT ![p] = 0]
     /\ UNCHANGED <<tarpit401, file, tarpit, expired, refused>>

(* createTarpitFile: the write may fail, and the error is swallowed. *)
TarpitWritten(p, k) ==
  /\ p \in FileCaching
  /\ tarpit' = tarpit \cup {k}
  /\ tarpit401' = [tarpit401 EXCEPT ![p] = @ \cup {k}]
  /\ refused' = [refused EXCEPT ![p] = @ \cup {k}]

TarpitUnwritten(p, k) ==
  /\ p \in FileCaching => k \notin tarpit
  /\ UNCHANGED <<tarpit, tarpit401, refused>>

(* A 401 of the SaaS endpoint: remembered, and no reason to back off. *)
Refused(a) ==
  LET p == request[a].provider
      k == request[a].credential
  IN /\ SaaS
     /\ Settles(a, "over", "refused", NoAttempt)
     /\ TarpitWritten(p, k) \/ TarpitUnwritten(p, k)
     /\ memoized401' = [memoized401 EXCEPT ![p] = @ \cup {k}]
     /\ failed' = [failed EXCEPT ![p] = FALSE]
     /\ UNCHANGED <<tokenCache, failureCount, file, write, expired>>

(* Mutant: the failure is not passed on to the calls that wait. *)
FailsUnrejected(a) ==
  LET p == request[a].provider
      k == request[a].credential
  IN /\ request[a].phase = "sent"
     /\ request' = [request EXCEPT ![a].phase = "over"]
     /\ inflight' = [inflight EXCEPT ![p][k] = NoAttempt]
     /\ failed' = [failed EXCEPT ![p] = p \notin FailOnError]
     /\ UNCHANGED <<call, tokenCache, memoized401, failureCount, tarpit401,
                    diskVars, expired, refused>>

(* Any other error, an undecodable token included. *)
Fails(a) ==
  LET p == request[a].provider
  IN /\ Settles(a, "over", "failed", NoAttempt)
     /\ IF p \in FailOnError
        THEN UNCHANGED <<failed, failureCount>>
        ELSE /\ failed' = [failed EXCEPT ![p] = TRUE]
             /\ failureCount' = [failureCount EXCEPT ![p] = @ + 1]
     /\ UNCHANGED <<tokenCache, memoized401, tarpit401, diskVars, expired, refused>>

-------------------------------------------------------------------------------
(* The background write of a token file *)

(* Opening truncates the file: it is unreadable until the data is in. *)
OpensFile(a) ==
  /\ write[a] = "queued"
  /\ write' = [write EXCEPT ![a] = "open"]
  /\ file' = [file EXCEPT ![request[a].credential] = NoAttempt]
  /\ UNCHANGED <<call, request, providerVars, tarpit, expired, refused>>

WritesFile(a) ==
  /\ write[a] = "open"
  /\ write' = [write EXCEPT ![a] = "none"]
  /\ file' = [file EXCEPT ![request[a].credential] = a]
  /\ UNCHANGED <<call, request, providerVars, tarpit, expired, refused>>

(* The error of a failed write is only logged. *)
WriteFails(a) ==
  /\ write[a] # "none"
  /\ write' = [write EXCEPT ![a] = "none"]
  /\ UNCHANGED <<call, request, providerVars, file, tarpit, expired, refused>>

-------------------------------------------------------------------------------
(* Time, the application and the processes *)

(* A granted token reaches its refresh window. *)
Expires(a) ==
  /\ request[a].phase = "granted"
  /\ a \notin expired
  /\ expired' = expired \cup {a}
  /\ UNCHANGED <<call, request, providerVars, diskVars, refused>>

(* SAAS_401_COOLDOWN_MS is over: the next call deletes the entry. *)
CoolsDown(p, k) ==
  /\ k \in memoized401[p]
  /\ memoized401' = [memoized401 EXCEPT ![p] = @ \ {k}]
  /\ UNCHANGED <<call, request, inflight, tokenCache, failed, failureCount,
                 tarpit401, diskVars, expired, refused>>

FlushMemoryCache(p) ==
  /\ tokenCache' = [tokenCache EXCEPT ![p] = [k \in Credential |-> NoAttempt]]
  /\ UNCHANGED <<call, request, inflight, memoized401, failed, failureCount,
                 tarpit401, diskVars, expired, refused>>

(* Unlinks every token file; a write into an unlinked file is lost, one that
   is queued creates the file again. *)
FlushFileCache(p) ==
  /\ p \in FileCaching
  /\ file' = [k \in Credential |-> NoAttempt]
  /\ write' = [a \in Attempt |-> IF write[a] = "open" THEN "none" ELSE write[a]]
  /\ UNCHANGED <<call, request, providerVars, tarpit, expired, refused>>

Clear401Tarpit(P, k) ==
  /\ tarpit' = tarpit \ {k}
  /\ tarpit401' = [p \in Provider |->
       IF p \in P THEN tarpit401[p] \ {k} ELSE tarpit401[p]]
  /\ memoized401' = [p \in Provider |->
       IF p \in P THEN memoized401[p] \ {k} ELSE memoized401[p]]
  /\ refused' = [p \in Provider |-> refused[p] \ {k}]
  /\ UNCHANGED <<call, request, inflight, tokenCache, failed, failureCount,
                 file, write, expired>>

(* Mutant: a new provider does not look for tarpit files. *)
LoadsNothing(p) == {}

(* The constructor loads the tarpit files of the cache directory. *)
LoadsTarpit(p) == IF p \in FileCaching THEN tarpit ELSE {}

(* The process dies and its providers are constructed anew: what is on disk
   remains, a file it was writing stays truncated, its callers are gone. *)
Restart(P) ==
  LET Reset(f, value) == [p \in Provider |-> IF p \in P THEN value ELSE f[p]]
      Nothing == [k \in Credential |-> NoAttempt]
  IN /\ call' = [c \in Call |->
          IF call[c].status = "waiting" /\ call[c].provider \in P
          THEN [call[c] EXCEPT !.status = "idle"]
          ELSE call[c]]
     /\ request' = [a \in Attempt |->
          IF request[a].provider \in P /\ request[a].phase \in {"delayed", "sent"}
          THEN [request[a] EXCEPT !.phase = "over"]
          ELSE request[a]]
     /\ write' = [a \in Attempt |->
          IF request[a].provider \in P THEN "none" ELSE write[a]]
     /\ inflight' = Reset(inflight, Nothing)
     /\ tokenCache' = Reset(tokenCache, Nothing)
     /\ memoized401' = Reset(memoized401, {})
     /\ failed' = Reset(failed, FALSE)
     /\ failureCount' = Reset(failureCount, 0)
     /\ tarpit401' = [p \in Provider |->
          IF p \in P THEN LoadsTarpit(p) ELSE tarpit401[p]]
     /\ UNCHANGED <<file, tarpit, expired, refused>>

-------------------------------------------------------------------------------
GetHeaders(c, p, k) ==
  \/ GetFromMemory(c, p, k)
  \/ GetFromFile(c, p, k)
  \/ RefusedUnasked(c, p, k)
  \/ Joins(c, p, k)
  \/ \E a \in Attempt : Begins(c, p, k, a)

Answers(a) == Granted(a) \/ Refused(a) \/ Fails(a)

FileStep(a) == OpensFile(a) \/ WritesFile(a) \/ WriteFails(a)

Next ==
  \/ \E c \in Call, p \in Provider, k \in Credential : GetHeaders(c, p, k)
  \/ \E a \in Attempt : Sends(a) \/ Answers(a) \/ FileStep(a) \/ Expires(a)
  \/ \E p \in Provider, k \in Credential : CoolsDown(p, k)
  \/ \E p \in Provider : FlushMemoryCache(p) \/ FlushFileCache(p)
  \/ \E P \in Processes, k \in Credential : Clear401Tarpit(P, k)
  \/ \E P \in Processes : Restart(P)

Spec == Init /\ [][Next]_vars

(* Timers fire, and the endpoint answers or the request times out
   (OAuthProvider.ts:170). *)
Fairness == \A a \in Attempt : WF_vars(Sends(a)) /\ WF_vars(Answers(a))

FairSpec == Spec /\ Fairness

-------------------------------------------------------------------------------
(* Properties *)

Pending(a) == request[a].phase \in {"delayed", "sent"}

(* Calls for one credential coalesce (OAuthProvider.ts:332): whatever is
   flushed, evicted or cleared around it, a provider has at most one request
   under way for a credential, the next call joins exactly that one, and no
   call waits for a request that is over. *)
RequestsCoalesce ==
  /\ \A a \in Attempt : Pending(a) =>
       inflight[request[a].provider][request[a].credential] = a
  /\ \A c \in Call : call[c].status = "waiting" =>
       /\ Pending(call[c].attempt)
       /\ inflight[call[c].provider][call[c].credential] = call[c].attempt

(* A refusal is for good (OAuthProvider.ts:303): once a provider's credential
   was refused and the tarpit written, that provider asks the endpoint for it
   no more until somebody clears it, cooldown and restarts notwithstanding. *)
RefusalStands ==
  \A a \in Attempt :
    Pending(a) => request[a].credential \notin refused[request[a].provider]

(* The provider keeps the promise of a token service. *)
validTokens ==
  [k \in Credential |->
    {a \in Attempt : /\ request[a].phase = "granted"
                     /\ request[a].credential = k
                     /\ a \notin expired}]

serviceCall ==
  [c \in Call |->
    [status |-> call[c].status,
     provider |-> call[c].provider,
     credential |-> call[c].credential,
     token |-> IF call[c].status = "token" THEN call[c].attempt ELSE NoAttempt]]

Service == INSTANCE TokenService WITH
  Token <- Attempt,
  NoToken <- NoAttempt,
  call <- serviceCall,
  valid <- validTokens,
  blocked <- [p \in Provider |-> tarpit401[p] \cup memoized401[p]],
  posted <- tarpit

TokenPromise == Service!Spec

(* A caller is not left waiting: every call settles, unless its process dies. *)
CallsSettle ==
  \A c \in Call : call[c].status = "waiting" ~> call[c].status # "waiting"
===============================================================================
