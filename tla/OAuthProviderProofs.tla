-------------------------- MODULE OAuthProviderProofs --------------------------
(***************************************************************************)
(* Theorems about OAuthProvider, for every set of calls, providers,        *)
(* processes and credentials: the requests of a credential coalesce, a     *)
(* refusal stands, and the provider implements TokenService.               *)
(***************************************************************************)
EXTENDS OAuthProvider, TLAPS

CallType ==
  [status : CallStatuses, provider : Provider, credential : Credential,
   attempt : Attempt \cup {NoAttempt}]

RequestType ==
  [phase : RequestPhases, provider : Provider, credential : Credential, delay : Nat]

CacheType == [Provider -> [Credential -> Attempt \cup {NoAttempt}]]

(* The records the actions store are records of their types. *)
LEMMA CallRecordType ==
  ASSUME NEW status \in CallStatuses, NEW p \in Provider, NEW k \in Credential,
         NEW a \in Attempt \cup {NoAttempt}
  PROVE  /\ CallRecord(status, p, k, a) \in CallType
         /\ CallRecord(status, p, k, a).status = status
         /\ CallRecord(status, p, k, a).provider = p
         /\ CallRecord(status, p, k, a).credential = k
         /\ CallRecord(status, p, k, a).attempt = a
  BY DEF CallRecord, CallType

LEMMA RequestRecordType ==
  ASSUME NEW phase \in RequestPhases, NEW p \in Provider, NEW k \in Credential,
         NEW delay \in Nat
  PROVE  /\ RequestRecord(phase, p, k, delay) \in RequestType
         /\ RequestRecord(phase, p, k, delay).phase = phase
         /\ RequestRecord(phase, p, k, delay).provider = p
         /\ RequestRecord(phase, p, k, delay).credential = k
  BY DEF RequestRecord, RequestType

(* A function of functions stays one when one entry, or one row, is replaced. *)
LEMMA CacheUpdate ==
  ASSUME NEW f \in CacheType, NEW p \in Provider, NEW k \in Credential,
         NEW a \in Attempt \cup {NoAttempt}
  PROVE  /\ [f EXCEPT ![p][k] = a] \in CacheType
         /\ [f EXCEPT ![p] = [l \in Credential |-> NoAttempt]] \in CacheType
         /\ \A q \in Provider, l \in Credential :
              [f EXCEPT ![p][k] = a][q][l] = IF q = p /\ l = k THEN a ELSE f[q][l]
  BY DEF CacheType

(* What the settling of a request changes: the request, ... *)
LEMMA SettlesRequest ==
  ASSUME TypeOK, NEW a \in Attempt, NEW phase \in {"granted", "over"},
         NEW status, NEW token, Settles(a, phase, status, token)
  PROVE  /\ request[a].phase = "sent"
         /\ request[a].provider \in Provider
         /\ request[a].credential \in Credential
         /\ request' \in [Attempt -> RequestType]
         /\ request'[a].phase = phase
         /\ request'[a].provider = request[a].provider
         /\ request'[a].credential = request[a].credential
         /\ \A b \in Attempt : b # a => request'[b] = request[b]
  <1>1. request[a] \in RequestType /\ request \in [Attempt -> RequestType]
    BY DEF TypeOK, RequestType
  <1>2. phase \in RequestPhases
    BY DEF RequestPhases
  <1>3. request' = [request EXCEPT ![a].phase = phase] /\ request[a].phase = "sent"
    BY DEF Settles
  <1> QED
    BY <1>1, <1>2, <1>3 DEF RequestType

(* ... its entry among those in flight, ... *)
LEMMA SettlesInflight ==
  ASSUME TypeOK, NEW a \in Attempt, NEW phase, NEW status, NEW token,
         Settles(a, phase, status, token)
  PROVE  /\ inflight' \in CacheType
         /\ \A q \in Provider, l \in Credential :
              inflight'[q][l] =
                IF q = request[a].provider /\ l = request[a].credential
                THEN NoAttempt ELSE inflight[q][l]
  <1>1. inflight \in CacheType
    BY DEF TypeOK, CacheType
  <1>2. inflight' = [inflight EXCEPT ![request[a].provider][request[a].credential]
                                       = NoAttempt]
    BY DEF Settles
  <1>3. request[a].provider \in Provider /\ request[a].credential \in Credential
    BY DEF TypeOK
  <1> QED
    BY <1>1, <1>2, <1>3 DEF CacheType

(* ... and the calls that wait for it. *)
LEMMA SettlesCall ==
  ASSUME TypeOK, NEW a \in Attempt, NEW phase, NEW status \in CallStatuses,
         NEW token \in Attempt \cup {NoAttempt},
         Settles(a, phase, status, token)
  PROVE  /\ call' \in [Call -> CallType]
         /\ \A c \in Call :
              call'[c] = IF call[c].status = "waiting" /\ call[c].attempt = a
                         THEN CallRecord(status, request[a].provider,
                                         request[a].credential, token)
                         ELSE call[c]
  <1>1. CallRecord(status, request[a].provider, request[a].credential, token)
          \in CallType
    BY CallRecordType DEF TypeOK
  <1>2. call \in [Call -> CallType]
    BY DEF TypeOK, CallType
  <1>3. call' = [c \in Call |->
           IF call[c].status = "waiting" /\ call[c].attempt = a
           THEN CallRecord(status, request[a].provider, request[a].credential, token)
           ELSE call[c]]
    BY DEF Settles
  <1> QED
    BY <1>1, <1>2, <1>3

(* What a restart changes. *)
LEMMA RestartFacts ==
  ASSUME TypeOK, NEW P \in Processes, Restart(P)
  PROVE  /\ request' \in [Attempt -> RequestType]
         /\ \A a \in Attempt :
              /\ request'[a].provider = request[a].provider
              /\ request'[a].credential = request[a].credential
              /\ request[a].provider \in P /\ request[a].phase \in {"delayed", "sent"}
                   => request'[a].phase = "over"
              /\ ~(request[a].provider \in P /\ request[a].phase \in {"delayed", "sent"})
                   => request'[a].phase = request[a].phase
         /\ call' \in [Call -> CallType]
         /\ \A c \in Call :
              /\ call'[c].provider = call[c].provider
              /\ call'[c].credential = call[c].credential
              /\ call'[c].attempt = call[c].attempt
              /\ call[c].status = "waiting" /\ call[c].provider \in P
                   => call'[c].status = "idle"
              /\ ~(call[c].status = "waiting" /\ call[c].provider \in P)
                   => call'[c] = call[c]
         /\ inflight' \in CacheType
         /\ tokenCache' \in CacheType
         /\ \A p \in Provider :
              /\ p \in P => /\ inflight'[p] = [k \in Credential |-> NoAttempt]
                            /\ tokenCache'[p] = [k \in Credential |-> NoAttempt]
                            /\ tarpit401'[p] = LoadsTarpit(p)
              /\ p \notin P => /\ inflight'[p] = inflight[p]
                               /\ tokenCache'[p] = tokenCache[p]
                               /\ tarpit401'[p] = tarpit401[p]
  <1>1. request \in [Attempt -> RequestType] /\ call \in [Call -> CallType]
    BY DEF TypeOK, RequestType, CallType
  <1>2. "over" \in RequestPhases /\ "idle" \in CallStatuses
    BY DEF RequestPhases, CallStatuses
  <1>3. request' = [a \in Attempt |->
          IF request[a].provider \in P /\ request[a].phase \in {"delayed", "sent"}
          THEN [request[a] EXCEPT !.phase = "over"]
          ELSE request[a]]
    BY DEF Restart
  <1>4. \A a \in Attempt :
          /\ [request[a] EXCEPT !.phase = "over"] \in RequestType
          /\ [request[a] EXCEPT !.phase = "over"].phase = "over"
          /\ [request[a] EXCEPT !.phase = "over"].provider = request[a].provider
          /\ [request[a] EXCEPT !.phase = "over"].credential = request[a].credential
    BY <1>1, <1>2 DEF RequestType
  <1>5. /\ request' \in [Attempt -> RequestType]
        /\ \A a \in Attempt :
              /\ request'[a].provider = request[a].provider
              /\ request'[a].credential = request[a].credential
              /\ request[a].provider \in P /\ request[a].phase \in {"delayed", "sent"}
                   => request'[a].phase = "over"
              /\ ~(request[a].provider \in P /\ request[a].phase \in {"delayed", "sent"})
                   => request'[a].phase = request[a].phase
    BY <1>1, <1>3, <1>4
  <1>6. call' = [c \in Call |->
          IF call[c].status = "waiting" /\ call[c].provider \in P
          THEN [call[c] EXCEPT !.status = "idle"]
          ELSE call[c]]
    BY DEF Restart
  <1>7. \A c \in Call :
          /\ [call[c] EXCEPT !.status = "idle"] \in CallType
          /\ [call[c] EXCEPT !.status = "idle"].status = "idle"
          /\ [call[c] EXCEPT !.status = "idle"].provider = call[c].provider
          /\ [call[c] EXCEPT !.status = "idle"].credential = call[c].credential
          /\ [call[c] EXCEPT !.status = "idle"].attempt = call[c].attempt
    BY <1>1, <1>2 DEF CallType
  <1>8. /\ call' \in [Call -> CallType]
        /\ \A c \in Call :
              /\ call'[c].provider = call[c].provider
              /\ call'[c].credential = call[c].credential
              /\ call'[c].attempt = call[c].attempt
              /\ call[c].status = "waiting" /\ call[c].provider \in P
                   => call'[c].status = "idle"
              /\ ~(call[c].status = "waiting" /\ call[c].provider \in P)
                   => call'[c] = call[c]
    BY <1>1, <1>6, <1>7
  <1>9. /\ inflight' = [p \in Provider |->
              IF p \in P THEN [k \in Credential |-> NoAttempt] ELSE inflight[p]]
        /\ tokenCache' = [p \in Provider |->
              IF p \in P THEN [k \in Credential |-> NoAttempt] ELSE tokenCache[p]]
        /\ tarpit401' = [p \in Provider |->
              IF p \in P THEN LoadsTarpit(p) ELSE tarpit401[p]]
    BY DEF Restart
  <1>10. [k \in Credential |-> NoAttempt] \in [Credential -> Attempt \cup {NoAttempt}]
    OBVIOUS
  <1>11. inflight' \in CacheType /\ tokenCache' \in CacheType
    BY <1>9, <1>10 DEF TypeOK, CacheType
  <1> QED
    BY <1>5, <1>8, <1>9, <1>11

-------------------------------------------------------------------------------
(* Type correctness *)

LEMMA TypeInit == Init => TypeOK
  <1> SUFFICES ASSUME Init PROVE TypeOK
    OBVIOUS
  <1>1. PICK p \in Provider, k \in Credential :
          /\ call = [c \in Call |-> CallRecord("idle", p, k, NoAttempt)]
          /\ request = [a \in Attempt |-> RequestRecord("unused", p, k, 0)]
    BY DEF Init
  <1>2. "idle" \in CallStatuses /\ "unused" \in RequestPhases
    BY DEF CallStatuses, RequestPhases
  <1>3. CallRecord("idle", p, k, NoAttempt) \in CallType
    BY <1>2, CallRecordType
  <1>4. RequestRecord("unused", p, k, 0) \in RequestType
    BY <1>2, RequestRecordType
  <1> QED
    BY <1>1, <1>3, <1>4 DEF Init, TypeOK, CallType, RequestType

LEMMA TypeStep == TypeOK /\ [Next]_vars => TypeOK'
  <1> SUFFICES ASSUME TypeOK, [Next]_vars PROVE TypeOK'
    OBVIOUS
  <1> USE DEF CallType, RequestType, CacheType
  <1>1. ASSUME NEW c \in Call, NEW p \in Provider, NEW k \in Credential,
               GetHeaders(c, p, k)
        PROVE  TypeOK'
    <2>0. "token" \in CallStatuses /\ "refused" \in CallStatuses
          /\ "waiting" \in CallStatuses /\ "delayed" \in RequestPhases
      BY DEF CallStatuses, RequestPhases
    <2>1. Misses(c, p, k) => tokenCache' \in CacheType
      <3>1. tokenCache \in CacheType
        BY DEF TypeOK
      <3> QED
        BY <3>1, CacheUpdate DEF Misses
    <2>2. CASE GetFromMemory(c, p, k)
      <3>1. CallRecord("token", p, k, tokenCache[p][k]) \in CallType
        BY <2>0, CallRecordType DEF TypeOK
      <3> QED
        BY <2>2, <3>1 DEF GetFromMemory, TypeOK, providerVars, diskVars
    <2>3. CASE GetFromFile(c, p, k)
      <3>1. CallRecord("token", p, k, file[k]) \in CallType
        BY <2>0, CallRecordType DEF TypeOK
      <3>2. tokenCache' \in CacheType
        <4>1. tokenCache \in CacheType /\ file[k] \in Attempt \cup {NoAttempt}
          BY DEF TypeOK
        <4> QED
          BY <2>3, <4>1, CacheUpdate DEF GetFromFile
      <3> QED
        BY <2>3, <3>1, <3>2 DEF GetFromFile, TypeOK, diskVars
    <2>4. CASE RefusedUnasked(c, p, k)
      <3>1. CallRecord("refused", p, k, NoAttempt) \in CallType
        BY <2>0, CallRecordType
      <3> QED
        BY <2>1, <2>4, <3>1 DEF RefusedUnasked, TypeOK, diskVars
    <2>5. CASE Joins(c, p, k)
      <3>1. CallRecord("waiting", p, k, inflight[p][k]) \in CallType
        BY <2>0, CallRecordType DEF TypeOK
      <3> QED
        BY <2>1, <2>5, <3>1 DEF Joins, TypeOK, diskVars
    <2>6. ASSUME NEW a \in Attempt, Begins(c, p, k, a) PROVE TypeOK'
      <3>1. CallRecord("waiting", p, k, a) \in CallType
        BY <2>0, CallRecordType
      <3>2. Backoff(p) \in Nat
        BY DEF Backoff, TypeOK
      <3>3. RequestRecord("delayed", p, k, Backoff(p)) \in RequestType
        BY <2>0, <3>2, RequestRecordType
      <3>4. inflight' \in CacheType
        <4>1. inflight \in CacheType
          BY DEF TypeOK
        <4> QED
          BY <2>6, <4>1, CacheUpdate DEF Begins
      <3>5. call' \in [Call -> CallType]
        BY <2>6, <3>1 DEF Begins, TypeOK
      <3>6. request' \in [Attempt -> RequestType]
        BY <2>6, <3>3 DEF Begins, TypeOK
      <3>7. tokenCache' \in CacheType
        BY <2>1, <2>6 DEF Begins
      <3>8. UNCHANGED <<memoized401, failed, failureCount, tarpit401, file, write,
                        tarpit, expired, refused>>
        BY <2>6 DEF Begins, diskVars
      <3> QED
        BY <3>4, <3>5, <3>6, <3>7, <3>8 DEF TypeOK
    <2> QED
      BY <1>1, <2>2, <2>3, <2>4, <2>5, <2>6 DEF GetHeaders
  <1>2. ASSUME NEW a \in Attempt, Sends(a) PROVE TypeOK'
    <2>0. "sent" \in RequestPhases
      BY DEF RequestPhases
    <2>1. RequestRecord("sent", request[a].provider, request[a].credential, 0)
            \in RequestType
      <3>1. request[a].provider \in Provider /\ request[a].credential \in Credential
        BY DEF TypeOK
      <3> QED
        BY <2>0, <3>1, RequestRecordType
    <2> QED
      BY <1>2, <2>1 DEF Sends, TypeOK, providerVars, diskVars
  <1>3. ASSUME NEW a \in Attempt, Granted(a) PROVE TypeOK'
    <2>0. "token" \in CallStatuses
      BY DEF CallStatuses
    <2>1. Settles(a, "granted", "token", a)
      BY <1>3 DEF Granted
    <2>2. /\ request' \in [Attempt -> RequestType]
          /\ inflight' \in CacheType
          /\ call' \in [Call -> CallType]
          /\ request[a].provider \in Provider
          /\ request[a].credential \in Credential
      BY <2>0, <2>1, SettlesRequest, SettlesInflight, SettlesCall
    <2>3. tokenCache' \in CacheType
      <3>1. tokenCache \in CacheType
        BY DEF TypeOK
      <3> QED
        BY <1>3, <2>2, <3>1, CacheUpdate DEF Granted
    <2>4. /\ write' \in [Attempt -> {"none", "queued", "open"}]
          /\ memoized401' \in [Provider -> SUBSET Credential]
          /\ failureCount' \in [Provider -> Nat]
      BY <1>3, <2>2 DEF Granted, TypeOK
    <2>5. failed' \in [Provider -> BOOLEAN]
      BY <1>3, <2>2 DEF Granted, TypeOK
    <2>6. UNCHANGED <<tarpit401, file, tarpit, expired, refused>>
      BY <1>3 DEF Granted
    <2> QED
      BY <2>2, <2>3, <2>4, <2>5, <2>6 DEF TypeOK
  <1>4. ASSUME NEW a \in Attempt, Refused(a) PROVE TypeOK'
    <2>0. "refused" \in CallStatuses
      BY DEF CallStatuses
    <2>1. Settles(a, "over", "refused", NoAttempt)
      BY <1>4 DEF Refused
    <2>2. /\ request' \in [Attempt -> RequestType]
          /\ inflight' \in CacheType
          /\ call' \in [Call -> CallType]
          /\ request[a].provider \in Provider
          /\ request[a].credential \in Credential
      BY <2>0, <2>1, SettlesRequest, SettlesInflight, SettlesCall
    <2>3. /\ memoized401' \in [Provider -> SUBSET Credential]
          /\ UNCHANGED <<tokenCache, failureCount, file, write, expired>>
      BY <1>4, <2>2 DEF Refused, TypeOK
    <2>4. failed' \in [Provider -> BOOLEAN]
      <3>1. failed \in [Provider -> BOOLEAN]
        BY DEF TypeOK
      <3>2. failed' = [failed EXCEPT ![request[a].provider] = FALSE]
        BY <1>4 DEF Refused
      <3> QED
        BY <3>1, <3>2
    <2>5. /\ tarpit' \in SUBSET Credential
          /\ tarpit401' \in [Provider -> SUBSET Credential]
          /\ refused' \in [Provider -> SUBSET Credential]
      <3>1. CASE TarpitWritten(request[a].provider, request[a].credential)
        BY <2>2, <3>1 DEF TarpitWritten, TypeOK
      <3>2. CASE TarpitUnwritten(request[a].provider, request[a].credential)
        BY <3>2 DEF TarpitUnwritten, TypeOK
      <3> QED
        BY <1>4, <3>1, <3>2 DEF Refused
    <2> QED
      BY <2>2, <2>3, <2>4, <2>5 DEF TypeOK
  <1>5. ASSUME NEW a \in Attempt, Fails(a) PROVE TypeOK'
    <2>0. "failed" \in CallStatuses
      BY DEF CallStatuses
    <2>1. Settles(a, "over", "failed", NoAttempt)
      BY <1>5 DEF Fails
    <2>2. /\ request' \in [Attempt -> RequestType]
          /\ inflight' \in CacheType
          /\ call' \in [Call -> CallType]
          /\ request[a].provider \in Provider
      BY <2>0, <2>1, SettlesRequest, SettlesInflight, SettlesCall
    <2>3. failed' \in [Provider -> BOOLEAN]
      BY <1>5, <2>2 DEF Fails, TypeOK
    <2>4. failureCount' \in [Provider -> Nat]
      <3>1. failureCount \in [Provider -> Nat]
        BY DEF TypeOK
      <3>2. \/ failureCount' = failureCount
            \/ failureCount' = [failureCount EXCEPT ![request[a].provider] = @ + 1]
        BY <1>5 DEF Fails
      <3> QED
        BY <2>2, <3>1, <3>2
    <2>5. UNCHANGED <<tokenCache, memoized401, tarpit401, file, write, tarpit,
                      expired, refused>>
      BY <1>5 DEF Fails, diskVars
    <2> QED
      BY <2>2, <2>3, <2>4, <2>5 DEF TypeOK
  <1>6. ASSUME NEW a \in Attempt, FileStep(a) PROVE TypeOK'
    <2>1. file' \in [Credential -> Attempt \cup {NoAttempt}]
      BY <1>6 DEF FileStep, OpensFile, WritesFile, WriteFails, TypeOK
    <2>2. write' \in [Attempt -> {"none", "queued", "open"}]
      BY <1>6 DEF FileStep, OpensFile, WritesFile, WriteFails, TypeOK
    <2>3. UNCHANGED <<call, request, providerVars, tarpit, expired, refused>>
      BY <1>6 DEF FileStep, OpensFile, WritesFile, WriteFails
    <2> QED
      BY <2>1, <2>2, <2>3 DEF TypeOK, providerVars
  <1>7. ASSUME NEW a \in Attempt, Expires(a) PROVE TypeOK'
    BY <1>7 DEF Expires, TypeOK, providerVars, diskVars
  <1>8. ASSUME NEW p \in Provider, NEW k \in Credential, CoolsDown(p, k) PROVE TypeOK'
    BY <1>8 DEF CoolsDown, TypeOK, diskVars
  <1>9. ASSUME NEW p \in Provider, FlushMemoryCache(p) PROVE TypeOK'
    BY <1>9 DEF FlushMemoryCache, TypeOK, diskVars
  <1>10. ASSUME NEW p \in Provider, FlushFileCache(p) PROVE TypeOK'
    BY <1>10 DEF FlushFileCache, TypeOK, providerVars
  <1>11. ASSUME NEW P \in Processes, NEW k \in Credential, Clear401Tarpit(P, k)
         PROVE  TypeOK'
    BY <1>11 DEF Clear401Tarpit, TypeOK
  <1>12. ASSUME NEW P \in Processes, Restart(P) PROVE TypeOK'
    <2>1. /\ request' \in [Attempt -> RequestType]
          /\ call' \in [Call -> CallType]
          /\ inflight' \in CacheType
          /\ tokenCache' \in CacheType
      BY <1>12, RestartFacts
    <2>2. write' \in [Attempt -> {"none", "queued", "open"}]
      BY <1>12 DEF Restart, TypeOK
    <2>3. memoized401' \in [Provider -> SUBSET Credential]
      BY <1>12 DEF Restart, TypeOK
    <2>4. failed' \in [Provider -> BOOLEAN]
      BY <1>12 DEF Restart, TypeOK
    <2>5. failureCount' \in [Provider -> Nat]
      BY <1>12 DEF Restart, TypeOK
    <2>6. tarpit401' \in [Provider -> SUBSET Credential]
      BY <1>12 DEF Restart, TypeOK, LoadsTarpit
    <2> QED
      BY <1>12, <2>1, <2>2, <2>3, <2>4, <2>5, <2>6 DEF Restart, TypeOK
  <1>13. CASE UNCHANGED vars
    BY <1>13 DEF vars, providerVars, diskVars, TypeOK
  <1> QED
    BY <1>1, <1>2, <1>3, <1>4, <1>5, <1>6, <1>7, <1>8, <1>9, <1>10, <1>11, <1>12,
       <1>13
    DEF Next, Answers

(* Every variable of the provider keeps its type. *)
THEOREM TypeCorrect == Spec => []TypeOK
  BY TypeInit, TypeStep, PTL DEF Spec

-------------------------------------------------------------------------------
(* The requests of a credential coalesce *)

(* The entries in flight are exactly the requests under way, and a call waits
   for the entry of its own provider and credential. *)
CoalesceInv ==
  /\ \A a \in Attempt : Pending(a) =>
       inflight[request[a].provider][request[a].credential] = a
  /\ \A p \in Provider, k \in Credential : inflight[p][k] # NoAttempt =>
       /\ Pending(inflight[p][k])
       /\ request[inflight[p][k]].provider = p
       /\ request[inflight[p][k]].credential = k
  /\ \A c \in Call : call[c].status = "waiting" =>
       /\ call[c].attempt # NoAttempt
       /\ inflight[call[c].provider][call[c].credential] = call[c].attempt

LEMMA CoalesceInit == Init => CoalesceInv
  <1> SUFFICES ASSUME Init PROVE CoalesceInv
    OBVIOUS
  <1>1. PICK p \in Provider, k \in Credential :
          /\ call = [c \in Call |-> CallRecord("idle", p, k, NoAttempt)]
          /\ request = [a \in Attempt |-> RequestRecord("unused", p, k, 0)]
    BY DEF Init
  <1>2. \A c \in Call : call[c].status = "idle"
    BY <1>1 DEF CallRecord
  <1>3. \A a \in Attempt : request[a].phase = "unused"
    BY <1>1 DEF RequestRecord
  <1>4. \A q \in Provider, l \in Credential : inflight[q][l] = NoAttempt
    BY DEF Init
  <1> QED
    BY <1>2, <1>3, <1>4 DEF CoalesceInv, Pending

(* A step that changes neither requests nor entries, and lets no call wait. *)
LEMMA CoalesceFrame ==
  ASSUME CoalesceInv, UNCHANGED <<request, inflight>>,
         \A c \in Call : call'[c] = call[c] \/ call'[c].status # "waiting"
  PROVE  CoalesceInv'
  BY DEF CoalesceInv, Pending

LEMMA CoalesceSettles ==
  ASSUME TypeOK, CoalesceInv, NEW a \in Attempt, NEW phase \in {"granted", "over"},
         NEW status \in {"token", "refused", "failed"},
         NEW token \in Attempt \cup {NoAttempt},
         Settles(a, phase, status, token)
  PROVE  CoalesceInv'
  <1>1. status \in CallStatuses
    BY DEF CallStatuses
  <1>2. Pending(a)
    BY SettlesRequest DEF Pending
  <1>3. ASSUME NEW b \in Attempt, Pending(b)'
        PROVE  (inflight[request[b].provider][request[b].credential] = b)'
    <2>1. b # a /\ request'[b] = request[b]
      BY <1>3, SettlesRequest DEF Pending
    <2>2. Pending(b) /\ request[b].provider \in Provider
          /\ request[b].credential \in Credential
      BY <1>3, <2>1 DEF Pending, TypeOK
    <2>3. inflight[request[b].provider][request[b].credential] = b
      BY <2>2 DEF CoalesceInv
    <2>4. inflight[request[a].provider][request[a].credential] = a
      BY <1>2 DEF CoalesceInv
    <2> QED
      BY <2>1, <2>2, <2>3, <2>4, SettlesInflight
  <1>4. ASSUME NEW p \in Provider, NEW k \in Credential, inflight'[p][k] # NoAttempt
        PROVE  /\ Pending(inflight[p][k])'
               /\ request'[inflight'[p][k]].provider = p
               /\ request'[inflight'[p][k]].credential = k
    <2>1. ~(p = request[a].provider /\ k = request[a].credential)
          /\ inflight'[p][k] = inflight[p][k]
      BY <1>4, SettlesInflight
    <2>2. /\ Pending(inflight[p][k])
          /\ request[inflight[p][k]].provider = p
          /\ request[inflight[p][k]].credential = k
      BY <1>4, <2>1 DEF CoalesceInv
    <2>3. inflight[p][k] \in Attempt /\ inflight[p][k] # a
      BY <1>4, <2>1, <2>2 DEF TypeOK
    <2>4. request'[inflight[p][k]] = request[inflight[p][k]]
      BY <2>3, SettlesRequest
    <2> QED
      BY <2>1, <2>2, <2>4 DEF Pending
  <1>5. ASSUME NEW c \in Call, call'[c].status = "waiting"
        PROVE  /\ call'[c].attempt # NoAttempt
               /\ inflight'[call'[c].provider][call'[c].credential] = call'[c].attempt
    <2>1. CallRecord(status, request[a].provider, request[a].credential, token).status
            # "waiting"
      BY DEF CallRecord
    <2>2. call'[c] = call[c] /\ call[c].status = "waiting" /\ call[c].attempt # a
      BY <1>1, <1>5, <2>1, SettlesCall
    <2>3. /\ call[c].attempt # NoAttempt
          /\ inflight[call[c].provider][call[c].credential] = call[c].attempt
          /\ call[c].provider \in Provider /\ call[c].credential \in Credential
      BY <2>2 DEF CoalesceInv, TypeOK
    <2>4. inflight[request[a].provider][request[a].credential] = a
      BY <1>2 DEF CoalesceInv
    <2> QED
      BY <2>2, <2>3, <2>4, SettlesInflight
  <1> QED
    BY <1>3, <1>4, <1>5 DEF CoalesceInv

LEMMA CoalesceStep == TypeOK /\ CoalesceInv /\ [Next]_vars => CoalesceInv'
  <1> SUFFICES ASSUME TypeOK, CoalesceInv, [Next]_vars PROVE CoalesceInv'
    OBVIOUS
  <1>1. ASSUME NEW c \in Call, NEW p \in Provider, NEW k \in Credential,
               GetHeaders(c, p, k)
        PROVE  CoalesceInv'
    <2>1. CASE GetFromMemory(c, p, k)
      BY <2>1, CoalesceFrame DEF GetFromMemory, providerVars, CallRecord, TypeOK
    <2>2. CASE GetFromFile(c, p, k)
      BY <2>2, CoalesceFrame DEF GetFromFile, CallRecord, TypeOK
    <2>3. CASE RefusedUnasked(c, p, k)
      BY <2>3, CoalesceFrame DEF RefusedUnasked, CallRecord, TypeOK
    <2>4. CASE Joins(c, p, k)
      <3>1. UNCHANGED <<request, inflight>> /\ inflight[p][k] # NoAttempt
        BY <2>4 DEF Joins
      <3>2. call' = [call EXCEPT ![c] = CallRecord("waiting", p, k, inflight[p][k])]
        BY <2>4 DEF Joins
      <3>3. \A d \in Call : call'[d] =
              IF d = c THEN CallRecord("waiting", p, k, inflight[p][k]) ELSE call[d]
        BY <3>2 DEF TypeOK
      <3>4. "waiting" \in CallStatuses /\ inflight[p][k] \in Attempt \cup {NoAttempt}
        BY DEF CallStatuses, TypeOK
      <3>5. \A d \in Call : call'[d].status = "waiting" =>
              /\ call'[d].attempt # NoAttempt
              /\ inflight[call'[d].provider][call'[d].credential] = call'[d].attempt
        BY <3>1, <3>3, <3>4, CallRecordType DEF CoalesceInv
      <3> QED
        BY <3>1, <3>5 DEF CoalesceInv, Pending
    <2>5. ASSUME NEW a \in Attempt, Begins(c, p, k, a) PROVE CoalesceInv'
      <3>1. /\ inflight[p][k] = NoAttempt
            /\ request[a].phase = "unused"
            /\ request' = [request EXCEPT ![a] =
                             RequestRecord("delayed", p, k, Backoff(p))]
            /\ inflight' = [inflight EXCEPT ![p][k] = a]
            /\ call' = [call EXCEPT ![c] = CallRecord("waiting", p, k, a)]
        BY <2>5 DEF Begins
      <3>2. \A b \in Attempt : b # a => request'[b] = request[b]
        BY <3>1 DEF TypeOK
      <3>3. /\ request'[a].phase = "delayed"
            /\ request'[a].provider = p
            /\ request'[a].credential = k
        BY <3>1 DEF TypeOK, RequestRecord
      <3>4. \A q \in Provider, l \in Credential :
              inflight'[q][l] = IF q = p /\ l = k THEN a ELSE inflight[q][l]
        BY <3>1 DEF TypeOK
      <3>5. \A d \in Call : d # c => call'[d] = call[d]
        BY <3>1 DEF TypeOK
      <3>6. /\ call'[c].attempt = a
            /\ call'[c].provider = p
            /\ call'[c].credential = k
        BY <3>1 DEF TypeOK, CallRecord
      <3>7. ASSUME NEW b \in Attempt, Pending(b)'
            PROVE  inflight'[request'[b].provider][request'[b].credential] = b
        <4>1. CASE b = a
          BY <3>3, <3>4, <4>1
        <4>2. CASE b # a
          <5>1. Pending(b) /\ request'[b] = request[b]
            BY <3>2, <3>7, <4>2 DEF Pending
          <5>2. /\ inflight[request[b].provider][request[b].credential] = b
                /\ request[b].provider \in Provider /\ request[b].credential \in Credential
            BY <5>1 DEF CoalesceInv, TypeOK
          <5> QED
            BY <3>1, <3>4, <5>1, <5>2, AttemptAssumption
        <4> QED
          BY <4>1, <4>2
      <3>8. ASSUME NEW q \in Provider, NEW l \in Credential, inflight'[q][l] # NoAttempt
            PROVE  /\ Pending(inflight[q][l])'
                   /\ request'[inflight'[q][l]].provider = q
                   /\ request'[inflight'[q][l]].credential = l
        <4>1. CASE q = p /\ l = k
          BY <3>3, <3>4, <4>1 DEF Pending
        <4>2. CASE ~(q = p /\ l = k)
          <5>1. inflight'[q][l] = inflight[q][l] /\ inflight[q][l] \in Attempt
            BY <3>4, <3>8, <4>2 DEF TypeOK
          <5>2. /\ Pending(inflight[q][l])
                /\ request[inflight[q][l]].provider = q
                /\ request[inflight[q][l]].credential = l
            BY <3>8, <5>1 DEF CoalesceInv
          <5>3. request'[inflight[q][l]] = request[inflight[q][l]]
            BY <3>1, <3>2, <5>1, <5>2 DEF Pending
          <5> QED
            BY <5>1, <5>2, <5>3 DEF Pending
        <4> QED
          BY <4>1, <4>2
      <3>9. ASSUME NEW d \in Call, call'[d].status = "waiting"
            PROVE  /\ call'[d].attempt # NoAttempt
                   /\ inflight'[call'[d].provider][call'[d].credential]
                        = call'[d].attempt
        <4>1. CASE d = c
          BY <3>4, <3>6, <4>1, AttemptAssumption
        <4>2. CASE d # c
          <5>1. call'[d] = call[d]
            BY <3>5, <4>2
          <5>2. /\ call[d].attempt # NoAttempt
                /\ inflight[call[d].provider][call[d].credential] = call[d].attempt
                /\ call[d].provider \in Provider /\ call[d].credential \in Credential
            BY <3>9, <5>1 DEF CoalesceInv, TypeOK
          <5> QED
            BY <3>1, <3>4, <5>1, <5>2
        <4> QED
          BY <4>1, <4>2
      <3> QED
        BY <3>7, <3>8, <3>9 DEF CoalesceInv
    <2> QED
      BY <1>1, <2>1, <2>2, <2>3, <2>4, <2>5 DEF GetHeaders
  <1>2. ASSUME NEW a \in Attempt, Sends(a) PROVE CoalesceInv'
    <2>1. UNCHANGED <<call, inflight>> /\ Pending(a)
      BY <1>2 DEF Sends, providerVars, Pending
    <2>2. \A b \in Attempt : /\ Pending(b)' <=> Pending(b)
                            /\ request'[b].provider = request[b].provider
                            /\ request'[b].credential = request[b].credential
      BY <1>2 DEF Sends, Pending, TypeOK, RequestRecord
    <2> QED
      BY <2>1, <2>2 DEF CoalesceInv, TypeOK
  <1>3. ASSUME NEW a \in Attempt, Answers(a) PROVE CoalesceInv'
    BY <1>3, CoalesceSettles DEF Answers, Granted, Refused, Fails
  <1>4. ASSUME NEW P \in Processes, Restart(P) PROVE CoalesceInv'
    <2>1. P \subseteq Provider
      BY ProcessAssumption
    <2>2. ASSUME NEW a \in Attempt, Pending(a)'
          PROVE  inflight'[request'[a].provider][request'[a].credential] = a
      <3>1. request[a].provider \notin P /\ Pending(a)
        BY <1>4, <2>2, RestartFacts DEF Pending
      <3>2. inflight[request[a].provider][request[a].credential] = a
        BY <3>1 DEF CoalesceInv
      <3> QED
        BY <1>4, <3>1, <3>2, RestartFacts DEF TypeOK
    <2>3. ASSUME NEW p \in Provider, NEW k \in Credential, inflight'[p][k] # NoAttempt
          PROVE  /\ Pending(inflight[p][k])'
                 /\ request'[inflight'[p][k]].provider = p
                 /\ request'[inflight'[p][k]].credential = k
      <3>1. p \notin P
        BY <1>4, <2>3, RestartFacts
      <3>2. inflight'[p][k] = inflight[p][k] /\ inflight[p][k] \in Attempt
        BY <1>4, <2>3, <3>1, RestartFacts DEF TypeOK
      <3>3. /\ Pending(inflight[p][k])
            /\ request[inflight[p][k]].provider = p
            /\ request[inflight[p][k]].credential = k
        BY <2>3, <3>2 DEF CoalesceInv
      <3> QED
        BY <1>4, <3>1, <3>2, <3>3, RestartFacts DEF Pending
    <2>4. ASSUME NEW c \in Call, call'[c].status = "waiting"
          PROVE  /\ call'[c].attempt # NoAttempt
                 /\ inflight'[call'[c].provider][call'[c].credential]
                      = call'[c].attempt
      <3>1. call'[c] = call[c] /\ call[c].status = "waiting"
            /\ call[c].provider \notin P
        BY <1>4, <2>4, RestartFacts
      <3>2. /\ call[c].attempt # NoAttempt
            /\ inflight[call[c].provider][call[c].credential] = call[c].attempt
            /\ call[c].provider \in Provider
        BY <3>1 DEF CoalesceInv, TypeOK
      <3> QED
        BY <1>4, <3>1, <3>2, RestartFacts
    <2> QED
      BY <2>2, <2>3, <2>4 DEF CoalesceInv
  <1>5. CASE UNCHANGED <<call, request, inflight>>
    BY <1>5, CoalesceFrame
  <1> QED
    BY <1>1, <1>2, <1>3, <1>4, <1>5
    DEF Next, FileStep, OpensFile, WritesFile, WriteFails, Expires, CoolsDown,
        FlushMemoryCache, FlushFileCache, Clear401Tarpit, vars, providerVars

(* Calls for one credential share one request, whatever is flushed, evicted or
   restarted around it. *)
THEOREM RequestsAreShared == Spec => []RequestsCoalesce
  <1>1. TypeOK /\ CoalesceInv => RequestsCoalesce
    BY DEF TypeOK, CoalesceInv, RequestsCoalesce
  <1> QED
    BY <1>1, TypeInit, TypeStep, CoalesceInit, CoalesceStep, PTL DEF Spec

-------------------------------------------------------------------------------
(* A refusal stands *)

(* What was refused is known to its provider and on disk, in a process that has
   been restarted, too. *)
RefusedInv ==
  /\ \A p \in Provider : refused[p] \subseteq tarpit401[p] \cap tarpit
  /\ \A p \in Provider : refused[p] # {} => SaaS /\ p \in FileCaching
  /\ RefusalStands

LEMMA RefusedInit == Init => RefusedInv
  <1> SUFFICES ASSUME Init PROVE RefusedInv
    OBVIOUS
  <1>1. PICK p \in Provider, k \in Credential :
          request = [a \in Attempt |-> RequestRecord("unused", p, k, 0)]
    BY DEF Init
  <1>2. \A a \in Attempt : request[a].phase = "unused"
    BY <1>1 DEF RequestRecord
  <1>3. \A q \in Provider : refused[q] = {}
    BY DEF Init
  <1> QED
    BY <1>2, <1>3 DEF RefusedInv, RefusalStands, Pending

(* No new request, and none changes hands. *)
LEMMA RefusalFrame ==
  ASSUME TypeOK, RefusalStands,
         \A p \in Provider : refused'[p] \subseteq refused[p],
         \A a \in Attempt :
           Pending(a)' => /\ Pending(a)
                          /\ request'[a].provider = request[a].provider
                          /\ request'[a].credential = request[a].credential
  PROVE  RefusalStands'
  BY DEF RefusalStands, TypeOK

LEMMA RefusedStep == TypeOK /\ CoalesceInv /\ RefusedInv /\ [Next]_vars => RefusedInv'
  <1> SUFFICES ASSUME TypeOK, CoalesceInv, RefusedInv, [Next]_vars PROVE RefusedInv'
    OBVIOUS
  <1>1. ASSUME NEW c \in Call, NEW p \in Provider, NEW k \in Credential,
               GetHeaders(c, p, k)
        PROVE  RefusedInv'
    <2>1. UNCHANGED <<tarpit, tarpit401, refused>>
      BY <1>1
      DEF GetHeaders, GetFromMemory, GetFromFile, RefusedUnasked, Joins, Begins,
          providerVars, diskVars
    <2>2. CASE UNCHANGED request
      BY <2>1, <2>2 DEF RefusedInv, RefusalStands, Pending
    <2>3. ASSUME NEW a \in Attempt, Begins(c, p, k, a) PROVE RefusedInv'
      <3>1. ~Tarpitted(p, k)
            /\ request' = [request EXCEPT ![a] =
                             RequestRecord("delayed", p, k, Backoff(p))]
        BY <2>3 DEF Begins
      <3>2. k \notin refused[p]
        BY <3>1 DEF Tarpitted, RefusedInv
      <3>3. request'[a].provider = p /\ request'[a].credential = k
        BY <3>1 DEF TypeOK, RequestRecord
      <3>4. \A b \in Attempt : b # a => request'[b] = request[b]
        BY <3>1 DEF TypeOK
      <3>5. RefusalStands'
        BY <2>1, <3>2, <3>3, <3>4 DEF RefusedInv, RefusalStands, Pending
      <3> QED
        BY <2>1, <3>5 DEF RefusedInv
    <2> QED
      BY <1>1, <2>2, <2>3
      DEF GetHeaders, GetFromMemory, GetFromFile, RefusedUnasked, Joins
  <1>2. ASSUME NEW a \in Attempt, Sends(a) PROVE RefusedInv'
    <2>1. UNCHANGED <<tarpit, tarpit401, refused>>
      BY <1>2 DEF Sends, providerVars, diskVars
    <2>2. \A b \in Attempt : /\ Pending(b)' <=> Pending(b)
                            /\ request'[b].provider = request[b].provider
                            /\ request'[b].credential = request[b].credential
      BY <1>2 DEF Sends, Pending, TypeOK, RequestRecord
    <2> QED
      BY <2>1, <2>2, RefusalFrame DEF RefusedInv
  <1>3. ASSUME NEW a \in Attempt, Answers(a) PROVE RefusedInv'
    <2>1. PICK phase \in {"granted", "over"}, status \in {"token", "refused", "failed"},
               token \in Attempt \cup {NoAttempt} :
            Settles(a, phase, status, token)
      BY <1>3 DEF Answers, Granted, Refused, Fails
    <2>2. Pending(a) /\ request[a].provider \in Provider
          /\ request[a].credential \in Credential
      BY <2>1, SettlesRequest DEF Pending
    <2>3. \A b \in Attempt :
            Pending(b)' => Pending(b) /\ b # a /\ request'[b] = request[b]
      BY <2>1, SettlesRequest DEF Pending
    <2>4. CASE UNCHANGED <<tarpit, tarpit401, refused>>
      BY <2>3, <2>4, RefusalFrame DEF RefusedInv
    <2>5. CASE /\ SaaS
               /\ TarpitWritten(request[a].provider, request[a].credential)
      <3>1. \A b \in Attempt : Pending(b)' =>
              ~ /\ request[b].provider = request[a].provider
                /\ request[b].credential = request[a].credential
        BY <2>2, <2>3 DEF CoalesceInv
      <3>2. \A p \in Provider :
              refused'[p] = IF p = request[a].provider
                            THEN refused[p] \cup {request[a].credential}
                            ELSE refused[p]
        BY <2>5 DEF TarpitWritten, TypeOK
      <3>3. RefusalStands'
        <4>1. ASSUME NEW b \in Attempt, Pending(b)'
              PROVE  request'[b].credential \notin refused'[request'[b].provider]
          <5>1. /\ Pending(b) /\ request'[b] = request[b]
                /\ request[b].provider \in Provider
            BY <2>3, <4>1 DEF TypeOK
          <5>2. request[b].credential \notin refused[request[b].provider]
            BY <5>1 DEF RefusedInv, RefusalStands
          <5> QED
            BY <3>1, <3>2, <4>1, <5>1, <5>2
        <4> QED
          BY <4>1 DEF RefusalStands
      <3>4. \A p \in Provider :
              tarpit401'[p] = IF p = request[a].provider
                              THEN tarpit401[p] \cup {request[a].credential}
                              ELSE tarpit401[p]
        BY <2>5 DEF TarpitWritten, TypeOK
      <3>5. tarpit' = tarpit \cup {request[a].credential}
            /\ request[a].provider \in FileCaching
        BY <2>5 DEF TarpitWritten
      <3> QED
        BY <2>5, <3>2, <3>3, <3>4, <3>5 DEF RefusedInv
    <2> QED
      BY <1>3, <2>4, <2>5
      DEF Answers, Granted, Refused, Fails, TarpitUnwritten, diskVars
  <1>4. ASSUME NEW P \in Processes, NEW k \in Credential, Clear401Tarpit(P, k)
        PROVE  RefusedInv'
    <2>1. \A p \in Provider : refused'[p] = refused[p] \ {k}
      BY <1>4 DEF Clear401Tarpit
    <2>2. \A p \in Provider : tarpit401[p] \ {k} \subseteq tarpit401'[p]
      BY <1>4 DEF Clear401Tarpit
    <2>3. tarpit' = tarpit \ {k} /\ UNCHANGED request
      BY <1>4 DEF Clear401Tarpit
    <2>4. RefusalStands'
      BY <2>1, <2>3, RefusalFrame DEF RefusedInv, Pending
    <2> QED
      BY <2>1, <2>2, <2>3, <2>4 DEF RefusedInv
  <1>5. ASSUME NEW P \in Processes, Restart(P) PROVE RefusedInv'
    <2>1. UNCHANGED <<tarpit, refused>>
      BY <1>5 DEF Restart
    <2>2. RefusalStands'
      BY <1>5, <2>1, RestartFacts, RefusalFrame DEF RefusedInv, Pending
    <2>3. \A p \in Provider : refused[p] \subseteq tarpit401'[p]
      BY <1>5, RestartFacts DEF LoadsTarpit, RefusedInv
    <2> QED
      BY <2>1, <2>2, <2>3 DEF RefusedInv
  <1>6. CASE UNCHANGED <<request, tarpit, tarpit401, refused>>
    BY <1>6 DEF RefusedInv, RefusalStands, Pending
  <1> QED
    BY <1>1, <1>2, <1>3, <1>4, <1>5, <1>6
    DEF Next, FileStep, OpensFile, WritesFile, WriteFails, Expires, CoolsDown,
        FlushMemoryCache, FlushFileCache, vars, providerVars, diskVars

(* A credential that was refused is asked for no more until it is cleared. *)
THEOREM RefusalsStand == Spec => []RefusalStands
  <1>1. RefusedInv => RefusalStands
    BY DEF RefusedInv
  <1> QED
    BY <1>1, TypeInit, TypeStep, CoalesceInit, CoalesceStep, RefusedInit, RefusedStep,
       PTL
    DEF Spec

-------------------------------------------------------------------------------
(* The tokens in the caches *)

GrantedFor(a, k) ==
  a \in Attempt /\ request[a].phase = "granted" /\ request[a].credential = k

(* Every token in a cache was granted for the credential it is kept under. *)
CacheInv ==
  /\ \A p \in Provider, k \in Credential :
       tokenCache[p][k] # NoAttempt => GrantedFor(tokenCache[p][k], k)
  /\ \A k \in Credential : file[k] # NoAttempt => GrantedFor(file[k], k)
  /\ \A a \in Attempt : write[a] # "none" => request[a].phase = "granted"
  /\ \A a \in expired : request[a].phase = "granted"

LEMMA CacheInit == Init => CacheInv
  BY DEF Init, CacheInv

(* A granted request stays one, with its credential. *)
LEMMA GrantedKeeps ==
  ASSUME TypeOK, [Next]_vars, NEW a \in Attempt, request[a].phase = "granted"
  PROVE  request'[a].phase = "granted" /\ request'[a].credential = request[a].credential
  <1>1. ASSUME NEW c \in Call, NEW p \in Provider, NEW k \in Credential,
               NEW b \in Attempt, Begins(c, p, k, b)
        PROVE  request'[a] = request[a]
    BY <1>1 DEF Begins, TypeOK
  <1>2. ASSUME NEW b \in Attempt, Sends(b) PROVE request'[a] = request[a]
    BY <1>2 DEF Sends, TypeOK
  <1>3. ASSUME NEW b \in Attempt, Answers(b) PROVE request'[a] = request[a]
    <2>1. PICK phase, status, token :
            phase \in {"granted", "over"} /\ Settles(b, phase, status, token)
      BY <1>3 DEF Answers, Granted, Refused, Fails
    <2> QED
      BY <2>1, SettlesRequest
  <1>4. ASSUME NEW P \in Processes, Restart(P)
        PROVE  request'[a].phase = "granted"
               /\ request'[a].credential = request[a].credential
    BY <1>4, RestartFacts
  <1> QED
    BY <1>1, <1>2, <1>3, <1>4
    DEF Next, GetHeaders, GetFromMemory, GetFromFile, RefusedUnasked, Joins, FileStep,
        OpensFile, WritesFile, WriteFails, Expires, CoolsDown, FlushMemoryCache,
        FlushFileCache, Clear401Tarpit, vars

LEMMA CacheStep == TypeOK /\ CacheInv /\ [Next]_vars => CacheInv'
  <1> SUFFICES ASSUME TypeOK, CacheInv, [Next]_vars PROVE CacheInv'
    OBVIOUS
  <1>1. \A a \in Attempt : request[a].phase = "granted" =>
          /\ request'[a].phase = "granted"
          /\ request'[a].credential = request[a].credential
    BY GrantedKeeps
  <1>2. \A p \in Provider, k \in Credential :
          GrantedFor(tokenCache[p][k], k) => GrantedFor(tokenCache[p][k], k)'
            \/ tokenCache'[p][k] # tokenCache[p][k]
    BY <1>1 DEF GrantedFor
  <1>3. \A k \in Credential :
          GrantedFor(file[k], k) => GrantedFor(file[k], k)' \/ file'[k] # file[k]
    BY <1>1 DEF GrantedFor
  <1>4. ASSUME \A p \in Provider, k \in Credential :
                 \/ tokenCache'[p][k] = NoAttempt
                 \/ tokenCache'[p][k] = tokenCache[p][k]
                 \/ GrantedFor(tokenCache[p][k], k)',
               \A k \in Credential :
                 \/ file'[k] = NoAttempt
                 \/ file'[k] = file[k]
                 \/ GrantedFor(file[k], k)',
               \A a \in Attempt :
                 \/ write'[a] = "none"
                 \/ write[a] # "none"
                 \/ request'[a].phase = "granted",
               \A a \in Attempt :
                 a \in expired' => a \in expired \/ request[a].phase = "granted"
        PROVE  CacheInv'
    <2>1. \A p \in Provider, k \in Credential :
            tokenCache'[p][k] # NoAttempt => GrantedFor(tokenCache[p][k], k)'
      BY <1>2, <1>4 DEF CacheInv
    <2>2. \A k \in Credential : file'[k] # NoAttempt => GrantedFor(file[k], k)'
      BY <1>3, <1>4 DEF CacheInv
    <2>3. \A a \in Attempt : write'[a] # "none" => request'[a].phase = "granted"
      BY <1>1, <1>4 DEF CacheInv
    <2>4. \A a \in expired' : request'[a].phase = "granted"
      <3>1. expired' \subseteq Attempt
        BY TypeStep DEF TypeOK
      <3> QED
        BY <1>1, <1>4, <3>1 DEF CacheInv
    <2> QED
      BY <2>1, <2>2, <2>3, <2>4 DEF CacheInv
  <1>5. ASSUME NEW c \in Call, NEW p \in Provider, NEW k \in Credential,
               GetHeaders(c, p, k)
        PROVE  CacheInv'
    <2>1. UNCHANGED <<file, write, expired>>
      BY <1>5 DEF GetHeaders, GetFromMemory, GetFromFile, RefusedUnasked, Joins, Begins,
                  diskVars
    <2>2. CASE UNCHANGED tokenCache
      BY <1>4, <2>1, <2>2
    <2>3. CASE tokenCache' = [tokenCache EXCEPT ![p][k] = NoAttempt]
      <3>1. \A q \in Provider, l \in Credential :
              tokenCache'[q][l] \in {NoAttempt, tokenCache[q][l]}
        BY <2>3 DEF TypeOK
      <3> QED
        BY <1>4, <2>1, <3>1
    <2>4. CASE GetFromFile(c, p, k)
      <3>1. file[k] # NoAttempt /\ tokenCache' = [tokenCache EXCEPT ![p][k] = file[k]]
            /\ UNCHANGED request
        BY <2>4 DEF GetFromFile, CachedInFile, Fresh
      <3>2. \A q \in Provider, l \in Credential :
              tokenCache'[q][l] = IF q = p /\ l = k THEN file[k] ELSE tokenCache[q][l]
        BY <3>1 DEF TypeOK
      <3>3. GrantedFor(file[k], k)
        BY <3>1 DEF CacheInv
      <3>4. \A q \in Provider, l \in Credential :
                 \/ tokenCache'[q][l] = tokenCache[q][l]
                 \/ GrantedFor(tokenCache[q][l], l)'
        BY <3>1, <3>2, <3>3 DEF GrantedFor
      <3> QED
        BY <1>4, <2>1, <3>4
    <2> QED
      BY <1>5, <2>2, <2>3, <2>4
      DEF GetHeaders, GetFromMemory, RefusedUnasked, Joins, Begins, Misses, providerVars
  <1>6. ASSUME NEW a \in Attempt, Granted(a) PROVE CacheInv'
    <2>1. /\ request'[a].phase = "granted"
          /\ request'[a].credential = request[a].credential
          /\ request[a].provider \in Provider
          /\ request[a].credential \in Credential
      BY <1>6, SettlesRequest DEF Granted
    <2>2. \A q \in Provider, l \in Credential :
            tokenCache'[q][l] =
              IF q = request[a].provider /\ l = request[a].credential
              THEN a ELSE tokenCache[q][l]
      BY <1>6, <2>1 DEF Granted, TypeOK
    <2>3. \A q \in Provider, l \in Credential :
               \/ tokenCache'[q][l] = tokenCache[q][l]
               \/ GrantedFor(tokenCache[q][l], l)'
      BY <2>1, <2>2 DEF GrantedFor
    <2>4. \A b \in Attempt : write'[b] = write[b] \/ b = a
      BY <1>6 DEF Granted, TypeOK
    <2>5. UNCHANGED <<file, expired>>
      BY <1>6 DEF Granted
    <2> QED
      BY <1>4, <2>1, <2>3, <2>4, <2>5
  <1>7. ASSUME NEW a \in Attempt, Refused(a) \/ Fails(a) PROVE CacheInv'
    <2>1. UNCHANGED <<tokenCache, file, write, expired>>
      BY <1>7 DEF Refused, Fails, diskVars
    <2> QED
      BY <1>4, <2>1
  <1>8. ASSUME NEW a \in Attempt, FileStep(a) PROVE CacheInv'
    <2>1. write[a] # "none" /\ UNCHANGED <<request, tokenCache, expired>>
      BY <1>8 DEF FileStep, OpensFile, WritesFile, WriteFails, providerVars
    <2>2. request[a].phase = "granted"
      BY <2>1 DEF CacheInv
    <2>3. \A b \in Attempt : b # a => write'[b] = write[b]
      BY <1>8 DEF FileStep, OpensFile, WritesFile, WriteFails, TypeOK
    <2>4. \A k \in Credential :
            file'[k] \in {file[k], NoAttempt} \/ (file'[k] = a /\ k = request[a].credential)
      BY <1>8 DEF FileStep, OpensFile, WritesFile, WriteFails, TypeOK
    <2>5. \A k \in Credential :
            file'[k] \in {file[k], NoAttempt} \/ GrantedFor(file[k], k)'
      BY <2>1, <2>2, <2>4 DEF GrantedFor
    <2> QED
      BY <1>4, <2>1, <2>3, <2>5
  <1>9. ASSUME NEW a \in Attempt, Expires(a) PROVE CacheInv'
    BY <1>4, <1>9 DEF Expires, providerVars, diskVars
  <1>10. ASSUME NEW p \in Provider, FlushMemoryCache(p) PROVE CacheInv'
    <2>1. \A q \in Provider, l \in Credential :
            tokenCache'[q][l] \in {NoAttempt, tokenCache[q][l]}
      BY <1>10 DEF FlushMemoryCache, TypeOK
    <2> QED
      BY <1>4, <1>10, <2>1 DEF FlushMemoryCache, diskVars
  <1>11. ASSUME NEW p \in Provider, FlushFileCache(p) PROVE CacheInv'
    <2>1. \A a \in Attempt : write'[a] = "none" \/ write'[a] = write[a]
      BY <1>11 DEF FlushFileCache
    <2> QED
      BY <1>4, <1>11, <2>1 DEF FlushFileCache, providerVars
  <1>12. ASSUME NEW P \in Processes, Restart(P) PROVE CacheInv'
    <2>1. \A q \in Provider, l \in Credential :
            tokenCache'[q][l] \in {NoAttempt, tokenCache[q][l]}
      BY <1>12, RestartFacts
    <2>2. \A a \in Attempt : write'[a] = "none" \/ write'[a] = write[a]
      BY <1>12 DEF Restart
    <2> QED
      BY <1>4, <1>12, <2>1, <2>2 DEF Restart
  <1>13. CASE UNCHANGED <<tokenCache, file, write, expired>>
    BY <1>4, <1>13
  <1> QED
    BY <1>5, <1>6, <1>7, <1>8, <1>9, <1>10, <1>11, <1>12, <1>13
    DEF Next, Answers, Sends, CoolsDown, Clear401Tarpit, vars, providerVars, diskVars

-------------------------------------------------------------------------------
(* The promise *)

blockedBy == [p \in Provider |-> tarpit401[p] \cup memoized401[p]]

LEMMA ValidFrame ==
  ASSUME UNCHANGED expired,
         \A a \in Attempt :
           /\ request'[a].phase = "granted" <=> request[a].phase = "granted"
           /\ request'[a].credential = request[a].credential
                \/ request[a].phase # "granted"
  PROVE  validTokens' = validTokens
  BY DEF validTokens

(* One call gets a token, ... *)
LEMMA TokenMaps ==
  ASSUME TypeOK, NEW c \in Call, NEW p, NEW k, NEW t,
         call' = [call EXCEPT ![c] = CallRecord("token", p, k, t)]
  PROVE  serviceCall' = [serviceCall EXCEPT ![c] = Service!CallRecord("token", p, k, t)]
  <1>1. \A d \in Call : d # c => call'[d] = call[d]
    BY DEF TypeOK
  <1>2. call'[c] = CallRecord("token", p, k, t)
    BY DEF TypeOK
  <1>3. serviceCall'[c] = Service!CallRecord("token", p, k, t)
    BY <1>2 DEF serviceCall, Service!CallRecord, CallRecord
  <1>4. \A d \in Call : d # c => serviceCall'[d] = serviceCall[d]
    BY <1>1 DEF serviceCall
  <1> QED
    BY <1>3, <1>4 DEF serviceCall

(* ... or another record. *)
LEMMA CallMaps ==
  ASSUME TypeOK, NEW c \in Call, NEW status, NEW p, NEW k, NEW a, status # "token",
         call' = [call EXCEPT ![c] = CallRecord(status, p, k, a)]
  PROVE  serviceCall' =
           [serviceCall EXCEPT ![c] = Service!CallRecord(status, p, k, NoAttempt)]
  <1>1. \A d \in Call : d # c => call'[d] = call[d]
    BY DEF TypeOK
  <1>2. call'[c] = CallRecord(status, p, k, a)
    BY DEF TypeOK
  <1>3. serviceCall'[c] = Service!CallRecord(status, p, k, NoAttempt)
    BY <1>2 DEF serviceCall, Service!CallRecord, CallRecord
  <1>4. \A d \in Call : d # c => serviceCall'[d] = serviceCall[d]
    BY <1>1 DEF serviceCall
  <1> QED
    BY <1>3, <1>4 DEF serviceCall

(* The mapped variables are functions. *)
LEMMA MappedFunctions ==
  /\ blockedBy = [p \in Provider |-> blockedBy[p]]
  /\ blockedBy' = [p \in Provider |-> blockedBy'[p]]
  /\ validTokens = [k \in Credential |-> validTokens[k]]
  /\ validTokens' = [k \in Credential |-> validTokens'[k]]
  BY DEF blockedBy, validTokens

(* The calls that share a request are those that ask for its credential. *)
LEMMA SharedMaps ==
  ASSUME TypeOK, CoalesceInv, NEW a \in Attempt, NEW phase \in {"granted", "over"},
         NEW status \in {"token", "refused", "failed"},
         NEW token \in Attempt \cup {NoAttempt},
         status # "token" => token = NoAttempt,
         Settles(a, phase, status, token)
  PROVE  serviceCall' =
           Service!Settled(request[a].provider, request[a].credential, status, token)
  <1>1. status \in CallStatuses
    BY DEF CallStatuses
  <1>2. Pending(a) /\ request[a].provider \in Provider
        /\ request[a].credential \in Credential
    BY SettlesRequest DEF Pending
  <1>3. inflight[request[a].provider][request[a].credential] = a
    BY <1>2 DEF CoalesceInv
  <1>4. ASSUME NEW c \in Call, call[c].status = "waiting"
        PROVE  call[c].attempt = a <=> /\ call[c].provider = request[a].provider
                                       /\ call[c].credential = request[a].credential
    <2>1. /\ call[c].provider \in Provider /\ call[c].credential \in Credential
          /\ call[c].attempt # NoAttempt
          /\ inflight[call[c].provider][call[c].credential] = call[c].attempt
      BY <1>4 DEF CoalesceInv, TypeOK
    <2> QED
      BY <1>3, <2>1 DEF CoalesceInv
  <1>5. ASSUME NEW c \in Call
        PROVE  serviceCall'[c] =
                 IF /\ serviceCall[c].status = "waiting"
                    /\ serviceCall[c].provider = request[a].provider
                    /\ serviceCall[c].credential = request[a].credential
                 THEN Service!CallRecord(status, request[a].provider,
                                         request[a].credential, token)
                 ELSE serviceCall[c]
    <2>1. /\ serviceCall[c].status = call[c].status
          /\ serviceCall[c].provider = call[c].provider
          /\ serviceCall[c].credential = call[c].credential
      BY DEF serviceCall
    <2>2. CASE call[c].status = "waiting" /\ call[c].attempt = a
      <3>1. call'[c] = CallRecord(status, request[a].provider, request[a].credential,
                                  token)
        BY <1>1, <2>2, SettlesCall
      <3>2. serviceCall'[c] =
              Service!CallRecord(status, request[a].provider, request[a].credential, token)
        BY <3>1 DEF serviceCall, CallRecord, Service!CallRecord
      <3> QED
        BY <1>4, <2>1, <2>2, <3>2
    <2>3. CASE ~(call[c].status = "waiting" /\ call[c].attempt = a)
      <3>1. call'[c] = call[c]
        BY <1>1, <2>3, SettlesCall
      <3>2. serviceCall'[c] = serviceCall[c]
        BY <3>1 DEF serviceCall
      <3> QED
        BY <1>4, <2>1, <2>3, <3>2
    <2> QED
      BY <2>2, <2>3
  <1> QED
    BY <1>5 DEF serviceCall, Service!Settled

LEMMA HeadersMap ==
  ASSUME TypeOK, CacheInv, NEW c \in Call, NEW p \in Provider, NEW k \in Credential,
         GetHeaders(c, p, k)
  PROVE  Service!Next
  <1>1. UNCHANGED <<tarpit, tarpit401, memoized401, expired>> /\ call[c].status # "waiting"
    BY DEF GetHeaders, GetFromMemory, GetFromFile, RefusedUnasked, Joins, Begins, Misses,
           Asks, providerVars, diskVars
  <1>2. UNCHANGED blockedBy
    BY <1>1 DEF blockedBy
  <1>3. validTokens' = validTokens
    <2>1. CASE UNCHANGED request
      BY <1>1, <2>1, ValidFrame
    <2>2. ASSUME NEW a \in Attempt, Begins(c, p, k, a) PROVE validTokens' = validTokens
      <3>1. request[a].phase = "unused"
            /\ request' = [request EXCEPT ![a] =
                             RequestRecord("delayed", p, k, Backoff(p))]
        BY <2>2 DEF Begins
      <3>2. request'[a].phase = "delayed" /\ \A b \in Attempt : b # a => request'[b] = request[b]
        BY <3>1 DEF TypeOK, RequestRecord
      <3> QED
        BY <1>1, <3>1, <3>2, ValidFrame
    <2> QED
      BY <2>1, <2>2
      DEF GetHeaders, GetFromMemory, GetFromFile, RefusedUnasked, Joins
  <1>4. serviceCall[c].status # "waiting"
    BY <1>1 DEF serviceCall
  <1>5. ASSUME NEW t \in Attempt, t \notin expired, GrantedFor(t, k),
               call' = [call EXCEPT ![c] = CallRecord("token", p, k, t)]
        PROVE  Service!Next
    <2>1. t \in validTokens[k]
      BY <1>5 DEF validTokens, GrantedFor
    <2>2. serviceCall' = [serviceCall EXCEPT ![c] = Service!CallRecord("token", p, k, t)]
      BY <1>5, TokenMaps
    <2>3. Service!Reuse(c, p, k, t)
      BY <1>1, <1>2, <1>3, <1>4, <2>1, <2>2 DEF Service!Reuse, blockedBy
    <2> QED
      BY <2>3 DEF Service!Next
  <1>6. CASE GetFromMemory(c, p, k)
    BY <1>5, <1>6 DEF GetFromMemory, CachedInMemory, Fresh, CacheInv, GrantedFor
  <1>7. CASE GetFromFile(c, p, k)
    BY <1>5, <1>7 DEF GetFromFile, CachedInFile, Fresh, CacheInv, GrantedFor
  <1>8. CASE RefusedUnasked(c, p, k)
    <2>1. serviceCall' =
            [serviceCall EXCEPT ![c] = Service!CallRecord("refused", p, k, NoAttempt)]
      BY <1>8, CallMaps DEF RefusedUnasked
    <2>2. k \in blockedBy[p]
      BY <1>8 DEF RefusedUnasked, Tarpitted, blockedBy
    <2>3. Service!RefuseUnasked(c, p, k)
      BY <1>1, <1>2, <1>3, <1>4, <2>1, <2>2 DEF Service!RefuseUnasked, blockedBy
    <2> QED
      BY <2>3 DEF Service!Next
  <1>9. ASSUME NEW a, call' = [call EXCEPT ![c] = CallRecord("waiting", p, k, a)]
        PROVE  Service!Next
    <2>1. serviceCall' =
            [serviceCall EXCEPT ![c] = Service!CallRecord("waiting", p, k, NoAttempt)]
      <3>1. "waiting" # "token"
        OBVIOUS
      <3> QED
        BY <1>9, <3>1, CallMaps
    <2>2. Service!Ask(c, p, k)
      BY <1>1, <1>2, <1>3, <1>4, <2>1 DEF Service!Ask, blockedBy
    <2> QED
      BY <2>2 DEF Service!Next
  <1> QED
    BY <1>6, <1>7, <1>8, <1>9 DEF GetHeaders, Joins, Begins

LEMMA AnswersMap ==
  ASSUME TypeOK, CoalesceInv, CacheInv, NEW a \in Attempt, Answers(a),
         NEW p \in Provider, NEW k \in Credential,
         p = request[a].provider, k = request[a].credential
  PROVE  Service!Next
  <1>1. p \in Provider /\ k \in Credential /\ request[a].phase = "sent"
    BY DEF Answers, Granted, Refused, Fails, Settles, TypeOK
  <1>2. \A b \in Attempt : b # a => request'[b] = request[b]
    BY SettlesRequest DEF Answers, Granted, Refused, Fails
  <1>3. CASE Granted(a)
    <2>1. /\ request'[a].phase = "granted" /\ request'[a].credential = k
          /\ UNCHANGED <<tarpit, tarpit401, expired>> /\ a \notin expired
      BY <1>1, <1>3, SettlesRequest DEF Granted, CacheInv
    <2>2. serviceCall' = Service!Settled(p, k, "token", a)
      BY <1>3, SharedMaps DEF Granted
    <2>3. \A other \in Credential : a \notin validTokens[other]
      BY <1>1 DEF validTokens
    <2>4. validTokens' = [validTokens EXCEPT ![k] = @ \cup {a}]
      <3>1. ASSUME NEW l \in Credential
            PROVE  validTokens'[l] =
                     IF l = k THEN validTokens[l] \cup {a} ELSE validTokens[l]
        BY <1>1, <1>2, <2>1 DEF validTokens
      <3> QED
        BY <3>1, MappedFunctions
    <2>5. memoized401' = [memoized401 EXCEPT ![p] = @ \ {k}]
      BY <1>3 DEF Granted
    <2>6. blockedBy' \in {blockedBy, [blockedBy EXCEPT ![p] = @ \ {k}]}
      <3>1. \A q \in Provider : memoized401'[q] =
              IF q = p THEN memoized401[q] \ {k} ELSE memoized401[q]
        BY <2>5 DEF TypeOK
      <3>2. CASE k \in tarpit401[p]
        <4>1. \A q \in Provider : blockedBy'[q] = blockedBy[q]
          BY <1>1, <2>1, <3>1, <3>2 DEF blockedBy
        <4>2. blockedBy' = blockedBy
          BY <4>1 DEF blockedBy
        <4> QED
          BY <4>2
      <3>3. CASE k \notin tarpit401[p]
        <4>1. \A q \in Provider : blockedBy'[q] =
                IF q = p THEN blockedBy[q] \ {k} ELSE blockedBy[q]
          BY <1>1, <2>1, <3>1, <3>3 DEF blockedBy
        <4>2. blockedBy' = [blockedBy EXCEPT ![p] = @ \ {k}]
          BY <4>1, MappedFunctions
        <4> QED
          BY <4>2
      <3> QED
        BY <3>2, <3>3
    <2>7. Service!Grant(p, k, a)
      BY <2>1, <2>2, <2>3, <2>4, <2>6 DEF Service!Grant, blockedBy
    <2> QED
      BY <1>1, <2>7 DEF Service!Next
  <1>4. CASE Refused(a) \/ Fails(a)
    <2>1. request'[a].phase = "over" /\ UNCHANGED expired
      BY <1>4, SettlesRequest DEF Refused, Fails
    <2>2. validTokens' = validTokens
      BY <1>1, <1>2, <2>1, ValidFrame
    <2>3. CASE Refused(a)
      <3>1. serviceCall' = Service!Settled(p, k, "refused", NoAttempt)
        BY <2>3, SharedMaps DEF Refused
      <3>2. memoized401' = [memoized401 EXCEPT ![p] = @ \cup {k}]
            /\ (TarpitWritten(p, k) \/ TarpitUnwritten(p, k))
        BY <2>3 DEF Refused
      <3>3. \A q \in Provider : memoized401'[q] =
              IF q = p THEN memoized401[q] \cup {k} ELSE memoized401[q]
        BY <3>2 DEF TypeOK
      <3>4. \/ \A q \in Provider : tarpit401'[q] = tarpit401[q]
            \/ \A q \in Provider : tarpit401'[q] =
                 IF q = p THEN tarpit401[q] \cup {k} ELSE tarpit401[q]
        BY <3>2 DEF TypeOK, TarpitWritten, TarpitUnwritten
      <3>5. \A q \in Provider : blockedBy'[q] =
              IF q = p THEN blockedBy[q] \cup {k} ELSE blockedBy[q]
        BY <3>3, <3>4 DEF blockedBy
      <3>6. blockedBy' = [blockedBy EXCEPT ![p] = @ \cup {k}]
        BY <3>5, MappedFunctions
      <3>7. tarpit' \in {tarpit, tarpit \cup {k}}
        BY <3>2 DEF TarpitWritten, TarpitUnwritten
      <3>8. Service!Refuse(p, k)
        BY <2>2, <3>1, <3>6, <3>7 DEF Service!Refuse, blockedBy
      <3>9. \E q \in Provider, l \in Credential : Service!Refuse(q, l)
        BY <1>1, <3>8
      <3> QED
        BY <3>9 DEF Service!Next
    <2>4. CASE Fails(a)
      <3>1. serviceCall' = Service!Settled(p, k, "failed", NoAttempt)
        BY <2>4, SharedMaps DEF Fails
      <3>2. UNCHANGED blockedBy /\ UNCHANGED tarpit
        BY <2>4 DEF Fails, blockedBy, diskVars
      <3>3. Service!Fail(p, k)
        BY <2>2, <3>1, <3>2 DEF Service!Fail, blockedBy
      <3> QED
        BY <1>1, <3>3 DEF Service!Next
    <2> QED
      BY <1>4, <2>3, <2>4
  <1> QED
    BY <1>3, <1>4 DEF Answers

LEMMA RestartMaps ==
  ASSUME TypeOK, RefusedInv, NEW P \in Processes, Restart(P)
  PROVE  Service!Next
  <1>1. UNCHANGED <<tarpit, expired>>
    BY DEF Restart
  <1>2. validTokens' = validTokens
    BY <1>1, RestartFacts, ValidFrame
  <1>3. serviceCall' =
          [c \in Call |->
             IF serviceCall[c].status = "waiting" /\ serviceCall[c].provider \in P
             THEN [serviceCall[c] EXCEPT !.status = "idle"]
             ELSE serviceCall[c]]
    <2>1. ASSUME NEW c \in Call
          PROVE  serviceCall'[c] =
                   IF serviceCall[c].status = "waiting" /\ serviceCall[c].provider \in P
                   THEN [serviceCall[c] EXCEPT !.status = "idle"]
                   ELSE serviceCall[c]
      <3>1. CASE call[c].status = "waiting" /\ call[c].provider \in P
        <4>1. /\ call'[c].status = "idle"
              /\ call'[c].provider = call[c].provider
              /\ call'[c].credential = call[c].credential
          BY <3>1, RestartFacts
        <4> QED
          BY <3>1, <4>1 DEF serviceCall
      <3>2. CASE ~(call[c].status = "waiting" /\ call[c].provider \in P)
        <4>1. call'[c] = call[c]
          BY <3>2, RestartFacts
        <4> QED
          BY <3>2, <4>1 DEF serviceCall
      <3> QED
        BY <3>1, <3>2
    <2> QED
      BY <2>1 DEF serviceCall
  <1> DEFINE kept == [p \in Provider |-> LoadsTarpit(p)]
  <1>4. kept \in [Provider -> SUBSET tarpit]
    BY DEF LoadsTarpit
  <1>5. blockedBy' = [p \in Provider |-> IF p \in P THEN kept[p] ELSE blockedBy[p]]
    <2>1. \A p \in Provider :
            memoized401'[p] = IF p \in P THEN {} ELSE memoized401[p]
      BY DEF Restart
    <2> QED
      BY <2>1, RestartFacts DEF blockedBy
  <1>6. Service!Restart(P)
    <2>1. \E kept_1 \in [Provider -> SUBSET tarpit] :
            blockedBy' = [p \in Provider |-> IF p \in P THEN kept_1[p] ELSE blockedBy[p]]
      BY <1>4, <1>5
    <2> QED
      BY <1>1, <1>2, <1>3, <2>1 DEF Service!Restart, blockedBy
  <1> QED
    BY <1>6 DEF Service!Next

LEMMA StepMaps ==
  TypeOK /\ CoalesceInv /\ RefusedInv /\ CacheInv /\ [Next]_vars
    => [Service!Next]_(Service!vars)
  <1> SUFFICES ASSUME TypeOK, CoalesceInv, RefusedInv, CacheInv, [Next]_vars
               PROVE  Service!Next \/ UNCHANGED Service!vars
    BY DEF Service!vars
  <1>1. ASSUME UNCHANGED <<call, validTokens, tarpit401, memoized401, tarpit>>
        PROVE  UNCHANGED Service!vars
    BY <1>1 DEF Service!vars, serviceCall
  <1>2. ASSUME UNCHANGED <<request, expired>> PROVE validTokens' = validTokens
    BY <1>2 DEF validTokens
  <1>3. ASSUME NEW c \in Call, NEW p \in Provider, NEW k \in Credential,
               GetHeaders(c, p, k)
        PROVE  Service!Next
    BY <1>3, HeadersMap
  <1>4. ASSUME NEW a \in Attempt, Answers(a) PROVE Service!Next
    <2>1. PICK p \in Provider, k \in Credential :
            p = request[a].provider /\ k = request[a].credential
      BY DEF TypeOK
    <2> QED
      BY <1>4, <2>1, AnswersMap
  <1>5. ASSUME NEW a \in Attempt, Sends(a) PROVE UNCHANGED Service!vars
    <2>1. /\ request[a].phase = "delayed" /\ request'[a].phase = "sent"
          /\ \A b \in Attempt : b # a => request'[b] = request[b]
      BY <1>5 DEF Sends, TypeOK, RequestRecord
    <2>2. UNCHANGED <<call, tarpit401, memoized401, tarpit, expired>>
      BY <1>5 DEF Sends, providerVars, diskVars
    <2>3. validTokens' = validTokens
      BY <2>1, <2>2, ValidFrame
    <2> QED
      BY <1>1, <2>2, <2>3
  <1>6. ASSUME NEW a \in Attempt, FileStep(a) PROVE UNCHANGED Service!vars
    BY <1>1, <1>2, <1>6 DEF FileStep, OpensFile, WritesFile, WriteFails, providerVars
  <1>7. ASSUME NEW a \in Attempt, Expires(a) PROVE Service!Next
    <2>1. expired' = expired \cup {a}
          /\ UNCHANGED <<call, request, tarpit401, memoized401, tarpit>>
      BY <1>7 DEF Expires, providerVars, diskVars
    <2>2. validTokens' = [k \in Credential |-> validTokens[k] \ {a}]
      BY <2>1 DEF validTokens
    <2>3. UNCHANGED serviceCall /\ UNCHANGED blockedBy
      BY <2>1 DEF serviceCall, blockedBy
    <2>4. Service!Expire(a)
      BY <2>1, <2>2, <2>3 DEF Service!Expire, blockedBy
    <2> QED
      BY <2>4 DEF Service!Next
  <1>8. ASSUME NEW p \in Provider, NEW k \in Credential, CoolsDown(p, k)
        PROVE  Service!Next \/ UNCHANGED Service!vars
    <2>1. UNCHANGED <<call, request, tarpit401, tarpit, expired>>
      BY <1>8 DEF CoolsDown, diskVars
    <2>2. \A q \in Provider : memoized401'[q] =
            IF q = p THEN memoized401[q] \ {k} ELSE memoized401[q]
      BY <1>8 DEF CoolsDown, TypeOK
    <2>3. UNCHANGED serviceCall /\ UNCHANGED validTokens
      BY <1>2, <2>1 DEF serviceCall
    <2>4. CASE k \in tarpit401[p]
      <3>1. UNCHANGED blockedBy
        BY <2>1, <2>2, <2>4 DEF blockedBy
      <3> QED
        BY <2>1, <2>3, <3>1 DEF Service!vars, blockedBy
    <2>5. CASE k \notin tarpit401[p]
      <3>1. \A q \in Provider : blockedBy'[q] =
              IF q = p THEN blockedBy[q] \ {k} ELSE blockedBy[q]
        BY <2>1, <2>2, <2>5 DEF blockedBy
      <3>2. blockedBy' = [blockedBy EXCEPT ![p] = @ \ {k}]
        BY <3>1 DEF blockedBy
      <3>3. Service!Forget(p, k)
        BY <2>1, <2>3, <3>2 DEF Service!Forget, blockedBy
      <3> QED
        BY <3>3 DEF Service!Next
    <2> QED
      BY <2>4, <2>5
  <1>9. ASSUME NEW p \in Provider, FlushMemoryCache(p) \/ FlushFileCache(p)
        PROVE  UNCHANGED Service!vars
    BY <1>1, <1>2, <1>9 DEF FlushMemoryCache, FlushFileCache, providerVars, diskVars
  <1>10. ASSUME NEW P \in Processes, NEW k \in Credential, Clear401Tarpit(P, k)
         PROVE  Service!Next
    <2>1. UNCHANGED serviceCall /\ UNCHANGED validTokens /\ tarpit' = tarpit \ {k}
      BY <1>2, <1>10 DEF Clear401Tarpit, serviceCall
    <2>2. blockedBy' =
            [p \in Provider |-> IF p \in P THEN blockedBy[p] \ {k} ELSE blockedBy[p]]
      BY <1>10 DEF Clear401Tarpit, blockedBy
    <2>3. Service!Clear(P, k)
      BY <2>1, <2>2 DEF Service!Clear, blockedBy
    <2> QED
      BY <2>3 DEF Service!Next
  <1>11. ASSUME NEW P \in Processes, Restart(P) PROVE Service!Next
    BY <1>11, RestartMaps
  <1>12. CASE UNCHANGED vars
    BY <1>1, <1>2, <1>12 DEF vars, providerVars, diskVars
  <1> QED
    BY <1>3, <1>4, <1>5, <1>6, <1>7, <1>8, <1>9, <1>10, <1>11, <1>12 DEF Next

LEMMA ServiceInit == Init => Service!Init
  <1> SUFFICES ASSUME Init PROVE Service!Init
    OBVIOUS
  <1>1. PICK p \in Provider, k \in Credential :
          /\ call = [c \in Call |-> CallRecord("idle", p, k, NoAttempt)]
          /\ request = [a \in Attempt |-> RequestRecord("unused", p, k, 0)]
    BY DEF Init
  <1>2. \A c \in Call : serviceCall[c].status = "idle"
    BY <1>1 DEF serviceCall, CallRecord
  <1>3. validTokens = [l \in Credential |-> {}]
    BY <1>1 DEF validTokens, RequestRecord
  <1>4. blockedBy = [q \in Provider |-> {}] /\ tarpit = {}
    BY DEF Init, blockedBy
  <1> QED
    BY <1>2, <1>3, <1>4 DEF Service!Init, blockedBy

(* The provider implements the token service: whatever the caches, the files and
   the other processes do, a caller gets a token of its own credential that is
   valid when it gets it, an answer of the endpoint, or a refusal the endpoint
   gave before. *)
THEOREM PromiseKept == Spec => TokenPromise
  <1>1. TypeOK /\ CoalesceInv /\ RefusedInv /\ CacheInv /\ [Next]_vars
          => (TypeOK /\ CoalesceInv /\ RefusedInv /\ CacheInv)'
    BY TypeStep, CoalesceStep, RefusedStep, CacheStep
  <1> QED
    BY <1>1, TypeInit, CoalesceInit, RefusedInit, CacheInit, ServiceInit, StepMaps, PTL
    DEF Spec, TokenPromise, Service!Spec

-------------------------------------------------------------------------------
(* What a caller gets, and how its wait ends *)

(* The token of every call that gets one in this step was granted for the
   credential it asked for, and has not reached its refresh window. *)
HandsOutValid ==
  \A c \in Call : call'[c].status = "token" /\ call'[c] # call[c] =>
    /\ GrantedFor(call[c].attempt, call[c].credential)'
    /\ call'[c].attempt \notin expired'

LEMMA HandsOutStep ==
  ASSUME TypeOK, CoalesceInv, CacheInv, [Next]_vars
  PROVE  HandsOutValid
  <1>1. ASSUME NEW c \in Call, NEW p \in Provider, NEW k \in Credential,
               GetHeaders(c, p, k)
        PROVE  HandsOutValid
    <2>1. CASE GetFromMemory(c, p, k) \/ GetFromFile(c, p, k)
      <3>1. PICK a \in {tokenCache[p][k], file[k]} :
              Fresh(a) /\ call' = [call EXCEPT ![c] = CallRecord("token", p, k, a)]
        BY <2>1 DEF GetFromMemory, GetFromFile, CachedInMemory, CachedInFile
      <3>2. UNCHANGED <<request, expired>>
        BY <2>1 DEF GetFromMemory, GetFromFile
      <3>3. GrantedFor(a, k)' /\ a \notin expired'
        BY <3>1, <3>2 DEF Fresh, CacheInv, GrantedFor
      <3>4. call'[c] = CallRecord("token", p, k, a)
            /\ \A d \in Call : d # c => call'[d] = call[d]
        BY <3>1 DEF TypeOK
      <3>5. call'[c].attempt = a /\ call'[c].credential = k
        BY <3>4 DEF CallRecord
      <3> QED
        BY <3>3, <3>4, <3>5 DEF HandsOutValid, GrantedFor
    <2>2. ASSUME NEW status \in {"refused", "waiting"}, NEW a,
                 call' = [call EXCEPT ![c] = CallRecord(status, p, k, a)]
          PROVE  HandsOutValid
      <3>1. call'[c].status # "token" /\ \A d \in Call : d # c => call'[d] = call[d]
        BY <2>2 DEF TypeOK, CallRecord
      <3> QED
        BY <3>1 DEF HandsOutValid
    <2> QED
      BY <1>1, <2>1, <2>2 DEF GetHeaders, RefusedUnasked, Joins, Begins
  <1>2. ASSUME NEW a \in Attempt, Granted(a) PROVE HandsOutValid
    <2>1. Settles(a, "granted", "token", a) /\ UNCHANGED expired
      BY <1>2 DEF Granted
    <2>2. /\ request[a].phase = "sent"
          /\ request'[a].phase = "granted"
          /\ request'[a].credential = request[a].credential
      BY <2>1, SettlesRequest
    <2>3. GrantedFor(a, request[a].credential)' /\ a \notin expired'
      <3>1. a \notin expired
        BY <2>2 DEF CacheInv
      <3> QED
        BY <2>1, <2>2, <3>1 DEF GrantedFor
    <2>4. \A c \in Call :
            call'[c] = call[c]
              \/ call'[c] = CallRecord("token", request[a].provider,
                                       request[a].credential, a)
      <3>1. "token" \in CallStatuses
        BY DEF CallStatuses
      <3> QED
        BY <2>1, <3>1, SettlesCall
    <2>5. ASSUME NEW c \in Call, call'[c] # call[c]
          PROVE  call'[c].attempt = a /\ call'[c].credential = request[a].credential
      BY <2>4, <2>5 DEF CallRecord
    <2> QED
      BY <2>2, <2>3, <2>5 DEF HandsOutValid, GrantedFor
  <1>3. ASSUME NEW a \in Attempt, Refused(a) \/ Fails(a) PROVE HandsOutValid
    <2>1. PICK status \in {"refused", "failed"} : Settles(a, "over", status, NoAttempt)
      BY <1>3 DEF Refused, Fails
    <2>2. status \in CallStatuses
      BY DEF CallStatuses
    <2>3. \A c \in Call :
            call'[c] = call[c]
              \/ call'[c] = CallRecord(status, request[a].provider,
                                       request[a].credential, NoAttempt)
      BY <2>1, <2>2, SettlesCall
    <2>4. \A c \in Call : call'[c] = call[c] \/ call'[c].status # "token"
      BY <2>3 DEF CallRecord
    <2> QED
      BY <2>4 DEF HandsOutValid
  <1>4. ASSUME NEW P \in Processes, Restart(P) PROVE HandsOutValid
    <2>1. \A c \in Call : call'[c] = call[c] \/ call'[c].status = "idle"
      BY <1>4, RestartFacts
    <2> QED
      BY <2>1 DEF HandsOutValid
  <1>5. CASE UNCHANGED call
    BY <1>5 DEF HandsOutValid
  <1> QED
    BY <1>1, <1>2, <1>3, <1>4, <1>5
    DEF Next, Answers, Sends, FileStep, OpensFile, WritesFile, WriteFails, Expires,
        CoolsDown, FlushMemoryCache, FlushFileCache, Clear401Tarpit, vars

(* No caller is handed a token of another credential or one in its refresh
   window, by the memory cache, by a file that another process writes, or by the
   request it shares. *)
THEOREM TokensAreValid == Spec => [][HandsOutValid]_vars
  <1>1. TypeOK /\ CoalesceInv /\ CacheInv /\ [Next]_vars => [HandsOutValid]_vars
    BY HandsOutStep
  <1>2. TypeOK /\ CoalesceInv /\ CacheInv /\ [Next]_vars
          => (TypeOK /\ CoalesceInv /\ CacheInv)'
    BY TypeStep, CoalesceStep, CacheStep
  <1> QED
    BY <1>1, <1>2, TypeInit, CoalesceInit, CacheInit, PTL DEF Spec

(* A call that waits stays with the request it waits for, which is under way and
   for its own provider and credential; it leaves by that request's answer, or
   with its process. *)
LeavesByItsAnswer ==
  \A c \in Call : call[c].status = "waiting" =>
    LET a == call[c].attempt
    IN /\ request[a].provider = call[c].provider
       /\ request[a].credential = call[c].credential
       /\ \/ call'[c] = call[c] /\ Pending(a)'
          \/ Answers(a) /\ call'[c].status \in {"token", "refused", "failed"}
          \/ \E P \in Processes : call[c].provider \in P /\ Restart(P)

LEMMA LeavesStep ==
  ASSUME TypeOK, CoalesceInv, [Next]_vars
  PROVE  LeavesByItsAnswer
  <1> SUFFICES ASSUME NEW c \in Call, call[c].status = "waiting"
               PROVE  /\ request[call[c].attempt].provider = call[c].provider
                      /\ request[call[c].attempt].credential = call[c].credential
                      /\ \/ call'[c] = call[c] /\ Pending(call[c].attempt)'
                         \/ /\ Answers(call[c].attempt)
                            /\ call'[c].status \in {"token", "refused", "failed"}
                         \/ \E P \in Processes : call[c].provider \in P /\ Restart(P)
    BY DEF LeavesByItsAnswer
  <1> DEFINE a == call[c].attempt
  <1>1. call[c].provider \in Provider /\ call[c].credential \in Credential
        /\ a \in Attempt
    BY DEF TypeOK, CoalesceInv
  <1>2. request[a].provider = call[c].provider
        /\ request[a].credential = call[c].credential
    BY <1>1 DEF CoalesceInv
  <1>3. CoalesceInv' /\ TypeOK'
    BY TypeStep, CoalesceStep
  <1>4. ASSUME call'[c] = call[c] PROVE Pending(a)'
    BY <1>1, <1>3, <1>4 DEF CoalesceInv, Pending
  <1>5. ASSUME NEW d \in Call, NEW p \in Provider, NEW k \in Credential,
               GetHeaders(d, p, k)
        PROVE  call'[c] = call[c]
    <2>1. d # c /\ \E r : call' = [call EXCEPT ![d] = r]
      BY <1>5 DEF GetHeaders, GetFromMemory, GetFromFile, RefusedUnasked, Joins, Begins,
                  Misses, Asks
    <2> QED
      BY <2>1 DEF TypeOK
  <1>6. ASSUME NEW b \in Attempt, Answers(b)
        PROVE  IF b = a THEN call'[c].status \in {"token", "refused", "failed"}
                        ELSE call'[c] = call[c]
    <2>1. PICK phase \in {"granted", "over"}, status \in {"token", "refused", "failed"},
               token \in Attempt \cup {NoAttempt} : Settles(b, phase, status, token)
      <3>1. \/ Settles(b, "granted", "token", b)
            \/ Settles(b, "over", "refused", NoAttempt)
            \/ Settles(b, "over", "failed", NoAttempt)
        BY <1>6 DEF Answers, Granted, Refused, Fails
      <3> QED
        BY <3>1
    <2>2. status \in CallStatuses
      BY DEF CallStatuses
    <2>3. call'[c] = IF call[c].status = "waiting" /\ call[c].attempt = b
                     THEN CallRecord(status, request[b].provider,
                                     request[b].credential, token)
                     ELSE call[c]
      BY <2>1, <2>2, SettlesCall
    <2> QED
      BY <2>3 DEF CallRecord
  <1>7. ASSUME NEW P \in Processes, Restart(P)
        PROVE  call[c].provider \in P \/ call'[c] = call[c]
    BY <1>7, RestartFacts
  <1>8. ASSUME UNCHANGED call PROVE call'[c] = call[c]
    BY <1>8
  <1> QED
    BY <1>2, <1>4, <1>5, <1>6, <1>7, <1>8
    DEF Next, Sends, FileStep, OpensFile, WritesFile, WriteFails, Expires,
        CoolsDown, FlushMemoryCache, FlushFileCache, Clear401Tarpit, vars

(* No caller is forgotten: a call that waits is for ever with a request that is
   under way and its own, until that request is answered or its process dies,
   whatever is flushed, cleared, joined or retried.  CallsSettle adds that the
   endpoint answers. *)
THEOREM NobodyIsForgotten == Spec => [][LeavesByItsAnswer]_vars
  <1>1. TypeOK /\ CoalesceInv /\ [Next]_vars => [LeavesByItsAnswer]_vars
    BY LeavesStep
  <1>2. TypeOK /\ CoalesceInv /\ [Next]_vars => (TypeOK /\ CoalesceInv)'
    BY TypeStep, CoalesceStep
  <1> QED
    BY <1>1, <1>2, TypeInit, CoalesceInit, PTL DEF Spec
===============================================================================
