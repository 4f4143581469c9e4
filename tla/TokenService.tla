----------------------------- MODULE TokenService -----------------------------
(***************************************************************************)
(* What an OAuth provider promises to the callers of getHeaders            *)
(* (IHeadersProvider.ts): a call gets a token of its own credential that   *)
(* is valid when it gets it, or the refusal or failure of the endpoint;    *)
(* calls that ask for one credential while it is asked for share one       *)
(* answer; and a credential is refused without asking only after the       *)
(* endpoint has refused it, until it is cleared (OAuthProvider.ts:862).    *)
(***************************************************************************)
EXTENDS Naturals

CONSTANTS
  Call,        \* calls of getHeaders
  Provider,    \* provider objects
  Processes,   \* the processes, each the set of the providers it holds
  Credential,  \* a client id with an audience
  Token,
  NoToken

VARIABLES
  call,       \* the state of each call
  valid,      \* unexpired tokens granted for each credential
  blocked,    \* credentials each provider may refuse by itself
  posted      \* refusals that survive a restart

vars == <<call, valid, blocked, posted>>

Statuses == {"idle", "waiting", "token", "refused", "failed"}

CallRecord(status, p, k, t) ==
  [status |-> status, provider |-> p, credential |-> k, token |-> t]

(* Every call that waits for an answer to k has it. *)
Settled(p, k, status, t) ==
  [c \in Call |->
    IF /\ call[c].status = "waiting"
       /\ call[c].provider = p
       /\ call[c].credential = k
    THEN CallRecord(status, p, k, t)
    ELSE call[c]]

Init ==
  /\ \A c \in Call : call[c].status = "idle"
  /\ valid = [k \in Credential |-> {}]
  /\ blocked = [p \in Provider |-> {}]
  /\ posted = {}

Ask(c, p, k) ==
  /\ call[c].status # "waiting"
  /\ call' = [call EXCEPT ![c] = CallRecord("waiting", p, k, NoToken)]
  /\ UNCHANGED <<valid, blocked, posted>>

Reuse(c, p, k, t) ==
  /\ call[c].status # "waiting"
  /\ t \in valid[k]
  /\ call' = [call EXCEPT ![c] = CallRecord("token", p, k, t)]
  /\ UNCHANGED <<valid, blocked, posted>>

RefuseUnasked(c, p, k) ==
  /\ call[c].status # "waiting"
  /\ k \in blocked[p]
  /\ call' = [call EXCEPT ![c] = CallRecord("refused", p, k, NoToken)]
  /\ UNCHANGED <<valid, blocked, posted>>

Grant(p, k, t) ==
  /\ \A other \in Credential : t \notin valid[other]
  /\ call' = Settled(p, k, "token", t)
  /\ valid' = [valid EXCEPT ![k] = @ \cup {t}]
  /\ blocked' \in {blocked, [blocked EXCEPT ![p] = @ \ {k}]}
  /\ UNCHANGED posted

Refuse(p, k) ==
  /\ call' = Settled(p, k, "refused", NoToken)
  /\ blocked' = [blocked EXCEPT ![p] = @ \cup {k}]
  /\ posted' \in {posted, posted \cup {k}}
  /\ UNCHANGED valid

Fail(p, k) ==
  /\ call' = Settled(p, k, "failed", NoToken)
  /\ UNCHANGED <<valid, blocked, posted>>

Expire(t) ==
  /\ valid' = [k \in Credential |-> valid[k] \ {t}]
  /\ UNCHANGED <<call, blocked, posted>>

(* The cooldown of a refusal is over. *)
Forget(p, k) ==
  /\ blocked' = [blocked EXCEPT ![p] = @ \ {k}]
  /\ UNCHANGED <<call, valid, posted>>

Clear(P, k) ==
  /\ blocked' = [p \in Provider |->
                   IF p \in P THEN blocked[p] \ {k} ELSE blocked[p]]
  /\ posted' = posted \ {k}
  /\ UNCHANGED <<call, valid>>

(* A process forgets its calls and remembers no more than was posted. *)
Restart(P) ==
  /\ call' = [c \in Call |->
                IF call[c].status = "waiting" /\ call[c].provider \in P
                THEN [call[c] EXCEPT !.status = "idle"]
                ELSE call[c]]
  /\ \E kept \in [Provider -> SUBSET posted] :
       blocked' = [p \in Provider |-> IF p \in P THEN kept[p] ELSE blocked[p]]
  /\ UNCHANGED <<valid, posted>>

Next ==
  \/ \E c \in Call, p \in Provider, k \in Credential :
       \/ Ask(c, p, k)
       \/ RefuseUnasked(c, p, k)
       \/ \E t \in Token : Reuse(c, p, k, t)
  \/ \E p \in Provider, k \in Credential :
       \/ Refuse(p, k)
       \/ Fail(p, k)
       \/ Forget(p, k)
       \/ \E t \in Token : Grant(p, k, t)
  \/ \E t \in Token : Expire(t)
  \/ \E P \in Processes :
       \/ Restart(P)
       \/ \E k \in Credential : Clear(P, k)

Spec == Init /\ [][Next]_vars
===============================================================================
