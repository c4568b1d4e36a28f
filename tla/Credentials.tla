---------------------------- MODULE Credentials ----------------------------
(***************************************************************************)
(* API keys, in the database, and the state parameters of OAuth logins, in *)
(* Redis.  A state is fetched and deleted by two commands.  Keys and       *)
(* states are named by the request that created them; the time of each is  *)
(* before, at or after its expiry.                                         *)
(***************************************************************************)
EXTENDS Naturals, FiniteSets

CONSTANTS
    CredRequests,  \* requests, each performing one operation
    Scopes,        \* some of KNOWN_SCOPES
    Providers

VARIABLES
    apiKeys,     \* the api_keys table
    oauth,       \* the state rows in Redis
    ttlLost,     \* states whose row has no TTL in Redis any more
    credPc, credReq,
    retired      \* keys revoked and states used, by requests that have ended

credVars == <<apiKeys, oauth, ttlLost, credPc, credReq, retired>>

Times == {"before", "at", "after", "never"}
ApiKey == [scopes : SUBSET Scopes, revoked : BOOLEAN, time : Times]
OAuthState == [provider : Providers, challenge : BOOLEAN, time : Times \ {"at", "never"}]

\* late: the credential was retired when the request began.
NoCred == [on |-> {}, row |-> {}, late |-> FALSE, answer |-> "none"]

CredentialsTypeOK ==
    /\ DOMAIN apiKeys \subseteq CredRequests /\ \A k \in DOMAIN apiKeys : apiKeys[k] \in ApiKey
    /\ DOMAIN oauth \subseteq CredRequests /\ \A s \in DOMAIN oauth : oauth[s] \in OAuthState
    /\ ttlLost \subseteq CredRequests /\ retired \subseteq CredRequests
    /\ credPc \in [CredRequests -> {"idle", "revoke", "consume", "judge", "prune", "done"}]
    /\ \A r \in CredRequests : credReq[r].answer \in {"none", "admitted", "refused"}

-----------------------------------------------------------------------------

CredGoto(r, step) == credPc' = [credPc EXCEPT ![r] = step]
CredAnswer(r, a) ==
    /\ CredGoto(r, "done")
    /\ credReq' = [credReq EXCEPT ![r] = [NoCred EXCEPT !.answer = a, !.late = credReq[r].late]]
WithRow(f, x, v) == [y \in DOMAIN f \cup {x} |-> IF y = x THEN v ELSE f[y]]
WithoutRow(f, x) == [y \in DOMAIN f \ {x} |-> f[y]]

\* create_api_key_endpoint: known scopes, and an expiry in the future or none.
CreateKey(r, scopes, t) ==
    /\ credPc[r] = "idle"
    /\ apiKeys' = WithRow(apiKeys, r, [scopes |-> scopes, revoked |-> FALSE, time |-> t])
    /\ CredAnswer(r, "none")
    /\ UNCHANGED <<oauth, ttlLost, retired>>

\* _key_status, for the list of keys: an expiry that is now has passed.
KeyStatus(k) ==
    CASE apiKeys[k].revoked                    -> "revoked"
      [] apiKeys[k].time \in {"at", "after"}   -> "expired"
      [] OTHER                                 -> "active"

\* revoke_key
RevokeRead(r, k) ==
    /\ credPc[r] = "idle" /\ k \in DOMAIN apiKeys
    /\ CredGoto(r, "revoke") /\ credReq' = [credReq EXCEPT ![r].on = {k}]
    /\ UNCHANGED <<apiKeys, oauth, ttlLost, retired>>

RevokeCommit(r) ==
    /\ credPc[r] = "revoke"
    /\ apiKeys' = [k \in DOMAIN apiKeys |->
                     IF k \in credReq[r].on THEN [apiKeys[k] EXCEPT !.revoked = TRUE] ELSE apiKeys[k]]
    /\ retired' = retired \cup credReq[r].on
    /\ CredAnswer(r, "none")
    /\ UNCHANGED <<oauth, ttlLost>>

\* get_current_user_or_service: a key is refused once its expiry is past, and
\* require_scope asks for the scope of the route.
KeyAdmits(k, scope) ==
    /\ ~ apiKeys[k].revoked
    /\ apiKeys[k].time # "after"
    /\ scope \in apiKeys[k].scopes

UseKey(r, k, scope) ==
    /\ credPc[r] = "idle"
    /\ credPc' = [credPc EXCEPT ![r] = "done"]
    /\ credReq' = [credReq EXCEPT ![r].late = (k \in retired),
                     ![r].answer = IF k \in DOMAIN apiKeys /\ KeyAdmits(k, scope) THEN "admitted" ELSE "refused"]
    /\ UNCHANGED <<apiKeys, oauth, ttlLost, retired>>

\* authorize: the redirect_uri is on the allowlist.
CreateState(r, provider, challenge) ==
    /\ credPc[r] = "idle"
    /\ oauth' = WithRow(oauth, r, [provider |-> provider, challenge |-> challenge, time |-> "before"])
    /\ CredAnswer(r, "none")
    /\ UNCHANGED <<apiKeys, ttlLost, retired>>

\* callback, consume_state: GET
GetState(r, s) ==
    /\ credPc[r] = "idle"
    /\ IF s \in DOMAIN oauth
       THEN /\ CredGoto(r, "consume")
            /\ credReq' = [credReq EXCEPT ![r].on = {s}, ![r].row = {oauth[s]}, ![r].late = (s \in retired)]
       ELSE /\ CredGoto(r, "done")
            /\ credReq' = [credReq EXCEPT ![r].late = (s \in retired), ![r].answer = "refused"]
    /\ UNCHANGED <<apiKeys, oauth, ttlLost, retired>>

\* The state is left in Redis until it expires.
KeepState(r) == credPc[r] = "consume" /\ CredGoto(r, "judge") /\ UNCHANGED <<apiKeys, oauth, ttlLost, credReq, retired>>

\* consume_state: DELETE
DeleteState(r) ==
    /\ credPc[r] = "consume"
    /\ oauth' = [s \in DOMAIN oauth \ credReq[r].on |-> oauth[s]]
    /\ CredGoto(r, "judge")
    /\ UNCHANGED <<apiKeys, ttlLost, credReq, retired>>

\* _is_expired on the row that was read.  Then callback: the provider, and the
\* verifier, given exactly when there is a challenge, and matching it.
CallbackAdmits(row, provider, verifier) ==
    /\ row.time = "before"
    /\ row.provider = provider
    /\ row.challenge <=> verifier = "matching"
    /\ ~ row.challenge => verifier = "none"

JudgeCallback(r, provider, verifier) ==
    /\ credPc[r] = "judge"
    /\ \E row \in credReq[r].row :
         CredAnswer(r, IF CallbackAdmits(row, provider, verifier) THEN "admitted" ELSE "refused")
    /\ retired' = retired \cup credReq[r].on
    /\ UNCHANGED <<apiKeys, oauth, ttlLost>>

\* prune_expired_states, for one row of the scan: GET, DELETE if it is expired.
PruneGet(r, s) ==
    /\ credPc[r] = "idle" /\ s \in DOMAIN oauth
    /\ IF oauth[s].time = "before"
       THEN CredAnswer(r, "none")
       ELSE CredGoto(r, "prune") /\ credReq' = [credReq EXCEPT ![r].on = {s}]
    /\ UNCHANGED <<apiKeys, oauth, ttlLost, retired>>

PruneDelete(r) ==
    /\ credPc[r] = "prune"
    /\ oauth' = [s \in DOMAIN oauth \ credReq[r].on |-> oauth[s]]
    /\ CredAnswer(r, "none")
    /\ UNCHANGED <<apiKeys, ttlLost, retired>>

\* A backend that restores a row without its TTL.
LoseTtl(s) ==
    /\ ttlLost' = ttlLost \cup {s}
    /\ UNCHANGED <<apiKeys, oauth, credPc, credReq, retired>>

\* Redis removes an expired row, unless it lost the TTL.
OAuthStateExpires(s) ==
    /\ oauth[s].time = "before"
    /\ oauth' = IF s \in ttlLost THEN [oauth EXCEPT ![s].time = "after"] ELSE WithoutRow(oauth, s)
    /\ UNCHANGED <<apiKeys, ttlLost, credPc, credReq, retired>>

KeyAges(k) ==
    /\ \/ apiKeys[k].time = "before" /\ apiKeys' = [apiKeys EXCEPT ![k].time = "at"]
       \/ apiKeys[k].time = "at" /\ apiKeys' = [apiKeys EXCEPT ![k].time = "after"]
    /\ UNCHANGED <<oauth, ttlLost, credPc, credReq, retired>>

CredCrash(r) ==
    /\ credPc[r] \notin {"idle", "done"}
    /\ CredAnswer(r, "none")
    /\ UNCHANGED <<apiKeys, oauth, ttlLost, retired>>

CredentialsInit ==
    /\ apiKeys = [k \in {} |-> NoCred] /\ oauth = [s \in {} |-> NoCred] /\ ttlLost = {}
    /\ credPc = [r \in CredRequests |-> "idle"] /\ credReq = [r \in CredRequests |-> NoCred]
    /\ retired = {}

CredStep(r) ==
    \/ \E scopes \in SUBSET Scopes, t \in {"before", "never"} : CreateKey(r, scopes, t)
    \/ \E p \in Providers, c \in BOOLEAN : CreateState(r, p, c)
    \/ \E x \in CredRequests :
         RevokeRead(r, x) \/ GetState(r, x) \/ PruneGet(r, x) \/ \E scope \in Scopes : UseKey(r, x, scope)
    \/ \E p \in Providers, v \in {"none", "matching", "other"} : JudgeCallback(r, p, v)
    \/ RevokeCommit(r) \/ DeleteState(r) \/ PruneDelete(r) \/ CredCrash(r)

CredentialsNext ==
    \/ \E r \in CredRequests : CredStep(r)
    \/ \E s \in DOMAIN oauth : LoseTtl(s) \/ OAuthStateExpires(s)
    \/ \E k \in DOMAIN apiKeys : KeyAges(k)

CredentialsSpec == CredentialsInit /\ [][CredentialsNext]_credVars

-----------------------------------------------------------------------------

\* A key whose revocation was answered, and a state whose callback was
\* answered, whatever the answer, admit no request that begins afterwards;
\* and a key that the list shows as active is admitted for its scopes
\* (revoke_key, consume_state, _key_status).
RetiredIsRefused ==
    /\ \A r \in CredRequests : credReq[r].late => credReq[r].answer # "admitted"
    /\ \A k \in DOMAIN apiKeys : KeyStatus(k) = "active" => \A s \in apiKeys[k].scopes : KeyAdmits(k, s)

=============================================================================
