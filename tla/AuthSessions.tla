---------------------------- MODULE AuthSessions ----------------------------
(***************************************************************************)
(* Accounts, token families and sessions of one email address: login,      *)
(* access, refresh, logout, logout-all, revocation, erasure and clean-up,  *)
(* run concurrently by requests whose steps are the transactions of the    *)
(* handlers.  A family or session is named by the request that inserted    *)
(* it.  A handler writes the columns it has changed, computed from the     *)
(* values its database session has loaded.                                 *)
(***************************************************************************)
EXTENDS Naturals, FiniteSets

CONSTANTS
    AuthRequests,   \* requests and task runs, each performing one operation
    FirstToken,     \* a session handed out before, with its family
    LegacyToken,    \* a session handed out before families existed
    NoToken,
    MaxFailed       \* AUTH_MAX_FAILED_ATTEMPTS

ASSUME AuthAssumption ==
    /\ MaxFailed \in Nat \ {0}
    /\ FirstToken # LegacyToken
    /\ {FirstToken, LegacyToken} \cap AuthRequests = {}
    /\ NoToken \notin AuthRequests \cup {FirstToken, LegacyToken}

VARIABLES
    account,    \* the users row of the address
    family,     \* token_families, a function from ids to rows
    session,    \* sessions
    issued,     \* sessions whose tokens were returned to the client
    revoked,    \* access tokens in the revocation list of Redis
    actAs,      \* an unexpired impersonation token of the account is about
    authPc, authReq

authVars == <<account, family, session, issued, revoked, actAs, authPc, authReq>>

Tokens == AuthRequests \cup {FirstToken, LegacyToken}

\* locked_until: NULL, passed, or ahead.
LockTimes == {"none", "past", "future"}

\* row tells a newly registered account from an erased one.
UserORM == [exists : BOOLEAN, row : Nat, failed : Nat, locked : LockTimes]
TokenFamilyORM == [seq : Nat, compromised : BOOLEAN]
SessionORM == [family : Tokens \cup {NoToken}, seq : Nat, expired : BOOLEAN]

AuthSteps == {"idle", "count", "checkLock", "lock", "reset", "family", "session",
    "answer", "gate", "loadUser", "migrate", "relabel", "check", "compromise",
    "dropFamily", "rotate", "reload", "drop", "create", "families", "pseudonym",
    "orphans", "done", "admitted"}

AuthLocals == [token : Tokens \cup {NoToken}, user : UserORM, seq : Nat,
    family : Tokens \cup {NoToken}, famSeq : Nat, erase : BOOLEAN,
    orphans : SUBSET Tokens, alive : BOOLEAN]

UserRow(n) == [exists |-> TRUE, row |-> n, failed |-> 0, locked |-> "none"]
NoUser == [UserRow(0) EXCEPT !.exists = FALSE]

NoLocals == [token |-> NoToken, user |-> NoUser, seq |-> 0, family |-> NoToken,
    famSeq |-> 0, erase |-> FALSE, orphans |-> {}, alive |-> FALSE]

AuthTypeOK ==
    /\ account \in UserORM
    /\ DOMAIN family \subseteq Tokens
    /\ \A f \in DOMAIN family : family[f] \in TokenFamilyORM
    /\ DOMAIN session \subseteq Tokens
    /\ \A t \in DOMAIN session : session[t] \in SessionORM
    /\ issued \subseteq Tokens /\ revoked \subseteq Tokens /\ actAs \in BOOLEAN
    /\ authPc \in [AuthRequests -> AuthSteps]
    /\ authReq \in [AuthRequests -> AuthLocals]

-----------------------------------------------------------------------------

Insert(f, k, row) == [x \in DOMAIN f \cup {k} |-> IF x = k THEN row ELSE f[x]]
Delete(f, K) == [x \in DOMAIN f \ K |-> f[x]]

SessionsOf(f) == {t \in DOMAIN session : session[t].family = f}

\* The foreign key of sessions on token_families: a family with sessions
\* cannot be deleted, and a session cannot be inserted without its family.
Deletable(F) == \A f \in F : SessionsOf(f) = {}

\* The copy a handler works on: what it read, unless the address belongs to
\* another row by now.
Loaded(r) == IF authReq[r].user.row = account.row THEN authReq[r].user ELSE account

IsLocked(u) == u.locked = "future"

\* is_revoked: a missing family counts as revoked.
FamilyRevoked(f) == f \notin DOMAIN family \/ family[f].compromised

\* A session of the token exists, has not expired, and its family is live.
Alive(t) ==
    /\ t \in DOMAIN session /\ ~session[t].expired
    /\ session[t].family # NoToken => ~FamilyRevoked(session[t].family)

AuthGoto(r, step) == authPc' = [authPc EXCEPT ![r] = step]
AuthEnd(r) == AuthGoto(r, "done") /\ authReq' = [authReq EXCEPT ![r] = NoLocals]
AuthIdle(r) == authPc[r] = "idle"
AuthAt(r, step) == authPc[r] = step
AuthKeep == UNCHANGED authReq

-----------------------------------------------------------------------------
(* Registration and login *)

\* The unique index on the address settles concurrent registrations.
Registered == IF account.exists THEN account ELSE UserRow(account.row + 1)

\* The answer is 500 in any case: the handler returns an undefined name.
Register(r) ==
    /\ AuthIdle(r)
    /\ account' = Registered
    /\ AuthEnd(r)
    /\ UNCHANGED <<family, session, issued, revoked, actAs>>

AdminCreateUser(r) == Register(r)

\* The row is read once; the lock and the password are checked on that copy.
LoginRead(r) ==
    /\ AuthIdle(r)
    /\ account.exists /\ ~IsLocked(account)
    /\ \E step \in {"count", "reset"} : AuthGoto(r, step)
    /\ authReq' = [authReq EXCEPT ![r].user = account]
    /\ UNCHANGED <<account, family, session, issued, revoked, actAs>>

\* increment_failed_attempts writes the count it loaded plus one.
IncrementFailedAttempts(r) ==
    /\ AuthAt(r, "count")
    /\ IF account.exists
       THEN /\ account' = [account EXCEPT !.failed = Loaded(r).failed + 1]
            /\ AuthGoto(r, "checkLock") /\ AuthKeep
       ELSE /\ UNCHANGED account /\ AuthEnd(r)
    /\ UNCHANGED <<family, session, issued, revoked, actAs>>

\* After the commit the row is loaded afresh.  The audit entries that follow
\* read a missing attribute of the row, so both outcomes end as 500.
CheckFailedAttempts(r) ==
    /\ AuthAt(r, "checkLock")
    /\ IF account.exists /\ account.failed >= MaxFailed
       THEN AuthGoto(r, "lock") /\ AuthKeep
       ELSE AuthEnd(r)
    /\ UNCHANGED <<account, family, session, issued, revoked, actAs>>

LockAccount(r) ==
    /\ AuthAt(r, "lock")
    /\ account' = IF account.exists THEN [account EXCEPT !.locked = "future"] ELSE account
    /\ AuthEnd(r)
    /\ UNCHANGED <<family, session, issued, revoked, actAs>>

\* One UPDATE of both columns.
ResetBlindly(seen) == [account EXCEPT !.failed = 0, !.locked = "none"]

\* A column is written only if the copy held another value.
Reset(seen) ==
    [account EXCEPT !.failed = IF seen.failed # 0 THEN 0 ELSE @,
                    !.locked = IF seen.locked # "none" THEN "none" ELSE @]

ResetFailedAttempts(r) ==
    /\ AuthAt(r, "reset")
    /\ account' = IF account.exists THEN Reset(Loaded(r)) ELSE account
    /\ AuthGoto(r, "family") /\ AuthKeep
    /\ UNCHANGED <<family, session, issued, revoked, actAs>>

CreateFamily(r) ==
    /\ AuthAt(r, "family")
    /\ IF account.exists
       THEN /\ family' = Insert(family, r, [seq |-> 0, compromised |-> FALSE])
            /\ AuthGoto(r, "session") /\ AuthKeep
       ELSE UNCHANGED family /\ AuthEnd(r)
    /\ UNCHANGED <<account, session, issued, revoked, actAs>>

CreateSession(r) ==
    /\ AuthAt(r, "session")
    /\ IF account.exists /\ r \in DOMAIN family
       THEN /\ session' = Insert(session, r, [family |-> r, seq |-> 0, expired |-> FALSE])
            /\ AuthGoto(r, "answer") /\ AuthKeep
       ELSE UNCHANGED session /\ AuthEnd(r)
    /\ UNCHANGED <<account, family, issued, revoked, actAs>>

LoginAnswer(r) ==
    /\ AuthAt(r, "answer")
    /\ issued' = issued \cup {r}
    /\ AuthEnd(r)
    /\ UNCHANGED <<account, family, session, revoked, actAs>>

-----------------------------------------------------------------------------
(* Access with a bearer token: get_current_user *)

\* is_revoked answers FALSE when Redis fails.
IsRevoked(t, redisUp) == redisUp /\ t \in revoked

AccessRead(r, t, redisUp) ==
    /\ AuthIdle(r) /\ t \in issued
    /\ IF IsRevoked(t, redisUp) \/ t \notin DOMAIN session
       THEN UNCHANGED session /\ AuthEnd(r)
       ELSE IF session[t].expired
       THEN session' = Delete(session, {t}) /\ AuthEnd(r)
       ELSE /\ UNCHANGED session
            /\ AuthGoto(r, "gate")
            /\ authReq' = [authReq EXCEPT ![r].token = t, ![r].family = session[t].family,
                                          ![r].alive = Alive(t)]
    /\ UNCHANGED <<account, family, issued, revoked, actAs>>

\* Looks only for a missing family.
ClosedIfMissing(f) == f # NoToken /\ f \notin DOMAIN family

ClosedByFamily(f) == f # NoToken /\ FamilyRevoked(f)

\* The gate on the family: a token whose family is gone loses its session.
AccessGate(r) ==
    LET l == authReq[r] IN
    /\ AuthAt(r, "gate")
    /\ IF ClosedByFamily(l.family)
       THEN session' = Delete(session, {l.token}) /\ AuthEnd(r)
       ELSE UNCHANGED session /\ AuthGoto(r, "loadUser") /\ AuthKeep
    /\ UNCHANGED <<account, family, issued, revoked, actAs>>

AccessUser(r) ==
    /\ AuthAt(r, "loadUser")
    /\ IF account.exists THEN AuthGoto(r, "admitted") /\ AuthKeep ELSE AuthEnd(r)
    /\ UNCHANGED <<account, family, session, issued, revoked, actAs>>

\* The revoke endpoint, once admitted; a failed write to Redis is swallowed.
Revoke(r) ==
    /\ AuthAt(r, "admitted") /\ authReq[r].token # NoToken
    /\ revoked' = revoked \cup {authReq[r].token}
    /\ UNCHANGED <<account, family, session, issued, actAs, authPc, authReq>>

\* A signed token for the account, checked by its signature and age alone.
Impersonate(r) ==
    /\ AuthIdle(r) /\ account.exists
    /\ actAs' = TRUE
    /\ AuthEnd(r)
    /\ UNCHANGED <<account, family, session, issued, revoked>>

\* The row is found by its id, which an erasure does not change.
ImpersonatedAccess(r) ==
    /\ AuthIdle(r) /\ actAs
    /\ AuthGoto(r, "admitted") /\ AuthKeep
    /\ UNCHANGED <<account, family, session, issued, revoked, actAs>>

ImpersonationExpires ==
    /\ actAs
    /\ actAs' = FALSE
    /\ UNCHANGED <<account, family, session, issued, revoked, authPc, authReq>>

-----------------------------------------------------------------------------
(* Refresh *)

RefreshRead(r, t) ==
    /\ AuthIdle(r) /\ t \in issued
    /\ IF t \notin DOMAIN session \/ (account.exists /\ IsLocked(account))
       THEN AuthEnd(r)
       ELSE /\ AuthGoto(r, IF session[t].family = NoToken THEN "migrate" ELSE "check")
            /\ authReq' = [authReq EXCEPT ![r].token = t, ![r].seq = session[t].seq,
                              ![r].family = session[t].family, ![r].user = account]
    /\ UNCHANGED <<account, family, session, issued, revoked, actAs>>

\* A session older than families gets one of its own.
MigrateFamily(r) ==
    /\ AuthAt(r, "migrate")
    /\ IF account.exists
       THEN /\ family' = Insert(family, r, [seq |-> 0, compromised |-> FALSE])
            /\ AuthGoto(r, "relabel")
            /\ authReq' = [authReq EXCEPT ![r].family = r]
       ELSE UNCHANGED family /\ AuthEnd(r)
    /\ UNCHANGED <<account, session, issued, revoked, actAs>>

\* Fails if the session or the new family is gone by then.
MigrateSession(r) ==
    LET t == authReq[r].token IN
    /\ AuthAt(r, "relabel")
    /\ IF t \in DOMAIN session /\ r \in DOMAIN family
       THEN /\ session' = [session EXCEPT ![t].family = r, ![t].seq = 0]
            /\ AuthGoto(r, "check")
            /\ authReq' = [authReq EXCEPT ![r].seq = 0]
       ELSE UNCHANGED session /\ AuthEnd(r)
    /\ UNCHANGED <<account, family, issued, revoked, actAs>>

\* Reuse: the presented session is behind the family's sequence.
Reused(l, f) == l.seq < f.seq

RefreshCheck(r) ==
    LET l == authReq[r] IN
    /\ AuthAt(r, "check")
    /\ IF FamilyRevoked(l.family)
       THEN AuthEnd(r)
       ELSE /\ AuthGoto(r, IF Reused(l, family[l.family]) THEN "compromise" ELSE "rotate")
            /\ authReq' = [authReq EXCEPT ![r].famSeq = family[l.family].seq]
    /\ UNCHANGED <<account, family, session, issued, revoked, actAs>>

CompromiseFamily(r) ==
    LET f == authReq[r].family IN
    /\ AuthAt(r, "compromise")
    /\ family' = IF f \in DOMAIN family THEN [family EXCEPT ![f].compromised = TRUE] ELSE family
    /\ AuthGoto(r, "dropFamily") /\ AuthKeep
    /\ UNCHANGED <<account, session, issued, revoked, actAs>>

DeleteSessionsByFamily(r) ==
    /\ AuthAt(r, "dropFamily")
    /\ session' = Delete(session, SessionsOf(authReq[r].family))
    /\ AuthEnd(r)
    /\ UNCHANGED <<account, family, issued, revoked, actAs>>

\* increment_sequence writes the sequence that was loaded plus one.
IncrementSequence(r) ==
    LET l == authReq[r] IN
    /\ AuthAt(r, "rotate")
    /\ IF l.family \in DOMAIN family
       THEN /\ family' = [family EXCEPT ![l.family].seq = l.famSeq + 1]
            /\ AuthGoto(r, "reload") /\ AuthKeep
       ELSE UNCHANGED family /\ AuthEnd(r)
    /\ UNCHANGED <<account, session, issued, revoked, actAs>>

\* The commit expired the loaded session: reading it again fails if another
\* request has deleted it.
ReloadSession(r) ==
    /\ AuthAt(r, "reload")
    /\ IF authReq[r].token \in DOMAIN session
       THEN AuthGoto(r, "drop") /\ AuthKeep
       ELSE AuthEnd(r)
    /\ UNCHANGED <<account, family, session, issued, revoked, actAs>>

\* Only marks the session as used up.
MarkedOld(t) == IF t \in DOMAIN session THEN [session EXCEPT ![t].expired = TRUE] ELSE session

WithoutOld(t) == Delete(session, {t})

DeleteSession(r) ==
    /\ AuthAt(r, "drop")
    /\ session' = WithoutOld(authReq[r].token)
    /\ AuthGoto(r, "create") /\ AuthKeep
    /\ UNCHANGED <<account, family, issued, revoked, actAs>>

\* The sequence is read after the increment and increased again.  The audit
\* entry that follows fails on a missing attribute: the new pair of tokens is
\* stored and never returned.
CreateSuccessor(r) ==
    LET f == authReq[r].family IN
    /\ AuthAt(r, "create")
    /\ session' = IF authReq[r].user.exists /\ account.exists /\ f \in DOMAIN family
                  THEN Insert(session, r, [family |-> f, seq |-> family[f].seq + 1,
                                           expired |-> FALSE])
                  ELSE session
    /\ AuthGoto(r, "done") /\ AuthKeep
    /\ UNCHANGED <<account, family, issued, revoked, actAs>>

-----------------------------------------------------------------------------
(* Logout, logout-all, erasure *)

Logout(r, t) ==
    /\ AuthIdle(r) /\ t \in issued
    /\ session' = Delete(session, {t})
    /\ AuthEnd(r)
    /\ UNCHANGED <<account, family, issued, revoked, actAs>>

\* logout_all_sessions, and erase_user_data, which begins the same way.
DeleteSessionsByEmail(r, erase) ==
    /\ AuthIdle(r)
    /\ erase => account.exists
    /\ session' = <<>>
    /\ AuthGoto(r, "families")
    /\ authReq' = [authReq EXCEPT ![r].erase = erase]
    /\ UNCHANGED <<account, family, issued, revoked, actAs>>

\* The foreign key refuses the deletion if a session appeared meanwhile.
DeleteFamiliesByEmail(r) ==
    /\ AuthAt(r, "families")
    /\ family' = IF Deletable(DOMAIN family) THEN <<>> ELSE family
    /\ IF authReq[r].erase /\ Deletable(DOMAIN family)
       THEN AuthGoto(r, "pseudonym") /\ AuthKeep
       ELSE AuthEnd(r)
    /\ UNCHANGED <<account, session, issued, revoked, actAs>>

\* The address may change only when no session or family refers to it.
Pseudonymise(r) ==
    /\ AuthAt(r, "pseudonym")
    /\ account' = IF DOMAIN session = {} /\ DOMAIN family = {} THEN [NoUser EXCEPT !.row = account.row] ELSE account
    /\ AuthEnd(r)
    /\ UNCHANGED <<family, session, issued, revoked, actAs>>

-----------------------------------------------------------------------------
(* The clean-up task, clocks, crashes *)

DeleteExpiredSessions(r) ==
    /\ AuthIdle(r)
    /\ session' = Delete(session, {t \in DOMAIN session : session[t].expired})
    /\ AuthGoto(r, "orphans")
    /\ authReq' = [authReq EXCEPT ![r].orphans =
                      {f \in DOMAIN family : \A t \in DOMAIN session' : session'[t].family # f}]
    /\ UNCHANGED <<account, family, issued, revoked, actAs>>

\* Families selected as orphans; one that got a session makes the commit fail.
DeleteOrphanedFamilies(r) ==
    LET F == authReq[r].orphans \cap DOMAIN family IN
    /\ AuthAt(r, "orphans")
    /\ family' = IF Deletable(F) THEN Delete(family, F) ELSE family
    /\ AuthEnd(r)
    /\ UNCHANGED <<account, session, issued, revoked, actAs>>

SessionExpires(t) ==
    /\ t \in DOMAIN session /\ ~session[t].expired
    /\ session' = [session EXCEPT ![t].expired = TRUE]
    /\ UNCHANGED <<account, family, issued, revoked, actAs, authPc, authReq>>

LockExpires ==
    /\ IsLocked(account)
    /\ account' = [account EXCEPT !.locked = "past"]
    /\ UNCHANGED <<family, session, issued, revoked, actAs, authPc, authReq>>

AuthCrash(r) ==
    /\ authPc[r] \notin {"idle", "done", "admitted"}
    /\ AuthEnd(r)
    /\ UNCHANGED <<account, family, session, issued, revoked, actAs>>

-----------------------------------------------------------------------------

AuthInit ==
    /\ account = UserRow(0)
    /\ family = [f \in {FirstToken} |-> [seq |-> 0, compromised |-> FALSE]]
    /\ session = [t \in {FirstToken, LegacyToken} |->
                     [family |-> IF t = FirstToken THEN t ELSE NoToken, seq |-> 0,
                      expired |-> FALSE]]
    /\ issued = {FirstToken, LegacyToken}
    /\ revoked = {}
    /\ actAs = FALSE
    /\ authPc = [r \in AuthRequests |-> "idle"]
    /\ authReq = [r \in AuthRequests |-> NoLocals]

LoginStep(r) ==
    \/ LoginRead(r) \/ IncrementFailedAttempts(r) \/ CheckFailedAttempts(r)
    \/ LockAccount(r) \/ ResetFailedAttempts(r) \/ CreateFamily(r)
    \/ CreateSession(r) \/ LoginAnswer(r)

AccessStep(r) ==
    \/ \E t \in issued, up \in BOOLEAN : AccessRead(r, t, up)
    \/ AccessGate(r) \/ AccessUser(r) \/ Revoke(r)

RefreshStep(r) ==
    \/ \E t \in issued : RefreshRead(r, t)
    \/ MigrateFamily(r) \/ MigrateSession(r) \/ RefreshCheck(r)
    \/ CompromiseFamily(r) \/ DeleteSessionsByFamily(r) \/ IncrementSequence(r)
    \/ ReloadSession(r) \/ DeleteSession(r) \/ CreateSuccessor(r)

LogoutStep(r) == \E t \in issued : Logout(r, t)

LogoutAllStep(r) == DeleteSessionsByEmail(r, FALSE) \/ DeleteFamiliesByEmail(r)

EraseStep(r) == DeleteSessionsByEmail(r, TRUE) \/ Pseudonymise(r)

CleanupStep(r) == DeleteExpiredSessions(r) \/ DeleteOrphanedFamilies(r)

AuthNext ==
    \/ \E r \in AuthRequests :
          \/ Register(r) \/ AdminCreateUser(r) \/ LoginStep(r) \/ AccessStep(r)
          \/ Impersonate(r) \/ ImpersonatedAccess(r) \/ RefreshStep(r)
          \/ LogoutStep(r) \/ LogoutAllStep(r) \/ EraseStep(r) \/ CleanupStep(r)
          \/ AuthCrash(r)
    \/ \E t \in Tokens : SessionExpires(t)
    \/ LockExpires
    \/ ImpersonationExpires

AuthSpec == AuthInit /\ [][AuthNext]_authVars

-----------------------------------------------------------------------------
(* Properties *)

\* The tokens that were issued with a family.  One that was not is adopted by
\* a family on refresh, and two adoptions can overlap: the later one takes the
\* session out of a family that a reuse has just compromised.
Governed == issued \ {LegacyToken}

Bearers == {r \in AuthRequests : authReq[r].token \in Governed}

Life == INSTANCE TokenLife WITH
    Requests <- AuthRequests,
    issued <- Governed,
    dead <- {t \in Governed : ~Alive(t)},
    arrived <- [r \in AuthRequests |->
                  IF r \in Bearers /\ authReq[r].alive THEN authReq[r].token ELSE NoToken],
    admitted <- {r \in Bearers : authPc[r] = "admitted"}

\* The store keeps the promise of TokenLife: whatever logs out, rotates,
\* erases, cleans up or crashes meanwhile, a token that has died (its session
\* is gone or expired, or its family is compromised or deleted) never opens
\* anything again, and the family gate of the access path (#535) admits no
\* request whose token was already dead when it arrived.  It is a promise
\* about tokens issued with a family.
TokensLiveOnce == Life!Spec

\* _refresh_with_db: once a refresh has stored its successor, the session it
\* was made from is gone for good, even when two refreshes of one token, a
\* migration, logout-all and the clean-up overlap: a rotated token can only be
\* used by requests that had read it before.
RotatedTokenGone ==
    \A r \in AuthRequests :
        authPc[r] = "done" /\ authReq[r].token # NoToken =>
            authReq[r].token \notin DOMAIN session

\* A login in flight does not clear a lock that was set after it had read the
\* account: a lock in force ends by time, by erasure, or through a login whose
\* copy of the row held an earlier lock, or whose account was erased and
\* registered anew since (reset_failed_attempts finds the row by its address).
LockSurvivesLogin ==
    [][IsLocked(account) /\ account'.locked = "none" =>
          \/ ~account'.exists
          \/ \E r \in AuthRequests :
                /\ AuthAt(r, "reset")
                /\ authReq[r].user.locked = "past" \/ authReq[r].user.row # account.row]_authVars

=============================================================================
