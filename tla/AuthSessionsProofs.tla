------------------------- MODULE AuthSessionsProofs -------------------------
(***************************************************************************)
(* Theorems about accounts, token families and sessions, for every set of  *)
(* requests and every bound on failed attempts.                            *)
(***************************************************************************)
EXTENDS AuthSessions, TLAPS

-----------------------------------------------------------------------------
(* Types                                                                   *)

\* The record a request leaves behind.
LEMMA NoLocalsType == NoLocals \in AuthLocals /\ NoUser \in UserORM
  BY DEF NoLocals, AuthLocals, NoUser, UserRow, UserORM, LockTimes

LEMMA AuthTypesInit == AuthInit => AuthTypeOK
<1> SUFFICES ASSUME AuthInit PROVE AuthTypeOK
  OBVIOUS
<1>1. account \in UserORM
  BY DEF AuthInit, UserRow, UserORM, LockTimes
<1>2. DOMAIN family \subseteq Tokens /\ \A f \in DOMAIN family : family[f] \in TokenFamilyORM
  BY DEF AuthInit, Tokens, TokenFamilyORM
<1>3. DOMAIN session \subseteq Tokens /\ \A t \in DOMAIN session : session[t] \in SessionORM
  BY DEF AuthInit, Tokens, SessionORM
<1>4. authPc \in [AuthRequests -> AuthSteps] /\ authReq \in [AuthRequests -> AuthLocals]
  BY NoLocalsType DEF AuthInit, AuthSteps
<1> QED BY <1>1, <1>2, <1>3, <1>4 DEF AuthInit, AuthTypeOK, Tokens

\* A request that ends keeps the types of the request records.
LEMMA AuthEndTypes ==
    ASSUME AuthTypeOK, NEW r \in AuthRequests, AuthEnd(r)
    PROVE  /\ authPc' \in [AuthRequests -> AuthSteps]
           /\ authReq' \in [AuthRequests -> AuthLocals]
  BY NoLocalsType DEF AuthTypeOK, AuthEnd, AuthGoto, AuthSteps

\* Sessions only ever leave the table, or change in place: the types stay.
LEMMA DeletedTypes ==
    ASSUME AuthTypeOK, NEW T, session' = Delete(session, T)
    PROVE  DOMAIN session' \subseteq Tokens /\ \A t \in DOMAIN session' : session'[t] \in SessionORM
  BY DEF AuthTypeOK, Delete

LEMMA InsertedTypes ==
    ASSUME AuthTypeOK, NEW k \in Tokens, NEW row \in SessionORM, session' = Insert(session, k, row)
    PROVE  DOMAIN session' \subseteq Tokens /\ \A t \in DOMAIN session' : session'[t] \in SessionORM
  BY DEF AuthTypeOK, Insert

\* create_family, by a login and by a migration.
LEMMA NewFamilyTypes ==
    ASSUME AuthTypeOK, NEW r \in AuthRequests,
           family' = Insert(family, r, [seq |-> 0, compromised |-> FALSE])
    PROVE  DOMAIN family' \subseteq Tokens /\ \A f \in DOMAIN family' : family'[f] \in TokenFamilyORM
<1> DEFINE row == [seq |-> 0, compromised |-> FALSE]
<1>1. row \in TokenFamilyORM
  BY DEF TokenFamilyORM
<1>2. family' = Insert(family, r, row)
  OBVIOUS
<1> HIDE DEF row
<1> QED BY <1>1, <1>2 DEF AuthTypeOK, Insert, Tokens

LEMMA LoginTypes ==
    ASSUME AuthTypeOK, NEW r \in AuthRequests, LoginStep(r)
    PROVE  AuthTypeOK'
<1> USE DEF AuthTypeOK
<1>1. CASE LoginRead(r)
  BY <1>1 DEF LoginRead, AuthGoto, AuthSteps, AuthLocals
<1>2. CASE IncrementFailedAttempts(r)
  BY <1>2, AuthEndTypes DEF IncrementFailedAttempts, AuthGoto, AuthKeep, Loaded, AuthSteps, AuthLocals, UserORM
<1>3. CASE CheckFailedAttempts(r)
  BY <1>3, AuthEndTypes DEF CheckFailedAttempts, AuthGoto, AuthKeep, AuthSteps
<1>4. CASE LockAccount(r)
  BY <1>4, AuthEndTypes DEF LockAccount, UserORM, LockTimes
<1>5. CASE ResetFailedAttempts(r)
  BY <1>5 DEF ResetFailedAttempts, Reset, AuthGoto, AuthKeep, AuthSteps, UserORM, LockTimes
<1>6. CASE CreateFamily(r)
  <2>1. /\ DOMAIN family' \subseteq Tokens
        /\ \A f \in DOMAIN family' : family'[f] \in TokenFamilyORM
    BY <1>6, NewFamilyTypes DEF CreateFamily
  <2> QED BY <1>6, <2>1, AuthEndTypes DEF CreateFamily, AuthGoto, AuthKeep, AuthSteps
<1>7. CASE CreateSession(r)
  <2>1. /\ DOMAIN session' \subseteq Tokens
        /\ \A t \in DOMAIN session' : session'[t] \in SessionORM
    <3> DEFINE row == [family |-> r, seq |-> 0, expired |-> FALSE]
    <3>1. row \in SessionORM /\ r \in Tokens
      BY DEF SessionORM, Tokens
    <3>2. session' = Insert(session, r, row) \/ UNCHANGED session
      BY <1>7 DEF CreateSession
    <3> HIDE DEF row
    <3> QED BY <3>1, <3>2, InsertedTypes
  <2> QED BY <1>7, <2>1, AuthEndTypes DEF CreateSession, AuthGoto, AuthKeep, AuthSteps
<1>8. CASE LoginAnswer(r)
  BY <1>8, AuthEndTypes DEF LoginAnswer, Tokens
<1> QED BY <1>1, <1>2, <1>3, <1>4, <1>5, <1>6, <1>7, <1>8 DEF LoginStep

LEMMA AccessTypes ==
    ASSUME AuthTypeOK, NEW r \in AuthRequests, AccessStep(r)
    PROVE  AuthTypeOK'
<1> USE DEF AuthTypeOK
<1>1. ASSUME NEW t \in issued, NEW up \in BOOLEAN, AccessRead(r, t, up)
      PROVE  AuthTypeOK'
  <2>1. Alive(t) \in BOOLEAN
    BY DEF Alive
  <2>2. CASE AuthEnd(r)
    BY <1>1, <2>2, AuthEndTypes, DeletedTypes DEF AccessRead
  <2>3. CASE ~ AuthEnd(r)
    <3> DEFINE a == Alive(t)
    <3>1. a \in BOOLEAN
      BY <2>1
    <3>2. /\ t \in DOMAIN session /\ UNCHANGED session /\ AuthGoto(r, "gate")
          /\ authReq' = [authReq EXCEPT ![r].token = t, ![r].family = session[t].family,
                                          ![r].alive = a]
      BY <1>1, <2>3 DEF AccessRead
    <3> HIDE DEF a
    <3> QED BY <1>1, <3>1, <3>2 DEF AccessRead, AuthGoto, AuthSteps, AuthLocals, SessionORM
  <2> QED BY <2>2, <2>3
<1>2. CASE AccessGate(r)
  BY <1>2, AuthEndTypes, DeletedTypes DEF AccessGate, AuthGoto, AuthKeep, AuthSteps
<1>3. CASE AccessUser(r)
  BY <1>3, AuthEndTypes DEF AccessUser, AuthGoto, AuthKeep, AuthSteps
<1>4. CASE Revoke(r)
  BY <1>4 DEF Revoke, AuthLocals
<1> QED BY <1>1, <1>2, <1>3, <1>4 DEF AccessStep

LEMMA RefreshTypes ==
    ASSUME AuthTypeOK, NEW r \in AuthRequests, RefreshStep(r)
    PROVE  AuthTypeOK'
<1> USE DEF AuthTypeOK
<1>1. ASSUME NEW t \in issued, RefreshRead(r, t)
      PROVE  AuthTypeOK'
  BY <1>1, AuthEndTypes DEF RefreshRead, AuthGoto, AuthSteps, AuthLocals, SessionORM
<1>2. CASE MigrateFamily(r)
  <2>1. /\ DOMAIN family' \subseteq Tokens
        /\ \A f \in DOMAIN family' : family'[f] \in TokenFamilyORM
    BY <1>2, NewFamilyTypes DEF MigrateFamily
  <2> QED BY <1>2, <2>1, AuthEndTypes DEF MigrateFamily, AuthGoto, AuthSteps, AuthLocals, Tokens
<1>3. CASE MigrateSession(r)
  <2>1. /\ DOMAIN session' \subseteq Tokens
        /\ \A t \in DOMAIN session' : session'[t] \in SessionORM
    BY <1>3 DEF MigrateSession, SessionORM, Tokens
  <2> QED BY <1>3, <2>1, AuthEndTypes DEF MigrateSession, AuthGoto, AuthSteps, AuthLocals
<1>4. CASE RefreshCheck(r)
  BY <1>4, AuthEndTypes DEF RefreshCheck, FamilyRevoked, AuthGoto, AuthSteps, AuthLocals, TokenFamilyORM
<1>5. CASE CompromiseFamily(r)
  BY <1>5 DEF CompromiseFamily, AuthGoto, AuthKeep, AuthSteps, TokenFamilyORM
<1>6. CASE DeleteSessionsByFamily(r)
  BY <1>6, AuthEndTypes, DeletedTypes DEF DeleteSessionsByFamily
<1>7. CASE IncrementSequence(r)
  <2>1. authReq[r].famSeq + 1 \in Nat
    BY DEF AuthLocals
  <2>2. /\ DOMAIN family' \subseteq Tokens
        /\ \A f \in DOMAIN family' : family'[f] \in TokenFamilyORM
    BY <1>7, <2>1 DEF IncrementSequence, TokenFamilyORM
  <2> QED BY <1>7, <2>2, AuthEndTypes DEF IncrementSequence, AuthGoto, AuthKeep, AuthSteps
<1>8. CASE ReloadSession(r)
  BY <1>8, AuthEndTypes DEF ReloadSession, AuthGoto, AuthKeep, AuthSteps
<1>9. CASE DeleteSession(r)
  BY <1>9, DeletedTypes DEF DeleteSession, WithoutOld, AuthGoto, AuthKeep, AuthSteps
<1>10. CASE CreateSuccessor(r)
  <2> DEFINE f == authReq[r].family
             row == [family |-> f, seq |-> family[f].seq + 1, expired |-> FALSE]
  <2>1. f \in DOMAIN family => row \in SessionORM
    BY DEF SessionORM, TokenFamilyORM, Tokens
  <2>2. UNCHANGED session \/ (f \in DOMAIN family /\ session' = Insert(session, r, row))
    BY <1>10 DEF CreateSuccessor
  <2>3. r \in Tokens
    BY DEF Tokens
  <2> HIDE DEF f, row
  <2>4. /\ DOMAIN session' \subseteq Tokens
        /\ \A t \in DOMAIN session' : session'[t] \in SessionORM
    BY <2>1, <2>2, <2>3, InsertedTypes
  <2> QED BY <1>10, <2>4 DEF CreateSuccessor, AuthGoto, AuthKeep, AuthSteps
<1> QED BY <1>1, <1>2, <1>3, <1>4, <1>5, <1>6, <1>7, <1>8, <1>9, <1>10 DEF RefreshStep

LEMMA LeavingTypes ==
    ASSUME AuthTypeOK, NEW r \in AuthRequests,
           LogoutStep(r) \/ LogoutAllStep(r) \/ EraseStep(r) \/ CleanupStep(r)
    PROVE  AuthTypeOK'
<1> USE DEF AuthTypeOK
<1>1. ASSUME NEW t \in issued, Logout(r, t)
      PROVE  AuthTypeOK'
  BY <1>1, AuthEndTypes, DeletedTypes DEF Logout
<1>2. ASSUME NEW erase \in BOOLEAN, DeleteSessionsByEmail(r, erase)
      PROVE  AuthTypeOK'
  <2>1. DOMAIN session' = {}
    BY <1>2 DEF DeleteSessionsByEmail
  <2> QED BY <1>2, <2>1 DEF DeleteSessionsByEmail, AuthGoto, AuthSteps, AuthLocals
<1>3. CASE DeleteFamiliesByEmail(r)
  <2>1. DOMAIN family' = {} \/ UNCHANGED family
    BY <1>3 DEF DeleteFamiliesByEmail
  <2> QED BY <1>3, <2>1, AuthEndTypes DEF DeleteFamiliesByEmail, AuthGoto, AuthKeep, AuthSteps
<1>4. CASE Pseudonymise(r)
  <2>1. account' \in UserORM
    BY <1>4, NoLocalsType DEF Pseudonymise, UserORM
  <2> QED BY <1>4, <2>1, AuthEndTypes DEF Pseudonymise
<1>5. CASE DeleteExpiredSessions(r)
  <2> DEFINE F == {f \in DOMAIN family : \A t \in DOMAIN session' : session'[t].family # f}
  <2>1. F \in SUBSET Tokens
    OBVIOUS
  <2>2. authReq' = [authReq EXCEPT ![r].orphans = F]
    BY <1>5 DEF DeleteExpiredSessions
  <2> HIDE DEF F
  <2>3. authReq' \in [AuthRequests -> AuthLocals]
    BY <2>1, <2>2 DEF AuthLocals
  <2> QED BY <1>5, <2>3, DeletedTypes DEF DeleteExpiredSessions, AuthGoto, AuthSteps
<1>6. CASE DeleteOrphanedFamilies(r)
  <2>1. /\ DOMAIN family' \subseteq Tokens
        /\ \A f \in DOMAIN family' : family'[f] \in TokenFamilyORM
    BY <1>6 DEF DeleteOrphanedFamilies, Delete
  <2> QED BY <1>6, <2>1, AuthEndTypes DEF DeleteOrphanedFamilies
<1> QED BY <1>1, <1>2, <1>3, <1>4, <1>5, <1>6
        DEF LogoutStep, LogoutAllStep, EraseStep, CleanupStep

LEMMA AuthTypesStep == AuthTypeOK /\ [AuthNext]_authVars => AuthTypeOK'
<1> SUFFICES ASSUME AuthTypeOK, [AuthNext]_authVars PROVE AuthTypeOK'
  OBVIOUS
<1> USE DEF AuthTypeOK
<1>1. ASSUME NEW r \in AuthRequests, Register(r) PROVE AuthTypeOK'
  <2>1. account' \in UserORM
    BY <1>1 DEF Register, Registered, UserRow, UserORM, LockTimes
  <2> QED BY <1>1, <2>1, AuthEndTypes DEF Register
<1>2. ASSUME NEW r \in AuthRequests, Impersonate(r) PROVE AuthTypeOK'
  BY <1>2, AuthEndTypes DEF Impersonate
<1>3. ASSUME NEW r \in AuthRequests, ImpersonatedAccess(r) PROVE AuthTypeOK'
  BY <1>3 DEF ImpersonatedAccess, AuthGoto, AuthKeep, AuthSteps
<1>4. ASSUME NEW r \in AuthRequests, AuthCrash(r) PROVE AuthTypeOK'
  BY <1>4, AuthEndTypes DEF AuthCrash
<1>5. ASSUME NEW t \in Tokens, SessionExpires(t) PROVE AuthTypeOK'
  BY <1>5 DEF SessionExpires, SessionORM
<1>6. CASE LockExpires
  BY <1>6 DEF LockExpires, UserORM, LockTimes
<1>7. CASE ImpersonationExpires
  BY <1>7 DEF ImpersonationExpires
<1>8. CASE UNCHANGED authVars
  BY <1>8 DEF authVars
<1> QED BY <1>1, <1>2, <1>3, <1>4, <1>5, <1>6, <1>7, <1>8, LoginTypes, AccessTypes, RefreshTypes,
           LeavingTypes DEF AuthNext, AdminCreateUser

-----------------------------------------------------------------------------
(* The inductive invariant                                                 *)

\* Before these steps a request has named neither a family nor a session.
Unnamed == {"idle", "reset", "family", "migrate"}

\* The name of a family or a session is not in use before its request inserts
\* it, so a family or session that was deleted never returns under its name.
NamesFresh ==
    /\ \A r \in AuthRequests : r \in issued => authPc[r] = "done"
    /\ \A r \in AuthRequests : r \in DOMAIN session => authPc[r] \in {"answer", "done"}
    /\ \A r \in AuthRequests : authPc[r] \in Unnamed =>
          /\ r \notin DOMAIN family
          /\ \A t \in DOMAIN session : session[t].family # r
          /\ \A q \in AuthRequests : authReq[q].family # r

\* Only the session that is older than families has none.
FamilyKnown == \A t \in DOMAIN session : session[t].family = NoToken => t = LegacyToken

\* A request on the access path: the family it read is still that of its
\* session, and a token that was dead on arrival is stopped at the gate.
AccessOK(r) ==
    /\ authPc[r] = "gate" =>
          /\ authReq[r].token # NoToken
          /\ authReq[r].token \in DOMAIN session /\ authReq[r].token # LegacyToken =>
                session[authReq[r].token].family = authReq[r].family
          /\ authReq[r].alive \/ ClosedByFamily(authReq[r].family)
    /\ authPc[r] \in {"loadUser", "admitted"} /\ authReq[r].token # NoToken => authReq[r].alive
    /\ authReq[r].alive => authPc[r] \in {"gate", "loadUser", "admitted"}

RequestOK(r) ==
    /\ authReq[r].token \in issued \cup {NoToken}
    /\ authPc[r] = "idle" => authReq[r].token = NoToken
    /\ authPc[r] \in {"migrate", "relabel"} => authReq[r].token = LegacyToken
    /\ authPc[r] \in {"create", "done"} => authReq[r].token \notin DOMAIN session
    /\ authPc[r] = "reset" => ~ IsLocked(authReq[r].user)
    /\ AccessOK(r)

\* The inductive invariant.
AuthInv ==
    /\ AuthTypeOK
    /\ ~ account.exists => ~ IsLocked(account)
    /\ NamesFresh
    /\ FamilyKnown
    /\ \A r \in AuthRequests : RequestOK(r)

LEMMA AuthInvInit == AuthInit => AuthInv
<1> SUFFICES ASSUME AuthInit PROVE AuthInv
  OBVIOUS
<1>1. \A r \in AuthRequests : /\ authPc[r] = "idle" /\ authReq[r].token = NoToken
                              /\ authReq[r].family = NoToken /\ authReq[r].alive = FALSE
  BY DEF AuthInit, NoLocals
<1>2. /\ account.exists /\ issued = {FirstToken, LegacyToken}
      /\ DOMAIN session = {FirstToken, LegacyToken} /\ DOMAIN family = {FirstToken}
      /\ session[FirstToken].family = FirstToken /\ session[LegacyToken].family = NoToken
  BY AuthAssumption DEF AuthInit, UserRow
<1>3. NamesFresh
  BY <1>1, <1>2, AuthAssumption DEF NamesFresh
<1>4. FamilyKnown
  BY <1>2, AuthAssumption DEF FamilyKnown
<1>5. \A r \in AuthRequests : RequestOK(r)
  BY <1>1 DEF RequestOK, AccessOK
<1> QED BY <1>2, <1>3, <1>4, <1>5, AuthTypesInit DEF AuthInv

\* What any step does to the stored rows, R being the request that moves, if
\* one does: rows go, stay, or get worse, except for those that R inserts under
\* its name and the old session that it takes into its family.
SessionsFade(R) ==
    \A t \in DOMAIN session' :
        \/ t \in R
        \/ /\ t \in DOMAIN session
           /\ session[t].expired => session'[t].expired
           /\ \/ session'[t].family = session[t].family
              \/ t = LegacyToken /\ session'[t].family \in R

FamiliesFade(R) ==
    \A f \in DOMAIN family' :
        \/ f \in R /\ authPc[f] \in Unnamed
        \/ /\ f \in DOMAIN family
           /\ family[f].compromised => family'[f].compromised

OthersWait(R) ==
    \A q \in AuthRequests \ R : authPc'[q] = authPc[q] /\ authReq'[q] = authReq[q]

\* The request that moves.
MovedOK(r) ==
    /\ authPc[r] # "done"
    /\ RequestOK(r)'
    /\ r \in issued' => authPc'[r] = "done"
    /\ r \in DOMAIN session' =>
          /\ authPc'[r] \in {"answer", "done"}
          /\ session'[r].family # NoToken
          /\ \/ session'[r].family \in {r, authReq[r].family}
             \/ r \in DOMAIN session /\ session'[r].family = session[r].family
    /\ \/ authReq'[r].family \in {NoToken, r, authReq[r].family}
       \/ \E t \in DOMAIN session : authReq'[r].family = session[t].family
    /\ authPc'[r] \in Unnamed =>
          /\ authPc[r] \in Unnamed
          /\ r \notin DOMAIN family'
          /\ \A t \in DOMAIN session' : session'[t].family # r
          /\ authReq'[r].family # r

\* The shape of every step.
Effect(R) ==
    /\ SessionsFade(R)
    /\ FamiliesFade(R)
    /\ OthersWait(R)
    /\ \A r \in R : MovedOK(r)
    /\ issued \subseteq issued' /\ issued' \subseteq issued \cup R
    /\ ~ account'.exists => ~ IsLocked(account')

LEMMA EffectKeepsInv ==
    ASSUME AuthInv, AuthTypeOK', NEW R \in SUBSET AuthRequests, Effect(R), \A r, q \in R : r = q
    PROVE  AuthInv'
<1> USE DEF Effect
<1>1. \A r \in R : r \notin issued
  BY DEF AuthInv, NamesFresh, MovedOK
<1>2. FamilyKnown'
  BY AuthAssumption DEF AuthInv, FamilyKnown, SessionsFade, MovedOK
<1>3. NamesFresh'
  <2>1. ASSUME NEW r \in AuthRequests, r \in issued' PROVE authPc'[r] = "done"
    BY <2>1 DEF AuthInv, NamesFresh, MovedOK, OthersWait
  <2>2. ASSUME NEW r \in AuthRequests, r \in DOMAIN session' PROVE authPc'[r] \in {"answer", "done"}
    BY <2>2, AuthAssumption DEF AuthInv, NamesFresh, MovedOK, OthersWait, SessionsFade
  <2>3. ASSUME NEW r \in AuthRequests, authPc'[r] \in Unnamed
        PROVE  /\ r \notin DOMAIN family'
               /\ \A t \in DOMAIN session' : session'[t].family # r
               /\ \A q \in AuthRequests : authReq'[q].family # r
    <3>1. authPc[r] \in Unnamed
      BY <2>3 DEF MovedOK, OthersWait
    <3>2. /\ r \notin DOMAIN family
          /\ \A t \in DOMAIN session : session[t].family # r
          /\ \A q \in AuthRequests : authReq[q].family # r
      BY <3>1 DEF AuthInv, NamesFresh
    <3>3. r # NoToken
      BY AuthAssumption
    <3>4. r \notin DOMAIN family'
      BY <2>3, <3>2 DEF FamiliesFade, MovedOK
    <3>5. ASSUME NEW t \in DOMAIN session' PROVE session'[t].family # r
      BY <2>3, <3>2 DEF SessionsFade, MovedOK
    <3>6. ASSUME NEW q \in AuthRequests PROVE authReq'[q].family # r
      BY <2>3, <3>2, <3>3 DEF MovedOK, OthersWait
    <3> QED BY <3>4, <3>5, <3>6
  <2> QED BY <2>1, <2>2, <2>3 DEF NamesFresh
<1>4. ASSUME NEW q \in AuthRequests PROVE RequestOK(q)'
  <2>1. CASE q \in R
    BY <2>1 DEF MovedOK
  <2>2. CASE q \notin R
    <3>1. authPc'[q] = authPc[q] /\ authReq'[q] = authReq[q] /\ RequestOK(q)
      BY <2>2 DEF OthersWait, AuthInv
    <3> DEFINE l == authReq[q]
    <3>2. l.token \notin R /\ (l.token \notin DOMAIN session => l.token \notin DOMAIN session')
      BY <1>1, <3>1, AuthAssumption DEF RequestOK, SessionsFade
    <3>3. ClosedByFamily(l.family) => ClosedByFamily(l.family)'
      BY <3>1 DEF ClosedByFamily, FamilyRevoked, FamiliesFade, AuthInv, NamesFresh
    <3>4. AccessOK(q)'
      BY <3>1, <3>2, <3>3 DEF RequestOK, AccessOK, SessionsFade
    <3> QED BY <3>1, <3>2, <3>4 DEF RequestOK
  <2> QED BY <2>1, <2>2
<1> QED BY <1>2, <1>3, <1>4 DEF AuthInv

\* A request that ends is left with nothing.
LEMMA EndsOK ==
    ASSUME AuthInv, NEW r \in AuthRequests, authPc[r] # "done", AuthEnd(r),
           AuthTypeOK', r \in DOMAIN session' => r \in DOMAIN session /\ session'[r].family = session[r].family
    PROVE  MovedOK(r) /\ OthersWait({r})
<1>1. authPc'[r] = "done" /\ authReq'[r] = NoLocals
  BY DEF AuthEnd, AuthGoto, AuthInv, AuthTypeOK
<1>2. /\ NoLocals.token = NoToken /\ NoLocals.family = NoToken /\ NoLocals.alive = FALSE
      /\ NoToken \notin DOMAIN session'
  BY AuthAssumption DEF NoLocals, AuthTypeOK, Tokens
<1>3. RequestOK(r)'
  BY <1>1, <1>2 DEF RequestOK, AccessOK
<1>4. r \in DOMAIN session' => session'[r].family # NoToken
  BY AuthAssumption DEF AuthInv, FamilyKnown
<1>5. OthersWait({r})
  BY DEF OthersWait, AuthEnd, AuthGoto, AuthInv, AuthTypeOK
<1> QED BY <1>1, <1>2, <1>3, <1>4, <1>5 DEF MovedOK, Unnamed

\* Tables that stay as they are.
LEMMA RowsStay ==
    ASSUME NEW R
    PROVE  (UNCHANGED session => SessionsFade(R)) /\ (UNCHANGED family => FamiliesFade(R))
  BY DEF SessionsFade, FamiliesFade

\* Sessions deleted.
LEMMA RowsGo ==
    ASSUME NEW R, NEW T, session' = Delete(session, T)
    PROVE  /\ SessionsFade(R)
           /\ \A t \in DOMAIN session' : t \in DOMAIN session /\ session'[t].family = session[t].family
  BY DEF SessionsFade, Delete

LEMMA LoginEffect ==
    ASSUME AuthInv, AuthTypeOK', NEW r \in AuthRequests, LoginStep(r)
    PROVE  Effect({r})
<1> USE DEF AuthInv, Effect
<1>a. r # NoToken /\ r # LegacyToken
  BY AuthAssumption
<1>1. CASE LoginRead(r)
  <2>1. /\ authPc[r] = "idle" /\ authPc'[r] \in {"count", "reset"} /\ authReq'[r] = [authReq[r] EXCEPT !.user = account]
        /\ OthersWait({r}) /\ ~ IsLocked(account)
    BY <1>1 DEF LoginRead, AuthIdle, AuthGoto, AuthTypeOK, OthersWait
  <2>2. MovedOK(r)
    BY <1>1, <2>1 DEF LoginRead, MovedOK, RequestOK, AccessOK, NamesFresh, Unnamed, AuthTypeOK, AuthLocals
  <2> QED BY <1>1, <2>1, <2>2, RowsStay DEF LoginRead
<1>2. CASE IncrementFailedAttempts(r)
  BY <1>2, EndsOK, RowsStay DEF IncrementFailedAttempts, AuthAt, AuthGoto, AuthKeep, OthersWait, MovedOK,
     RequestOK, AccessOK, NamesFresh, Unnamed, AuthTypeOK, UserORM, IsLocked
<1>3. CASE CheckFailedAttempts(r)
  BY <1>3, EndsOK, RowsStay DEF CheckFailedAttempts, AuthAt, AuthGoto, AuthKeep, OthersWait, MovedOK,
     RequestOK, AccessOK, NamesFresh, Unnamed, AuthTypeOK
<1>4. CASE LockAccount(r)
  BY <1>4, EndsOK, RowsStay DEF LockAccount, AuthAt, AuthTypeOK, UserORM, IsLocked
<1>5. CASE ResetFailedAttempts(r)
  <2>1. ~ account'.exists => ~ IsLocked(account')
    BY <1>5 DEF ResetFailedAttempts, Reset, AuthTypeOK, UserORM, IsLocked
  <2> QED BY <1>5, <2>1, RowsStay DEF ResetFailedAttempts, AuthAt, AuthGoto, AuthKeep, OthersWait, MovedOK,
     RequestOK, AccessOK, NamesFresh, Unnamed, AuthTypeOK
<1>6. CASE CreateFamily(r)
  <2>1. FamiliesFade({r})
    BY <1>6 DEF CreateFamily, AuthAt, FamiliesFade, Insert, Unnamed
  <2> QED BY <1>6, <2>1, EndsOK, RowsStay DEF CreateFamily, AuthAt, AuthGoto, AuthKeep, OthersWait, MovedOK,
     RequestOK, AccessOK, NamesFresh, Unnamed, AuthTypeOK
<1>7. CASE CreateSession(r)
  <2>1. SessionsFade({r})
    BY <1>7 DEF CreateSession, SessionsFade, Insert
  <2>2. r \notin DOMAIN session
    BY <1>7 DEF CreateSession, AuthAt, NamesFresh
  <2>3. CASE AuthEnd(r) /\ UNCHANGED session
    BY <1>7, <2>1, <2>2, <2>3, EndsOK, RowsStay DEF CreateSession, AuthAt
  <2>4. CASE ~ (AuthEnd(r) /\ UNCHANGED session)
    <3>1. /\ authPc[r] = "session" /\ authPc'[r] = "answer" /\ UNCHANGED <<authReq, issued>>
          /\ session'[r].family = r /\ OthersWait({r})
      BY <1>7, <2>4 DEF CreateSession, AuthAt, AuthGoto, AuthKeep, OthersWait, Insert, AuthTypeOK
    <3>2. RequestOK(r)'
      BY <3>1 DEF RequestOK, AccessOK
    <3>3. MovedOK(r)
      BY <3>1, <3>2, <1>a DEF MovedOK, Unnamed, NamesFresh
    <3> QED BY <1>7, <2>1, <3>1, <3>3, RowsStay DEF CreateSession
  <2> QED BY <2>3, <2>4
<1>8. CASE LoginAnswer(r)
  BY <1>8, EndsOK, RowsStay DEF LoginAnswer, AuthAt, AuthEnd, AuthGoto, AuthTypeOK
<1> QED BY <1>1, <1>2, <1>3, <1>4, <1>5, <1>6, <1>7, <1>8 DEF LoginStep

LEMMA AccessEffect ==
    ASSUME AuthInv, AuthTypeOK', NEW r \in AuthRequests, AccessStep(r)
    PROVE  Effect({r})
<1> USE DEF AuthInv, Effect
<1>a. r # NoToken /\ r # LegacyToken
  BY AuthAssumption
<1>1. ASSUME NEW t \in issued, NEW up \in BOOLEAN, AccessRead(r, t, up)
      PROVE  Effect({r})
  <2>1. CASE AuthEnd(r)
    BY <1>1, <2>1, EndsOK, RowsStay, RowsGo DEF AccessRead, AuthIdle
  <2>2. CASE ~ AuthEnd(r)
    <3> DEFINE a == Alive(t)
    <3>1. /\ authPc[r] = "idle" /\ authPc'[r] = "gate" /\ OthersWait({r}) /\ UNCHANGED session
          /\ authReq'[r] = [authReq[r] EXCEPT !.token = t, !.family = session[t].family, !.alive = a]
          /\ t \in DOMAIN session /\ ~ session[t].expired
      BY <1>1, <2>2 DEF AccessRead, AuthIdle, AuthGoto, OthersWait, AuthTypeOK
    <3>2. a \/ ClosedByFamily(session[t].family)
      BY <3>1 DEF Alive, ClosedByFamily
    <3>3. t # NoToken /\ authReq[r] \in AuthLocals
      BY AuthAssumption DEF AuthTypeOK, Tokens
    <3> HIDE DEF a
    <3>4. authReq'[r].token = t /\ authReq'[r].family = session[t].family /\ authReq'[r].alive = a
      BY <3>1, <3>3 DEF AuthLocals
    <3>5. RequestOK(r)'
      <4>1. ClosedByFamily(session[t].family) => ClosedByFamily(authReq[r].family)'
        BY <1>1, <3>1, <3>4 DEF AccessRead, ClosedByFamily, FamilyRevoked
      <4> QED BY <1>1, <3>1, <3>2, <3>3, <3>4, <4>1 DEF AccessRead, RequestOK, AccessOK
    <3>6. MovedOK(r)
      BY <1>1, <3>1, <3>4, <3>5 DEF AccessRead, MovedOK, Unnamed, NamesFresh
    <3> QED BY <1>1, <3>1, <3>6, RowsStay DEF AccessRead
  <2> QED BY <2>1, <2>2
<1>2. CASE AccessGate(r)
  <2>1. CASE AuthEnd(r)
    BY <1>2, <2>1, EndsOK, RowsStay, RowsGo DEF AccessGate, AuthAt
  <2>2. CASE ~ AuthEnd(r)
    <3>1. /\ authPc[r] = "gate" /\ authPc'[r] = "loadUser" /\ OthersWait({r}) /\ UNCHANGED <<session, authReq>>
          /\ ~ ClosedByFamily(authReq[r].family)
      BY <1>2, <2>2 DEF AccessGate, AuthAt, AuthGoto, AuthKeep, OthersWait, AuthTypeOK
    <3>2. MovedOK(r)
      BY <1>2, <3>1 DEF AccessGate, MovedOK, RequestOK, AccessOK, Unnamed, NamesFresh
    <3> QED BY <1>2, <3>1, <3>2, RowsStay DEF AccessGate
  <2> QED BY <2>1, <2>2
<1>3. CASE AccessUser(r)
  <2>1. CASE AuthEnd(r)
    BY <1>3, <2>1, EndsOK, RowsStay DEF AccessUser, AuthAt
  <2>2. CASE ~ AuthEnd(r)
    <3>1. authPc[r] = "loadUser" /\ authPc'[r] = "admitted" /\ OthersWait({r}) /\ UNCHANGED authReq
      BY <1>3, <2>2 DEF AccessUser, AuthAt, AuthGoto, AuthKeep, OthersWait, AuthTypeOK
    <3>2. MovedOK(r)
      BY <1>3, <3>1 DEF AccessUser, MovedOK, RequestOK, AccessOK, Unnamed, NamesFresh
    <3> QED BY <1>3, <3>1, <3>2, RowsStay DEF AccessUser
  <2> QED BY <2>1, <2>2
<1>4. CASE Revoke(r)
  <2>1. MovedOK(r)
    BY <1>4 DEF Revoke, AuthAt, MovedOK, RequestOK, AccessOK, Unnamed, NamesFresh
  <2> QED BY <1>4, <2>1, RowsStay DEF Revoke, OthersWait
<1> QED BY <1>1, <1>2, <1>3, <1>4 DEF AccessStep

LEMMA RefreshEffect ==
    ASSUME AuthInv, AuthTypeOK', NEW r \in AuthRequests, RefreshStep(r)
    PROVE  Effect({r})
<1> USE DEF AuthInv, Effect
<1>a. r # NoToken /\ r # LegacyToken
  BY AuthAssumption
<1>1. ASSUME NEW t \in issued, RefreshRead(r, t)
      PROVE  Effect({r})
  <2>1. CASE AuthEnd(r)
    BY <1>1, <2>1, EndsOK, RowsStay DEF RefreshRead, AuthIdle
  <2>2. CASE ~ AuthEnd(r)
    <3>1. /\ authPc[r] = "idle" /\ OthersWait({r}) /\ t \in DOMAIN session
          /\ authPc'[r] = IF session[t].family = NoToken THEN "migrate" ELSE "check"
          /\ authReq'[r] = [authReq[r] EXCEPT !.token = t, !.seq = session[t].seq,
                              !.family = session[t].family, !.user = account]
      BY <1>1, <2>2 DEF RefreshRead, AuthIdle, AuthGoto, OthersWait, AuthTypeOK
    <3>2. /\ authReq'[r].token = t /\ authReq'[r].family = session[t].family
          /\ authReq'[r].alive = authReq[r].alive
      BY <3>1 DEF AuthTypeOK, AuthLocals
    <3>3. RequestOK(r)'
      BY <1>1, <3>1, <3>2 DEF RefreshRead, RequestOK, AccessOK, FamilyKnown
    <3>4. MovedOK(r)
      BY <1>1, <1>a, <3>1, <3>2, <3>3 DEF RefreshRead, MovedOK, Unnamed, NamesFresh
    <3> QED BY <1>1, <3>1, <3>4, RowsStay DEF RefreshRead
  <2> QED BY <2>1, <2>2
<1>2. CASE MigrateFamily(r)
  <2>1. FamiliesFade({r})
    BY <1>2 DEF MigrateFamily, AuthAt, FamiliesFade, Insert, Unnamed
  <2>2. CASE AuthEnd(r)
    BY <1>2, <2>1, <2>2, EndsOK, RowsStay DEF MigrateFamily, AuthAt
  <2>3. CASE ~ AuthEnd(r)
    <3>1. /\ authPc[r] = "migrate" /\ OthersWait({r}) /\ authPc'[r] = "relabel"
          /\ authReq'[r] = [authReq[r] EXCEPT !.family = r]
      BY <1>2, <2>3 DEF MigrateFamily, AuthAt, AuthGoto, OthersWait, AuthTypeOK
    <3>2. /\ authReq'[r].token = authReq[r].token /\ authReq'[r].family = r
          /\ authReq'[r].alive = authReq[r].alive
      BY <3>1 DEF AuthTypeOK, AuthLocals
    <3>3. MovedOK(r)
      BY <1>2, <3>1, <3>2 DEF MigrateFamily, MovedOK, RequestOK, AccessOK, Unnamed, NamesFresh
    <3> QED BY <1>2, <2>1, <3>1, <3>3, RowsStay DEF MigrateFamily
  <2> QED BY <2>2, <2>3
<1>3. CASE MigrateSession(r)
  <2>1. authReq[r].token = LegacyToken /\ authPc[r] = "relabel"
    BY <1>3 DEF MigrateSession, AuthAt, RequestOK
  <2>2. SessionsFade({r}) /\ DOMAIN session' = DOMAIN session
    BY <1>3, <2>1 DEF MigrateSession, SessionsFade, AuthTypeOK, SessionORM
  <2>3. r \notin DOMAIN session'
    BY <2>1, <2>2 DEF NamesFresh
  <2>4. CASE AuthEnd(r)
    BY <1>3, <2>1, <2>2, <2>3, <2>4, EndsOK, RowsStay DEF MigrateSession
  <2>5. CASE ~ AuthEnd(r)
    <3>1. /\ OthersWait({r}) /\ authPc'[r] = "check" /\ authReq'[r] = [authReq[r] EXCEPT !.seq = 0]
      BY <1>3, <2>5 DEF MigrateSession, AuthAt, AuthGoto, OthersWait, AuthTypeOK
    <3>2. /\ authReq'[r].token = authReq[r].token /\ authReq'[r].family = authReq[r].family
          /\ authReq'[r].alive = authReq[r].alive
      BY <3>1 DEF AuthTypeOK, AuthLocals
    <3>3. MovedOK(r)
      BY <1>3, <2>1, <2>3, <3>1, <3>2 DEF MigrateSession, MovedOK, RequestOK, AccessOK, Unnamed, NamesFresh
    <3> QED BY <1>3, <2>2, <3>1, <3>3, RowsStay DEF MigrateSession
  <2> QED BY <2>4, <2>5
<1>4. CASE RefreshCheck(r)
  <2>1. CASE AuthEnd(r)
    BY <1>4, <2>1, EndsOK, RowsStay DEF RefreshCheck, AuthAt
  <2>2. CASE ~ AuthEnd(r)
    <3>1. /\ authPc[r] = "check" /\ OthersWait({r}) /\ authPc'[r] \in {"compromise", "rotate"}
          /\ authReq'[r] = [authReq[r] EXCEPT !.famSeq = family[authReq[r].family].seq]
      BY <1>4, <2>2 DEF RefreshCheck, AuthAt, AuthGoto, OthersWait, AuthTypeOK
    <3>2. /\ authReq'[r].token = authReq[r].token /\ authReq'[r].family = authReq[r].family
          /\ authReq'[r].alive = authReq[r].alive
      BY <3>1 DEF AuthTypeOK, AuthLocals
    <3>3. MovedOK(r)
      BY <1>4, <3>1, <3>2 DEF RefreshCheck, MovedOK, RequestOK, AccessOK, Unnamed, NamesFresh
    <3> QED BY <1>4, <3>1, <3>3, RowsStay DEF RefreshCheck
  <2> QED BY <2>1, <2>2
<1>5. CASE CompromiseFamily(r)
  <2>1. FamiliesFade({r})
    BY <1>5 DEF CompromiseFamily, FamiliesFade, AuthTypeOK, TokenFamilyORM
  <2>2. MovedOK(r) /\ OthersWait({r})
    BY <1>5 DEF CompromiseFamily, AuthAt, AuthGoto, AuthKeep, OthersWait, MovedOK, RequestOK, AccessOK,
       Unnamed, NamesFresh, AuthTypeOK
  <2> QED BY <1>5, <2>1, <2>2, RowsStay DEF CompromiseFamily
<1>6. CASE DeleteSessionsByFamily(r)
  BY <1>6, EndsOK, RowsStay, RowsGo DEF DeleteSessionsByFamily, AuthAt
<1>7. CASE IncrementSequence(r)
  <2>1. FamiliesFade({r})
    BY <1>7 DEF IncrementSequence, FamiliesFade, AuthTypeOK, TokenFamilyORM
  <2>2. MovedOK(r) /\ OthersWait({r})
    BY <1>7, EndsOK DEF IncrementSequence, AuthAt, AuthGoto, AuthKeep, OthersWait, MovedOK, RequestOK, AccessOK,
       Unnamed, NamesFresh, AuthTypeOK
  <2> QED BY <1>7, <2>1, <2>2, RowsStay DEF IncrementSequence
<1>8. CASE ReloadSession(r)
  <2>1. MovedOK(r) /\ OthersWait({r})
    BY <1>8, EndsOK DEF ReloadSession, AuthAt, AuthGoto, AuthKeep, OthersWait, MovedOK, RequestOK, AccessOK,
       Unnamed, NamesFresh, AuthTypeOK
  <2> QED BY <1>8, <2>1, RowsStay DEF ReloadSession
<1>9. CASE DeleteSession(r)
  <2>1. /\ authPc[r] = "drop" /\ authPc'[r] = "create" /\ UNCHANGED authReq /\ OthersWait({r})
        /\ session' = Delete(session, {authReq[r].token})
    BY <1>9 DEF DeleteSession, WithoutOld, AuthAt, AuthGoto, AuthKeep, OthersWait, AuthTypeOK
  <2>2. authReq[r].token \notin DOMAIN session' /\ r \notin DOMAIN session'
    BY <2>1 DEF Delete, NamesFresh
  <2>3. MovedOK(r)
    BY <1>9, <2>1, <2>2 DEF DeleteSession, MovedOK, RequestOK, AccessOK, Unnamed, NamesFresh
  <2> QED BY <1>9, <2>1, <2>3, RowsStay, RowsGo DEF DeleteSession
<1>10. CASE CreateSuccessor(r)
  <2> DEFINE f == authReq[r].family
  <2>1. /\ authPc[r] = "create" /\ authPc'[r] = "done" /\ OthersWait({r})
        /\ UNCHANGED <<authReq, issued>>
    BY <1>10 DEF CreateSuccessor, AuthAt, AuthGoto, AuthKeep, OthersWait, AuthTypeOK
  <2>2. SessionsFade({r})
    BY <1>10 DEF CreateSuccessor, SessionsFade, Insert
  <2>3. r \notin DOMAIN session /\ r \notin issued
    BY <2>1 DEF NamesFresh
  <2>4. /\ DOMAIN session' \subseteq DOMAIN session \cup {r}
        /\ r \in DOMAIN session' => session'[r].family = f /\ f # NoToken
    BY <1>10, <2>3, AuthAssumption DEF CreateSuccessor, Insert, AuthTypeOK, Tokens
  <2>5. RequestOK(r)'
    BY <2>1, <2>3, <2>4, <1>a DEF RequestOK, AccessOK
  <2>6. MovedOK(r)
    BY <2>1, <2>3, <2>4, <2>5 DEF MovedOK, Unnamed
  <2> QED BY <1>10, <2>1, <2>2, <2>6, RowsStay DEF CreateSuccessor
<1> QED BY <1>1, <1>2, <1>3, <1>4, <1>5, <1>6, <1>7, <1>8, <1>9, <1>10 DEF RefreshStep

LEMMA LeavingEffect ==
    ASSUME AuthInv, AuthTypeOK', NEW r \in AuthRequests,
           LogoutStep(r) \/ LogoutAllStep(r) \/ EraseStep(r) \/ CleanupStep(r)
    PROVE  Effect({r})
<1> USE DEF AuthInv, Effect
<1>1. ASSUME NEW t \in issued, Logout(r, t)
      PROVE  Effect({r})
  BY <1>1, EndsOK, RowsStay, RowsGo DEF Logout, AuthIdle
<1>2. ASSUME NEW erase \in BOOLEAN, DeleteSessionsByEmail(r, erase)
      PROVE  Effect({r})
  <2>1. /\ authPc[r] = "idle" /\ authPc'[r] = "families" /\ OthersWait({r}) /\ DOMAIN session' = {}
        /\ authReq'[r] = [authReq[r] EXCEPT !.erase = erase]
    BY <1>2 DEF DeleteSessionsByEmail, AuthIdle, AuthGoto, OthersWait, AuthTypeOK
  <2>2. /\ authReq'[r].token = authReq[r].token /\ authReq'[r].family = authReq[r].family
        /\ authReq'[r].alive = authReq[r].alive
    BY <2>1 DEF AuthTypeOK, AuthLocals
  <2>3. MovedOK(r)
    BY <1>2, <2>1, <2>2 DEF DeleteSessionsByEmail, MovedOK, RequestOK, AccessOK, Unnamed, NamesFresh
  <2> QED BY <1>2, <2>1, <2>3, RowsStay DEF DeleteSessionsByEmail, SessionsFade
<1>3. CASE DeleteFamiliesByEmail(r)
  <2>1. FamiliesFade({r})
    BY <1>3 DEF DeleteFamiliesByEmail, FamiliesFade
  <2>2. MovedOK(r) /\ OthersWait({r})
    BY <1>3, EndsOK DEF DeleteFamiliesByEmail, AuthAt, AuthGoto, AuthKeep, OthersWait, MovedOK, RequestOK, AccessOK,
       Unnamed, NamesFresh, AuthTypeOK
  <2> QED BY <1>3, <2>1, <2>2, RowsStay DEF DeleteFamiliesByEmail
<1>4. CASE Pseudonymise(r)
  <2>1. ~ account'.exists => ~ IsLocked(account')
    BY <1>4 DEF Pseudonymise, NoUser, UserRow, IsLocked
  <2> QED BY <1>4, <2>1, EndsOK, RowsStay DEF Pseudonymise, AuthAt
<1>5. CASE DeleteExpiredSessions(r)
  <2>1. /\ authPc[r] = "idle" /\ authPc'[r] = "orphans" /\ OthersWait({r})
        /\ authReq'[r].token = authReq[r].token /\ authReq'[r].family = authReq[r].family
        /\ authReq'[r].alive = authReq[r].alive
    BY <1>5 DEF DeleteExpiredSessions, AuthIdle, AuthGoto, OthersWait, AuthTypeOK, AuthLocals
  <2>2. r \notin DOMAIN session'
    BY <1>5, <2>1, RowsGo DEF DeleteExpiredSessions, NamesFresh
  <2>3. MovedOK(r)
    BY <1>5, <2>1, <2>2 DEF DeleteExpiredSessions, MovedOK, RequestOK, AccessOK, Unnamed, NamesFresh
  <2> QED BY <1>5, <2>1, <2>3, RowsStay, RowsGo DEF DeleteExpiredSessions
<1>6. CASE DeleteOrphanedFamilies(r)
  <2>1. FamiliesFade({r})
    BY <1>6 DEF DeleteOrphanedFamilies, FamiliesFade, Delete
  <2> QED BY <1>6, <2>1, EndsOK, RowsStay DEF DeleteOrphanedFamilies, AuthAt
<1> QED BY <1>1, <1>2, <1>3, <1>4, <1>5, <1>6
        DEF LogoutStep, LogoutAllStep, EraseStep, CleanupStep

\* The steps of requests, and those of time.
RequestStep(r) ==
    \/ Register(r) \/ AdminCreateUser(r) \/ LoginStep(r) \/ AccessStep(r)
    \/ Impersonate(r) \/ ImpersonatedAccess(r) \/ RefreshStep(r)
    \/ LogoutStep(r) \/ LogoutAllStep(r) \/ EraseStep(r) \/ CleanupStep(r)
    \/ AuthCrash(r)

ClockStep == (\E t \in Tokens : SessionExpires(t)) \/ LockExpires \/ ImpersonationExpires

LEMMA RequestEffect ==
    ASSUME AuthInv, AuthTypeOK', NEW r \in AuthRequests, RequestStep(r)
    PROVE  Effect({r})
<1>1. CASE Register(r)
  <2>1. ~ account'.exists => ~ IsLocked(account')
    BY <1>1 DEF Register, Registered, UserRow, IsLocked, AuthInv
  <2> QED BY <1>1, <2>1, EndsOK, RowsStay DEF Register, AuthIdle, Effect
<1>2. CASE Impersonate(r)
  BY <1>2, EndsOK, RowsStay DEF Impersonate, AuthIdle, Effect, AuthInv
<1>3. CASE ImpersonatedAccess(r)
  <2>1. MovedOK(r) /\ OthersWait({r})
    BY <1>3 DEF ImpersonatedAccess, AuthIdle, AuthGoto, AuthKeep, OthersWait, MovedOK, RequestOK, AccessOK,
       Unnamed, NamesFresh, AuthInv, AuthTypeOK
  <2> QED BY <1>3, <2>1, RowsStay DEF ImpersonatedAccess, Effect, AuthInv
<1>4. CASE AuthCrash(r)
  BY <1>4, EndsOK, RowsStay DEF AuthCrash, Effect, AuthInv
<1> QED BY <1>1, <1>2, <1>3, <1>4, LoginEffect, AccessEffect, RefreshEffect, LeavingEffect
        DEF RequestStep, AdminCreateUser

LEMMA ClockEffect ==
    ASSUME AuthInv, ClockStep \/ UNCHANGED authVars
    PROVE  Effect({})
<1> USE DEF ClockStep, SessionExpires, LockExpires, ImpersonationExpires, authVars, AuthInv
<1>1. SessionsFade({})
  BY DEF SessionsFade, AuthTypeOK, SessionORM
<1>2. ~ account'.exists => ~ IsLocked(account')
  BY DEF IsLocked, AuthTypeOK, UserORM
<1> QED BY <1>1, <1>2, RowsStay DEF OthersWait, Effect

\* Every step has the shape of Effect, for the request that takes it or, when
\* time passes, for none.
LEMMA StepEffect ==
    ASSUME AuthInv, AuthTypeOK', [AuthNext]_authVars
    PROVE  \E R \in SUBSET AuthRequests : Effect(R) /\ \A r, q \in R : r = q
<1>1. ASSUME NEW r \in AuthRequests, RequestStep(r)
      PROVE  \E R \in SUBSET AuthRequests : Effect(R) /\ \A p, q \in R : p = q
  <2>1. Effect({r})
    BY <1>1, RequestEffect
  <2> QED BY <2>1
<1>2. CASE ClockStep \/ UNCHANGED authVars
  <2>1. Effect({})
    BY <1>2, ClockEffect
  <2> QED BY <2>1
<1> QED BY <1>1, <1>2 DEF AuthNext, RequestStep, ClockStep

LEMMA AuthInvStep == AuthInv /\ [AuthNext]_authVars => AuthInv'
<1> SUFFICES ASSUME AuthInv, [AuthNext]_authVars PROVE AuthInv'
  OBVIOUS
<1>1. AuthTypeOK'
  BY AuthTypesStep DEF AuthInv
<1>2. PICK R \in SUBSET AuthRequests : Effect(R) /\ \A r, q \in R : r = q
  BY <1>1, StepEffect
<1> QED BY <1>1, <1>2, EffectKeepsInv

\* Names, sessions and requests stay in order, whatever overlaps.
THEOREM AuthInvariance == AuthSpec => []AuthInv
  BY AuthInvInit, AuthInvStep, PTL DEF AuthSpec

\* _refresh_with_db: a token whose successor was stored has no session any
\* more, however refreshes, migrations, logouts and clean-ups overlap.
THEOREM RotatedStaysGone == AuthSpec => []RotatedTokenGone
<1>1. AuthInv => RotatedTokenGone
  BY DEF AuthInv, RequestOK, RotatedTokenGone
<1> QED BY AuthInvariance, <1>1, PTL

-----------------------------------------------------------------------------
(* The lock of an account                                                  *)

\* The steps that write the users row.
LEMMA AccountWriters ==
    ASSUME [AuthNext]_authVars
    PROVE  \/ UNCHANGED account
           \/ LockExpires
           \/ \E r \in AuthRequests : \/ Register(r) \/ IncrementFailedAttempts(r) \/ LockAccount(r)
                                      \/ ResetFailedAttempts(r) \/ Pseudonymise(r)
<1>1. CASE UNCHANGED authVars
  BY <1>1 DEF authVars
<1>2. CASE AuthNext
  BY <1>2 DEF AuthNext, LoginStep, AccessStep, RefreshStep, LogoutStep, LogoutAllStep, EraseStep, CleanupStep,
     AdminCreateUser, LoginRead, CheckFailedAttempts, CreateFamily, CreateSession, LoginAnswer, AccessRead,
     AccessGate, AccessUser, Revoke, Impersonate, ImpersonatedAccess, RefreshRead, MigrateFamily,
     MigrateSession, RefreshCheck, CompromiseFamily, DeleteSessionsByFamily, IncrementSequence,
     ReloadSession, DeleteSession, CreateSuccessor, Logout, DeleteSessionsByEmail, DeleteFamiliesByEmail,
     DeleteExpiredSessions, DeleteOrphanedFamilies, AuthCrash, SessionExpires, ImpersonationExpires
<1> QED BY <1>1, <1>2

\* The condition of LockSurvivesLogin on one step.
LockKept ==
    IsLocked(account) /\ account'.locked = "none" =>
        \/ ~account'.exists
        \/ \E r \in AuthRequests :
              /\ AuthAt(r, "reset")
              /\ authReq[r].user.locked = "past" \/ authReq[r].user.row # account.row

LEMMA LockStep == AuthInv /\ [AuthNext]_authVars => [LockKept]_authVars
<1> SUFFICES ASSUME AuthInv, [AuthNext]_authVars, IsLocked(account), account'.locked = "none"
             PROVE  \/ ~account'.exists
                    \/ \E r \in AuthRequests :
                          /\ AuthAt(r, "reset")
                          /\ authReq[r].user.locked = "past" \/ authReq[r].user.row # account.row
  BY DEF LockKept
<1> USE DEF IsLocked, AuthInv, AuthTypeOK, UserORM
<1>1. account.locked = "future" /\ account.exists
  OBVIOUS
<1>2. account' # account /\ ~ LockExpires
  BY <1>1 DEF LockExpires
<1>3. ASSUME NEW r \in AuthRequests, Register(r) \/ IncrementFailedAttempts(r) \/ LockAccount(r)
      PROVE  FALSE
  BY <1>1, <1>2, <1>3 DEF Register, Registered, IncrementFailedAttempts, LockAccount
<1>4. ASSUME NEW r \in AuthRequests, Pseudonymise(r)
      PROVE  ~account'.exists
  BY <1>2, <1>4 DEF Pseudonymise, NoUser, UserRow
<1>5. ASSUME NEW r \in AuthRequests, ResetFailedAttempts(r)
      PROVE  AuthAt(r, "reset") /\ (authReq[r].user.locked = "past" \/ authReq[r].user.row # account.row)
  <2>1. AuthAt(r, "reset") /\ account' = Reset(Loaded(r)) /\ RequestOK(r)
    BY <1>1, <1>5 DEF ResetFailedAttempts
  <2>2. Loaded(r).locked # "none"
    BY <1>1, <2>1 DEF Reset
  <2>3. authReq[r].user.locked \in LockTimes /\ authReq[r].user.locked # "future"
    BY <2>1 DEF AuthLocals, RequestOK, AuthAt
  <2> QED BY <2>1, <2>2, <2>3 DEF Loaded, LockTimes
<1> QED BY <1>2, <1>3, <1>4, <1>5, AccountWriters

\* A lock in force is not cleared by a login that had read the account before
\* the lock was set, whatever the logins, erasures and registrations do
\* between its read and its write (reset_failed_attempts).
THEOREM LockOutlivesLogins == AuthSpec => LockSurvivesLogin
<1>1. AuthInv /\ [AuthNext]_authVars => [LockKept]_authVars
  BY LockStep
<1> QED BY <1>1, AuthInvariance, PTL DEF AuthSpec, LockSurvivesLogin, LockKept

-----------------------------------------------------------------------------
(* The promise of TokenLife                                                *)

\* The abstract state, under the mapping of the instance Life.
Dead == {t \in Governed : ~ Alive(t)}
Arrived == [r \in AuthRequests |->
               IF r \in Bearers /\ authReq[r].alive THEN authReq[r].token ELSE NoToken]
Admitted == {r \in Bearers : authPc[r] = "admitted"}

LEMMA LifeInit == AuthInit => Life!Init
<1> SUFFICES ASSUME AuthInit PROVE Life!Init
  OBVIOUS
<1>1. Governed = {FirstToken} /\ FirstToken \in Tokens
  BY AuthAssumption DEF AuthInit, Governed, Tokens
<1>2. Alive(FirstToken)
  BY AuthAssumption DEF AuthInit, Alive, FamilyRevoked
<1>3. \A r \in AuthRequests : authReq[r].token = NoToken
  BY DEF AuthInit, NoLocals
<1>4. Bearers = {}
  BY <1>1, <1>3, AuthAssumption DEF Bearers
<1> QED BY <1>1, <1>2, <1>4 DEF Life!Init

\* A token that has died stays dead: its session does not come back under its
\* name, an expired one stays expired, its family stays the same, and a family
\* that is compromised or deleted remains so.
LEMMA DeathIsFinal ==
    ASSUME AuthInv, NEW R \in SUBSET AuthRequests, Effect(R),
           NEW t \in Governed, ~ Alive(t)
    PROVE  ~ Alive(t)'
<1> SUFFICES ASSUME t \in DOMAIN session', ~ session'[t].expired
             PROVE  session'[t].family # NoToken /\ FamilyRevoked(session[t].family)'
  BY DEF Alive, FamilyRevoked
<1>1. t \notin R /\ t # LegacyToken
  BY DEF Effect, MovedOK, AuthInv, NamesFresh, Governed
<1>2. t \in DOMAIN session /\ ~ session[t].expired /\ session'[t].family = session[t].family
  BY <1>1 DEF Effect, SessionsFade
<1>3. session[t].family # NoToken /\ FamilyRevoked(session[t].family)
  BY <1>2 DEF Alive
<1>4. \A f \in R : authPc[f] \in Unnamed => session[t].family # f
  BY <1>2 DEF AuthInv, NamesFresh
<1> QED BY <1>2, <1>3, <1>4 DEF FamilyRevoked, Effect, FamiliesFade

\* Requests that do not move neither arrive, nor leave, nor are let in.
LEMMA OthersStay ==
    ASSUME AuthInv, AuthTypeOK', NEW R \in SUBSET AuthRequests, Effect(R), NEW q \in AuthRequests \ R
    PROVE  /\ Arrived'[q] = Arrived[q]
           /\ q \in Admitted' <=> q \in Admitted
<1>1. authPc'[q] = authPc[q] /\ authReq'[q] = authReq[q]
  BY DEF Effect, OthersWait
<1>2. authReq[q].token \in issued \cup {NoToken}
  BY DEF AuthInv, RequestOK
<1>3. NoToken \notin issued /\ NoToken \notin issued'
  BY AuthAssumption DEF AuthInv, AuthTypeOK, Tokens
<1>4. authReq'[q].token \in issued' <=> authReq[q].token \in issued
  BY <1>1, <1>2, <1>3 DEF Effect
<1>5. q \in Bearers' <=> q \in Bearers
  BY <1>1, <1>4 DEF Bearers, Governed
<1> QED BY <1>1, <1>5 DEF Arrived, Admitted

\* A step that moves no request into or out of the access path only lets tokens die.
LEMMA LifeDies ==
    ASSUME AuthInv, AuthTypeOK', NEW R \in SUBSET AuthRequests, Effect(R), UNCHANGED issued,
           \A r \in R : Arrived'[r] = Arrived[r] /\ (r \in Admitted' <=> r \in Admitted)
    PROVE  Life!Next
<1>1. Governed' = Governed
  BY DEF Governed
<1>2. Dead \subseteq Dead' /\ Dead' \subseteq Governed
  BY <1>1, DeathIsFinal DEF Dead
<1>3. \A q \in AuthRequests : Arrived'[q] = Arrived[q] /\ (q \in Admitted' <=> q \in Admitted)
  BY OthersStay
<1>4. Arrived' = Arrived
  BY <1>3 DEF Arrived
<1>5. Admitted' = Admitted
  BY <1>3 DEF Admitted, Bearers
<1>6. Dead' = Dead \cup Dead'
  BY <1>2
<1>7. Life!Die
  BY <1>1, <1>2, <1>4, <1>5, <1>6 DEF Life!Die, Dead, Arrived, Admitted
<1> QED BY <1>7 DEF Life!Next

AccessSteps == {"gate", "loadUser", "admitted"}

\* A request outside the access path has not arrived with a token.
LEMMA NotArrived ==
    ASSUME AuthInv, NEW r \in AuthRequests, authPc[r] \notin AccessSteps
    PROVE  Arrived[r] = NoToken /\ r \notin Admitted
  BY DEF AuthInv, RequestOK, AccessOK, AccessSteps, Arrived, Admitted

\* What a request does when it is not on the access path.
LEMMA OffAccess ==
    ASSUME AuthTypeOK, NEW r \in AuthRequests,
           \/ Register(r) \/ LoginStep(r) \/ Impersonate(r) \/ RefreshStep(r)
           \/ LogoutStep(r) \/ LogoutAllStep(r) \/ EraseStep(r) \/ CleanupStep(r)
    PROVE  /\ authPc[r] \notin AccessSteps /\ authPc'[r] \notin AccessSteps
           /\ UNCHANGED issued \/ LoginAnswer(r)
<1> USE DEF AuthTypeOK, AccessSteps, AuthAt, AuthIdle, AuthGoto, AuthEnd
<1>1. CASE Register(r) \/ Impersonate(r)
  BY <1>1 DEF Register, Impersonate
<1>2. CASE LoginStep(r)
  BY <1>2 DEF LoginStep, LoginRead, IncrementFailedAttempts, CheckFailedAttempts, LockAccount,
     ResetFailedAttempts, CreateFamily, CreateSession, LoginAnswer
<1>3. CASE RefreshStep(r)
  BY <1>3 DEF RefreshStep, RefreshRead, MigrateFamily, MigrateSession, RefreshCheck, CompromiseFamily,
     DeleteSessionsByFamily, IncrementSequence, ReloadSession, DeleteSession, CreateSuccessor
<1>4. CASE LogoutStep(r) \/ LogoutAllStep(r) \/ EraseStep(r) \/ CleanupStep(r)
  BY <1>4 DEF LogoutStep, LogoutAllStep, EraseStep, CleanupStep, Logout, DeleteSessionsByEmail,
     DeleteFamiliesByEmail, Pseudonymise, DeleteExpiredSessions, DeleteOrphanedFamilies
<1> QED BY <1>1, <1>2, <1>3, <1>4

\* The answer of a login hands out the token.
LEMMA LifeIssues ==
    ASSUME AuthInv, AuthInv', NEW r \in AuthRequests, LoginAnswer(r), Effect({r})
    PROVE  Life!Next
<1>1. authPc[r] = "answer" /\ authPc'[r] = "done" /\ r \notin issued /\ r # LegacyToken
  BY AuthAssumption DEF LoginAnswer, AuthAt, AuthEnd, AuthGoto, AuthInv, AuthTypeOK, NamesFresh
<1>2. Governed' = Governed \cup {r} /\ r \notin Governed
  BY <1>1 DEF LoginAnswer, Governed
<1>3. \A q \in AuthRequests : Arrived'[q] = Arrived[q] /\ (q \in Admitted' <=> q \in Admitted)
  <2>1. Arrived'[r] = NoToken /\ r \notin Admitted' /\ Arrived[r] = NoToken /\ r \notin Admitted
    BY <1>1, NotArrived DEF AccessSteps, AuthInv, RequestOK, AccessOK, Arrived, Admitted
  <2>2. \A q \in AuthRequests \ {r} : Arrived'[q] = Arrived[q] /\ (q \in Admitted' <=> q \in Admitted)
    BY OthersStay DEF AuthInv
  <2> QED BY <2>1, <2>2
<1>4. Arrived' = Arrived
  BY <1>3 DEF Arrived
<1>5. Admitted' = Admitted
  BY <1>3 DEF Admitted, Bearers
<1>6. \A t : Alive(t)' <=> Alive(t)
  BY DEF LoginAnswer, Alive, FamilyRevoked
<1>7. Dead' \in {Dead, Dead \cup {r}}
  BY <1>2, <1>6 DEF Dead
<1>8. Life!Issue(r)
  BY <1>2, <1>4, <1>5, <1>7 DEF Life!Issue, Dead, Arrived, Admitted
<1> QED BY <1>8 DEF Life!Next, Tokens

\* A request moves on the access path, and no token dies.
LEMMA OneMoves ==
    ASSUME AuthInv, AuthTypeOK', NEW r \in AuthRequests, Effect({r}), UNCHANGED issued,
           \A t \in Governed : Alive(t)' <=> Alive(t)
    PROVE  /\ Governed' = Governed /\ Dead' = Dead
           /\ Arrived' = [Arrived EXCEPT ![r] = Arrived'[r]]
           /\ r \in Admitted' => Admitted' = Admitted \cup {r}
           /\ r \notin Admitted' /\ r \notin Admitted => Admitted' = Admitted
<1>1. Governed' = Governed
  BY DEF Governed
<1>2. \A q \in AuthRequests \ {r} : Arrived'[q] = Arrived[q] /\ (q \in Admitted' <=> q \in Admitted)
  BY OthersStay
<1>3. Arrived' = [Arrived EXCEPT ![r] = Arrived'[r]]
  BY <1>2 DEF Arrived
<1>4. Admitted \subseteq AuthRequests /\ Admitted' \subseteq AuthRequests
  BY DEF Admitted, Bearers
<1> QED BY <1>1, <1>2, <1>3, <1>4 DEF Dead

\* A request that is refused, or dies, leaves.
LEMMA LifeLeaves ==
    ASSUME AuthInv, AuthInv', NEW r \in AuthRequests, Effect({r}), AuthEnd(r), UNCHANGED issued,
           authPc[r] # "admitted", \A t \in Governed : Alive(t)' <=> Alive(t)
    PROVE  Life!Next
<1>1. authPc'[r] = "done"
  BY DEF AuthEnd, AuthGoto, AuthInv, AuthTypeOK
<1>2. Arrived'[r] = NoToken /\ r \notin Admitted'
  BY <1>1 DEF AuthInv, RequestOK, AccessOK, Arrived, Admitted
<1>3. r \notin Admitted
  BY DEF Admitted
<1>4. /\ Governed' = Governed /\ Dead' = Dead /\ Admitted' = Admitted
      /\ Arrived' = [Arrived EXCEPT ![r] = NoToken]
  BY <1>2, <1>3, OneMoves DEF AuthInv
<1>5. Life!Leave(r)
  BY <1>3, <1>4 DEF Life!Leave, Dead, Arrived, Admitted
<1> QED BY <1>5 DEF Life!Next

LEMMA LifeArrives ==
    ASSUME AuthInv, AuthInv', NEW r \in AuthRequests, NEW t \in issued, NEW up \in BOOLEAN,
           AccessRead(r, t, up), Effect({r})
    PROVE  Life!Next
<1>1. authPc[r] = "idle" /\ UNCHANGED issued /\ UNCHANGED family
  BY DEF AccessRead, AuthIdle
<1>2. Arrived[r] = NoToken /\ r \notin Admitted
  BY <1>1, NotArrived DEF AccessSteps
<1>3. authPc'[r] \in {"gate", "done"} /\ r \notin Admitted'
  BY DEF AccessRead, AuthGoto, AuthEnd, AuthInv, AuthTypeOK, Admitted
<1>4. CASE Arrived'[r] = NoToken
  BY <1>1, <1>2, <1>3, <1>4, LifeDies DEF AuthInv
<1>5. CASE Arrived'[r] # NoToken
  <2>1. authPc'[r] = "gate" /\ authReq'[r].token \in Governed' /\ authReq'[r].alive
        /\ Arrived'[r] = authReq'[r].token
    BY <1>3, <1>5 DEF Arrived, Bearers, AuthInv, RequestOK, AccessOK
  <2>2. ~ AuthEnd(r)
    BY <2>1 DEF AuthEnd, AuthGoto, AuthInv, AuthTypeOK
  <2> DEFINE a == Alive(t)
  <2>3. /\ UNCHANGED session
        /\ authReq'[r] = [authReq[r] EXCEPT !.token = t, !.family = session[t].family, !.alive = a]
    BY <2>2 DEF AccessRead, AuthInv, AuthTypeOK
  <2> HIDE DEF a
  <2>4. authReq'[r].token = t /\ authReq'[r].alive = a
    BY <2>3 DEF AuthInv, AuthTypeOK, AuthLocals
  <2>5. t \in Governed /\ Alive(t) /\ Arrived'[r] = t
    BY <1>1, <2>1, <2>4 DEF Governed, a
  <2>6. \A u : Alive(u)' <=> Alive(u)
    BY <1>1, <2>3 DEF Alive, FamilyRevoked
  <2>7. /\ Governed' = Governed /\ Dead' = Dead /\ Admitted' = Admitted
        /\ Arrived' = [Arrived EXCEPT ![r] = t] /\ t \in Governed \ Dead
    BY <1>1, <1>2, <1>3, <2>5, <2>6, OneMoves DEF AuthInv, Dead
  <2>8. Life!Arrive(r)
    BY <1>2, <2>7 DEF Life!Arrive, Dead, Arrived, Admitted
  <2> QED BY <2>8 DEF Life!Next
<1> QED BY <1>4, <1>5

\* The gate closes only on a token that is dead already, or was on arrival.
LEMMA LifeGate ==
    ASSUME AuthInv, AuthInv', NEW r \in AuthRequests, AccessGate(r), Effect({r})
    PROVE  Life!Next
<1>1. authPc[r] = "gate" /\ UNCHANGED issued /\ UNCHANGED family /\ r \notin Admitted
  BY DEF AccessGate, AuthAt, Admitted
<1>2. CASE AuthEnd(r)
  <2> DEFINE l == authReq[r]
  <2>1. authPc'[r] = "done"
    BY <1>2 DEF AuthEnd, AuthGoto, AuthInv, AuthTypeOK
  <2>2. Arrived'[r] = NoToken /\ r \notin Admitted'
    BY <2>1 DEF AuthInv, RequestOK, AccessOK, Arrived, Admitted
  <2>3. CASE Arrived[r] = NoToken
    BY <1>1, <2>2, <2>3, LifeDies DEF AuthInv
  <2>4. CASE Arrived[r] # NoToken
    <3>1. l.token \in Governed /\ l.token # LegacyToken
      BY <2>4 DEF Arrived, Bearers, Governed
    <3>2. ClosedByFamily(l.family) /\ session' = Delete(session, {l.token})
      <4>1. authPc'[r] # "loadUser"
        BY <2>1
      <4> QED BY <4>1 DEF AccessGate, AuthGoto, AuthInv, AuthTypeOK
    <3>3. ~ Alive(l.token)
      BY <1>1, <3>1, <3>2 DEF Alive, ClosedByFamily, AuthInv, RequestOK, AccessOK
    <3>4. ASSUME NEW u \in Governed PROVE Alive(u)' <=> Alive(u)
      BY <1>1, <3>2, <3>3 DEF Alive, FamilyRevoked, Delete
    <3> QED BY <1>1, <1>2, <3>4, LifeLeaves
  <2> QED BY <2>3, <2>4
<1>3. CASE ~ AuthEnd(r)
  <2>1. authPc'[r] = "loadUser" /\ UNCHANGED authReq
    BY <1>3 DEF AccessGate, AuthGoto, AuthKeep, AuthInv, AuthTypeOK
  <2>2. Arrived'[r] = Arrived[r] /\ r \notin Admitted'
    BY <1>1, <2>1 DEF Arrived, Admitted, Bearers, Governed
  <2> QED BY <1>1, <2>2, LifeDies DEF AuthInv
<1> QED BY <1>2, <1>3

LEMMA LifeAdmits ==
    ASSUME AuthInv, AuthInv', NEW r \in AuthRequests, AccessUser(r), Effect({r})
    PROVE  Life!Next
<1>1. /\ authPc[r] = "loadUser" /\ UNCHANGED issued /\ r \notin Admitted
      /\ \A t : Alive(t)' <=> Alive(t)
  BY DEF AccessUser, AuthAt, Admitted, Alive, FamilyRevoked
<1>2. CASE AuthEnd(r)
  BY <1>1, <1>2, LifeLeaves
<1>3. CASE ~ AuthEnd(r)
  <2>1. authPc'[r] = "admitted" /\ UNCHANGED authReq
    BY <1>3 DEF AccessUser, AuthGoto, AuthKeep, AuthInv, AuthTypeOK
  <2>2. Arrived'[r] = Arrived[r]
    BY <1>1, <2>1 DEF Arrived, Bearers, Governed
  <2>3. CASE r \notin Bearers
    <3>1. r \notin Admitted'
      BY <1>1, <2>1, <2>3 DEF Admitted, Bearers, Governed
    <3> QED BY <1>1, <2>2, <3>1, LifeDies DEF AuthInv
  <2>4. CASE r \in Bearers
    <3>1. authReq[r].token # NoToken
      BY <2>4, AuthAssumption DEF Bearers, Governed, AuthInv, AuthTypeOK, Tokens
    <3>2. Arrived[r] # NoToken
      BY <1>1, <2>4, <3>1 DEF Arrived, AuthInv, RequestOK, AccessOK
    <3>3. r \in Admitted'
      BY <1>1, <2>1, <2>4 DEF Admitted, Bearers, Governed
    <3>4. /\ Governed' = Governed /\ Dead' = Dead /\ Admitted' = Admitted \cup {r}
          /\ Arrived' = [Arrived EXCEPT ![r] = Arrived[r]]
      BY <1>1, <2>2, <3>3, OneMoves DEF AuthInv
    <3>5. Arrived' = Arrived
      BY <3>4 DEF Arrived
    <3>6. Life!Admit(r)
      BY <3>2, <3>4, <3>5 DEF Life!Admit, Dead, Arrived, Admitted
    <3> QED BY <3>6 DEF Life!Next
  <2> QED BY <2>3, <2>4
<1> QED BY <1>2, <1>3

\* Every step of the store is a step of TokenLife.
LEMMA LifeStep ==
    ASSUME AuthInv, AuthInv', [AuthNext]_authVars
    PROVE  Life!Next
<1> USE DEF AuthInv
<1>1. ASSUME NEW r \in AuthRequests, AccessStep(r), Effect({r})
      PROVE  Life!Next
  <2>1. CASE Revoke(r)
    <3>1. /\ UNCHANGED issued /\ Arrived'[r] = Arrived[r] /\ (r \in Admitted' <=> r \in Admitted)
      BY <2>1 DEF Revoke, Arrived, Admitted, Bearers, Governed
    <3> QED BY <1>1, <3>1, LifeDies
  <2> QED BY <1>1, <2>1, LifeArrives, LifeGate, LifeAdmits DEF AccessStep
<1>2. ASSUME NEW r \in AuthRequests, Effect({r}),
             \/ Register(r) \/ LoginStep(r) \/ Impersonate(r) \/ RefreshStep(r)
             \/ LogoutStep(r) \/ LogoutAllStep(r) \/ EraseStep(r) \/ CleanupStep(r)
      PROVE  Life!Next
  <2>1. /\ authPc[r] \notin AccessSteps /\ authPc'[r] \notin AccessSteps
        /\ UNCHANGED issued \/ LoginAnswer(r)
    BY <1>2, OffAccess
  <2>2. /\ Arrived[r] = NoToken /\ r \notin Admitted
        /\ Arrived'[r] = NoToken /\ r \notin Admitted'
    BY <2>1, NotArrived DEF AccessSteps, RequestOK, AccessOK, Arrived, Admitted
  <2> QED BY <1>2, <2>1, <2>2, LifeDies, LifeIssues
<1>3. ASSUME NEW r \in AuthRequests, ImpersonatedAccess(r), Effect({r})
      PROVE  Life!Next
  <2>1. authPc[r] = "idle" /\ authReq'[r] = authReq[r] /\ authReq[r].token = NoToken /\ UNCHANGED issued
    BY <1>3 DEF ImpersonatedAccess, AuthIdle, AuthKeep, RequestOK
  <2>2. r \notin Bearers /\ r \notin Bearers'
    BY <2>1, AuthAssumption DEF Bearers, Governed, AuthTypeOK, Tokens
  <2>3. Arrived'[r] = Arrived[r] /\ r \notin Admitted /\ r \notin Admitted'
    BY <2>2 DEF Arrived, Admitted
  <2> QED BY <1>3, <2>1, <2>3, LifeDies
<1>4. ASSUME NEW r \in AuthRequests, AuthCrash(r), Effect({r})
      PROVE  Life!Next
  <2>1. \A t : Alive(t)' <=> Alive(t)
    BY <1>4 DEF AuthCrash, Alive, FamilyRevoked
  <2> QED BY <1>4, <2>1, LifeLeaves DEF AuthCrash
<1>5. CASE ClockStep \/ UNCHANGED authVars
  <2>1. Effect({}) /\ UNCHANGED issued
    BY <1>5, ClockEffect DEF ClockStep, SessionExpires, LockExpires, ImpersonationExpires, authVars
  <2> QED BY <2>1, LifeDies
<1>6. ASSUME NEW r \in AuthRequests, RequestStep(r)
      PROVE  Life!Next
  <2>1. Effect({r})
    BY <1>6, RequestEffect
  <2> QED BY <1>6, <2>1, <1>1, <1>2, <1>3, <1>4 DEF RequestStep, AdminCreateUser
<1> QED BY <1>5, <1>6 DEF AuthNext, RequestStep, ClockStep

\* A token that has died never opens anything again, and nobody is let in on a
\* token that was dead when the request arrived: AuthSessions implements
\* TokenLife, for every number of requests (get_current_user, #535).
THEOREM TokensLiveOnlyOnce == AuthSpec => TokensLiveOnce
<1>1. AuthInv /\ AuthInv' /\ [AuthNext]_authVars => Life!Next
  BY LifeStep
<1> QED BY <1>1, LifeInit, AuthInvariance, PTL DEF AuthSpec, TokensLiveOnce, Life!Spec

=============================================================================
