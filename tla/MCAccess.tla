------------------------------ MODULE MCAccess ------------------------------
(***************************************************************************)
(* The components between a client and the handlers, instantiated for TLC. *)
(* They share no state, so a behaviour is one of one component, while the  *)
(* others stay as they begin.                                              *)
(***************************************************************************)
EXTENDS AuthSessions, Credentials, AttemptLimits, Idempotency, Wallets, AuditChain, TLC

VARIABLE subject   \* the component of this behaviour

Init ==
    /\ AuthInit /\ CredentialsInit /\ LimitInit /\ IdemInit /\ WalletsInit /\ AuditInit
    /\ subject \in {"sessions", "credentials", "limits", "idempotency", "wallets", "audit"}

Next ==
    \/ /\ subject = "sessions" /\ AuthNext
       /\ UNCHANGED <<subject, credVars, limitVars, idemVars, walletVars, auditVars>>
    \/ /\ subject = "credentials" /\ CredentialsNext
       /\ UNCHANGED <<subject, authVars, limitVars, idemVars, walletVars, auditVars>>
    \/ /\ subject = "limits" /\ LimitNext
       /\ UNCHANGED <<subject, authVars, credVars, idemVars, walletVars, auditVars>>
    \/ /\ subject = "idempotency" /\ IdemNext
       /\ UNCHANGED <<subject, authVars, credVars, limitVars, walletVars, auditVars>>
    \/ /\ subject = "wallets" /\ WalletsNext
       /\ UNCHANGED <<subject, authVars, credVars, limitVars, idemVars, auditVars>>
    \/ /\ subject = "audit" /\ AuditNext
       /\ UNCHANGED <<subject, authVars, credVars, limitVars, idemVars, walletVars>>

Spec ==
    Init /\ [][Next]_<<subject, authVars, credVars, limitVars, idemVars, walletVars, auditVars>>

TypeOK ==
    AuthTypeOK /\ CredentialsTypeOK /\ LimitTypeOK /\ IdemTypeOK /\ WalletsTypeOK /\ AuditTypeOK

MCSymmetry == Permutations(AuthRequests) \cup Permutations(Attempts)

=============================================================================
