------------------------------ MODULE TokenLife ------------------------------
(***************************************************************************)
(* What the session store promises a client, without families, sequences   *)
(* or rows: a token that was handed out is good until it dies, it never    *)
(* comes back to life, and a request is let in only if its token was alive *)
(* when the request arrived.  AuthSessions implements it.                  *)
(***************************************************************************)

CONSTANTS Tokens, Requests, NoToken

VARIABLES
    issued,     \* tokens handed out to clients
    dead,       \* those of them that no longer open anything
    arrived,    \* arrived[r]: the token of request r, alive when r arrived
    admitted    \* requests that were let in

Init ==
    /\ issued \subseteq Tokens
    /\ dead = {}
    /\ arrived = [r \in Requests |-> NoToken]
    /\ admitted = {}

\* A token may die between its creation and the answer that hands it out.
Issue(t) ==
    /\ t \notin issued
    /\ issued' = issued \cup {t}
    /\ dead' \in {dead, dead \cup {t}}
    /\ UNCHANGED <<arrived, admitted>>

Die ==
    /\ \E S \in SUBSET issued : dead' = dead \cup S
    /\ UNCHANGED <<issued, arrived, admitted>>

Arrive(r) ==
    /\ arrived[r] = NoToken
    /\ \E t \in issued \ dead : arrived' = [arrived EXCEPT ![r] = t]
    /\ UNCHANGED <<issued, dead, admitted>>

Admit(r) ==
    /\ arrived[r] # NoToken
    /\ admitted' = admitted \cup {r}
    /\ UNCHANGED <<issued, dead, arrived>>

\* The request is refused after all, or dies.
Leave(r) ==
    /\ r \notin admitted
    /\ arrived' = [arrived EXCEPT ![r] = NoToken]
    /\ UNCHANGED <<issued, dead, admitted>>

Next ==
    \/ \E t \in Tokens : Issue(t)
    \/ Die
    \/ \E r \in Requests : Arrive(r) \/ Admit(r) \/ Leave(r)

Spec == Init /\ [][Next]_<<issued, dead, arrived, admitted>>

=============================================================================
