------------------------------ MODULE Wallets ------------------------------
(***************************************************************************)
(* The wallet registry: a wallet is created for a user once, whichever of  *)
(* several requests asks for it, and looked up by user or by address.  The *)
(* address of a created wallet is named by the request that generated it.  *)
(* No endpoint hands the registry a cache, so its cache branches are not   *)
(* taken and are not modelled.                                             *)
(***************************************************************************)
EXTENDS Naturals

CONSTANTS
    WalletRequests,  \* API requests, each performing one operation
    Owners,          \* user ids
    NoAddress

ASSUME WalletAssumption == NoAddress \notin WalletRequests

VARIABLES
    wallets,   \* the wallets table: user_id -> public_key
    wPc, wReq  \* a request's step, and its locals and answer

walletVars == <<wallets, wPc, wReq>>

Addresses == WalletRequests
Named == {"created", "exists", "found"}   \* the answers that name a wallet
WalletLocals == [op : {"create", "get", "link"}, user : Owners, address : Addresses \cup {NoAddress},
                 answer : Named \cup {"pending", "missing", "error"}]

\* Types, and the unique constraint on public_key.
WalletsTypeOK ==
    /\ DOMAIN wallets \subseteq Owners
    /\ \A u \in DOMAIN wallets : wallets[u] \in Addresses
    /\ \A u, v \in DOMAIN wallets : wallets[u] = wallets[v] => u = v
    /\ wPc \in [WalletRequests -> {"idle", "insert", "refresh", "reread", "done"}]
    /\ \A r \in WalletRequests : wPc[r] # "idle" => wReq[r] \in WalletLocals

-----------------------------------------------------------------------------

WPut(f, k, v) == [x \in DOMAIN f \cup {k} |-> IF x = k THEN v ELSE f[x]]
WalletLocal(op, u, a, ans) == [op |-> op, user |-> u, address |-> a, answer |-> ans]
WalletGoto(r, step) == wPc' = [wPc EXCEPT ![r] = step]
WalletAnswer(r, op, u, a, ans) ==
    WalletGoto(r, "done") /\ wReq' = [wReq EXCEPT ![r] = WalletLocal(op, u, a, ans)]
WalletIdle(r) == wPc[r] = "idle"

\* create_wallet: a user who has a wallet is told its address with a 409;
\* otherwise an address is generated and inserted.
CreateRead(r, u) ==
    /\ WalletIdle(r)
    /\ IF u \in DOMAIN wallets
       THEN WalletAnswer(r, "create", u, wallets[u], "exists")
       ELSE WalletGoto(r, "insert") /\ wReq' = [wReq EXCEPT ![r] = WalletLocal("create", u, r, "pending")]
    /\ UNCHANGED wallets

\* Takes the violated constraint for its own row and answers with it.
InsertAnyway(r) ==
    /\ wPc[r] = "insert"
    /\ WalletGoto(r, "refresh")
    /\ wallets' = IF wReq[r].user \in DOMAIN wallets THEN wallets ELSE WPut(wallets, wReq[r].user, r)
    /\ UNCHANGED wReq

\* WalletRepository.create: the insert and its commit.  The unique constraint
\* on user_id lets one of several requests through; the others roll back.
InsertWallet(r) ==
    /\ wPc[r] = "insert"
    /\ IF wReq[r].user \in DOMAIN wallets
       THEN WalletGoto(r, "reread") /\ UNCHANGED wallets
       ELSE WalletGoto(r, "refresh") /\ wallets' = WPut(wallets, wReq[r].user, r)
    /\ UNCHANGED wReq

\* The committed row is read back and answered.
RefreshWallet(r) ==
    /\ wPc[r] = "refresh"
    /\ WalletAnswer(r, "create", wReq[r].user, wReq[r].address, "created")
    /\ UNCHANGED wallets

\* After the rollback: the winner's row is read and reported with the same
\* 409; without one the IntegrityError goes on and is answered 500.
ReadWinner(r) ==
    LET u == wReq[r].user IN
    /\ wPc[r] = "reread"
    /\ IF u \in DOMAIN wallets
       THEN WalletAnswer(r, "create", u, wallets[u], "exists")
       ELSE WalletAnswer(r, "create", u, NoAddress, "error")
    /\ UNCHANGED wallets

\* The database fails a statement (in refresh: after the commit), answered 500.
CreateFails(r) ==
    /\ wPc[r] \in {"insert", "refresh", "reread"}
    /\ WalletAnswer(r, "create", wReq[r].user, NoAddress, "error")
    /\ UNCHANGED wallets

\* link_wallet: WalletRepository has no get_by_user_id_or_public_key, so the
\* call raises and the request is answered 500 before any row is read.
LinkWallet(r, u) ==
    /\ WalletIdle(r)
    /\ WalletAnswer(r, "link", u, NoAddress, "error")
    /\ UNCHANGED wallets

\* _fetch_wallet and _fetch_by_address (touch_cache only stamps cached_at).
FetchByUser(r, u) ==
    /\ WalletIdle(r)
    /\ IF u \in DOMAIN wallets THEN WalletAnswer(r, "get", u, wallets[u], "found")
                               ELSE WalletAnswer(r, "get", u, NoAddress, "missing")
    /\ UNCHANGED wallets

FetchByAddress(r, a) ==
    /\ WalletIdle(r)
    /\ \E u \in DOMAIN wallets : wallets[u] = a /\ WalletAnswer(r, "get", u, a, "found")
    /\ UNCHANGED wallets

WalletsInit ==
    /\ wallets = [u \in {} |-> NoAddress]
    /\ wPc = [r \in WalletRequests |-> "idle"]
    /\ wReq = [r \in WalletRequests |-> [answer |-> "pending"]]

ReadWallet(r) ==
    \/ \E u \in Owners : FetchByUser(r, u)
    \/ \E a \in Addresses : FetchByAddress(r, a)
CreateWallet(r) ==
    \/ \E u \in Owners : CreateRead(r, u)
    \/ InsertWallet(r) \/ RefreshWallet(r) \/ ReadWinner(r) \/ CreateFails(r)

WalletsNext ==
    \E r \in WalletRequests :
        ReadWallet(r) \/ CreateWallet(r) \/ (\E u \in Owners : LinkWallet(r, u))

WalletsSpec == WalletsInit /\ [][WalletsNext]_walletVars

-----------------------------------------------------------------------------

\* Answers about one user name one address, and answers naming one address
\* are about one user: however creations of a user's wallet overlap, fail
\* after their commit and are retried, no request is told of a wallet another
\* request is told the user does not have (create_wallet: "One user gets one
\* wallet, and a retried registration is told which address already exists").
AnswersNameOneWallet ==
    \A q, r \in WalletRequests :
        wReq[q].answer \in Named /\ wReq[r].answer \in Named =>
            (wReq[q].user = wReq[r].user <=> wReq[q].address = wReq[r].address)

\* link_wallet's docstring gives a link four outcomes: two conflicts, an
\* idempotent update, a new link.  None is a 500.
LinkIsServed == \A r \in WalletRequests : wPc[r] = "done" /\ wReq[r].op = "link" => wReq[r].answer # "error"

=============================================================================
