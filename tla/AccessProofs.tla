---------------------------- MODULE AccessProofs ----------------------------
(***************************************************************************)
(* Theorems about the components between a client and the handlers, each   *)
(* of its own specification, and about the specification that runs them    *)
(* together, for every value of the constants.                             *)
(***************************************************************************)
EXTENDS MCAccess, AuthSessionsProofs, SeqFilterProofs, WellFoundedInduction

-----------------------------------------------------------------------------
(* AuditChain                                                              *)

\* A bounded set of positive numbers has a greatest element; that of the
\* empty set is 0, the absent prev_hash.
LEMMA GreatestOf ==
    ASSUME NEW n \in Nat, NEW S \in SUBSET (1 .. n)
    PROVE  /\ Greatest(S) \in S \cup {0}
           /\ \A y \in S : y <= Greatest(S)
<1> DEFINE T == {k \in Nat : n - k \in S}
           Less == OpToRel(<, Nat)
<1>a. IsWellFoundedOn(Less, Nat)
  BY NatLessThanWellFounded
<1>b. \A k, m \in Nat : k < m => <<k, m>> \in Less
  BY DEF OpToRel
<1> HIDE DEF Less
<1>1. \E x \in S \cup {0} : \A y \in S : y <= x
  <2>1. CASE S = {}
    BY <2>1
  <2>2. CASE S # {}
    <3>1. T \subseteq Nat /\ T # {}
      <4>1. PICK x \in S : TRUE
        BY <2>2
      <4>2. n - x \in Nat /\ n - (n - x) = x
        OBVIOUS
      <4> QED BY <4>1, <4>2
    <3>2. PICK m \in T : \A k \in T : ~ (<<k, m>> \in Less)
      <4> HIDE DEF T
      <4> QED BY <3>1, <1>a, WFMin
    <3>3. \A k \in T : ~ (k < m)
      BY <3>1, <3>2, <1>b
    <3>4. ASSUME NEW y \in S PROVE y <= n - m
      <4>1. n - y \in Nat /\ n - (n - y) = y
        OBVIOUS
      <4>2. ~ (n - y < m) /\ m \in Nat
        BY <3>3, <4>1
      <4> QED BY <4>1, <4>2
    <3> QED BY <3>2, <3>4
  <2> QED BY <2>1, <2>2
<1> QED BY <1>1 DEF Greatest

\* A writer between lock and commit is the only one, and the row it is about
\* to insert follows the last row committed.
WriterOK(w) ==
    /\ auditPc[w] \in {"tail", "insert"} => chainLock = w
    /\ auditPc[w] = "insert" => auditReq[w].prev = Len(auditLog)

\* The inductive invariant: no row has left the table.
AuditInv ==
    /\ auditLog \in Seq(AuditLogORM)
    /\ AuditTypeOK
    /\ \A w \in AuditWriters : WriterOK(w)
    /\ AppendsFollowTail
    /\ live = AuditIds

LEMMA AuditInvInit == AuditInit => AuditInv
  BY AuditAssumption
  DEF AuditInit, AuditInv, AuditTypeOK, AuditIds, AuditLogORM, WriterOK, AppendsFollowTail

\* The greatest of the first numbers.
LEMMA GreatestOfFirst ==
    ASSUME NEW n \in Nat
    PROVE  Greatest(1 .. n) = n
<1> DEFINE S == 1 .. n
           g == Greatest(S)
<1>1. S \in SUBSET (1 .. n)
  OBVIOUS
<1>2. (g \in S \/ g = 0) /\ \A y \in S : y <= g
  BY <1>1, GreatestOf
<1> HIDE DEF g
<1>3. g = n
  BY <1>2
<1> QED BY <1>3 DEF g

\* The tail that is read is the last row committed.
LEMMA TailRead ==
    ASSUME AuditInv
    PROVE  Greatest(live) \in Nat /\ Greatest(live) = Len(auditLog)
<1>1. Len(auditLog) \in Nat /\ live = 1 .. Len(auditLog)
  BY DEF AuditInv, AuditIds
<1> QED BY <1>1, GreatestOfFirst

LEMMA AuditWriterStep ==
    ASSUME AuditInv, NEW w \in AuditWriters, LogEvent(w)
    PROVE  AuditInv'
<1> USE DEF AuditInv, AuditTypeOK, AuditIds, AuditLogORM, WriterOK
<1>1. CASE LogStart(w)
  <2>a. clock + 1 \in Nat
    OBVIOUS
  <2>1. clock' \in Nat /\ auditReq' \in [AuditWriters -> AuditLogORM]
    <3> DEFINE t == clock + 1
    <3> HIDE DEF t
    <3>1. auditReq' = [auditReq EXCEPT ![w].stamp = t] /\ t \in Nat /\ clock' = t
      BY <1>1, <2>a DEF LogStart, t
    <3> QED BY <3>1
  <2>2. AuditTypeOK' /\ AppendsFollowTail'
    BY <1>1, <2>1 DEF LogStart, AppendsFollowTail
  <2>3. \A v \in AuditWriters : WriterOK(v)'
    BY <1>1 DEF LogStart
  <2> QED BY <1>1, <2>2, <2>3 DEF LogStart
<1>2. CASE BlockingAdvisoryLock(w)
  <2>1. AuditTypeOK' /\ AppendsFollowTail'
    BY <1>2 DEF BlockingAdvisoryLock, AppendsFollowTail
  <2>2. \A v \in AuditWriters : WriterOK(v)'
    BY <1>2, AuditAssumption DEF BlockingAdvisoryLock
  <2> QED BY <1>2, <2>1, <2>2 DEF BlockingAdvisoryLock
<1>3. CASE ReadTail(w)
  <2>1. Greatest(live) \in Nat /\ Greatest(live) = Len(auditLog)
    BY TailRead
  <2>2. auditReq' \in [AuditWriters -> AuditLogORM]
    <3> DEFINE t == Greatest(live)
    <3>1. auditReq' = [auditReq EXCEPT ![w].prev = t] /\ t \in Nat
      BY <1>3, <2>1 DEF ReadTail
    <3> HIDE DEF t
    <3>2. auditReq \in [AuditWriters -> AuditLogORM]
      OBVIOUS
    <3> HIDE DEF AuditInv, AuditTypeOK
    <3> QED BY <3>1, <3>2
  <2>3. AuditTypeOK' /\ AppendsFollowTail'
    BY <1>3, <2>2 DEF ReadTail, AppendsFollowTail
  <2>4. \A v \in AuditWriters : WriterOK(v)'
    BY <1>3, <2>1 DEF ReadTail
  <2> QED BY <1>3, <2>3, <2>4 DEF ReadTail
<1>4. CASE InsertEntry(w)
  <2> DEFINE n == Len(auditLog)
  <2>1. /\ auditLog' \in Seq(AuditLogORM) /\ Len(auditLog') = n + 1 /\ n \in Nat
        /\ auditLog'[n + 1] = auditReq[w]
        /\ \A i \in 1 .. n : auditLog'[i] = auditLog[i]
    BY <1>4 DEF InsertEntry
  <2>a. AuditIds' = AuditIds \cup {n + 1} /\ AuditIds = 1 .. n
    BY <2>1
  <2>b. \A i \in AuditIds' : auditLog'[i] \in AuditLogORM
    BY <2>1, <2>a
  <2>c. live' \subseteq AuditIds' /\ archive' \subseteq AuditIds'
    BY <1>4, <2>a DEF InsertEntry
  <2>d. batch' \in [Archivers -> SUBSET AuditIds']
    BY <1>4, <2>a DEF InsertEntry
  <2>e. chainLock' \in AuditWriters \cup {NoWriter}
    BY <1>4 DEF InsertEntry, Unlocked
  <2>2. AuditTypeOK'
    BY <1>4, <2>b, <2>c, <2>d, <2>e DEF InsertEntry
  <2>3. \A v \in AuditWriters : WriterOK(v)'
    BY <1>4 DEF InsertEntry, Unlocked
  <2>4. live' = AuditIds'
    BY <1>4, <2>a DEF InsertEntry
  <2>5. AppendsFollowTail'
    <3>1. ASSUME NEW i \in 1 .. n
          PROVE  auditLog'[i].prev = i - 1
      BY <1>4, <2>1 DEF InsertEntry, AppendsFollowTail
    <3>2. auditLog'[n + 1].prev = n
      BY <1>4, <2>1 DEF InsertEntry
    <3>3. \A i \in AuditIds' : i \in 1 .. n \/ i = n + 1
      BY <2>1
    <3>4. (n + 1) - 1 = n
      BY <2>1
    <3> QED BY <3>1, <3>2, <3>3, <3>4 DEF AppendsFollowTail
  <2> QED BY <2>1, <2>2, <2>3, <2>4, <2>5
<1>5. CASE WriterCrash(w)
  BY <1>5 DEF WriterCrash, Unlocked, AppendsFollowTail
<1> QED BY <1>1, <1>2, <1>3, <1>4, <1>5 DEF LogEvent

LEMMA AuditArchiverStep ==
    ASSUME AuditInv, NEW a \in Archivers, ArchiveOldAuditEntries(a)
    PROVE  AuditInv'
<1> USE DEF AuditInv, AuditTypeOK, AuditIds, AuditLogORM, WriterOK, AppendsFollowTail
<1>1. CASE ArchiveStart(a)
  BY <1>1 DEF ArchiveStart
<1>2. CASE SelectBatch(a)
  <2>1. FirstOf(Overdue(a)) \subseteq 1 .. Len(auditLog)
    BY DEF FirstOf, Overdue
  <2> QED BY <1>2, <2>1 DEF SelectBatch
<1>3. CASE WriteBatch(a)
  BY <1>3 DEF WriteBatch
<1>4. CASE DeleteBatch(a)
  <2>1. UNCHANGED live
    BY <1>4 DEF DeleteBatch, TriggerRefuses
  <2>2. archivePc' \in [Archivers -> {"idle", "select", "write", "delete"}]
        /\ batch' \in [Archivers -> SUBSET AuditIds]
    BY <1>4 DEF DeleteBatch
  <2> QED BY <1>4, <2>1, <2>2 DEF DeleteBatch
<1>5. CASE ArchiverCrash(a)
  <2>1. PICK S \in SUBSET batch[a] : archive' = archive \cup S
    BY <1>5 DEF ArchiverCrash
  <2>2. archive' \subseteq AuditIds
    BY <2>1
  <2>3. AuditTypeOK'
    BY <1>5, <2>2 DEF ArchiverCrash
  <2>4. \A w \in AuditWriters : WriterOK(w)'
    BY <1>5 DEF ArchiverCrash
  <2> QED BY <1>5, <2>3, <2>4 DEF ArchiverCrash
<1> QED BY <1>1, <1>2, <1>3, <1>4, <1>5 DEF ArchiveOldAuditEntries

LEMMA AuditInvStep == AuditInv /\ [AuditNext]_auditVars => AuditInv'
<1> SUFFICES ASSUME AuditInv, [AuditNext]_auditVars PROVE AuditInv'
  OBVIOUS
<1>1. CASE UNCHANGED auditVars
  BY <1>1 DEF auditVars, AuditInv, AuditTypeOK, AuditIds, AuditLogORM, WriterOK, AppendsFollowTail
<1>2. CASE TimePasses
  <2>1. horizon' \in Nat
    BY <1>2 DEF TimePasses, AuditInv, AuditTypeOK
  <2>2. AuditTypeOK'
    BY <1>2, <2>1 DEF TimePasses, AuditInv, AuditTypeOK, AuditIds
  <2>3. \A w \in AuditWriters : WriterOK(w)'
    BY <1>2 DEF TimePasses, AuditInv, WriterOK
  <2>4. AppendsFollowTail' /\ (live = AuditIds)' /\ (auditLog \in Seq(AuditLogORM))'
    BY <1>2 DEF TimePasses, AuditInv, AuditIds, AuditLogORM, AppendsFollowTail
  <2> QED BY <2>2, <2>3, <2>4 DEF AuditInv
<1> QED BY <1>1, <1>2, AuditWriterStep, AuditArchiverStep DEF AuditNext

\* The types, the chain, and that the trigger keeps every row in the table, hold
\* of every number of writers, archivers and rows, and every batch size.
THEOREM AuditInvariance == AuditSpec => []AuditInv
  BY AuditInvInit, AuditInvStep, PTL DEF AuditSpec

\* Concurrent calls of log_event never fork the chain: each row follows the one
\* committed before it.
THEOREM ChainNeverForks == AuditSpec => []AppendsFollowTail
<1>1. AuditInv => AppendsFollowTail
  BY DEF AuditInv
<1> QED BY AuditInvariance, <1>1, PTL

\* verify_chain finds no bad entry, whatever writers, retention runs and crashes
\* came before: the rows of the table are the whole chain.
THEOREM ChainAlwaysVerifies == AuditSpec => []ChainVerifies
<1>1. ASSUME AuditInv PROVE ChainVerifies
  <2>1. ASSUME NEW i \in live PROVE auditLog[i].prev = Greatest({j \in live : j < i})
    <3>1. live = 1 .. Len(auditLog) /\ Len(auditLog) \in Nat
      BY <1>1 DEF AuditInv, AuditIds
    <3>2. i - 1 \in Nat /\ {j \in live : j < i} = 1 .. (i - 1)
      BY <3>1
    <3>3. Greatest({j \in live : j < i}) = i - 1
      BY <3>2, GreatestOfFirst
    <3>4. auditLog[i].prev = i - 1
      BY <1>1, <3>1 DEF AuditInv, AppendsFollowTail, AuditIds
    <3> QED BY <3>3, <3>4
  <2> QED BY <2>1 DEF ChainVerifies, VerifyChain
<1>2. AuditInv => ChainVerifies
  BY <1>1
<1> QED BY AuditInvariance, <1>2, PTL

-----------------------------------------------------------------------------
(* Wallets                                                                 *)

\* What the answer or the locals of a request say of the table: an answer that
\* names a wallet names the stored one, and so does a request that has committed
\* its row and not answered yet.
WalletTold(r) ==
    wReq[r].answer \in Named \/ wPc[r] = "refresh" =>
        wReq[r].user \in DOMAIN wallets /\ wallets[wReq[r].user] = wReq[r].address

\* The inductive invariant.  A generated address is in the table only once its
\* request has inserted it.
WalletInv ==
    /\ WalletsTypeOK
    /\ DOMAIN wReq = WalletRequests
    /\ \A r \in WalletRequests : WalletTold(r)
    /\ \A r \in WalletRequests : wPc[r] \in {"insert", "reread", "refresh"} =>
          wReq[r].answer = "pending"
    /\ \A r \in WalletRequests : wPc[r] \in {"insert", "refresh"} => wReq[r].address = r
    /\ \A r \in WalletRequests : wPc[r] \in {"idle", "insert"} =>
          \A u \in DOMAIN wallets : wallets[u] # r
    /\ \A r \in WalletRequests : wPc[r] = "idle" => wReq[r].answer = "pending"

LEMMA WalletInvInit == WalletsInit => WalletInv
<1> SUFFICES ASSUME WalletsInit PROVE WalletInv
  OBVIOUS
<1>1. \A r \in WalletRequests : wReq[r].answer = "pending" /\ wPc[r] = "idle"
  BY DEF WalletsInit
<1>2. DOMAIN wallets = {}
  BY DEF WalletsInit
<1> QED BY <1>1, <1>2 DEF WalletsInit, WalletInv, WalletsTypeOK, WalletTold, Named

\* A request moves, with locals that agree with the table, which stays.
LEMMA WalletMoves ==
    ASSUME WalletInv, NEW r \in WalletRequests, NEW step \in {"insert", "done"},
           WalletGoto(r, step), NEW q \in WalletLocals, wReq' = [wReq EXCEPT ![r] = q],
           UNCHANGED wallets,
           q.answer \in Named => q.user \in DOMAIN wallets /\ wallets[q.user] = q.address,
           step = "insert" => /\ q.answer = "pending" /\ q.address = r
                              /\ \A u \in DOMAIN wallets : wallets[u] # r
    PROVE  WalletInv'
<1>1. wPc' = [wPc EXCEPT ![r] = step]
  BY DEF WalletGoto
<1>2. wReq'[r] = q /\ wPc'[r] = step /\ \A x \in WalletRequests : x # r => wReq'[x] = wReq[x] /\ wPc'[x] = wPc[x]
  BY <1>1 DEF WalletInv, WalletsTypeOK
<1>3. WalletsTypeOK'
  BY <1>1, <1>2 DEF WalletInv, WalletsTypeOK
<1>4. \A x \in WalletRequests : WalletTold(x)'
  BY <1>2 DEF WalletInv, WalletTold
<1> QED BY <1>2, <1>3, <1>4 DEF WalletInv

\* The answers: with nothing named, or with the stored wallet of a user.
LEMMA WalletAnswers ==
    ASSUME WalletInv, NEW r \in WalletRequests, NEW op \in {"create", "get", "link"},
           NEW u \in Owners, NEW a \in Addresses \cup {NoAddress},
           NEW ans \in Named \cup {"missing", "error"},
           WalletAnswer(r, op, u, a, ans), UNCHANGED wallets,
           ans \in Named => u \in DOMAIN wallets /\ wallets[u] = a
    PROVE  WalletInv'
<1> DEFINE q == WalletLocal(op, u, a, ans)
<1>1. q \in WalletLocals /\ q.answer = ans /\ q.user = u /\ q.address = a
  BY DEF WalletLocal, WalletLocals
<1>2. WalletGoto(r, "done") /\ wReq' = [wReq EXCEPT ![r] = q]
  BY DEF WalletAnswer
<1> HIDE DEF q
<1> QED BY <1>1, <1>2, WalletMoves

LEMMA WalletInvStep == WalletInv /\ [WalletsNext]_walletVars => WalletInv'
<1> SUFFICES ASSUME WalletInv, [WalletsNext]_walletVars PROVE WalletInv'
  OBVIOUS
<1>1. CASE UNCHANGED walletVars
  BY <1>1 DEF walletVars, WalletInv, WalletsTypeOK, WalletTold
<1>0. \A u \in DOMAIN wallets : u \in Owners /\ wallets[u] \in Addresses
  BY DEF WalletInv, WalletsTypeOK
<1>2. ASSUME NEW r \in WalletRequests, NEW u \in Owners, CreateRead(r, u) PROVE WalletInv'
  <2>1. CASE u \in DOMAIN wallets
    BY <1>0, <1>2, <2>1, WalletAnswers DEF CreateRead, Named
  <2>2. CASE u \notin DOMAIN wallets
    <3> DEFINE q == WalletLocal("create", u, r, "pending")
    <3>1. q \in WalletLocals /\ q.answer = "pending" /\ q.address = r
      BY DEF WalletLocal, WalletLocals, Addresses
    <3>2. WalletGoto(r, "insert") /\ wReq' = [wReq EXCEPT ![r] = q] /\ UNCHANGED wallets
      BY <1>2, <2>2 DEF CreateRead
    <3>3. \A v \in DOMAIN wallets : wallets[v] # r
      BY <1>2 DEF CreateRead, WalletIdle, WalletInv
    <3> HIDE DEF q
    <3> QED BY <3>1, <3>2, <3>3, WalletMoves DEF Named
  <2> QED BY <2>1, <2>2
<1>3. ASSUME NEW r \in WalletRequests, InsertWallet(r) PROVE WalletInv'
  <2> DEFINE u == wReq[r].user
  <2>0. wPc[r] = "insert" /\ u \in Owners /\ wReq[r] \in WalletLocals /\ wReq[r].address = r
        /\ wReq[r].answer = "pending" /\ \A v \in DOMAIN wallets : wallets[v] # r
    BY <1>3 DEF InsertWallet, WalletInv, WalletsTypeOK, WalletLocals
  <2>1. CASE u \in DOMAIN wallets
    <3>1. wPc' = [wPc EXCEPT ![r] = "reread"] /\ UNCHANGED <<wallets, wReq>>
      BY <1>3, <2>1 DEF InsertWallet, WalletGoto
    <3> QED BY <2>0, <3>1 DEF WalletInv, WalletsTypeOK, WalletTold, Named
  <2>2. CASE u \notin DOMAIN wallets
    <3>1. /\ wPc' = [wPc EXCEPT ![r] = "refresh"] /\ UNCHANGED wReq
          /\ wallets' = WPut(wallets, u, r)
      BY <1>3, <2>2 DEF InsertWallet, WalletGoto
    <3> HIDE DEF u
    <3>2. /\ DOMAIN wallets' = DOMAIN wallets \cup {u} /\ wallets'[u] = r
          /\ \A v \in DOMAIN wallets : wallets'[v] = wallets[v]
      BY <2>2, <3>1 DEF WPut
    <3>3. WalletsTypeOK'
      BY <2>0, <3>1, <3>2 DEF WalletInv, WalletsTypeOK, Addresses
    <3>4. \A x \in WalletRequests : WalletTold(x)'
      BY <2>0, <3>1, <3>2 DEF WalletInv, WalletsTypeOK, WalletTold, u
    <3>5. \A x \in WalletRequests : x # r => wPc'[x] = wPc[x]
      BY <3>1 DEF WalletInv, WalletsTypeOK
    <3>6. wPc'[r] = "refresh"
      BY <3>1 DEF WalletInv, WalletsTypeOK
    <3> QED BY <2>0, <3>1, <3>2, <3>3, <3>4, <3>5, <3>6 DEF WalletInv
  <2> QED BY <2>1, <2>2
<1>4. ASSUME NEW r \in WalletRequests, RefreshWallet(r) \/ ReadWinner(r) \/ CreateFails(r) PROVE WalletInv'
  <2>0. wReq[r].user \in Owners /\ wReq[r].address \in Addresses \cup {NoAddress}
    BY <1>4 DEF RefreshWallet, ReadWinner, CreateFails, WalletInv, WalletsTypeOK, WalletLocals
  <2>1. CASE RefreshWallet(r)
    <3>1. wReq[r].user \in DOMAIN wallets /\ wallets[wReq[r].user] = wReq[r].address
      BY <2>1 DEF RefreshWallet, WalletInv, WalletTold
    <3> QED BY <2>0, <2>1, <3>1, WalletAnswers DEF RefreshWallet, Named
  <2>2. CASE ReadWinner(r)
    BY <1>0, <2>0, <2>2, WalletAnswers DEF ReadWinner, Named
  <2>3. CASE CreateFails(r)
    BY <2>0, <2>3, WalletAnswers DEF CreateFails, Named
  <2> QED BY <1>4, <2>1, <2>2, <2>3
<1>5. ASSUME NEW r \in WalletRequests, NEW u \in Owners, LinkWallet(r, u) PROVE WalletInv'
  BY <1>5, WalletAnswers DEF LinkWallet, Named
<1>6. ASSUME NEW r \in WalletRequests, NEW u \in Owners, FetchByUser(r, u) PROVE WalletInv'
  BY <1>0, <1>6, WalletAnswers DEF FetchByUser, Named
<1>7. ASSUME NEW r \in WalletRequests, NEW a \in Addresses, FetchByAddress(r, a) PROVE WalletInv'
  BY <1>0, <1>7, WalletAnswers DEF FetchByAddress, Named
<1> QED BY <1>1, <1>2, <1>3, <1>4, <1>5, <1>6, <1>7 DEF WalletsNext, ReadWallet, CreateWallet

\* The table has one owner for an address, and a request's locals are a wallet
\* of that table or one about to be inserted.
THEOREM WalletTypesHold == WalletsSpec => []WalletsTypeOK
<1>1. WalletInv => WalletsTypeOK
  BY DEF WalletInv
<1> QED BY WalletInvInit, WalletInvStep, <1>1, PTL DEF WalletsSpec

\* For any number of users and of requests that race to create their wallets,
\* and wherever the database fails one of them, the answers agree on whose
\* wallet is which.
THEOREM WalletAnswersAgree == WalletsSpec => []AnswersNameOneWallet
<1>1. WalletInv => AnswersNameOneWallet
  BY DEF WalletInv, WalletsTypeOK, WalletTold, AnswersNameOneWallet
<1> QED BY WalletInvInit, WalletInvStep, <1>1, PTL DEF WalletsSpec

-----------------------------------------------------------------------------
(* Credentials                                                             *)

\* The fields of a request's record, and of a key.
CredShape(q) == \A n \in {"on", "row", "late", "answer"} : n \in DOMAIN q
KeyShape(k) == "revoked" \in DOMAIN k /\ "time" \in DOMAIN k

\* Keys and states are named by requests that have ended.  A retired name is a
\* revoked key, or a state that is gone; a request about to retire a name has
\* made sure of it.
CredInv ==
    /\ credPc \in [CredRequests -> {"idle", "revoke", "consume", "judge", "prune", "done"}]
    /\ DOMAIN credReq = CredRequests /\ \A r \in CredRequests : CredShape(credReq[r])
    /\ \A k \in DOMAIN apiKeys : k \in CredRequests /\ credPc[k] = "done" /\ KeyShape(apiKeys[k])
    /\ \A s \in DOMAIN oauth : s \in CredRequests /\ credPc[s] = "done" /\ s \notin DOMAIN apiKeys
    /\ \A x \in retired :
          /\ x \in CredRequests /\ credPc[x] = "done"
          /\ x \notin DOMAIN oauth
          /\ x \in DOMAIN apiKeys => apiKeys[x].revoked
    /\ \A r \in CredRequests : credPc[r] = "revoke" => credReq[r].on \subseteq DOMAIN apiKeys
    /\ \A r \in CredRequests : credPc[r] \in {"consume", "judge"} =>
          \A s \in credReq[r].on :
             /\ s \in CredRequests /\ credPc[s] = "done" /\ s \notin DOMAIN apiKeys
             /\ credPc[r] = "judge" => s \notin DOMAIN oauth
    /\ \A r \in CredRequests : credPc[r] # "done" => ~ credReq[r].late
    /\ \A r \in CredRequests : credReq[r].late => credReq[r].answer # "admitted"

LEMMA CredInvInit == CredentialsInit => CredInv
  BY DEF CredentialsInit, CredInv, NoCred, CredShape

\* What a request leaves that ends.
LEMMA CredEnds ==
    ASSUME CredInv, NEW r \in CredRequests, credPc[r] # "done", NEW a, CredAnswer(r, a)
    PROVE  /\ credPc' = [credPc EXCEPT ![r] = "done"] /\ DOMAIN credReq' = CredRequests
           /\ CredShape(credReq'[r]) /\ ~ credReq'[r].late
           /\ \A x \in CredRequests : x # r => credReq'[x] = credReq[x]
<1>1. ~ credReq[r].late
  BY DEF CredInv
<1>2. credReq'[r] = [on |-> {}, row |-> {}, late |-> credReq[r].late, answer |-> a]
  BY DEF CredInv, CredAnswer, NoCred
<1> QED BY <1>1, <1>2 DEF CredInv, CredAnswer, CredGoto, CredShape

\* A request that ends without retiring anything, while states may disappear.
LEMMA CredEndsQuietly ==
    ASSUME CredInv, NEW r \in CredRequests, credPc[r] # "done", NEW a, CredAnswer(r, a),
           DOMAIN oauth' \subseteq DOMAIN oauth, UNCHANGED <<apiKeys, retired>>
    PROVE  CredInv'
<1>1. /\ credPc' = [credPc EXCEPT ![r] = "done"] /\ DOMAIN credReq' = CredRequests
      /\ CredShape(credReq'[r]) /\ ~ credReq'[r].late
      /\ \A x \in CredRequests : x # r => credReq'[x] = credReq[x]
  BY CredEnds
<1> QED BY <1>1 DEF CredInv

LEMMA CredKeyStep ==
    ASSUME CredInv, NEW r \in CredRequests, NEW k \in CredRequests, NEW scope, NEW scopes, NEW t,
           CreateKey(r, scopes, t) \/ RevokeRead(r, k) \/ RevokeCommit(r) \/ UseKey(r, k, scope)
    PROVE  CredInv'
<1>0. r \in DOMAIN credReq /\ CredShape(credReq[r])
  BY DEF CredInv
<1>1. CASE CreateKey(r, scopes, t)
  <2>1. /\ credPc' = [credPc EXCEPT ![r] = "done"] /\ DOMAIN credReq' = CredRequests
        /\ CredShape(credReq'[r]) /\ ~ credReq'[r].late
        /\ \A x \in CredRequests : x # r => credReq'[x] = credReq[x]
    BY <1>1, CredEnds DEF CreateKey
  <2>2. /\ DOMAIN apiKeys' = DOMAIN apiKeys \cup {r}
        /\ \A x \in DOMAIN apiKeys : x # r => apiKeys'[x] = apiKeys[x]
        /\ KeyShape(apiKeys'[r])
        /\ credPc[r] = "idle" /\ UNCHANGED <<oauth, retired>>
    BY <1>1 DEF CreateKey, WithRow, KeyShape
  <2> QED BY <2>1, <2>2 DEF CredInv
<1>2. CASE RevokeRead(r, k)
  <2>1. /\ credPc[r] = "idle" /\ k \in DOMAIN apiKeys /\ UNCHANGED <<apiKeys, oauth, retired>>
        /\ credPc' = [credPc EXCEPT ![r] = "revoke"] /\ credReq' = [credReq EXCEPT ![r].on = {k}]
    BY <1>2 DEF RevokeRead, CredGoto
  <2>2. /\ DOMAIN credReq' = CredRequests
        /\ \A x \in CredRequests : x # r => credReq'[x] = credReq[x]
    BY <2>1 DEF CredInv
  <2>3. /\ CredShape(credReq'[r]) /\ credReq'[r].on = {k}
        /\ credReq'[r].late = credReq[r].late /\ credReq'[r].answer = credReq[r].answer
    <3> DEFINE q == credReq[r]
    <3>1. CredShape(q)
      BY <1>0
    <3>2. credReq'[r] = [q EXCEPT !.on = {k}]
      BY <1>0, <2>1
    <3> HIDE DEF q
    <3>3. /\ CredShape(credReq'[r]) /\ credReq'[r].on = {k}
          /\ credReq'[r].late = q.late /\ credReq'[r].answer = q.answer
      BY <3>1, <3>2 DEF CredShape
    <3> QED BY <3>3 DEF q
  <2> QED BY <2>1, <2>2, <2>3 DEF CredInv
<1>3. CASE RevokeCommit(r)
  <2>1. /\ credPc' = [credPc EXCEPT ![r] = "done"] /\ DOMAIN credReq' = CredRequests
        /\ CredShape(credReq'[r]) /\ ~ credReq'[r].late
        /\ \A x \in CredRequests : x # r => credReq'[x] = credReq[x]
    BY <1>3, CredEnds DEF RevokeCommit
  <2>2. /\ DOMAIN apiKeys' = DOMAIN apiKeys
        /\ retired' = retired \cup credReq[r].on
        /\ credPc[r] = "revoke" /\ UNCHANGED oauth
    BY <1>3 DEF RevokeCommit
  <2>3. ASSUME NEW x \in DOMAIN apiKeys
        PROVE  /\ x \in credReq[r].on => apiKeys'[x].revoked
               /\ apiKeys[x].revoked => apiKeys'[x].revoked
               /\ KeyShape(apiKeys'[x])
    <3>1. KeyShape(apiKeys[x])
      BY DEF CredInv
    <3>2. CASE x \in credReq[r].on
      <4>1. apiKeys'[x] = [apiKeys[x] EXCEPT !.revoked = TRUE]
        BY <1>3, <3>2 DEF RevokeCommit
      <4> QED BY <3>1, <4>1 DEF KeyShape
    <3>3. CASE x \notin credReq[r].on
      BY <1>3, <3>1, <3>3 DEF RevokeCommit
    <3> QED BY <3>2, <3>3
  <2> QED BY <2>1, <2>2, <2>3 DEF CredInv
<1>4. CASE UseKey(r, k, scope)
  <2> DEFINE adm == IF k \in DOMAIN apiKeys /\ KeyAdmits(k, scope) THEN "admitted" ELSE "refused"
  <2>1. /\ credPc[r] = "idle" /\ UNCHANGED <<apiKeys, oauth, retired>>
        /\ credReq' = [credReq EXCEPT ![r].late = (k \in retired), ![r].answer = adm]
        /\ credPc' = [credPc EXCEPT ![r] = "done"]
    BY <1>4 DEF UseKey
  <2>2. k \in retired => adm # "admitted"
    BY DEF CredInv, KeyAdmits
  <2> HIDE DEF adm
  <2> DEFINE late == k \in retired
  <2>3. /\ DOMAIN credReq' = CredRequests
        /\ \A x \in CredRequests : x # r => credReq'[x] = credReq[x]
    BY <2>1 DEF CredInv
  <2>4. CredShape(credReq'[r]) /\ credReq'[r].late = late /\ credReq'[r].answer = adm
    <3>1. credReq' = [credReq EXCEPT ![r].late = late, ![r].answer = adm]
      BY <2>1
    <3> DEFINE q == credReq[r]
    <3>2. CredShape(q)
      BY <1>0
    <3> HIDE DEF late
    <3>3. credReq'[r] = [q EXCEPT !.late = late, !.answer = adm]
      BY <1>0, <3>1
    <3> HIDE DEF q
    <3> QED BY <3>2, <3>3 DEF CredShape
  <2>5. late => adm # "admitted"
    BY <2>2
  <2> HIDE DEF late
  <2> QED BY <2>1, <2>3, <2>4, <2>5 DEF CredInv
<1> QED BY <1>1, <1>2, <1>3, <1>4

LEMMA CredStateStep ==
    ASSUME CredInv, NEW r \in CredRequests, NEW s \in CredRequests, NEW p, NEW c,
           \/ CreateState(r, p, c) \/ GetState(r, s) \/ DeleteState(r) \/ JudgeCallback(r, p, c)
           \/ PruneGet(r, s) \/ PruneDelete(r) \/ CredCrash(r)
    PROVE  CredInv'
<1>0. r \in DOMAIN credReq /\ CredShape(credReq[r])
  BY DEF CredInv
<1>1. CASE CreateState(r, p, c)
  <2>1. DOMAIN oauth' = DOMAIN oauth \cup {r} /\ credPc[r] = "idle" /\ UNCHANGED <<apiKeys, retired>>
    BY <1>1 DEF CreateState, WithRow
  <2>2. CredAnswer(r, "none")
    BY <1>1 DEF CreateState
  <2>3. /\ credPc' = [credPc EXCEPT ![r] = "done"] /\ DOMAIN credReq' = CredRequests
        /\ CredShape(credReq'[r]) /\ ~ credReq'[r].late
        /\ \A x \in CredRequests : x # r => credReq'[x] = credReq[x]
    BY <2>1, <2>2, CredEnds
  <2> QED BY <2>1, <2>3 DEF CredInv
<1>2. CASE GetState(r, s)
  <2>1. /\ credPc[r] = "idle" /\ UNCHANGED <<apiKeys, oauth, retired>>
    BY <1>2 DEF GetState
  <2>2. CASE s \in DOMAIN oauth
    <3>1. s \notin retired
      BY <2>2 DEF CredInv
    <3>2. /\ credPc' = [credPc EXCEPT ![r] = "consume"]
          /\ credReq' = [credReq EXCEPT ![r].on = {s}, ![r].row = {oauth[s]}, ![r].late = (s \in retired)]
      BY <1>2, <2>2 DEF GetState, CredGoto
    <3>3. /\ DOMAIN credReq' = CredRequests
          /\ \A x \in CredRequests : x # r => credReq'[x] = credReq[x]
      BY <3>2 DEF CredInv
    <3> DEFINE late == s \in retired
    <3>4. /\ CredShape(credReq'[r]) /\ credReq'[r].on = {s} /\ credReq'[r].late = late
          /\ credReq'[r].answer = credReq[r].answer
      <4>1. credReq' = [credReq EXCEPT ![r].on = {s}, ![r].row = {oauth[s]}, ![r].late = late]
        BY <3>2
      <4> DEFINE q == credReq[r]
      <4>2. CredShape(q)
        BY <1>0
      <4> HIDE DEF late
      <4>3. credReq'[r] = [q EXCEPT !.on = {s}, !.row = {oauth[s]}, !.late = late]
        BY <1>0, <4>1
      <4> HIDE DEF q
      <4>4. /\ CredShape(credReq'[r]) /\ credReq'[r].on = {s} /\ credReq'[r].late = late
            /\ credReq'[r].answer = q.answer
        BY <4>2, <4>3 DEF CredShape
      <4> QED BY <4>4 DEF q
    <3>5. ~ late
      BY <3>1
    <3> HIDE DEF late
    <3> QED BY <2>1, <2>2, <3>2, <3>3, <3>4, <3>5 DEF CredInv
  <2>3. CASE s \notin DOMAIN oauth
    <3>2. /\ credPc' = [credPc EXCEPT ![r] = "done"]
          /\ credReq' = [credReq EXCEPT ![r].late = (s \in retired), ![r].answer = "refused"]
      BY <1>2, <2>3 DEF GetState, CredGoto
    <3>3. /\ DOMAIN credReq' = CredRequests
          /\ \A x \in CredRequests : x # r => credReq'[x] = credReq[x]
      BY <3>2 DEF CredInv
    <3>4. CredShape(credReq'[r]) /\ credReq'[r].answer # "admitted"
      <4> DEFINE late == s \in retired
      <4>1. credReq' = [credReq EXCEPT ![r].late = late, ![r].answer = "refused"]
        BY <3>2
      <4> DEFINE q == credReq[r]
      <4>2. CredShape(q)
        BY <1>0
      <4> HIDE DEF late
      <4>3. credReq'[r] = [q EXCEPT !.late = late, !.answer = "refused"]
        BY <1>0, <4>1
      <4> HIDE DEF q
      <4> QED BY <4>2, <4>3 DEF CredShape
    <3> QED BY <2>1, <2>3, <3>2, <3>3, <3>4 DEF CredInv
  <2> QED BY <2>2, <2>3
<1>3. CASE DeleteState(r)
  <2>1. /\ DOMAIN oauth' = DOMAIN oauth \ credReq[r].on
        /\ credPc[r] = "consume" /\ credPc' = [credPc EXCEPT ![r] = "judge"]
        /\ UNCHANGED <<apiKeys, credReq, retired>>
    BY <1>3 DEF DeleteState, CredGoto
  <2> QED BY <2>1 DEF CredInv
<1>4. CASE JudgeCallback(r, p, c)
  <2>1. /\ credPc[r] = "judge" /\ retired' = retired \cup credReq[r].on /\ UNCHANGED <<apiKeys, oauth>>
    BY <1>4 DEF JudgeCallback
  <2>2. PICK row \in credReq[r].row :
          CredAnswer(r, IF CallbackAdmits(row, p, c) THEN "admitted" ELSE "refused")
    BY <1>4 DEF JudgeCallback
  <2>3. /\ credPc' = [credPc EXCEPT ![r] = "done"] /\ DOMAIN credReq' = CredRequests
        /\ CredShape(credReq'[r]) /\ ~ credReq'[r].late
        /\ \A x \in CredRequests : x # r => credReq'[x] = credReq[x]
    BY <2>1, <2>2, CredEnds
  <2> QED BY <2>1, <2>3 DEF CredInv
<1>5. CASE PruneGet(r, s)
  <2>1. credPc[r] = "idle" /\ UNCHANGED <<apiKeys, oauth, retired>>
    BY <1>5 DEF PruneGet
  <2>2. CASE CredAnswer(r, "none")
    BY <2>1, <2>2, CredEndsQuietly
  <2>3. CASE CredGoto(r, "prune") /\ credReq' = [credReq EXCEPT ![r].on = {s}]
    <3>1. /\ DOMAIN credReq' = CredRequests
          /\ \A x \in CredRequests : x # r => credReq'[x] = credReq[x]
      BY <2>3 DEF CredInv
    <3>2. /\ CredShape(credReq'[r])
          /\ credReq'[r].late = credReq[r].late /\ credReq'[r].answer = credReq[r].answer
      <4> DEFINE q == credReq[r]
      <4>1. CredShape(q)
        BY <1>0
      <4>2. credReq'[r] = [q EXCEPT !.on = {s}]
        BY <1>0, <2>3
      <4> HIDE DEF q
      <4>3. /\ CredShape(credReq'[r]) /\ credReq'[r].late = q.late /\ credReq'[r].answer = q.answer
        BY <4>1, <4>2 DEF CredShape
      <4> QED BY <4>3 DEF q
    <3> QED BY <2>1, <2>3, <3>1, <3>2 DEF CredGoto, CredInv
  <2> QED BY <1>5, <2>2, <2>3 DEF PruneGet
<1>6. CASE PruneDelete(r)
  <2>1. /\ DOMAIN oauth' \subseteq DOMAIN oauth /\ credPc[r] = "prune"
        /\ CredAnswer(r, "none") /\ UNCHANGED <<apiKeys, retired>>
    BY <1>6 DEF PruneDelete
  <2> QED BY <2>1, CredEndsQuietly
<1>7. CASE CredCrash(r)
  <2>1. /\ credPc[r] # "done" /\ CredAnswer(r, "none") /\ UNCHANGED <<apiKeys, oauth, retired>>
    BY <1>7 DEF CredCrash
  <2> QED BY <2>1, CredEndsQuietly
<1> QED BY <1>1, <1>2, <1>3, <1>4, <1>5, <1>6, <1>7

LEMMA CredInvStep == CredInv /\ [CredentialsNext]_credVars => CredInv'
<1> SUFFICES ASSUME CredInv, [CredentialsNext]_credVars PROVE CredInv'
  OBVIOUS
<1>1. CASE UNCHANGED credVars
  BY <1>1 DEF credVars, CredInv
<1>2. ASSUME NEW s \in DOMAIN oauth, LoseTtl(s) \/ OAuthStateExpires(s) PROVE CredInv'
  <2>1. DOMAIN oauth' \subseteq DOMAIN oauth /\ UNCHANGED <<apiKeys, credPc, credReq, retired>>
    BY <1>2 DEF LoseTtl, OAuthStateExpires, WithoutRow
  <2> QED BY <2>1 DEF CredInv
<1>3. ASSUME NEW k \in DOMAIN apiKeys, KeyAges(k) PROVE CredInv'
  <2>1. PICK t \in {"at", "after"} : apiKeys' = [apiKeys EXCEPT ![k].time = t]
    BY <1>3 DEF KeyAges
  <2>2. /\ DOMAIN apiKeys' = DOMAIN apiKeys
        /\ \A x \in DOMAIN apiKeys : x # k => apiKeys'[x] = apiKeys[x]
        /\ KeyShape(apiKeys'[k]) /\ apiKeys'[k].revoked = apiKeys[k].revoked
    BY <2>1 DEF CredInv, KeyShape
  <2>3. UNCHANGED <<oauth, credPc, credReq, retired>>
    BY <1>3 DEF KeyAges
  <2> QED BY <2>2, <2>3 DEF CredInv
<1> QED BY <1>1, <1>2, <1>3, CredKeyStep, CredStateStep DEF CredentialsNext, CredStep

\* A revoked key and a used state admit nobody any more, and the list of keys
\* shows no key as active that would be refused, for any number of requests.
THEOREM RetiredStaysRefused == CredentialsSpec => []RetiredIsRefused
<1>1. CredInv => RetiredIsRefused
  BY DEF CredInv, RetiredIsRefused, KeyStatus, KeyAdmits
<1> QED BY CredInvInit, CredInvStep, <1>1, PTL DEF CredentialsSpec

-----------------------------------------------------------------------------
(* AttemptLimits                                                           *)

\* Requests that have counted and not inserted yet, for one limited key; and
\* those about to insert a prefix that they did not find.
Counted(k) == {w \in Attempts : limitPc[w] = "insert" /\ limitReq[w].key = k}
Unfound == {w \in Attempts : limitPc[w] = "writePrefix" /\ ~ limitReq[w].found}

\* A login knows its prefix while it is checked.
PrefixKnown ==
    \A w \in Attempts :
        limitPc[w] \in {"prefix", "writePrefix", "record", "detect"} => limitReq[w].prefix \in Prefixes

\* The inductive invariant: what is recorded together with what is about to be
\* recorded stays within the bounds.
LimitInv ==
    /\ LimitTypeOK
    /\ PrefixKnown
    /\ \A k \in LimitKeys : hits[k] + Cardinality(Counted(k)) <= RequestLimit + Cardinality(Attempts) - 1
    /\ Cardinality(prefixRows) + Cardinality(Unfound) <= Entropy + Cardinality(Attempts)
    /\ Cardinality(tried) < Entropy

\* A request that joins or leaves a set of them.
LEMMA Joins ==
    ASSUME NEW S \in SUBSET Attempts, NEW T \in SUBSET Attempts
    PROVE  /\ Cardinality(S) \in Nat /\ Cardinality(Attempts) \in Nat /\ Cardinality(S) <= Cardinality(Attempts)
           /\ T \subseteq S => Cardinality(T) <= Cardinality(S)
           /\ \A w \in S : T \subseteq S \ {w} => Cardinality(T) <= Cardinality(S) - 1
<1>1. IsFiniteSet(Attempts) /\ IsFiniteSet(S) /\ IsFiniteSet(T)
  BY LimitsAssumption, FS_Subset
<1>2. Cardinality(S) \in Nat /\ Cardinality(Attempts) \in Nat /\ Cardinality(T) \in Nat
  BY <1>1, FS_CardinalityType
<1>3. ASSUME NEW w \in S, T \subseteq S \ {w} PROVE Cardinality(T) <= Cardinality(S) - 1
  <2>1. IsFiniteSet(S \ {w}) /\ Cardinality(S \ {w}) = Cardinality(S) - 1
    BY <1>1, FS_RemoveElement
  <2> QED BY <1>3, <2>1, FS_Subset
<1>4. Cardinality(S) <= Cardinality(Attempts) /\ (T \subseteq S => Cardinality(T) <= Cardinality(S))
  BY <1>1, FS_Subset
<1> QED BY <1>2, <1>3, <1>4

\* Prefixes: subsets of a finite set.
LEMMA PrefixSets ==
    ASSUME NEW S \in SUBSET Prefixes
    PROVE  /\ Cardinality(S) \in Nat
           /\ \A T \in SUBSET S : Cardinality(T) \in Nat /\ Cardinality(T) <= Cardinality(S)
           /\ \A p \in Prefixes : Cardinality(S \cup {p}) <= Cardinality(S) + 1 /\ Cardinality(S \cup {p}) \in Nat
<1>1. IsFiniteSet(S)
  BY LimitsAssumption, FS_Subset
<1>2. Cardinality(S) \in Nat
  BY <1>1, FS_CardinalityType
<1>3. ASSUME NEW T \in SUBSET S PROVE Cardinality(T) \in Nat /\ Cardinality(T) <= Cardinality(S)
  BY <1>1, FS_Subset, FS_CardinalityType
<1>4. ASSUME NEW p \in Prefixes PROVE Cardinality(S \cup {p}) <= Cardinality(S) + 1 /\ Cardinality(S \cup {p}) \in Nat
  <2>1. Cardinality(S \cup {p}) = IF p \in S THEN Cardinality(S) ELSE Cardinality(S) + 1
    BY <1>1, FS_AddElement
  <2> QED BY <1>2, <2>1
<1> QED BY <1>2, <1>3, <1>4

LEMMA LimitInvInit == LimitInit => LimitInv
<1> SUFFICES ASSUME LimitInit PROVE LimitInv
  OBVIOUS
<1>1. Counted("login_ip") = {} /\ Counted("other") = {} /\ Unfound = {}
  BY DEF LimitInit, Counted, Unfound
<1>2. Cardinality({}) = 0 /\ Cardinality(Attempts) \in Nat
  BY FS_EmptySet, FS_CardinalityType, LimitsAssumption
<1>3. LimitTypeOK /\ PrefixKnown
  BY DEF LimitInit, PrefixKnown, LimitTypeOK, LimitKeys, LimitSteps, LimitLocals, NoAttempt
<1>4. ASSUME NEW k \in LimitKeys
      PROVE  hits[k] + Cardinality(Counted(k)) <= RequestLimit + Cardinality(Attempts) - 1
  <2>1. hits[k] = 0 /\ Counted(k) = {}
    BY <1>1 DEF LimitInit, LimitKeys
  <2>2. Cardinality(Counted(k)) = 0
    BY <1>2, <2>1
  <2> QED BY <1>2, <2>1, <2>2, LimitsAssumption
<1>5. Cardinality(prefixRows) = 0 /\ Cardinality(Unfound) = 0 /\ Cardinality(tried) = 0
  BY <1>1, <1>2 DEF LimitInit
<1> QED BY <1>2, <1>3, <1>4, <1>5, LimitsAssumption DEF LimitInv

\* One request moves; the prefix of a login stays known.
LimitMoves(w, step) ==
    /\ step \in LimitSteps
    /\ limitPc' = [limitPc EXCEPT ![w] = step]
    /\ \A x \in Attempts \ {w} : limitReq'[x] = limitReq[x]
    /\ limitReq' \in [Attempts -> LimitLocals]
    /\ step \in {"prefix", "writePrefix", "record", "detect"} => limitReq'[w].prefix \in Prefixes

LEMMA LimitEnds ==
    ASSUME LimitInv, NEW w \in Attempts, LimitEnd(w)
    PROVE  LimitMoves(w, "idle")
<1>1. NoAttempt \in LimitLocals
  BY DEF NoAttempt, LimitLocals, LimitKeys
<1> QED BY <1>1 DEF LimitInv, LimitTypeOK, LimitEnd, LimitGoto, LimitSteps, LimitMoves

LEMMA LimitGoes ==
    ASSUME LimitInv, NEW w \in Attempts, NEW step \in LimitSteps, LimitGoto(w, step), UNCHANGED limitReq,
           step \in {"prefix", "writePrefix", "record", "detect"} => limitReq[w].prefix \in Prefixes
    PROVE  LimitMoves(w, step)
  BY DEF LimitInv, LimitTypeOK, LimitGoto, LimitMoves

\* The rest of the state keeps its types.
CountersOK ==
    /\ hits \in [LimitKeys -> Nat]
    /\ prefixRows \subseteq Prefixes /\ pairSet \subseteq Prefixes
    /\ luaHits \in Nat /\ memHits \in Nat /\ made \in Nat
    /\ tripped \in BOOLEAN
    /\ tried \subseteq pairSet

LEMMA MovesTypes ==
    ASSUME LimitInv, CountersOK', NEW w \in Attempts, NEW step, LimitMoves(w, step)
    PROVE  LimitTypeOK' /\ PrefixKnown'
<1>1. limitPc' \in [Attempts -> LimitSteps]
  BY DEF LimitInv, LimitTypeOK, LimitMoves
<1>2. PrefixKnown'
  BY DEF LimitInv, LimitTypeOK, PrefixKnown, LimitMoves
<1> QED BY <1>1, <1>2 DEF LimitTypeOK, CountersOK, LimitMoves

\* Nothing is recorded, and nobody is about to record more than before.
LEMMA LimitKept ==
    ASSUME LimitInv, LimitTypeOK', PrefixKnown',
           \A k \in LimitKeys : hits'[k] <= hits[k] /\ Counted(k)' \subseteq Counted(k),
           prefixRows' \subseteq prefixRows, Unfound' \subseteq Unfound,
           tried' \subseteq tried \/ Cardinality(tried') < Entropy
    PROVE  LimitInv'
<1>1. ASSUME NEW k \in LimitKeys
      PROVE  hits'[k] + Cardinality(Counted(k)') <= RequestLimit + Cardinality(Attempts) - 1
  <2>1. Counted(k) \in SUBSET Attempts /\ Counted(k)' \in SUBSET Attempts
    BY DEF Counted
  <2>2. /\ Cardinality(Counted(k)) \in Nat /\ Cardinality(Counted(k)') \in Nat
        /\ Cardinality(Attempts) \in Nat /\ Cardinality(Counted(k)') <= Cardinality(Counted(k))
    BY <2>1, Joins
  <2>3. hits[k] \in Nat /\ hits'[k] \in Nat /\ hits'[k] <= hits[k]
    BY DEF LimitInv, LimitTypeOK
  <2>4. hits[k] + Cardinality(Counted(k)) <= RequestLimit + Cardinality(Attempts) - 1
    BY DEF LimitInv
  <2> QED BY <2>2, <2>3, <2>4, LimitsAssumption
<1>2. Cardinality(prefixRows') + Cardinality(Unfound') <= Entropy + Cardinality(Attempts)
  <2>1. Unfound \in SUBSET Attempts /\ Unfound' \in SUBSET Attempts
    BY DEF Unfound
  <2>2. /\ Cardinality(Unfound) \in Nat /\ Cardinality(Unfound') \in Nat
        /\ Cardinality(Attempts) \in Nat /\ Cardinality(Unfound') <= Cardinality(Unfound)
    BY <2>1, Joins
  <2>3. /\ Cardinality(prefixRows) \in Nat /\ Cardinality(prefixRows') \in Nat
        /\ Cardinality(prefixRows') <= Cardinality(prefixRows)
    BY PrefixSets DEF LimitInv, LimitTypeOK
  <2>4. Cardinality(prefixRows) + Cardinality(Unfound) <= Entropy + Cardinality(Attempts)
    BY DEF LimitInv
  <2> QED BY <2>2, <2>3, <2>4, LimitsAssumption
<1>3. Cardinality(tried') < Entropy
  <2>1. CASE tried' \subseteq tried
    <3>1. tried \in SUBSET Prefixes
      BY DEF LimitInv, LimitTypeOK
    <3>2. /\ Cardinality(tried) \in Nat /\ Cardinality(tried') \in Nat
          /\ Cardinality(tried') <= Cardinality(tried)
      BY <2>1, <3>1, PrefixSets
    <3> QED BY <3>2, LimitsAssumption DEF LimitInv
  <2> QED BY <2>1
<1> QED BY <1>1, <1>2, <1>3 DEF LimitInv

LEMMA QuietMove ==
    ASSUME LimitInv, CountersOK', NEW w \in Attempts, NEW step, LimitMoves(w, step),
           step \notin {"insert", "writePrefix"},
           \A k \in LimitKeys : hits'[k] <= hits[k],
           prefixRows' \subseteq prefixRows, tried' \subseteq tried \/ Cardinality(tried') < Entropy
    PROVE  LimitInv'
<1>1. LimitTypeOK' /\ PrefixKnown'
  BY MovesTypes
<1>2. \A k \in LimitKeys : Counted(k)' \subseteq Counted(k)
  BY DEF Counted, LimitMoves, LimitInv, LimitTypeOK
<1>3. Unfound' \subseteq Unfound
  BY DEF Unfound, LimitMoves, LimitInv, LimitTypeOK
<1> QED BY <1>1, <1>2, <1>3, LimitKept

LEMMA PrefixStep ==
    ASSUME LimitInv, NEW w \in Attempts, NEW up \in BOOLEAN,
           PrefixLookup(w) \/ PrefixWrite(w) \/ RecordAttempt(w, up) \/ DetectStuffing(w, up)
    PROVE  LimitInv'
<1> DEFINE l == limitReq[w]
<1>a. CountersOK /\ l \in LimitLocals
  BY DEF LimitInv, LimitTypeOK, CountersOK
<1>b. UNCHANGED hits => \A k \in LimitKeys : hits'[k] <= hits[k]
  BY <1>a DEF CountersOK
<1>c. limitPc[w] \in {"prefix", "writePrefix", "record", "detect"} => l.prefix \in Prefixes
  BY DEF LimitInv, PrefixKnown
<1>1. CASE PrefixLookup(w)
  <2> DEFINE b == l.prefix \in prefixRows
             step == IF b \/ Cardinality(prefixRows) < Entropy + 1 THEN "writePrefix" ELSE "record"
  <2>1. /\ b \in BOOLEAN /\ limitReq' = [limitReq EXCEPT ![w].found = b]
        /\ limitPc' = [limitPc EXCEPT ![w] = step] /\ l.prefix \in Prefixes
    BY <1>1, <1>c DEF PrefixLookup, LimitGoto
  <2>2. step \in {"writePrefix", "record"} /\ (step = "writePrefix" /\ ~ b => Cardinality(prefixRows) < Entropy + 1)
    OBVIOUS
  <2>3. CountersOK'
    BY <1>1, <1>a DEF PrefixLookup, CountersOK
  <2> HIDE DEF b, step
  <2>4. /\ limitReq' \in [Attempts -> LimitLocals] /\ limitReq'[w].prefix = l.prefix /\ limitReq'[w].found = b
        /\ \A x \in Attempts \ {w} : limitReq'[x] = limitReq[x]
    BY <2>1 DEF LimitInv, LimitTypeOK, LimitLocals
  <2>5. LimitMoves(w, step)
    BY <2>1, <2>2, <2>4 DEF LimitMoves, LimitSteps
  <2>6. CASE step = "record"
    BY <1>1, <1>b, <2>3, <2>5, <2>6, QuietMove DEF PrefixLookup
  <2>7. CASE step = "writePrefix"
    <3>1. LimitTypeOK' /\ PrefixKnown'
      BY <2>3, <2>5, MovesTypes
    <3>2. \A k \in LimitKeys : Counted(k)' \subseteq Counted(k)
      BY <2>1, <2>4, <2>7 DEF Counted, LimitInv, LimitTypeOK
    <3>3. CASE b
      <4>1. Unfound' \subseteq Unfound
        BY <2>1, <2>4, <3>3 DEF Unfound, LimitInv, LimitTypeOK
      <4> QED BY <1>1, <1>b, <3>1, <3>2, <4>1, LimitKept DEF PrefixLookup
    <3>4. CASE ~ b
      <4>1. \A k \in LimitKeys : hits'[k] + Cardinality(Counted(k)') <= RequestLimit + Cardinality(Attempts) - 1
        <5>1. ASSUME NEW k \in LimitKeys
              PROVE  /\ hits'[k] = hits[k] /\ hits[k] \in Nat
                     /\ Cardinality(Counted(k)) \in Nat /\ Cardinality(Counted(k)') \in Nat
                     /\ Cardinality(Attempts) \in Nat
                     /\ Cardinality(Counted(k)') <= Cardinality(Counted(k))
                     /\ hits[k] + Cardinality(Counted(k)) <= RequestLimit + Cardinality(Attempts) - 1
          <6>1. Counted(k) \in SUBSET Attempts /\ Counted(k)' \in SUBSET Attempts
            BY DEF Counted
          <6> QED BY <1>1, <1>a, <3>2, <6>1, Joins DEF PrefixLookup, CountersOK, LimitInv
        <5> QED BY <5>1, LimitsAssumption
      <4>2. Unfound' \in SUBSET Attempts
        BY DEF Unfound
      <4>3. /\ Cardinality(Unfound') \in Nat /\ Cardinality(Attempts) \in Nat
            /\ Cardinality(Unfound') <= Cardinality(Attempts)
        BY <4>2, Joins
      <4>4. Cardinality(prefixRows) \in Nat /\ Cardinality(prefixRows) < Entropy + 1 /\ prefixRows' = prefixRows
        BY <1>1, <1>a, <2>2, <2>7, <3>4, PrefixSets DEF PrefixLookup, CountersOK
      <4>5. Cardinality(prefixRows') + Cardinality(Unfound') <= Entropy + Cardinality(Attempts)
        BY <4>3, <4>4, LimitsAssumption
      <4> QED BY <1>1, <3>1, <4>1, <4>5 DEF LimitInv, PrefixLookup
    <3> QED BY <3>3, <3>4
  <2> QED BY <2>2, <2>6, <2>7
<1>2. CASE PrefixWrite(w)
  <2>1. CountersOK' /\ l.prefix \in Prefixes /\ limitPc[w] = "writePrefix"
    BY <1>2, <1>a, <1>c DEF PrefixWrite, CountersOK
  <2>2. CASE prefixRows' \subseteq prefixRows
    <3>1. LimitMoves(w, "record") \/ LimitMoves(w, "idle")
      BY <1>2, <2>1, LimitEnds, LimitGoes DEF PrefixWrite, LimitSteps
    <3> QED BY <1>2, <1>b, <2>1, <2>2, <3>1, QuietMove DEF PrefixWrite
  <2>3. CASE ~ (prefixRows' \subseteq prefixRows)
    <3>1. /\ ~ l.found /\ prefixRows' = prefixRows \cup {l.prefix} /\ LimitMoves(w, "record")
          /\ UNCHANGED limitReq
      BY <1>2, <1>a, <2>1, <2>3, LimitGoes DEF PrefixWrite, LimitSteps
    <3>2. LimitTypeOK' /\ PrefixKnown'
      BY <2>1, <3>1, MovesTypes
    <3>3. Unfound' \subseteq Unfound \ {w} /\ w \in Unfound
      BY <2>1, <3>1 DEF Unfound, LimitMoves, LimitInv, LimitTypeOK
    <3>4. Unfound \in SUBSET Attempts /\ Unfound' \in SUBSET Attempts
      BY DEF Unfound
    <3>5. /\ Cardinality(Unfound) \in Nat /\ Cardinality(Unfound') \in Nat
          /\ Cardinality(Attempts) \in Nat /\ Cardinality(Unfound') <= Cardinality(Unfound) - 1
      BY <3>3, <3>4, Joins
    <3>6. /\ Cardinality(prefixRows) \in Nat /\ Cardinality(prefixRows') \in Nat
          /\ Cardinality(prefixRows') <= Cardinality(prefixRows) + 1
      BY <1>a, <2>1, <3>1, PrefixSets DEF CountersOK
    <3>7. Cardinality(prefixRows') + Cardinality(Unfound') <= Entropy + Cardinality(Attempts)
      BY <3>5, <3>6, LimitsAssumption DEF LimitInv
    <3>8. \A k \in LimitKeys : Counted(k)' = Counted(k)
      BY <2>1, <3>1 DEF Counted, LimitMoves, LimitInv, LimitTypeOK
    <3> QED BY <1>2, <3>2, <3>7, <3>8 DEF LimitInv, PrefixWrite
  <2> QED BY <2>2, <2>3
<1>3. CASE RecordAttempt(w, up)
  <2>1. CountersOK' /\ LimitMoves(w, "detect")
    BY <1>3, <1>a, <1>c, LimitGoes DEF RecordAttempt, CountersOK, LimitSteps
  <2> QED BY <1>3, <1>b, <2>1, QuietMove DEF RecordAttempt
<1>4. CASE DetectStuffing(w, up)
  <2>1. CountersOK'
    BY <1>4, <1>a DEF DetectStuffing, CountersOK
  <2>2. LimitMoves(w, "idle") \/ LimitMoves(w, "ledger")
    BY <1>4, LimitEnds, LimitGoes DEF DetectStuffing, LimitSteps
  <2>3. tried' \subseteq tried \/ Cardinality(tried') < Entropy
    <3>1. CASE up /\ ~ Sprayed
      <4>1. tried' \in SUBSET pairSet /\ pairSet \in SUBSET Prefixes
        BY <1>4, <1>a, <3>1 DEF DetectStuffing, CountersOK
      <4>2. Cardinality(pairSet) \in Nat /\ Cardinality(tried') \in Nat /\ Cardinality(tried') <= Cardinality(pairSet)
        BY <4>1, PrefixSets
      <4> QED BY <3>1, <4>2, LimitsAssumption DEF Sprayed
    <3>2. CASE ~ (up /\ ~ Sprayed)
      BY <1>4, <3>2 DEF DetectStuffing
    <3> QED BY <3>1, <3>2
  <2> QED BY <1>4, <1>b, <2>1, <2>2, <2>3, QuietMove DEF DetectStuffing
<1> QED BY <1>1, <1>2, <1>3, <1>4

LEMMA LedgerStep ==
    ASSUME LimitInv, NEW w \in Attempts, NEW up \in BOOLEAN,
           \/ LedgerCount(w) \/ LedgerInsert(w) \/ EvalScript(w) \/ FallbackFilter(w, up)
           \/ FallbackStore(w) \/ FallbackAppend(w)
    PROVE  LimitInv'
<1> DEFINE l == limitReq[w]
<1>a. CountersOK /\ l \in LimitLocals
  BY DEF LimitInv, LimitTypeOK, CountersOK
<1>b. UNCHANGED hits => \A k \in LimitKeys : hits'[k] <= hits[k]
  BY <1>a DEF CountersOK
<1>k. l.key \in LimitKeys /\ l.mem \in Nat
  BY <1>a DEF LimitLocals
<1>1. CASE LedgerCount(w)
  <2>1. CountersOK'
    BY <1>1, <1>a DEF LedgerCount, CountersOK
  <2>2. CASE LimitEnd(w)
    BY <1>1, <1>b, <2>1, <2>2, LimitEnds, QuietMove DEF LedgerCount
  <2>3. CASE ~ LimitEnd(w)
    <3>1. LimitMoves(w, "insert") /\ UNCHANGED limitReq /\ ~ AtLimit(l.key)
      BY <1>1, <2>3, LimitGoes DEF LedgerCount, LimitSteps
    <3>2. LimitTypeOK' /\ PrefixKnown'
      BY <2>1, <3>1, MovesTypes
    <3>3. ASSUME NEW k \in LimitKeys
          PROVE  hits'[k] + Cardinality(Counted(k)') <= RequestLimit + Cardinality(Attempts) - 1
      <4>1. Counted(k) \in SUBSET Attempts /\ Counted(k)' \in SUBSET Attempts
        BY DEF Counted
      <4>2. /\ Cardinality(Counted(k)) \in Nat /\ Cardinality(Counted(k)') \in Nat
            /\ Cardinality(Attempts) \in Nat /\ Cardinality(Counted(k)') <= Cardinality(Attempts)
            /\ Counted(k)' \subseteq Counted(k) => Cardinality(Counted(k)') <= Cardinality(Counted(k))
        BY <4>1, Joins
      <4>3. hits'[k] = hits[k] /\ hits[k] \in Nat
        BY <1>1, <1>a DEF LedgerCount, CountersOK
      <4>4. CASE k = l.key
        <5>1. hits[k] < RequestLimit
          BY <3>1, <4>3, <4>4, LimitsAssumption DEF AtLimit
        <5> QED BY <4>2, <4>3, <5>1, LimitsAssumption
      <4>5. CASE k # l.key
        <5>1. Counted(k)' \subseteq Counted(k)
          BY <3>1, <4>5 DEF Counted, LimitMoves, LimitInv, LimitTypeOK
        <5>2. hits[k] + Cardinality(Counted(k)) <= RequestLimit + Cardinality(Attempts) - 1
          BY DEF LimitInv
        <5> QED BY <4>2, <4>3, <5>1, <5>2, LimitsAssumption
      <4> QED BY <4>4, <4>5
    <3>4. Unfound' \subseteq Unfound
      BY <3>1 DEF Unfound, LimitMoves, LimitInv, LimitTypeOK
    <3>5. Cardinality(prefixRows') + Cardinality(Unfound') <= Entropy + Cardinality(Attempts)
      <4>1. Unfound \in SUBSET Attempts /\ Unfound' \in SUBSET Attempts
        BY DEF Unfound
      <4>2. /\ Cardinality(Unfound) \in Nat /\ Cardinality(Unfound') \in Nat
            /\ Cardinality(Attempts) \in Nat /\ Cardinality(Unfound') <= Cardinality(Unfound)
        BY <3>4, <4>1, Joins
      <4>3. Cardinality(prefixRows) \in Nat /\ prefixRows' = prefixRows
        BY <1>1, <1>a, PrefixSets DEF LedgerCount, CountersOK
      <4> QED BY <4>2, <4>3, LimitsAssumption DEF LimitInv
    <3> QED BY <1>1, <3>2, <3>3, <3>5 DEF LimitInv, LedgerCount
  <2> QED BY <2>2, <2>3
<1>2. CASE LedgerInsert(w)
  <2>1. /\ limitPc[w] = "insert" /\ hits' = [hits EXCEPT ![l.key] = hits[l.key] + 1]
        /\ UNCHANGED <<prefixRows, pairSet, tried>>
    BY <1>2 DEF LedgerInsert
  <2>2. hits'[l.key] = hits[l.key] + 1 /\ \A k \in LimitKeys : k # l.key => hits'[k] = hits[k]
    BY <1>a, <1>k, <2>1 DEF CountersOK
  <2>3. hits' \in [LimitKeys -> Nat]
    <3> DEFINE n == hits[l.key] + 1
    <3>1. n \in Nat /\ hits' = [hits EXCEPT ![l.key] = n]
      BY <1>a, <1>k, <2>1 DEF CountersOK
    <3> HIDE DEF n
    <3> QED BY <1>a, <1>k, <3>1 DEF CountersOK
  <2>4. CountersOK'
    BY <1>2, <1>a, <2>3 DEF LedgerInsert, CountersOK
  <2>5. LimitMoves(w, "second") \/ LimitMoves(w, "idle")
    BY <1>2, LimitEnds, LimitGoes DEF LedgerInsert, LimitSteps
  <2>6. LimitTypeOK' /\ PrefixKnown'
    BY <2>4, <2>5, MovesTypes
  <2>7. ASSUME NEW k \in LimitKeys
        PROVE  hits'[k] + Cardinality(Counted(k)') <= RequestLimit + Cardinality(Attempts) - 1
    <3>1. Counted(k) \in SUBSET Attempts /\ Counted(k)' \in SUBSET Attempts
      BY DEF Counted
    <3>2. Counted(k)' \subseteq Counted(k) \ {w} /\ (k = l.key => w \in Counted(k))
      BY <2>1, <2>5 DEF Counted, LimitMoves, LimitInv, LimitTypeOK
    <3>3. /\ Cardinality(Counted(k)) \in Nat /\ Cardinality(Counted(k)') \in Nat
          /\ Cardinality(Attempts) \in Nat /\ Cardinality(Counted(k)') <= Cardinality(Counted(k))
          /\ k = l.key => Cardinality(Counted(k)') <= Cardinality(Counted(k)) - 1
      BY <3>1, <3>2, Joins
    <3>4. hits[k] \in Nat /\ hits[k] + Cardinality(Counted(k)) <= RequestLimit + Cardinality(Attempts) - 1
      BY <1>a DEF CountersOK, LimitInv
    <3>5. CASE k = l.key
      BY <2>2, <3>3, <3>4, <3>5, LimitsAssumption
    <3>6. CASE k # l.key
      BY <2>2, <3>3, <3>4, <3>6, LimitsAssumption
    <3> QED BY <3>5, <3>6
  <2>8. Unfound' = Unfound
    BY <2>1, <2>5 DEF Unfound, LimitMoves, LimitInv, LimitTypeOK
  <2> QED BY <2>1, <2>6, <2>7, <2>8 DEF LimitInv
<1>3. CASE EvalScript(w)
  <2>1. CountersOK'
    BY <1>3, <1>a DEF EvalScript, CountersOK
  <2> QED BY <1>3, <1>b, <2>1, LimitEnds, QuietMove DEF EvalScript
<1>4. CASE FallbackFilter(w, up)
  <2>1. CountersOK'
    BY <1>4, <1>a DEF FallbackFilter, CountersOK
  <2>2. LimitMoves(w, "memStore")
    BY <1>4, <1>a DEF FallbackFilter, CountersOK, LimitGoto, LimitMoves, LimitSteps, LimitInv, LimitTypeOK, LimitLocals
  <2> QED BY <1>4, <1>b, <2>1, <2>2, QuietMove DEF FallbackFilter
<1>5. CASE FallbackStore(w)
  <2>1. CountersOK'
    BY <1>5, <1>a, <1>k DEF FallbackStore, CountersOK
  <2>2. LimitMoves(w, "idle") \/ LimitMoves(w, "memAppend")
    BY <1>5, LimitEnds, LimitGoes DEF FallbackStore, LimitSteps
  <2> QED BY <1>5, <1>b, <2>1, <2>2, QuietMove DEF FallbackStore
<1>6. CASE FallbackAppend(w)
  <2>1. CountersOK'
    BY <1>6, <1>a DEF FallbackAppend, CountersOK
  <2> QED BY <1>6, <1>b, <2>1, LimitEnds, QuietMove DEF FallbackAppend
<1> QED BY <1>1, <1>2, <1>3, <1>4, <1>5, <1>6

LEMMA LimitInvStep == LimitInv /\ [LimitNext]_limitVars => LimitInv'
<1> SUFFICES ASSUME LimitInv, [LimitNext]_limitVars PROVE LimitInv'
  OBVIOUS
<1>a. CountersOK
  BY DEF LimitInv, LimitTypeOK, CountersOK
<1>b. UNCHANGED hits => \A k \in LimitKeys : hits'[k] <= hits[k]
  BY <1>a DEF CountersOK
<1>1. ASSUME NEW w \in Attempts, NEW p \in Prefixes, Login(w, p) PROVE LimitInv'
  <2>1. CountersOK'
    BY <1>1, <1>a DEF Login, CountersOK
  <2>2. LimitMoves(w, "prefix")
    BY <1>1 DEF Login, LimitGoto, LimitMoves, LimitSteps, LimitInv, LimitTypeOK, LimitLocals, LimitKeys
  <2> QED BY <1>1, <1>b, <2>1, <2>2, QuietMove DEF Login
<1>2. ASSUME NEW w \in Attempts, OtherLimited(w) PROVE LimitInv'
  <2>1. CountersOK'
    BY <1>2, <1>a DEF OtherLimited, CountersOK
  <2>2. LimitMoves(w, "ledger")
    BY <1>2, LimitGoes DEF OtherLimited, LimitSteps
  <2> QED BY <1>2, <1>b, <2>1, <2>2, QuietMove DEF OtherLimited
<1>3. ASSUME UNCHANGED <<limitPc, limitReq>>, CountersOK', \A k \in LimitKeys : hits'[k] <= hits[k],
             prefixRows' \subseteq prefixRows, tried' \subseteq tried
      PROVE  LimitInv'
  <2>1. LimitTypeOK' /\ PrefixKnown'
    BY <1>3 DEF LimitInv, LimitTypeOK, CountersOK, PrefixKnown
  <2>2. Unfound' = Unfound /\ \A k \in LimitKeys : Counted(k)' = Counted(k)
    BY <1>3 DEF Unfound, Counted
  <2> QED BY <1>3, <2>1, <2>2, LimitKept
<1>4. ASSUME NEW k \in LimitKeys, PruneScope(k) PROVE LimitInv'
  <2> DEFINE n == hits[k] - 1
  <2>1. n \in Nat /\ n <= hits[k] /\ hits' = [hits EXCEPT ![k] = n]
    BY <1>4, <1>a DEF PruneScope, CountersOK
  <2> HIDE DEF n
  <2>2. hits' \in [LimitKeys -> Nat] /\ \A j \in LimitKeys : hits'[j] <= hits[j]
    BY <1>a, <2>1 DEF CountersOK
  <2>3. CountersOK'
    BY <1>4, <1>a, <2>2 DEF PruneScope, CountersOK
  <2> QED BY <1>4, <2>2, <2>3, <1>3 DEF PruneScope
<1>5. ASSUME NEW p \in Prefixes, PrunePrefix(p) \/ PrunePair(p) PROVE LimitInv'
  <2>1. CountersOK'
    BY <1>5, <1>a DEF PrunePrefix, PrunePair, CountersOK
  <2> QED BY <1>5, <1>b, <2>1, <1>3 DEF PrunePrefix, PrunePair
<1>6. CASE WindowSlides \/ CircuitResets \/ UNCHANGED limitVars
  <2>1. luaHits' \in Nat
    <3>1. CASE luaHits > 0 /\ luaHits' = luaHits - 1
      BY <3>1, <1>a DEF CountersOK
    <3>2. CASE luaHits' = luaHits
      BY <3>2, <1>a DEF CountersOK
    <3> QED BY <1>6, <3>1, <3>2 DEF WindowSlides, CircuitResets, limitVars
  <2>2. memHits' \in Nat
    <3>1. CASE memHits > 0 /\ memHits' = memHits - 1
      BY <3>1, <1>a DEF CountersOK
    <3>2. CASE memHits' = memHits
      BY <3>2, <1>a DEF CountersOK
    <3> QED BY <1>6, <3>1, <3>2 DEF WindowSlides, CircuitResets, limitVars
  <2>3. /\ UNCHANGED <<made, hits, prefixRows, pairSet, tried, limitPc, limitReq>>
        /\ tripped' = tripped \/ tripped' = FALSE
    BY <1>6 DEF WindowSlides, CircuitResets, limitVars
  <2>4. CountersOK'
    BY <1>a, <2>1, <2>2, <2>3 DEF CountersOK
  <2> QED BY <1>b, <2>3, <2>4, <1>3
<1> QED BY <1>1, <1>2, <1>4, <1>5, <1>6, PrefixStep, LedgerStep DEF LimitNext, EnforceLoginRateLimits, IsAllowed

\* However many requests race between the count and the insert of the ledger,
\* it exceeds its limit by no more than the requests in flight, and fewer than
\* the threshold of prefixes pass the detector, for every limit, threshold and
\* finite number of requests and prefixes.
THEOREM RacesStayBounded == LimitSpec => []AttemptsLimited
<1>1. LimitInv => AttemptsLimited
  <2> SUFFICES ASSUME LimitInv PROVE AttemptsLimited
    OBVIOUS
  <2>1. Unfound \in SUBSET Attempts /\ \A k \in LimitKeys : Counted(k) \in SUBSET Attempts
    BY DEF Unfound, Counted
  <2>2. /\ Cardinality(Unfound) \in Nat /\ Cardinality(Attempts) \in Nat
        /\ \A k \in LimitKeys : Cardinality(Counted(k)) \in Nat
    BY <2>1, Joins
  <2>3. prefixRows \in SUBSET Prefixes /\ hits \in [LimitKeys -> Nat]
    BY DEF LimitInv, LimitTypeOK
  <2>4. Cardinality(prefixRows) \in Nat
    BY <2>3, PrefixSets
  <2>5. ASSUME NEW k \in LimitKeys PROVE hits[k] <= RequestLimit + Cardinality(Attempts) - 1
    <3>1. hits[k] \in Nat /\ Cardinality(Counted(k)) \in Nat
          /\ hits[k] + Cardinality(Counted(k)) <= RequestLimit + Cardinality(Attempts) - 1
      BY <2>2, <2>3 DEF LimitInv
    <3> QED BY <2>2, <3>1, LimitsAssumption
  <2>6. Cardinality(prefixRows) <= Entropy + 1 + Cardinality(Attempts) - 1
    BY <2>2, <2>4, LimitsAssumption DEF LimitInv
  <2> QED BY <2>5, <2>6 DEF LimitInv, AttemptsLimited, LedgersBounded
<1> QED BY LimitInvInit, LimitInvStep, <1>1, PTL DEF LimitSpec

-----------------------------------------------------------------------------
(* Idempotency                                                             *)

\* The fields of a request's local state.
IdemShape(q) ==
    q = [actor |-> q.actor, key |-> q.key, payload |-> q.payload, worker |-> q.worker,
         blind |-> q.blind, before |-> q.before, stored |-> q.stored, overflow |-> q.overflow,
         oldest |-> q.oldest, answer |-> q.answer, end |-> q.end]

\* The request p has begun with the actor, key and payload given.
BegunAs(p, k, payload) ==
    /\ p \in IdemRequests /\ idemPc[p] # "idle"
    /\ <<idem[p].actor, idem[p].key>> = k /\ idem[p].payload = payload

\* A request that was handled although an answer was stored before it had not
\* asked Redis, or the answer is lost; one that was replayed got the answer to
\* the same request.
IdemRequestOK(r) ==
    LET q == idem[r] IN
    /\ IdemShape(q)
    /\ idemPc[r] = "idle" => q = NoIdem
    /\ idemPc[r] # "idle" => q.actor \in Actors /\ q.key \in Keys
    /\ idemPc[r] = "handle" => q.end = "none"
    /\ q.stored => <<q.actor, q.key>> \in DOMAIN answers \cup lost
    /\ q.before # {} /\ q.end \notin {"replayed", "conflict"} => q.blind \/ <<q.actor, q.key>> \in lost
    /\ q.end = "replayed" => BegunAs(q.answer, <<q.actor, q.key>>, q.payload)

\* What is stored under a key is the answer to a request with that key.
AnswersOK ==
    \A k \in DOMAIN answers : k \in Actors \X Keys /\ BegunAs(answers[k].by, k, answers[k].payload)

\* The inductive invariant.
IdemInv ==
    /\ idemPc \in [IdemRequests -> IdemSteps]
    /\ idem = [r \in IdemRequests |-> idem[r]]
    /\ \A r \in IdemRequests : IdemRequestOK(r)
    /\ AnswersOK

\* A request that has begun takes a step: its actor, key and payload stay.
Proceeds(r) ==
    LET q == idem[r]
        n == idem'[r]
    IN
    /\ idemPc[r] # "idle"
    /\ idemPc' \in [IdemRequests -> IdemSteps]
    /\ idemPc'[r] \notin {"idle", "handle"}
    /\ \A p \in IdemRequests \ {r} : idem'[p] = idem[p] /\ idemPc'[p] = idemPc[p]
    /\ idem' = [p \in IdemRequests |-> idem'[p]]
    /\ IdemShape(n)
    /\ n.actor = q.actor /\ n.key = q.key /\ n.payload = q.payload
    /\ n.before = q.before /\ n.blind = q.blind /\ n.answer = q.answer
    /\ n.stored => q.stored \/ <<q.actor, q.key>> \in DOMAIN answers'
    /\ n.end = q.end \/ (idemPc[r] = "handle" /\ n.end # "replayed")

\* An answer that is no longer stored is lost, and only the request r stores.
AnswersMove(r) ==
    /\ lost \subseteq lost' /\ DOMAIN answers \subseteq DOMAIN answers' \cup lost'
    /\ \A k \in DOMAIN answers' :
          \/ k \in DOMAIN answers /\ answers'[k] = answers[k]
          \/ k = <<idem[r].actor, idem[r].key>> /\ answers'[k] = [by |-> r, payload |-> idem[r].payload]

LEMMA BegunStays ==
    ASSUME NEW r \in IdemRequests, Proceeds(r), NEW p, NEW k, NEW payload, BegunAs(p, k, payload)
    PROVE  BegunAs(p, k, payload)'
<1>1. CASE p = r
  BY <1>1 DEF BegunAs, Proceeds
<1>2. CASE p # r
  BY <1>2 DEF BegunAs, Proceeds
<1> QED BY <1>1, <1>2

LEMMA ProceedsKeeps ==
    ASSUME IdemInv, NEW r \in IdemRequests, Proceeds(r), AnswersMove(r)
    PROVE  IdemInv'
<1>1. idemPc' \in [IdemRequests -> IdemSteps] /\ idem' = [p \in IdemRequests |-> idem'[p]]
  BY DEF Proceeds
<1>2. AnswersOK'
  <2> SUFFICES ASSUME NEW k \in DOMAIN answers'
               PROVE  k \in Actors \X Keys /\ BegunAs(answers[k].by, k, answers[k].payload)'
    BY DEF AnswersOK
  <2>1. CASE k \in DOMAIN answers /\ answers'[k] = answers[k]
    <3>1. k \in Actors \X Keys /\ BegunAs(answers[k].by, k, answers[k].payload)
      BY <2>1 DEF IdemInv, AnswersOK
    <3>2. BegunAs(answers'[k].by, k, answers'[k].payload)
      BY <2>1, <3>1
    <3> QED BY <3>1, <3>2, BegunStays DEF BegunAs
  <2>2. CASE k = <<idem[r].actor, idem[r].key>> /\ answers'[k] = [by |-> r, payload |-> idem[r].payload]
    <3>1. idem[r].actor \in Actors /\ idem[r].key \in Keys
      BY DEF IdemInv, IdemRequestOK, Proceeds
    <3>2. answers'[k].by = r /\ answers'[k].payload = idem[r].payload
      BY <2>2
    <3> QED BY <2>2, <3>1, <3>2 DEF BegunAs, Proceeds
  <2> QED BY <2>1, <2>2 DEF AnswersMove
<1>3. ASSUME NEW p \in IdemRequests PROVE IdemRequestOK(p)'
  <2>1. IdemRequestOK(p)
    BY DEF IdemInv
  <2>2. CASE p = r
    <3>1. IdemShape(idem[p])' /\ (idemPc[p] # "idle" /\ idemPc[p] # "handle")'
      BY <2>2 DEF Proceeds, IdemShape
    <3>2. idem'[p].actor \in Actors /\ idem'[p].key \in Keys
      BY <2>1, <2>2 DEF Proceeds, IdemRequestOK
    <3>3. idem'[p].stored => <<idem'[p].actor, idem'[p].key>> \in DOMAIN answers' \cup lost'
      BY <2>1, <2>2 DEF Proceeds, IdemRequestOK, AnswersMove
    <3>4. idem'[p].before # {} /\ idem'[p].end \notin {"replayed", "conflict"}
            => idem'[p].blind \/ <<idem'[p].actor, idem'[p].key>> \in lost'
      BY <2>1, <2>2 DEF Proceeds, IdemRequestOK, AnswersMove
    <3>5. idem'[p].end = "replayed" => BegunAs(idem[p].answer, <<idem[p].actor, idem[p].key>>, idem[p].payload)
      BY <2>1, <2>2 DEF Proceeds, IdemRequestOK
    <3>6. idem'[p].end = "replayed"
            => BegunAs(idem[p].answer, <<idem[p].actor, idem[p].key>>, idem[p].payload)'
      <4> SUFFICES ASSUME idem'[p].end = "replayed"
                   PROVE  BegunAs(idem[p].answer, <<idem[p].actor, idem[p].key>>, idem[p].payload)'
        OBVIOUS
      <4>1. BegunAs(idem'[p].answer, <<idem'[p].actor, idem'[p].key>>, idem'[p].payload)
        BY <2>2, <3>5 DEF Proceeds
      <4> QED BY <4>1, BegunStays DEF BegunAs
    <3> QED BY <3>1, <3>2, <3>3, <3>4, <3>6 DEF IdemRequestOK
  <2>3. CASE p # r
    <3>1. idem'[p] = idem[p] /\ idemPc'[p] = idemPc[p]
      BY <2>3 DEF Proceeds
    <3>2. idem[p].end = "replayed"
            => BegunAs(idem[p].answer, <<idem[p].actor, idem[p].key>>, idem[p].payload)'
      <4> SUFFICES ASSUME idem[p].end = "replayed"
                   PROVE  BegunAs(idem[p].answer, <<idem[p].actor, idem[p].key>>, idem[p].payload)'
        OBVIOUS
      <4>1. BegunAs(idem'[p].answer, <<idem'[p].actor, idem'[p].key>>, idem'[p].payload)
        BY <2>1, <3>1 DEF IdemRequestOK
      <4> QED BY <4>1, BegunStays DEF BegunAs
    <3> QED BY <2>1, <3>1, <3>2 DEF IdemRequestOK, AnswersMove, IdemShape
  <2> QED BY <2>2, <2>3
<1> QED BY <1>1, <1>2, <1>3 DEF IdemInv

\* The same from the row that the request gets.
LEMMA RowProceeds ==
    ASSUME IdemInv, NEW r \in IdemRequests, idemPc[r] # "idle",
           NEW step \in IdemSteps \ {"idle", "handle"}, IdemGoto(r, step),
           NEW n, idem' = [idem EXCEPT ![r] = n], IdemShape(n),
           n.actor = idem[r].actor, n.key = idem[r].key, n.payload = idem[r].payload,
           n.before = idem[r].before, n.blind = idem[r].blind, n.answer = idem[r].answer,
           n.stored => idem[r].stored \/ <<idem[r].actor, idem[r].key>> \in DOMAIN answers',
           n.end = idem[r].end \/ (idemPc[r] = "handle" /\ n.end # "replayed")
    PROVE  Proceeds(r)
<1>1. idem'[r] = n /\ idem' = [p \in IdemRequests |-> idem'[p]]
      /\ \A p \in IdemRequests \ {r} : idem'[p] = idem[p]
  BY DEF IdemInv
<1>2. /\ idemPc' \in [IdemRequests -> IdemSteps] /\ idemPc'[r] = step
      /\ \A p \in IdemRequests \ {r} : idemPc'[p] = idemPc[p]
  BY DEF IdemInv, IdemGoto
<1> QED BY <1>1, <1>2 DEF Proceeds

SameRequest(m, q) ==
    /\ m.actor = q.actor /\ m.key = q.key /\ m.payload = q.payload
    /\ m.before = q.before /\ m.blind = q.blind /\ m.answer = q.answer
    /\ m.stored = q.stored /\ m.end = q.end

\* What one assignment to a field leaves.
WithStored(q, v) == [q EXCEPT !.stored = v]
WithBlind(q, v) == [q EXCEPT !.blind = v]
WithAnswer(q, v) == [q EXCEPT !.answer = v]
WithEnd(q, v) == [q EXCEPT !.end = v]

LEMMA OneField ==
    ASSUME NEW q, IdemShape(q), NEW v
    PROVE  /\ LET m == WithStored(q, v) IN
              /\ IdemShape(m) /\ m.stored = v /\ m.actor = q.actor /\ m.key = q.key /\ m.payload = q.payload
              /\ m.before = q.before /\ m.blind = q.blind /\ m.answer = q.answer /\ m.end = q.end
           /\ LET m == WithBlind(q, v) IN
              /\ IdemShape(m) /\ m.blind = v /\ m.actor = q.actor /\ m.key = q.key
              /\ m.stored = q.stored /\ m.end = q.end
           /\ LET m == WithAnswer(q, v) IN
              /\ IdemShape(m) /\ m.answer = v /\ m.actor = q.actor /\ m.key = q.key /\ m.payload = q.payload
              /\ m.stored = q.stored /\ m.end = q.end
           /\ LET m == WithEnd(q, v) IN
              /\ IdemShape(m) /\ m.end = v /\ m.actor = q.actor /\ m.key = q.key /\ m.payload = q.payload
              /\ m.before = q.before /\ m.blind = q.blind /\ m.answer = q.answer /\ m.stored = q.stored
  BY DEF IdemShape, WithStored, WithBlind, WithAnswer, WithEnd

\* A step that only changes what remains to be evicted.
LEMMA QuietRow ==
    ASSUME IdemInv, NEW r \in IdemRequests, idemPc[r] # "idle",
           NEW step \in IdemSteps \ {"idle", "handle"}, IdemGoto(r, step),
           NEW n, NEW s, idem' = [idem EXCEPT ![r].overflow = n, ![r].oldest = s]
    PROVE  Proceeds(r)
<1> DEFINE q == idem[r]
           l == [q EXCEPT !.overflow = n]
           m == [l EXCEPT !.oldest = s]
<1>1. idem' = [idem EXCEPT ![r] = m] /\ IdemShape(q)
  BY DEF IdemInv, IdemRequestOK
<1> HIDE DEF q
<1>a. IdemShape(l) /\ SameRequest(l, q)
  BY <1>1 DEF IdemShape, SameRequest
<1> HIDE DEF l
<1>b. IdemShape(m) /\ SameRequest(m, l)
  BY <1>a DEF IdemShape, SameRequest
<1>2. IdemShape(m) /\ SameRequest(m, q)
  BY <1>a, <1>b DEF SameRequest
<1> HIDE DEF m
<1> QED BY <1>1, <1>2, RowProceeds DEF q, SameRequest

\* A request in its course without a change of its own.
LEMMA IdleRow ==
    ASSUME IdemInv, NEW r \in IdemRequests, idemPc[r] # "idle",
           NEW step \in IdemSteps \ {"idle", "handle"}, IdemGoto(r, step), UNCHANGED idem
    PROVE  Proceeds(r)
<1>1. idem' = [idem EXCEPT ![r] = idem[r]] /\ IdemShape(idem[r])
  BY DEF IdemInv, IdemRequestOK
<1> QED BY <1>1, RowProceeds

LEMMA UnreachedKeeps ==
    ASSUME IdemInv, NEW r \in IdemRequests, idemPc[r] # "idle",
           NEW step \in IdemSteps \ {"idle", "handle"}, Unreached(r, step)
    PROVE  IdemInv'
<1>1. AnswersMove(r)
  BY DEF Unreached, AnswersMove
<1>2. CASE step = "done" /\ IdemEnd(r)
  <2>1. Proceeds(r)
    BY <1>2, QuietRow DEF IdemEnd, IdemSteps
  <2> QED BY <1>1, <2>1, ProceedsKeeps
<1>3. CASE IdemGoto(r, step) /\ UNCHANGED idem
  BY <1>1, <1>3, IdleRow, ProceedsKeeps
<1> QED BY <1>2, <1>3 DEF Unreached

\* An answer goes: the pair of its key is lost.
LEMMA GoneMoves ==
    ASSUME IdemInv, NEW r, NEW k, Gone(k)
    PROVE  AnswersMove(r)
<1>1. DOMAIN answers' = DOMAIN answers \ {k} /\ \A x \in DOMAIN answers' : answers'[x] = answers[x]
  BY DEF Gone
<1>2. k \in DOMAIN answers => k = <<k[1], k[2]>>
  BY DEF IdemInv, AnswersOK
<1> QED BY <1>1, <1>2 DEF AnswersMove, Gone

\* dispatch: what was stored for the same actor and key is found, or lost, or
\* Redis is not asked.
LEMMA LookupKeeps ==
    ASSUME IdemInv, NEW r \in IdemRequests, NEW a \in Actors, NEW key \in Keys, NEW p \in Payloads, NEW w \in Workers,
           Lookup(r, [NoIdem EXCEPT !.actor = a, !.key = key, !.payload = p, !.worker = w])
    PROVE  IdemInv'
<1> DEFINE q == [NoIdem EXCEPT !.actor = a, !.key = key, !.payload = p, !.worker = w]
<1>1. /\ IdemShape(q) /\ q.actor = a /\ q.key = key /\ q.payload = p /\ q.end = "none" /\ ~ q.blind
      /\ ~ q.stored
  <2> DEFINE q1 == [NoIdem EXCEPT !.actor = a]
             q2 == [q1 EXCEPT !.key = key]
             q3 == [q2 EXCEPT !.payload = p]
             q4 == [q3 EXCEPT !.worker = w]
             Rest(m) == m.end = NoIdem.end /\ m.blind = NoIdem.blind /\ m.stored = NoIdem.stored
  <2>1. IdemShape(NoIdem) /\ NoIdem.end = "none" /\ ~ NoIdem.blind /\ ~ NoIdem.stored
    BY DEF NoIdem, IdemShape
  <2>2. q1.actor = a /\ IdemShape(q1) /\ Rest(q1)
    BY <2>1 DEF IdemShape
  <2> HIDE DEF q1
  <2>3. q2.actor = a /\ q2.key = key /\ IdemShape(q2) /\ Rest(q2)
    BY <2>2 DEF IdemShape
  <2> HIDE DEF q2
  <2>4. q3.actor = a /\ q3.key = key /\ q3.payload = p /\ IdemShape(q3) /\ Rest(q3)
    BY <2>3 DEF IdemShape
  <2> HIDE DEF q3
  <2>5. q4.actor = a /\ q4.key = key /\ q4.payload = p /\ IdemShape(q4) /\ Rest(q4)
    BY <2>4 DEF IdemShape
  <2>6. q = q4
    BY DEF q1, q2, q3
  <2> HIDE DEF q, q4
  <2> QED BY <2>1, <2>5, <2>6
<1>2. idemPc[r] = "idle" /\ UNCHANGED <<answers, lost>>
  BY DEF Lookup
<1>3. Lookup(r, q)
  OBVIOUS
<1> HIDE DEF q
<1> DEFINE b == Begun(q)
<1>4. /\ IdemShape(b) /\ b.actor = a /\ b.key = key /\ b.payload = p /\ b.end = "none" /\ ~ b.blind
      /\ ~ b.stored /\ b.before = Finished(q)
  BY <1>1 DEF Begun, IdemShape
<1>5. Finished(q) # {} => <<a, key>> \in DOMAIN answers \cup lost
  BY <1>1 DEF Finished, IdemInv, IdemRequestOK
<1> HIDE DEF b
<1>6. \E n, s : /\ idem' = [idem EXCEPT ![r] = n] /\ idemPc' = [idemPc EXCEPT ![r] = s]
                /\ IdemShape(n) /\ n.actor = a /\ n.key = key /\ ~ n.stored
                /\ s \in {"handle", "done"} /\ (s = "handle" => n.end = "none")
                /\ n.before # {} /\ n.end \notin {"replayed", "conflict"} => n.blind \/ <<a, key>> \in lost
                /\ n.end = "replayed" => BegunAs(n.answer, <<a, key>>, n.payload)
  <2>1. CASE /\ Reachable(q.worker) /\ CacheKey(q) \in DOMAIN answers
             /\ LET found == answers[CacheKey(q)]
                IN  idem' = [idem EXCEPT ![r] =
                               [b EXCEPT !.answer = found.by,
                                   !.end = IF found.payload = q.payload THEN "replayed" ELSE "conflict"]]
             /\ IdemGoto(r, "done")
    <3> DEFINE found == answers[CacheKey(q)]
               e == IF found.payload = q.payload THEN "replayed" ELSE "conflict"
               by == found.by
               l == WithAnswer(b, by)
               n == WithEnd(l, e)
    <3>1. BegunAs(by, <<a, key>>, found.payload)
      BY <2>1, <1>1 DEF CacheKey, IdemInv, AnswersOK
    <3>2. /\ e \in {"replayed", "conflict"} /\ (e = "replayed" => found.payload = p)
          /\ idem' = [idem EXCEPT ![r] = n]
      BY <2>1, <1>1 DEF WithAnswer, WithEnd
    <3> HIDE DEF e, by
    <3>3. IdemShape(n) /\ n.actor = a /\ n.key = key /\ n.payload = p /\ ~ n.stored
          /\ n.end = e /\ n.answer = by
      <4>1. IdemShape(l) /\ l.actor = a /\ l.key = key /\ l.payload = p /\ ~ l.stored /\ l.answer = by
        BY <1>4, OneField
      <4> HIDE DEF l
      <4> QED BY <4>1, OneField
    <3> HIDE DEF n
    <3> QED BY <2>1, <3>1, <3>2, <3>3 DEF IdemGoto
  <2>2. CASE /\ CacheKey(q) \notin DOMAIN answers
             /\ idem' = [idem EXCEPT ![r] = b] /\ IdemGoto(r, "handle")
    BY <2>2, <1>1, <1>4, <1>5 DEF CacheKey, IdemGoto
  <2>3. CASE idem' = [idem EXCEPT ![r] = [b EXCEPT !.blind = TRUE]] /\ IdemGoto(r, "handle")
    <3> DEFINE t == TRUE
               n == WithBlind(b, t)
    <3>2. idem' = [idem EXCEPT ![r] = n]
      BY <2>3 DEF WithBlind
    <3> HIDE DEF t
    <3>1. IdemShape(n) /\ n.actor = a /\ n.key = key /\ ~ n.stored /\ n.end = "none" /\ n.blind = t
      BY <1>4, OneField
    <3> HIDE DEF n
    <3> QED BY <2>3, <3>1, <3>2 DEF IdemGoto, t
  <2> QED BY <1>3, <2>1, <2>2, <2>3 DEF Lookup, b
<1>7. PICK n, s : /\ idem' = [idem EXCEPT ![r] = n] /\ idemPc' = [idemPc EXCEPT ![r] = s]
                  /\ IdemShape(n) /\ n.actor = a /\ n.key = key /\ ~ n.stored
                  /\ s \in {"handle", "done"} /\ (s = "handle" => n.end = "none")
                  /\ n.before # {} /\ n.end \notin {"replayed", "conflict"} => n.blind \/ <<a, key>> \in lost
                  /\ n.end = "replayed" => BegunAs(n.answer, <<a, key>>, n.payload)
  BY <1>6
<1>8. /\ idem'[r] = n /\ idem' = [x \in IdemRequests |-> idem'[x]]
      /\ idemPc' \in [IdemRequests -> IdemSteps] /\ idemPc'[r] = s
      /\ \A x \in IdemRequests \ {r} : idem'[x] = idem[x] /\ idemPc'[x] = idemPc[x]
  BY <1>7 DEF IdemInv, IdemSteps
<1>9. ASSUME NEW x, NEW k, NEW payload, BegunAs(x, k, payload) PROVE BegunAs(x, k, payload)'
  BY <1>2, <1>8, <1>9 DEF BegunAs
<1>10. AnswersOK'
  <2> SUFFICES ASSUME NEW k \in DOMAIN answers'
               PROVE  k \in Actors \X Keys /\ BegunAs(answers[k].by, k, answers[k].payload)'
    BY DEF AnswersOK
  <2>1. k \in Actors \X Keys /\ BegunAs(answers[k].by, k, answers[k].payload)
    BY <1>2 DEF IdemInv, AnswersOK
  <2>2. answers' = answers
    BY <1>2
  <2> QED BY <1>9, <2>1, <2>2 DEF BegunAs
<1>11. ASSUME NEW x \in IdemRequests PROVE IdemRequestOK(x)'
  <2>1. CASE x = r
    <3>1. n.end = "replayed" => BegunAs(n.answer, <<a, key>>, n.payload)'
      <4> SUFFICES ASSUME n.end = "replayed" PROVE BegunAs(n.answer, <<a, key>>, n.payload)'
        OBVIOUS
      <4>1. BegunAs(n.answer, <<a, key>>, n.payload)
        BY <1>7
      <4> QED BY <1>9, <4>1
    <3> QED BY <1>2, <1>7, <1>8, <2>1, <3>1 DEF IdemRequestOK, BegunAs
  <2>2. CASE x # r
    <3>1. IdemRequestOK(x) /\ idem'[x] = idem[x] /\ idemPc'[x] = idemPc[x]
      BY <1>8, <2>2 DEF IdemInv
    <3>2. idem[x].end = "replayed" => BegunAs(idem[x].answer, <<idem[x].actor, idem[x].key>>, idem[x].payload)'
      <4> SUFFICES ASSUME idem[x].end = "replayed"
                   PROVE  BegunAs(idem[x].answer, <<idem[x].actor, idem[x].key>>, idem[x].payload)'
        OBVIOUS
      <4>1. BegunAs(idem'[x].answer, <<idem'[x].actor, idem'[x].key>>, idem'[x].payload)
        BY <3>1 DEF IdemRequestOK
      <4> QED BY <1>2, <1>8, <3>1, <4>1 DEF BegunAs
    <3> QED BY <1>2, <3>1, <3>2 DEF IdemRequestOK, IdemShape
  <2> QED BY <2>1, <2>2
<1> QED BY <1>8, <1>10, <1>11 DEF IdemInv

LEMMA HandleKeeps ==
    ASSUME IdemInv, NEW r \in IdemRequests, Handle(r)
    PROVE  IdemInv'
<1> DEFINE q == idem[r]
<1>1. /\ AnswersMove(r) /\ idemPc[r] = "handle" /\ IdemShape(q)
      /\ \E e \in {"handled", "failed"}, s \in {"store", "done"} :
            idem' = [idem EXCEPT ![r] = [q EXCEPT !.end = e]] /\ IdemGoto(r, s)
  BY DEF Handle, AnswersMove, IdemInv, IdemRequestOK
<1>2. PICK e \in {"handled", "failed"}, s \in {"store", "done"} :
            idem' = [idem EXCEPT ![r] = [q EXCEPT !.end = e]] /\ IdemGoto(r, s)
  BY <1>1
<1> DEFINE m == [q EXCEPT !.end = e]
<1> HIDE DEF q
<1>3. /\ IdemShape(m) /\ m.actor = q.actor /\ m.key = q.key /\ m.payload = q.payload
      /\ m.before = q.before /\ m.blind = q.blind /\ m.answer = q.answer
      /\ m.stored = q.stored /\ m.end = e
  BY <1>1 DEF IdemShape
<1>4. idem' = [idem EXCEPT ![r] = m]
  BY <1>2
<1> HIDE DEF m
<1>5. Proceeds(r)
  BY <1>1, <1>2, <1>3, <1>4, RowProceeds DEF q, IdemSteps
<1> QED BY <1>1, <1>5, ProceedsKeeps

LEMMA StoreKeeps ==
    ASSUME IdemInv, NEW r \in IdemRequests, Store(r)
    PROVE  IdemInv'
<1> DEFINE q == idem[r]
           k == CacheKey(q)
<1>1. idemPc[r] = "store" /\ IdemShape(q)
  BY DEF Store, IdemInv, IdemRequestOK
<1>2. CASE /\ answers' = [x \in DOMAIN answers \cup {k} |->
                            IF x = k THEN [by |-> r, payload |-> q.payload] ELSE answers[x]]
           /\ idem' = [idem EXCEPT ![r].stored = TRUE]
           /\ IdemGoto(r, "track")
           /\ UNCHANGED <<index, disabled, lost>>
  <2>1. AnswersMove(r)
    BY <1>2 DEF AnswersMove, CacheKey
  <2>2. <<q.actor, q.key>> \in DOMAIN answers'
    BY <1>2 DEF CacheKey
  <2> DEFINE t == TRUE
             m == WithStored(q, t)
  <2>3. idem' = [idem EXCEPT ![r] = m]
    BY <1>2 DEF WithStored
  <2> HIDE DEF q, t
  <2>4. /\ IdemShape(m) /\ m.actor = q.actor /\ m.key = q.key /\ m.payload = q.payload
        /\ m.before = q.before /\ m.blind = q.blind /\ m.answer = q.answer /\ m.end = q.end
    BY <1>1, OneField
  <2> HIDE DEF m
  <2>5. IdemGoto(r, "track")
    BY <1>2
  <2>6. Proceeds(r)
    BY <1>1, <2>2, <2>3, <2>4, <2>5, RowProceeds DEF q, IdemSteps
  <2> QED BY <2>1, <2>6, ProceedsKeeps
<1>3. CASE Unreached(r, "track")
  BY <1>1, <1>3, UnreachedKeeps DEF IdemSteps
<1> QED BY <1>2, <1>3 DEF Store

\* _track_completed_key and _enforce_completed_key_cap.
LEMMA CapKeeps ==
    ASSUME IdemInv, NEW r \in IdemRequests,
           \/ Track(r) \/ CountCompleted(r) \/ RangeOldest(r) \/ Evict(r) \/ Forget(r) \/ IdemCrash(r)
    PROVE  IdemInv'
<1> DEFINE q == idem[r]
<1>1. idemPc[r] # "idle" /\ IdemShape(q)
  BY DEF Track, CountCompleted, RangeOldest, Evict, Forget, IdemCrash, IdemInv, IdemRequestOK
<1>2. CASE \E step \in {"count", "done"} : Unreached(r, step)
  BY <1>1, <1>2, UnreachedKeeps DEF IdemSteps
<1>3. CASE \E step \in {"count", "done"} : IdemGoto(r, step) /\ UNCHANGED <<idem, answers, lost>>
  <2>1. AnswersMove(r)
    BY <1>3 DEF AnswersMove
  <2>2. Proceeds(r)
    BY <1>1, <1>3, IdleRow DEF IdemSteps
  <2> QED BY <2>1, <2>2, ProceedsKeeps
<1>4. ASSUME NEW n, NEW s, NEW step \in {"range", "delete", "forget", "done"}, IdemGoto(r, step),
             idem' = [idem EXCEPT ![r].overflow = n, ![r].oldest = s], AnswersMove(r)
      PROVE  IdemInv'
  <2>1. Proceeds(r)
    BY <1>1, <1>4, QuietRow DEF IdemSteps
  <2> QED BY <1>4, <2>1, ProceedsKeeps
<1>5. UNCHANGED <<answers, lost>> => AnswersMove(r)
  BY DEF AnswersMove
<1>6. ASSUME NEW n PROVE [idem EXCEPT ![r].overflow = n] = [idem EXCEPT ![r].overflow = n, ![r].oldest = q.oldest]
  <2> DEFINE m == [q EXCEPT !.overflow = n]
             l == [q EXCEPT !.overflow = n, !.oldest = q.oldest]
  <2>1. [idem EXCEPT ![r].overflow = n] = [idem EXCEPT ![r] = m]
        /\ [idem EXCEPT ![r].overflow = n, ![r].oldest = q.oldest] = [idem EXCEPT ![r] = l]
    BY DEF IdemInv
  <2> HIDE DEF q
  <2>2. m = l
    BY <1>1 DEF IdemShape
  <2> QED BY <2>1, <2>2
<1>7. CASE Track(r)
  BY <1>2, <1>3, <1>7 DEF Track
<1>8. CASE CountCompleted(r)
  <2> DEFINE n == Len(index) - MaxCompleted
  <2>1. CASE IdemGoto(r, "range") /\ idem' = [idem EXCEPT ![r].overflow = n] /\ UNCHANGED <<answers, lost>>
    <3> HIDE DEF n
    <3> QED BY <2>1, <1>4, <1>5, <1>6
  <2> QED BY <1>2, <1>3, <1>8, <2>1 DEF CountCompleted
<1>9. CASE RangeOldest(r)
  <2> DEFINE n == IF q.overflow < Len(index) THEN q.overflow ELSE Len(index)
             s == SubSeq(index, 1, n)
             step == IF n = 0 THEN "done" ELSE "delete"
  <2>1. CASE idem' = [idem EXCEPT ![r].oldest = s, ![r].overflow = n] /\ IdemGoto(r, step)
             /\ UNCHANGED <<answers, lost>>
    <3>1. step \in {"done", "delete"}
      OBVIOUS
    <3> HIDE DEF step, s, n
    <3>2. idem' = [idem EXCEPT ![r].overflow = n, ![r].oldest = s]
      <4> DEFINE m == [q EXCEPT !.oldest = s, !.overflow = n]
                 l == [q EXCEPT !.overflow = n, !.oldest = s]
      <4>1. [idem EXCEPT ![r].oldest = s, ![r].overflow = n] = [idem EXCEPT ![r] = m]
            /\ [idem EXCEPT ![r].overflow = n, ![r].oldest = s] = [idem EXCEPT ![r] = l]
        BY DEF IdemInv
      <4> HIDE DEF q
      <4>2. m = l
        BY <1>1 DEF IdemShape
      <4> QED BY <2>1, <4>1, <4>2
    <3> QED BY <2>1, <3>1, <3>2, <1>4, <1>5
  <2> QED BY <1>2, <1>9, <2>1 DEF RangeOldest
<1>10. CASE Evict(r)
  <2> DEFINE n == q.overflow - 1
             step == IF q.overflow = 1 THEN "forget" ELSE "delete"
             k == q.oldest[Len(q.oldest) + 1 - q.overflow]
  <2>1. CASE Gone(k) /\ idem' = [idem EXCEPT ![r].overflow = n] /\ IdemGoto(r, step)
    <3>1. step \in {"forget", "delete"}
      OBVIOUS
    <3> HIDE DEF step, k, n
    <3>2. AnswersMove(r)
      BY <2>1, GoneMoves
    <3>3. idem' = [idem EXCEPT ![r].overflow = n, ![r].oldest = q.oldest]
      BY <2>1, <1>6
    <3>4. IdemGoto(r, step)
      BY <2>1
    <3> DEFINE s == q.oldest
    <3>5. idem' = [idem EXCEPT ![r].overflow = n, ![r].oldest = s]
      BY <3>3
    <3> HIDE DEF s, q
    <3> QED BY <3>1, <3>2, <3>4, <3>5, <1>4
  <2> QED BY <1>2, <1>10, <2>1 DEF Evict
<1>11. CASE Forget(r) \/ IdemCrash(r)
  <2>1. CASE IdemEnd(r) /\ UNCHANGED <<answers, lost>>
    BY <2>1, <1>4, <1>5 DEF IdemEnd
  <2> QED BY <1>2, <1>11, <2>1 DEF Forget, IdemCrash
<1> QED BY <1>7, <1>8, <1>9, <1>10, <1>11

LEMMA IdemInvStep == IdemInv /\ [IdemNext]_idemVars => IdemInv'
<1> SUFFICES ASSUME IdemInv, [IdemNext]_idemVars PROVE IdemInv'
  OBVIOUS
<1>1. ASSUME NEW r \in IdemRequests, IdemStep(r) PROVE IdemInv'
  BY <1>1, LookupKeeps, HandleKeeps, StoreKeeps, CapKeeps DEF IdemStep
<1>2. ASSUME UNCHANGED <<idemPc, idem>>, lost \subseteq lost', DOMAIN answers \subseteq DOMAIN answers' \cup lost',
             \A k \in DOMAIN answers' : k \in DOMAIN answers /\ answers'[k] = answers[k]
      PROVE  IdemInv'
  <2>1. AnswersOK'
    BY <1>2 DEF IdemInv, AnswersOK, BegunAs
  <2>2. ASSUME NEW r \in IdemRequests PROVE IdemRequestOK(r)'
    <3>1. IdemRequestOK(r)
      BY DEF IdemInv
    <3> QED BY <1>2, <3>1 DEF IdemRequestOK, BegunAs, IdemShape
  <2> QED BY <1>2, <2>1, <2>2 DEF IdemInv
<1>3. ASSUME NEW k \in DOMAIN answers, AnswerExpires(k) PROVE IdemInv'
  <2>1. k = <<k[1], k[2]>>
    BY DEF IdemInv, AnswersOK
  <2> QED BY <1>2, <1>3, <2>1 DEF AnswerExpires, Gone
<1>4. CASE UNCHANGED idemVars \/ \E w \in Workers : CircuitCloses(w)
  BY <1>2, <1>4 DEF idemVars, CircuitCloses
<1> QED BY <1>1, <1>3, <1>4 DEF IdemNext

LEMMA IdemInvInit == IdemInit => IdemInv
<1> SUFFICES ASSUME IdemInit PROVE IdemInv
  OBVIOUS
<1>1. AnswersOK
  BY DEF IdemInit, AnswersOK
<1>2. ASSUME NEW r \in IdemRequests PROVE IdemRequestOK(r)
  BY DEF IdemInit, IdemRequestOK, NoIdem, IdemShape
<1> QED BY <1>1, <1>2 DEF IdemInit, IdemInv, IdemSteps

\* A client that repeats a request with its key has it handled again only if
\* Redis was not asked or has lost the answer, and is given the answer to its
\* own request, for every number of requests, actors, keys, workers and every
\* cap of the completed keys.
THEOREM RetriesAreReplayed == IdemSpec => []RetryNotHandledAgain
<1>1. IdemInv => RetryNotHandledAgain
  BY DEF IdemInv, IdemRequestOK, BegunAs, RetryNotHandledAgain
<1> QED BY <1>1, IdemInvInit, IdemInvStep, PTL DEF IdemSpec

-----------------------------------------------------------------------------
(* The types of credentials                                                *)

\* With CredInv: the rows, and the answers of the requests.
CredTypes ==
    /\ \A k \in DOMAIN apiKeys : apiKeys[k] \in ApiKey
    /\ \A s \in DOMAIN oauth : oauth[s] \in OAuthState
    /\ ttlLost \subseteq CredRequests
    /\ \A r \in CredRequests : credReq[r].answer \in {"none", "admitted", "refused"}

\* A request that ends has an answer.
LEMMA CredAnswers ==
    ASSUME CredInv, CredTypes, NEW r \in CredRequests,
           NEW a \in {"none", "admitted", "refused"}, CredAnswer(r, a)
    PROVE  \A x \in CredRequests : credReq'[x].answer \in {"none", "admitted", "refused"}
<1>1. credReq'[r] = [on |-> {}, row |-> {}, late |-> credReq[r].late, answer |-> a]
  BY DEF CredInv, CredAnswer, NoCred
<1>2. \A x \in CredRequests : x # r => credReq'[x] = credReq[x]
  BY DEF CredInv, CredAnswer
<1> QED BY <1>1, <1>2 DEF CredTypes

\* Assignments to the locals of a request that are not its answer.
LEMMA CredNotes ==
    ASSUME CredInv, CredTypes, NEW r \in CredRequests, NEW q,
           credReq' = [credReq EXCEPT ![r] = q], q.answer \in {"none", "admitted", "refused"}
    PROVE  \A x \in CredRequests : credReq'[x].answer \in {"none", "admitted", "refused"}
  BY DEF CredInv, CredTypes

LEMMA CredTypesKeyStep ==
    ASSUME CredInv, CredTypes, NEW r \in CredRequests, NEW k \in CredRequests, NEW scope,
           NEW scopes \in SUBSET Scopes, NEW t \in {"before", "never"},
           CreateKey(r, scopes, t) \/ RevokeRead(r, k) \/ RevokeCommit(r) \/ UseKey(r, k, scope)
    PROVE  CredTypes'
<1> DEFINE Answered == \A x \in CredRequests : credReq'[x].answer \in {"none", "admitted", "refused"}
<1>0. r \in DOMAIN credReq /\ CredShape(credReq[r]) /\ credReq[r].answer \in {"none", "admitted", "refused"}
  BY DEF CredInv, CredTypes
<1>1. CASE CreateKey(r, scopes, t)
  <2> DEFINE row == [scopes |-> scopes, revoked |-> FALSE, time |-> t]
  <2>1. row \in ApiKey
    BY DEF ApiKey, Times
  <2>2. apiKeys' = WithRow(apiKeys, r, row) /\ UNCHANGED <<oauth, ttlLost>>
    BY <1>1 DEF CreateKey
  <2>3. Answered
    BY <1>1, CredAnswers DEF CreateKey
  <2> HIDE DEF row
  <2> QED BY <2>1, <2>2, <2>3 DEF CredTypes, WithRow
<1>2. CASE RevokeRead(r, k)
  <2> DEFINE q == credReq[r]
  <2>1. credReq' = [credReq EXCEPT ![r] = [q EXCEPT !.on = {k}]] /\ UNCHANGED <<apiKeys, oauth, ttlLost>>
    BY <1>2 DEF RevokeRead
  <2>2. CredShape(q) /\ q.answer \in {"none", "admitted", "refused"}
    BY <1>0
  <2> HIDE DEF q
  <2> DEFINE m == [q EXCEPT !.on = {k}]
  <2>3. m.answer \in {"none", "admitted", "refused"}
    BY <2>2 DEF CredShape
  <2>4. credReq' = [credReq EXCEPT ![r] = m]
    BY <2>1
  <2> HIDE DEF m
  <2>5. Answered
    BY <2>3, <2>4, CredNotes
  <2> QED BY <2>1, <2>5 DEF CredTypes
<1>3. CASE RevokeCommit(r)
  <2>1. Answered /\ UNCHANGED <<oauth, ttlLost>>
    BY <1>3, CredAnswers DEF RevokeCommit
  <2>2. ASSUME NEW x \in DOMAIN apiKeys PROVE apiKeys'[x] \in ApiKey
    <3>1. apiKeys[x] \in ApiKey
      BY DEF CredTypes
    <3>2. CASE x \in credReq[r].on
      <4>1. apiKeys'[x] = [apiKeys[x] EXCEPT !.revoked = TRUE]
        BY <1>3, <3>2 DEF RevokeCommit
      <4> QED BY <3>1, <4>1 DEF ApiKey
    <3>3. CASE x \notin credReq[r].on
      BY <1>3, <3>1, <3>3 DEF RevokeCommit
    <3> QED BY <3>2, <3>3
  <2>3. DOMAIN apiKeys' = DOMAIN apiKeys
    BY <1>3 DEF RevokeCommit
  <2> QED BY <2>1, <2>2, <2>3 DEF CredTypes
<1>4. CASE UseKey(r, k, scope)
  <2> DEFINE adm == IF k \in DOMAIN apiKeys /\ KeyAdmits(k, scope) THEN "admitted" ELSE "refused"
             q == credReq[r]
             late == k \in retired
  <2>1. /\ UNCHANGED <<apiKeys, oauth, ttlLost>>
        /\ credReq' = [credReq EXCEPT ![r].late = late, ![r].answer = adm]
    BY <1>4 DEF UseKey
  <2>2. adm \in {"none", "admitted", "refused"}
    OBVIOUS
  <2> HIDE DEF adm, late
  <2>3. credReq' = [credReq EXCEPT ![r] = [q EXCEPT !.late = late, !.answer = adm]]
    BY <1>0, <2>1
  <2>4. CredShape(q)
    BY <1>0
  <2> HIDE DEF q
  <2> DEFINE m == [q EXCEPT !.late = late, !.answer = adm]
  <2>5. m.answer = adm
    BY <2>4 DEF CredShape
  <2>6. credReq' = [credReq EXCEPT ![r] = m]
    BY <2>3
  <2> HIDE DEF m
  <2>7. Answered
    BY <2>2, <2>5, <2>6, CredNotes
  <2> QED BY <2>1, <2>7 DEF CredTypes
<1> QED BY <1>1, <1>2, <1>3, <1>4

LEMMA CredTypesStateStep ==
    ASSUME CredInv, CredTypes, NEW r \in CredRequests, NEW s \in CredRequests, NEW p, NEW c,
           \/ p \in Providers /\ c \in BOOLEAN /\ CreateState(r, p, c)
           \/ GetState(r, s) \/ DeleteState(r) \/ JudgeCallback(r, p, c)
           \/ PruneGet(r, s) \/ PruneDelete(r) \/ CredCrash(r)
    PROVE  CredTypes'
<1> DEFINE Answered == \A x \in CredRequests : credReq'[x].answer \in {"none", "admitted", "refused"}
<1>0. r \in DOMAIN credReq /\ CredShape(credReq[r]) /\ credReq[r].answer \in {"none", "admitted", "refused"}
  BY DEF CredInv, CredTypes
<1>1. CASE p \in Providers /\ c \in BOOLEAN /\ CreateState(r, p, c)
  <2> DEFINE row == [provider |-> p, challenge |-> c, time |-> "before"]
  <2>1. row \in OAuthState
    BY <1>1 DEF OAuthState, Times
  <2>2. oauth' = WithRow(oauth, r, row) /\ UNCHANGED <<apiKeys, ttlLost>>
    BY <1>1 DEF CreateState
  <2>3. Answered
    BY <1>1, CredAnswers DEF CreateState
  <2> HIDE DEF row
  <2> QED BY <2>1, <2>2, <2>3 DEF CredTypes, WithRow
<1>2. CASE GetState(r, s)
  <2> DEFINE q == credReq[r]
             late == s \in retired
             a == [q EXCEPT !.on = {s}, !.row = {oauth[s]}, !.late = late]
             b == [q EXCEPT !.late = late, !.answer = "refused"]
  <2>1. credReq' = [credReq EXCEPT ![r] = a] \/ credReq' = [credReq EXCEPT ![r] = b]
    BY <1>0, <1>2 DEF GetState
  <2>2. CredShape(q) /\ q.answer \in {"none", "admitted", "refused"}
    BY <1>0
  <2> HIDE DEF q, late
  <2>3. a.answer = q.answer /\ b.answer = "refused"
    BY <2>2 DEF CredShape
  <2>4. a.answer \in {"none", "admitted", "refused"} /\ b.answer \in {"none", "admitted", "refused"}
    BY <2>2, <2>3
  <2> HIDE DEF a, b
  <2>5. Answered
    BY <2>1, <2>4, CredNotes
  <2> QED BY <1>2, <2>5 DEF GetState, CredTypes
<1>3. CASE DeleteState(r)
  <2>1. /\ oauth' = [x \in DOMAIN oauth \ credReq[r].on |-> oauth[x]]
        /\ UNCHANGED <<apiKeys, ttlLost, credReq>>
    BY <1>3 DEF DeleteState
  <2> QED BY <2>1 DEF CredTypes
<1>4. CASE JudgeCallback(r, p, c)
  <2>1. \E a \in {"none", "admitted", "refused"} : CredAnswer(r, a)
    BY <1>4 DEF JudgeCallback
  <2>2. Answered
    BY <2>1, CredAnswers
  <2> QED BY <1>4, <2>2 DEF JudgeCallback, CredTypes
<1>5. CASE PruneGet(r, s)
  <2>1. UNCHANGED <<apiKeys, oauth, ttlLost>>
    BY <1>5 DEF PruneGet
  <2>2. CASE CredAnswer(r, "none")
    <3>1. Answered
      BY <2>2, CredAnswers
    <3> QED BY <2>1, <3>1 DEF CredTypes
  <2>3. CASE credReq' = [credReq EXCEPT ![r].on = {s}]
    <3> DEFINE q == credReq[r]
               m == [q EXCEPT !.on = {s}]
    <3>1. credReq' = [credReq EXCEPT ![r] = m]
      BY <2>3
    <3>2. CredShape(q) /\ q.answer \in {"none", "admitted", "refused"}
      BY <1>0
    <3> HIDE DEF q
    <3>3. m.answer \in {"none", "admitted", "refused"}
      BY <3>2 DEF CredShape
    <3> HIDE DEF m
    <3>4. Answered
      BY <3>1, <3>3, CredNotes
    <3> QED BY <2>1, <3>4 DEF CredTypes
  <2> QED BY <1>5, <2>2, <2>3 DEF PruneGet
<1>6. CASE PruneDelete(r)
  <2>1. Answered
    BY <1>6, CredAnswers DEF PruneDelete
  <2>2. /\ oauth' = [x \in DOMAIN oauth \ credReq[r].on |-> oauth[x]]
        /\ UNCHANGED <<apiKeys, ttlLost>>
    BY <1>6 DEF PruneDelete
  <2> QED BY <2>1, <2>2 DEF CredTypes
<1>7. CASE CredCrash(r)
  <2>1. Answered
    BY <1>7, CredAnswers DEF CredCrash
  <2> QED BY <1>7, <2>1 DEF CredCrash, CredTypes
<1> QED BY <1>1, <1>2, <1>3, <1>4, <1>5, <1>6, <1>7

LEMMA CredTypesStep == CredInv /\ CredTypes /\ [CredentialsNext]_credVars => CredTypes'
<1> SUFFICES ASSUME CredInv, CredTypes, [CredentialsNext]_credVars PROVE CredTypes'
  OBVIOUS
<1>1. CASE UNCHANGED credVars
  BY <1>1 DEF credVars, CredTypes
<1>2. ASSUME NEW s \in DOMAIN oauth, LoseTtl(s) PROVE CredTypes'
  BY <1>2 DEF LoseTtl, CredTypes, CredInv
<1>3. ASSUME NEW s \in DOMAIN oauth, OAuthStateExpires(s) PROVE CredTypes'
  <2>1. oauth[s] \in OAuthState
    BY DEF CredTypes
  <2>2. [oauth[s] EXCEPT !.time = "after"] \in OAuthState
    BY <2>1 DEF OAuthState, Times
  <2>3. oauth' = [oauth EXCEPT ![s] = [oauth[s] EXCEPT !.time = "after"]] \/ oauth' = WithoutRow(oauth, s)
    BY <1>3 DEF OAuthStateExpires
  <2>4. \A x \in DOMAIN oauth' : oauth'[x] \in OAuthState
    BY <2>2, <2>3 DEF CredTypes, WithoutRow
  <2> QED BY <1>3, <2>4 DEF OAuthStateExpires, CredTypes
<1>4. ASSUME NEW k \in DOMAIN apiKeys, KeyAges(k) PROVE CredTypes'
  <2>1. PICK t \in {"at", "after"} : apiKeys' = [apiKeys EXCEPT ![k].time = t]
    BY <1>4 DEF KeyAges
  <2>2. apiKeys[k] \in ApiKey
    BY DEF CredTypes
  <2>3. [apiKeys[k] EXCEPT !.time = t] \in ApiKey
    BY <2>2 DEF ApiKey, Times
  <2>4. \A x \in DOMAIN apiKeys' : apiKeys'[x] \in ApiKey
    BY <2>1, <2>3 DEF CredTypes
  <2> QED BY <1>4, <2>4 DEF KeyAges, CredTypes
<1>5. ASSUME NEW r \in CredRequests, CredStep(r) PROVE CredTypes'
  <2>1. CASE \E scopes \in SUBSET Scopes, t \in {"before", "never"} : CreateKey(r, scopes, t)
    BY <2>1, CredTypesKeyStep
  <2>2. CASE \E p \in Providers, c \in BOOLEAN : CreateState(r, p, c)
    BY <2>2, CredTypesStateStep
  <2>3. ASSUME NEW x \in CredRequests, RevokeRead(r, x) \/ \E scope \in Scopes : UseKey(r, x, scope)
        PROVE  CredTypes'
    <3>1. {} \in SUBSET Scopes /\ "never" \in {"before", "never"}
      OBVIOUS
    <3> QED BY <2>3, <3>1, CredTypesKeyStep
  <2>4. ASSUME NEW x \in CredRequests, GetState(r, x) \/ PruneGet(r, x) PROVE CredTypes'
    BY <2>4, CredTypesStateStep
  <2>5. CASE \E p \in Providers, v \in {"none", "matching", "other"} : JudgeCallback(r, p, v)
    BY <2>5, CredTypesStateStep
  <2>6. CASE RevokeCommit(r)
    <3>1. {} \in SUBSET Scopes /\ "never" \in {"before", "never"}
      OBVIOUS
    <3> QED BY <2>6, <3>1, CredTypesKeyStep
  <2>7. CASE DeleteState(r) \/ PruneDelete(r) \/ CredCrash(r)
    BY <2>7, CredTypesStateStep
  <2> QED BY <1>5, <2>1, <2>2, <2>3, <2>4, <2>5, <2>6, <2>7 DEF CredStep
<1> QED BY <1>1, <1>2, <1>3, <1>4, <1>5 DEF CredentialsNext

\* Keys and states are rows of their tables, named by requests, whatever
\* revocations, callbacks, prunes and expiries interleave.
THEOREM CredentialTypesHold == CredentialsSpec => []CredentialsTypeOK
<1>1. CredentialsInit => CredTypes
  BY DEF CredentialsInit, CredTypes, NoCred
<1>2. CredInv /\ CredTypes => CredentialsTypeOK
  BY DEF CredInv, CredTypes, CredentialsTypeOK
<1> QED BY CredInvInit, CredInvStep, CredTypesStep, <1>1, <1>2, PTL DEF CredentialsSpec

-----------------------------------------------------------------------------
(* The types of the idempotency middleware                                 *)

\* The locals q of a request at the step pc.
RowTyped(q, pc) ==
    /\ pc # "idle" => q.payload \in Payloads /\ q.worker \in Workers
    /\ q.end \in {"none", "handled", "failed", "replayed", "conflict"}
    /\ q.oldest \in Seq(Actors \X Keys) /\ q.overflow \in Nat
    /\ pc = "delete" => q.overflow # 0 /\ q.overflow <= Len(q.oldest)

\* The completed index is a sorted set: no key is in it twice.
IndexTyped ==
    /\ index \in Seq(Actors \X Keys)
    /\ \A i, j \in 1 .. Len(index) : index[i] = index[j] => i = j

IdemTypes ==
    /\ IndexTyped
    /\ disabled \subseteq Workers
    /\ lost \subseteq Actors \X Keys
    /\ \A r \in IdemRequests : RowTyped(idem[r], idemPc[r])

\* One request moves.
LEMMA RowsTyped ==
    ASSUME IdemInv, IdemTypes, NEW r \in IdemRequests, NEW step \in IdemSteps, IdemGoto(r, step),
           NEW n, idem' = [idem EXCEPT ![r] = n], RowTyped(n, step)
    PROVE  \A x \in IdemRequests : RowTyped(idem'[x], idemPc'[x])
<1> SUFFICES ASSUME NEW x \in IdemRequests PROVE RowTyped(idem'[x], idemPc'[x])
  OBVIOUS
<1>1. CASE x = r
  <2>1. idem'[x] = n /\ idemPc'[x] = step
    BY <1>1 DEF IdemInv, IdemGoto
  <2> QED BY <2>1
<1>2. CASE x # r
  <2>1. idem'[x] = idem[x] /\ idemPc'[x] = idemPc[x]
    BY <1>2 DEF IdemInv, IdemGoto
  <2> QED BY <2>1 DEF IdemTypes
<1> QED BY <1>1, <1>2

\* The fields that RowTyped is about, and what one assignment leaves of them.
SameTyped(m, q) ==
    /\ m.payload = q.payload /\ m.worker = q.worker
    /\ m.oldest = q.oldest /\ m.overflow = q.overflow

LEMMA TypedField ==
    ASSUME NEW q, IdemShape(q), NEW v
    PROVE  /\ SameTyped(WithStored(q, v), q) /\ WithStored(q, v).end = q.end
           /\ SameTyped(WithBlind(q, v), q) /\ WithBlind(q, v).end = q.end
           /\ SameTyped(WithAnswer(q, v), q) /\ WithAnswer(q, v).end = q.end
           /\ SameTyped(WithEnd(q, v), q) /\ WithEnd(q, v).end = v
  BY DEF IdemShape, SameTyped, WithStored, WithBlind, WithAnswer, WithEnd

\* The two that the cap is enforced with.
LEMMA CapFields ==
    ASSUME NEW q, IdemShape(q), NEW n, NEW s
    PROVE  LET m == [q EXCEPT !.overflow = n, !.oldest = s] IN
           /\ m.payload = q.payload /\ m.worker = q.worker /\ m.end = q.end
           /\ m.oldest = s /\ m.overflow = n
<1> DEFINE l == [q EXCEPT !.overflow = n]
           m == [l EXCEPT !.oldest = s]
<1>1. /\ IdemShape(l) /\ l.overflow = n
      /\ l.payload = q.payload /\ l.worker = q.worker /\ l.end = q.end
  BY DEF IdemShape
<1>2. m = [q EXCEPT !.overflow = n, !.oldest = s]
  OBVIOUS
<1> HIDE DEF l
<1>3. /\ m.oldest = s /\ m.overflow = l.overflow
      /\ m.payload = l.payload /\ m.worker = l.worker /\ m.end = l.end
  BY <1>1 DEF IdemShape
<1> HIDE DEF m
<1> QED BY <1>1, <1>2, <1>3

\* A request whose overflow and oldest keys are set.
LEMMA CapRows ==
    ASSUME IdemInv, IdemTypes, NEW r \in IdemRequests, idemPc[r] # "idle",
           NEW step \in IdemSteps, IdemGoto(r, step),
           NEW n \in Nat, NEW s \in Seq(Actors \X Keys),
           step = "delete" => n # 0 /\ n <= Len(s),
           idem' = [idem EXCEPT ![r].overflow = n, ![r].oldest = s]
    PROVE  \A x \in IdemRequests : RowTyped(idem'[x], idemPc'[x])
<1> DEFINE q == idem[r]
           m == [q EXCEPT !.overflow = n, !.oldest = s]
<1>1. idem' = [idem EXCEPT ![r] = m] /\ IdemShape(q) /\ RowTyped(q, idemPc[r])
  BY DEF IdemInv, IdemRequestOK, IdemTypes
<1> HIDE DEF q
<1>2. /\ m.payload = q.payload /\ m.worker = q.worker /\ m.end = q.end
      /\ m.oldest = s /\ m.overflow = n
  BY <1>1, CapFields
<1> HIDE DEF m
<1>3. RowTyped(m, step)
  BY <1>1, <1>2 DEF RowTyped
<1> QED BY <1>1, <1>3, RowsTyped

\* A request whose locals stay, at a step other than the deletions.
LEMMA SameRows ==
    ASSUME IdemInv, IdemTypes, NEW r \in IdemRequests, idemPc[r] # "idle",
           NEW step \in IdemSteps \ {"delete"}, IdemGoto(r, step), UNCHANGED idem
    PROVE  \A x \in IdemRequests : RowTyped(idem'[x], idemPc'[x])
<1> DEFINE q == idem[r]
<1>1. idem' = [idem EXCEPT ![r] = q] /\ RowTyped(q, idemPc[r])
  BY DEF IdemInv, IdemTypes
<1>2. RowTyped(q, step)
  BY <1>1 DEF RowTyped
<1> HIDE DEF q
<1> QED BY <1>1, <1>2, RowsTyped

\* What a request that ends leaves.
LEMMA EndRows ==
    ASSUME IdemInv, IdemTypes, NEW r \in IdemRequests, idemPc[r] # "idle", IdemEnd(r)
    PROVE  \A x \in IdemRequests : RowTyped(idem'[x], idemPc'[x])
<1>1. 0 \in Nat /\ <<>> \in Seq(Actors \X Keys) /\ "done" \in IdemSteps
  BY DEF IdemSteps
<1>2. IdemGoto(r, "done") /\ idem' = [idem EXCEPT ![r].overflow = 0, ![r].oldest = <<>>]
  BY DEF IdemEnd
<1> DEFINE z == 0
           e == <<>>
           d == "done"
<1>3. /\ z \in Nat /\ e \in Seq(Actors \X Keys) /\ d \in IdemSteps /\ d # "delete"
      /\ IdemGoto(r, d) /\ idem' = [idem EXCEPT ![r].overflow = z, ![r].oldest = e]
  BY <1>1, <1>2
<1> HIDE DEF z, e, d
<1> QED BY <1>3, CapRows

LEMMA UnreachedTypes ==
    ASSUME IdemInv, IdemTypes, NEW r \in IdemRequests, idemPc[r] # "idle",
           NEW step \in IdemSteps \ {"delete"}, Unreached(r, step)
    PROVE  IdemTypes'
<1>1. UNCHANGED <<index, lost>> /\ disabled' = disabled \cup {idem[r].worker}
  BY DEF Unreached, TripCircuit
<1>2. idem[r].worker \in Workers
  BY DEF IdemTypes, RowTyped
<1>3. \A x \in IdemRequests : RowTyped(idem'[x], idemPc'[x])
  BY EndRows, SameRows DEF Unreached
<1> QED BY <1>1, <1>2, <1>3 DEF IdemTypes, IndexTyped

LEMMA LookupTypes ==
    ASSUME IdemInv, IdemTypes, NEW r \in IdemRequests,
           NEW a \in Actors, NEW key \in Keys, NEW p \in Payloads, NEW w \in Workers,
           Lookup(r, [NoIdem EXCEPT !.actor = a, !.key = key, !.payload = p, !.worker = w])
    PROVE  IdemTypes'
<1> DEFINE q == [NoIdem EXCEPT !.actor = a, !.key = key, !.payload = p, !.worker = w]
           Fresh(m) == m.payload = p /\ m.worker = w /\ m.oldest = <<>> /\ m.overflow = 0
<1>2. IdemShape(q) /\ Fresh(q) /\ q.end = "none"
  <2> DEFINE q1 == [NoIdem EXCEPT !.actor = a]
             q2 == [q1 EXCEPT !.key = key]
             q3 == [q2 EXCEPT !.payload = p]
             q4 == [q3 EXCEPT !.worker = w]
             Rest(m) == m.end = "none" /\ m.oldest = <<>> /\ m.overflow = 0
  <2>1. IdemShape(NoIdem) /\ Rest(NoIdem)
    BY DEF NoIdem, IdemShape
  <2>2. IdemShape(q1) /\ Rest(q1)
    BY <2>1 DEF IdemShape
  <2> HIDE DEF q1
  <2>3. IdemShape(q2) /\ Rest(q2)
    BY <2>2 DEF IdemShape
  <2> HIDE DEF q2
  <2>4. q3.payload = p /\ IdemShape(q3) /\ Rest(q3)
    BY <2>3 DEF IdemShape
  <2> HIDE DEF q3
  <2>5. q4.payload = p /\ q4.worker = w /\ IdemShape(q4) /\ Rest(q4)
    BY <2>4 DEF IdemShape
  <2>6. q = q4
    BY DEF q1, q2, q3
  <2> HIDE DEF q, q4
  <2> QED BY <2>5, <2>6
<1>3. Lookup(r, q)
  OBVIOUS
<1> HIDE DEF q
<1> DEFINE b == Begun(q)
<1>4. IdemShape(b) /\ Fresh(b) /\ b.end = "none"
  BY <1>2 DEF Begun, IdemShape
<1> HIDE DEF b
<1>7. UNCHANGED <<index, lost>>
  BY <1>3 DEF Lookup
<1>5. \A m : Fresh(m) /\ m.end \in {"none", "replayed", "conflict"} => RowTyped(m, "done") /\ RowTyped(m, "handle")
  BY DEF RowTyped
<1>6. CASE /\ Reachable(q.worker) /\ CacheKey(q) \in DOMAIN answers
           /\ LET found == answers[CacheKey(q)]
              IN  idem' = [idem EXCEPT ![r] =
                             [b EXCEPT !.answer = found.by,
                                 !.end = IF found.payload = q.payload THEN "replayed" ELSE "conflict"]]
           /\ IdemGoto(r, "done") /\ UNCHANGED disabled
  <2> DEFINE found == answers[CacheKey(q)]
             e == IF found.payload = q.payload THEN "replayed" ELSE "conflict"
             by == found.by
             l == WithAnswer(b, by)
             n == WithEnd(l, e)
  <2>1. e \in {"none", "replayed", "conflict"} /\ idem' = [idem EXCEPT ![r] = n]
    BY <1>6 DEF WithAnswer, WithEnd
  <2> HIDE DEF e, by
  <2>2. IdemShape(l) /\ SameTyped(l, b)
    BY <1>4, OneField, TypedField
  <2> HIDE DEF l
  <2>3. SameTyped(n, l) /\ n.end = e
    BY <2>2, TypedField
  <2>4. Fresh(n)
    BY <1>4, <2>2, <2>3 DEF SameTyped
  <2> HIDE DEF n
  <2>5. RowTyped(n, "done")
    BY <1>5, <2>1, <2>3, <2>4
  <2>6. \A x \in IdemRequests : RowTyped(idem'[x], idemPc'[x])
    BY <1>6, <2>1, <2>5, RowsTyped DEF IdemSteps
  <2> QED BY <1>6, <1>7, <2>6 DEF IdemTypes, IndexTyped
<1>8. CASE idem' = [idem EXCEPT ![r] = b] /\ IdemGoto(r, "handle") /\ UNCHANGED disabled
  <2>1. RowTyped(b, "handle")
    BY <1>4, <1>5
  <2>2. \A x \in IdemRequests : RowTyped(idem'[x], idemPc'[x])
    BY <1>8, <2>1, RowsTyped DEF IdemSteps
  <2> QED BY <1>7, <1>8, <2>2 DEF IdemTypes, IndexTyped
<1>9. CASE /\ TripCircuit(q.worker)
           /\ idem' = [idem EXCEPT ![r] = [b EXCEPT !.blind = TRUE]] /\ IdemGoto(r, "handle")
  <2> DEFINE t == TRUE
             n == WithBlind(b, t)
  <2>1. idem' = [idem EXCEPT ![r] = n]
    BY <1>9 DEF WithBlind
  <2> HIDE DEF t
  <2>2. SameTyped(n, b) /\ n.end = b.end
    BY <1>4, TypedField
  <2>3. Fresh(n) /\ n.end = "none"
    BY <1>4, <2>2 DEF SameTyped
  <2> HIDE DEF n
  <2>4. RowTyped(n, "handle")
    BY <1>5, <2>3
  <2>5. \A x \in IdemRequests : RowTyped(idem'[x], idemPc'[x])
    BY <1>9, <2>1, <2>4, RowsTyped DEF IdemSteps
  <2>6. disabled' \subseteq Workers
    BY <1>2, <1>9 DEF TripCircuit, IdemTypes
  <2> QED BY <1>7, <2>5, <2>6 DEF IdemTypes, IndexTyped
<1> QED BY <1>3, <1>6, <1>8, <1>9 DEF Lookup, b

\* call_next, and _redis_setex.
LEMMA StoreTypes ==
    ASSUME IdemInv, IdemTypes, NEW r \in IdemRequests, Handle(r) \/ Store(r)
    PROVE  IdemTypes'
<1> DEFINE q == idem[r]
<1>1. idemPc[r] # "idle" /\ IdemShape(q) /\ RowTyped(q, idemPc[r])
  BY DEF Handle, Store, IdemInv, IdemRequestOK, IdemTypes
<1>2. CASE Handle(r)
  <2>1. PICK e \in {"handled", "failed"}, s \in {"store", "done"} :
            idem' = [idem EXCEPT ![r] = WithEnd(q, e)] /\ IdemGoto(r, s)
    BY <1>2 DEF Handle, WithEnd
  <2> DEFINE n == WithEnd(q, e)
  <2>2. idem' = [idem EXCEPT ![r] = n]
    BY <2>1
  <2> HIDE DEF q
  <2>3. SameTyped(n, q) /\ n.end = e
    BY <1>1, TypedField
  <2> HIDE DEF n
  <2>4. RowTyped(n, s)
    BY <1>1, <2>1, <2>3 DEF RowTyped, SameTyped
  <2>5. \A x \in IdemRequests : RowTyped(idem'[x], idemPc'[x])
    <3>1. s \in IdemSteps /\ IdemGoto(r, s)
      BY <2>1 DEF IdemSteps
    <3> QED BY <2>2, <2>4, <3>1, RowsTyped
  <2>6. UNCHANGED <<index, disabled, lost>>
    BY <1>2 DEF Handle
  <2> QED BY <2>5, <2>6 DEF IdemTypes, IndexTyped
<1>3. CASE idem' = [idem EXCEPT ![r].stored = TRUE] /\ IdemGoto(r, "track") /\ UNCHANGED <<index, disabled, lost>>
  <2> DEFINE t == TRUE
             n == WithStored(q, t)
  <2>1. idem' = [idem EXCEPT ![r] = n]
    BY <1>3 DEF WithStored
  <2> HIDE DEF t, q
  <2>2. SameTyped(n, q) /\ n.end = q.end
    BY <1>1, TypedField
  <2> HIDE DEF n
  <2>3. RowTyped(n, "track")
    BY <1>1, <2>2 DEF RowTyped, SameTyped
  <2>4. \A x \in IdemRequests : RowTyped(idem'[x], idemPc'[x])
    BY <1>3, <2>1, <2>3, RowsTyped DEF IdemSteps
  <2> QED BY <1>3, <2>4 DEF IdemTypes, IndexTyped
<1>4. CASE Unreached(r, "track")
  BY <1>1, <1>4, UnreachedTypes DEF IdemSteps
<1> QED BY <1>2, <1>3, <1>4 DEF Store

\* ZADD: the key becomes the newest.
LEMMA TrackedIndex ==
    ASSUME IndexTyped, NEW k \in Actors \X Keys
    PROVE  LET t == Append(Without(index, {k}), k) IN
           /\ t \in Seq(Actors \X Keys)
           /\ \A i, j \in 1 .. Len(t) : t[i] = t[j] => i = j
<1> DEFINE u == Without(index, {k})
           t == Append(u, k)
<1>1. /\ u \in Seq(Actors \X Keys) /\ Entries(u) = Entries(index) \ {k}
      /\ \A i, j \in 1 .. Len(u) : u[i] = u[j] => i = j
  BY WithoutKeeps DEF IndexTyped
<1> HIDE DEF u
<1>2. \A i \in 1 .. Len(u) : u[i] # k
  <2> SUFFICES ASSUME NEW i \in 1 .. Len(u) PROVE u[i] # k
    OBVIOUS
  <2>1. i \in DOMAIN u
    BY <1>1
  <2>2. u[i] \in Entries(u)
    BY <2>1 DEF Entries
  <2> QED BY <1>1, <2>2
<1>3. /\ t \in Seq(Actors \X Keys) /\ Len(t) = Len(u) + 1 /\ t[Len(u) + 1] = k
      /\ \A i \in 1 .. Len(u) : t[i] = u[i]
  BY <1>1
<1>4. Len(u) \in Nat
  BY <1>1
<1>5. ASSUME NEW i \in 1 .. Len(t), NEW j \in 1 .. Len(t), t[i] = t[j] PROVE i = j
  <2>1. i \in 1 .. Len(u) \/ i = Len(u) + 1
    BY <1>3, <1>4
  <2>2. j \in 1 .. Len(u) \/ j = Len(u) + 1
    BY <1>3, <1>4
  <2> HIDE DEF t
  <2> QED BY <1>1, <1>2, <1>3, <1>5, <2>1, <2>2
<1> QED BY <1>3, <1>5 DEF u

\* _track_completed_key and _enforce_completed_key_cap.
LEMMA CapTypes ==
    ASSUME IdemInv, IdemTypes, NEW r \in IdemRequests,
           \/ Track(r) \/ CountCompleted(r) \/ RangeOldest(r) \/ Evict(r) \/ Forget(r) \/ IdemCrash(r)
    PROVE  IdemTypes'
<1> DEFINE q == idem[r]
           Rows == \A x \in IdemRequests : RowTyped(idem'[x], idemPc'[x])
<1>1. idemPc[r] # "idle" /\ IdemShape(q) /\ RowTyped(q, idemPc[r]) /\ IndexTyped
  BY DEF Track, CountCompleted, RangeOldest, Evict, Forget, IdemCrash, IdemInv, IdemRequestOK, IdemTypes
<1>2. q.overflow \in Nat /\ q.oldest \in Seq(Actors \X Keys)
  BY <1>1 DEF RowTyped
<1>3. Len(index) \in Nat
  BY <1>1 DEF IndexTyped
<1>4. CASE \E step \in {"count", "done"} : Unreached(r, step)
  BY <1>1, <1>4, UnreachedTypes DEF IdemSteps
<1>5. ASSUME NEW n PROVE [idem EXCEPT ![r].overflow = n] = [idem EXCEPT ![r].overflow = n, ![r].oldest = q.oldest]
  <2> DEFINE m == [q EXCEPT !.overflow = n]
             l == [q EXCEPT !.overflow = n, !.oldest = q.oldest]
  <2>1. [idem EXCEPT ![r].overflow = n] = [idem EXCEPT ![r] = m]
        /\ [idem EXCEPT ![r].overflow = n, ![r].oldest = q.oldest] = [idem EXCEPT ![r] = l]
    BY DEF IdemInv
  <2> HIDE DEF q
  <2>2. m = l
    BY <1>1 DEF IdemShape
  <2> QED BY <2>1, <2>2
<1>6. CASE Track(r) /\ ~ Unreached(r, "count")
  <2> DEFINE k == CacheKey(q)
  <2>1. k \in Actors \X Keys
    BY <1>1 DEF CacheKey, IdemInv, IdemRequestOK
  <2>2. /\ index' = Append(Without(index, {k}), k)
        /\ IdemGoto(r, "count") /\ UNCHANGED <<disabled, idem, lost>>
    BY <1>6 DEF Track
  <2> HIDE DEF k
  <2>3. IndexTyped'
    BY <1>1, <2>1, <2>2, TrackedIndex DEF IndexTyped
  <2>4. Rows
    BY <1>1, <2>2, SameRows DEF IdemSteps
  <2> QED BY <2>2, <2>3, <2>4 DEF IdemTypes
<1>7. CASE CountCompleted(r) /\ ~ Unreached(r, "done")
  <2> DEFINE n == Len(index) - MaxCompleted
             s == q.oldest
  <2>1. UNCHANGED <<index, disabled, lost>>
    BY <1>7 DEF CountCompleted
  <2>2. CASE IdemGoto(r, "done") /\ UNCHANGED idem
    <3>1. Rows
      BY <1>1, <2>2, SameRows DEF IdemSteps
    <3> QED BY <2>1, <3>1 DEF IdemTypes, IndexTyped
  <2>3. CASE ~ (Len(index) <= MaxCompleted) /\ IdemGoto(r, "range") /\ idem' = [idem EXCEPT ![r].overflow = n]
    <3>1. n \in Nat
      BY <1>3, <2>3, IdemAssumption
    <3>2. s \in Seq(Actors \X Keys)
      BY <1>2
    <3> HIDE DEF n
    <3>3. idem' = [idem EXCEPT ![r].overflow = n, ![r].oldest = s]
      BY <1>5, <2>3
    <3> HIDE DEF s
    <3>4. Rows
      BY <1>1, <2>3, <3>1, <3>2, <3>3, CapRows DEF IdemSteps
    <3> QED BY <2>1, <3>4 DEF IdemTypes, IndexTyped
  <2> QED BY <1>7, <2>2, <2>3 DEF CountCompleted
<1>8. CASE RangeOldest(r) /\ ~ Unreached(r, "done")
  <2> DEFINE n == IF q.overflow < Len(index) THEN q.overflow ELSE Len(index)
             s == SubSeq(index, 1, n)
             step == IF n = 0 THEN "done" ELSE "delete"
  <2>1. /\ idem' = [idem EXCEPT ![r].oldest = s, ![r].overflow = n] /\ IdemGoto(r, step)
        /\ UNCHANGED <<index, disabled, lost>>
    BY <1>8 DEF RangeOldest
  <2>2. n \in Nat /\ n <= Len(index)
    BY <1>2, <1>3
  <2>3. step \in IdemSteps /\ (step = "delete" => n # 0)
    BY DEF IdemSteps
  <2> HIDE DEF n, step
  <2>4. s \in Seq(Actors \X Keys) /\ Len(s) = n
    BY <1>1, <2>2 DEF IndexTyped
  <2> HIDE DEF s
  <2>5. idem' = [idem EXCEPT ![r].overflow = n, ![r].oldest = s]
    <3> DEFINE m == [q EXCEPT !.oldest = s, !.overflow = n]
               l == [q EXCEPT !.overflow = n, !.oldest = s]
    <3>1. [idem EXCEPT ![r].oldest = s, ![r].overflow = n] = [idem EXCEPT ![r] = m]
          /\ [idem EXCEPT ![r].overflow = n, ![r].oldest = s] = [idem EXCEPT ![r] = l]
      BY DEF IdemInv
    <3> HIDE DEF q
    <3>2. m = l
      BY <1>1 DEF IdemShape
    <3> QED BY <2>1, <3>1, <3>2
  <2>6. step = "delete" => n # 0 /\ n <= Len(s)
    BY <2>2, <2>3, <2>4
  <2>7. Rows
    BY <1>1, <2>1, <2>2, <2>3, <2>4, <2>5, <2>6, CapRows
  <2> QED BY <2>1, <2>7 DEF IdemTypes, IndexTyped
<1>9. CASE Evict(r) /\ ~ Unreached(r, "done")
  <2> DEFINE n == q.overflow - 1
             s == q.oldest
             step == IF q.overflow = 1 THEN "forget" ELSE "delete"
             i == Len(s) + 1 - q.overflow
             k == s[i]
  <2>1. /\ Gone(k) /\ idem' = [idem EXCEPT ![r].overflow = n] /\ IdemGoto(r, step)
        /\ UNCHANGED <<index, disabled>>
    BY <1>9 DEF Evict
  <2>2. q.overflow # 0 /\ q.overflow <= Len(s)
    BY <1>1, <1>9 DEF Evict, RowTyped
  <2>3. s \in Seq(Actors \X Keys) /\ Len(s) \in Nat /\ q.overflow \in Nat
    BY <1>2
  <2>4. n \in Nat /\ i \in 1 .. Len(s) /\ step \in IdemSteps /\ (step = "delete" => n # 0 /\ n <= Len(s))
    <3> DEFINE o == q.overflow
               l == Len(s)
    <3>1. o \in Nat /\ l \in Nat /\ o # 0 /\ o <= l
      BY <2>2, <2>3
    <3>2. n = o - 1 /\ i = l + 1 - o /\ step = (IF o = 1 THEN "forget" ELSE "delete")
      OBVIOUS
    <3> HIDE DEF o, l, n, i, step
    <3>3. n \in Nat /\ i \in 1 .. l /\ (o # 1 => n # 0) /\ n <= l
      BY <3>1, <3>2
    <3>4. step \in IdemSteps /\ (step = "delete" => o # 1)
      BY <3>2 DEF IdemSteps
    <3> QED BY <3>3, <3>4 DEF l
  <2> HIDE DEF n, i, step
  <2>5. idem' = [idem EXCEPT ![r].overflow = n, ![r].oldest = s]
    BY <1>5, <2>1
  <2> HIDE DEF s, q
  <2>6. k \in Actors \X Keys
    BY <2>3, <2>4
  <2>7. lost' \subseteq Actors \X Keys
    BY <2>1, <2>6 DEF Gone, IdemTypes
  <2>8. Rows
    BY <1>1, <2>1, <2>3, <2>4, <2>5, CapRows
  <2> QED BY <2>1, <2>7, <2>8 DEF IdemTypes, IndexTyped
<1>10. CASE Forget(r) /\ ~ Unreached(r, "done")
  <2> DEFINE S == Entries(q.oldest)
  <2>1. index' = Without(index, S) /\ IdemEnd(r) /\ UNCHANGED <<disabled, lost>>
    BY <1>10 DEF Forget
  <2> HIDE DEF S
  <2>2. IndexTyped'
    BY <1>1, <2>1, WithoutKeeps DEF IndexTyped
  <2>3. Rows
    BY <1>1, <2>1, EndRows
  <2> QED BY <2>1, <2>2, <2>3 DEF IdemTypes
<1>11. CASE IdemCrash(r)
  <2>1. Rows
    BY <1>1, <1>11, EndRows DEF IdemCrash
  <2> QED BY <1>11, <2>1 DEF IdemCrash, IdemTypes, IndexTyped
<1> QED BY <1>4, <1>6, <1>7, <1>8, <1>9, <1>10, <1>11

LEMMA IdemTypesStep == IdemInv /\ IdemTypes /\ [IdemNext]_idemVars => IdemTypes'
<1> SUFFICES ASSUME IdemInv, IdemTypes, [IdemNext]_idemVars PROVE IdemTypes'
  OBVIOUS
<1>1. CASE UNCHANGED idemVars
  BY <1>1 DEF idemVars, IdemTypes, IndexTyped
<1>2. ASSUME NEW r \in IdemRequests, IdemStep(r) PROVE IdemTypes'
  BY <1>2, LookupTypes, StoreTypes, CapTypes DEF IdemStep
<1>3. ASSUME NEW k \in DOMAIN answers, AnswerExpires(k) PROVE IdemTypes'
  <2>1. k \in Actors \X Keys
    BY DEF IdemInv, AnswersOK
  <2> QED BY <1>3, <2>1 DEF AnswerExpires, Gone, IdemTypes, IndexTyped
<1>4. ASSUME NEW w \in Workers, CircuitCloses(w) PROVE IdemTypes'
  BY <1>4 DEF CircuitCloses, IdemTypes, IndexTyped
<1> QED BY <1>1, <1>2, <1>3, <1>4 DEF IdemNext

\* The completed index holds cache keys and no key twice, and what is evicted
\* or expires is the key of an actor, whatever requests race through the cap
\* and wherever Redis fails (_track_completed_key, _enforce_completed_key_cap).
THEOREM IdempotencyTypesHold == IdemSpec => []IdemTypeOK
<1>1. IdemInit => IdemTypes
  <2> SUFFICES ASSUME IdemInit PROVE IdemTypes
    OBVIOUS
  <2>1. NoIdem.end = "none" /\ NoIdem.oldest = <<>> /\ NoIdem.overflow = 0
    BY DEF NoIdem
  <2>2. ASSUME NEW r \in IdemRequests PROVE RowTyped(idem[r], idemPc[r])
    <3>1. idem[r] = NoIdem /\ idemPc[r] = "idle"
      BY DEF IdemInit
    <3>2. <<>> \in Seq(Actors \X Keys)
      OBVIOUS
    <3>3. RowTyped(NoIdem, "idle")
      BY <2>1, <3>2 DEF RowTyped
    <3> QED BY <3>1, <3>3
  <2>3. IndexTyped /\ disabled = {} /\ lost = {}
    BY DEF IdemInit, IndexTyped
  <2> QED BY <2>2, <2>3 DEF IdemTypes
<1>2. IdemInv /\ IdemTypes => IdemTypeOK
  <2> SUFFICES ASSUME IdemInv, IdemTypes PROVE IdemTypeOK
    OBVIOUS
  <2>1. ASSUME NEW k \in DOMAIN answers PROVE answers[k].by \in IdemRequests /\ answers[k].payload \in Payloads
    <3>1. BegunAs(answers[k].by, k, answers[k].payload)
      BY DEF IdemInv, AnswersOK
    <3> QED BY <3>1 DEF BegunAs, IdemTypes, RowTyped
  <2>2. index \in Seq(Actors \X Keys) /\ \A i, j \in DOMAIN index : index[i] = index[j] => i = j
    BY DEF IdemTypes, IndexTyped
  <2>3. \A r \in IdemRequests : idem[r].end \in {"none", "handled", "failed", "replayed", "conflict"}
    BY DEF IdemTypes, RowTyped
  <2> QED BY <2>1, <2>2, <2>3 DEF IdemInv, IdemTypes, IdemTypeOK
<1> QED BY <1>1, <1>2, IdemInvInit, IdemInvStep, IdemTypesStep, PTL DEF IdemSpec

-----------------------------------------------------------------------------
(* The composition                                                         *)

\* A step of the composition is a step of each component, or leaves it alone.
LEMMA ComponentSteps ==
    [Next]_<<subject, authVars, credVars, limitVars, idemVars, walletVars, auditVars>> =>
        /\ [AuthNext]_authVars /\ [CredentialsNext]_credVars /\ [LimitNext]_limitVars
        /\ [IdemNext]_idemVars /\ [WalletsNext]_walletVars /\ [AuditNext]_auditVars
  BY DEF Next

\* A behaviour of the composition is a behaviour of each component, so that
\* every theorem about one of them holds of the composition as well.
THEOREM AccessRunsComponents ==
    Spec => /\ AuthSpec /\ CredentialsSpec /\ LimitSpec
            /\ IdemSpec /\ WalletsSpec /\ AuditSpec
<1>1. Init => AuthInit /\ CredentialsInit /\ LimitInit /\ IdemInit /\ WalletsInit /\ AuditInit
  BY DEF Init
<1> QED BY <1>1, ComponentSteps, PTL
        DEF Spec, AuthSpec, CredentialsSpec, LimitSpec, IdemSpec, WalletsSpec, AuditSpec

\* Every component's variables hold what they can hold, in every behaviour.
THEOREM AccessTypesHold == Spec => []TypeOK
<1>1. AuthInv => AuthTypeOK
  BY DEF AuthInv
<1>2. AuditInv => AuditTypeOK
  BY DEF AuditInv
<1>3. LimitSpec => []LimitTypeOK
  <2>1. LimitInv => LimitTypeOK
    BY DEF LimitInv
  <2> QED BY <2>1, LimitInvInit, LimitInvStep, PTL DEF LimitSpec
<1>4. AuthTypeOK /\ CredentialsTypeOK /\ LimitTypeOK /\ IdemTypeOK /\ WalletsTypeOK /\ AuditTypeOK
        => TypeOK
  BY DEF TypeOK
<1> QED BY <1>1, <1>2, <1>3, <1>4, AccessRunsComponents, AuthInvariance, AuditInvariance,
           CredentialTypesHold, IdempotencyTypesHold, WalletTypesHold, PTL

\* What each component promises holds of the composition: the invariants and
\* the action properties that the run over all of them checks.
THEOREM AccessKeepsItsPromises ==
    Spec => /\ []RotatedTokenGone /\ []RetiredIsRefused /\ []RetryNotHandledAgain
            /\ []AttemptsLimited /\ []AnswersNameOneWallet /\ []AppendsFollowTail
            /\ []ChainVerifies /\ TokensLiveOnce /\ LockSurvivesLogin
  BY AccessRunsComponents, RotatedStaysGone, RetiredStaysRefused, RetriesAreReplayed,
     RacesStayBounded, WalletAnswersAgree, ChainNeverForks, ChainAlwaysVerifies, TokensLiveOnlyOnce,
     LockOutlivesLogins, PTL

=============================================================================
