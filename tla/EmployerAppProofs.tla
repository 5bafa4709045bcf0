--------------------------- MODULE EmployerAppProofs ---------------------------
(***************************************************************************)
(* Theorems about EmployerApp: what the pages of the employer show and     *)
(* issue, whatever the wallet, the user, the chain and other handlers do   *)
(* between two steps of a handler.                                         *)
(***************************************************************************)
EXTENDS EmployerApp, RegistryRecordsProofs, SequenceTheorems, TLAPS

USE DEF AttestationIds, RequestIds, EmploymentStatus, RequestStatus,
        Field, Account

-----------------------------------------------------------------------------
(* The world around the page.                                               *)

Who == Accounts \cup {NoAccount}

RegistrationCalls == [name: {"registerEmployer"}, arg: EmployerNames]
RevocationCalls == [name: {"revokeAttestation"}, arg: AttestationIds]
IssueCalls == [name: {"createAttestation"}, arg: Submissions]

TxType == [from: Accounts, call: RegistrationCalls \cup RevocationCalls \cup IssueCalls,
           chain: Chains, status: {"pending", "mined", "reverted"}, result: Nat]

InRegistry(tx) == tx.chain = RegistryChain /\ tx.status = "mined"

\* What was mined on the registry has happened there.
Done(tx) ==
    InRegistry(tx) =>
        /\ tx.call.name = "registerEmployer" => isEmployerRegistered(tx.from)
        /\ tx.call.name = "revokeAttestation" =>
              Exists(tx.call.arg) /\ Revoked(tx.call.arg)
        /\ tx.call.name = "createAttestation" =>
              /\ tx.result \in AttestationIds /\ Exists(tx.result)
              /\ attestations[tx.result].employer = tx.from
              /\ attestations[tx.result].employee = tx.call.arg.employee
              /\ attestations[tx.result].ipfsCID = tx.call.arg.ipfsCID

WorldInv ==
    /\ RegistryInv
    /\ page \in {"/employer", "/employer/create"}
    /\ account \in Who /\ signer \in Who /\ network \in Chains
    /\ sent \in Seq(TxType)
    /\ \A t \in DOMAIN sent : Done(sent[t])

-----------------------------------------------------------------------------
(* The invariants of the handlers.                                          *)

\* A handler that writes: its call is one of those it makes; once sent, its
\* transaction is that call, and it goes on when the transaction is mined.
WriteType(calls) ==
    [step: {"sign", "mine", "reload"}, by: Accounts, of: Accounts, call: calls,
     tx: Nat, reload: Nat]

WriteInv(w, calls) ==
    w # NoWrite =>
        /\ w \in WriteType(calls)
        /\ w.step \in {"mine", "reload"} =>
              /\ w.tx \in DOMAIN sent /\ sent[w.tx].call = w.call
              /\ sent[w.tx].from = w.by
        /\ w.step = "reload" => sent[w.tx].status = "mined"

RefreshType == [step: {"idle", "asked", "told", "profile"}, of: Who, answer: BOOLEAN]

\* What a refresh was told is so, and stays so.
RefreshInv(r) ==
    /\ r.step = "idle" => r = NoRefresh
    /\ r.step # "idle" => r.of \in Accounts
    /\ (r.step = "told" /\ r.answer) \/ r.step = "profile" =>
          isEmployerRegistered(r.of)

\* While no refresh was overtaken there is one at most, for the account shown.
ProfileInv ==
    /\ refresh \in [Refreshes -> RefreshType]
    /\ isRegisteredEmployer \in BOOLEAN /\ employerProfile \in Who
    /\ \A r \in Refreshes : RefreshInv(refresh[r])
    /\ ~profileUnsure => \A r, q \in Refreshing : r = q
    /\ ~profileUnsure /\ isConnected =>
          \A r \in Refreshing :
             /\ refresh[r].of = account
             /\ refresh[r].step = "profile" => isRegisteredEmployer
    /\ ProfileIsRight

\* handleRegisterEmployer has registered the account it refreshes the profile of.
Registered ==
    /\ registering.step = "reload" /\ registering.by = registering.of
    /\ sent[registering.tx].chain = RegistryChain

\* A refresh finds registered what the page has registered before it began.
RegisteringInv ==
    /\ WriteInv(registering, RegistrationCalls)
    /\ page # "/employer" => registering = NoWrite /\ registeredHere = {}
    /\ registering.step = "reload" =>
          /\ registering.reload \in Refreshing
          /\ refresh[registering.reload].of = registering.of
    /\ Registered /\ refresh[registering.reload].step = "told" =>
          refresh[registering.reload].answer
    /\ registeredHere \subseteq Accounts
    /\ \A a \in registeredHere : isEmployerRegistered(a)
    /\ ~profileUnsure =>
          \A r \in Refreshing :
             refresh[r].step = "told" /\ refresh[r].of \in registeredHere =>
                refresh[r].answer
    /\ RegistrationIsShown

Row == [id: AttestationIds, status: EmploymentStatus]

LoadType == [step: {"idle", "ids", "rows"}, of: Who, todo: SUBSET AttestationIds,
             rows: SUBSET Row]

\* What a load is to read and has read is of the account it was begun for.
LoadInv(r) ==
    /\ r.step = "idle" => r = NoLoad
    /\ r.step # "idle" => r.of \in Accounts
    /\ r.step = "ids" => r.todo = {} /\ r.rows = {}
    /\ \A a \in r.todo : attestations[a].employer = r.of
    /\ \A row \in r.rows : attestations[row.id].employer = r.of

RevokedRow(a) == [id |-> a, status |-> "REVOKED"]

\* A load has yet to read attestation a, or has read that it is revoked.
Finds(r, a) ==
    r.step = "rows" /\ attestations[a].employer = r.of =>
        a \in r.todo \/ RevokedRow(a) \in r.rows

\* While no load was overtaken there is one at most, for the account shown.
ListInv ==
    /\ load \in [Loads -> LoadType] /\ shownList \subseteq Row
    /\ \A l \in Loads : LoadInv(load[l])
    /\ ~listUnsure => \A l, m \in Loading : l = m
    /\ ~listUnsure /\ DashboardShown => \A l \in Loading : load[l].of = account
    /\ page # "/employer" => Loading = {} /\ shownList = {}
    /\ ListIsRight

\* handleRevokeAttestation has revoked the attestation it loads the list after.
HasRevoked ==
    revoking.step = "reload" /\ sent[revoking.tx].chain = RegistryChain

\* A load finds revoked what the page has revoked before it began.
RevokingInv ==
    /\ WriteInv(revoking, RevocationCalls)
    /\ revokingId \in AttestationIds \cup {0}
    /\ page # "/employer" => revoking = NoWrite /\ revokedHere = {}
    /\ revoking.step = "reload" => revoking.reload \in Loading
    /\ HasRevoked => Finds(load[revoking.reload], revoking.call.arg)
    /\ revokedHere \subseteq AttestationIds
    /\ \A a \in revokedHere : Exists(a) /\ Revoked(a)
    /\ ~listUnsure => \A l \in Loading, a \in revokedHere : Finds(load[l], a)

\* The write of a pipeline, whose call is complete when the upload is.
IssueType ==
    [step: {"upload", "prepare", "sign", "mine"}, by: Accounts, of: Accounts,
     call: [name: {"createAttestation"}, arg: Submission], tx: Nat, reload: Nat]

PipelineType == [write: IssueType, blob: Blobs \cup {Empty}, seen: BOOLEAN]

PipelineInv(p) ==
    p # NoPipeline =>
        /\ p \in PipelineType
        /\ IF p.write.step = "upload"
           THEN p.write.call.arg \in Forms /\ HasDocument(p.write.call.arg)
           ELSE p.write.call.arg \in Submissions
        /\ p.write.step \in {"prepare", "sign"} => p.write.call.arg.ipfsCID = p.blob
        /\ p.write.step = "mine" =>
              p.write.tx \in DOMAIN sent /\ sent[p.write.tx].call = p.write.call

\* A pipeline that has not sent its blob, and a transaction that carries one.
Holds(p) == Step(p) \in {"prepare", "sign"} /\ pipeline[p].blob \in Blobs

Carries(tx) ==
    tx.call.name = "createAttestation" /\ tx.call.arg.ipfsCID \in Blobs

\* Every blob has one holder at most: a pipeline, then its transaction.
BlobsInv ==
    /\ pinned \subseteq Blobs /\ abandoned \subseteq pinned
    /\ \A p \in Pipelines : Holds(p) => pipeline[p].blob \in pinned \ abandoned
    /\ \A t \in DOMAIN sent : Carries(sent[t]) =>
          sent[t].call.arg.ipfsCID \in pinned \ abandoned
    /\ \A p, q \in Pipelines :
          Holds(p) /\ Holds(q) /\ pipeline[p].blob = pipeline[q].blob => p = q
    /\ \A p \in Pipelines, t \in DOMAIN sent :
          Holds(p) /\ Carries(sent[t]) => pipeline[p].blob # sent[t].call.arg.ipfsCID
    /\ \A t, u \in DOMAIN sent :
          /\ Carries(sent[t]) /\ Carries(sent[u])
          /\ sent[t].call.arg.ipfsCID = sent[u].call.arg.ipfsCID
          => t = u

\* A blob on the chain was brought there by a transaction of the page.
Brought(a) ==
    Exists(a) /\ attestations[a].ipfsCID \in Blobs =>
        \E t \in DOMAIN sent :
           /\ InRegistry(sent[t]) /\ sent[t].result = a
           /\ Carries(sent[t]) /\ sent[t].call.arg.ipfsCID = attestations[a].ipfsCID

MintedInv ==
    minted # NotMinted =>
        /\ minted.tx \in DOMAIN sent /\ sent[minted.tx].status = "mined"
        /\ sent[minted.tx].call.name = "createAttestation"
        /\ minted.id = IdInReceipt(minted.tx)

IssuanceInv ==
    /\ DOMAIN pipeline = Pipelines
    /\ \A p \in Pipelines : PipelineInv(pipeline[p])
    /\ BlobsInv
    /\ \A a \in AttestationIds : Brought(a)
    /\ MintedInv

EmployerInv ==
    WorldInv /\ ProfileInv /\ RegisteringInv /\ ListInv /\ RevokingInv /\ IssuanceInv

-----------------------------------------------------------------------------
(* The registry and the transactions.                                       *)

SentMoves(t) ==
    /\ t \in DOMAIN sent'
    /\ sent'[t].from = sent[t].from /\ sent'[t].call = sent[t].call
    /\ sent'[t].chain = sent[t].chain
    /\ sent[t].status = "mined" =>
          sent'[t].status = "mined" /\ sent'[t].result = sent[t].result

\* What time does to the registry and the page's transactions.
WorldMoves ==
    /\ RecordsPersist
    /\ \A t \in DOMAIN sent : SentMoves(t)

LEMMA TxTypes ==
    ASSUME WorldInv, NEW t \in DOMAIN sent
    PROVE  /\ sent[t] \in TxType /\ sent[t].from \in Accounts
           /\ sent[t].from \in Wallets /\ Done(sent[t])
<1>1. sent \in Seq(TxType) /\ Done(sent[t])
    BY DEF WorldInv
<1>2. sent[t] \in TxType
    BY <1>1
<1> QED
    BY <1>1, <1>2, AccountAssumption DEF TxType

LEMMA RegistryRests ==
    ASSUME WorldInv, UNCHANGED registryVars
    PROVE  RegistryInv' /\ RecordsPersist
BY InvStep, Persistence DEF WorldInv

\* What has happened stays so.
LEMMA DoneKept ==
    ASSUME RecordsPersist, NEW tx \in TxType, Done(tx)
    PROVE  Done(tx)'
<1>1. /\ tx.from \in Wallets
      /\ tx.call.name = "revokeAttestation" => tx.call.arg \in AttestationIds
    BY AccountAssumption
       DEF TxType, RegistrationCalls, RevocationCalls, IssueCalls
<1>2. CASE ~InRegistry(tx)
    BY <1>2 DEF Done, InRegistry
<1>3. CASE InRegistry(tx)
    BY <1>1, <1>3 DEF Done, InRegistry, RecordsPersist
<1> QED
    BY <1>2, <1>3

\* An attestation somebody has issued exists.
LEMMA IssuedExists ==
    ASSUME WorldInv, NEW a \in AttestationIds, attestations[a].employer \in Accounts
    PROVE  Exists(a)
<1>1. ~Exists(a) => attestations[a].employer = Empty
    BY DEF WorldInv, RegistryInv, IdsMatchCounters, NoAttestation
<1> QED
    BY <1>1, AccountAssumption, EmptyAssumption

\* A transaction that is executed has done what it says, and its receipt names
\* the attestation it has issued.
LEMMA ExecuteDone ==
    ASSUME WorldInv, NEW tx \in TxType, Execute(tx.from, tx.call),
           NEW new, new = [tx EXCEPT !.status = "mined", !.result = event'.attestationId]
    PROVE  /\ [Next]_registryVars
           /\ new \in TxType /\ Done(new)'
           /\ \A a \in AttestationIds : Exists(a)' /\ ~Exists(a) =>
                 /\ new.result = a /\ new.call.name = "createAttestation"
                 /\ attestations'[a].ipfsCID = new.call.arg.ipfsCID
<1> DEFINE from == tx.from
           arg == tx.call.arg
<1>0. /\ from \in Wallets /\ RegistryInv
      /\ tx.call \in RegistrationCalls \cup RevocationCalls \cup IssueCalls
    BY AccountAssumption DEF TxType, WorldInv
<1>1. /\ new.from = from /\ new.call = tx.call /\ new.result = event'.attestationId
      /\ event'.attestationId \in Nat => new \in TxType
    BY DEF TxType
<1>2. CASE tx.call.name = "registerEmployer"
  <2>1. registerEmployer(from, arg) /\ arg \in EmployerNames
      BY <1>0, <1>2 DEF Execute, RegistrationCalls, RevocationCalls, IssueCalls
  <2>2. [Next]_registryVars
      BY <1>0, <2>1 DEF Next, Transaction
  <2>3. /\ isEmployerRegistered(from)' /\ event'.attestationId = 0
        /\ attestations' = attestations
      BY <1>0, <2>1
         DEF registerEmployer, isEmployerRegistered, RegistryInv, TypeOK, Emitted,
             attestationVars
  <2>4. Done(new)'
      BY <1>1, <1>2, <2>3 DEF Done, isEmployerRegistered
  <2> QED
      BY <1>1, <2>2, <2>3, <2>4 DEF Exists
<1>3. CASE tx.call.name = "revokeAttestation"
  <2>1. revokeAttestation(from, arg) /\ arg \in AttestationIds
      BY <1>0, <1>3 DEF Execute, RegistrationCalls, RevocationCalls, IssueCalls
  <2>2. [Next]_registryVars
      BY <1>0, <2>1 DEF Next, Transaction
  <2>3. /\ Exists(arg) /\ event'.attestationId = arg
        /\ attestations' = [attestations EXCEPT ![arg].status = "REVOKED"]
        /\ attestations \in [AttestationIds -> Attestation]
      BY <1>0, <2>1 DEF revokeAttestation, CanRevoke, Emitted, RegistryInv, TypeOK
  <2>4. /\ Exists(arg)' /\ Revoked(arg)'
        /\ \A a \in AttestationIds : Exists(a)' => Exists(a)
      BY <2>1, <2>3 DEF Exists, Revoked, Attestation
  <2>5. Done(new)'
      BY <1>1, <1>3, <2>4 DEF Done, Exists, Revoked
  <2>6. arg \in Nat
      BY <2>1, BoundAssumption
  <2> QED
      BY <1>1, <2>2, <2>3, <2>4, <2>5, <2>6
<1>4. CASE tx.call.name = "createAttestation"
  <2> DEFINE id == attestationIdCounter + 1
  <2>1. createAttestation(from, arg) /\ arg \in Submissions
      BY <1>0, <1>4 DEF Execute, RegistrationCalls, RevocationCalls, IssueCalls
  <2>2. [Next]_registryVars
      BY <1>0, <2>1 DEF Next, Transaction
  <2>3. id \in AttestationIds /\ attestationIdCounter \in Nat /\ id \in Nat
      BY <1>0, <2>1, BoundAssumption DEF createAttestation, RegistryInv, TypeOK
  <2>4. /\ attestations'[id] = Recorded(from, arg)
        /\ \A a \in AttestationIds \ {id} : attestations'[a] = attestations[a]
        /\ event'.attestationId = id
      BY <1>0, <2>1, <2>3
         DEF createAttestation, NextAttestationId, RegistryInv, TypeOK, Emitted
  <2>5. /\ attestations'[id].issueTimestamp # 0
        /\ attestations'[id].employer = from
        /\ attestations'[id].employee = arg.employee
        /\ attestations'[id].ipfsCID = arg.ipfsCID
      BY <1>0, <2>4, BoundAssumption DEF Recorded, RegistryInv, TypeOK
  <2> HIDE DEF id
  <2>6. Done(new)'
      BY <1>1, <1>4, <2>3, <2>4, <2>5 DEF Done, Exists
  <2>7. \A a \in AttestationIds : Exists(a)' /\ ~Exists(a) => a = id
      BY <2>4 DEF Exists
  <2> QED
      BY <1>1, <1>4, <2>2, <2>3, <2>4, <2>5, <2>6, <2>7
<1> QED
    BY <1>2, <1>3, <1>4 DEF Execute

\* One transaction of the page is settled, the others stay as they are.
LEMMA SettledMoves ==
    ASSUME WorldInv, NEW t \in DOMAIN sent, sent[t].status = "pending",
           NEW new \in TxType, sent' = [sent EXCEPT ![t] = new],
           new.from = sent[t].from, new.call = sent[t].call, new.chain = sent[t].chain
    PROVE  /\ sent' \in Seq(TxType) /\ DOMAIN sent' = DOMAIN sent
           /\ sent'[t] = new
           /\ \A u \in DOMAIN sent \ {t} : sent'[u] = sent[u]
           /\ \A u \in DOMAIN sent : SentMoves(u)
<1>1. sent \in Seq(TxType) /\ DOMAIN sent = 1..Len(sent) /\ Len(sent) \in Nat
    BY DEF WorldInv
<1>2. sent' \in Seq(TxType) /\ DOMAIN sent' = DOMAIN sent
  <2>1. t \in 1..Len(sent)
      BY <1>1
  <2>2. /\ [sent EXCEPT ![t] = new] \in Seq(TxType)
        /\ Len([sent EXCEPT ![t] = new]) = Len(sent)
      BY <1>1, <2>1, ExceptSeq
  <2> QED
      BY <1>1, <2>2
<1>3. sent'[t] = new /\ \A u \in DOMAIN sent \ {t} : sent'[u] = sent[u]
    BY <1>1
<1>4. ASSUME NEW u \in DOMAIN sent PROVE SentMoves(u)
  <2>1. CASE u = t
      BY <1>2, <1>3, <2>1 DEF SentMoves
  <2>2. CASE u # t
      BY <1>2, <1>3, <2>2 DEF SentMoves
  <2> QED
      BY <2>1, <2>2
<1> QED
    BY <1>2, <1>3, <1>4

\* A step that keeps the registry's invariant and what was mined.
LEMMA WorldKept ==
    ASSUME WorldInv, RegistryInv', RecordsPersist, page' = page,
           account' \in Who, signer' \in Who, network' \in Chains,
           sent' \in Seq(TxType),
           \A t \in DOMAIN sent' :
              (t \in DOMAIN sent /\ sent'[t] = sent[t]) \/ Done(sent[t])'
    PROVE  WorldInv'
<1>1. ASSUME NEW t \in DOMAIN sent' PROVE Done(sent[t])'
  <2>1. CASE t \in DOMAIN sent /\ sent'[t] = sent[t]
    <3>1. PICK tx : tx = sent[t]
        OBVIOUS
    <3>2. tx \in TxType /\ Done(tx)
        BY <2>1, <3>1, TxTypes
    <3>3. Done(tx)'
        BY <3>2, DoneKept
    <3> QED
        BY <2>1, <3>1, <3>3 DEF Done, InRegistry
  <2> QED
      BY <2>1
<1> QED
    BY <1>1 DEF WorldInv

\* A transaction of the page is mined, or reverts.
LEMMA MineStep ==
    ASSUME WorldInv, NEW t \in DOMAIN sent, Mine(t), UNCHANGED <<pageVars, page>>
    PROVE  /\ WorldInv' /\ WorldMoves /\ DOMAIN sent' = DOMAIN sent
           /\ \A a \in AttestationIds : Exists(a)' /\ ~Exists(a) =>
                 /\ InRegistry(sent'[t]) /\ sent'[t].result = a
                 /\ sent'[t].call.name = "createAttestation"
                 /\ attestations'[a].ipfsCID = sent'[t].call.arg.ipfsCID
<1> DEFINE tx == sent[t]
<1>0. tx \in TxType /\ Done(tx) /\ sent \in Seq(TxType)
    BY TxTypes DEF WorldInv
<1>1. ASSUME NEW status \in {"mined", "reverted"}, NEW result \in Nat,
             Settled(t, status, result), tx.status = "pending",
             NEW new, new = [tx EXCEPT !.status = status, !.result = result],
             RegistryInv', RecordsPersist, Done(new)'
      PROVE  /\ WorldInv' /\ WorldMoves /\ DOMAIN sent' = DOMAIN sent
             /\ sent'[t] = new
  <2>1. /\ new \in TxType /\ new.from = tx.from /\ new.call = tx.call
        /\ new.chain = tx.chain
      BY <1>0, <1>1 DEF TxType
  <2>2. sent' = [sent EXCEPT ![t] = new]
      BY <1>0, <1>1 DEF Settled, TxType
  <2>3. /\ sent' \in Seq(TxType) /\ DOMAIN sent' = DOMAIN sent
        /\ sent'[t] = new
        /\ \A u \in DOMAIN sent \ {t} : sent'[u] = sent[u]
        /\ \A u \in DOMAIN sent : SentMoves(u)
      BY <1>1, <2>1, <2>2, SettledMoves
  <2>4. \A u \in DOMAIN sent' :
           (u \in DOMAIN sent /\ sent'[u] = sent[u]) \/ Done(sent[u])'
    <3>1. Done(sent[t])'
        BY <1>1, <2>3 DEF Done, InRegistry
    <3> QED
        BY <2>3, <3>1
  <2>5. WorldInv'
      BY <1>1, <2>3, <2>4, WorldKept DEF WorldInv, pageVars
  <2> QED
      BY <1>1, <2>3, <2>5 DEF WorldMoves
<1>2. CASE /\ PendingOn(t, TRUE) /\ Execute(tx.from, tx.call)
           /\ Settled(t, "mined", event'.attestationId)
  <2>1. PICK new : new = [tx EXCEPT !.status = "mined", !.result = event'.attestationId]
      OBVIOUS
  <2>2. /\ [Next]_registryVars /\ new \in TxType /\ Done(new)'
        /\ \A a \in AttestationIds : Exists(a)' /\ ~Exists(a) =>
              /\ new.result = a /\ new.call.name = "createAttestation"
              /\ attestations'[a].ipfsCID = new.call.arg.ipfsCID
      BY <1>0, <1>2, <2>1, ExecuteDone
  <2>3. RegistryInv' /\ RecordsPersist
      BY <2>2, InvStep, Persistence DEF WorldInv
  <2>4. /\ event'.attestationId \in Nat /\ tx.status = "pending"
        /\ tx.chain = RegistryChain /\ InRegistry(new)
      BY <1>0, <1>2, <2>1, <2>2 DEF PendingOn, TxType, InRegistry
  <2>5. /\ WorldInv' /\ WorldMoves /\ DOMAIN sent' = DOMAIN sent
        /\ sent'[t] = new
      BY <1>1, <1>2, <2>1, <2>2, <2>3, <2>4
  <2> QED
      BY <2>2, <2>4, <2>5
<1>3. CASE /\ UNCHANGED registryVars
           /\ \/ PendingOn(t, TRUE) /\ Settled(t, "reverted", 0)
              \/ PendingOn(t, FALSE) /\ Settled(t, "mined", 0)
  <2>1. PICK status \in {"mined", "reverted"} :
           /\ Settled(t, status, 0) /\ tx.status = "pending"
           /\ status = "reverted" \/ tx.chain # RegistryChain
      BY <1>3 DEF PendingOn
  <2>2. PICK new : new = [tx EXCEPT !.status = status, !.result = 0]
      OBVIOUS
  <2>3. new.status = status /\ new.chain = tx.chain
      BY <1>0, <2>2 DEF TxType
  <2>4. Done(new)'
      BY <2>1, <2>3 DEF Done, InRegistry
  <2>5. RegistryInv' /\ RecordsPersist
      BY <1>3, RegistryRests
  <2>6. \A a \in AttestationIds : Exists(a)' <=> Exists(a)
      BY <1>3 DEF Exists, registryVars, attestationVars
  <2>7. WorldInv' /\ WorldMoves /\ DOMAIN sent' = DOMAIN sent
      BY <1>1, <2>1, <2>2, <2>4, <2>5
  <2> QED
      BY <2>6, <2>7
<1> QED
    BY <1>2, <1>3 DEF Mine

\* The transactions stay as they were sent, or one joins them.
LEMMA SendMoves ==
    ASSUME WorldInv, NEW w, w.by \in Accounts,
           w.call \in RegistrationCalls \cup RevocationCalls \cup IssueCalls,
           NEW passes, SendWrite(w, passes)
    PROVE  /\ sent' \in Seq(TxType)
           /\ DOMAIN sent' = DOMAIN sent \cup {Len(sent) + 1}
           /\ Len(sent) + 1 \notin DOMAIN sent
           /\ \A t \in DOMAIN sent : sent'[t] = sent[t]
           /\ sent'[Len(sent) + 1].from = w.by
           /\ sent'[Len(sent) + 1].call = w.call
           /\ sent'[Len(sent) + 1].status = "pending"
<1> DEFINE new == [from |-> w.by, call |-> w.call, chain |-> network,
                   status |-> "pending", result |-> 0]
<1>1. /\ new \in TxType /\ new.call = w.call /\ new.from = w.by
      /\ new.status = "pending"
    BY DEF TxType, WorldInv
<1>2. sent' = Append(sent, new)
    BY DEF SendWrite
<1>3. sent \in Seq(TxType) /\ Len(sent) \in Nat /\ DOMAIN sent = 1..Len(sent)
    BY DEF WorldInv
<1> HIDE DEF new
<1> QED
    BY <1>1, <1>2, <1>3

\* A handler of the page sends its transaction.
LEMMA SendStep ==
    ASSUME WorldInv, NEW w, w.by \in Accounts,
           w.call \in RegistrationCalls \cup RevocationCalls \cup IssueCalls,
           NEW passes, SendWrite(w, passes),
           UNCHANGED <<pageVars, registryVars, page>>
    PROVE  WorldInv' /\ WorldMoves
<1>1. /\ sent' \in Seq(TxType)
      /\ DOMAIN sent' = DOMAIN sent \cup {Len(sent) + 1}
      /\ \A t \in DOMAIN sent : sent'[t] = sent[t]
      /\ sent'[Len(sent) + 1].status = "pending"
    BY SendMoves
<1>2. RegistryInv' /\ RecordsPersist
    BY RegistryRests
<1>3. \A t \in DOMAIN sent' :
         (t \in DOMAIN sent /\ sent'[t] = sent[t]) \/ Done(sent[t])'
    BY <1>1 DEF Done, InRegistry
<1>4. WorldInv'
    BY <1>1, <1>2, <1>3, WorldKept DEF WorldInv, pageVars
<1> QED
    BY <1>1, <1>2, <1>4 DEF WorldMoves, SentMoves

\* Session and wallet move; or nothing of the world does.
LEMMA SessionMoves ==
    ASSUME WorldInv, UNCHANGED <<registryVars, sent, page>>,
           SessionStep \/ UNCHANGED pageVars
    PROVE  WorldInv' /\ WorldMoves
<1>1. RegistryInv' /\ RecordsPersist
    BY RegistryRests
<1>2. account' \in Who /\ signer' \in Who /\ network' \in Chains
    BY DEF WorldInv, Who, SessionStep, pageVars, Show, Renew, Forget, Move
<1>3. WorldInv'
    BY <1>1, <1>2, WorldKept DEF WorldInv
<1> QED
    BY <1>1, <1>3 DEF WorldMoves, SentMoves

-----------------------------------------------------------------------------
(* Handlers that write.                                                     *)

LEMMA Idle ==
    /\ NoWrite.step = "idle"
    /\ \A w, calls : WriteInv(w, calls) /\ w.step # "idle" => w # NoWrite
    /\ \A calls : WriteInv(NoWrite, calls)
BY DEF NoWrite, WriteInv

\* What a handler that is under way holds.
LEMMA WriteTypes ==
    ASSUME NEW w, NEW calls, WriteInv(w, calls), w.step # "idle"
    PROVE  /\ w \in WriteType(calls)
           /\ w.by \in Accounts /\ w.of \in Accounts /\ w.call \in calls
BY DEF NoWrite, WriteInv, WriteType

\* A handler's progress is the same whatever is sent and mined.
LEMMA WriteKept ==
    ASSUME NEW w, NEW calls, WriteInv(w, calls), \A t \in DOMAIN sent : SentMoves(t)
    PROVE  WriteInv(w, calls)'
BY DEF WriteInv, SentMoves

LEMMA WriteBegun ==
    ASSUME WorldInv, isConnected, signer # NoAccount,
           NEW calls, NEW call \in calls, NEW s, s = Begun(call)
    PROVE  /\ WriteInv(s, calls) /\ s.step = "sign"
           /\ s = [step |-> "sign", by |-> signer, of |-> account, call |-> call,
                   tx |-> 0, reload |-> 0]
<1>1. s = [step |-> "sign", by |-> signer, of |-> account, call |-> call,
           tx |-> 0, reload |-> 0]
    BY DEF Begun, NoWrite
<1>2. s \in WriteType(calls) /\ s.step = "sign"
    BY <1>1 DEF WriteType, WorldInv, Who, isConnected
<1> QED
    BY <1>1, <1>2 DEF WriteInv

LEMMA WriteSent ==
    ASSUME WorldInv, NEW w, NEW calls, WriteInv(w, calls),
           calls \subseteq RegistrationCalls \cup RevocationCalls \cup IssueCalls,
           NEW passes, SendWrite(w, passes), NEW s, s = Waiting(w)
    PROVE  WriteInv(s, calls)' /\ s.step = "mine"
<1>0. w.step = "sign"
    BY DEF SendWrite
<1>1. w \in WriteType(calls) /\ w.by \in Accounts /\ w.call \in calls
    BY <1>0, WriteTypes
<1>2. /\ Len(sent) + 1 \in DOMAIN sent'
      /\ sent'[Len(sent) + 1].from = w.by /\ sent'[Len(sent) + 1].call = w.call
    BY <1>1, SendMoves
<1>3. Len(sent) + 1 \in Nat
    BY DEF WorldInv
<1>4. /\ s \in WriteType(calls) /\ s.call = w.call /\ s.step = "mine"
      /\ s.by = w.by /\ s.tx = Len(sent) + 1
    BY <1>1, <1>3 DEF Waiting, WriteType
<1> QED
    BY <1>2, <1>4 DEF WriteInv

LEMMA WriteReloads ==
    ASSUME NEW w, NEW calls, WriteInv(w, calls), Mined(w), NEW r \in Nat,
           NEW s, s = Reloading(w, r)
    PROVE  /\ WriteInv(s, calls) /\ s.call = w.call /\ s.tx = w.tx /\ s.of = w.of
           /\ s.by = w.by /\ s.step = "reload" /\ s.reload = r
<1>1. w \in WriteType(calls) /\ w.step = "mine" /\ w # NoWrite
    BY WriteTypes, Idle DEF Mined
<1>2. /\ s \in WriteType(calls) /\ s.call = w.call /\ s.tx = w.tx /\ s.of = w.of
      /\ s.by = w.by /\ s.step = "reload" /\ s.reload = r
    BY <1>1 DEF Reloading, WriteType
<1> QED
    BY <1>1, <1>2 DEF WriteInv, Mined

\* What a pipeline holds when it signs.
LEMMA PipelineSigns ==
    ASSUME IssuanceInv, NEW p \in Pipelines, Step(p) = "sign"
    PROVE  /\ pipeline[p] \in PipelineType
           /\ pipeline[p].write.by \in Accounts
           /\ pipeline[p].write.call \in IssueCalls
           /\ pipeline[p].write.call.arg.ipfsCID = pipeline[p].blob
<1>1. PipelineInv(pipeline[p])
    BY DEF IssuanceInv
<1>2. pipeline[p] # NoPipeline
    BY DEF NoPipeline, NoWrite, Step
<1> QED
    BY <1>1, <1>2 DEF PipelineInv, PipelineType, IssueType, IssueCalls, Step

\* Every step keeps the world's invariant and moves it onward only.
LEMMA WorldStep ==
    ASSUME EmployerInv, [EmployerNext]_employerVars
    PROVE  WorldInv' /\ WorldMoves /\ page' = page
<1>0. WorldInv
    BY DEF EmployerInv
<1>1. page' = page
    BY DEF EmployerNext, employerVars
<1>2. CASE Acts
  <2>1. sent' = sent /\ UNCHANGED <<pageVars, registryVars>>
      BY <1>2 DEF Acts, DashboardAct, IssuanceAct, Press, Reopen
  <2> QED
      BY <1>0, <1>1, <2>1, SessionMoves
<1>3. CASE Follows
    BY <1>0, <1>1, <1>3, SessionMoves DEF Follows
<1>4. CASE Goes
  <2>1. UNCHANGED <<pageVars, registryVars>>
      BY <1>4 DEF Goes
  <2>2. CASE RegistrationSent
    <3>1. /\ registering.by \in Accounts /\ registering.call \in RegistrationCalls
        BY <2>2, WriteTypes DEF EmployerInv, RegisteringInv, RegistrationSent, SendWrite
    <3> QED
        BY <1>0, <1>1, <2>1, <2>2, <3>1, SendStep DEF RegistrationSent
  <2>3. CASE RevocationSent
    <3>1. /\ revoking.by \in Accounts /\ revoking.call \in RevocationCalls
        BY <2>3, WriteTypes DEF EmployerInv, RevokingInv, RevocationSent, SendWrite
    <3> QED
        BY <1>0, <1>1, <2>1, <2>3, <3>1, SendStep DEF RevocationSent
  <2>4. CASE \E p \in Pipelines : Sent(p)
    <3>1. PICK p \in Pipelines : Sent(p)
        BY <2>4
    <3>2. Step(p) = "sign"
        BY <3>1 DEF Sent, SendWrite, Step
    <3>3. pipeline[p].write.by \in Accounts /\ pipeline[p].write.call \in IssueCalls
        BY <3>2, PipelineSigns DEF EmployerInv
    <3> QED
        BY <1>0, <1>1, <2>1, <3>1, <3>3, SendStep DEF Sent
  <2>5. CASE sent' = sent
      BY <1>0, <1>1, <2>1, <2>5, SessionMoves
  <2> QED
      BY <1>4, <2>2, <2>3, <2>4, <2>5
         DEF Goes, DashboardStep, IssuanceStep, RegistrationFails, RevocationMined,
             RevocationFails, LoadStep, Uploaded, Prepared, Announced, Failed
<1>5. CASE Chain
    BY <1>0, <1>1, <1>5, MineStep DEF Chain
<1>6. CASE UNCHANGED employerVars
    BY <1>0, <1>1, <1>6, SessionMoves DEF employerVars
<1> QED
    BY <1>1, <1>2, <1>3, <1>4, <1>5, <1>6 DEF EmployerNext

-----------------------------------------------------------------------------
(* The profile.                                                             *)

LEMMA RefreshKept ==
    ASSUME RecordsPersist, NEW r \in RefreshType, RefreshInv(r)
    PROVE  RefreshInv(r)'
BY AccountAssumption DEF RefreshInv, RecordsPersist

LEMMA RefreshesKept ==
    ASSUME ProfileInv, RecordsPersist
    PROVE  \A r \in Refreshes : RefreshInv(refresh[r]) /\ refresh[r] \in RefreshType
           /\ (\A s : s = refresh[r] => RefreshInv(s)')
<1> SUFFICES ASSUME NEW r \in Refreshes, NEW s, s = refresh[r]
             PROVE  RefreshInv(s) /\ s \in RefreshType /\ RefreshInv(s)'
    OBVIOUS
<1>1. s \in RefreshType /\ RefreshInv(s)
    BY DEF ProfileInv
<1> QED
    BY <1>1, RefreshKept

\* A refresh that stands still keeps what it was told.
LEMMA RefreshStill ==
    ASSUME ProfileInv, RecordsPersist, NEW r \in Refreshes, refresh'[r] = refresh[r]
    PROVE  RefreshInv(refresh[r])'
<1>1. PICK s : s = refresh[r]
    OBVIOUS
<1>2. RefreshInv(s)'
    BY <1>1, RefreshesKept
<1> QED
    BY <1>1, <1>2 DEF RefreshInv

LEMMA ProfileStill ==
    ASSUME ProfileInv, RecordsPersist, UNCHANGED profileVars,
           account' = account \/ account' = NoAccount,
           account \in Who
    PROVE  ProfileInv'
<1>1. \A r \in Refreshes : RefreshInv(refresh[r])'
    BY RefreshStill DEF profileVars
<1>2. Refreshing' = Refreshing
    BY DEF Refreshing, profileVars
<1>3. ProfileIsRight'
    BY <1>2, AccountAssumption
       DEF ProfileInv, ProfileIsRight, profileVars, isConnected, RecordsPersist, Who
<1> QED
    BY <1>1, <1>2, <1>3 DEF ProfileInv, profileVars, isConnected

\* A refresh begins.
LEMMA RefreshStarts ==
    ASSUME ProfileInv, RecordsPersist, NEW r, NEW of \in Accounts, StartRefresh(r, of)
    PROVE  /\ ProfileInv'
           /\ r \in Refreshes /\ r \notin Refreshing
           /\ Refreshing' = Refreshing \cup {r}
           /\ refresh'[r].of = of /\ refresh'[r].step = "asked"
           /\ \A q \in Refreshes \ {r} : refresh'[q] = refresh[q]
           /\ ~profileUnsure' => Refreshing = {}
<1>1. /\ r \in Refreshes /\ r \notin Refreshing
      /\ refresh \in [Refreshes -> RefreshType] /\ refresh[r] = NoRefresh
      /\ profileUnsure' = (Refreshing # {} \/ of # account')
      /\ UNCHANGED <<isRegisteredEmployer, employerProfile>>
    BY DEF StartRefresh, FirstFree, Refreshing, ProfileInv, RefreshInv
<1> DEFINE new == [step |-> "asked", of |-> of, answer |-> FALSE]
<1>2. refresh' = [refresh EXCEPT ![r] = new]
  <2>1. refresh' = [refresh EXCEPT ![r] = [refresh[r] EXCEPT !.step = "asked", !.of = of]]
      BY <1>1 DEF StartRefresh, RefreshType
  <2>2. PICK begun : begun = [NoRefresh EXCEPT !.step = "asked", !.of = of]
      OBVIOUS
  <2>3. begun = new
      BY <2>2 DEF NoRefresh
  <2> HIDE DEF new
  <2> QED
      BY <1>1, <2>1, <2>2, <2>3
<1>3. /\ new \in RefreshType /\ new.step = "asked" /\ new.of = of
      /\ RefreshInv(new)'
    BY DEF RefreshType, Who, RefreshInv
<1> HIDE DEF new
<1>4. /\ refresh' \in [Refreshes -> RefreshType] /\ refresh'[r] = new
      /\ \A q \in Refreshes \ {r} : refresh'[q] = refresh[q]
    BY <1>1, <1>2, <1>3
<1>5. Refreshing' = Refreshing \cup {r}
    BY <1>1, <1>3, <1>4 DEF Refreshing
<1>6. ASSUME NEW q \in Refreshes PROVE RefreshInv(refresh[q])'
  <2>1. CASE q = r
      BY <1>3, <1>4, <2>1 DEF RefreshInv
  <2>2. CASE q # r
      BY <1>4, <2>2, RefreshStill
  <2> QED
      BY <2>1, <2>2
<1>7. ~profileUnsure' => Refreshing' = {r} /\ of = account'
    BY <1>1, <1>5
<1>8. ProfileIsRight'
    BY <1>5 DEF ProfileIsRight
<1>9. ProfileInv'
    BY <1>1, <1>3, <1>4, <1>6, <1>7, <1>8 DEF ProfileInv
<1> QED
    BY <1>1, <1>3, <1>4, <1>5, <1>9

\* What a step of a refresh makes of it.
LEMMA RefreshMoves ==
    ASSUME WorldInv, ProfileInv, NEW r \in Refreshes, UNCHANGED registryVars,
           RefreshAnswered(r) \/ RefreshFails(r)
    PROVE  /\ refresh' \in [Refreshes -> RefreshType]
           /\ \A q \in Refreshes \ {r} : refresh'[q] = refresh[q]
           /\ r \in Refreshing /\ refresh[r].of \in Accounts
           /\ refresh'[r].step # "idle" => refresh'[r].of = refresh[r].of
           /\ refresh'[r].step = "told" =>
                 (refresh'[r].answer <=> isEmployerRegistered(refresh[r].of))
           /\ Refreshing' \subseteq Refreshing
           /\ \A q \in Refreshing : q \notin Refreshing' => q = r
           /\ r \in Refreshing' <=> refresh'[r].step # "idle"
           /\ \A q \in Refreshes : RefreshInv(refresh[q])'
           /\ isRegisteredEmployer' \in BOOLEAN /\ employerProfile' \in Who
<1>0. /\ refresh \in [Refreshes -> RefreshType] /\ refresh[r] \in RefreshType
      /\ RefreshInv(refresh[r])
      /\ isRegisteredEmployer \in BOOLEAN /\ employerProfile \in Who
    BY DEF ProfileInv
<1>1. r \in Refreshing /\ refresh[r].step # "idle" /\ refresh[r].of \in Accounts
    BY <1>0
       DEF Refreshing, RefreshAnswered, ReadRegistered, ReceiveRegistered,
           ReceiveProfile, RefreshFails, RefreshInv
<1>2. RecordsPersist
    BY RegistryRests
<1>3. isEmployerRegistered(refresh[r].of) \in BOOLEAN
    BY <1>1, AccountAssumption
       DEF WorldInv, RegistryInv, TypeOK, EmployerProfile, isEmployerRegistered
<1>4. \A w : isEmployerRegistered(w)' = isEmployerRegistered(w)
    BY DEF isEmployerRegistered, registryVars
<1>5. NoRefresh \in RefreshType /\ NoRefresh.step = "idle" /\ RefreshInv(NoRefresh)'
    BY DEF NoRefresh, RefreshType, Who, RefreshInv
<1>6. PICK new \in RefreshType :
         /\ refresh' = [refresh EXCEPT ![r] = new]
         /\ new.step # "idle" => new.of = refresh[r].of
         /\ new.step = "told" => (new.answer <=> isEmployerRegistered(refresh[r].of))
         /\ RefreshInv(new)'
  <2>1. CASE ReadRegistered(r)
    <3>1. PICK b \in BOOLEAN : b = isEmployerRegistered(refresh[r].of)
        BY <1>3
    <3>2. PICK new : new = [refresh[r] EXCEPT !.step = "told", !.answer = b]
        OBVIOUS
    <3>3. /\ new \in RefreshType /\ new.step = "told" /\ new.of = refresh[r].of
          /\ new.answer = b
        BY <1>0, <3>2 DEF RefreshType
    <3>4. refresh' = [refresh EXCEPT ![r] = new]
        BY <1>0, <2>1, <3>1, <3>2 DEF ReadRegistered, RefreshType
    <3>5. RefreshInv(new)'
        BY <1>1, <1>4, <3>1, <3>3 DEF RefreshInv
    <3> QED
        BY <3>1, <3>3, <3>4, <3>5
  <2>2. CASE ReceiveRegistered(r) /\ refresh[r].answer
    <3>1. PICK new : new = [refresh[r] EXCEPT !.step = "profile"]
        OBVIOUS
    <3>2. new \in RefreshType /\ new.step = "profile" /\ new.of = refresh[r].of
        BY <1>0, <3>1 DEF RefreshType
    <3>3. refresh' = [refresh EXCEPT ![r] = new]
        BY <1>0, <2>2, <3>1 DEF ReceiveRegistered, RefreshType
    <3>4. RefreshInv(new)'
        BY <1>0, <1>1, <1>4, <2>2, <3>2 DEF RefreshInv, ReceiveRegistered
    <3> QED
        BY <3>2, <3>3, <3>4
  <2>3. CASE refresh' = [refresh EXCEPT ![r] = NoRefresh]
      BY <1>5, <2>3
  <2> QED
      BY <2>1, <2>2, <2>3
         DEF RefreshAnswered, ReceiveRegistered, ReceiveProfile, RefreshFails
<1>7. /\ refresh' \in [Refreshes -> RefreshType] /\ refresh'[r] = new
      /\ \A q \in Refreshes \ {r} : refresh'[q] = refresh[q]
    BY <1>0, <1>6
<1>8. ASSUME NEW q \in Refreshes PROVE RefreshInv(refresh[q])'
  <2>1. CASE q = r
      BY <1>6, <1>7, <2>1 DEF RefreshInv
  <2>2. CASE q # r
      BY <1>2, <1>7, <2>2, RefreshStill
  <2> QED
      BY <2>1, <2>2
<1>9. isRegisteredEmployer' \in BOOLEAN /\ employerProfile' \in Who
    BY <1>0, <1>1
       DEF RefreshAnswered, ReadRegistered, ReceiveRegistered, ReceiveProfile,
           RefreshFails, RefreshType, Who
<1>10. /\ Refreshing' \subseteq Refreshing
       /\ \A q \in Refreshing : q \notin Refreshing' => q = r
       /\ r \in Refreshing' <=> refresh'[r].step # "idle"
    BY <1>1, <1>7 DEF Refreshing
<1> QED
    BY <1>1, <1>6, <1>7, <1>8, <1>9, <1>10

\* A refresh goes on, ends or fails.
LEMMA RefreshGoes ==
    ASSUME WorldInv, ProfileInv, NEW r \in Refreshes,
           UNCHANGED <<registryVars, account>>,
           RefreshAnswered(r) \/ RefreshFails(r)
    PROVE  ProfileInv'
<1>0. /\ refresh' \in [Refreshes -> RefreshType]
      /\ \A q \in Refreshes \ {r} : refresh'[q] = refresh[q]
      /\ r \in Refreshing /\ refresh[r].of \in Accounts
      /\ refresh'[r].step # "idle" => refresh'[r].of = refresh[r].of
      /\ Refreshing' \subseteq Refreshing
      /\ \A q \in Refreshing : q \notin Refreshing' => q = r
      /\ r \in Refreshing' <=> refresh'[r].step # "idle"
      /\ \A q \in Refreshes : RefreshInv(refresh[q])'
      /\ isRegisteredEmployer' \in BOOLEAN /\ employerProfile' \in Who
    BY RefreshMoves
<1>1. CASE profileUnsure'
    BY <1>0, <1>1 DEF ProfileInv, ProfileIsRight
<1>2. CASE ~profileUnsure'
  <2>1. /\ ~profileUnsure /\ ~RefreshFails(r)
        /\ \A q \in Refreshing : q = r
        /\ \A q, s \in Refreshing' : q = s
      BY <1>0, <1>2
         DEF RefreshAnswered, ReadRegistered, ReceiveRegistered, ReceiveProfile,
             RefreshFails, ProfileInv
  <2>2. RefreshInv(refresh[r]) /\ refresh[r] \in RefreshType
      BY DEF ProfileInv
  <2>3. ASSUME isConnected
        PROVE  /\ \A q \in Refreshing' : refresh'[q].of = account
               /\ r \in Refreshing' /\ refresh'[r].step = "profile" =>
                     isRegisteredEmployer'
               /\ Refreshing' = {} =>
                     /\ employerProfile' \in {NoAccount, account}
                     /\ isRegisteredEmployer' <=> employerProfile' = account
                     /\ isRegisteredEmployer' => isEmployerRegistered(account)
    <3>1. /\ refresh[r].of = account
          /\ refresh[r].step = "profile" => isRegisteredEmployer
        BY <1>0, <2>1, <2>3 DEF ProfileInv
    <3>2. \A q \in Refreshing' : refresh'[q].of = account
        BY <1>0, <2>1, <3>1
    <3>3. CASE ReadRegistered(r)
      <4>1. refresh'[r].step = "told"
          BY <2>2, <3>3 DEF ReadRegistered, ProfileInv, RefreshType
      <4> QED
          BY <1>0, <3>2, <4>1
    <3>4. CASE ReceiveRegistered(r) /\ refresh[r].answer
      <4>1. isRegisteredEmployer' /\ refresh'[r].step = "profile"
          BY <2>2, <3>4 DEF ReceiveRegistered, ProfileInv, RefreshType
      <4> QED
          BY <1>0, <3>2, <4>1
    <3>5. CASE ReceiveRegistered(r) /\ ~refresh[r].answer
      <4>1. /\ ~isRegisteredEmployer' /\ employerProfile' = NoAccount
            /\ refresh'[r].step = "idle"
          BY <3>5 DEF ReceiveRegistered, ProfileInv, NoRefresh
      <4> QED
          BY <1>0, <2>3, <3>2, <4>1 DEF isConnected
    <3>6. CASE ReceiveProfile(r)
      <4>1. /\ isRegisteredEmployer' /\ employerProfile' = account
            /\ refresh'[r].step = "idle"
          BY <3>1, <3>6 DEF ReceiveProfile, ProfileInv, NoRefresh
      <4>2. isEmployerRegistered(account)
          BY <2>2, <3>1, <3>6 DEF ReceiveProfile, RefreshInv
      <4> QED
          BY <1>0, <3>2, <4>1, <4>2
    <3> QED
        BY <2>1, <3>3, <3>4, <3>5, <3>6 DEF RefreshAnswered
  <2>4. isConnected' <=> isConnected
      BY DEF isConnected
  <2>5. isEmployerRegistered(account)' <=> isEmployerRegistered(account)
      BY DEF isEmployerRegistered, registryVars
  <2> QED
      BY <1>0, <2>1, <2>3, <2>4, <2>5 DEF ProfileInv, ProfileIsRight
<1> QED
    BY <1>1, <1>2

\* The session moves, and its effect refreshes the profile.
LEMMA ProfileFollowsSession ==
    ASSUME WorldInv, ProfileInv, RecordsPersist, SessionStep
    PROVE  /\ ProfileInv'
           /\ \/ UNCHANGED <<profileVars, account>>
              \/ /\ account' = NoAccount /\ ~isRegisteredEmployer'
                 /\ refresh' = refresh /\ profileUnsure' = profileUnsure
              \/ /\ account' # account /\ account' \in Accounts
                 /\ isRegisteredEmployer' = isRegisteredEmployer
                 /\ \E r \in Refreshes : StartRefresh(r, account')
<1>1. CASE Forget /\ ProfileForgotten
  <2>1. /\ account' = NoAccount /\ ~isConnected'
        /\ isRegisteredEmployer' = FALSE /\ employerProfile' = NoAccount
        /\ refresh' = refresh /\ profileUnsure' = profileUnsure
      BY <1>1 DEF Forget, ProfileForgotten, isConnected
  <2>2. \A r \in Refreshes : RefreshInv(refresh[r])'
      BY <2>1, RefreshStill
  <2>3. ProfileInv'
      BY <2>1, <2>2 DEF ProfileInv, ProfileIsRight, Refreshing, Who
  <2> QED
      BY <2>1, <2>3
<1>2. CASE \E a \in Accounts : Show(a) /\ ProfileFollows
  <2>1. PICK a \in Accounts : Show(a) /\ ProfileFollows
      BY <1>2
  <2>2. account' = a
      BY <2>1 DEF Show
  <2>3. CASE account' = account
      BY <2>1, <2>3, ProfileStill DEF ProfileFollows, WorldInv
  <2>4. CASE account' # account
    <3>1. PICK r \in Refreshes : StartRefresh(r, account')
        BY <2>1, <2>4 DEF ProfileFollows
    <3>2. ProfileInv'
        BY <2>2, <3>1, RefreshStarts
    <3>3. isRegisteredEmployer' = isRegisteredEmployer
        BY <3>1 DEF StartRefresh
    <3> QED
        BY <2>2, <2>4, <3>1, <3>2, <3>3
  <2> QED
      BY <2>3, <2>4
<1>3. CASE /\ (\E a \in Accounts : Renew(a)) \/ (\E c \in Chains : Move(c))
           /\ UNCHANGED profileVars
  <2>1. account' = account
      BY <1>3 DEF Renew, Move
  <2> QED
      BY <1>3, <2>1, ProfileStill DEF WorldInv
<1> QED
    BY <1>1, <1>2, <1>3 DEF SessionStep

LEMMA ProfileKept ==
    ASSUME EmployerInv, [EmployerNext]_employerVars
    PROVE  ProfileInv'
<1>0. WorldInv /\ ProfileInv /\ WorldInv' /\ RecordsPersist /\ account \in Who
    BY WorldStep DEF EmployerInv, WorldInv, WorldMoves
<1>1. CASE UNCHANGED <<profileVars, account>>
    BY <1>0, <1>1, ProfileStill
<1>2. CASE Acts \/ Chain \/ UNCHANGED employerVars
    BY <1>1, <1>2 DEF Acts, Chain, employerVars, pageVars
<1>3. CASE Follows
    BY <1>0, <1>3, ProfileFollowsSession DEF Follows
<1>4. CASE Goes
  <2>0. UNCHANGED <<registryVars, account>>
      BY <1>4 DEF Goes, pageVars
  <2>1. CASE RegistrationMined
    <3>1. registering.of \in Accounts
        BY <2>1, WriteTypes DEF RegistrationMined, Mined, EmployerInv, RegisteringInv
    <3> QED
        BY <1>0, <2>1, <3>1, RefreshStarts DEF RegistrationMined
  <2>2. CASE \E r \in Refreshes : RefreshAnswered(r) \/ RefreshFails(r)
      BY <1>0, <2>0, <2>2, RefreshGoes
  <2>3. CASE UNCHANGED profileVars
      BY <1>1, <2>0, <2>3
  <2> QED
      BY <1>4, <2>1, <2>2, <2>3 DEF Goes, DashboardStep, RefreshStep
<1> QED
    BY <1>2, <1>3, <1>4 DEF EmployerNext

-----------------------------------------------------------------------------
(* The registration.                                                        *)

\* What has been registered before the reload is registered.
LEMMA RegisteredIs ==
    ASSUME WorldInv, RegisteringInv, Registered
    PROVE  registering.of \in Accounts /\ isEmployerRegistered(registering.of)
<1>1. /\ registering \in WriteType(RegistrationCalls)
      /\ registering.tx \in DOMAIN sent
      /\ sent[registering.tx].call = registering.call
      /\ sent[registering.tx].from = registering.of
      /\ InRegistry(sent[registering.tx])
    BY WriteTypes, Idle DEF RegisteringInv, Registered, WriteInv, InRegistry
<1>2. sent[registering.tx].call.name = "registerEmployer"
    BY <1>1 DEF WriteType, RegistrationCalls
<1>3. Done(sent[registering.tx])
    BY <1>1, TxTypes
<1> QED
    BY <1>1, <1>2, <1>3 DEF Done, WriteType

\* The handler's progress, its reports and what is said of them, in the next
\* state, when the refreshes and the account stand still.
LEMMA RegistrationRests ==
    ASSUME WorldInv, WorldMoves, RegisteringInv, page' = page,
           UNCHANGED <<registeredHere, refresh, profileUnsure>>,
           \/ UNCHANGED <<account, isRegisteredEmployer>>
           \/ account' = NoAccount,
           \/ registering' = registering
           \/ /\ WriteInv(registering, RegistrationCalls)'
              /\ registering'.step # "reload"
              /\ page # "/employer" => registering' = NoWrite
    PROVE  RegisteringInv'
<1>1. WriteInv(registering, RegistrationCalls)'
  <2>1. CASE registering' = registering
    <3>1. PICK w : w = registering
        OBVIOUS
    <3>2. WriteInv(w, RegistrationCalls)'
        BY <3>1, WriteKept DEF RegisteringInv, WorldMoves
    <3> QED
        BY <2>1, <3>1, <3>2 DEF WriteInv
  <2> QED
      BY <2>1
<1>2. Refreshing' = Refreshing
    BY DEF Refreshing
<1>3. /\ registering'.step = "reload" =>
           /\ registering' = registering /\ registering.reload \in Refreshing
           /\ refresh[registering.reload].of = registering.of
      /\ page # "/employer" => registering' = NoWrite /\ registeredHere' = {}
    BY DEF RegisteringInv
<1>4. Registered' => Registered /\ registering' = registering
  <2>1. ASSUME Registered' PROVE Registered
    <3>1. registering' = registering /\ registering.step = "reload"
        BY <1>3, <2>1 DEF Registered
    <3>2. registering.tx \in DOMAIN sent
        BY <3>1, WriteTypes, Idle DEF RegisteringInv, WriteInv
    <3>3. sent'[registering.tx].chain = sent[registering.tx].chain
        BY <3>2 DEF WorldMoves, SentMoves
    <3> QED
        BY <2>1, <3>1, <3>3 DEF Registered
  <2> QED
      BY <1>3, <2>1 DEF Registered
<1>5. /\ registeredHere' \subseteq Accounts
      /\ \A a \in registeredHere' : isEmployerRegistered(a)'
    BY AccountAssumption DEF RegisteringInv, WorldMoves, RecordsPersist
<1>6. RegistrationIsShown'
    BY <1>2, <1>5, PageAssumption
       DEF RegisteringInv, RegistrationIsShown, DashboardShown, isConnected
<1> QED
    BY <1>1, <1>2, <1>3, <1>4, <1>5, <1>6 DEF RegisteringInv

\* A refresh begins: the session's, or the one the handler awaits.
LEMMA RegistrationStarts ==
    ASSUME WorldInv, WorldMoves, ProfileInv, RegisteringInv, page' = page,
           NEW r, NEW of \in Accounts, StartRefresh(r, of),
           registeredHere' = registeredHere,
           \/ registering' = registering
           \/ /\ Mined(registering) /\ of = registering.of /\ page = "/employer"
              /\ registering' = Reloading(registering, r)
    PROVE  RegisteringInv'
<1>1. /\ r \in Refreshes /\ r \notin Refreshing
      /\ Refreshing' = Refreshing \cup {r}
      /\ refresh'[r].of = of /\ refresh'[r].step = "asked"
      /\ \A q \in Refreshes \ {r} : refresh'[q] = refresh[q]
      /\ ~profileUnsure' => Refreshing = {}
    BY RefreshStarts DEF WorldMoves
<1>2. /\ WriteInv(registering, RegistrationCalls)'
      /\ registering'.step = "reload" =>
            /\ registering'.reload \in Refreshing'
            /\ refresh'[registering'.reload].of = registering'.of
      /\ Registered' /\ refresh'[registering'.reload].step = "told" =>
            refresh'[registering'.reload].answer
      /\ page # "/employer" => registering' = NoWrite /\ registeredHere' = {}
  <2>1. CASE registering' = registering
    <3>1. PICK w : w = registering
        OBVIOUS
    <3>2. WriteInv(w, RegistrationCalls)'
        BY <3>1, WriteKept DEF RegisteringInv, WorldMoves
    <3>3. registering.step = "reload" =>
             /\ registering.reload \in Refreshing
             /\ refresh'[registering.reload] = refresh[registering.reload]
        BY <1>1 DEF RegisteringInv, Refreshing
    <3>4. Registered' => Registered
      <4>1. registering.step = "reload" => registering.tx \in DOMAIN sent
          BY WriteTypes, Idle DEF RegisteringInv, WriteInv
      <4> QED
          BY <2>1, <4>1 DEF Registered, WorldMoves, SentMoves
    <3>5. WriteInv(registering, RegistrationCalls)'
        BY <2>1, <3>1, <3>2 DEF WriteInv
    <3>6. registering'.step = "reload" =>
             /\ registering'.reload \in Refreshing'
             /\ refresh'[registering'.reload].of = registering'.of
        BY <1>1, <2>1, <3>3 DEF RegisteringInv
    <3>7. Registered' /\ refresh'[registering'.reload].step = "told" =>
             refresh'[registering'.reload].answer
        BY <2>1, <3>3, <3>4 DEF RegisteringInv, Registered
    <3>8. page # "/employer" => registering' = NoWrite /\ registeredHere' = {}
        BY <2>1 DEF RegisteringInv
    <3> QED
        BY <3>5, <3>6, <3>7, <3>8
  <2>2. CASE /\ Mined(registering) /\ of = registering.of /\ page = "/employer"
             /\ registering' = Reloading(registering, r)
    <3>1. PICK w : w = Reloading(registering, r)
        OBVIOUS
    <3>2. /\ WriteInv(w, RegistrationCalls) /\ w.of = registering.of
          /\ w.step = "reload" /\ w.reload = r
      <4>1. r \in Nat
          BY <1>1, RefreshAssumption
      <4> QED
          BY <2>2, <3>1, <4>1, WriteReloads DEF RegisteringInv
    <3>3. WriteInv(w, RegistrationCalls)'
        BY <3>2, WriteKept DEF WorldMoves
    <3>4. WriteInv(registering, RegistrationCalls)'
        BY <2>2, <3>1, <3>3 DEF WriteInv
    <3> QED
        BY <1>1, <2>2, <3>1, <3>2, <3>4
  <2> QED
      BY <2>1, <2>2
<1>3. /\ registeredHere' \subseteq Accounts
      /\ \A a \in registeredHere' : isEmployerRegistered(a)'
    BY AccountAssumption DEF RegisteringInv, WorldMoves, RecordsPersist
<1>4. ~profileUnsure' => \A q \in Refreshing' : refresh'[q].step = "asked"
    BY <1>1
<1>5. RegistrationIsShown'
    BY <1>1 DEF RegistrationIsShown
<1> QED
    BY <1>2, <1>3, <1>4, <1>5 DEF RegisteringInv

\* A refresh goes on, and ends the handler that awaits it.
LEMMA RegistrationGoes ==
    ASSUME WorldInv, WorldMoves, ProfileInv, RegisteringInv, page' = page,
           UNCHANGED <<registryVars, account, sent>>, NEW r \in Refreshes,
           RefreshAnswered(r) \/ RefreshFails(r),
           IF /\ registering.step = "reload" /\ registering.reload = r
              /\ refresh'[r].step = "idle"
           THEN /\ registering' = NoWrite
                /\ registeredHere' = registeredHere \cup
                     (IF /\ sent[registering.tx].chain = RegistryChain
                         /\ registering.by = registering.of
                      THEN {registering.of} ELSE {})
           ELSE UNCHANGED <<registering, registeredHere>>
    PROVE  RegisteringInv'
<1> DEFINE ends == /\ registering.step = "reload" /\ registering.reload = r
                   /\ refresh'[r].step = "idle"
<1>1. /\ refresh' \in [Refreshes -> RefreshType]
      /\ \A q \in Refreshes \ {r} : refresh'[q] = refresh[q]
      /\ r \in Refreshing /\ refresh[r].of \in Accounts
      /\ refresh'[r].step # "idle" => refresh'[r].of = refresh[r].of
      /\ refresh'[r].step = "told" =>
            (refresh'[r].answer <=> isEmployerRegistered(refresh[r].of))
      /\ Refreshing' \subseteq Refreshing
      /\ \A q \in Refreshing : q \notin Refreshing' => q = r
      /\ r \in Refreshing' <=> refresh'[r].step # "idle"
    BY RefreshMoves
<1>2. /\ WriteInv(registering, RegistrationCalls)'
      /\ page # "/employer" => registering' = NoWrite /\ registeredHere' = {}
  <2>1. CASE ends
      BY <2>1, Idle DEF WriteInv, RegisteringInv, NoWrite
  <2>2. CASE ~ends
    <3>1. PICK w : w = registering
        OBVIOUS
    <3>2. WriteInv(w, RegistrationCalls)'
        BY <3>1, WriteKept DEF RegisteringInv, WorldMoves
    <3> QED
        BY <2>2, <3>1, <3>2 DEF WriteInv, RegisteringInv
  <2> QED
      BY <2>1, <2>2
<1>3. ASSUME registering'.step = "reload"
      PROVE  /\ registering' = registering /\ ~ends
             /\ registering.reload \in Refreshing'
             /\ refresh'[registering.reload].of = registering.of
             /\ \/ refresh'[registering.reload] = refresh[registering.reload]
                \/ registering.reload = r
  <2>1. registering' = registering /\ ~ends
      BY <1>3, Idle
  <2>2. /\ registering.reload \in Refreshing
        /\ refresh[registering.reload].of = registering.of
      BY <1>3, <2>1 DEF RegisteringInv
  <2>3. registering.reload = r => refresh'[r].step # "idle"
      BY <1>3, <2>1
  <2> QED
      BY <1>1, <2>1, <2>2, <2>3 DEF Refreshing
<1>4. ASSUME Registered', refresh'[registering'.reload].step = "told"
      PROVE  refresh'[registering'.reload].answer
  <2>1. registering' = registering /\ Registered
      BY <1>3, <1>4 DEF Registered
  <2>2. CASE registering.reload = r
    <3>1. isEmployerRegistered(registering.of)
        BY <2>1, RegisteredIs
    <3>2. refresh[r].of = registering.of
        BY <2>1, <2>2 DEF RegisteringInv, Registered
    <3> QED
        BY <1>1, <1>4, <2>1, <2>2, <3>1, <3>2
  <2>3. CASE registering.reload # r
    <3>1. refresh'[registering.reload] = refresh[registering.reload]
        BY <1>3, <1>4, <2>3 DEF Registered
    <3> QED
        BY <1>4, <2>1, <3>1 DEF RegisteringInv
  <2> QED
      BY <2>2, <2>3
<1>5. /\ registeredHere' \subseteq Accounts
      /\ \A a \in registeredHere' : isEmployerRegistered(a)
      /\ \A a \in registeredHere' :
            \/ a \in registeredHere
            \/ Registered /\ ends /\ a = registering.of
  <2>1. registeredHere \subseteq Accounts
        /\ \A a \in registeredHere : isEmployerRegistered(a)
      BY DEF RegisteringInv
  <2>2. CASE Registered /\ ends
      BY <2>1, <2>2, RegisteredIs DEF Registered
  <2>3. CASE ~(Registered /\ ends)
      BY <2>1, <2>3 DEF Registered
  <2> QED
      BY <2>2, <2>3
<1>6. \A a : isEmployerRegistered(a)' = isEmployerRegistered(a)
    BY DEF isEmployerRegistered, registryVars
<1>7. ~profileUnsure' => /\ ~profileUnsure /\ ~RefreshFails(r)
                         /\ \A q \in Refreshing : q = r
    BY <1>1
       DEF RefreshAnswered, ReadRegistered, ReceiveRegistered, ReceiveProfile,
           RefreshFails, ProfileInv
<1>8. ASSUME ~profileUnsure', NEW q \in Refreshing',
             refresh'[q].step = "told", refresh'[q].of \in registeredHere'
      PROVE  refresh'[q].answer
    BY <1>1, <1>5, <1>7, <1>8
<1>9. RegistrationIsShown'
  <2> SUFFICES ASSUME account \in registeredHere', Refreshing' = {}, ~profileUnsure'
               PROVE  isConnected /\ isRegisteredEmployer'
      BY DEF RegistrationIsShown, DashboardShown, isConnected
  <2>1. /\ isConnected /\ refresh[r].of = account
        /\ refresh[r].step = "profile" => isRegisteredEmployer
      BY <1>1, <1>5, <1>7, PageAssumption DEF ProfileInv, isConnected
  <2>2. refresh[r].step = "told" => refresh[r].answer
    <3>1. CASE account \in registeredHere
        BY <1>1, <1>7, <2>1, <3>1 DEF RegisteringInv
    <3>2. CASE Registered /\ ends
        BY <3>2 DEF RegisteringInv
    <3> QED
        BY <1>5, <3>1, <3>2
  <2>3. refresh'[r].step = "idle"
      BY <1>1
  <2>4. refresh \in [Refreshes -> RefreshType]
      BY DEF ProfileInv
  <2>5. ~ReadRegistered(r)
      BY <2>3, <2>4 DEF ReadRegistered, RefreshType
  <2> QED
      BY <1>7, <2>1, <2>2, <2>3, <2>5
         DEF RefreshAnswered, ReceiveRegistered, ReceiveProfile
<1> QED
    BY <1>2, <1>3, <1>4, <1>5, <1>6, <1>8, <1>9 DEF RegisteringInv

LEMMA RegisteringKept ==
    ASSUME EmployerInv, [EmployerNext]_employerVars
    PROVE  RegisteringInv'
<1>0. /\ WorldInv /\ WorldInv' /\ WorldMoves /\ ProfileInv /\ RegisteringInv
      /\ page' = page /\ RecordsPersist
    BY WorldStep DEF EmployerInv, WorldMoves
<1>1. CASE UNCHANGED <<registering, registeredHere, profileVars, account>>
    BY <1>0, <1>1, RegistrationRests DEF profileVars
<1>2. CASE Acts
  <2>0. UNCHANGED <<account, profileVars>>
      BY <1>2 DEF Acts, pageVars
  <2>1. CASE page = "/employer" /\ \E name \in EmployerNames : SubmitRegistration(name)
    <3>1. PICK name \in EmployerNames : SubmitRegistration(name)
        BY <2>1
    <3>2. PICK s : s = Begun(Call("registerEmployer", name))
        OBVIOUS
    <3>3. Call("registerEmployer", name) \in RegistrationCalls
        BY DEF Call, RegistrationCalls
    <3>4. WriteInv(s, RegistrationCalls) /\ s.step = "sign"
        BY <1>0, <3>1, <3>2, <3>3, WriteBegun
           DEF SubmitRegistration, RegistrationShown
    <3>5. WriteInv(s, RegistrationCalls)'
        BY <1>0, <3>4, WriteKept DEF WorldMoves
    <3>6. registering' = s /\ registeredHere' = registeredHere
        BY <3>1, <3>2 DEF SubmitRegistration
    <3>7. WriteInv(registering, RegistrationCalls)'
        BY <3>5, <3>6 DEF WriteInv
    <3> QED
        BY <1>0, <2>0, <2>1, <3>4, <3>6, <3>7, RegistrationRests DEF profileVars
  <2>2. CASE UNCHANGED <<registering, registeredHere>>
      BY <1>1, <2>0, <2>2
  <2> QED
      BY <1>2, <2>1, <2>2
         DEF Acts, DashboardAct, RefreshList, CloseDialogue, ConfirmRevocation,
             OpenDialogue, dashboardVars
<1>3. CASE Follows
  <2>1. UNCHANGED <<registering, registeredHere>>
      BY <1>3 DEF Follows, DashboardFollows, dashboardVars
  <2>2. \/ UNCHANGED <<profileVars, account>>
        \/ account' = NoAccount /\ refresh' = refresh /\ profileUnsure' = profileUnsure
        \/ account' \in Accounts /\ \E r \in Refreshes : StartRefresh(r, account')
      BY <1>0, <1>3, ProfileFollowsSession DEF Follows
  <2>3. CASE UNCHANGED <<profileVars, account>>
      BY <1>1, <2>1, <2>3
  <2>4. CASE account' = NoAccount /\ refresh' = refresh /\ profileUnsure' = profileUnsure
      BY <1>0, <2>1, <2>4, RegistrationRests
  <2>5. CASE account' \in Accounts /\ \E r \in Refreshes : StartRefresh(r, account')
      BY <1>0, <2>1, <2>5, RegistrationStarts
  <2> QED
      BY <2>2, <2>3, <2>4, <2>5
<1>4. CASE Goes
  <2>0. UNCHANGED <<registryVars, account>>
      BY <1>4 DEF Goes, pageVars
  <2>1. CASE page = "/employer" /\ RegistrationSent /\ UNCHANGED profileVars
    <3>1. PICK s : s = Waiting(registering)
        OBVIOUS
    <3>2. WriteInv(s, RegistrationCalls)' /\ s.step = "mine"
        BY <1>0, <2>1, <3>1, WriteSent DEF RegistrationSent, RegisteringInv
    <3>3. registering' = s /\ registeredHere' = registeredHere
        BY <2>1, <3>1 DEF RegistrationSent
    <3>4. WriteInv(registering, RegistrationCalls)'
        BY <3>2, <3>3 DEF WriteInv
    <3> QED
        BY <1>0, <2>0, <2>1, <3>2, <3>3, <3>4, RegistrationRests DEF profileVars
  <2>2. CASE page = "/employer" /\ RegistrationMined
    <3>1. /\ registering.of \in Accounts /\ registeredHere' = registeredHere
          /\ Mined(registering)
        BY <1>0, <2>2, WriteTypes DEF RegistrationMined, Mined, RegisteringInv
    <3>2. PICK r \in Refreshes : /\ StartRefresh(r, registering.of)
                                 /\ registering' = Reloading(registering, r)
        BY <2>2 DEF RegistrationMined
    <3> QED
        BY <1>0, <2>2, <3>1, <3>2, RegistrationStarts
  <2>3. CASE RegistrationFails /\ UNCHANGED profileVars
    <3>1. registering' = NoWrite /\ registeredHere' = registeredHere
        BY <2>3 DEF RegistrationFails
    <3>2. WriteInv(registering, RegistrationCalls)'
        BY <3>1 DEF WriteInv
    <3> QED
        BY <1>0, <2>0, <2>3, <3>1, <3>2, Idle, RegistrationRests DEF profileVars
  <2>4. CASE \E r \in Refreshes : RefreshStep(r) /\ UNCHANGED sent
      BY <1>0, <2>0, <2>4, RegistrationGoes DEF RefreshStep
  <2>5. CASE /\ page = "/employer/create"
             /\ \E r \in Refreshes : RefreshAnswered(r) \/ RefreshFails(r)
             /\ UNCHANGED <<sent, dashboardVars>>
    <3>1. registering.step # "reload" /\ UNCHANGED <<registering, registeredHere>>
        BY <1>0, <2>5, Idle DEF RegisteringInv, dashboardVars
    <3> QED
        BY <1>0, <2>0, <2>5, <3>1, RegistrationGoes
  <2>6. CASE UNCHANGED <<registering, registeredHere, profileVars>>
      BY <1>1, <2>0, <2>6
  <2> QED
      BY <1>4, <2>1, <2>2, <2>3, <2>4, <2>5, <2>6
         DEF Goes, DashboardStep, RevocationSent, RevocationMined, RevocationFails,
             LoadStep, dashboardVars
<1>5. CASE Chain \/ UNCHANGED employerVars
    BY <1>1, <1>5 DEF Chain, employerVars, pageVars, dashboardVars
<1> QED
    BY <1>2, <1>3, <1>4, <1>5 DEF EmployerNext

-----------------------------------------------------------------------------
(* The list.                                                                *)

LEMMA LoadKept ==
    ASSUME WorldInv, RecordsPersist, NEW r \in LoadType, LoadInv(r)
    PROVE  LoadInv(r)'
<1>1. ASSUME r.of \in Accounts, NEW a \in AttestationIds, attestations[a].employer = r.of
      PROVE  attestations'[a].employer = r.of
    BY <1>1, IssuedExists DEF RecordsPersist
<1>2. r.step = "idle" => r.todo = {} /\ r.rows = {}
    BY DEF LoadInv, NoLoad
<1>3. \A a \in r.todo : attestations'[a].employer = r.of
    BY <1>1, <1>2 DEF LoadInv, LoadType
<1>4. \A row \in r.rows : attestations'[row.id].employer = r.of
    BY <1>1, <1>2 DEF LoadInv, LoadType, Row
<1> QED
    BY <1>3, <1>4 DEF LoadInv

\* A load that stands still has read what is so.
LEMMA LoadStill ==
    ASSUME WorldInv, ListInv, RecordsPersist, NEW l \in Loads, load'[l] = load[l]
    PROVE  LoadInv(load[l])'
<1>1. PICK r : r = load[l]
    OBVIOUS
<1>2. r \in LoadType /\ LoadInv(r)
    BY <1>1 DEF ListInv
<1>3. LoadInv(r)'
    BY <1>2, LoadKept
<1> QED
    BY <1>1, <1>3 DEF LoadInv

\* Whether a load finds an attestation is the same while it stands still.
LEMMA FindsKept ==
    ASSUME RecordsPersist, NEW r, NEW a \in AttestationIds, Exists(a), Finds(r, a)
    PROVE  Finds(r, a)'
BY DEF Finds, RecordsPersist

\* The list and the account shown stand still.
LEMMA ListStill ==
    ASSUME WorldInv, RecordsPersist, ListInv, RevokingInv, page' = page,
           UNCHANGED <<load, shownList, listUnsure, revokedHere>>,
           \/ page # "/employer"
           \/ DashboardShown' => UNCHANGED <<account, isRegisteredEmployer>>
    PROVE  ListInv'
<1>1. \A l \in Loads : LoadInv(load[l])'
    BY LoadStill
<1>2. Loading' = Loading
    BY DEF Loading
<1>3. page # "/employer" => Loading = {} /\ shownList = {} /\ revokedHere = {}
    BY DEF ListInv, RevokingInv
<1>4. ASSUME DashboardShown', page = "/employer"
      PROVE  UNCHANGED <<account, isRegisteredEmployer>> /\ DashboardShown
    BY <1>4 DEF DashboardShown, isConnected
<1>5. ~listUnsure' /\ DashboardShown' => \A l \in Loading' : load'[l].of = account'
    BY <1>2, <1>3, <1>4 DEF ListInv
<1>6. ListIsRight'
  <2> SUFFICES ASSUME DashboardShown', Loading = {}, ~listUnsure
               PROVE  /\ \A row \in shownList : attestations'[row.id].employer = account'
                      /\ \A a \in revokedHere :
                            attestations'[a].employer = account' =>
                               [id |-> a, status |-> "REVOKED"] \in shownList
      BY <1>2 DEF ListIsRight
  <2>1. CASE page # "/employer"
      BY <1>3, <2>1
  <2>2. CASE page = "/employer"
    <3>1. account' = account /\ account \in Accounts /\ DashboardShown
        BY <1>4, <2>2 DEF DashboardShown, isConnected, WorldInv, Who
    <3>2. ASSUME NEW row \in shownList
          PROVE  attestations'[row.id].employer = account'
      <4>1. row.id \in AttestationIds /\ attestations[row.id].employer = account
          BY <3>1, <3>2 DEF ListInv, ListIsRight, Row
      <4> QED
          BY <3>1, <4>1, IssuedExists DEF RecordsPersist
    <3>3. ASSUME NEW a \in revokedHere, attestations'[a].employer = account'
          PROVE  [id |-> a, status |-> "REVOKED"] \in shownList
      <4>1. a \in AttestationIds /\ Exists(a)
          BY <3>3 DEF RevokingInv
      <4>2. attestations[a].employer = account
          BY <3>1, <3>3, <4>1 DEF RecordsPersist
      <4> QED
          BY <3>1, <4>2 DEF ListInv, ListIsRight
    <3> QED
        BY <3>2, <3>3
  <2> QED
      BY <2>1, <2>2
<1> QED
    BY <1>1, <1>2, <1>3, <1>5, <1>6 DEF ListInv

\* A load begins.
LEMMA LoadStarts ==
    ASSUME WorldInv, RecordsPersist, ListInv, page' = page, page = "/employer",
           NEW l, NEW of \in Accounts, StartLoad(l, of)
    PROVE  /\ ListInv'
           /\ l \in Loads /\ l \notin Loading
           /\ Loading' = Loading \cup {l}
           /\ load'[l].step = "ids"
           /\ \A m \in Loads \ {l} : load'[m] = load[m]
           /\ ~listUnsure' => Loading = {}
<1>1. /\ l \in Loads /\ l \notin Loading
      /\ load \in [Loads -> LoadType] /\ load[l] = NoLoad
      /\ listUnsure' = (Loading # {} \/ of # account')
      /\ shownList' = shownList
    BY DEF StartLoad, FirstFree, Loading, ListInv, LoadInv
<1> DEFINE new == [step |-> "ids", of |-> of, todo |-> {}, rows |-> {}]
<1>2. load' = [load EXCEPT ![l] = new]
  <2>1. load' = [load EXCEPT ![l] = [load[l] EXCEPT !.step = "ids", !.of = of]]
      BY <1>1 DEF StartLoad, LoadType
  <2>2. PICK begun : begun = [NoLoad EXCEPT !.step = "ids", !.of = of]
      OBVIOUS
  <2>3. begun = new
      BY <2>2 DEF NoLoad
  <2> HIDE DEF new
  <2> QED
      BY <1>1, <2>1, <2>2, <2>3
<1>3. /\ new \in LoadType /\ new.step = "ids" /\ new.of = of
      /\ LoadInv(new)'
    BY DEF LoadType, Who, LoadInv
<1> HIDE DEF new
<1>4. /\ load' \in [Loads -> LoadType] /\ load'[l] = new
      /\ \A m \in Loads \ {l} : load'[m] = load[m]
    BY <1>1, <1>2, <1>3
<1>5. Loading' = Loading \cup {l}
    BY <1>1, <1>3, <1>4 DEF Loading
<1>6. ASSUME NEW m \in Loads PROVE LoadInv(load[m])'
  <2>1. CASE m = l
      BY <1>3, <1>4, <2>1 DEF LoadInv
  <2>2. CASE m # l
      BY <1>4, <2>2, LoadStill
  <2> QED
      BY <2>1, <2>2
<1>7. ~listUnsure' => Loading' = {l} /\ of = account'
    BY <1>1, <1>5
<1>8. ListIsRight'
    BY <1>5 DEF ListIsRight
<1>9. ListInv'
    BY <1>1, <1>3, <1>4, <1>6, <1>7, <1>8 DEF ListInv
<1> QED
    BY <1>1, <1>3, <1>4, <1>5, <1>9

\* What a step of a load makes of it; what it was to find, it finds.
LEMMA LoadMoves ==
    ASSUME WorldInv, ListInv, NEW l \in Loads, UNCHANGED registryVars,
           ReadIds(l) \/ ReadRow(l) \/ LoadDone(l) \/ LoadFails(l)
    PROVE  /\ load' \in [Loads -> LoadType] /\ shownList' \subseteq Row
           /\ \A m \in Loads \ {l} : load'[m] = load[m]
           /\ l \in Loading /\ load[l].of \in Accounts
           /\ load'[l].step # "idle" => load'[l].of = load[l].of
           /\ Loading' \subseteq Loading
           /\ \A m \in Loading : m \notin Loading' => m = l
           /\ l \in Loading' <=> load'[l].step # "idle"
           /\ \A m \in Loads : LoadInv(load[m])'
           /\ \A a \in AttestationIds :
                 Exists(a) /\ Revoked(a) /\ Finds(load[l], a) => Finds(load'[l], a)
<1>0. /\ load \in [Loads -> LoadType] /\ load[l] \in LoadType
      /\ LoadInv(load[l]) /\ shownList \subseteq Row
    BY DEF ListInv
<1>1. l \in Loading /\ load[l].step # "idle" /\ load[l].of \in Accounts
    BY <1>0 DEF Loading, ReadIds, ReadRow, LoadDone, LoadFails, LoadInv
<1>2. RecordsPersist
    BY RegistryRests
<1>3. \A a : attestations'[a] = attestations[a]
    BY DEF registryVars, attestationVars
<1>4. attestations \in [AttestationIds -> Attestation]
    BY DEF WorldInv, RegistryInv, TypeOK
<1>5. NoLoad \in LoadType /\ NoLoad.step = "idle" /\ LoadInv(NoLoad)'
    BY DEF NoLoad, LoadType, Who, LoadInv
<1>6. PICK new \in LoadType :
         /\ load' = [load EXCEPT ![l] = new]
         /\ new.step # "idle" => new.of = load[l].of
         /\ LoadInv(new)'
         /\ \A a \in AttestationIds :
               Exists(a) /\ Revoked(a) /\ Finds(load[l], a) => Finds(new, a)
  <2>1. CASE ReadIds(l)
    <3> DEFINE ids == {a \in AttestationIds :
                         Exists(a) /\ attestations[a].employer = load[l].of}
    <3>1. PICK new : new = [load[l] EXCEPT !.step = "rows", !.todo = ids]
        OBVIOUS
    <3>2. /\ new \in LoadType /\ new.step = "rows" /\ new.of = load[l].of
          /\ new.todo = ids /\ new.rows = load[l].rows
        BY <1>0, <3>1 DEF LoadType
    <3>3. load' = [load EXCEPT ![l] = new]
        BY <1>0, <2>1, <3>1 DEF ReadIds, LoadType
    <3>4. LoadInv(new)'
        BY <1>0, <1>1, <1>3, <2>1, <3>2 DEF LoadInv, ReadIds
    <3>5. \A a \in AttestationIds : Exists(a) => Finds(new, a)
        BY <3>2 DEF Finds
    <3> QED
        BY <3>2, <3>3, <3>4, <3>5
  <2>2. CASE ReadRow(l)
    <3>1. PICK a \in load[l].todo :
             load' = [load EXCEPT ![l].todo = @ \ {a},
                ![l].rows = @ \cup {[id |-> a, status |-> attestations[a].status]}]
        BY <2>2 DEF ReadRow
    <3>2. PICK row : row = [id |-> a, status |-> attestations[a].status]
        OBVIOUS
    <3>3. a \in AttestationIds /\ row \in Row /\ row.id = a
          /\ (Revoked(a) => row = RevokedRow(a))
          /\ attestations[a].employer = load[l].of
        BY <1>0, <1>4, <3>2 DEF LoadType, Row, Attestation, Revoked, RevokedRow, LoadInv
    <3>4. PICK new : new = [load[l] EXCEPT !.todo = load[l].todo \ {a},
                                          !.rows = load[l].rows \cup {row}]
        OBVIOUS
    <3>5. /\ new \in LoadType /\ new.step = load[l].step /\ new.of = load[l].of
          /\ new.todo = load[l].todo \ {a} /\ new.rows = load[l].rows \cup {row}
        BY <1>0, <3>3, <3>4 DEF LoadType
    <3>6. load' = [load EXCEPT ![l] = new]
        BY <1>0, <3>1, <3>2, <3>4 DEF LoadType
    <3>7. LoadInv(new)'
        BY <1>0, <1>1, <1>3, <2>2, <3>3, <3>5 DEF LoadInv, ReadRow
    <3>8. \A b \in AttestationIds :
             Exists(b) /\ Revoked(b) /\ Finds(load[l], b) => Finds(new, b)
        BY <3>3, <3>5 DEF Finds
    <3> QED
        BY <3>5, <3>6, <3>7, <3>8
  <2>3. CASE load' = [load EXCEPT ![l] = NoLoad]
    <3>1. \A a : Finds(NoLoad, a)
        BY DEF Finds, NoLoad
    <3> QED
        BY <1>5, <2>3, <3>1
  <2> QED
      BY <2>1, <2>2, <2>3 DEF LoadDone, LoadFails
<1>7. /\ load' \in [Loads -> LoadType] /\ load'[l] = new
      /\ \A m \in Loads \ {l} : load'[m] = load[m]
    BY <1>0, <1>6
<1>8. ASSUME NEW m \in Loads PROVE LoadInv(load[m])'
  <2>1. CASE m = l
      BY <1>6, <1>7, <2>1 DEF LoadInv
  <2>2. CASE m # l
      BY <1>2, <1>7, <2>2, LoadStill
  <2> QED
      BY <2>1, <2>2
<1>9. shownList' \subseteq Row
    BY <1>0 DEF ReadIds, ReadRow, LoadDone, LoadFails, LoadType
<1>10. /\ Loading' \subseteq Loading
       /\ \A m \in Loading : m \notin Loading' => m = l
       /\ l \in Loading' <=> load'[l].step # "idle"
    BY <1>1, <1>7 DEF Loading
<1> QED
    BY <1>1, <1>6, <1>7, <1>8, <1>9, <1>10

\* A load goes on; a revocation reported with its end is in the list it shows.
LEMMA LoadGoes ==
    ASSUME WorldInv, ListInv, RevokingInv, page' = page, NEW l \in Loads, LoadStep(l),
           UNCHANGED <<registryVars, account, isRegisteredEmployer>>
    PROVE  ListInv'
<1>0. /\ load' \in [Loads -> LoadType] /\ shownList' \subseteq Row
      /\ \A m \in Loads \ {l} : load'[m] = load[m]
      /\ l \in Loading /\ load[l].of \in Accounts
      /\ load'[l].step # "idle" => load'[l].of = load[l].of
      /\ Loading' \subseteq Loading
      /\ \A m \in Loading : m \notin Loading' => m = l
      /\ l \in Loading' <=> load'[l].step # "idle"
      /\ \A m \in Loads : LoadInv(load[m])'
    BY LoadMoves DEF LoadStep
<1>1. page = "/employer"
    BY <1>0 DEF ListInv
<1>2. CASE listUnsure'
    BY <1>0, <1>1, <1>2 DEF ListInv, ListIsRight
<1>3. CASE ~listUnsure'
  <2>1. /\ ~listUnsure /\ ~LoadFails(l)
        /\ \A m \in Loading : m = l
        /\ \A m, n \in Loading' : m = n
      BY <1>0, <1>3
         DEF LoadStep, ReadIds, ReadRow, LoadDone, LoadFails, ListInv
  <2>2. DashboardShown' <=> DashboardShown
      BY DEF DashboardShown, isConnected
  <2>3. DashboardShown => \A m \in Loading' : load'[m].of = account
      BY <1>0, <2>1 DEF ListInv
  <2>4. ListIsRight'
    <3> SUFFICES ASSUME DashboardShown, Loading' = {}
                 PROVE  /\ \A row \in shownList' : attestations[row.id].employer = account
                        /\ \A a \in revokedHere' :
                              attestations[a].employer = account =>
                                 [id |-> a, status |-> "REVOKED"] \in shownList'
        BY <2>2 DEF ListIsRight, registryVars, attestationVars
    <3>1. load'[l].step = "idle" /\ load[l].of = account
        BY <1>0, <2>1 DEF ListInv
    <3>2. LoadDone(l)
        BY <2>1, <3>1 DEF LoadStep, ReadIds, ReadRow, ListInv, LoadType
    <3>3. /\ load[l].step = "rows" /\ load[l].todo = {}
          /\ shownList' = load[l].rows
        BY <3>2 DEF LoadDone
    <3>4. \A row \in shownList' : attestations[row.id].employer = account
        BY <3>1, <3>3 DEF ListInv, LoadInv
    <3>5. ASSUME NEW a \in revokedHere', attestations[a].employer = account
          PROVE  RevokedRow(a) \in shownList'
      <4>1. Finds(load[l], a)
        <5>1. CASE a \in revokedHere
            BY <1>0, <2>1, <5>1 DEF RevokingInv
        <5>2. CASE a \notin revokedHere
          <6>1. HasRevoked /\ revoking.reload = l /\ a = revoking.call.arg
              BY <3>5, <5>2 DEF LoadStep, HasRevoked
          <6> QED
              BY <6>1 DEF RevokingInv
        <5> QED
            BY <5>1, <5>2
      <4> QED
          BY <3>1, <3>3, <3>5, <4>1 DEF Finds
    <3> QED
        BY <3>4, <3>5 DEF RevokedRow
  <2> QED
      BY <1>0, <1>1, <2>1, <2>2, <2>3, <2>4 DEF ListInv
<1> QED
    BY <1>2, <1>3

LEMMA ListKept ==
    ASSUME EmployerInv, [EmployerNext]_employerVars
    PROVE  ListInv'
<1>0. /\ WorldInv /\ WorldMoves /\ RecordsPersist /\ ProfileInv /\ ListInv
      /\ RevokingInv /\ page' = page /\ account \in Who
      /\ isRegisteredEmployer \in BOOLEAN /\ ProfileInv'
    BY WorldStep, ProfileKept DEF EmployerInv, WorldMoves, ProfileInv, WorldInv
<1>1. CASE UNCHANGED <<listVars, revokedHere, account, isRegisteredEmployer>>
    BY <1>0, <1>1, ListStill DEF listVars
<1>2. CASE page # "/employer" /\ UNCHANGED dashboardVars
    BY <1>0, <1>2, ListStill DEF dashboardVars, listVars
<1>3. CASE /\ page = "/employer" /\ ListFollows /\ UNCHANGED revokedHere
           /\ (isRegisteredEmployer' => account' = account \/ account' \in Accounts)
  <2>1. CASE /\ \E l \in Loads : StartLoad(l, account')
             /\ account' # NoAccount /\ isRegisteredEmployer'
    <3>1. account' \in Accounts
        BY <1>0, <1>3, <2>1 DEF Who
    <3> QED
        BY <1>0, <1>3, <2>1, <3>1, LoadStarts
  <2>2. CASE /\ UNCHANGED listVars
             /\ DashboardShown' => UNCHANGED <<account, isRegisteredEmployer>>
      BY <1>0, <1>3, <2>2, ListStill DEF listVars
  <2>3. isRegisteredEmployer' \in BOOLEAN
      BY <1>0 DEF ProfileInv
  <2> QED
      BY <1>3, <2>1, <2>2, <2>3 DEF ListFollows, DashboardShown, isConnected
<1>4. CASE Acts
  <2>0. UNCHANGED <<account, isRegisteredEmployer>>
      BY <1>4 DEF Acts, pageVars, profileVars
  <2>1. CASE page = "/employer" /\ RefreshList
    <3>1. account \in Accounts
        BY <1>0, <2>1 DEF RefreshList, DashboardShown, isConnected, Who
    <3> QED
        BY <1>0, <2>1, <3>1, LoadStarts DEF RefreshList
  <2>2. CASE UNCHANGED <<listVars, revokedHere>>
      BY <1>1, <2>0, <2>2
  <2> QED
      BY <1>4, <2>1, <2>2
         DEF Acts, DashboardAct, CloseDialogue, ConfirmRevocation, OpenDialogue,
             SubmitRegistration, dashboardVars
<1>5. CASE Follows
  <2>1. \/ UNCHANGED <<profileVars, account>>
        \/ account' = NoAccount /\ ~isRegisteredEmployer'
        \/ account' \in Accounts
      BY <1>0, <1>5, ProfileFollowsSession DEF Follows
  <2> QED
      BY <1>2, <1>3, <1>5, <2>1 DEF Follows, DashboardFollows
<1>6. CASE Goes
  <2>0. UNCHANGED <<registryVars, account>>
      BY <1>6 DEF Goes, pageVars
  <2>1. CASE page = "/employer" /\ RevocationMined
    <3>1. revoking.of \in Accounts
        BY <1>0, <2>1, WriteTypes DEF RevocationMined, Mined, RevokingInv
    <3> QED
        BY <1>0, <2>1, <3>1, LoadStarts DEF RevocationMined
  <2>2. CASE \E l \in Loads : LoadStep(l) /\ UNCHANGED profileVars
      BY <1>0, <2>0, <2>2, LoadGoes DEF profileVars
  <2>3. CASE page = "/employer" /\ \E r \in Refreshes : RefreshStep(r)
      BY <1>3, <2>0, <2>3 DEF RefreshStep
  <2>4. CASE UNCHANGED <<listVars, revokedHere, isRegisteredEmployer>>
      BY <1>1, <2>0, <2>4
  <2>5. CASE page = "/employer/create" /\ UNCHANGED dashboardVars
      BY <1>2, <2>5
  <2> QED
      BY <1>6, <2>1, <2>2, <2>3, <2>4, <2>5
         DEF Goes, DashboardStep, RegistrationSent, RegistrationMined,
             RegistrationFails, RevocationSent, RevocationFails, StartRefresh,
             profileVars
<1>7. CASE Chain \/ UNCHANGED employerVars
    BY <1>1, <1>7 DEF Chain, employerVars, pageVars, profileVars, dashboardVars
<1> QED
    BY <1>4, <1>5, <1>6, <1>7 DEF EmployerNext

-----------------------------------------------------------------------------
(* The revocation.                                                          *)

\* What has been revoked before the reload is revoked.
LEMMA RevokedIs ==
    ASSUME WorldInv, RevokingInv, HasRevoked
    PROVE  /\ revoking.call.arg \in AttestationIds
           /\ Exists(revoking.call.arg) /\ Revoked(revoking.call.arg)
<1>1. /\ revoking \in WriteType(RevocationCalls)
      /\ revoking.tx \in DOMAIN sent
      /\ sent[revoking.tx].call = revoking.call
      /\ InRegistry(sent[revoking.tx])
    BY WriteTypes, Idle DEF RevokingInv, HasRevoked, WriteInv, InRegistry
<1>2. /\ sent[revoking.tx].call.name = "revokeAttestation"
      /\ revoking.call.arg \in AttestationIds
    BY <1>1 DEF WriteType, RevocationCalls
<1>3. Done(sent[revoking.tx])
    BY <1>1, TxTypes
<1> QED
    BY <1>1, <1>2, <1>3 DEF Done

LEMMA FindsStill ==
    ASSUME RecordsPersist, NEW l, NEW a \in AttestationIds, Exists(a),
           load'[l] = load[l], Finds(load[l], a)
    PROVE  Finds(load[l], a)'
BY DEF Finds, RecordsPersist

\* The revocation reported stays one.
LEMMA RevokedKept ==
    ASSUME RecordsPersist, RevokingInv
    PROVE  /\ revokedHere \subseteq AttestationIds
           /\ \A a \in revokedHere : Exists(a)' /\ Revoked(a)'
BY DEF RevokingInv, RecordsPersist

\* The transaction of a handler that has revoked is the same.
LEMMA HasRevokedKept ==
    ASSUME WorldMoves, RevokingInv, revoking' = revoking
    PROVE  /\ WriteInv(revoking, RevocationCalls)'
           /\ HasRevoked' => HasRevoked
<1>1. PICK w : w = revoking
    OBVIOUS
<1>2. WriteInv(w, RevocationCalls)'
    BY <1>1, WriteKept DEF RevokingInv, WorldMoves
<1>3. WriteInv(revoking, RevocationCalls)'
    BY <1>1, <1>2 DEF WriteInv
<1>4. revoking.step = "reload" => revoking.tx \in DOMAIN sent
    BY WriteTypes, Idle DEF RevokingInv, WriteInv
<1> QED
    BY <1>3, <1>4 DEF HasRevoked, WorldMoves, SentMoves

\* The loads stand still.
LEMMA RevocationRests ==
    ASSUME WorldInv, WorldMoves, RevokingInv, page' = page,
           UNCHANGED <<revokedHere, load, listUnsure>>,
           revokingId' \in AttestationIds \cup {0},
           \/ revoking' = revoking
           \/ /\ WriteInv(revoking, RevocationCalls)'
              /\ revoking'.step # "reload"
              /\ page # "/employer" => revoking' = NoWrite
    PROVE  RevokingInv'
<1>0. Loading' = Loading /\ RecordsPersist
    BY DEF Loading, WorldMoves
<1>1. WriteInv(revoking, RevocationCalls)'
    BY HasRevokedKept
<1>2. /\ revoking'.step = "reload" => revoking'.reload \in Loading'
      /\ page # "/employer" => revoking' = NoWrite /\ revokedHere' = {}
    BY <1>0 DEF RevokingInv
<1>3. HasRevoked' => Finds(load[revoking.reload], revoking.call.arg)'
  <2>1. CASE revoking' = revoking /\ HasRevoked
    <3>1. PICK l, a : l = revoking.reload /\ a = revoking.call.arg
        OBVIOUS
    <3>2. a \in AttestationIds /\ Exists(a) /\ Finds(load[l], a)
        BY <2>1, <3>1, RevokedIs DEF RevokingInv
    <3>3. Finds(load[l], a)'
        BY <1>0, <3>2, FindsStill
    <3> QED
        BY <2>1, <3>1, <3>3 DEF Finds
  <2> QED
      BY <2>1, HasRevokedKept DEF HasRevoked
<1>4. ~listUnsure' => \A l \in Loading', a \in revokedHere' : Finds(load[l], a)'
  <2> SUFFICES ASSUME ~listUnsure, NEW l \in Loading, NEW a \in revokedHere
               PROVE  Finds(load[l], a)'
      BY <1>0
  <2>1. a \in AttestationIds /\ Exists(a) /\ Finds(load[l], a)
      BY DEF RevokingInv
  <2> QED
      BY <1>0, <2>1, FindsStill
<1> QED
    BY <1>0, <1>1, <1>2, <1>3, <1>4, RevokedKept DEF RevokingInv

\* A load begins: the effect's, the button's, or the one the handler awaits.
LEMMA RevocationStarts ==
    ASSUME WorldInv, WorldMoves, ListInv, RevokingInv, page' = page,
           page = "/employer", NEW l, NEW of \in Accounts, StartLoad(l, of),
           revokedHere' = revokedHere, revokingId' \in AttestationIds \cup {0},
           \/ revoking' = revoking
           \/ Mined(revoking) /\ revoking' = Reloading(revoking, l)
    PROVE  RevokingInv'
<1>0. RecordsPersist
    BY DEF WorldMoves
<1>1. /\ l \in Loads /\ l \notin Loading /\ Loading' = Loading \cup {l}
      /\ load'[l].step = "ids"
      /\ \A m \in Loads \ {l} : load'[m] = load[m]
      /\ ~listUnsure' => Loading = {}
    BY <1>0, LoadStarts
<1>2. \A a : Finds(load[l], a)'
    BY <1>1 DEF Finds
<1>3. /\ WriteInv(revoking, RevocationCalls)'
      /\ revoking'.step = "reload" => revoking'.reload \in Loading'
      /\ HasRevoked' => Finds(load[revoking.reload], revoking.call.arg)'
  <2>1. CASE revoking' = revoking
    <3>1. WriteInv(revoking, RevocationCalls)'
        BY <2>1, HasRevokedKept
    <3>2. revoking.step = "reload" => revoking.reload \in Loading
        BY DEF RevokingInv
    <3>3. HasRevoked' => Finds(load[revoking.reload], revoking.call.arg)'
      <4> SUFFICES ASSUME HasRevoked
                   PROVE  Finds(load[revoking.reload], revoking.call.arg)'
          BY <2>1, HasRevokedKept
      <4>1. PICK m, a : m = revoking.reload /\ a = revoking.call.arg
          OBVIOUS
      <4>2. a \in AttestationIds /\ Exists(a) /\ Finds(load[m], a)
          BY <4>1, RevokedIs DEF RevokingInv
      <4>3. load'[m] = load[m]
          BY <1>1, <3>2, <4>1 DEF HasRevoked, Loading
      <4>4. Finds(load[m], a)'
          BY <1>0, <4>2, <4>3, FindsStill
      <4> QED
          BY <2>1, <4>1, <4>4 DEF Finds
    <3> QED
        BY <1>1, <2>1, <3>1, <3>2, <3>3
  <2>2. CASE Mined(revoking) /\ revoking' = Reloading(revoking, l)
    <3>1. PICK w : w = Reloading(revoking, l)
        OBVIOUS
    <3>2. WriteInv(w, RevocationCalls) /\ w.step = "reload" /\ w.reload = l
      <4>1. l \in Nat
          BY <1>1, LoadAssumption
      <4> QED
          BY <2>2, <3>1, <4>1, WriteReloads DEF RevokingInv
    <3>3. WriteInv(w, RevocationCalls)'
        BY <3>2, WriteKept DEF WorldMoves
    <3>4. WriteInv(revoking, RevocationCalls)'
        BY <2>2, <3>1, <3>3 DEF WriteInv
    <3>5. Finds(load[revoking.reload], revoking.call.arg)'
        BY <1>2, <2>2, <3>1, <3>2 DEF Finds
    <3> QED
        BY <1>1, <2>2, <3>1, <3>2, <3>4, <3>5
  <2> QED
      BY <2>1, <2>2
<1>4. ~listUnsure' => \A m \in Loading', a \in revokedHere' : Finds(load[m], a)'
    BY <1>1, <1>2
<1> QED
    BY <1>0, <1>3, <1>4, RevokedKept DEF RevokingInv

\* A load goes on, and ends the handler that awaits it.
LEMMA RevocationGoes ==
    ASSUME WorldInv, WorldMoves, ListInv, RevokingInv, page' = page,
           UNCHANGED <<registryVars, sent>>, NEW l \in Loads, LoadStep(l)
    PROVE  RevokingInv'
<1> DEFINE ends == /\ revoking.step = "reload" /\ revoking.reload = l
                   /\ load'[l].step = "idle"
<1>0. RecordsPersist
    BY DEF WorldMoves
<1>1. /\ \A m \in Loads \ {l} : load'[m] = load[m]
      /\ l \in Loading /\ Loading' \subseteq Loading
      /\ \A m \in Loading : m \notin Loading' => m = l
      /\ l \in Loading' <=> load'[l].step # "idle"
      /\ \A a \in AttestationIds :
            Exists(a) /\ Revoked(a) /\ Finds(load[l], a) => Finds(load'[l], a)
    BY LoadMoves DEF LoadStep
<1>2. ASSUME NEW m \in Loading, NEW a \in AttestationIds, Exists(a), Revoked(a),
             Finds(load[m], a)
      PROVE  Finds(load[m], a)'
  <2>1. CASE m = l
    <3>1. Finds(load'[l], a)
        BY <1>1, <1>2, <2>1
    <3> QED
        BY <2>1, <3>1 DEF Finds, registryVars, attestationVars
  <2>2. CASE m # l
      BY <1>0, <1>1, <1>2, <2>2, FindsStill DEF Loading
  <2> QED
      BY <2>1, <2>2
<1>3. revokingId' = revokingId /\ page = "/employer"
    BY <1>1 DEF LoadStep, ListInv
<1>4. CASE ~ends
  <2>1. revoking' = revoking /\ revokedHere' = revokedHere
      BY <1>4 DEF LoadStep
  <2>2. revoking.step = "reload" =>
           revoking.reload \in Loading /\ revoking.reload \in Loading'
      BY <1>1, <1>4 DEF RevokingInv
  <2>3. HasRevoked' => Finds(load[revoking.reload], revoking.call.arg)'
    <3> SUFFICES ASSUME HasRevoked
                 PROVE  Finds(load[revoking.reload], revoking.call.arg)'
        BY <2>1, HasRevokedKept
    <3>1. PICK m, a : m = revoking.reload /\ a = revoking.call.arg
        OBVIOUS
    <3>2. /\ a \in AttestationIds /\ Exists(a) /\ Revoked(a) /\ Finds(load[m], a)
          /\ m \in Loading
        BY <2>2, <3>1, RevokedIs DEF RevokingInv, HasRevoked
    <3>3. Finds(load[m], a)'
        BY <1>2, <3>2
    <3> QED
        BY <2>1, <3>1, <3>3 DEF Finds
  <2>4. ~listUnsure' => \A m \in Loading', a \in revokedHere' : Finds(load[m], a)'
    <3> SUFFICES ASSUME ~listUnsure', NEW m \in Loading', NEW a \in revokedHere
                 PROVE  Finds(load[m], a)'
        BY <2>1
    <3>1. ~listUnsure
        BY DEF LoadStep, ReadIds, ReadRow, LoadDone, LoadFails
    <3>2. /\ m \in Loading /\ a \in AttestationIds /\ Exists(a) /\ Revoked(a)
          /\ Finds(load[m], a)
        BY <1>1, <3>1 DEF RevokingInv
    <3> QED
        BY <1>2, <3>2
  <2> QED
      BY <1>0, <1>3, <2>1, <2>2, <2>3, <2>4, HasRevokedKept, RevokedKept
         DEF RevokingInv
<1>5. CASE ends
  <2>1. revoking' = NoWrite /\ revoking'.step = "idle"
      BY <1>5, Idle DEF LoadStep
  <2>2. WriteInv(revoking, RevocationCalls)' /\ ~HasRevoked'
      BY <2>1 DEF WriteInv, HasRevoked
  <2>3. \A a \in revokedHere' :
           \/ a \in revokedHere
           \/ HasRevoked /\ a = revoking.call.arg
      BY <1>5 DEF LoadStep, HasRevoked
  <2>4. /\ revokedHere' \subseteq AttestationIds
        /\ \A a \in revokedHere' : Exists(a)' /\ Revoked(a)'
      BY <1>0, <2>3, RevokedKept, RevokedIs DEF RecordsPersist
  <2>5. ~listUnsure' => Loading' = {}
    <3> SUFFICES ASSUME ~listUnsure' PROVE Loading' = {}
        OBVIOUS
    <3>1. ~listUnsure
        BY DEF LoadStep, ReadIds, ReadRow, LoadDone, LoadFails
    <3>2. \A m \in Loading : m = l
        BY <1>1, <3>1 DEF ListInv
    <3> QED
        BY <1>1, <1>5, <3>2
  <2> QED
      BY <1>3, <2>1, <2>2, <2>4, <2>5 DEF RevokingInv
<1> QED
    BY <1>4, <1>5

LEMMA RevokingKept ==
    ASSUME EmployerInv, [EmployerNext]_employerVars
    PROVE  RevokingInv'
<1>0. /\ WorldInv /\ WorldMoves /\ RecordsPersist /\ ListInv /\ RevokingInv
      /\ page' = page /\ account \in Who
      /\ revokingId \in AttestationIds \cup {0}
    BY WorldStep DEF EmployerInv, WorldMoves, WorldInv, RevokingInv
<1>1. CASE /\ UNCHANGED <<revoking, revokedHere, listVars>>
           /\ revokingId' \in AttestationIds \cup {0}
    BY <1>0, <1>1, RevocationRests DEF listVars
<1>2. CASE UNCHANGED dashboardVars
    BY <1>0, <1>1, <1>2 DEF dashboardVars
<1>3. CASE /\ page = "/employer" /\ ListFollows
           /\ UNCHANGED <<revoking, revokingId, revokedHere>>
           /\ (isRegisteredEmployer' => account' \in Who)
  <2>1. CASE /\ \E l \in Loads : StartLoad(l, account')
             /\ account' # NoAccount /\ isRegisteredEmployer'
    <3>1. account' \in Accounts
        BY <1>3, <2>1 DEF Who
    <3> QED
        BY <1>0, <1>3, <2>1, <3>1, RevocationStarts
  <2> QED
      BY <1>0, <1>1, <1>3, <2>1 DEF ListFollows
<1>4. CASE Acts
  <2>1. CASE page = "/employer" /\ RefreshList
    <3>1. account \in Accounts
        BY <1>0, <2>1 DEF RefreshList, DashboardShown, isConnected, Who
    <3> QED
        BY <1>0, <2>1, <3>1, RevocationStarts DEF RefreshList
  <2>2. CASE page = "/employer" /\ ConfirmRevocation
    <3>1. PICK s : s = Begun(Call("revokeAttestation", revokingId))
        OBVIOUS
    <3>2. Call("revokeAttestation", revokingId) \in RevocationCalls
        BY <1>0, <2>2 DEF Call, RevocationCalls, ConfirmRevocation
    <3>3. WriteInv(s, RevocationCalls) /\ s.step = "sign"
        BY <1>0, <2>2, <3>1, <3>2, WriteBegun DEF ConfirmRevocation, DashboardShown
    <3>4. WriteInv(s, RevocationCalls)'
        BY <1>0, <3>3, WriteKept DEF WorldMoves
    <3>5. revoking' = s /\ UNCHANGED <<revokedHere, listVars, revokingId>>
        BY <2>2, <3>1 DEF ConfirmRevocation
    <3>6. WriteInv(revoking, RevocationCalls)'
        BY <3>4, <3>5 DEF WriteInv
    <3> QED
        BY <1>0, <2>2, <3>3, <3>5, <3>6, RevocationRests DEF listVars
  <2>3. CASE \E row \in shownList : OpenDialogue(row)
    <3>1. PICK row \in shownList : OpenDialogue(row)
        BY <2>3
    <3>2. row.id \in AttestationIds
        BY <1>0 DEF ListInv, Row
    <3> QED
        BY <1>1, <3>1, <3>2 DEF OpenDialogue
  <2>4. CASE /\ UNCHANGED <<revoking, revokedHere, listVars>>
             /\ revokingId' = revokingId \/ revokingId' = 0
      BY <1>0, <1>1, <2>4
  <2> QED
      BY <1>4, <2>1, <2>2, <2>3, <2>4
         DEF Acts, DashboardAct, CloseDialogue, SubmitRegistration, dashboardVars
<1>5. CASE Follows
  <2>1. account' \in Who
      BY WorldStep DEF WorldInv
  <2> QED
      BY <1>2, <1>3, <1>5, <2>1 DEF Follows, DashboardFollows
<1>6. CASE Goes
  <2>0. UNCHANGED <<registryVars, account>>
      BY <1>6 DEF Goes, pageVars
  <2>1. CASE page = "/employer" /\ RevocationSent
    <3>1. PICK s : s = Waiting(revoking)
        OBVIOUS
    <3>2. WriteInv(s, RevocationCalls)' /\ s.step = "mine"
        BY <1>0, <2>1, <3>1, WriteSent DEF RevocationSent, RevokingInv
    <3>3. revoking' = s /\ UNCHANGED <<revokedHere, listVars, revokingId>>
        BY <2>1, <3>1 DEF RevocationSent
    <3>4. WriteInv(revoking, RevocationCalls)'
        BY <3>2, <3>3 DEF WriteInv
    <3> QED
        BY <1>0, <2>1, <3>2, <3>3, <3>4, RevocationRests DEF listVars
  <2>2. CASE page = "/employer" /\ RevocationMined
    <3>1. /\ revoking.of \in Accounts /\ revokingId' = 0
          /\ Mined(revoking)
        BY <1>0, <2>2, WriteTypes DEF RevocationMined, Mined, RevokingInv
    <3>2. PICK l \in Loads : /\ StartLoad(l, revoking.of)
                             /\ revoking' = Reloading(revoking, l)
        BY <2>2 DEF RevocationMined
    <3>3. revokedHere' = revokedHere
        BY <2>2 DEF RevocationMined
    <3> QED
        BY <1>0, <2>2, <3>1, <3>2, <3>3, RevocationStarts
  <2>3. CASE RevocationFails
    <3>1. revoking' = NoWrite /\ UNCHANGED <<revokedHere, listVars, revokingId>>
        BY <2>3 DEF RevocationFails
    <3>2. WriteInv(revoking, RevocationCalls)'
        BY <3>1 DEF WriteInv
    <3> QED
        BY <1>0, <3>1, <3>2, Idle, RevocationRests DEF listVars
  <2>4. CASE \E l \in Loads : LoadStep(l) /\ UNCHANGED sent
      BY <1>0, <2>0, <2>4, RevocationGoes
  <2>5. CASE page = "/employer" /\ \E r \in Refreshes : RefreshStep(r)
      BY <1>0, <1>3, <2>0, <2>5 DEF RefreshStep
  <2>6. CASE UNCHANGED <<revoking, revokedHere, listVars, revokingId>>
      BY <1>0, <1>1, <2>6
  <2> QED
      BY <1>6, <2>1, <2>2, <2>3, <2>4, <2>5, <2>6
         DEF Goes, DashboardStep, RegistrationSent, RegistrationMined,
             RegistrationFails, dashboardVars
<1>7. CASE Chain \/ UNCHANGED employerVars
    BY <1>2, <1>7 DEF Chain, employerVars
<1> QED
    BY <1>4, <1>5, <1>6, <1>7 DEF EmployerNext

-----------------------------------------------------------------------------
(* The issuing page.                                                        *)

\* A blob's way is not left by a transaction's moving on, and what a pipeline or
\* a transaction has was neither lost nor abandoned.
LEMMA BlobsRest ==
    ASSUME BlobsInv, WorldMoves,
           \A q \in Pipelines : Holds(q)' =>
              Holds(q) /\ pipeline'[q].blob = pipeline[q].blob,
           \A t \in DOMAIN sent' : Carries(sent'[t]) => t \in DOMAIN sent,
           pinned \subseteq pinned', pinned' \subseteq Blobs, abandoned' \subseteq pinned',
           \A q \in Pipelines : Holds(q)' => pipeline[q].blob \notin abandoned' \ abandoned,
           \A t \in DOMAIN sent : Carries(sent[t]) =>
              sent[t].call.arg.ipfsCID \notin abandoned' \ abandoned
    PROVE  BlobsInv'
<1>1. \A t \in DOMAIN sent' : Carries(sent'[t]) =>
         /\ t \in DOMAIN sent /\ Carries(sent[t])
         /\ sent'[t].call.arg.ipfsCID = sent[t].call.arg.ipfsCID
    BY DEF Carries, WorldMoves, SentMoves
<1>2. \A t : Carries(sent[t])' <=> Carries(sent'[t])
    BY DEF Carries
<1> QED
    BY <1>1, <1>2 DEF BlobsInv

\* An attestation's document was brought there, still; a new one's by the
\* transaction that has issued it.
LEMMA BroughtKept ==
    ASSUME WorldMoves, \A a \in AttestationIds : Brought(a),
           \A a \in AttestationIds : Exists(a)' /\ ~Exists(a) =>
              \E t \in DOMAIN sent' :
                 /\ InRegistry(sent'[t]) /\ sent'[t].result = a
                 /\ sent'[t].call.name = "createAttestation"
                 /\ attestations'[a].ipfsCID = sent'[t].call.arg.ipfsCID
    PROVE  \A a \in AttestationIds : Brought(a)'
<1> SUFFICES ASSUME NEW a \in AttestationIds, Exists(a)',
                    attestations'[a].ipfsCID \in Blobs
             PROVE  \E t \in DOMAIN sent' :
                       /\ InRegistry(sent'[t]) /\ sent'[t].result = a
                       /\ Carries(sent'[t])
                       /\ sent'[t].call.arg.ipfsCID = attestations'[a].ipfsCID
    BY DEF Brought, InRegistry, Carries
<1>1. CASE Exists(a)
  <2>1. attestations'[a].ipfsCID = attestations[a].ipfsCID
      BY <1>1 DEF WorldMoves, RecordsPersist
  <2>2. PICK t \in DOMAIN sent :
           /\ InRegistry(sent[t]) /\ sent[t].result = a
           /\ Carries(sent[t]) /\ sent[t].call.arg.ipfsCID = attestations[a].ipfsCID
      BY <1>1, <2>1 DEF Brought
  <2>3. SentMoves(t)
      BY DEF WorldMoves
  <2> QED
      BY <2>1, <2>2, <2>3 DEF SentMoves, InRegistry, Carries
<1>2. CASE ~Exists(a)
    BY <1>2 DEF Carries
<1> QED
    BY <1>1, <1>2

LEMMA RestBrought ==
    ASSUME WorldMoves, IssuanceInv, UNCHANGED registryVars
    PROVE  \A a \in AttestationIds : Brought(a)'
<1>1. \A a \in AttestationIds : Exists(a)' <=> Exists(a)
    BY DEF Exists, registryVars, attestationVars
<1> QED
    BY <1>1, BroughtKept DEF IssuanceInv

LEMMA MintedKept ==
    ASSUME WorldMoves, MintedInv, minted' \in {minted, NotMinted}
    PROVE  MintedInv'
BY DEF WorldMoves, SentMoves, MintedInv, IdInReceipt

\* A pipeline's progress is the same whatever is sent and mined.
LEMMA PipelineKept ==
    ASSUME WorldMoves, NEW s, PipelineInv(s)
    PROVE  PipelineInv(s)'
BY DEF WorldMoves, SentMoves, PipelineInv

LEMMA PipelineStill ==
    ASSUME WorldMoves, IssuanceInv, NEW p \in Pipelines, pipeline'[p] = pipeline[p]
    PROVE  PipelineInv(pipeline[p])'
<1>1. PICK s : s = pipeline[p]
    OBVIOUS
<1>2. PipelineInv(s)'
    BY <1>1, PipelineKept DEF IssuanceInv
<1> QED
    BY <1>1, <1>2 DEF PipelineInv

\* The pipelines stand still, and what is mined or sent is another's.
LEMMA IssuanceRests ==
    ASSUME WorldMoves, IssuanceInv, UNCHANGED issuanceVars,
           \A t \in DOMAIN sent' :
              t \in DOMAIN sent \/ sent'[t].call.name # "createAttestation",
           \A a \in AttestationIds : Brought(a)'
    PROVE  IssuanceInv'
<1>1. \A p \in Pipelines : PipelineInv(pipeline[p])'
    BY PipelineStill DEF issuanceVars
<1>2. BlobsInv'
  <2>1. \A q \in Pipelines : Holds(q)' =>
           Holds(q) /\ pipeline'[q].blob = pipeline[q].blob
      BY DEF Holds, Step, issuanceVars
  <2>2. \A t \in DOMAIN sent' : Carries(sent'[t]) => t \in DOMAIN sent
      BY DEF Carries
  <2> QED
      BY <2>1, <2>2, BlobsRest DEF IssuanceInv, BlobsInv, issuanceVars
<1>3. MintedInv'
    BY MintedKept DEF IssuanceInv, issuanceVars
<1> QED
    BY <1>1, <1>2, <1>3 DEF IssuanceInv, issuanceVars

\* One pipeline moves on, the others stand still.
LEMMA OneMoves ==
    ASSUME WorldMoves, IssuanceInv, NEW p \in Pipelines,
           NEW new, pipeline' = [pipeline EXCEPT ![p] = new], PipelineInv(new)'
    PROVE  /\ DOMAIN pipeline' = Pipelines
           /\ \A q \in Pipelines : PipelineInv(pipeline[q])'
           /\ pipeline'[p] = new
           /\ \A q \in Pipelines \ {p} : pipeline'[q] = pipeline[q]
           /\ \A q \in Pipelines \ {p} :
                 Holds(q)' => Holds(q) /\ pipeline'[q].blob = pipeline[q].blob
<1>1. /\ DOMAIN pipeline' = Pipelines /\ pipeline'[p] = new
      /\ \A q \in Pipelines \ {p} : pipeline'[q] = pipeline[q]
    BY DEF IssuanceInv
<1>2. ASSUME NEW q \in Pipelines PROVE PipelineInv(pipeline[q])'
  <2>1. CASE q = p
      BY <1>1, <2>1 DEF PipelineInv
  <2>2. CASE q # p
      BY <1>1, <2>2, PipelineStill
  <2> QED
      BY <2>1, <2>2
<1> QED
    BY <1>1, <1>2 DEF Holds, Step

\* A pipeline that is under way.
LEMMA PipelineTypes ==
    ASSUME IssuanceInv, NEW p \in Pipelines, Step(p) # "idle"
    PROVE  /\ pipeline[p] \in PipelineType /\ pipeline[p].write \in IssueType
           /\ pipeline[p].write.call.arg \in Submission
           /\ pipeline[p] # NoPipeline /\ PipelineInv(pipeline[p])
<1>1. PipelineInv(pipeline[p])
    BY DEF IssuanceInv
<1>2. pipeline[p] # NoPipeline
    BY DEF NoPipeline, NoWrite, Step
<1> QED
    BY <1>1, <1>2 DEF PipelineInv, PipelineType, IssueType

LEMMA PressStep ==
    ASSUME WorldInv, WorldMoves, IssuanceInv, UNCHANGED registryVars,
           NEW p \in Pipelines, NEW s \in Forms, Press(p, s)
    PROVE  IssuanceInv'
<1>1. PICK step \in {"upload", "prepare"} :
         step = IF HasDocument(s) THEN "upload" ELSE "prepare"
    BY Zenon
<1>2. PICK call : call = Call("createAttestation", s)
    OBVIOUS
<1>3. PICK begun : begun = Begun(call)
    OBVIOUS
<1>4. begun = [step |-> "sign", by |-> signer, of |-> account, call |-> call,
               tx |-> 0, reload |-> 0]
    BY <1>3 DEF Begun, NoWrite
<1>5. PICK write : write = [begun EXCEPT !.step = step]
    OBVIOUS
<1>6. /\ write \in IssueType /\ write.step = step /\ write.call = call
      /\ call.arg = s
  <2>1. signer \in Accounts /\ account \in Accounts
      BY DEF Press, FormShown, isConnected, WorldInv, Who
  <2>2. call \in [name: {"createAttestation"}, arg: Submission] /\ call.arg = s
      BY <1>2, PipelineAssumption DEF Call
  <2>3. write = [step |-> step, by |-> signer, of |-> account, call |-> call,
                 tx |-> 0, reload |-> 0]
      BY <1>4, <1>5
  <2> QED
      BY <2>1, <2>2, <2>3 DEF IssueType
<1>7. PICK new : new = [write |-> write, blob |-> Empty, seen |-> TRUE]
    OBVIOUS
<1>8. /\ new \in PipelineType /\ new.write.step = step /\ new.blob = Empty
      /\ new.write.call.arg = s /\ new.blob \notin Blobs
    BY <1>6, <1>7, PipelineAssumption, EmptyAssumption DEF PipelineType
<1>9. PipelineInv(new)
  <2>1. HasDocument(s) => step = "upload"
      BY <1>1
  <2>2. ~HasDocument(s) => step = "prepare" /\ s \in Submissions /\ s.ipfsCID = Empty
      BY <1>1, PipelineAssumption DEF HasDocument
  <2> QED
      BY <1>8, <2>1, <2>2 DEF PipelineInv
<1>10. PipelineInv(new)'
    BY <1>9, PipelineKept
<1>11. pipeline' = [pipeline EXCEPT ![p] = new]
    BY <1>1, <1>2, <1>3, <1>5, <1>7 DEF Press
<1>12. /\ DOMAIN pipeline' = Pipelines
       /\ \A q \in Pipelines : PipelineInv(pipeline[q])'
       /\ pipeline'[p] = new
       /\ \A q \in Pipelines \ {p} :
             Holds(q)' => Holds(q) /\ pipeline'[q].blob = pipeline[q].blob
    BY <1>10, <1>11, OneMoves
<1>13. ~Holds(p)'
    BY <1>8, <1>12 DEF Holds
<1>14. UNCHANGED <<minted, pinned, abandoned, sent>>
    BY DEF Press
<1>15. BlobsInv'
    BY <1>12, <1>13, <1>14, BlobsRest DEF IssuanceInv, BlobsInv
<1>16. MintedInv'
    BY <1>14, MintedKept DEF IssuanceInv
<1> QED
    BY <1>12, <1>15, <1>16, RestBrought DEF IssuanceInv

\* The pipeline becomes the holder of a blob that is new.
LEMMA UploadedStep ==
    ASSUME WorldMoves, IssuanceInv, UNCHANGED registryVars,
           NEW p \in Pipelines, NEW b \in Blobs, Uploaded(p, b)
    PROVE  IssuanceInv'
<1>1. /\ pipeline[p] \in PipelineType /\ pipeline[p].write \in IssueType
      /\ pipeline[p].write.call.arg \in Forms
      /\ HasDocument(pipeline[p].write.call.arg)
    BY PipelineTypes DEF Uploaded, Step, PipelineInv
<1>2. PICK s : s = WithBlob(pipeline[p].write.call.arg, b)
    OBVIOUS
<1>3. s \in Submissions /\ s \in Submission /\ s.ipfsCID = b
  <2>1. s \in Submissions
      BY <1>1, <1>2, PipelineAssumption
  <2>2. pipeline[p].write.call.arg \in Submission
      BY <1>1, PipelineAssumption
  <2> QED
      BY <1>2, <2>1, <2>2, InputAssumption DEF WithBlob, Submission
<1>4. PICK call : call = [pipeline[p].write.call EXCEPT !.arg = s]
    OBVIOUS
<1>5. call \in [name: {"createAttestation"}, arg: Submission] /\ call.arg = s
    BY <1>1, <1>3, <1>4 DEF IssueType
<1>6. PICK write : write = [pipeline[p].write EXCEPT !.step = "prepare", !.call = call]
    OBVIOUS
<1>7. write \in IssueType /\ write.step = "prepare" /\ write.call = call
    BY <1>1, <1>5, <1>6 DEF IssueType
<1>8. PICK new : new = [pipeline[p] EXCEPT !.blob = b, !.write = write]
    OBVIOUS
<1>9. /\ new \in PipelineType /\ new.write = write /\ new.blob = b
    BY <1>1, <1>7, <1>8 DEF PipelineType
<1>10. PipelineInv(new)'
  <2>1. PipelineInv(new)
      BY <1>3, <1>5, <1>7, <1>9 DEF PipelineInv
  <2> QED
      BY <2>1, PipelineKept
<1>11. pipeline' = [pipeline EXCEPT ![p] = new]
    BY <1>1, <1>2, <1>4, <1>6, <1>8
       DEF Uploaded, PipelineType, IssueType, IssuanceInv
<1>12. /\ DOMAIN pipeline' = Pipelines
       /\ \A q \in Pipelines : PipelineInv(pipeline[q])'
       /\ pipeline'[p] = new
       /\ \A q \in Pipelines \ {p} :
             Holds(q)' => Holds(q) /\ pipeline'[q].blob = pipeline[q].blob
    BY <1>10, <1>11, OneMoves
<1>13. /\ UNCHANGED <<minted, abandoned, sent>> /\ b \notin pinned
       /\ pinned' = pinned \cup {b}
    BY DEF Uploaded
<1>14. BlobsInv'
  <2>1. BlobsInv
      BY DEF IssuanceInv
  <2>2. \A t \in DOMAIN sent : Carries(sent[t])' <=> Carries(sent[t])
      BY <1>13 DEF Carries
  <2>3. b \notin abandoned
      BY <1>13, <2>1 DEF BlobsInv
  <2>4. \A t \in DOMAIN sent : Carries(sent[t]) => sent[t].call.arg.ipfsCID # b
      BY <1>13, <2>1 DEF BlobsInv
  <2>5. \A q \in Pipelines \ {p} : Holds(q)' =>
           /\ Holds(q) /\ pipeline'[q].blob = pipeline[q].blob
           /\ pipeline'[q].blob # b
      BY <1>12, <1>13, <2>1 DEF BlobsInv
  <2>6. pipeline'[p].blob = b
      BY <1>9, <1>12
  <2> QED
      BY <1>12, <1>13, <2>1, <2>2, <2>3, <2>4, <2>5, <2>6 DEF BlobsInv
<1>15. MintedInv'
    BY <1>13, MintedKept DEF IssuanceInv
<1> QED
    BY <1>12, <1>14, <1>15, RestBrought DEF IssuanceInv

LEMMA PreparedStep ==
    ASSUME WorldMoves, IssuanceInv, UNCHANGED registryVars,
           NEW p \in Pipelines, Prepared(p)
    PROVE  IssuanceInv'
<1>1. /\ pipeline[p] \in PipelineType /\ pipeline[p].write \in IssueType
      /\ pipeline[p].write.call.arg \in Submissions
      /\ pipeline[p].write.call.arg.ipfsCID = pipeline[p].blob
      /\ Step(p) = "prepare"
    BY PipelineTypes DEF Prepared, Step, PipelineInv
<1>2. PICK write : write = [pipeline[p].write EXCEPT !.step = "sign"]
    OBVIOUS
<1>3. /\ write \in IssueType /\ write.step = "sign"
      /\ write.call = pipeline[p].write.call
    BY <1>1, <1>2 DEF IssueType
<1>4. PICK new : new = [pipeline[p] EXCEPT !.write = write]
    OBVIOUS
<1>5. /\ new \in PipelineType /\ new.write = write /\ new.blob = pipeline[p].blob
    BY <1>1, <1>3, <1>4 DEF PipelineType
<1>6. PipelineInv(new)'
  <2>1. PipelineInv(new)
      BY <1>1, <1>3, <1>5 DEF PipelineInv
  <2> QED
      BY <2>1, PipelineKept
<1>7. pipeline' = [pipeline EXCEPT ![p] = new]
    BY <1>1, <1>2, <1>4 DEF Prepared, Advanced, PipelineType, IssuanceInv
<1>8. /\ DOMAIN pipeline' = Pipelines
      /\ \A q \in Pipelines : PipelineInv(pipeline[q])'
      /\ pipeline'[p] = new
      /\ \A q \in Pipelines \ {p} :
            Holds(q)' => Holds(q) /\ pipeline'[q].blob = pipeline[q].blob
    BY <1>6, <1>7, OneMoves
<1>9. Holds(p)' => Holds(p) /\ pipeline'[p].blob = pipeline[p].blob
    BY <1>1, <1>5, <1>8 DEF Holds
<1>10. UNCHANGED <<minted, pinned, abandoned, sent>>
    BY DEF Prepared
<1>11. BlobsInv'
    BY <1>8, <1>9, <1>10, BlobsRest DEF IssuanceInv, BlobsInv
<1>12. MintedInv'
    BY <1>10, MintedKept DEF IssuanceInv
<1> QED
    BY <1>8, <1>11, <1>12, RestBrought DEF IssuanceInv

\* The transaction becomes the holder of the pipeline's blob.
LEMMA SentStep ==
    ASSUME WorldInv, WorldMoves, IssuanceInv, UNCHANGED registryVars,
           NEW p \in Pipelines, Sent(p)
    PROVE  IssuanceInv'
<1>0. PICK t : t = Len(sent) + 1
    OBVIOUS
<1>1. Step(p) = "sign"
    BY DEF Sent, SendWrite, Step
<1>2. /\ pipeline[p] \in PipelineType /\ pipeline[p].write \in IssueType
      /\ pipeline[p].write.by \in Accounts
      /\ pipeline[p].write.call \in IssueCalls
      /\ pipeline[p].write.call.name = "createAttestation"
      /\ pipeline[p].write.call.arg \in Submissions
      /\ pipeline[p].write.call.arg.ipfsCID = pipeline[p].blob
    BY <1>1, PipelineSigns, PipelineTypes DEF IssueCalls
<1>3. /\ DOMAIN sent' = DOMAIN sent \cup {t} /\ t \notin DOMAIN sent
      /\ \A u \in DOMAIN sent : sent'[u] = sent[u]
      /\ sent'[t].call = pipeline[p].write.call
    BY <1>0, <1>2, SendMoves DEF Sent
<1>4. t \in Nat
    BY <1>0 DEF WorldInv
<1>5. PICK write : write = Waiting(pipeline[p].write)
    OBVIOUS
<1>6. /\ write \in IssueType /\ write.step = "mine" /\ write.tx = t
      /\ write.call = pipeline[p].write.call
    BY <1>0, <1>2, <1>4, <1>5 DEF Waiting, IssueType
<1>7. PICK new : new = [pipeline[p] EXCEPT !.write = write]
    OBVIOUS
<1>8. new \in PipelineType /\ new.write = write
    BY <1>2, <1>6, <1>7 DEF PipelineType
<1>9. PipelineInv(new)'
    BY <1>2, <1>3, <1>6, <1>8 DEF PipelineInv
<1>10. pipeline' = [pipeline EXCEPT ![p] = new]
    BY <1>2, <1>5, <1>7 DEF Sent, PipelineType, IssuanceInv
<1>11. /\ DOMAIN pipeline' = Pipelines
       /\ \A q \in Pipelines : PipelineInv(pipeline[q])'
       /\ pipeline'[p] = new
       /\ \A q \in Pipelines \ {p} :
             Holds(q)' => Holds(q) /\ pipeline'[q].blob = pipeline[q].blob
    BY <1>9, <1>10, OneMoves
<1>12. ~Holds(p)'
    BY <1>6, <1>8, <1>11 DEF Holds, Step
<1>13. UNCHANGED <<minted, pinned, abandoned>>
    BY DEF Sent
<1>14. BlobsInv'
  <2>0. BlobsInv
      BY DEF IssuanceInv
  <2>1. \A u \in DOMAIN sent :
           /\ Carries(sent[u])' <=> Carries(sent[u])
           /\ sent'[u].call.arg.ipfsCID = sent[u].call.arg.ipfsCID
      BY <1>3 DEF Carries
  <2>2. Carries(sent[t])' => Holds(p)
      BY <1>1, <1>2, <1>3 DEF Carries, Holds
  <2>3. sent'[t].call.arg.ipfsCID = pipeline[p].blob
      BY <1>2, <1>3
  <2>4. \A q \in Pipelines : Holds(q)' =>
           q # p /\ Holds(q) /\ pipeline'[q].blob = pipeline[q].blob
      BY <1>11, <1>12
  <2>5. \A q \in Pipelines : Holds(q)' =>
           pipeline'[q].blob \in pinned' \ abandoned'
      BY <1>13, <2>0, <2>4 DEF BlobsInv
  <2>6. \A u \in DOMAIN sent' : Carries(sent[u])' =>
           sent'[u].call.arg.ipfsCID \in pinned' \ abandoned'
      BY <1>3, <1>13, <2>0, <2>1, <2>2, <2>3 DEF BlobsInv
  <2>7. \A q, r \in Pipelines :
           Holds(q)' /\ Holds(r)' /\ pipeline'[q].blob = pipeline'[r].blob => q = r
      BY <2>0, <2>4 DEF BlobsInv
  <2>8. \A q \in Pipelines, u \in DOMAIN sent' :
           Holds(q)' /\ Carries(sent[u])' =>
              pipeline'[q].blob # sent'[u].call.arg.ipfsCID
      BY <1>3, <2>0, <2>1, <2>2, <2>3, <2>4 DEF BlobsInv
  <2>9. \A u, v \in DOMAIN sent' :
           /\ Carries(sent[u])' /\ Carries(sent[v])'
           /\ sent'[u].call.arg.ipfsCID = sent'[v].call.arg.ipfsCID
           => u = v
      BY <1>3, <2>0, <2>1, <2>2, <2>3 DEF BlobsInv
  <2> QED
      BY <1>13, <2>0, <2>5, <2>6, <2>7, <2>8, <2>9 DEF BlobsInv
<1>15. MintedInv'
    BY <1>13, MintedKept DEF IssuanceInv
<1> QED
    BY <1>11, <1>14, <1>15, RestBrought DEF IssuanceInv

\* A pipeline ends.
LEMMA PipelineEnds ==
    ASSUME WorldMoves, IssuanceInv, NEW p \in Pipelines,
           pipeline' = [pipeline EXCEPT ![p] = NoPipeline]
    PROVE  /\ DOMAIN pipeline' = Pipelines
           /\ \A q \in Pipelines : PipelineInv(pipeline[q])'
           /\ \A q \in Pipelines : Holds(q)' =>
                 q # p /\ Holds(q) /\ pipeline'[q].blob = pipeline[q].blob
<1>1. PICK new : new = NoPipeline
    OBVIOUS
<1>2. PipelineInv(new)' /\ new.write.step = "idle"
    BY <1>1 DEF PipelineInv, NoPipeline, NoWrite
<1>3. /\ DOMAIN pipeline' = Pipelines
      /\ \A q \in Pipelines : PipelineInv(pipeline[q])'
      /\ pipeline'[p] = new
      /\ \A q \in Pipelines \ {p} :
            Holds(q)' => Holds(q) /\ pipeline'[q].blob = pipeline[q].blob
    BY <1>1, <1>2, OneMoves
<1>4. ~Holds(p)'
    BY <1>2, <1>3 DEF Holds, Step
<1> QED
    BY <1>3, <1>4

LEMMA AnnouncedStep ==
    ASSUME WorldMoves, IssuanceInv, UNCHANGED registryVars,
           NEW p \in Pipelines, Announced(p)
    PROVE  IssuanceInv'
<1>1. /\ DOMAIN pipeline' = Pipelines
      /\ \A q \in Pipelines : PipelineInv(pipeline[q])'
      /\ \A q \in Pipelines :
            Holds(q)' => Holds(q) /\ pipeline'[q].blob = pipeline[q].blob
    BY PipelineEnds DEF Announced
<1>2. UNCHANGED <<pinned, abandoned, sent>>
    BY DEF Announced
<1>3. BlobsInv'
    BY <1>1, <1>2, BlobsRest DEF IssuanceInv, BlobsInv
<1>4. MintedInv'
  <2>1. PICK t : t = pipeline[p].write.tx
      OBVIOUS
  <2>2. CASE minted' = minted
      BY <2>2, MintedKept DEF IssuanceInv
  <2>3. CASE minted' = [id |-> IdInReceipt(t), tx |-> t]
    <3>1. /\ t \in DOMAIN sent /\ sent[t].status = "mined"
          /\ sent[t].call.name = "createAttestation"
      <4>1. Step(p) = "mine" /\ sent[t].status = "mined"
          BY <2>1 DEF Announced, Mined, Step
      <4>2. PipelineInv(pipeline[p]) /\ pipeline[p].write \in IssueType
            /\ pipeline[p] # NoPipeline
          BY <4>1, PipelineTypes
      <4> QED
          BY <2>1, <4>1, <4>2 DEF PipelineInv, IssueType, Step
    <3> QED
        BY <1>2, <2>3, <3>1 DEF MintedInv, IdInReceipt
  <2> QED
      BY <2>1, <2>2, <2>3 DEF Announced
<1> QED
    BY <1>1, <1>3, <1>4, RestBrought DEF IssuanceInv

\* What is abandoned is the blob of the pipeline that ends, or one nobody was told of.
LEMMA FailedStep ==
    ASSUME WorldMoves, IssuanceInv, UNCHANGED registryVars,
           NEW p \in Pipelines, Failed(p)
    PROVE  IssuanceInv'
<1>0. BlobsInv
    BY DEF IssuanceInv
<1>1. /\ DOMAIN pipeline' = Pipelines
      /\ \A q \in Pipelines : PipelineInv(pipeline[q])'
      /\ \A q \in Pipelines : Holds(q)' =>
            q # p /\ Holds(q) /\ pipeline'[q].blob = pipeline[q].blob
    BY PipelineEnds DEF Failed
<1>2. UNCHANGED <<minted, sent>>
    BY DEF Failed
<1>3. BlobsInv'
  <2>1. CASE Step(p) = "upload" /\ \E lost \in SUBSET (Blobs \ pinned) :
                /\ pinned' = pinned \cup lost
                /\ abandoned' = abandoned \cup lost
    <3>1. /\ pinned \subseteq pinned' /\ pinned' \subseteq Blobs
          /\ abandoned' \subseteq pinned'
          /\ \A b \in abandoned' \ abandoned : b \notin pinned
        BY <1>0, <2>1 DEF BlobsInv
    <3>2. \A q \in Pipelines : Holds(q)' => pipeline[q].blob \notin abandoned' \ abandoned
        BY <1>0, <1>1, <3>1 DEF BlobsInv
    <3>3. \A t \in DOMAIN sent : Carries(sent[t]) =>
             sent[t].call.arg.ipfsCID \notin abandoned' \ abandoned
        BY <1>0, <3>1 DEF BlobsInv
    <3> QED
        BY <1>0, <1>1, <1>2, <3>1, <3>2, <3>3, BlobsRest
  <2>2. CASE /\ Step(p) \in {"prepare", "sign"} /\ pinned' = pinned
             /\ abandoned' = abandoned \cup ({pipeline[p].blob} \ {Empty})
    <3>1. pipeline[p].blob \in Blobs \cup {Empty}
        BY <2>2, PipelineTypes DEF PipelineType
    <3>2. \A b \in abandoned' \ abandoned : b = pipeline[p].blob /\ Holds(p)
        BY <2>2, <3>1 DEF Holds
    <3>3. /\ pinned' \subseteq Blobs /\ abandoned' \subseteq pinned'
        BY <1>0, <2>2, <3>1 DEF BlobsInv, Holds
    <3>4. \A q \in Pipelines : Holds(q)' => pipeline[q].blob \notin abandoned' \ abandoned
        BY <1>0, <1>1, <3>2 DEF BlobsInv
    <3>5. \A t \in DOMAIN sent : Carries(sent[t]) =>
             sent[t].call.arg.ipfsCID \notin abandoned' \ abandoned
        BY <1>0, <3>2 DEF BlobsInv
    <3> QED
        BY <1>0, <1>1, <1>2, <2>2, <3>3, <3>4, <3>5, BlobsRest
  <2>3. CASE UNCHANGED <<pinned, abandoned>>
      BY <1>0, <1>1, <1>2, <2>3, BlobsRest DEF BlobsInv
  <2> QED
      BY <2>1, <2>2, <2>3 DEF Failed
<1>4. MintedInv'
    BY <1>2, MintedKept DEF IssuanceInv
<1> QED
    BY <1>1, <1>3, <1>4, RestBrought DEF IssuanceInv

LEMMA ReopenStep ==
    ASSUME WorldMoves, IssuanceInv, UNCHANGED registryVars, Reopen
    PROVE  IssuanceInv'
<1>1. /\ UNCHANGED <<pinned, abandoned, sent>> /\ minted' = NotMinted
      /\ DOMAIN pipeline' = Pipelines
      /\ \A p \in Pipelines : pipeline'[p] = [pipeline[p] EXCEPT !.seen = FALSE]
    BY DEF Reopen
<1>2. ASSUME NEW p \in Pipelines
      PROVE  /\ PipelineInv(pipeline[p])'
             /\ pipeline'[p].write = pipeline[p].write
             /\ pipeline'[p].blob = pipeline[p].blob
  <2>1. CASE pipeline[p] = NoPipeline
    <3>1. pipeline'[p] = NoPipeline
        BY <1>1, <2>1 DEF NoPipeline
    <3> QED
        BY <2>1, <3>1 DEF PipelineInv
  <2>2. CASE pipeline[p] # NoPipeline
    <3>1. pipeline[p] \in PipelineType /\ PipelineInv(pipeline[p])
        BY <2>2 DEF IssuanceInv, PipelineInv
    <3>2. PICK new : new = [pipeline[p] EXCEPT !.seen = FALSE]
        OBVIOUS
    <3>3. /\ new \in PipelineType /\ new.write = pipeline[p].write
          /\ new.blob = pipeline[p].blob
        BY <3>1, <3>2 DEF PipelineType
    <3>4. PipelineInv(new)'
      <4>1. PipelineInv(new)
          BY <2>2, <3>1, <3>3 DEF PipelineInv
      <4> QED
          BY <4>1, PipelineKept
    <3> QED
        BY <1>1, <3>2, <3>3, <3>4 DEF PipelineInv
  <2> QED
      BY <2>1, <2>2
<1>3. BlobsInv'
  <2>1. \A p \in Pipelines :
           Holds(p)' => Holds(p) /\ pipeline'[p].blob = pipeline[p].blob
      BY <1>2 DEF Holds, Step
  <2> QED
      BY <1>1, <2>1, BlobsRest DEF IssuanceInv, BlobsInv
<1>4. MintedInv'
    BY <1>1, MintedKept DEF IssuanceInv
<1> QED
    BY <1>1, <1>2, <1>3, <1>4, RestBrought DEF IssuanceInv

LEMMA IssuanceKept ==
    ASSUME EmployerInv, [EmployerNext]_employerVars
    PROVE  IssuanceInv'
<1>0. WorldInv /\ WorldMoves /\ IssuanceInv /\ page' = page
    BY WorldStep DEF EmployerInv
<1>1. CASE UNCHANGED <<issuanceVars, registryVars, sent>>
    BY <1>0, <1>1, IssuanceRests, RestBrought
<1>2. CASE Acts
  <2>1. CASE \E p \in Pipelines, s \in Forms : Press(p, s)
      BY <1>0, <1>2, <2>1, PressStep DEF Acts
  <2>2. CASE Reopen
      BY <1>0, <1>2, <2>2, ReopenStep DEF Acts
  <2>3. CASE DashboardAct /\ UNCHANGED issuanceVars
      BY <1>1, <1>2, <2>3 DEF Acts, DashboardAct
  <2> QED
      BY <1>2, <2>1, <2>2, <2>3 DEF Acts, IssuanceAct
<1>3. CASE Follows \/ UNCHANGED employerVars
    BY <1>1, <1>3 DEF Follows, employerVars
<1>4. CASE Goes
  <2>0. UNCHANGED registryVars
      BY <1>4 DEF Goes
  <2>1. CASE UNCHANGED <<issuanceVars, sent>>
      BY <1>1, <2>0, <2>1
  <2>2. CASE /\ UNCHANGED issuanceVars
             /\ \E w \in {registering, revoking} :
                   SendWrite(w, Passes(w.by, w.call)) /\ w.step = "sign"
    <3>1. PICK w \in {registering, revoking} : SendWrite(w, Passes(w.by, w.call))
        BY <2>2
    <3>2. w.by \in Accounts /\ w.call \in RegistrationCalls \cup RevocationCalls
        BY <3>1, WriteTypes DEF SendWrite, EmployerInv, RegisteringInv, RevokingInv
    <3>3. \A t \in DOMAIN sent' :
             t \in DOMAIN sent \/ sent'[t].call.name # "createAttestation"
        BY <1>0, <3>1, <3>2, SendMoves DEF RegistrationCalls, RevocationCalls
    <3> QED
        BY <1>0, <2>0, <2>2, <3>3, IssuanceRests, RestBrought
  <2>3. CASE IssuanceStep
    <3>1. PICK p \in Pipelines :
             \/ \E b \in Blobs : Uploaded(p, b)
             \/ Prepared(p) \/ Sent(p) \/ Announced(p) \/ Failed(p)
        BY <2>3 DEF IssuanceStep
    <3> QED
        BY <1>0, <2>0, <3>1, UploadedStep, PreparedStep, SentStep, AnnouncedStep,
           FailedStep
  <2> QED
      BY <1>4, <2>1, <2>2, <2>3
         DEF Goes, DashboardStep, RegistrationSent, RevocationSent, SendWrite
<1>5. CASE Chain
  <2>1. PICK t \in DOMAIN sent : Mine(t)
      BY <1>5 DEF Chain
  <2>2. /\ DOMAIN sent' = DOMAIN sent
        /\ \A a \in AttestationIds : Exists(a)' /\ ~Exists(a) =>
              /\ InRegistry(sent'[t]) /\ sent'[t].result = a
              /\ sent'[t].call.name = "createAttestation"
              /\ attestations'[a].ipfsCID = sent'[t].call.arg.ipfsCID
      BY <1>0, <1>5, <2>1, MineStep DEF Chain
  <2>3. \A a \in AttestationIds : Brought(a)'
      BY <1>0, <2>2, BroughtKept DEF IssuanceInv
  <2> QED
      BY <1>0, <1>5, <2>2, <2>3, IssuanceRests DEF Chain
<1> QED
    BY <1>2, <1>3, <1>4, <1>5 DEF EmployerNext

-----------------------------------------------------------------------------
(* The invariant of the app, and what it says.                              *)

\* A past carries no blob that is yet to be pinned.
LEMMA PastBrought ==
    ASSUME NEW issuers \in Histories, NEW s \in Submissions, s.ipfsCID \notin Blobs,
           RegistryHolds(issuers, s)
    PROVE  \A a \in AttestationIds : attestations[a].ipfsCID \notin Blobs
<1>1. Empty \notin Blobs
    BY PipelineAssumption, EmptyAssumption
<1>2. \A a \in AttestationIds : attestations[a].ipfsCID \in {s.ipfsCID, Empty}
    BY DEF RegistryHolds, Recorded, NoAttestation
<1> QED
    BY <1>1, <1>2

LEMMA EmployerInitially == EmployerInit => EmployerInv
<1> SUFFICES ASSUME EmployerInit PROVE EmployerInv
    OBVIOUS
<1>1. PICK issuers \in Histories, s \in Submissions :
         ValidSubmission(s) /\ s.ipfsCID \notin Blobs /\ RegistryHolds(issuers, s)
    BY DEF EmployerInit
<1>2. /\ account = NoAccount /\ signer = NoAccount /\ network \in Chains
      /\ sent = <<>> /\ page \in {"/employer", "/employer/create"}
      /\ ~isConnected
    BY DEF EmployerInit, PageInit, isConnected
<1>3. WorldInv
  <2>1. RegistryInv
      BY <1>1, HistoryKeeps DEF ConsentInv
  <2> QED
      BY <1>2, <2>1 DEF WorldInv, Who
<1>4. ProfileInv
  <2>1. /\ NoRefresh \in RefreshType /\ RefreshInv(NoRefresh)
        /\ NoRefresh.step = "idle"
      BY DEF NoRefresh, RefreshType, Who, RefreshInv
  <2>2. Refreshing = {} /\ \A r \in Refreshes : refresh[r] = NoRefresh
      BY <2>1 DEF EmployerInit, ProfileInit, Refreshing
  <2>3. refresh \in [Refreshes -> RefreshType]
      BY <2>1 DEF EmployerInit, ProfileInit
  <2> QED
      BY <1>2, <2>1, <2>2, <2>3
         DEF EmployerInit, ProfileInit, ProfileInv, ProfileIsRight, Who
<1>5. RegisteringInv
  <2>1. registering = NoWrite /\ registeredHere = {}
      BY DEF EmployerInit, DashboardInit
  <2> QED
      BY <2>1, Idle DEF RegisteringInv, RegistrationIsShown, Registered
<1>6. ListInv
  <2>1. NoLoad \in LoadType /\ LoadInv(NoLoad) /\ NoLoad.step = "idle"
      BY DEF NoLoad, LoadType, Who, LoadInv
  <2>2. Loading = {} /\ \A l \in Loads : load[l] = NoLoad
      BY <2>1 DEF EmployerInit, DashboardInit, Loading
  <2>3. load \in [Loads -> LoadType] /\ shownList = {}
      BY <2>1 DEF EmployerInit, DashboardInit
  <2> QED
      BY <1>2, <2>1, <2>2, <2>3 DEF ListInv, ListIsRight, DashboardShown
<1>7. RevokingInv
  <2>1. revoking = NoWrite /\ revokedHere = {} /\ revokingId = 0
      BY DEF EmployerInit, DashboardInit
  <2> QED
      BY <2>1, Idle DEF RevokingInv, HasRevoked
<1>8. IssuanceInv
  <2>1. /\ DOMAIN pipeline = Pipelines
        /\ \A p \in Pipelines : pipeline[p] = NoPipeline
        /\ minted = NotMinted /\ pinned = {} /\ abandoned = {}
      BY DEF EmployerInit, IssuanceInit
  <2>2. \A p \in Pipelines : ~Holds(p)
      BY <2>1 DEF Holds, Step, NoPipeline, NoWrite
  <2>3. DOMAIN sent = {}
      BY <1>2
  <2>4. \A a \in AttestationIds : Brought(a)
      BY <1>1, PastBrought DEF Brought
  <2> QED
      BY <2>1, <2>2, <2>3, <2>4 DEF IssuanceInv, PipelineInv, BlobsInv, MintedInv
<1> QED
    BY <1>3, <1>4, <1>5, <1>6, <1>7, <1>8 DEF EmployerInv

LEMMA EmployerInvariant == EmployerSpec => []EmployerInv
<1>1. EmployerInit => EmployerInv
    BY EmployerInitially
<1>2. EmployerInv /\ [EmployerNext]_employerVars => EmployerInv'
    BY WorldStep, ProfileKept, RegisteringKept, ListKept, RevokingKept, IssuanceKept
       DEF EmployerInv
<1> QED
    BY <1>1, <1>2, PTL DEF EmployerSpec

\* refreshEmployerStatus (Web3Context.tsx): once every read is answered, and
\* unless reads overlapped, failed or were for an account no longer shown, the
\* page takes the account for an employer only if it is registered, and shows
\* its own profile.
THEOREM ProfileHolds == EmployerSpec => []ProfileIsRight
<1>1. EmployerInv => ProfileIsRight
    BY DEF EmployerInv, ProfileInv
<1> QED
    BY <1>1, EmployerInvariant, PTL

\* handleRegisterEmployer (EmployerDashboard.tsx): an account this page has
\* registered is shown the dashboard, with the same reservation.
THEOREM RegistrationHolds == EmployerSpec => []RegistrationIsShown
<1>1. EmployerInv => RegistrationIsShown
    BY DEF EmployerInv, RegisteringInv
<1> QED
    BY <1>1, EmployerInvariant, PTL

\* loadIssuedAttestations and handleRevokeAttestation (EmployerDashboard.tsx):
\* the list is that of the account shown, and what this page has revoked is
\* listed as revoked, unless loads overlapped, failed or were for another.
THEOREM ListHolds == EmployerSpec => []ListIsRight
<1>1. EmployerInv => ListIsRight
    BY DEF EmployerInv, ListInv
<1> QED
    BY <1>1, EmployerInvariant, PTL

LEMMA MintedIssued == EmployerInv => AnnouncedIsIssued
<1> SUFFICES ASSUME EmployerInv, minted # NotMinted,
                    sent[minted.tx].chain = RegistryChain
             PROVE  /\ minted.id = sent[minted.tx].result
                    /\ Exists(minted.id)
                    /\ attestations[minted.id].employer = sent[minted.tx].from
                    /\ attestations[minted.id].employee = sent[minted.tx].call.arg.employee
                    /\ attestations[minted.id].ipfsCID = sent[minted.tx].call.arg.ipfsCID
    BY DEF AnnouncedIsIssued
<1>1. /\ minted.tx \in DOMAIN sent /\ InRegistry(sent[minted.tx])
      /\ sent[minted.tx].call.name = "createAttestation"
      /\ minted.id = IdInReceipt(minted.tx)
    BY DEF EmployerInv, IssuanceInv, MintedInv, InRegistry
<1>2. WorldInv /\ Done(sent[minted.tx])
    BY <1>1, TxTypes DEF EmployerInv
<1>3. sent[minted.tx].result # 0
    BY <1>1, <1>2, BoundAssumption DEF Done
<1>4. minted.id = sent[minted.tx].result
    BY <1>1, <1>3 DEF IdInReceipt
<1> QED
    BY <1>1, <1>2, <1>4 DEF Done

\* handleSubmit (CreateAttestation.tsx): the id announced is that of the
\* attestation sent by the press, whatever other pipelines, pages and accounts
\* there were in between.
THEOREM AnnouncementHolds == EmployerSpec => []AnnouncedIsIssued
BY EmployerInvariant, MintedIssued, PTL

LEMMA BlobsOwn == EmployerInv => DocumentsAreOwn
<1> SUFFICES ASSUME EmployerInv, NEW a \in AttestationIds, Exists(a),
                    attestations[a].ipfsCID \in Blobs
             PROVE  /\ attestations[a].ipfsCID \in pinned \ abandoned
                    /\ \A b \in AttestationIds \ {a} :
                          attestations[b].ipfsCID # attestations[a].ipfsCID
    BY DEF DocumentsAreOwn
<1>1. BlobsInv /\ RegistryInv /\ \A b \in AttestationIds : Brought(b)
    BY DEF EmployerInv, IssuanceInv, WorldInv
<1>2. PICK t \in DOMAIN sent :
         /\ sent[t].result = a /\ Carries(sent[t])
         /\ sent[t].call.arg.ipfsCID = attestations[a].ipfsCID
    BY <1>1 DEF Brought
<1>3. ASSUME NEW b \in AttestationIds \ {a},
             attestations[b].ipfsCID = attestations[a].ipfsCID
      PROVE  FALSE
  <2>1. Exists(b)
    <3>1. Empty \notin Blobs
        BY PipelineAssumption, EmptyAssumption
    <3>2. ~Exists(b) => attestations[b].ipfsCID = Empty
        BY <1>1 DEF RegistryInv, IdsMatchCounters, NoAttestation
    <3> QED
        BY <1>3, <3>1, <3>2
  <2>2. PICK u \in DOMAIN sent :
           /\ sent[u].result = b /\ Carries(sent[u])
           /\ sent[u].call.arg.ipfsCID = attestations[b].ipfsCID
      BY <1>1, <1>3, <2>1 DEF Brought
  <2>3. t = u
      BY <1>1, <1>2, <1>3, <2>2 DEF BlobsInv
  <2> QED
      BY <1>2, <1>3, <2>2, <2>3
<1> QED
    BY <1>1, <1>2, <1>3 DEF BlobsInv

\* handleSubmit (CreateAttestation.tsx) and the upload: no two attestations share
\* a document, however often a failed submission is repeated, and what a pipeline
\* pinned and then abandoned is on none.
THEOREM DocumentsHold == EmployerSpec => []DocumentsAreOwn
BY EmployerInvariant, BlobsOwn, PTL

=============================================================================
