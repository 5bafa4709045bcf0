# WorkProof in TLA+

A formal model of the WorkProof employment-attestation network: the Solidity
contract `EmploymentRegistry.sol` and the abstract promise it makes about consent;
the Express backend that uploads, encrypts and hands out the supporting documents
and serves the registry over HTTP; the web page, from the wallet session to the
five pages that read and write the registry; and the script that seeds the demo.
The modules are checked with TLC on small instances; the theorems are proved with
TLAPS for every value of the constants.

Source paths below are relative to the repository root; `src/` in
`PROJECT.json` is that root.

## 1. The system

### Inventory

| Component | State | Operations | Interacts with |
| --- | --- | --- | --- |
| **EmploymentRegistry** `blockchain/contracts/EmploymentRegistry.sol` | employers, attestations, access requests, two counters, four id lists, `_authorizedVerifiers` | `registerEmployer`, `createAttestation`, `revokeAttestation`, `requestDocumentAccess`, `approveDocumentAccess`, `rejectDocumentAccess`, the views | called by wallets through MetaMask, by the backend's dev signer and by the seed script; read by everybody |
| **Document service** `backend/src/controllers/document.controller.ts`, `services/encryption`, `ipfs`, `signature` | none of its own but the in-memory mock store; blobs at Pinata; the environment it was started with | upload (hash, encrypt, pin), prepare (hash), decrypt (verify signature, read chain twice, fetch, open, compare) | reads the registry over RPC, talks to Pinata, called by the portals |
| **Blockchain service** `backend/src/services/blockchain.service.ts`, `config/blockchain.ts` | cached provider and interface | reads; six development writes that send, wait and read the id from the receipt's events | RPC node |
| **Read and write API** the other controllers, `routes/*`, `middleware/*`, `app.ts` | none | validate, call the blockchain service, map reverts to HTTP statuses | portals, blockchain service |
| **Hashing** `services/hashing.service.ts`, `utils/canonicalize.ts` | none | SHA-256 of a file, of an identifier, of a canonical record | document service |
| **Wallet context** `frontend/src/context/Web3Context.tsx` | account, signer, chain, employer profile | connect, restore, disconnect, switch network, follow MetaMask's events, refresh the profile | every page; MetaMask |
| **Issuance portal** `frontend/src/pages/EmployerDashboard.tsx`, `CreateAttestation.tsx` | list of attestations, dialogues, the pipeline | register, issue (upload, prepare, sign, wait), revoke, list | wallet context, backend, registry |
| **Verification and consent portals** `Verification.tsx`, `EmployeeDashboard.tsx`, `AccessRequests.tsx` | what was found, authorization, open document, lists, marks | search, ask for access, sign and decrypt, list, answer requests | wallet context, backend, registry |
| **Scripts** `blockchain/scripts/deploy.ts`, `seed.ts` | none | deploy; register, issue, revoke, request and approve demo data | registry |

### What is hard

* **Consent is one bit written by several requests.** A verifier may have any
  number of requests open for one attestation; the employee answers them in any
  order, and each answer overwrites `_authorizedVerifiers`. Answers are also
  accepted after the attestation was revoked.
* **Facts stored once and read for ever.** An attestation's status is computed from the
  block time at issue; existence is a non-zero timestamp.
* **The decrypt handler reads the chain twice and then awaits a store.** The
  attestation, the authorization and the blob belong to three different moments,
  with transactions of three parties in between.
* **Two stores with different lives.** Pinata survives the process, the mock
  store does not, and which one is used depends on the environment and on a
  failing request. A pin whose answer is lost is an orphan. The key that opens a
  blob lives in the environment of another process start.
* **The wallet moves under the page.** The user changes account and network
  between any two steps of any handler. The account is set at once, the signer
  when a promise resolves; a connection flow stores what it was told three awaits
  ago.
* **Every handler runs with the closure of its render.** Answers are stored
  without a look at what the page shows by then: account, attestation, list. Loads
  and refreshes overlap and the last one to end wins; one flag or one mark serves
  several of them.
* **A transaction is out of the page's hands once sent.** The estimate passed on an
  earlier state, the wait may fail while the transaction is still to be mined, and
  on another network there is no contract at the address and everything passes.
* **The API's answers are made of several moments.** Two reads at once, a write
  between estimate, nonce, sending and receipt, each with an error of its own.

### What makes each component correct

* *Registry*: the access a verifier has is what the employee last answered, moves
  only by the hand of employee or issuer, and ends for good with revocation;
  records, counters and lists agree; time along a record's life is in order.
* *Document service*: a document goes only to whom the chain entitled while the
  call was under way, and only the document whose hash is on chain; owners are not
  locked out; what was answered as stored stays stored; every call ends.
* *Wallet context*: what the page signs is signed by the selected account; the
  account it shows is the selected one; no attempt to connect blocks the next.
* *Issuance portal*: the id announced is the one issued; no two attestations share a
  document; list and profile are those of the account shown.
* *Verification and consent portals*: an answer is shown for the attestation and
  account it was asked for; lists miss nothing that waits for the employee; an
  answer that was seen through stands.
* *API*: a success has happened, a refusal has not and will not, and what was
  announced can be read.
* *Seed script*: leaves the demo state the guide promises, and lets nobody in whom
  it does not mean to.

## 2. Modules

| Module | Models | Extends |
| --- | --- | --- |
| `AccessConsent` | the abstract promise: credentials, asks, one answer per ask, grants | |
| `EmploymentRegistry` | the whole contract; each external function is an action | |
| `EmploymentRegistryProofs`, `RegistryRecordsProofs` | theorems about it | the contract |
| `DocumentService` | upload and decrypt handlers beside a live registry | the contract |
| `DocumentServiceProofs` | theorems about it | the service |
| `SeedScript` | the seed script, beside registry and document service | the service |
| `SeedScriptProofs` | theorems about it | the script, `EmploymentRegistryProofs` |
| `PageSession` | the abstract wallet session: what a page may rely on | |
| `WalletSession` | `Web3Context.tsx` and the browser wallet; implements `PageSession` | |
| `WalletSessionProofs` | theorems about it | the session |
| `WalletTransactions` | how a page writes: estimate, confirm, send, wait | `PageSession` |
| `RegistryHistory` | a registry with a past, for clients to find | the contract |
| `EmployerSession` | the employer profile and its refresh | `WalletTransactions`, `RegistryHistory` |
| `EmployerDashboard`, `IssuancePortal` | the two pages of the employer | `EmployerSession` |
| `EmployerApp` | one of them mounted, over session, wallet and contract | both pages |
| `EmployerAppProofs` | theorems about it | the app, `RegistryRecordsProofs` |
| `ReaderSession` | session, transactions and registry for the other pages | `WalletTransactions`, `AccessConsent` |
| `VerifierPortal` | `Verification.tsx` | `ReaderSession` |
| `EmployeeLoads` | the reads both pages of the employee make | `ReaderSession` |
| `EmployeeDashboard`, `AccessRequests` | the two pages of the employee | `EmployeeLoads` |
| `ReaderApp` | one of the three mounted, others acting on the registry | the three pages |
| `ReaderAppProofs` | theorems about it | the app |
| `BackendApi` | routes, controllers, blockchain service and error mapping | `RegistryHistory` |
| `BackendApiProofs` | theorems about it | the API, `RegistryRecordsProofs` |
| `MCRegistry`, `MCDocumentService`, `MCSeedScript`, `MCWalletSession`, `MCEmployerApp`, `MCReaderApp`, `MCBackendApi` | instances for TLC | |

Two abstractions join the layers, each shown to be implemented by what it stands
for. The employer's pages run on the contract itself, because what they show are its
ids and statuses. The employee's and the verifier's pages see only owners,
withdrawals, requests and grants, so they run on `AccessConsent`, which
`EmploymentRegistry` implements (run `RegistryConsent`, theorem
`RegistryImplementsConsent`). All pages run on `PageSession`, which `WalletSession`
implements (run `Session`, theorem `SessionImplementsPage`): a page meets every change
of account, signer and network the real session can show it.

The definitions named `..._Something` after a function or an operator are faulty
variants of it, kept beside the original: each is a bug that could be made there,
and shows that the property it is used against can fail.

### EmploymentRegistry

Every storage variable of the contract is a variable of the module under its own
name without the underscore; mappings are total functions over bounded ids
(`MaxAttestations`, `MaxRequests`), as a Solidity mapping is total, with the zero
record for what was never written. Fields no property tells apart are left out
(`employerAddress`, `attestationId` and `requestId`, which repeat the mapping's
key, and `requestType`, which is free text). `block.timestamp` is
`blockTimestamp`; several transactions share a block, `NextBlock` moves it, and
`MaxTime` bounds it. `event` holds the last event, so that a property can say who
did what. A reverting call changes nothing and is a stuttering step.

`Submissions` is the set of arguments `createAttestation` is called with; it holds
arguments a `require` turns down as well.

### AccessConsent and the refinement

`AccessConsent` knows owners, withdrawn credentials, asks and grants; no clocks,
counters, lists or hashes. `EmploymentRegistry!ImplementsConsent` maps a stored
request to an ask (open while PENDING) and `authorizedVerifiers` to `granted`.
Registration, the clock and employer bookkeeping map to stutters.

### DocumentService

The module extends the registry: a step is a registry transaction, a step of a
handler, or a restart of the backend. A decryption call goes through
`reading` (awaiting `getAttestation`), `authorizing` (awaiting
`hasDocumentAccess`), `fetching` (awaiting the store), and ends `answered` with an
outcome (the HTTP status and its reason) or `dropped` by a restart. What a handler
read is kept in its record while the chain moves on. An upload goes through
`storing`, perhaps `unanswered` (Pinata pinned it, the answer was lost), and ends
`stored` (201), `failed` or `dropped`.

A document is its SHA-256 hash. Encryption is modelled by what it does: a blob
remembers the document it was made from and the master key it is under, and opens
only under the same master key and the same document hash (the key is derived from
both). The IV is random, so a new blob's CID is one no blob and no attestation has.
A signature is `absent`, `valid` or `invalid`; invalid covers a wrong signer, a
challenge for another attestation and one older than 300 s.
`Restart` may change the environment, as an operator may.

History: `arrival` of a call (the process it came to, whether the attestation was
revoked and the caller had access then) and `under` of an upload.

### SeedScript

`seedStep` is the transaction the script is waiting for, or how its latest run
ended: `done`, `reverted` (a `require` turned the transaction down, which throws)
or `interrupted` (the node is gone or the script was stopped; what was mined
stays). `After` is the order of the transactions; each is the registry's action
with the signer and the literal ids of `seed.ts`. A run starts on whatever the
runs before have left (`attach`). `seedIssued` is history: the ids the run's own
attestations were given. The script deploys the contract only where there is none;
that is the registry's `Init`. No other wallet sends transactions here. Two named
bounds, `MaxAttestations` and `MaxRequests`, are tested when a run starts, so that
no bound of the model ends one.

### WalletSession and PageSession

The wallet has `selected` and `network`; the page has `account`, `chainId`, `signer`
and `isConnecting`, as in the context. The wallet answers requests and sends events
over one ordered channel, so a change of the wallet and the handler of its event are
one step, and a request is answered with what the wallet says at the step that
delivers the answer. A `flow` is one attempt to connect: the page's own when it loads
(`Restoring`, the auto-connect effect, which writes no spinner and no error) or one
of the user's. It is told accounts, network and signer one after another and stores
them together at the end. `signerAsks` counts the `getSigner()` calls of
`handleAccountsChanged` that are still to be answered: the answers are alike, so a
number is enough. `FlowFails` stands for every way an attempt throws: declined,
another prompt open, wallet locked. `MaxSwitches` bounds what the user does in the
wallet. There is one `Restoring` flow, as in a build; in development React's StrictMode
runs the effect twice, which is not modelled.

`PageSession` keeps account, signer and network, and four steps: an account is shown
and its signer may follow, a signer arrives, both are forgotten, the wallet moves to
another network.

### WalletTransactions

`await contract.f(...)` and `await tx.wait()`, which all pages use, as the pages see
them: `Begun` (the handler holds the signer and the account of the click),
`SendWrite` (on the registry's network the call must pass the estimate; elsewhere
there is no code at the address and every call passes), `Waiting`, `Mined`,
`WriteFails`. Between sending and mining the transaction is in `sent`; it is mined or
reverts on the registry as it is by then, and the handler's wait may fail first.
ethers, the wallet and the node are not in the repository, so the module is marked
external in the map.

Handlers that may run more than once at a time have numbered slots, and a new one
takes the first free slot (`FirstFree`), so that slots are not told apart by their
numbers. `Loads`, `Refreshes`, `Checks`, `Pipelines` and `Handlers` bound how many run at
once; a step that would need one more is not taken.

### EmployerSession, EmployerDashboard, IssuancePortal, EmployerApp

`refreshEmployerStatus` is two awaited reads, and stores each answer at once;
`StartRefresh` takes the account of the closure. The effects of a page run in the
step that changes what they depend on (`ProfileFollows`, `ListFollows`).
`handleRegisterEmployer` and `handleRevokeAttestation` go from the press over sending
and mining to a reload they await, with the closure of the press.
`loadIssuedAttestations` reads the ids and then one attestation after another, while
the registry moves on.

A `pipeline` is one run of `handleSubmit`: `upload` (left out without a file),
`prepare`, `sign`, `mine`. `Forms` is what the form may hold when the button is
pressed; with its blob it is one of the `Submissions`, valid or not. A failed upload may have pinned its blob (`Failed`). The
user may leave the page meanwhile: the run goes on unseen, and the form that is opened
next is empty (`Reopen`). `EmployerApp` mounts one of the pages (`page`) over the
session and a contract with a past; the past carries no blob that is yet to be pinned.

Five variables remember what no code does, for the properties: `registeredHere`,
`revokedHere`, `abandoned`, and `profileUnsure` and `listUnsure`. The last two say that
refreshes or loads have overlapped since the state was quiet, or that the last one
failed or was begun for an account that is no longer shown. The code promises nothing
then, and `ProfileSync` shows what does go wrong; the properties hold in all other
states, which are those of a user who waits for the spinner.

### ReaderSession, VerifierPortal, EmployeeLoads, EmployeeDashboard, AccessRequests, ReaderApp

`ReaderSession` joins the page session, the page's transactions and `AccessConsent`.
Some credentials have been issued when a page loads; `Elsewhere` is what others do while
it is open: employers issue the remaining ones and withdraw, verifiers ask, the employee
answers from another device. That a verifier must be a registered employer is left out:
one who is not finds every request turned down, which is a `RequestFails`.

`VerifierPortal` has the search (two reads, the record as of the first), the check of
authorization by the handler (for the account of the click) and by the effect (for the
account there is now), the request, and the decryption with its challenge: `Expire`
makes it older than the service accepts, `Granted` are the service's own conditions at
the moment it checks them. `EmployeeLoads` is the chain of reads that `loadEmployeeData`
and `loadAccessRequests` both make: ids, then for each credential its record and the ids
of its requests, then each request. `ReadCredential` joins the reads of one credential
(`EmployeeDashboard.tsx:49-69`: record, employer, ids of its requests), of which only
the last matters to the list of requests. `EmployeeDashboard` adds the search by hash:
the ids once, then row by row. `AccessRequests` has one `processingId` for all handlers,
as in the code. History: `answerFor`, `checksUnsure`, `carriedOver`, `listingUnsure`,
`answeredHere`, `markerMoved`, `open` of a load, `known` and `gone` of a search by hash.

### BackendApi

A `call` is one HTTP call. `Receive` applies the schema of the route (400); reads are
one `eth_call`, `access` two at once (`Promise.all`) that are answered in either
order; a write goes through `estimating` (the `require`s in their order, each with the
status `errorHandler.ts` gives its reason), `sending` with the nonce it was given, and
`waiting` for the receipt. The calls begin on a registry with a past (`RegistryHolds`).
`RpcFails` is any error of the node at any of these steps.
Every call has a wallet object of its own, so the nonce may be taken by another call
under the same key; then only one of the two is sent. The address may hold no
contract (`deployed`). Other senders' transactions are the registry's own steps, at
most `MaxOthers`.

## 3. Runs

| Run | Instance | Shows |
| --- | --- | --- |
| `RegistryConsent` | 3 wallets, 1 attestation, 3 requests, 3 block times, wallets symmetric | requests agree with attestations, the latest answer decides, access moves by its owners, revocation is final; the contract implements `AccessConsent` |
| `RegistryRecords` | 2 wallets, 2 attestations, 2 requests, 3 block times | the inductive invariant with all types, the four id lists against the records, and the order of times |
| `RegistryWithdraw` | violation | an employee cannot end an access once granted |
| `ServiceAccess` | 3 wallets, 1 attestation, 2 requests, 2 block times, 1 call, 1 upload, production | who is served and who is refused while consent and revocation move between the handler's reads |
| `ServiceStorage` | 1 wallet, 1 attestation, 1 call, 2 uploads, 2 files, 2 CIDs, three environments | what is served, what survives restarts and changes of key; every accepted call ends |
| `SeedRuns` | 4 signers, 3 runs, 9 attestations, 6 requests, 2 block times | what the first complete run leaves, and whom any run lets in however often runs are cut short |
| `SeedOwn` | violation | after a run that was cut short, the script revokes another attestation than its own |
| `Session` | 2 accounts, 2 networks, 3 connection flows, 3 changes of the wallet | signer and account against the wallet, the spinner, that the signer catches up; the session implements `PageSession` |
| `EmployerApp` | 2 accounts, 1 attestation to begin with, 2 transactions, 2 refreshes, 2 loads, 2 pipelines, 4 acts of the user | profile and list are of the account shown; registrations show; the id announced is the one issued; documents are not shared |
| `ProfileSync` | violation, same instance | the profile of the earlier account is stored after the account changed |
| `ReaderApp` | 2 accounts, 2 credentials issued before or meanwhile, 2 requests, 2 transactions, 3 checks, 2 loads, 2 answers, 4 acts of user and others | authorization, messages, documents and lists are of the attestation and account shown; a search by hash shows nothing or is as recent as its start; answers stand |
| `BackendApi` | 2 calls, 2 transactions of others, 3 attestations, 2 requests, 2 wallets, with and without a contract | successes happened, refusals did nothing, reads see what was announced, the two halves of an access answer fit |

*Bounds.* Three requests of one verifier give every order of approve and reject
with one request still open, and three wallets give an employee, an issuer and a
third-party verifier (or an issuer who is also a verifier). Two attestations are
what an index or a counter needs to confuse two records. Three block times allow a
request, an answer and a later answer at different times and in the same block.
Decryption calls share nothing but the chain and the stores, which one call meets in
every state, so one call is enough; two uploads are needed for two blobs to compete. In
`ServiceAccess` the last event is left out of the state's fingerprint (`View`): no
action and no property of the service reads it; the same holds in `BackendApi`
(`MCView`). Wallets are symmetric in the
invariant runs only; `ServiceAccess` keeps the employee apart. Three runs of the
seed script are two interrupted ones, at any two points, before one that may end.

In `Session`, three flows are the page's own and two presses, and three changes are a
switch, one back and one more between any two answers of a flow. In the two app runs the
bound that matters is `MaxActs`: four of the user's acts are a connection, a press, a
change of account while its handler runs, and one act more (a second press, or a change
back). Handlers, reads and the chain are not bounded by it and go on in every order. Two
loads overlap; three checks are the two that a search begins and one more for a changed
account; two answers are enough for one to take the mark of the other. With the page of
requests open each account of `ReaderApp` owns a credential when it loads
(`MCReaderInit`), which leaves that page the other three things others do; the other two
pages begin with any owners, or none. An issue by another is an act like any other; two
credentials are what a list or a search needs for one to be there before and one to come
meanwhile. In `BackendApi` two calls cover two writes under one key, a write and a read
that follows it, and two writes that compete for one id, each with others' transactions
between any two steps.

*Symmetry* is declared only in runs without liveness, over values no definition tells
apart: calls, blobs, and in `ReaderApp` the two accounts and the two credentials, whose
owners are part of the state. `RegistryConsent` and `ServiceAccess` are described above.

*Deadlock* is not checked: all counters are bounded, so a run of the bounded
model ends when they are used up, and the program itself may rest for ever when
nobody calls it or presses a button.

*Fairness.* The registry has none: nobody has to send a transaction.
`ServiceSpec` is weakly fair for the steps of each decryption handler. Node runs a
handler once its await settles, and both kinds of await settle: the ethers
provider times a request out, and the gateway request has `timeout: 15000`
(`ipfs.service.ts:88`). The upload has no fairness: the pin request has no timeout
(`ipfs.service.ts:70`), so an upload may wait for ever and no liveness of uploads
is claimed. `FairSessionSpec` is weakly fair for `AnswerSigner` alone: the browser
delivers what the wallet has answered to a question that takes no decision of the
user's, as the page has been given the account. Connection flows have none: a prompt
may stay open for ever. The pages have none either: a wallet prompt and a transaction may
wait for ever, and their properties are about what is shown, not when.

## 4. Proofs

`EmploymentRegistryProofs` and, for the last two, `RegistryRecordsProofs` prove, for any wallets, data, submissions and bounds
(from the three assumptions `EmptyAssumption`, `InputAssumption` and
`BoundAssumption`):

| Theorem | States |
| --- | --- |
| `RegistryInvariant` | `Spec => []RegistryInv` |
| `TypeCorrect` | `Spec => []TypeOK` |
| `RequestsTrusted` | `Spec => []RequestsMatchAttestations` |
| `LatestAnswerHolds` | `Spec => []LatestAnswerDecides` |
| `AccessMovesByOwner` | `Spec => AccessChangesByOwner` |
| `RevocationHolds` | `Spec => RevocationIsFinal` |
| `RegistryImplementsConsent` | `Spec => ImplementsConsent` |
| `ListsMatchRecords` | `Spec => []IndexesMatchRecords` |
| `TimeMovesForward` | `Spec => []Chronology` |

*Argument.* `TypeOK` is not inductive alone: an answer writes to the authorization
of the attestation its request names, and only `RequestsMatchAttestations` says
that is an attestation at all. That in turn needs `IdsMatchCounters` (a new id
overwrites nothing) and `AttestationsComplete` (an attestation has an employee).
Together they are `RegistryInv`, proved inductive with one step per contract
function. `LatestAnswerDecides` adds that no answer is later than the block being
built (`AnswersPast`), so a new answer is always among the latest. The action
properties and the refinement follow from these step by step: an answer finds its
request open, its attestation issued and its verifier a wallet other than the
employee. `IndexesMatchRecords` is inductive beside `RegistryInv`: by
`IdsMatchCounters` a new id is greater than every id in use, so appending it keeps a
list sorted (`ListsAppend`), and the fields the lists go by are never rewritten.
`Chronology` needs two facts more, that no employer and no request is dated in the
future (`RegistrationsPast`, `RequestsPast`): what a transaction dates with the block
being built is then at least as late as all it refers to.

`DocumentServiceProofs` proves, from those assumptions and
`ConfigurationAssumption`, for any number of calls, uploads, restarts and
environments:

| Theorem | States |
| --- | --- |
| `ServedEntitled` | `ServiceSpec => []ServedToEntitled` |
| `RevokedNeverServed` | `ServiceSpec => []NoServiceAfterRevocation` |
| `OriginalServed` | `ServiceSpec => []ServedIsOriginal` |
| `OwnersRefused` | `ServiceSpec => []OwnerRefusedOnlyByRevocation` |
| `UploadsOutlive` | `ServiceSpec => []UploadsSurvive` |
| `DecryptionOpens` | `ServiceSpec => []UploadedOpens` |
| `ServiceTypes` | `ServiceSpec => []ServiceTypeOK` |

*Argument.* Every step of the service is a step of the registry or leaves it alone
(`RegistryAside`), so the registry's invariant holds beside it. The invariant
`ServiceInv` adds one predicate for each call, `CallInv`: what the handler holds
agrees with the chain in the fields it uses (`CallRecord`), and a call that is
still running and finds access on chain had it on arrival or was approved since
(`CallEntitled`). The last is what carries consent across the awaits: access that
was not there on arrival can only have come from an approval, in the block being
built, of a request that names this verifier (`AuthorizedByApproval`), and an
approval is never changed again (`ApprovalPersists`). `TransactionKeepsCall` shows
that every transaction between two steps of a handler keeps `CallInv`; one lemma per
handler step shows what the step makes of its own call. Fields the handler reads
once and uses later do not move, because no transaction rewrites an issued record
(`Persistence`). Neither the stores nor the uploads enter this part of the argument:
`Opens` compares what was decrypted with the record's hash, whatever blob was found.

The stores have an invariant of their own, `StoreInv`: pinned and mocked blobs are
sealed, no CID is in both stores, and a stored upload's blob is the one under its CID
(`UploadInv`). Its step rests on `BlobsStay`: a new blob takes a CID that no blob has,
so what was sealed is never sealed again. `CallsInv` then says what a refusal answers
for (`RefusalInv`: owners of a record never change and a revocation is never undone) and
what a failed decryption does (`KeyInv`: the blob was sealed when the handler looked for
it, and not with the attested document under this process's key; a sealed blob stays
what it is, so the same holds of the upload it came from).

`WalletSessionProofs` proves, from `SessionAssumption`, for any accounts, networks,
attempts to connect and changes of the wallet:

| Theorem | States |
| --- | --- |
| `SessionInvariant` | `SessionSpec => []SessionInv` |
| `SignerIsSelected` | `SessionSpec => []SignerFollowsWallet` |
| `NoSignerWhileLocked` | `SessionSpec => []LockedHasNoSigner` |
| `SpinnerAlwaysEnds` | `SessionSpec => []SpinnerEnds` |
| `OnlyFlowsLeave` | `SessionSpec => OnlyFlowsFallBehind` |
| `SessionImplementsPage` | `SessionSpec => ImplementsPage` |

*Argument.* `SignerFollowsWallet` is not inductive alone. A switch raises
`signerAsks`, so it may leave the signer behind; but when the wallet is locked and
another account is exposed later, the only signer that could still be there is one
that survived the lock, and `LockedHasNoSigner` says there is none: the handler of the
lock forgets it, and neither an answer nor a flow can bring one while the wallet is
locked. The refinement needs `FlowsHoldAccounts`: what a flow stores at its end is an
account, because a flow past its first answer was told one. Together with the types
and `SpinnerEnds` these are `SessionInv`, proved inductive with one lemma for the flows
and one for the wallet. `SessionStepIsPageStep` maps each step: a flow's end and a
switch to `Show`, an answer to `Renew`, lock and disconnect to `Forget`, both changes of
network to `Move`, everything else to a stutter.

`BackendApiProofs` proves, from the registry's assumptions, `HistoryAssumption` (a past
has at most `MaxAttestations` attestations, by wallets), `OthersAssumption` and
`CallsAssumption` (the calls are finitely many, so that what a key has sent can be
counted), for any number of calls and of other senders' transactions:

| Theorem | States |
| --- | --- |
| `WritesHappened` | `ApiSpec => []AnsweredWritesHappened` |
| `RefusalsAreFinal` | `ApiSpec => []RefusedWritesDidNothing` |
| `ReadsFollowWrites` | `ApiSpec => []ReadsSeeAnswers` |
| `AccessAnswersFit` | `ApiSpec => []AccessViewHolds` |
| `ApiTypes` | `ApiSpec => []ApiTypeOK` |

*Argument.* The registry starts with a past (`RegistryHolds`), so its invariants are
first shown of that start (`CountingLists`, `HistoryKeeps` in
`RegistryRecordsProofs`). `ApiInv` is the registry's invariants and one predicate for
each call, `CallInv`: which fields the step it is at allows (`Phase`), that a mined
transaction has done what was asked (`Done`), that the attestations announced before it
came in exist (`Knows`), and that the list and the authorization it has read still hold
(`ListHolds`, `AccessHolds`). `CallKept` shows that a transaction of anybody keeps all
of them: records persist, a list only grows at its end (`ListsGrow`), and a new request
has a number above `made`. Each step of a handler then has a lemma that says what it
makes of its own call. A mined transaction is one of the contract's actions
(`MinedDone`), and its event names the id that did not exist before it; that is
why no two calls are told the same one (`IdsDiffer`). `AccessAnswersFit` is where two
reads meet: an authorization read first or last comes from an answered request
(`LatestAnswerDecides`), and that request is in the attestation's list
(`IndexesMatchRecords`), so the list that was read holds it unless it was made later.

`SeedScriptProofs` proves, from the registry's assumptions and `SeedAssumption` (the
script's arguments, its four signers and room for one run), for any number of runs, cut
short anywhere:

| Theorem | States |
| --- | --- |
| `FirstRunSeeds` | `SeedSpec => []SeededAsPromised` |
| `OthersStayOut` | `SeedSpec => []OnlyFirstIsOpened` |

*Argument.* Every step of the script is one of the contract's (`SeedFollowsRegistry`),
so `RegistryInv` holds. `OpenedInv` says what survives any number of runs: number 1 is
the script's first attestation, because only `issue1` can come first, request 1 is for it
and by the script's verifier, and nobody else is let in; the only approval is of
request 1. `FirstRun` says what the registry holds at each transaction of a first run
(`IssuedBefore`, `AskedBefore`); a later run has a larger `seedRuns` and makes no such
claim, as the counters have moved on (run `SeedOwn`).

`ReaderAppProofs` proves, from `PageAssumption`, `ReaderAssumption`,
`DocumentAssumption`, `LoadAssumption` and `HandlerAssumption` (accounts are wallets,
`NoCredential` and `Nobody` are nobody's, handlers are numbered), for any number of credentials,
requests, checks, loads, answers and acts:

| Theorem | States |
| --- | --- |
| `AuthorizationForWhatIsShown` | `ReaderSpec => []AuthorizationIsAnswered` |
| `ResultsAreForWhatIsShown` | `ReaderSpec => []NothingCarriesOver` |
| `ListingsAreRight` | `ReaderSpec => []ListingIsRight` |
| `HashResultsWhole` | `ReaderSpec => []HashResultsAreWhole` |
| `SeenAnswersStand` | `ReaderSpec => []AnswersStand` |
| `TwiceOnlyOnceUnmarked` | `ReaderSpec => []TwiceOnlyUnmarked` |

*Argument.* `ReaderInv` has a part for the world and one for each page. `WorldMoves` is
all a page needs to know of what others do: an issued credential keeps its owner, an ask
that was closed stays closed, a withdrawal stays, a transaction stays as it was sent, and only one transaction of
the page has answered an ask. Of the verifier's page, `ChecksInv` says for whom the
checks in flight were begun and `CarryInv` for which attestation handlers and results
are. Of a load, `LoadInv` says that each request open since the load read the ids is still
to be read, or found: by its credential in `todo`, by its number in `asks`, or as a row.
A request that is answered meanwhile drops out of the claim; one that is made
meanwhile was never in it. `HashSearchInv` says the same of a search by hash: each
credential that was under the hash when it began is still in `todo` or has a row, with the
withdrawals made by then, and nothing it reads can stop being so (`HashSearchKept`); what
is issued after the ids were read is in neither claim. `AnswersStand` needs the load that follows an answer: a
handler that waits for one is alone with it (`ReloadsApart`), and nothing that was answered
before that load began is found open by it (`FreshInv`), because the row is read after the
transaction was mined. `MarkInv` is the mark while no answer to another request has moved
it: one answer at most is under way, and it is the one that is marked.

`EmployerAppProofs` proves, from the registry's assumptions, `HistoryAssumption`,
`PageAssumption`, `AccountAssumption` (the wallet's accounts are wallets),
`RefreshAssumption`, `LoadAssumption` and `PipelineAssumption` (runs are numbered, blobs are
data, and what the form holds makes a submission), for any number of accounts, networks,
attestations, refreshes, loads, pipelines, transactions and acts:

| Theorem | States |
| --- | --- |
| `ProfileHolds` | `EmployerSpec => []ProfileIsRight` |
| `RegistrationHolds` | `EmployerSpec => []RegistrationIsShown` |
| `ListHolds` | `EmployerSpec => []ListIsRight` |
| `AnnouncementHolds` | `EmployerSpec => []AnnouncedIsIssued` |
| `DocumentsHold` | `EmployerSpec => []DocumentsAreOwn` |

*Argument.* `EmployerInv` has a part for the world and one for each handler; TLC found it
to hold on the instance of run `EmployerApp` before it was proved. Of the world a handler needs
that the registry's records persist and that a transaction stays as it was sent
(`WorldMoves`), and that a transaction mined on the registry has happened there
(`Done`): it names who registered, what was revoked, or which attestation was issued.
None of the five properties is inductive alone. `ProfileIsRight` says something only when
every read is answered; `ProfileInv` adds what holds on the way there: a refresh was told
what is so and stays so (`RefreshInv`), and while nothing was overtaken there is one
refresh at most, for the account shown. `RegisteringInv` adds that the refresh awaited by
the handler, begun after the transaction was mined, finds the account registered. `ListInv`
and `RevokingInv` say the same of loads: a load that was begun after a revocation was mined
has yet to read that attestation or has read that it is revoked (`Finds`), whatever it
had read before. For the documents, every blob has one holder at most, a pipeline and
then its transaction (`BlobsInv`), and a blob on the chain was brought there by a
transaction of the page whose receipt names that attestation (`Brought`); two
attestations with one blob would have one transaction, and so one id. The id announced is
that of the receipt: `createdId || 1` matters only elsewhere, as ids start at 1.

### Left to TLC

Two properties: `CallsAnswered` and `SignerCatchesUp` are liveness under fairness, which
is outside the prover's reach. Every other property that a passing run checks is a theorem
above. The theorems hold for every number of wallets, calls, handlers and acts; what they
do not change is the scope of the models, which section 6 lists. The bounds that are part
of a module (`MaxAttestations`, `MaxTime`, `MaxSends`, `MaxActs` and the like) are
parameters of the theorems.

## 5. Where text and code differ

With a run that shows it:

1. **Consent cannot be withdrawn** (`README.md:15`, "Employees maintain complete
   control over who can access and decrypt their private supporting documents"):
   no function ends a grant; `rejectDocumentAccess` needs a request that is still
   PENDING (`:364`), which only the verifier can open. Run `RegistryWithdraw`.
2. **What the seed script revokes** (`seed.ts:147`, "Attestation #3 Created &
   Revoked: Security Systems Contractor"): after an interrupted run number 3 is the
   first employee's. Run `SeedOwn`.
3. **The profile after a change of account** (`Web3Context.tsx:239`, "Sync employer
   profile whenever account changes"): the refresh for the earlier account may end
   last and store its profile (`:94`). Run `ProfileSync`.

Seen while modelling; each follows from one place of the code, so no run is spent on
it:

* `status` ("Current employment status", `EmploymentRegistry.sol:40`) is computed
  once, at issue (`:214`): ACTIVE stays after the end date.
* The mock store ("for deterministic local development and automated testing",
  `ipfs.service.ts:11`) is the provider in production as well when there is no token
  (`:113`).
* The seeded documents (`docs/demo_guide.md:26`, "with AES-256-GCM encrypted supporting
  documents") are never encrypted or uploaded; the CIDs are literals
  (`seed.ts:75`, `:100`).
* On a contract it has seeded completely the script reverts at the revocation,
  although it provides for an "existing contract" (`seed.ts:39`).
* The issuer is served without the employee's consent (`document.controller.ts:163`),
  which the handler's comment (`:104`) does not say.
* The CID path of the documents (`document.routes.ts:45`) leads to a handler that
  demands a number and always answers 400.
* On a network without the contract the portal announces attestation 1 as issued
  (`CreateAttestation.tsx:131`); `AnnouncedIsIssued` and the sets `registeredHere` and
  `revokedHere` leave such transactions out.
* A network that nobody has reported counts as the right one (`Web3Context.tsx:77`);
  auto-connect reports it before anything can be sent.
* A backend without a contract at its address answers writes with 201
  (`blockchain.service.ts:273`); `AnsweredWritesHappened` is about one that has it.
* Two answers to one request may be sent at once after an answer to another request has
  taken the mark (`AccessRequests.tsx:93`); the contract accepts one of them.

## 6. Plan

Done: the registry with `AccessConsent`; the document service beside the live registry;
the seed script; the wallet session with `PageSession`; the issuance portal; the
verification and consent portals; the API with the development writes. Of each the
safety properties and the refinements are proved.

Left, in order:

1. `Canonicalize`: the key ordering of `canonicalize.ts` against the seed's own
   shallow version, over bounded records, and with it `prepareAttestation`.
2. Other wallets that use the contract between the seed script's transactions and
   between those of the employer's pages; the proofs already rest only on what any
   transaction keeps (`Persistence`, `WorldMoves`).

### Not modelled

Rendering, styling and formatting, saving and previewing a decrypted file, the
verification controller (two fixed texts), the health check, logging, generated copies
of the ABI, lock files and the configuration of compilers and bundlers. `deploy.ts`
makes one transaction, which is the registry's `Init`. Only one page is mounted at a
time and its state is gone when it is left, so a behaviour of an app module is the life
of one page; what outlives it (a transaction sent, a pipeline running, a blob pinned) is
kept. Two browsers meet only in the registry: for the pages of `ReaderApp` others issue,
withdraw, ask and answer at any time, for those of `EmployerApp` nobody else changes
what the pages show of the account's own attestations and profile, except through the
same account.
