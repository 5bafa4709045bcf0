--------------------------- MODULE DocumentService ---------------------------
(***************************************************************************)
(* The backend's document service beside the registry it reads:            *)
(* uploadSupportingDocument and getDecryptedDocument of                    *)
(* document.controller.ts with the IPFS, encryption and signature services *)
(* they call.                                                              *)
(*                                                                         *)
(* A handler is cut where it awaits: between two of its steps other        *)
(* handlers run and the chain moves on.  The registry is the contract of   *)
(* EmploymentRegistry, read at the moment the RPC node evaluates a call.   *)
(* A document is its SHA-256 hash; encrypting it under a key with a fresh  *)
(* random IV gives a blob whose CID no earlier blob has.                   *)
(***************************************************************************)
EXTENDS EmploymentRegistry

CONSTANTS
    Calls,          \* GET /api/document/:attestationId/decrypt requests
    Uploads,        \* POST /api/document/upload requests
    Cids,           \* the CIDs of the blobs the service may produce
    Documents,      \* the hashes of the files that are uploaded
    Keys,           \* the values of MASTER_ENCRYPTION_KEY
    Configurations  \* the environments the backend is started in

Configuration ==
    [production: BOOLEAN, pinata: BOOLEAN, masterKey: Keys \cup {Empty}]

ASSUME ServiceAssumption ==
    /\ Cids \subseteq Data
    /\ Documents \subseteq Data
    /\ Empty \notin Keys

\* Outside production a missing master key has a default (env.ts).
ASSUME ConfigurationAssumption ==
    /\ Configurations \subseteq Configuration
    /\ \A env \in Configurations :
          ~env.production => env.masterKey # Empty

VARIABLES
    config,   \* the environment of the running backend process
    calls,    \* call -> how far its handler is, and what it has read
    uploads,  \* upload -> how far its handler is, and what it has made
    sealed,   \* CID -> the document in the blob and the key it is under
    pinata,   \* the CIDs pinned at Pinata
    mock      \* the CIDs in the process's in-memory store

serviceVars == <<config, calls, uploads, sealed, pinata, mock>>
stores == <<sealed, pinata, mock>>
allVars == <<registryVars, serviceVars>>

-----------------------------------------------------------------------------
(* Handlers.                                                                *)

Signatures == {"absent", "valid", "invalid"}

CallStep == {"idle", "reading", "authorizing", "fetching", "answered",
             "dropped"}

\* The responses: 400, 401, 404, 403, 404, 403, 500, 500 and 200.
Outcome == {"badRequest", "unauthorized", "missing", "revoked", "noDocument",
            "forbidden", "unavailable", "undecryptable", "served"}

\* `arrival` is history: the process a call came to and what the chain said then.
Arrival == [config: Configuration, revoked: BOOLEAN, access: BOOLEAN, time: Nat]

Call ==
    [step: CallStep, attestationId: Nat, verifier: Account,
     signature: Signatures, attestation: Attestation,
     outcome: Outcome \cup {"none"}, document: Field, arrival: Arrival]

NoCall(env) ==
    [step |-> "idle", attestationId |-> 0, verifier |-> Empty,
     signature |-> "absent", attestation |-> NoAttestation,
     outcome |-> "none", document |-> Empty,
     arrival |-> [config |-> env, revoked |-> FALSE, access |-> FALSE,
                  time |-> 0]]

UploadStep == {"idle", "storing", "unanswered", "stored", "failed", "dropped"}

\* `under` is the configuration the upload was handled in.
Upload ==
    [step: UploadStep, document: Field, cid: Field,
     under: Configuration]

Blob == [document: Field, key: Keys \cup {Empty}]

NoBlob == [document |-> Empty, key |-> Empty]

-----------------------------------------------------------------------------
(* A backend process.                                                       *)

ServiceInit ==
    /\ Init
    /\ config \in Configurations
    /\ calls = [c \in Calls |-> NoCall(config)]
    /\ uploads = [u \in Uploads |->
          [step |-> "idle", document |-> Empty, cid |-> Empty,
           under |-> config]]
    /\ sealed = [cid \in Cids |-> NoBlob]
    /\ pinata = {}
    /\ mock = {}

\* The process ends and is started again, perhaps in another environment: the
\* handlers under way and the in-memory store are gone.
Restart(env) ==
    /\ config' = env
    /\ calls' = [c \in Calls |->
          IF calls[c].step \in {"reading", "authorizing", "fetching"}
          THEN [calls[c] EXCEPT !.step = "dropped"] ELSE calls[c]]
    /\ uploads' = [u \in Uploads |->
          IF uploads[u].step \in {"storing", "unanswered"}
          THEN [uploads[u] EXCEPT !.step = "dropped"] ELSE uploads[u]]
    /\ mock' = {}
    /\ UNCHANGED <<registryVars, sealed, pinata>>

-----------------------------------------------------------------------------
(* Uploads.                                                                 *)

\* Faulty variant: with a fixed IV, equal files give equal blobs.
Fresh_FixedIv(cid) ==
    \A a \in AttestationIds : attestations[a].ipfsCID # cid

\* A new blob's CID: no blob has it, and no attestation names it.
Fresh(cid) ==
    /\ sealed[cid] = NoBlob
    /\ \A a \in AttestationIds : attestations[a].ipfsCID # cid

\* No file, a file too large or of a kind not allowed; or no master key.
RefuseUpload(u) ==
    /\ uploads[u].step = "idle"
    /\ uploads' = [uploads EXCEPT ![u].step = "failed", ![u].under = config]
    /\ UNCHANGED <<registryVars, config, calls, stores>>

\* Hash and encrypt, then wait for the store.
StartUpload(u, document) ==
    /\ uploads[u].step = "idle"
    /\ config.masterKey # Empty
    /\ uploads' = [uploads EXCEPT ![u] =
          [step |-> "storing", document |-> document, cid |-> Empty,
           under |-> config]]
    /\ UNCHANGED <<registryVars, config, calls, stores>>

\* The blob of upload u has the CID cid.
Seal(u, cid) ==
    /\ Fresh(cid)
    /\ sealed' = [sealed EXCEPT ![cid] =
          [document |-> uploads[u].document, key |-> config.masterKey]]

\* 201 with the CID.
AnswerStored(u, cid) ==
    uploads' = [uploads EXCEPT ![u].step = "stored", ![u].cid = cid]

PinToPinata(u, cid) ==
    /\ uploads[u].step = "storing"
    /\ config.pinata
    /\ Seal(u, cid)
    /\ pinata' = pinata \cup {cid}
    /\ AnswerStored(u, cid)
    /\ UNCHANGED <<registryVars, config, calls, mock>>

\* Pinata keeps the blob and its answer is lost: nobody is told the CID.
LosePinAnswer(u, cid) ==
    /\ uploads[u].step = "storing"
    /\ config.pinata
    /\ Seal(u, cid)
    /\ pinata' = pinata \cup {cid}
    /\ uploads' = [uploads EXCEPT ![u].step = "unanswered"]
    /\ UNCHANGED <<registryVars, config, calls, mock>>

\* The request to Pinata throws; in production the upload answers 500.
PinFails(u) ==
    /\ uploads[u].step \in {"storing", "unanswered"}
    /\ config.pinata
    /\ config.production
    /\ uploads' = [uploads EXCEPT ![u].step = "failed"]
    /\ UNCHANGED <<registryVars, config, calls, stores>>

\* The in-memory store is the provider: no token is configured.
MockIsProvider(u) == uploads[u].step = "storing" /\ ~config.pinata

\* Faulty variant: falls back in production too.
MockIsFallback_Always(u) ==
    uploads[u].step \in {"storing", "unanswered"} /\ config.pinata

\* The request to Pinata throws; the fallback is for development.
MockIsFallback(u) ==
    /\ uploads[u].step \in {"storing", "unanswered"}
    /\ config.pinata
    /\ ~config.production

StoreInMock(u, cid) ==
    /\ MockIsProvider(u) \/ MockIsFallback(u)
    /\ Seal(u, cid)
    /\ mock' = mock \cup {cid}
    /\ AnswerStored(u, cid)
    /\ UNCHANGED <<registryVars, config, calls, pinata>>

UploadSteps(u) ==
    \/ RefuseUpload(u)
    \/ \E document \in Documents : StartUpload(u, document)
    \/ \E cid \in Cids : PinToPinata(u, cid)
    \/ \E cid \in Cids : LosePinAnswer(u, cid)
    \/ PinFails(u)
    \/ \E cid \in Cids : StoreInMock(u, cid)

-----------------------------------------------------------------------------
(* Decryption calls.                                                        *)

\* The response, and the end of the handler.
Answer(c, outcome) ==
    /\ calls' = [calls EXCEPT ![c].step = "answered", ![c].outcome = outcome]
    /\ UNCHANGED <<registryVars, config, uploads, stores>>

\* A signature given is always verified; one is demanded in production only.
SignatureAccepted(signature) ==
    /\ signature # "invalid"
    /\ config.production => signature # "absent"

\* The id is not a positive number, or no verifier is named.
RefuseRequest(c) ==
    /\ calls[c].step = "idle"
    /\ Answer(c, "badRequest")

\* The signature is not the caller's, is for another attestation or too old, or
\* is missing where it is demanded.
RefuseSignature(c, signature) ==
    /\ calls[c].step = "idle"
    /\ ~SignatureAccepted(signature)
    /\ Answer(c, "unauthorized")

AcceptRequest(c, a, verifier, signature) ==
    /\ calls[c].step = "idle"
    /\ SignatureAccepted(signature)
    /\ calls' = [calls EXCEPT ![c] =
          [NoCall(config) EXCEPT
             !.step = "reading", !.attestationId = a, !.verifier = verifier,
             !.signature = signature,
             !.arrival = [config |-> config, revoked |-> Revoked(a),
                          access |-> hasDocumentAccess(a, verifier),
                          time |-> blockTimestamp]]]
    /\ UNCHANGED <<registryVars, config, uploads, stores>>

\* getAttestation reverts for an id that was never issued.
AttestationMissing(c) ==
    /\ calls[c].step = "reading"
    /\ ~Exists(calls[c].attestationId)
    /\ Answer(c, "missing")

\* Faulty variant: a revoked attestation is read like any other.
Readable_WhenRevoked(a) == Exists(a)

Readable(a) == Exists(a) /\ ~Revoked(a)

AttestationRevoked(c) ==
    /\ calls[c].step = "reading"
    /\ Exists(calls[c].attestationId)
    /\ ~Readable(calls[c].attestationId)
    /\ Answer(c, "revoked")

NoDocument(c) ==
    /\ calls[c].step = "reading"
    /\ Readable(calls[c].attestationId)
    /\ attestations[calls[c].attestationId].ipfsCID = Empty
    /\ Answer(c, "noDocument")

\* The record is kept across the awaits that follow.
ReadAttestation(c) ==
    LET a == calls[c].attestationId IN
    /\ calls[c].step = "reading"
    /\ Readable(a)
    /\ attestations[a].ipfsCID # Empty
    /\ calls' = [calls EXCEPT ![c].step = "authorizing",
                              ![c].attestation = attestations[a]]
    /\ UNCHANGED <<registryVars, config, uploads, stores>>

\* Faulty variant: the registry's answer alone decides.
Entitled_VerifierOnly(c) ==
    hasDocumentAccess(calls[c].attestationId, calls[c].verifier)

\* Faulty variant: whoever has asked is let in.
Entitled_OnRequest(c) ==
    \/ calls[c].verifier \in {calls[c].attestation.employee,
                               calls[c].attestation.employer}
    \/ \E r \in RequestIds :
          /\ accessRequests[r].attestationId = calls[c].attestationId
          /\ accessRequests[r].verifier = calls[c].verifier

\* Employee and issuer from the record read earlier, the verifier's access from
\* the chain as it is now.
Entitled(c) ==
    \/ calls[c].verifier \in {calls[c].attestation.employee,
                               calls[c].attestation.employer}
    \/ hasDocumentAccess(calls[c].attestationId, calls[c].verifier)

ReadAccess(c) ==
    /\ calls[c].step = "authorizing"
    /\ Entitled(c)
    /\ calls' = [calls EXCEPT ![c].step = "fetching"]
    /\ UNCHANGED <<registryVars, config, uploads, stores>>

AccessDenied(c) ==
    /\ calls[c].step = "authorizing"
    /\ ~Entitled(c)
    /\ Answer(c, "forbidden")

\* Either call to the RPC node throws or times out.
RpcFails(c) ==
    /\ calls[c].step \in {"reading", "authorizing"}
    /\ Answer(c, "unavailable")

CidOf(c) == calls[c].attestation.ipfsCID

\* Pinata's gateway first when it is the provider, then the in-memory store.
Retrievable(cid) == (config.pinata /\ cid \in pinata) \/ cid \in mock

\* Faulty variant: the key does not depend on the document, and the hash of
\* what was decrypted is not compared.
Opens_AnyDocument(c) == sealed[CidOf(c)].key = config.masterKey

\* Faulty variant: the key is derived from the record's hash.
Opens_RecordHash(c) ==
    sealed[CidOf(c)] = [document |-> calls[c].attestation.recordHash,
                        key |-> config.masterKey]

\* The key derived from the on-chain documentHash opens the blob, and the hash
\* of what comes out is that documentHash.
Opens(c) ==
    /\ config.masterKey # Empty
    /\ sealed[CidOf(c)] = [document |-> calls[c].attestation.documentHash,
                           key |-> config.masterKey]

Serve(c) ==
    /\ calls[c].step = "fetching"
    /\ Retrievable(CidOf(c))
    /\ Opens(c)
    /\ calls' = [calls EXCEPT ![c].step = "answered",
                              ![c].outcome = "served",
                              ![c].document = sealed[CidOf(c)].document]
    /\ UNCHANGED <<registryVars, config, uploads, stores>>

DecryptionFails(c) ==
    /\ calls[c].step = "fetching"
    /\ Retrievable(CidOf(c))
    /\ ~Opens(c)
    /\ Answer(c, "undecryptable")

\* Faulty variant: without a timeout, a blob the gateway does not find is
\* waited for.
FetchGivesUp_Never(c) == CidOf(c) \in pinata

\* The gateway answers with an error or not within 15 s; so the only blob that
\* is sure to be found is one in memory.
FetchGivesUp(c) == CidOf(c) \notin mock

FetchFails(c) ==
    /\ calls[c].step = "fetching"
    /\ FetchGivesUp(c)
    /\ Answer(c, "unavailable")

\* What a handler does once its call has been accepted.
HandlerStep(c) ==
    \/ AttestationMissing(c)
    \/ AttestationRevoked(c)
    \/ NoDocument(c)
    \/ ReadAttestation(c)
    \/ ReadAccess(c)
    \/ AccessDenied(c)
    \/ RpcFails(c)
    \/ Serve(c)
    \/ DecryptionFails(c)
    \/ FetchFails(c)

\* A call comes in; the checks before the first await are made at once.
Receive(c) ==
    \/ RefuseRequest(c)
    \/ \E signature \in Signatures : RefuseSignature(c, signature)
    \/ \E a \in AttestationIds, verifier \in Wallets, signature \in Signatures :
          AcceptRequest(c, a, verifier, signature)

-----------------------------------------------------------------------------
(* The system.                                                              *)

RegistryStep == Next /\ UNCHANGED serviceVars

ServiceNext ==
    \/ RegistryStep
    \/ \E env \in Configurations : Restart(env)
    \/ \E u \in Uploads : UploadSteps(u)
    \/ \E c \in Calls : Receive(c)
    \/ \E c \in Calls : HandlerStep(c)

\* Node runs every handler whose await has settled, and every await of a
\* decryption call settles: the RPC client and the gateway request time out.
\* Nothing else need ever happen; an upload's request to Pinata has no timeout.
ServiceSpec ==
    /\ ServiceInit
    /\ [][ServiceNext]_allVars
    /\ \A c \in Calls : WF_allVars(HandlerStep(c))

-----------------------------------------------------------------------------
(* Properties.                                                              *)

\* Every variable has its type; a CID in a store names a blob, the two stores
\* share none, and a call past its first read holds the record it read.
ServiceTypeOK ==
    /\ config \in Configurations
    /\ calls \in [Calls -> Call]
    /\ uploads \in [Uploads -> Upload]
    /\ sealed \in [Cids -> Blob]
    /\ pinata \cup mock \subseteq {cid \in Cids : sealed[cid] # NoBlob}
    /\ pinata \cap mock = {}
    /\ \A c \in Calls : calls[c].step \in {"authorizing", "fetching"} =>
          calls[c].attestationId \in AttestationIds

Served(c) == calls[c].outcome = "served"

\* The employee or the issuer, by the registry's record.
IsOwner(c) ==
    calls[c].verifier \in {attestations[calls[c].attestationId].employee,
                           attestations[calls[c].attestationId].employer}

\* An approval of the caller's own request given since the call came in.
ApprovedDuring(c) ==
    \E r \in RequestIds :
        /\ accessRequests[r].attestationId = calls[c].attestationId
        /\ accessRequests[r].verifier = calls[c].verifier
        /\ accessRequests[r].status = "APPROVED"
        /\ accessRequests[r].respondedAt >= calls[c].arrival.time

\* A document goes to nobody the chain did not let read it: whoever is served is
\* the attestation's employee or issuer, or had the employee's consent when the
\* call came in or got it while the call was under way, however the transactions
\* fall between the handler's two reads; in production the caller has signed.
ServedToEntitled ==
    \A c \in Calls : Served(c) =>
        /\ IsOwner(c) \/ calls[c].arrival.access \/ ApprovedDuring(c)
        /\ calls[c].arrival.config.production => calls[c].signature = "valid"

\* A call that comes in when the attestation is revoked is never served, even
\* to the employee or the issuer, whatever the handler read and whenever.
NoServiceAfterRevocation ==
    \A c \in Calls : calls[c].arrival.revoked => ~Served(c)

\* The employee and the issuer are refused with 403 only over a revocation, and
\* never for want of consent.
OwnerRefusedOnlyByRevocation ==
    \A c \in Calls : calls[c].attestationId \in AttestationIds =>
        /\ calls[c].outcome = "revoked" => Revoked(calls[c].attestationId)
        /\ calls[c].outcome = "forbidden" => ~IsOwner(c)

\* What is served is the file whose hash the issuer put on chain, although the
\* attestation names hash and CID independently, two blobs may hold one file,
\* and the master key and the stores may change while the call is under way.
ServedIsOriginal ==
    \A c \in Calls : Served(c) =>
        calls[c].document = attestations[calls[c].attestationId].documentHash

\* In production with a Pinata token, an upload answered 201 outlives the
\* process: its CID stays pinned and its blob stays the one of the file that was
\* uploaded, through every restart and later upload.
UploadsSurvive ==
    \A u \in Uploads :
        uploads[u].step = "stored" /\ uploads[u].under.production
          /\ uploads[u].under.pinata =>
            /\ uploads[u].cid \in pinata
            /\ sealed[uploads[u].cid] =
                  [document |-> uploads[u].document,
                   key |-> uploads[u].under.masterKey]

\* An attestation that carries the hash and the CID of one 201 answer opens under
\* the master key of that upload: decryption fails only where the key has
\* changed or the issuer put together a hash and a CID of different answers.
UploadedOpens ==
    \A c \in Calls, u \in Uploads :
        /\ calls[c].outcome = "undecryptable"
        /\ uploads[u].step = "stored"
        /\ calls[c].attestation.documentHash = uploads[u].document
        /\ CidOf(c) = uploads[u].cid
        => calls[c].arrival.config.masterKey # uploads[u].under.masterKey

\* Every call the backend accepts is answered, or dropped by a restart.
CallsAnswered ==
    \A c \in Calls :
        calls[c].step = "reading" ~> calls[c].step \in {"answered", "dropped"}

=============================================================================
