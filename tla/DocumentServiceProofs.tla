------------------------- MODULE DocumentServiceProofs -------------------------
(***************************************************************************)
(* Theorems about DocumentService: to whom a document goes, and which one, *)
(* for any number of calls, uploads, restarts and environments, and any    *)
(* transactions between a handler's steps.                                 *)
(***************************************************************************)
EXTENDS DocumentService, EmploymentRegistryProofs

-----------------------------------------------------------------------------
(* The registry beside the service.                                         *)

\* A step of the whole is a step of the registry, or leaves it alone.
LEMMA RegistryAside == ServiceNext => [Next]_registryVars
BY DEF ServiceNext, RegistryStep, Restart, UploadSteps, RefuseUpload,
   StartUpload, PinToPinata, LosePinAnswer, PinFails, StoreInMock, Receive,
   RefuseRequest, RefuseSignature, AcceptRequest, HandlerStep, Answer,
   AttestationMissing, AttestationRevoked, NoDocument, ReadAttestation,
   ReadAccess, AccessDenied, RpcFails, Serve, DecryptionFails, FetchFails

-----------------------------------------------------------------------------
(* The invariant of one call.                                               *)

\* The handler holds a record it read, or has used it.
Holding(c) == calls[c].step \in {"authorizing", "fetching"} \/ Served(c)

\* The handler is under way, or has served.
Running(c) == calls[c].step = "reading" \/ Holding(c)

\* Every accepted call has a caller and an attestation id, came in no later than
\* now, and is signed in production.
CallAccepted(c) ==
    /\ Served(c) => calls[c].step = "answered"
    /\ Running(c) =>
          /\ calls[c].verifier \in Wallets
          /\ calls[c].attestationId \in AttestationIds
          /\ calls[c].arrival.time <= blockTimestamp
          /\ calls[c].arrival.config.production => calls[c].signature = "valid"

\* The record the handler holds agrees with the chain's in every field that the
\* handler uses, and the attestation was not revoked when the call came in; while
\* it is still to be read, a revocation before the call is still there.
CallRecord(c) ==
    /\ Holding(c) =>
          LET a == calls[c].attestationId IN
          /\ Exists(a)
          /\ calls[c].attestation.employee = attestations[a].employee
          /\ calls[c].attestation.employer = attestations[a].employer
          /\ calls[c].attestation.documentHash = attestations[a].documentHash
          /\ ~calls[c].arrival.revoked
    /\ calls[c].step = "reading" /\ calls[c].arrival.revoked =>
          Revoked(calls[c].attestationId)

\* The caller's consent was there when the call came in, or came since.
Consented(c) == calls[c].arrival.access \/ ApprovedDuring(c)

\* A call that finds access on chain had it on arrival or got it since; one past
\* the authorization was entitled.
CallEntitled(c) ==
    /\ calls[c].step \in {"reading", "authorizing"}
          /\ hasDocumentAccess(calls[c].attestationId, calls[c].verifier)
             => Consented(c)
    /\ calls[c].step = "fetching" \/ Served(c) => IsOwner(c) \/ Consented(c)

\* What was served is the document the held record names.
CallOriginal(c) ==
    Served(c) => calls[c].document = calls[c].attestation.documentHash

CallInv(c) ==
    /\ CallAccepted(c)
    /\ CallRecord(c)
    /\ CallEntitled(c)
    /\ CallOriginal(c)

ServiceInv ==
    /\ ConsentInv
    /\ config \in Configurations
    /\ calls \in [Calls -> Call]
    /\ \A c \in Calls : CallInv(c)

-----------------------------------------------------------------------------
(* Transactions beside a call.                                              *)

\* An approval stays an approval.
LEMMA ApprovalPersists ==
    ASSUME RegistryInv, [Next]_registryVars, NEW r \in RequestIds,
           accessRequests[r].status = "APPROVED"
    PROVE  accessRequests'[r] = accessRequests[r]
<1>1. Requested(r)
    BY DEF RegistryInv, IdsMatchCounters, NoRequest
<1>2. ~Pending(r)
    BY DEF Pending
<1> QED
    BY <1>1, <1>2, RequestSteps DEF RequestStep

\* A verifier who gets authorized has a request approved in this block.
LEMMA AuthorizedByApproval ==
    ASSUME ConsentInv, [Next]_registryVars,
           NEW a \in AttestationIds, NEW v \in Wallets,
           v \in authorizedVerifiers'[a], v \notin authorizedVerifiers[a]
    PROVE  \E r \in RequestIds :
              /\ accessRequests'[r].attestationId = a
              /\ accessRequests'[r].verifier = v
              /\ accessRequests'[r].status = "APPROVED"
              /\ accessRequests'[r].respondedAt = blockTimestamp
<1>1. PICK r \in RequestIds, status \in {"APPROVED", "REJECTED"} :
          AnswerOf(r, status)
    BY AnswerCases DEF ConsentInv, NoAnswer
<1> DEFINE b == accessRequests[r].attestationId
           u == accessRequests[r].verifier
<1>2. b \in AttestationIds /\ u \in Wallets
    BY <1>1, AnswerableType DEF AnswerOf, ConsentInv
<1>3. /\ \A c \in AttestationIds \ {b} :
            authorizedVerifiers'[c] = authorizedVerifiers[c]
      /\ authorizedVerifiers'[b] =
            IF status = "APPROVED" THEN authorizedVerifiers[b] \cup {u}
                                   ELSE authorizedVerifiers[b] \ {u}
    BY <1>1, <1>2 DEF AnswerOf, ConsentInv, RegistryInv, TypeOK
<1> HIDE DEF b, u
<1>4. a = b /\ v = u /\ status = "APPROVED"
    BY <1>2, <1>3
<1>5. /\ accessRequests'[r].attestationId = b
      /\ accessRequests'[r].verifier = u
      /\ accessRequests'[r].status = status
      /\ accessRequests'[r].respondedAt = blockTimestamp
    BY <1>1, AnswerEffect DEF b, u, ConsentInv
<1> QED
    BY <1>4, <1>5

\* What a call's invariant says of the registry survives every transaction.
LEMMA TransactionKeepsCall ==
    ASSUME ConsentInv, [Next]_registryVars, NEW c \in Calls,
           calls[c] \in Call, calls'[c] = calls[c], CallInv(c)
    PROVE  CallInv(c)'
<1> DEFINE a == calls[c].attestationId
           v == calls[c].verifier
<1>1. RecordsPersist
    BY Persistence DEF ConsentInv
<1>2. /\ blockTimestamp \in Nat
      /\ blockTimestamp' \in {blockTimestamp, blockTimestamp + 1}
    BY ClockStep DEF ConsentInv
<1>3. calls[c].arrival.time \in Nat
    BY DEF Call, Arrival
<1>4. CallAccepted(c)'
    BY <1>2, <1>3 DEF CallInv, CallAccepted, Running, Holding, Served
<1>5. CallRecord(c)'
  <2>1. Holding(c) \/ calls[c].step = "reading" => a \in AttestationIds
      BY DEF CallInv, CallAccepted, Running
  <2>2. calls[c].step = "reading" /\ calls[c].arrival.revoked
           => Exists(a) /\ Revoked(a)
      BY <2>1 DEF CallInv, CallRecord, ConsentInv, RegistryInv, IdsMatchCounters,
         NoAttestation, Revoked
  <2>3. ASSUME Holding(c)
        PROVE  /\ Exists(a)'
               /\ calls[c].attestation.employee = attestations'[a].employee
               /\ calls[c].attestation.employer = attestations'[a].employer
               /\ calls[c].attestation.documentHash
                     = attestations'[a].documentHash
               /\ ~calls[c].arrival.revoked
    <3>0. a \in AttestationIds
        BY <2>1, <2>3
    <3>1. /\ Exists(a)
          /\ calls[c].attestation.employee = attestations[a].employee
          /\ calls[c].attestation.employer = attestations[a].employer
          /\ calls[c].attestation.documentHash = attestations[a].documentHash
          /\ ~calls[c].arrival.revoked
        BY <2>3 DEF CallInv, CallRecord
    <3>2. /\ attestations'[a].issueTimestamp # 0
          /\ attestations'[a].employee = attestations[a].employee
          /\ attestations'[a].employer = attestations[a].employer
          /\ attestations'[a].documentHash = attestations[a].documentHash
        BY <1>1, <3>0, <3>1 DEF RecordsPersist, Exists
    <3> QED
        BY <3>1, <3>2 DEF Exists
  <2>4. calls[c].step = "reading" /\ calls[c].arrival.revoked => Revoked(a)'
      BY <1>1, <2>1, <2>2 DEF RecordsPersist
  <2> QED
      BY <2>3, <2>4 DEF CallRecord, Holding, Served, Exists, Revoked
<1>6. Consented(c) => Consented(c)'
  <2>1. ASSUME ApprovedDuring(c) PROVE ApprovedDuring(c)'
    <3>1. PICK r \in RequestIds :
              /\ accessRequests[r].attestationId = calls[c].attestationId
              /\ accessRequests[r].verifier = calls[c].verifier
              /\ accessRequests[r].status = "APPROVED"
              /\ accessRequests[r].respondedAt >= calls[c].arrival.time
        BY <2>1 DEF ApprovedDuring
    <3>2. accessRequests'[r] = accessRequests[r]
        BY <3>1, ApprovalPersists DEF ConsentInv
    <3> QED
        BY <3>1, <3>2 DEF ApprovedDuring
  <2> QED
      BY <2>1 DEF Consented
<1>7. CallEntitled(c)'
  <2>1. ASSUME calls[c].step \in {"reading", "authorizing"},
               hasDocumentAccess(a, v)'
        PROVE  Consented(c)'
    <3>1. a \in AttestationIds /\ v \in Wallets
        BY <2>1 DEF CallInv, CallAccepted, Running, Holding
    <3>2. CASE hasDocumentAccess(a, v)
        BY <1>6, <2>1, <3>2 DEF CallInv, CallEntitled
    <3>3. CASE ~hasDocumentAccess(a, v)
      <4>1. v \in authorizedVerifiers[a] => Exists(a)
          BY <3>1, AuthorizedExists
      <4>2. v \notin authorizedVerifiers[a]
          BY <1>1, <2>1, <3>1, <3>3, <4>1 DEF hasDocumentAccess, RecordsPersist
      <4>3. PICK r \in RequestIds :
                /\ accessRequests'[r].attestationId = a
                /\ accessRequests'[r].verifier = v
                /\ accessRequests'[r].status = "APPROVED"
                /\ accessRequests'[r].respondedAt = blockTimestamp
          BY <2>1, <3>1, <4>2, AuthorizedByApproval DEF hasDocumentAccess
      <4>4. blockTimestamp >= calls[c].arrival.time
          BY <1>2, <1>3, <2>1 DEF CallInv, CallAccepted, Running, Holding
      <4> QED
          BY <4>3, <4>4 DEF Consented, ApprovedDuring
    <3> QED
        BY <3>2, <3>3
  <2>2. ASSUME calls[c].step = "fetching" \/ Served(c)
        PROVE  (IsOwner(c) \/ Consented(c))'
    <3>1. a \in AttestationIds /\ Exists(a)
        BY <2>2 DEF CallInv, CallAccepted, CallRecord, Running, Holding
    <3>2. IsOwner(c) => IsOwner(c)'
        BY <1>1, <3>1 DEF IsOwner, RecordsPersist
    <3> QED
        BY <1>6, <2>2, <3>2 DEF CallInv, CallEntitled
  <2> QED
      BY <2>1, <2>2 DEF CallEntitled, Served
<1>8. CallOriginal(c)'
    BY DEF CallInv, CallOriginal, Served
<1> QED
    BY <1>4, <1>5, <1>7, <1>8 DEF CallInv

-----------------------------------------------------------------------------
(* Handler steps.                                                           *)

\* The chain stands still while a handler runs.
LEMMA RegistryStill ==
    ASSUME UNCHANGED registryVars
    PROVE  /\ attestations' = attestations
           /\ accessRequests' = accessRequests
           /\ authorizedVerifiers' = authorizedVerifiers
           /\ blockTimestamp' = blockTimestamp
BY DEF registryVars, attestationVars, requestVars

\* A step of something else leaves a call as it was.
LEMMA CallUntouched ==
    ASSUME UNCHANGED registryVars, NEW c \in Calls, calls'[c] = calls[c],
           CallInv(c)
    PROVE  CallInv(c)'
BY RegistryStill
   DEF CallInv, CallAccepted, CallRecord, CallEntitled, CallOriginal, Running,
   Holding, Served, Consented, ApprovedDuring, IsOwner, hasDocumentAccess,
   Exists, Revoked

\* A call that has ended without a document has nothing left to answer for.
LEMMA CallEnded ==
    ASSUME NEW c \in Calls, calls'[c].step \in {"answered", "dropped"},
           calls'[c].outcome # "served"
    PROVE  CallInv(c)'
BY DEF CallInv, CallAccepted, CallRecord, CallEntitled, CallOriginal, Running,
   Holding, Served

\* Enough to show of a handler step: what it makes of its own call.
LEMMA OneCall ==
    ASSUME ServiceInv, UNCHANGED <<registryVars, config>>, NEW c \in Calls,
           NEW call \in Call, calls' = [calls EXCEPT ![c] = call], CallInv(c)'
    PROVE  ServiceInv'
<1>1. calls' \in [Calls -> Call] /\ config' \in Configurations
    BY DEF ServiceInv
<1>2. \A d \in Calls \ {c} : calls'[d] = calls[d]
    BY DEF ServiceInv
<1>3. \A d \in Calls : CallInv(d)'
    BY <1>2, CallUntouched DEF ServiceInv
<1>4. ConsentInv'
    BY ConsentStep DEF ServiceInv
<1> QED
    BY <1>1, <1>3, <1>4 DEF ServiceInv

\* Every response but the document.
LEMMA AnswerKeeps ==
    ASSUME ServiceInv, NEW c \in Calls, NEW outcome \in Outcome \ {"served"},
           Answer(c, outcome)
    PROVE  ServiceInv'
<1> DEFINE call == [calls[c] EXCEPT !.step = "answered", !.outcome = outcome]
<1>1. calls[c] \in Call /\ calls \in [Calls -> Call]
    BY DEF ServiceInv
<1>2. /\ call \in Call
      /\ call.step = "answered"
      /\ call.outcome = outcome
    BY <1>1 DEF Call, CallStep, Outcome
<1>3. calls' = [calls EXCEPT ![c] = call] /\ UNCHANGED <<registryVars, config>>
    BY <1>1 DEF Answer
<1> HIDE DEF call
<1>4. CallInv(c)'
    BY <1>1, <1>2, <1>3, CallEnded
<1> QED
    BY <1>2, <1>3, <1>4, OneCall

LEMMA IdleCall ==
    ASSUME NEW env \in Configuration
    PROVE  NoCall(env) \in Call
<1>1. NoAttestation \in Attestation /\ Empty \in Field /\ Empty \in Account
    BY DEF NoAttestation, Attestation, Field, Account, EmploymentStatus
<1> QED
    BY <1>1 DEF NoCall, Call, CallStep, Arrival, Signatures

LEMMA ReceiveKeeps ==
    ASSUME ServiceInv, NEW c \in Calls, Receive(c)
    PROVE  ServiceInv'
<1>1. ASSUME NEW outcome \in {"badRequest", "unauthorized"}, Answer(c, outcome)
      PROVE  ServiceInv'
    BY <1>1, AnswerKeeps DEF Outcome
<1>2. ASSUME NEW a \in AttestationIds, NEW v \in Wallets,
             NEW signature \in Signatures, AcceptRequest(c, a, v, signature)
      PROVE  ServiceInv'
  <2>1. /\ config \in Configuration /\ blockTimestamp \in Nat
        /\ Revoked(a) \in BOOLEAN /\ hasDocumentAccess(a, v) \in BOOLEAN
      BY ConfigurationAssumption, BoundAssumption
         DEF ServiceInv, ConsentInv, RegistryInv, TypeOK, Revoked,
         hasDocumentAccess, Exists
  <2>2. PICK arrival \in Arrival :
            arrival = [config |-> config, revoked |-> Revoked(a),
                       access |-> hasDocumentAccess(a, v),
                       time |-> blockTimestamp]
      BY <2>1 DEF Arrival
  <2>3. /\ arrival.config = config /\ arrival.revoked = Revoked(a)
        /\ arrival.access = hasDocumentAccess(a, v)
        /\ arrival.time = blockTimestamp
      BY <2>2
  <2>4. PICK idle \in Call : idle = NoCall(config) /\ idle.outcome = "none"
      BY <2>1, IdleCall DEF NoCall
  <2> DEFINE call == [idle EXCEPT
                        !.step = "reading", !.attestationId = a,
                        !.verifier = v, !.signature = signature,
                        !.arrival = arrival]
  <2>5. /\ call \in Call
        /\ call.step = "reading" /\ call.attestationId = a
        /\ call.verifier = v /\ call.signature = signature
        /\ call.outcome = "none" /\ call.arrival = arrival
    <3>1. a \in Nat /\ v \in Account
        BY BoundAssumption DEF AttestationIds, Account
    <3> QED
        BY <2>4, <3>1 DEF Call, CallStep
  <2>6. calls' = [calls EXCEPT ![c] = call]
      BY <1>2, <2>2, <2>4, Zenon DEF AcceptRequest
  <2>7. /\ UNCHANGED <<registryVars, config>>
        /\ config.production => signature = "valid"
      BY <1>2 DEF AcceptRequest, SignatureAccepted, Signatures
  <2> HIDE DEF call
  <2>8. /\ calls'[c].step = "reading" /\ calls'[c].attestationId = a
        /\ calls'[c].verifier = v /\ calls'[c].signature = signature
        /\ calls'[c].outcome = "none" /\ calls'[c].arrival = arrival
      BY <2>5, <2>6 DEF ServiceInv
  <2>9. CallInv(c)'
    <3>1. ~Served(c)' /\ ~Holding(c)'
        BY <2>8 DEF Served, Holding
    <3>2. CallAccepted(c)'
        BY <2>1, <2>3, <2>7, <2>8, <3>1, RegistryStill
           DEF CallAccepted, Running
    <3>3. CallRecord(c)'
      <4>1. Revoked(a)' <=> Revoked(a)
          BY <2>7, RegistryStill DEF Revoked
      <4>2. arrival.revoked => Revoked(calls[c].attestationId)'
          BY <2>3, <2>8, <4>1 DEF Revoked
      <4> QED
          BY <2>8, <3>1, <4>2 DEF CallRecord, Revoked
    <3>4. CallEntitled(c)'
      <4>1. hasDocumentAccess(a, v)' <=> hasDocumentAccess(a, v)
          BY <2>7, RegistryStill DEF hasDocumentAccess, Exists, Revoked
      <4>2. hasDocumentAccess(calls[c].attestationId, calls[c].verifier)'
              => calls'[c].arrival.access
          BY <2>3, <2>8, <4>1 DEF hasDocumentAccess, Exists, Revoked
      <4> QED
          BY <2>8, <3>1, <4>2 DEF CallEntitled, Consented
    <3> QED
        BY <3>1, <3>2, <3>3, <3>4 DEF CallInv, CallOriginal
  <2> QED
      BY <2>5, <2>6, <2>7, <2>9, OneCall
<1> QED
    BY <1>1, <1>2 DEF Receive, RefuseRequest, RefuseSignature

LEMMA ReadAttestationKeeps ==
    ASSUME ServiceInv, NEW c \in Calls, ReadAttestation(c)
    PROVE  ServiceInv'
<1> DEFINE a == calls[c].attestationId
           call == [calls[c] EXCEPT !.step = "authorizing",
                                    !.attestation = attestations[a]]
<1>1. /\ calls[c] \in Call /\ calls \in [Calls -> Call]
      /\ CallInv(c)
    BY DEF ServiceInv
<1>2. /\ calls[c].step = "reading" /\ Exists(a) /\ ~Revoked(a)
      /\ a \in AttestationIds
    BY <1>1 DEF ReadAttestation, Readable, CallInv, CallAccepted, Running
<1>3. attestations[a] \in Attestation
    BY <1>2 DEF ServiceInv, ConsentInv, RegistryInv, TypeOK
<1>4. /\ calls' = [calls EXCEPT ![c] = call]
      /\ UNCHANGED <<registryVars, config>>
    BY <1>1 DEF ReadAttestation
<1>5. /\ call \in Call
      /\ call.step = "authorizing" /\ call.attestation = attestations[a]
      /\ call.attestationId = a /\ call.verifier = calls[c].verifier
      /\ call.signature = calls[c].signature /\ call.outcome = calls[c].outcome
      /\ call.arrival = calls[c].arrival
    BY <1>1, <1>3 DEF Call, CallStep
<1> HIDE DEF call
<1>6. calls'[c] = call
    BY <1>1, <1>4
<1>7. ~Served(c) /\ ~Served(c)' /\ Holding(c)'
    BY <1>1, <1>2, <1>5, <1>6 DEF Served, CallInv, CallAccepted, Holding
<1>8. CallAccepted(c)'
    BY <1>1, <1>2, <1>4, <1>5, <1>6, <1>7, RegistryStill
       DEF CallInv, CallAccepted, Running
<1>9. CallRecord(c)'
    BY <1>1, <1>2, <1>4, <1>5, <1>6, <1>7, RegistryStill
       DEF CallInv, CallRecord, Exists, Revoked
<1>10. CallEntitled(c)'
    BY <1>1, <1>2, <1>4, <1>5, <1>6, <1>7, RegistryStill
       DEF CallInv, CallEntitled, Consented, ApprovedDuring, hasDocumentAccess,
       Exists, Revoked
<1> QED
    BY <1>4, <1>5, <1>7, <1>8, <1>9, <1>10, OneCall DEF CallInv, CallOriginal

LEMMA ReadAccessKeeps ==
    ASSUME ServiceInv, NEW c \in Calls, ReadAccess(c)
    PROVE  ServiceInv'
<1> DEFINE call == [calls[c] EXCEPT !.step = "fetching"]
<1>1. /\ calls[c] \in Call /\ calls \in [Calls -> Call]
      /\ CallInv(c)
    BY DEF ServiceInv
<1>2. calls[c].step = "authorizing" /\ Entitled(c)
    BY DEF ReadAccess
<1>3. /\ calls' = [calls EXCEPT ![c] = call]
      /\ UNCHANGED <<registryVars, config>>
    BY <1>1 DEF ReadAccess
<1>4. /\ call \in Call
      /\ call.step = "fetching" /\ call.attestation = calls[c].attestation
      /\ call.attestationId = calls[c].attestationId
      /\ call.verifier = calls[c].verifier
      /\ call.signature = calls[c].signature /\ call.outcome = calls[c].outcome
      /\ call.arrival = calls[c].arrival
    BY <1>1 DEF Call, CallStep
<1> HIDE DEF call
<1>5. calls'[c] = call
    BY <1>1, <1>3
<1>6. ~Served(c) /\ ~Served(c)' /\ Holding(c) /\ Holding(c)'
    BY <1>1, <1>2, <1>4, <1>5 DEF Served, CallInv, CallAccepted, Holding
<1>7. CallAccepted(c)'
    BY <1>1, <1>3, <1>4, <1>5, <1>6, RegistryStill
       DEF CallInv, CallAccepted, Running
<1>8. CallRecord(c)'
    BY <1>1, <1>3, <1>4, <1>5, <1>6, RegistryStill
       DEF CallInv, CallRecord, Exists
<1>9. IsOwner(c) \/ Consented(c)
    BY <1>1, <1>2, <1>6
       DEF Entitled, CallInv, CallRecord, CallEntitled, IsOwner
<1>10. CallEntitled(c)'
    BY <1>3, <1>4, <1>5, <1>9, RegistryStill
       DEF CallEntitled, IsOwner, Consented, ApprovedDuring
<1> QED
    BY <1>3, <1>4, <1>6, <1>7, <1>8, <1>10, OneCall DEF CallInv, CallOriginal

LEMMA ServeKeeps ==
    ASSUME ServiceInv, NEW c \in Calls, Serve(c)
    PROVE  ServiceInv'
<1> DEFINE document == sealed[CidOf(c)].document
           call == [calls[c] EXCEPT !.step = "answered", !.outcome = "served",
                                    !.document = document]
<1>1. /\ calls[c] \in Call /\ calls \in [Calls -> Call]
      /\ CallInv(c)
    BY DEF ServiceInv
<1>2. /\ calls[c].step = "fetching"
      /\ document = calls[c].attestation.documentHash
    BY DEF Serve, Opens
<1>3. document \in Field
    BY <1>1, <1>2 DEF Call, Attestation
<1>4. /\ calls' = [calls EXCEPT ![c] = call]
      /\ UNCHANGED <<registryVars, config>>
    BY <1>1 DEF Serve
<1>5. /\ call \in Call
      /\ call.step = "answered" /\ call.attestation = calls[c].attestation
      /\ call.attestationId = calls[c].attestationId
      /\ call.verifier = calls[c].verifier
      /\ call.signature = calls[c].signature /\ call.outcome = "served"
      /\ call.arrival = calls[c].arrival
      /\ call.document = calls[c].attestation.documentHash
    BY <1>1, <1>2, <1>3 DEF Call, CallStep, Outcome
<1> HIDE DEF call
<1>6. calls'[c] = call
    BY <1>1, <1>4
<1>7. Holding(c) /\ Holding(c)'
    BY <1>2, <1>5, <1>6 DEF Holding, Served
<1>8. CallAccepted(c)'
    BY <1>1, <1>4, <1>5, <1>6, <1>7, RegistryStill
       DEF CallInv, CallAccepted, Running
<1>9. CallRecord(c)'
    BY <1>1, <1>4, <1>5, <1>6, <1>7, RegistryStill
       DEF CallInv, CallRecord, Exists
<1>10. CallEntitled(c)'
    BY <1>1, <1>2, <1>4, <1>5, <1>6, RegistryStill
       DEF CallInv, CallEntitled, IsOwner, Consented, ApprovedDuring
<1>11. CallOriginal(c)'
    BY <1>5, <1>6 DEF CallOriginal
<1> QED
    BY <1>4, <1>5, <1>8, <1>9, <1>10, <1>11, OneCall DEF CallInv

\* A restart drops the handlers under way; what was served stays served.
LEMMA RestartKeeps ==
    ASSUME ServiceInv, NEW env \in Configurations, Restart(env)
    PROVE  ServiceInv'
<1>1. /\ config' \in Configurations /\ UNCHANGED registryVars
      /\ calls \in [Calls -> Call]
    BY DEF ServiceInv, Restart
<1>2. ASSUME NEW c \in Calls
      PROVE  calls'[c] \in Call /\ CallInv(c)'
  <2>1. calls[c] \in Call /\ CallInv(c)
      BY DEF ServiceInv
  <2>2. CASE calls[c].step \in {"reading", "authorizing", "fetching"}
    <3>1. calls'[c] = [calls[c] EXCEPT !.step = "dropped"]
        BY <2>2 DEF Restart
    <3>2. /\ calls'[c] \in Call /\ calls'[c].step = "dropped"
          /\ calls'[c].outcome = calls[c].outcome
        BY <2>1, <3>1 DEF Call, CallStep
    <3>3. calls[c].outcome # "served"
        BY <2>1, <2>2 DEF CallInv, CallAccepted, Served
    <3> QED
        BY <3>2, <3>3, CallEnded
  <2>3. CASE calls[c].step \notin {"reading", "authorizing", "fetching"}
    <3>1. calls'[c] = calls[c]
        BY <2>3 DEF Restart
    <3> QED
        BY <1>1, <2>1, <3>1, CallUntouched
  <2> QED
      BY <2>2, <2>3
<1>3. calls' \in [Calls -> Call]
    BY <1>1, <1>2 DEF Restart
<1>4. ConsentInv'
    BY <1>1, ConsentStep DEF ServiceInv
<1> QED
    BY <1>1, <1>2, <1>3, <1>4 DEF ServiceInv

-----------------------------------------------------------------------------
(* The invariant holds.                                                     *)

LEMMA ServiceInitially == ServiceInit => ServiceInv
<1> SUFFICES ASSUME ServiceInit PROVE ServiceInv
    OBVIOUS
<1>1. ConsentInv /\ config \in Configurations
    BY ConsentInit DEF ServiceInit
<1>2. config \in Configuration
    BY <1>1, ConfigurationAssumption
<1>3. NoCall(config) \in Call
    BY <1>2, IdleCall
<1>4. calls = [c \in Calls |-> NoCall(config)]
    BY DEF ServiceInit
<1>5. NoCall(config).step = "idle" /\ NoCall(config).outcome = "none"
    BY DEF NoCall
<1>6. \A c \in Calls : CallInv(c)
    BY <1>4, <1>5 DEF CallInv, CallAccepted, CallRecord, CallEntitled,
       CallOriginal, Running, Holding, Served
<1> QED
    BY <1>1, <1>3, <1>4, <1>6 DEF ServiceInv

LEMMA ServiceStep == ServiceInv /\ [ServiceNext]_allVars => ServiceInv'
<1> SUFFICES ASSUME ServiceInv, [ServiceNext]_allVars PROVE ServiceInv'
    OBVIOUS
<1>1. CASE RegistryStep
  <2>1. [Next]_registryVars /\ UNCHANGED <<calls, config>>
      BY <1>1 DEF RegistryStep, serviceVars
  <2>2. ConsentInv'
      BY <2>1, ConsentStep DEF ServiceInv
  <2>3. \A c \in Calls : CallInv(c)'
      BY <2>1, TransactionKeepsCall DEF ServiceInv
  <2> QED
      BY <2>1, <2>2, <2>3 DEF ServiceInv
<1>2. ASSUME NEW env \in Configurations, Restart(env) PROVE ServiceInv'
    BY <1>2, RestartKeeps
<1>3. ASSUME UNCHANGED <<registryVars, config, calls>> PROVE ServiceInv'
  <2>1. ConsentInv'
      BY <1>3, ConsentStep DEF ServiceInv
  <2>2. \A c \in Calls : CallInv(c)'
      BY <1>3, CallUntouched DEF ServiceInv
  <2> QED
      BY <1>3, <2>1, <2>2 DEF ServiceInv
<1>4. ASSUME NEW u \in Uploads, UploadSteps(u) PROVE ServiceInv'
    BY <1>3, <1>4 DEF UploadSteps, RefuseUpload, StartUpload, PinToPinata,
       LosePinAnswer, PinFails, StoreInMock
<1>5. ASSUME NEW c \in Calls, HandlerStep(c) PROVE ServiceInv'
  <2>1. ASSUME NEW outcome \in Outcome \ {"served"}, Answer(c, outcome)
        PROVE  ServiceInv'
      BY <2>1, AnswerKeeps
  <2>2. CASE \/ AttestationMissing(c) \/ AttestationRevoked(c) \/ NoDocument(c)
             \/ AccessDenied(c) \/ RpcFails(c) \/ DecryptionFails(c)
             \/ FetchFails(c)
      BY <2>1, <2>2 DEF AttestationMissing, AttestationRevoked, NoDocument,
         AccessDenied, RpcFails, DecryptionFails, FetchFails, Outcome
  <2> QED
      BY <1>5, <2>2, ReadAttestationKeeps, ReadAccessKeeps, ServeKeeps
         DEF HandlerStep
<1>6. CASE UNCHANGED allVars
    BY <1>3, <1>6 DEF allVars, serviceVars
<1> QED
    BY <1>1, <1>2, <1>4, <1>5, <1>6, ReceiveKeeps DEF ServiceNext

LEMMA ServiceInvariant == ServiceSpec => []ServiceInv
BY ServiceInitially, ServiceStep, PTL DEF ServiceSpec

-----------------------------------------------------------------------------
(* Uploads and the stores.                                                  *)

\* An upload waiting for a store is handled under the present environment, with
\* a master key; one answered 201 has its blob sealed under its CID, pinned when
\* it was handled in production with a token.
UploadInv(u) ==
    /\ uploads[u].step \in {"storing", "unanswered"} =>
          uploads[u].under = config
    /\ uploads[u].step \in {"storing", "unanswered", "stored"} =>
          uploads[u].under.masterKey # Empty
    /\ uploads[u].step = "stored" =>
          /\ uploads[u].cid \in Cids
          /\ sealed[uploads[u].cid] = [document |-> uploads[u].document,
                                       key |-> uploads[u].under.masterKey]
          /\ uploads[u].under.production /\ uploads[u].under.pinata =>
                uploads[u].cid \in pinata

StoreTypes ==
    /\ uploads \in [Uploads -> Upload]
    /\ sealed \in [Cids -> Blob]
    /\ pinata \cup mock \subseteq {cid \in Cids : sealed[cid] # NoBlob}
    /\ pinata \cap mock = {}

StoreInv == StoreTypes /\ \A u \in Uploads : UploadInv(u)

\* A blob, once sealed, is never sealed again: its CID is no fresh one.
BlobsStay ==
    /\ \A cid \in Cids : sealed[cid] # NoBlob => sealed'[cid] = sealed[cid]
    /\ pinata \subseteq pinata'

LEMMA StoreInitially == ServiceInit => StoreInv
<1> SUFFICES ASSUME ServiceInit PROVE StoreInv
    OBVIOUS
<1>1. config \in Configuration
    BY ConfigurationAssumption DEF ServiceInit
<1>2. \A u \in Uploads : uploads[u].step = "idle"
    BY DEF ServiceInit
<1>3. StoreTypes
    BY <1>1 DEF ServiceInit, StoreTypes, Upload, UploadStep, Blob, NoBlob, Field
<1> QED
    BY <1>2, <1>3 DEF StoreInv, UploadInv

\* A blob under a key is none of the blobs never made.
LEMMA SealedIsBlob ==
    ASSUME NEW document \in Field, NEW key \in Keys
    PROVE  /\ [document |-> document, key |-> key] \in Blob
           /\ [document |-> document, key |-> key] # NoBlob
BY ServiceAssumption DEF Blob, NoBlob

\* What sealing a blob under a fresh CID leaves of the stores.
LEMMA SealKeeps ==
    ASSUME StoreInv, NEW u \in Uploads, NEW cid \in Cids,
           uploads[u].step \in {"storing", "unanswered"}, Seal(u, cid)
    PROVE  /\ sealed' \in [Cids -> Blob]
           /\ sealed'[cid] = [document |-> uploads[u].document,
                              key |-> uploads[u].under.masterKey]
           /\ sealed'[cid] # NoBlob
           /\ \A d \in Cids : sealed[d] # NoBlob => sealed'[d] = sealed[d]
           /\ cid \notin pinata \cup mock
<1>1. /\ uploads[u] \in Upload /\ sealed \in [Cids -> Blob]
      /\ uploads[u].under = config /\ config.masterKey # Empty
    BY DEF StoreInv, StoreTypes, UploadInv
<1>2. uploads[u].document \in Field /\ config.masterKey \in Keys
    BY <1>1 DEF Upload, Configuration
<1> DEFINE blob == [document |-> uploads[u].document, key |-> config.masterKey]
<1>3. blob \in Blob /\ blob # NoBlob
    BY <1>2, SealedIsBlob
<1>4. sealed' = [sealed EXCEPT ![cid] = blob] /\ sealed[cid] = NoBlob
    BY DEF Seal, Fresh
<1>5. blob = [document |-> uploads[u].document,
              key |-> uploads[u].under.masterKey]
    BY <1>1
<1> HIDE DEF blob
<1>6. cid \notin pinata \cup mock
    BY <1>4 DEF StoreInv, StoreTypes
<1> QED
    BY <1>1, <1>3, <1>4, <1>5, <1>6

\* Enough to show of an upload's step: what it makes of its own upload.
LEMMA OneUpload ==
    ASSUME StoreInv, StoreTypes', BlobsStay, config' = config,
           NEW u \in Uploads, NEW upload,
           uploads' = [uploads EXCEPT ![u] = upload], UploadInv(u)'
    PROVE  StoreInv'
<1>1. \A t \in Uploads \ {u} : uploads'[t] = uploads[t]
    BY DEF StoreInv, StoreTypes
<1>2. ASSUME NEW t \in Uploads \ {u} PROVE UploadInv(t)'
  <2>1. UploadInv(t) /\ uploads[t] \in Upload
      BY DEF StoreInv, StoreTypes
  <2>2. uploads[t].step = "stored" => sealed[uploads[t].cid] # NoBlob
    <3>1. uploads[t].step = "stored" =>
            uploads[t].document \in Field /\ uploads[t].under.masterKey \in Keys
        BY <2>1 DEF UploadInv, Upload, Configuration
    <3> QED
        BY <2>1, <3>1, SealedIsBlob DEF UploadInv
  <2> QED
      BY <1>1, <2>1, <2>2 DEF UploadInv, BlobsStay
<1> QED
    BY <1>2 DEF StoreInv

\* An upload that makes no blob.
LEMMA UploadWithoutBlob ==
    ASSUME ServiceInv, StoreInv, NEW u \in Uploads,
           \/ RefuseUpload(u)
           \/ \E document \in Documents : StartUpload(u, document)
           \/ PinFails(u)
    PROVE  StoreInv' /\ BlobsStay
<1>1. config' = config /\ UNCHANGED stores /\ config \in Configuration
    BY ConfigurationAssumption
       DEF RefuseUpload, StartUpload, PinFails, ServiceInv
<1>2. BlobsStay
    BY <1>1 DEF stores, BlobsStay
<1>3. uploads[u] \in Upload /\ uploads \in [Uploads -> Upload]
    BY DEF StoreInv, StoreTypes
<1>4. ASSUME NEW upload \in Upload, uploads' = [uploads EXCEPT ![u] = upload],
             \/ upload.step = "failed"
             \/ /\ upload.step = "storing" /\ upload.under = config
                /\ config.masterKey # Empty
      PROVE  StoreInv'
  <2>1. StoreTypes'
      BY <1>1, <1>3, <1>4 DEF StoreInv, StoreTypes, stores
  <2>2. uploads'[u] = upload
      BY <1>3, <1>4
  <2>3. UploadInv(u)'
      BY <1>1, <1>4, <2>2 DEF UploadInv
  <2> QED
      BY <1>1, <1>2, <1>4, <2>1, <2>3, OneUpload
<1>5. CASE RefuseUpload(u)
  <2> DEFINE upload == [uploads[u] EXCEPT !.step = "failed", !.under = config]
  <2>1. upload \in Upload /\ upload.step = "failed"
      BY <1>1, <1>3 DEF Upload, UploadStep
  <2>2. uploads' = [uploads EXCEPT ![u] = upload]
      BY <1>3, <1>5 DEF RefuseUpload
  <2> QED
      BY <1>2, <1>4, <2>1, <2>2
<1>6. ASSUME NEW document \in Documents, StartUpload(u, document)
      PROVE  StoreInv'
  <2>1. PICK upload \in Upload :
            upload = [step |-> "storing", document |-> document, cid |-> Empty,
                      under |-> config]
      BY <1>1, ServiceAssumption DEF Upload, UploadStep, Field
  <2>2. upload.step = "storing" /\ upload.under = config
      BY <2>1
  <2>3. config.masterKey # Empty /\ uploads' = [uploads EXCEPT ![u] = upload]
      BY <1>6, <2>1 DEF StartUpload
  <2> QED
      BY <1>4, <2>2, <2>3
<1>7. CASE PinFails(u)
  <2> DEFINE upload == [uploads[u] EXCEPT !.step = "failed"]
  <2>1. upload \in Upload /\ upload.step = "failed"
      BY <1>3 DEF Upload, UploadStep
  <2>2. uploads' = [uploads EXCEPT ![u] = upload]
      BY <1>3, <1>7 DEF PinFails
  <2> QED
      BY <1>2, <1>4, <2>1, <2>2
<1> QED
    BY <1>2, <1>5, <1>6, <1>7

\* An upload whose blob has come into being: answered with its CID, or not.
LEMMA UploadWithBlob ==
    ASSUME StoreInv, NEW u \in Uploads, NEW cid \in Cids,
           \/ PinToPinata(u, cid) \/ LosePinAnswer(u, cid) \/ StoreInMock(u, cid)
    PROVE  StoreInv' /\ BlobsStay
<1>1. /\ uploads[u].step \in {"storing", "unanswered"}
      /\ Seal(u, cid) /\ config' = config
    BY DEF PinToPinata, LosePinAnswer, StoreInMock, MockIsProvider,
       MockIsFallback
<1>2. /\ uploads[u] \in Upload /\ uploads \in [Uploads -> Upload]
      /\ uploads[u].under = config /\ config.masterKey # Empty
      /\ sealed \in [Cids -> Blob]
    BY <1>1 DEF StoreInv, StoreTypes, UploadInv
<1>3. /\ sealed' \in [Cids -> Blob]
      /\ sealed'[cid] = [document |-> uploads[u].document,
                         key |-> uploads[u].under.masterKey]
      /\ sealed'[cid] # NoBlob
      /\ \A d \in Cids : sealed[d] # NoBlob => sealed'[d] = sealed[d]
      /\ cid \notin pinata \cup mock
    BY <1>1, SealKeeps
<1>4. \/ pinata' = pinata \cup {cid} /\ mock' = mock
      \/ pinata' = pinata /\ mock' = mock \cup {cid}
    BY DEF PinToPinata, LosePinAnswer, StoreInMock
<1>5. BlobsStay
    BY <1>3, <1>4 DEF BlobsStay
<1>6. ASSUME NEW upload \in Upload, uploads' = [uploads EXCEPT ![u] = upload],
             upload.under = config, upload.document = uploads[u].document,
             \/ upload.step = "unanswered"
             \/ /\ upload.step = "stored" /\ upload.cid = cid
                /\ config.production /\ config.pinata => cid \in pinata'
      PROVE  StoreInv'
  <2>1. pinata' \cup mock' \subseteq {d \in Cids : sealed'[d] # NoBlob}
      BY <1>3, <1>4 DEF StoreInv, StoreTypes
  <2>2. pinata' \cap mock' = {}
      BY <1>3, <1>4 DEF StoreInv, StoreTypes
  <2>3. StoreTypes'
      BY <1>2, <1>3, <1>6, <2>1, <2>2 DEF StoreTypes
  <2>4. uploads'[u] = upload
      BY <1>2, <1>6
  <2>5. UploadInv(u)'
      BY <1>1, <1>2, <1>3, <1>6, <2>4 DEF UploadInv
  <2> QED
      BY <1>1, <1>5, <1>6, <2>3, <2>5, OneUpload
<1>7. CASE LosePinAnswer(u, cid)
  <2> DEFINE upload == [uploads[u] EXCEPT !.step = "unanswered"]
  <2>1. /\ upload \in Upload /\ upload.step = "unanswered"
        /\ upload.under = config /\ upload.document = uploads[u].document
      BY <1>2 DEF Upload, UploadStep
  <2>2. uploads' = [uploads EXCEPT ![u] = upload]
      BY <1>2, <1>7 DEF LosePinAnswer
  <2> QED
      BY <1>5, <1>6, <2>1, <2>2
<1>8. CASE PinToPinata(u, cid) \/ StoreInMock(u, cid)
  <2> DEFINE upload == [uploads[u] EXCEPT !.step = "stored", !.cid = cid]
  <2>1. cid \in Field
      BY ServiceAssumption DEF Field
  <2>2. /\ upload \in Upload /\ upload.step = "stored" /\ upload.cid = cid
        /\ upload.under = config /\ upload.document = uploads[u].document
      BY <1>2, <2>1 DEF Upload, UploadStep
  <2>3. uploads' = [uploads EXCEPT ![u] = upload]
      BY <1>2, <1>8 DEF PinToPinata, StoreInMock, AnswerStored
  <2>4. config.production /\ config.pinata => cid \in pinata'
      BY <1>8 DEF PinToPinata, StoreInMock, MockIsProvider, MockIsFallback
  <2> QED
      BY <1>5, <1>6, <2>2, <2>3, <2>4
<1> QED
    BY <1>7, <1>8

\* A restart empties the in-memory store; what was pinned stays pinned.
LEMMA RestartKeepsStores ==
    ASSUME StoreInv, NEW env \in Configurations, Restart(env)
    PROVE  StoreInv' /\ BlobsStay
<1>1. UNCHANGED <<sealed, pinata>> /\ mock' = {}
    BY DEF Restart
<1>2. ASSUME NEW u \in Uploads
      PROVE  uploads'[u] \in Upload /\ UploadInv(u)'
  <2>1. uploads[u] \in Upload /\ UploadInv(u)
      BY DEF StoreInv, StoreTypes
  <2>2. CASE uploads[u].step \in {"storing", "unanswered"}
    <3>1. uploads'[u] = [uploads[u] EXCEPT !.step = "dropped"]
        BY <2>2 DEF Restart
    <3>2. uploads'[u] \in Upload /\ uploads'[u].step = "dropped"
        BY <2>1, <3>1 DEF Upload, UploadStep
    <3> QED
        BY <3>2 DEF UploadInv
  <2>3. CASE uploads[u].step \notin {"storing", "unanswered"}
    <3>1. uploads'[u] = uploads[u]
        BY <2>3 DEF Restart
    <3> QED
        BY <1>1, <2>1, <2>3, <3>1 DEF UploadInv
  <2> QED
      BY <2>2, <2>3
<1>3. uploads' \in [Uploads -> Upload]
    BY <1>2 DEF Restart
<1>4. StoreTypes'
    BY <1>1, <1>3 DEF StoreInv, StoreTypes
<1> QED
    BY <1>1, <1>2, <1>4 DEF StoreInv, BlobsStay

LEMMA StoreStep ==
    ServiceInv /\ StoreInv /\ [ServiceNext]_allVars => StoreInv' /\ BlobsStay
<1> SUFFICES ASSUME ServiceInv, StoreInv, [ServiceNext]_allVars
             PROVE  StoreInv' /\ BlobsStay
    OBVIOUS
<1>1. ASSUME UNCHANGED <<config, uploads, stores>>
      PROVE  StoreInv' /\ BlobsStay
    BY <1>1 DEF StoreInv, StoreTypes, UploadInv, BlobsStay, stores
<1>2. CASE RegistryStep \/ UNCHANGED allVars
    BY <1>1, <1>2 DEF RegistryStep, allVars, serviceVars, stores
<1>3. ASSUME NEW env \in Configurations, Restart(env)
      PROVE  StoreInv' /\ BlobsStay
    BY <1>3, RestartKeepsStores
<1>4. ASSUME NEW u \in Uploads, UploadSteps(u)
      PROVE  StoreInv' /\ BlobsStay
    BY <1>4, UploadWithoutBlob, UploadWithBlob DEF UploadSteps
<1>5. ASSUME NEW c \in Calls, Receive(c) \/ HandlerStep(c)
      PROVE  UNCHANGED <<config, uploads, stores>>
    BY <1>5 DEF Receive, RefuseRequest, RefuseSignature, AcceptRequest,
       HandlerStep, Answer, AttestationMissing, AttestationRevoked, NoDocument,
       ReadAttestation, ReadAccess, AccessDenied, RpcFails, Serve,
       DecryptionFails, FetchFails
<1> QED
    BY <1>1, <1>2, <1>3, <1>4, <1>5 DEF ServiceNext

-----------------------------------------------------------------------------
(* Refusals and failed decryptions.                                         *)

\* What a call that was refused has to answer for.
RefusalInv(c) ==
    LET a == calls[c].attestationId IN
    /\ calls[c].outcome \in {"revoked", "forbidden"} =>
          a \in AttestationIds /\ Exists(a)
    /\ calls[c].outcome = "revoked" => Revoked(a)
    /\ calls[c].outcome = "forbidden" => ~IsOwner(c)

\* A handler runs in the process its call came to; a blob that process could not
\* open is sealed, and not with the attested document under the process's key.
KeyInv(c) ==
    /\ calls[c].step \in {"reading", "authorizing", "fetching"} =>
          calls[c].arrival.config = config /\ calls[c].outcome = "none"
    /\ calls[c].outcome = "undecryptable" =>
          /\ CidOf(c) \in Cids
          /\ sealed[CidOf(c)] # NoBlob
          /\ sealed[CidOf(c)] = [document |-> calls[c].attestation.documentHash,
                                 key |-> calls[c].arrival.config.masterKey]
                => calls[c].arrival.config.masterKey = Empty

CallsInv == \A c \in Calls : RefusalInv(c) /\ KeyInv(c)

\* The refusal stands as long as the call is left alone: the owners of a record
\* never change, and a revocation is never undone.
LEMMA RefusalStands ==
    ASSUME ServiceInv, [Next]_registryVars, NEW c \in Calls, RefusalInv(c),
           calls'[c].outcome = calls[c].outcome,
           calls'[c].attestationId = calls[c].attestationId,
           calls'[c].verifier = calls[c].verifier
    PROVE  RefusalInv(c)'
<1> DEFINE a == calls[c].attestationId
<1>1. CASE calls[c].outcome \in {"revoked", "forbidden"}
  <2>1. a \in AttestationIds /\ Exists(a)
      BY <1>1 DEF RefusalInv
  <2>2. RecordsPersist
      BY Persistence DEF ServiceInv, ConsentInv
  <2>3. /\ attestations'[a].issueTimestamp # 0
        /\ attestations'[a].employee = attestations[a].employee
        /\ attestations'[a].employer = attestations[a].employer
        /\ attestations[a].status = "REVOKED"
              => attestations'[a].status = "REVOKED"
      BY <2>1, <2>2 DEF RecordsPersist, Exists, Revoked
  <2> QED
      BY <2>1, <2>3 DEF RefusalInv, Exists, Revoked, IsOwner
<1>2. CASE calls[c].outcome \notin {"revoked", "forbidden"}
    BY <1>2 DEF RefusalInv
<1> QED
    BY <1>1, <1>2

\* So does the failed decryption: a sealed blob stays as it is.
LEMMA KeyStands ==
    ASSUME BlobsStay, NEW c \in Calls, KeyInv(c),
           calls'[c].outcome = calls[c].outcome,
           calls[c].outcome = "undecryptable" =>
              calls'[c].attestation = calls[c].attestation,
           calls'[c].arrival = calls[c].arrival,
           calls'[c].step \in {"reading", "authorizing", "fetching"} =>
              /\ calls[c].step \in {"reading", "authorizing", "fetching"}
              /\ config' = config
    PROVE  KeyInv(c)'
BY DEF KeyInv, CidOf, BlobsStay

\* The response of a handler, and what it was given on.
LEMMA AnswerJudged ==
    ASSUME ServiceInv, StoreInv, CallsInv, UNCHANGED <<registryVars, stores>>,
           NEW c \in Calls, NEW outcome \in Outcome,
           calls'[c] = [calls[c] EXCEPT !.step = "answered",
                                        !.outcome = outcome],
           outcome = "revoked" => AttestationRevoked(c),
           outcome = "forbidden" => AccessDenied(c),
           outcome = "undecryptable" => DecryptionFails(c)
    PROVE  RefusalInv(c)' /\ KeyInv(c)'
<1> DEFINE a == calls[c].attestationId
<1>1. calls[c] \in Call /\ CallInv(c) /\ KeyInv(c)
    BY DEF ServiceInv, CallsInv
<1>2. /\ calls'[c].step = "answered" /\ calls'[c].outcome = outcome
      /\ calls'[c].attestationId = a /\ calls'[c].verifier = calls[c].verifier
      /\ calls'[c].attestation = calls[c].attestation
      /\ calls'[c].arrival = calls[c].arrival
    BY <1>1 DEF Call
<1>3. UNCHANGED <<attestations, sealed>>
    BY RegistryStill DEF stores
<1>4. CASE outcome = "revoked"
  <2>1. a \in AttestationIds /\ Exists(a) /\ Revoked(a)
      BY <1>1, <1>4 DEF AttestationRevoked, Readable, CallInv, CallAccepted,
         Running
  <2> QED
      BY <1>2, <1>3, <1>4, <2>1 DEF RefusalInv, KeyInv, Exists, Revoked
<1>5. CASE outcome = "forbidden"
  <2>1. Holding(c) /\ ~Entitled(c)
      BY <1>5 DEF AccessDenied, Holding
  <2>2. a \in AttestationIds /\ Exists(a)
      BY <1>1, <2>1 DEF CallInv, CallAccepted, CallRecord, Running
  <2>3. ~IsOwner(c)
      BY <1>1, <2>1 DEF Entitled, IsOwner, CallInv, CallRecord
  <2> QED
      BY <1>2, <1>3, <1>5, <2>2, <2>3 DEF RefusalInv, KeyInv, IsOwner, Exists
<1>6. CASE outcome = "undecryptable"
  <2>1. /\ calls[c].arrival.config = config
        /\ CidOf(c) \in pinata \cup mock
        /\ ~Opens(c)
      BY <1>1, <1>6 DEF DecryptionFails, Retrievable, KeyInv
  <2>2. CidOf(c) \in Cids /\ sealed[CidOf(c)] # NoBlob
      BY <2>1 DEF StoreInv, StoreTypes
  <2> QED
      BY <1>2, <1>3, <1>6, <2>1, <2>2 DEF RefusalInv, KeyInv, CidOf, Opens
<1>7. CASE outcome \notin {"revoked", "forbidden", "undecryptable"}
    BY <1>2, <1>7 DEF RefusalInv, KeyInv
<1> QED
    BY <1>4, <1>5, <1>6, <1>7

LEMMA CallsStep ==
    ServiceInv /\ StoreInv /\ CallsInv /\ [ServiceNext]_allVars => CallsInv'
<1> SUFFICES ASSUME ServiceInv, StoreInv, CallsInv, [ServiceNext]_allVars,
                    NEW c \in Calls
             PROVE  RefusalInv(c)' /\ KeyInv(c)'
    BY DEF CallsInv
<1>1. [Next]_registryVars /\ BlobsStay
    BY RegistryAside, StoreStep DEF allVars
<1>2. /\ calls \in [Calls -> Call] /\ calls[c] \in Call
      /\ RefusalInv(c) /\ KeyInv(c)
    BY DEF ServiceInv, CallsInv
<1>3. ASSUME calls'[c] = calls[c],
             \/ config' = config
             \/ calls[c].step \notin {"reading", "authorizing", "fetching"}
      PROVE  RefusalInv(c)' /\ KeyInv(c)'
    BY <1>1, <1>2, <1>3, RefusalStands, KeyStands
<1>4. CASE RegistryStep \/ UNCHANGED allVars
    BY <1>3, <1>4 DEF RegistryStep, allVars, serviceVars
<1>5. ASSUME NEW env \in Configurations, Restart(env)
      PROVE  RefusalInv(c)' /\ KeyInv(c)'
  <2>1. CASE calls[c].step \in {"reading", "authorizing", "fetching"}
    <3>1. calls'[c] = [calls[c] EXCEPT !.step = "dropped"]
        BY <1>5, <2>1 DEF Restart
    <3>2. /\ calls'[c].step = "dropped"
          /\ calls'[c].outcome = calls[c].outcome
          /\ calls'[c].attestationId = calls[c].attestationId
          /\ calls'[c].verifier = calls[c].verifier
          /\ calls'[c].attestation = calls[c].attestation
          /\ calls'[c].arrival = calls[c].arrival
        BY <1>2, <3>1 DEF Call
    <3> QED
        BY <1>1, <1>2, <3>2, RefusalStands, KeyStands
  <2>2. CASE calls[c].step \notin {"reading", "authorizing", "fetching"}
    <3>1. calls'[c] = calls[c]
        BY <1>5, <2>2 DEF Restart
    <3> QED
        BY <1>3, <2>2, <3>1
  <2> QED
      BY <2>1, <2>2
<1>6. ASSUME NEW u \in Uploads, UploadSteps(u)
      PROVE  RefusalInv(c)' /\ KeyInv(c)'
    BY <1>3, <1>6 DEF UploadSteps, RefuseUpload, StartUpload, PinToPinata,
       LosePinAnswer, PinFails, StoreInMock
<1>7. ASSUME NEW d \in Calls \ {c}, Receive(d) \/ HandlerStep(d)
      PROVE  RefusalInv(c)' /\ KeyInv(c)'
  <2>1. calls'[c] = calls[c] /\ config' = config
      BY <1>2, <1>7 DEF Receive, RefuseRequest, RefuseSignature, AcceptRequest,
         HandlerStep, Answer, AttestationMissing, AttestationRevoked,
         NoDocument, ReadAttestation, ReadAccess, AccessDenied, RpcFails, Serve,
         DecryptionFails, FetchFails
  <2> QED
      BY <1>3, <2>1
<1>8. ASSUME NEW outcome \in Outcome, Answer(c, outcome),
             outcome = "revoked" => AttestationRevoked(c),
             outcome = "forbidden" => AccessDenied(c),
             outcome = "undecryptable" => DecryptionFails(c)
      PROVE  RefusalInv(c)' /\ KeyInv(c)'
  <2>1. calls'[c] = [calls[c] EXCEPT !.step = "answered", !.outcome = outcome]
      BY <1>2, <1>8 DEF Answer
  <2>2. UNCHANGED <<registryVars, stores>>
      BY <1>8 DEF Answer
  <2> QED
      BY <1>8, <2>1, <2>2, AnswerJudged
<1>9. CASE Receive(c)
  <2>1. ASSUME NEW a \in AttestationIds, NEW v \in Wallets,
               NEW signature \in Signatures, AcceptRequest(c, a, v, signature)
        PROVE  RefusalInv(c)' /\ KeyInv(c)'
    <3>1. calls'[c].outcome = "none" /\ calls'[c].arrival.config = config
        BY <1>2, <2>1 DEF AcceptRequest, NoCall
    <3>2. config' = config
        BY <2>1 DEF AcceptRequest
    <3> QED
        BY <3>1, <3>2 DEF RefusalInv, KeyInv
  <2>2. CASE Answer(c, "badRequest") \/ Answer(c, "unauthorized")
      BY <1>8, <2>2 DEF Outcome
  <2> QED
      BY <1>9, <2>1, <2>2 DEF Receive, RefuseRequest, RefuseSignature
<1>10. CASE HandlerStep(c)
  <2>1. CASE \/ AttestationMissing(c) \/ AttestationRevoked(c) \/ NoDocument(c)
             \/ AccessDenied(c) \/ RpcFails(c) \/ DecryptionFails(c)
             \/ FetchFails(c)
      BY <1>8, <2>1 DEF AttestationMissing, AttestationRevoked, NoDocument,
         AccessDenied, RpcFails, DecryptionFails, FetchFails, Outcome
  <2>2. ASSUME calls[c].step \in {"reading", "authorizing"},
               config' = config,
               calls'[c].outcome = "none",
               calls'[c].attestationId = calls[c].attestationId,
               calls'[c].verifier = calls[c].verifier,
               calls'[c].arrival = calls[c].arrival
        PROVE  RefusalInv(c)' /\ KeyInv(c)'
      BY <1>1, <1>2, <2>2 DEF RefusalInv, KeyInv
  <2>3. CASE ReadAttestation(c)
    <3> DEFINE record == attestations[calls[c].attestationId]
    <3>1. calls'[c] = [calls[c] EXCEPT !.step = "authorizing",
                                       !.attestation = record]
        BY <1>2, <2>3 DEF ReadAttestation
    <3> HIDE DEF record
    <3>2. /\ calls'[c].outcome = calls[c].outcome
          /\ calls'[c].attestationId = calls[c].attestationId
          /\ calls'[c].verifier = calls[c].verifier
          /\ calls'[c].arrival = calls[c].arrival
        BY <1>2, <3>1 DEF Call
    <3> QED
        BY <1>2, <2>2, <2>3, <3>2 DEF ReadAttestation, KeyInv
  <2>4. CASE ReadAccess(c)
    <3>1. calls'[c] = [calls[c] EXCEPT !.step = "fetching"]
        BY <1>2, <2>4 DEF ReadAccess
    <3>2. /\ calls'[c].outcome = calls[c].outcome
          /\ calls'[c].attestationId = calls[c].attestationId
          /\ calls'[c].verifier = calls[c].verifier
          /\ calls'[c].arrival = calls[c].arrival
        BY <1>2, <3>1 DEF Call
    <3> QED
        BY <1>2, <2>2, <2>4, <3>2 DEF ReadAccess, KeyInv
  <2>5. CASE Serve(c)
    <3>1. calls'[c].step = "answered" /\ calls'[c].outcome = "served"
        BY <1>2, <2>5 DEF Serve, Call
    <3> QED
        BY <3>1 DEF RefusalInv, KeyInv
  <2> QED
      BY <1>10, <2>1, <2>3, <2>4, <2>5 DEF HandlerStep
<1> QED
    BY <1>4, <1>5, <1>6, <1>7, <1>9, <1>10 DEF ServiceNext

\* The two parts together, beside the invariant of the calls served.
LEMMA StoreInvariant == ServiceSpec => [](ServiceInv /\ StoreInv /\ CallsInv)
<1>1. ServiceInit => CallsInv
  <2> SUFFICES ASSUME ServiceInit, NEW c \in Calls
               PROVE  RefusalInv(c) /\ KeyInv(c)
      BY DEF CallsInv
  <2>1. calls[c].step = "idle" /\ calls[c].outcome = "none"
      BY DEF ServiceInit, NoCall
  <2> QED
      BY <2>1 DEF RefusalInv, KeyInv
<1>2. ServiceInv /\ StoreInv /\ CallsInv /\ [ServiceNext]_allVars
        => (ServiceInv /\ StoreInv /\ CallsInv)'
    BY ServiceStep, StoreStep, CallsStep
<1> QED
    BY <1>1, <1>2, ServiceInitially, StoreInitially, PTL DEF ServiceSpec

-----------------------------------------------------------------------------
(* What is promised of every document served.                               *)

\* To whom: no handler's two reads, however transactions fall between them and
\* restarts around them, let a document go to anybody but the attestation's
\* employee or issuer or a caller with the employee's consent, given before the
\* call or during it; and in production to nobody who has not signed.
THEOREM ServedEntitled == ServiceSpec => []ServedToEntitled
<1>1. ServiceInv => ServedToEntitled
    BY DEF ServiceInv, CallInv, CallAccepted, CallEntitled, ServedToEntitled,
       Running, Holding, Consented
<1> QED
    BY <1>1, ServiceInvariant, PTL

\* When: a call that comes in after the revocation of the attestation is served
\* to nobody, although the handler looks at the status only once.
THEOREM RevokedNeverServed == ServiceSpec => []NoServiceAfterRevocation
<1>1. ServiceInv => NoServiceAfterRevocation
    BY DEF ServiceInv, CallInv, CallRecord, NoServiceAfterRevocation, Holding
<1> QED
    BY <1>1, ServiceInvariant, PTL

\* Which: what is served has the hash that is on chain when it is served and ever
\* after, although the handler compares it with the record it read earlier.
THEOREM OriginalServed == ServiceSpec => []ServedIsOriginal
<1>1. ServiceInv => ServedIsOriginal
    BY DEF ServiceInv, CallInv, CallRecord, CallOriginal, ServedIsOriginal,
       Holding
<1> QED
    BY <1>1, ServiceInvariant, PTL

\* Types, and what the stores hold: a pinned CID always has its blob, and never
\* is in both stores, whatever the uploads and the restarts do.
THEOREM ServiceTypes == ServiceSpec => []ServiceTypeOK
<1>1. ServiceInv /\ StoreInv => ServiceTypeOK
    BY DEF ServiceInv, StoreInv, StoreTypes, CallInv, CallAccepted, Running,
       Holding, ServiceTypeOK
<1> QED
    BY <1>1, StoreInvariant, PTL

\* Who is refused: the employee and the issuer are turned away by a revocation,
\* never for want of consent, whenever the transactions come.
THEOREM OwnersRefused == ServiceSpec => []OwnerRefusedOnlyByRevocation
<1>1. CallsInv => OwnerRefusedOnlyByRevocation
    BY DEF CallsInv, RefusalInv, OwnerRefusedOnlyByRevocation
<1> QED
    BY <1>1, StoreInvariant, PTL

\* What was answered 201 in production with a token is pinned, and its blob is
\* the uploaded document's, through every restart and every later upload.
THEOREM UploadsOutlive == ServiceSpec => []UploadsSurvive
<1>1. StoreInv => UploadsSurvive
    BY DEF StoreInv, UploadInv, UploadsSurvive
<1> QED
    BY <1>1, StoreInvariant, PTL

\* A decryption fails only under another master key than the upload's, when the
\* record has the hash and the CID of one answer.
THEOREM DecryptionOpens == ServiceSpec => []UploadedOpens
<1>1. ASSUME StoreInv, CallsInv PROVE UploadedOpens
    BY <1>1 DEF StoreInv, UploadInv, CallsInv, KeyInv, CidOf, UploadedOpens
<1> QED
    BY <1>1, StoreInvariant, PTL

=============================================================================
