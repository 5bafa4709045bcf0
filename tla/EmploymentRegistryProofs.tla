----------------------- MODULE EmploymentRegistryProofs -----------------------
(***************************************************************************)
(* Theorems about EmploymentRegistry, for every set of wallets and data,   *)
(* every set of calls and every bound.                                     *)
(***************************************************************************)
EXTENDS EmploymentRegistry, TLAPS

USE DEF AttestationIds, RequestIds, EmploymentStatus, RequestStatus,
        Field, Account

-----------------------------------------------------------------------------
(* Type correctness.                                                        *)

\* What the records written by the functions are made of.
LEMMA RecordedType ==
    ASSUME TypeOK, NEW sender \in Wallets, NEW s \in Submissions
    PROVE  Recorded(sender, s) \in Attestation
BY InputAssumption, BoundAssumption
   DEF TypeOK, Recorded, IssueStatus, Submission, Attestation

LEMMA EmittedType ==
    ASSUME NEW name \in {"None", "EmployerRegistered", "AttestationCreated",
                         "AttestationRevoked", "AccessRequested",
                         "AccessGranted", "AccessRejected"},
           NEW by \in Account, NEW a \in Nat, NEW r \in Nat,
           NEW verifier \in Account
    PROVE  Emitted(name, by, a, r, verifier) \in Event
BY DEF Emitted, Event

LEMMA TypeInit == Init => TypeOK
<1> SUFFICES ASSUME Init PROVE TypeOK
    OBVIOUS
<1>1. NoProfile \in EmployerProfile
    BY DEF NoProfile, EmployerProfile
<1>2. NoAttestation \in Attestation
    BY DEF NoAttestation, Attestation
<1>3. NoRequest \in AccessRequest
    BY DEF NoRequest, AccessRequest
<1>4. NoEvent \in Event
    BY EmittedType DEF NoEvent
<1> QED
    BY <1>1, <1>2, <1>3, <1>4, BoundAssumption DEF Init, TypeOK

\* A pending request names a wallet and an attestation that exist.
LEMMA AnswerableType ==
    ASSUME RegistryInv, NEW r \in RequestIds, Requested(r)
    PROVE  /\ accessRequests[r] \in AccessRequest
           /\ accessRequests[r].attestationId \in AttestationIds
           /\ accessRequests[r].attestationId \in Nat
           /\ accessRequests[r].verifier \in Wallets
BY BoundAssumption
   DEF RegistryInv, TypeOK, RequestsMatchAttestations, RequestMatches

LEMMA AnsweredType ==
    ASSUME TypeOK, NEW r \in RequestIds, NEW status \in RequestStatus
    PROVE  Answered(r, status) \in [RequestIds -> AccessRequest]
<1>1. blockTimestamp \in Nat
    BY BoundAssumption DEF TypeOK
<1>2. [accessRequests[r] EXCEPT !.status = status,
                                !.respondedAt = blockTimestamp] \in AccessRequest
    BY <1>1 DEF TypeOK, AccessRequest
<1> QED
    BY <1>2 DEF Answered, TypeOK

LEMMA TypeStep == RegistryInv /\ [Next]_registryVars => TypeOK'
<1> SUFFICES ASSUME RegistryInv, [Next]_registryVars PROVE TypeOK'
    OBVIOUS
<1>0. TypeOK
    BY DEF RegistryInv
<1> USE <1>0
<1> USE BoundAssumption, InputAssumption
<1>1. ASSUME NEW sender \in Wallets, NEW name \in EmployerNames,
             registerEmployer(sender, name)
      PROVE  TypeOK'
  <2>1. event' \in Event
      BY <1>1, EmittedType DEF registerEmployer
  <2>2. employers' \in [Wallets -> EmployerProfile]
      BY <1>1 DEF registerEmployer, TypeOK, EmployerProfile
  <2> QED
      BY <1>1, <2>1, <2>2
      DEF registerEmployer, TypeOK, attestationVars, indexes, requestVars
<1>2. ASSUME NEW sender \in Wallets, NEW s \in Submissions,
             createAttestation(sender, s)
      PROVE  TypeOK'
  <2> DEFINE id == NextAttestationId
  <2>1. id \in AttestationIds /\ id \in Nat
      BY <1>2 DEF createAttestation, TypeOK, NextAttestationId
  <2>2. event' \in Event
      BY <1>2, <2>1, EmittedType DEF createAttestation
  <2>3. attestations' \in [AttestationIds -> Attestation]
      BY <1>2, <2>1, RecordedType DEF createAttestation, TypeOK
  <2>4. s.employeeHash \in Data /\ s.employee \in Wallets
      BY <1>2 DEF createAttestation, ValidSubmission, Submission
  <2>5. /\ employeeHashAttestations' \in [Data -> Seq(AttestationIds)]
        /\ employeeWalletAttestations' \in [Wallets -> Seq(AttestationIds)]
        /\ employerAttestations' \in [Wallets -> Seq(AttestationIds)]
      BY <1>2, <2>1, <2>4 DEF createAttestation, TypeOK
  <2>6. attestationIdCounter' \in 0..MaxAttestations
      BY <1>2 DEF createAttestation, TypeOK
  <2> QED
      BY <1>2, <2>2, <2>3, <2>5, <2>6
      DEF createAttestation, TypeOK, requestVars
<1>3. ASSUME NEW sender \in Wallets, NEW a \in AttestationIds,
             revokeAttestation(sender, a)
      PROVE  TypeOK'
  <2>0. a \in Nat
      OBVIOUS
  <2>1. event' \in Event
      BY <1>3, <2>0, EmittedType DEF revokeAttestation
  <2>4. attestations[a] \in Attestation
      BY DEF TypeOK
  <2>3. [attestations[a] EXCEPT !.status = "REVOKED"] \in Attestation
      BY <2>4 DEF Attestation
  <2>2. attestations' \in [AttestationIds -> Attestation]
      BY <1>3, <2>3 DEF revokeAttestation, TypeOK
  <2> QED
      BY <1>3, <2>1, <2>2
      DEF revokeAttestation, TypeOK, indexes, requestVars
<1>4. ASSUME NEW sender \in Wallets, NEW a \in AttestationIds,
             requestDocumentAccess(sender, a)
      PROVE  TypeOK'
  <2> DEFINE id == requestIdCounter + 1
  <2>1. id \in RequestIds /\ id \in Nat
      BY <1>4 DEF requestDocumentAccess, TypeOK
  <2>2. event' \in Event
      BY <1>4, <2>1, EmittedType DEF requestDocumentAccess
  <2>3. accessRequests' \in [RequestIds -> AccessRequest]
      BY <1>4, <2>1
      DEF requestDocumentAccess, TypeOK, AccessRequest, Attestation
  <2>4. attestationRequests' \in [AttestationIds -> Seq(RequestIds)]
      BY <1>4, <2>1 DEF requestDocumentAccess, TypeOK
  <2>5. requestIdCounter' \in 0..MaxRequests
      BY <1>4 DEF requestDocumentAccess, TypeOK
  <2> QED
      BY <1>4, <2>2, <2>3, <2>4, <2>5
      DEF requestDocumentAccess, TypeOK, attestationVars, indexes
<1>5. ASSUME NEW sender \in Wallets, NEW r \in RequestIds, Requested(r),
             NEW name \in {"AccessGranted", "AccessRejected"}
      PROVE  AnswerEvent(name, sender, r) \in Event
  <2>1. r \in Nat
      OBVIOUS
  <2> QED
      BY <1>5, <2>1, AnswerableType, EmittedType DEF AnswerEvent
<1>7. ASSUME NEW sender \in Wallets, NEW r \in RequestIds,
             approveDocumentAccess(sender, r)
      PROVE  TypeOK'
  <2>1. event' \in Event /\ accessRequests' \in [RequestIds -> AccessRequest]
      BY <1>5, <1>7, AnsweredType DEF approveDocumentAccess, CanAnswer
  <2>2. authorizedVerifiers' \in [AttestationIds -> SUBSET Wallets]
      BY <1>7, AnswerableType DEF approveDocumentAccess, CanAnswer, TypeOK
  <2> QED
      BY <1>7, <2>1, <2>2
      DEF approveDocumentAccess, TypeOK, attestationVars, indexes
<1>8. ASSUME NEW sender \in Wallets, NEW r \in RequestIds,
             rejectDocumentAccess(sender, r)
      PROVE  TypeOK'
  <2>1. event' \in Event /\ accessRequests' \in [RequestIds -> AccessRequest]
      BY <1>5, <1>8, AnsweredType DEF rejectDocumentAccess, CanAnswer
  <2>2. authorizedVerifiers' \in [AttestationIds -> SUBSET Wallets]
      BY <1>8, AnswerableType DEF rejectDocumentAccess, CanAnswer, TypeOK
  <2> QED
      BY <1>8, <2>1, <2>2
      DEF rejectDocumentAccess, TypeOK, attestationVars, indexes
<1>9. CASE NextBlock
  <2>1. event' \in Event
      BY <1>9, EmittedType DEF NextBlock, NoEvent
  <2> QED
      BY <1>9, <2>1
      DEF NextBlock, TypeOK, attestationVars, indexes, requestVars
<1>10. CASE UNCHANGED registryVars
  BY <1>10 DEF registryVars, TypeOK, attestationVars, indexes, requestVars
<1> QED
  BY <1>1, <1>2, <1>3, <1>4, <1>7, <1>8, <1>9, <1>10 DEF Next, Transaction

-----------------------------------------------------------------------------
(* Initial storage.                                                         *)

LEMMA InvInit == Init => RegistryInv
<1> SUFFICES ASSUME Init PROVE RegistryInv
    OBVIOUS
<1>1. IdsMatchCounters
    BY BoundAssumption DEF Init, IdsMatchCounters, Exists, Requested,
       NoAttestation, NoRequest
<1>2. RequestsMatchAttestations
    BY DEF Init, RequestsMatchAttestations, Requested, NoRequest
<1>3. AttestationsComplete
    BY DEF Init, AttestationsComplete, Exists, NoAttestation
<1> QED
    BY <1>1, <1>2, <1>3, TypeInit DEF RegistryInv

-----------------------------------------------------------------------------
(* What one step does to one request.                                       *)

\* The request a verifier has just made.
MadeRequest(sender, a) ==
    [attestationId |-> a, verifier |-> sender,
     employee |-> attestations[a].employee, status |-> "PENDING",
     timestamp |-> blockTimestamp, respondedAt |-> 0]

\* A step leaves a request alone, makes it, or answers it.
RequestStep(r) ==
    \/ accessRequests'[r] = accessRequests[r]
    \/ /\ ~Requested(r)
       /\ requestIdCounter' = r
       /\ \E sender \in Wallets, a \in AttestationIds :
             /\ CanRequest(sender, a)
             /\ accessRequests'[r] = MadeRequest(sender, a)
    \/ /\ Requested(r)
       /\ Pending(r)
       /\ \E status \in {"APPROVED", "REJECTED"} :
             accessRequests'[r] = [accessRequests[r] EXCEPT
                !.status = status, !.respondedAt = blockTimestamp]

\* The counter stays, or moves to the request just made.
CounterStep ==
    \/ requestIdCounter' = requestIdCounter
    \/ /\ requestIdCounter' = requestIdCounter + 1
       /\ requestIdCounter' \in RequestIds
       /\ accessRequests'[requestIdCounter'].timestamp # 0

LEMMA RequestSteps ==
    RegistryInv /\ [Next]_registryVars
       => CounterStep /\ \A r \in RequestIds : RequestStep(r)
<1> DEFINE Goal == CounterStep /\ \A r \in RequestIds : RequestStep(r)
<1> SUFFICES ASSUME RegistryInv, [Next]_registryVars PROVE Goal
    OBVIOUS
<1> USE BoundAssumption DEF RegistryInv
<1>0. CASE UNCHANGED requestVars
  BY <1>0 DEF RequestStep, CounterStep, requestVars
<1>1. ASSUME NEW sender \in Wallets,
             \/ \E name \in EmployerNames : registerEmployer(sender, name)
             \/ \E s \in Submissions : createAttestation(sender, s)
             \/ \E a \in AttestationIds : revokeAttestation(sender, a)
      PROVE  UNCHANGED requestVars
  BY <1>1 DEF registerEmployer, createAttestation, revokeAttestation
<1>2. ASSUME NEW sender \in Wallets, NEW a \in AttestationIds,
             requestDocumentAccess(sender, a)
      PROVE  Goal
  <2>1. /\ CanRequest(sender, a)
        /\ accessRequests' = [accessRequests EXCEPT
              ![requestIdCounter + 1] = MadeRequest(sender, a)]
        /\ requestIdCounter' = requestIdCounter + 1
      BY <1>2 DEF requestDocumentAccess, MadeRequest
  <2>2. requestIdCounter + 1 \in RequestIds
      BY <1>2 DEF requestDocumentAccess, TypeOK
  <2>3. ~Requested(requestIdCounter + 1)
      BY <2>2 DEF IdsMatchCounters, TypeOK
  <2>4. accessRequests'[requestIdCounter + 1] = MadeRequest(sender, a)
      BY <2>1, <2>2 DEF TypeOK
  <2>5. ASSUME NEW r \in RequestIds, r # requestIdCounter + 1
        PROVE  accessRequests'[r] = accessRequests[r]
      BY <2>1, <2>5 DEF TypeOK
  <2>6. MadeRequest(sender, a).timestamp # 0
      BY DEF MadeRequest, TypeOK
  <2>7. CounterStep
      BY <2>1, <2>2, <2>4, <2>6 DEF CounterStep
  <2>8. ASSUME NEW r \in RequestIds PROVE RequestStep(r)
      BY <2>1, <2>3, <2>4, <2>5 DEF RequestStep
  <2> QED
      BY <2>7, <2>8
<1>3. ASSUME NEW r \in RequestIds, NEW status \in {"APPROVED", "REJECTED"},
             Requested(r), Pending(r), accessRequests' = Answered(r, status)
      PROVE  \A q \in RequestIds : RequestStep(q)
  <2>1. accessRequests'[r] = [accessRequests[r] EXCEPT
              !.status = status, !.respondedAt = blockTimestamp]
      BY <1>3 DEF Answered, TypeOK
  <2>2. \A q \in RequestIds \ {r} : accessRequests'[q] = accessRequests[q]
      BY <1>3 DEF Answered, TypeOK
  <2> QED
      BY <1>3, <2>1, <2>2 DEF RequestStep
<1>4. ASSUME NEW sender \in Wallets, NEW r \in RequestIds,
             approveDocumentAccess(sender, r) \/ rejectDocumentAccess(sender, r)
      PROVE  Goal
  BY <1>3, <1>4
     DEF approveDocumentAccess, rejectDocumentAccess, CanAnswer, CounterStep
<1>5. CASE NextBlock \/ UNCHANGED registryVars
  BY <1>0, <1>5 DEF NextBlock, registryVars, requestVars
<1> QED
  BY <1>0, <1>1, <1>2, <1>4, <1>5 DEF Next, Transaction, requestVars

-----------------------------------------------------------------------------
(* What one step does to one attestation.                                   *)

\* A step leaves an attestation alone, issues it, or revokes it.
AttestationStep(a) ==
    \/ attestations'[a] = attestations[a]
    \/ /\ ~Exists(a)
       /\ attestationIdCounter' = a
       /\ \E sender \in Wallets, s \in Submissions :
             /\ ValidSubmission(s)
             /\ isEmployerRegistered(sender)
             /\ attestations'[a] = Recorded(sender, s)
    \/ /\ Exists(a)
       /\ ~Revoked(a)
       /\ attestations'[a] = [attestations[a] EXCEPT !.status = "REVOKED"]
       /\ event' = Emitted("AttestationRevoked", attestations[a].employer,
                           a, 0, Empty)

\* The counter stays, or moves to the attestation just issued.
AttestationCounterStep ==
    \/ attestationIdCounter' = attestationIdCounter
    \/ /\ attestationIdCounter' = attestationIdCounter + 1
       /\ attestationIdCounter' \in AttestationIds
       /\ attestations'[attestationIdCounter'].issueTimestamp # 0

LEMMA AttestationSteps ==
    RegistryInv /\ [Next]_registryVars
       => AttestationCounterStep /\ \A a \in AttestationIds : AttestationStep(a)
<1> DEFINE Goal ==
              AttestationCounterStep /\ \A a \in AttestationIds : AttestationStep(a)
<1> SUFFICES ASSUME RegistryInv, [Next]_registryVars PROVE Goal
    OBVIOUS
<1> USE BoundAssumption DEF RegistryInv
<1>0. CASE UNCHANGED <<attestations, attestationIdCounter>>
  BY <1>0 DEF AttestationStep, AttestationCounterStep
<1>1. ASSUME NEW sender \in Wallets, NEW s \in Submissions,
             createAttestation(sender, s)
      PROVE  Goal
  <2> DEFINE id == attestationIdCounter + 1
  <2>1. id \in AttestationIds /\ ~Exists(id)
      BY <1>1 DEF createAttestation, TypeOK, IdsMatchCounters
  <2>2. /\ attestationIdCounter' = id
        /\ attestations' = [attestations EXCEPT ![id] = Recorded(sender, s)]
        /\ ValidSubmission(s) /\ isEmployerRegistered(sender)
      BY <1>1 DEF createAttestation, NextAttestationId
  <2>3. Recorded(sender, s).issueTimestamp # 0
      BY DEF Recorded, TypeOK
  <2>4. /\ attestations'[id] = Recorded(sender, s)
        /\ \A a \in AttestationIds \ {id} : attestations'[a] = attestations[a]
      BY <2>1, <2>2 DEF TypeOK
  <2>5. AttestationCounterStep
      BY <2>1, <2>2, <2>3, <2>4 DEF AttestationCounterStep
  <2> HIDE DEF id
  <2>6. ASSUME NEW a \in AttestationIds PROVE AttestationStep(a)
      BY <2>1, <2>2, <2>4 DEF AttestationStep
  <2> QED
      BY <2>5, <2>6
<1>2. ASSUME NEW sender \in Wallets, NEW a \in AttestationIds,
             revokeAttestation(sender, a)
      PROVE  Goal
  <2>1. /\ Exists(a) /\ ~Revoked(a)
        /\ attestations' = [attestations EXCEPT ![a].status = "REVOKED"]
        /\ event' = Emitted("AttestationRevoked", attestations[a].employer,
                            a, 0, Empty)
        /\ attestationIdCounter' = attestationIdCounter
      BY <1>2 DEF revokeAttestation, CanRevoke
  <2>2. /\ attestations'[a] = [attestations[a] EXCEPT !.status = "REVOKED"]
        /\ \A b \in AttestationIds \ {a} : attestations'[b] = attestations[b]
      BY <2>1 DEF TypeOK
  <2> QED
      BY <2>1, <2>2 DEF AttestationStep, AttestationCounterStep
<1>3. ASSUME NEW sender \in Wallets,
             \/ \E name \in EmployerNames : registerEmployer(sender, name)
             \/ \E a \in AttestationIds : requestDocumentAccess(sender, a)
             \/ \E r \in RequestIds : approveDocumentAccess(sender, r)
             \/ \E r \in RequestIds : rejectDocumentAccess(sender, r)
      PROVE  UNCHANGED <<attestations, attestationIdCounter>>
  BY <1>3 DEF registerEmployer, requestDocumentAccess, approveDocumentAccess,
     rejectDocumentAccess, attestationVars
<1>4. CASE NextBlock \/ UNCHANGED registryVars
  BY <1>0, <1>4 DEF NextBlock, registryVars, attestationVars
<1> QED
  BY <1>0, <1>1, <1>2, <1>3, <1>4 DEF Next, Transaction

-----------------------------------------------------------------------------
(* The records the functions trust.                                         *)

\* What later steps need to know about a transaction: records are only added,
\* and the fields a request was checked against never change.
RecordsPersist ==
    /\ \A w \in Wallets : isEmployerRegistered(w) => isEmployerRegistered(w)'
    /\ \A a \in AttestationIds : Exists(a) =>
          /\ Exists(a)'
          /\ attestations'[a].employee = attestations[a].employee
          /\ attestations'[a].employer = attestations[a].employer
          /\ attestations'[a].ipfsCID = attestations[a].ipfsCID
          /\ attestations'[a].documentHash = attestations[a].documentHash
          /\ attestations'[a].issueTimestamp = attestations[a].issueTimestamp
          /\ Revoked(a) => Revoked(a)'

LEMMA Persistence == RegistryInv /\ [Next]_registryVars => RecordsPersist
<1> SUFFICES ASSUME RegistryInv, [Next]_registryVars PROVE RecordsPersist
    OBVIOUS
<1>1. ASSUME NEW w \in Wallets, isEmployerRegistered(w)
      PROVE  isEmployerRegistered(w)'
  <2>1. ASSUME NEW sender \in Wallets, NEW name \in EmployerNames,
               registerEmployer(sender, name)
        PROVE  isEmployerRegistered(w)'
    BY <1>1, <2>1 DEF registerEmployer, isEmployerRegistered, RegistryInv, TypeOK
  <2>2. ASSUME NEW sender \in Wallets,
               \/ \E s \in Submissions : createAttestation(sender, s)
               \/ \E a \in AttestationIds : revokeAttestation(sender, a)
               \/ \E a \in AttestationIds : requestDocumentAccess(sender, a)
               \/ \E r \in RequestIds : approveDocumentAccess(sender, r)
               \/ \E r \in RequestIds : rejectDocumentAccess(sender, r)
        PROVE  employers' = employers
    BY <2>2 DEF createAttestation, revokeAttestation, requestDocumentAccess,
       approveDocumentAccess, rejectDocumentAccess
  <2>3. CASE NextBlock \/ UNCHANGED registryVars
    BY <1>1, <2>3 DEF NextBlock, registryVars, isEmployerRegistered
  <2> QED
    BY <1>1, <2>1, <2>2, <2>3 DEF Next, Transaction, isEmployerRegistered
<1>2. ASSUME NEW a \in AttestationIds, Exists(a)
      PROVE  /\ Exists(a)'
             /\ attestations'[a].employee = attestations[a].employee
             /\ attestations'[a].employer = attestations[a].employer
             /\ attestations'[a].ipfsCID = attestations[a].ipfsCID
             /\ attestations'[a].documentHash = attestations[a].documentHash
             /\ attestations'[a].issueTimestamp = attestations[a].issueTimestamp
             /\ Revoked(a) => Revoked(a)'
  <2>1. attestations[a] \in Attestation
      BY DEF RegistryInv, TypeOK
  <2>2. \/ attestations'[a] = attestations[a]
        \/ attestations'[a] = [attestations[a] EXCEPT !.status = "REVOKED"]
      BY <1>2, AttestationSteps DEF AttestationStep
  <2> QED
      BY <1>2, <2>1, <2>2 DEF Attestation, Exists, Revoked
<1> QED
  BY <1>1, <1>2 DEF RecordsPersist

\* The fields of a stored request other than its answer never change.
LEMMA RequestsPersist ==
    ASSUME RegistryInv, [Next]_registryVars, NEW r \in RequestIds, Requested(r)
    PROVE  /\ Requested(r)'
           /\ accessRequests'[r].attestationId = accessRequests[r].attestationId
           /\ accessRequests'[r].verifier = accessRequests[r].verifier
           /\ accessRequests'[r].employee = accessRequests[r].employee
           /\ accessRequests'[r].timestamp = accessRequests[r].timestamp
<1>1. RequestStep(r) /\ accessRequests[r] \in AccessRequest
    BY RequestSteps DEF RegistryInv, TypeOK
<1>2. CASE accessRequests'[r] = accessRequests[r]
    BY <1>2 DEF Requested
<1>3. ASSUME NEW status \in {"APPROVED", "REJECTED"},
             accessRequests'[r] = [accessRequests[r] EXCEPT
                !.status = status, !.respondedAt = blockTimestamp]
      PROVE  /\ accessRequests'[r].attestationId = accessRequests[r].attestationId
             /\ accessRequests'[r].verifier = accessRequests[r].verifier
             /\ accessRequests'[r].employee = accessRequests[r].employee
             /\ accessRequests'[r].timestamp = accessRequests[r].timestamp
    BY <1>1, <1>3 DEF AccessRequest
<1> QED
    BY <1>1, <1>2, <1>3 DEF RequestStep, Requested

LEMMA CountersStep == RegistryInv /\ [Next]_registryVars => IdsMatchCounters'
<1> SUFFICES ASSUME RegistryInv, [Next]_registryVars PROVE IdsMatchCounters'
    OBVIOUS
<1> USE BoundAssumption DEF RegistryInv
<1> DEFINE AttestationsCounted ==
              \A a \in AttestationIds : Exists(a) <=> a <= attestationIdCounter
           RequestsCounted ==
              \A r \in RequestIds : Requested(r) <=> r <= requestIdCounter
           AttestationsZero ==
              \A a \in AttestationIds : ~Exists(a) => attestations[a] = NoAttestation
           RequestsZero ==
              \A r \in RequestIds : ~Requested(r) => accessRequests[r] = NoRequest
<1>0. /\ AttestationsCounted /\ RequestsCounted
      /\ AttestationsZero /\ RequestsZero
    BY DEF IdsMatchCounters
<1>1. AttestationsCounted' /\ AttestationsZero'
  <2>1. ASSUME NEW a \in AttestationIds, ~Exists(a)'
        PROVE  ~Exists(a) /\ attestations'[a] = attestations[a]
    <3>1. ~Exists(a)
        BY <2>1, Persistence DEF RecordsPersist
    <3>2. AttestationStep(a)
        BY AttestationSteps
    <3>3. ASSUME NEW sender, NEW s
          PROVE  Recorded(sender, s).issueTimestamp # 0
        BY DEF Recorded, TypeOK
    <3> QED
        BY <2>1, <3>1, <3>2, <3>3 DEF AttestationStep, Exists
  <2>2. SUFFICES ASSUME NEW a \in AttestationIds
                 PROVE  Exists(a)' <=> a <= attestationIdCounter'
      BY <1>0, <2>1
  <2>3. AttestationStep(a) /\ AttestationCounterStep /\ attestationIdCounter \in Nat
      BY AttestationSteps DEF TypeOK
  <2>4. Exists(a) => Exists(a)'
      BY Persistence DEF RecordsPersist
  <2>5. CASE attestations'[a] = attestations[a]
      BY <1>0, <2>3, <2>5 DEF AttestationCounterStep, Exists
  <2>6. CASE attestations'[a] # attestations[a]
      BY <1>0, <2>1, <2>3, <2>4, <2>6 DEF AttestationCounterStep, AttestationStep
  <2> QED
      BY <2>5, <2>6
<1>2. RequestsCounted'
  <2>1. \A r \in RequestIds :
            Requested(r)' <=> Requested(r) \/ accessRequests'[r] # accessRequests[r]
    <3> SUFFICES ASSUME NEW r \in RequestIds
                 PROVE  Requested(r)' <=>
                           Requested(r) \/ accessRequests'[r] # accessRequests[r]
        OBVIOUS
    <3>1. RequestStep(r) /\ accessRequests[r] \in AccessRequest
        BY RequestSteps DEF TypeOK
    <3>2. blockTimestamp # 0
        BY DEF TypeOK
    <3>3. ASSUME NEW status \in {"APPROVED", "REJECTED"}
          PROVE  [accessRequests[r] EXCEPT !.status = status,
                     !.respondedAt = blockTimestamp].timestamp
                    = accessRequests[r].timestamp
        BY <3>1 DEF AccessRequest
    <3>4. ASSUME NEW sender, NEW a
          PROVE  MadeRequest(sender, a).timestamp = blockTimestamp
        BY DEF MadeRequest
    <3> QED
        BY <3>1, <3>2, <3>3, <3>4 DEF RequestStep, Requested
  <2>2. SUFFICES ASSUME NEW r \in RequestIds
                 PROVE  Requested(r)' <=> r <= requestIdCounter'
    OBVIOUS
  <2>3. RequestStep(r) /\ CounterStep /\ requestIdCounter \in Nat
    BY RequestSteps DEF TypeOK
  <2>4. CASE accessRequests'[r] = accessRequests[r]
    BY <1>0, <2>1, <2>3, <2>4 DEF CounterStep, Requested
  <2>5. CASE accessRequests'[r] # accessRequests[r]
    BY <1>0, <2>1, <2>3, <2>5 DEF CounterStep, RequestStep, Requested
  <2> QED
    BY <2>4, <2>5
<1>3. RequestsZero'
  <2>1. ASSUME NEW r \in RequestIds, ~Requested(r)'
        PROVE  ~Requested(r) /\ accessRequests'[r] = accessRequests[r]
    <3>1. ~Requested(r)
        BY <2>1, RequestsPersist
    <3>2. RequestStep(r) /\ blockTimestamp # 0
        BY RequestSteps DEF TypeOK
    <3>3. ASSUME NEW sender, NEW a
          PROVE  MadeRequest(sender, a).timestamp = blockTimestamp
        BY DEF MadeRequest
    <3> QED
        BY <2>1, <3>1, <3>2, <3>3 DEF RequestStep, Requested
  <2> QED
    BY <1>0, <2>1
<1> QED
  BY <1>1, <1>2, <1>3 DEF IdsMatchCounters

LEMMA RequestsStep ==
    RegistryInv /\ [Next]_registryVars => RequestsMatchAttestations'
<1> SUFFICES ASSUME RegistryInv, [Next]_registryVars,
                    NEW r \in RequestIds, Requested(r)'
             PROVE  RequestMatches(r)'
    BY DEF RequestsMatchAttestations
<1>1. RequestStep(r) /\ RecordsPersist
    BY RequestSteps, Persistence
<1>2. CASE Requested(r)
  <2>1. RequestMatches(r)
      BY <1>2 DEF RegistryInv, RequestsMatchAttestations
  <2> QED
      BY <1>1, <1>2, <2>1, RequestsPersist DEF RequestMatches, RecordsPersist
<1>3. CASE ~Requested(r)
  <2>1. PICK sender \in Wallets, a \in AttestationIds :
            /\ CanRequest(sender, a)
            /\ accessRequests'[r] = MadeRequest(sender, a)
      BY <1>1, <1>3 DEF RequestStep, Requested
  <2>2. /\ accessRequests'[r].attestationId = a
        /\ accessRequests'[r].verifier = sender
        /\ accessRequests'[r].employee = attestations[a].employee
      BY <2>1 DEF MadeRequest
  <2> QED
      BY <1>1, <2>1, <2>2 DEF RequestMatches, RecordsPersist, CanRequest
<1> QED
  BY <1>2, <1>3

LEMMA CompleteStep ==
    RegistryInv /\ [Next]_registryVars => AttestationsComplete'
<1> SUFFICES ASSUME RegistryInv, [Next]_registryVars,
                    NEW a \in AttestationIds, Exists(a)'
             PROVE  AttestationComplete(a)'
    BY DEF AttestationsComplete
<1>1. RecordsPersist /\ AttestationStep(a)
    BY Persistence, AttestationSteps
<1>2. CASE Exists(a)
  <2>1. AttestationComplete(a) /\ attestations[a] \in Attestation
      BY <1>2 DEF RegistryInv, AttestationsComplete, TypeOK
  <2>2. CASE attestations'[a] = attestations[a]
      BY <1>1, <2>1, <2>2 DEF AttestationComplete, RecordsPersist
  <2>3. CASE attestations'[a] = [attestations[a] EXCEPT !.status = "REVOKED"]
    <3>1. /\ attestations'[a].employee = attestations[a].employee
          /\ attestations'[a].employer = attestations[a].employer
          /\ attestations'[a].startDate = attestations[a].startDate
          /\ attestations'[a].endDate = attestations[a].endDate
          /\ attestations'[a].status = "REVOKED"
        BY <2>1, <2>3 DEF Attestation
    <3> QED
        BY <1>1, <2>1, <3>1 DEF AttestationComplete, RecordsPersist
  <2> QED
      BY <1>1, <1>2, <2>2, <2>3 DEF AttestationStep
<1>3. CASE ~Exists(a)
  <2>1. PICK sender \in Wallets, s \in Submissions :
            /\ ValidSubmission(s)
            /\ isEmployerRegistered(sender)
            /\ attestations'[a] = Recorded(sender, s)
      BY <1>1, <1>3 DEF AttestationStep, Exists
  <2>2. /\ s \in Submission
        /\ blockTimestamp \in Nat \ {0}
      BY InputAssumption, BoundAssumption DEF RegistryInv, TypeOK
  <2>3. /\ attestations'[a].employee = s.employee
        /\ attestations'[a].employer = sender
        /\ attestations'[a].startDate = s.startDate
        /\ attestations'[a].endDate = s.endDate
        /\ attestations'[a].issueTimestamp = blockTimestamp
        /\ attestations'[a].status = IssueStatus(s)
      BY <2>1 DEF Recorded
  <2>4. /\ s.employee \in Wallets
        /\ s.startDate > 0
        /\ s.endDate = 0 \/ s.endDate >= s.startDate
        /\ IssueStatus(s) = "COMPLETED" => s.endDate \in 1..blockTimestamp
      BY <2>1, <2>2 DEF ValidSubmission, Submission, IssueStatus
  <2> QED
      BY <1>1, <2>1, <2>3, <2>4 DEF AttestationComplete, RecordsPersist
<1> QED
  BY <1>2, <1>3

LEMMA InvStep == RegistryInv /\ [Next]_registryVars => RegistryInv'
BY TypeStep, CountersStep, RequestsStep, CompleteStep DEF RegistryInv

\* The inductive invariant holds of every reachable state.
THEOREM RegistryInvariant == Spec => []RegistryInv
BY InvInit, InvStep, PTL DEF Spec

\* Every reachable state of the registry is well typed.
THEOREM TypeCorrect == Spec => []TypeOK
<1>1. RegistryInv => TypeOK
    BY DEF RegistryInv
<1> QED
    BY <1>1, RegistryInvariant, PTL

\* A request never disagrees with the attestation it was checked against.
THEOREM RequestsTrusted == Spec => []RequestsMatchAttestations
<1>1. RegistryInv => RequestsMatchAttestations
    BY DEF RegistryInv
<1> QED
    BY <1>1, RegistryInvariant, PTL

-----------------------------------------------------------------------------
(* Answers and authorizations.                                              *)

\* No request is answered and no authorization moves.
NoAnswer ==
    /\ \A r \in RequestIds : Requested(r) => accessRequests'[r] = accessRequests[r]
    /\ \A r \in RequestIds : ~Requested(r) /\ Requested(r)' => Pending(r)'
    /\ authorizedVerifiers' = authorizedVerifiers

\* The employee answers r, and the verifier's authorization follows.
AnswerOf(r, status) ==
    /\ Requested(r)
    /\ Pending(r)
    /\ accessRequests' = Answered(r, status)
    /\ authorizedVerifiers' =
          [authorizedVerifiers EXCEPT ![accessRequests[r].attestationId] =
              IF status = "APPROVED" THEN @ \cup {accessRequests[r].verifier}
                                     ELSE @ \ {accessRequests[r].verifier}]
    /\ event' = AnswerEvent(IF status = "APPROVED" THEN "AccessGranted"
                                                   ELSE "AccessRejected",
                            accessRequests[r].employee, r)
    /\ UNCHANGED <<employers, attestationVars, blockTimestamp>>

LEMMA AnswerActions ==
    ASSUME NEW sender \in Wallets, NEW r \in RequestIds
    PROVE  /\ approveDocumentAccess(sender, r) => AnswerOf(r, "APPROVED")
           /\ rejectDocumentAccess(sender, r) => AnswerOf(r, "REJECTED")
BY DEF approveDocumentAccess, rejectDocumentAccess, CanAnswer, AnswerOf

LEMMA AnswerCases ==
    RegistryInv /\ [Next]_registryVars
       => \/ NoAnswer
          \/ \E r \in RequestIds, status \in {"APPROVED", "REJECTED"} :
                AnswerOf(r, status)
<1> SUFFICES ASSUME RegistryInv, [Next]_registryVars
             PROVE  \/ NoAnswer
                    \/ \E r \in RequestIds, status \in {"APPROVED", "REJECTED"} :
                          AnswerOf(r, status)
    OBVIOUS
<1>0. CASE UNCHANGED <<accessRequests, authorizedVerifiers>>
  BY <1>0 DEF NoAnswer, Requested
<1>1. ASSUME NEW sender \in Wallets,
             \/ \E name \in EmployerNames : registerEmployer(sender, name)
             \/ \E s \in Submissions : createAttestation(sender, s)
             \/ \E a \in AttestationIds : revokeAttestation(sender, a)
      PROVE  UNCHANGED <<accessRequests, authorizedVerifiers>>
  BY <1>1 DEF registerEmployer, createAttestation, revokeAttestation,
     requestVars
<1>2. ASSUME NEW sender \in Wallets, NEW a \in AttestationIds,
             requestDocumentAccess(sender, a)
      PROVE  NoAnswer
  <2> DEFINE id == requestIdCounter + 1
  <2>1. /\ authorizedVerifiers' = authorizedVerifiers
        /\ accessRequests' = [accessRequests EXCEPT ![id] = MadeRequest(sender, a)]
      BY <1>2 DEF requestDocumentAccess, MadeRequest
  <2>2. id \in RequestIds /\ ~Requested(id)
      BY <1>2, BoundAssumption
         DEF requestDocumentAccess, RegistryInv, TypeOK, IdsMatchCounters
  <2>3. MadeRequest(sender, a).status = "PENDING"
      BY DEF MadeRequest
  <2> HIDE DEF id
  <2>5. accessRequests'[id] = MadeRequest(sender, a)
      BY <2>1, <2>2 DEF RegistryInv, TypeOK
  <2>4. /\ accessRequests'[id].status = "PENDING"
        /\ \A r \in RequestIds \ {id} : accessRequests'[r] = accessRequests[r]
      BY <2>1, <2>2, <2>3, <2>5 DEF RegistryInv, TypeOK
  <2> QED
      BY <2>1, <2>2, <2>4 DEF NoAnswer, Requested, Pending
<1>3. ASSUME NEW sender \in Wallets, NEW r \in RequestIds,
             approveDocumentAccess(sender, r) \/ rejectDocumentAccess(sender, r)
      PROVE  \E status \in {"APPROVED", "REJECTED"} : AnswerOf(r, status)
  BY <1>3, AnswerActions
<1>5. CASE NextBlock \/ UNCHANGED registryVars
  BY <1>0, <1>5 DEF NextBlock, registryVars, requestVars
<1> QED
  BY <1>0, <1>1, <1>2, <1>3, <1>5 DEF Next, Transaction

\* What an answer leaves in the answered request, and in the others.
LEMMA AnswerEffect ==
    ASSUME RegistryInv, NEW r \in RequestIds,
           NEW status \in {"APPROVED", "REJECTED"}, AnswerOf(r, status)
    PROVE  /\ accessRequests'[r].timestamp = accessRequests[r].timestamp
           /\ accessRequests'[r].attestationId = accessRequests[r].attestationId
           /\ accessRequests'[r].verifier = accessRequests[r].verifier
           /\ accessRequests'[r].status = status
           /\ accessRequests'[r].respondedAt = blockTimestamp
           /\ \A q \in RequestIds \ {r} : accessRequests'[q] = accessRequests[q]
<1>1. accessRequests[r] \in AccessRequest
    BY DEF RegistryInv, TypeOK
<1>2. accessRequests'[r] = [accessRequests[r] EXCEPT
            !.status = status, !.respondedAt = blockTimestamp]
    BY DEF AnswerOf, Answered, RegistryInv, TypeOK
<1>3. \A q \in RequestIds \ {r} : accessRequests'[q] = accessRequests[q]
    BY DEF AnswerOf, Answered, RegistryInv, TypeOK
<1> QED
    BY <1>1, <1>2, <1>3 DEF AccessRequest

\* No response is dated in the future.
AnswersPast ==
    \A r \in RequestIds : Requested(r) /\ ~Pending(r) =>
        accessRequests[r].respondedAt <= blockTimestamp

ConsentInv == RegistryInv /\ AnswersPast /\ LatestAnswerDecides

LEMMA ClockStep ==
    RegistryInv /\ [Next]_registryVars
       => /\ blockTimestamp \in Nat
          /\ blockTimestamp' \in {blockTimestamp, blockTimestamp + 1}
<1> SUFFICES ASSUME RegistryInv, [Next]_registryVars
             PROVE  /\ blockTimestamp \in Nat
                    /\ blockTimestamp' \in {blockTimestamp, blockTimestamp + 1}
    OBVIOUS
<1>1. blockTimestamp \in Nat
    BY BoundAssumption DEF RegistryInv, TypeOK
<1>2. ASSUME NEW sender \in Wallets, Transaction(sender)
      PROVE  blockTimestamp' = blockTimestamp
    BY <1>2 DEF Transaction, registerEmployer, createAttestation,
       revokeAttestation, requestDocumentAccess, approveDocumentAccess,
       rejectDocumentAccess
<1>3. CASE NextBlock
    BY <1>1, <1>3 DEF NextBlock
<1>4. CASE UNCHANGED registryVars
    BY <1>1, <1>4 DEF registryVars
<1> QED
    BY <1>1, <1>2, <1>3, <1>4 DEF Next

LEMMA AnswersPastStep ==
    RegistryInv /\ AnswersPast /\ [Next]_registryVars => AnswersPast'
<1> SUFFICES ASSUME RegistryInv, AnswersPast, [Next]_registryVars,
                    NEW r \in RequestIds, Requested(r)', ~Pending(r)'
             PROVE  accessRequests'[r].respondedAt <= blockTimestamp'
    BY DEF AnswersPast
<1>1. /\ blockTimestamp \in Nat
      /\ blockTimestamp' \in {blockTimestamp, blockTimestamp + 1}
    BY ClockStep
<1>0. accessRequests[r].respondedAt \in Nat
    BY DEF RegistryInv, TypeOK, AccessRequest
<1>2. CASE NoAnswer
    BY <1>0, <1>1, <1>2 DEF NoAnswer, AnswersPast, Requested, Pending
<1>3. ASSUME NEW q \in RequestIds, NEW status \in {"APPROVED", "REJECTED"},
             AnswerOf(q, status)
      PROVE  accessRequests'[r].respondedAt <= blockTimestamp'
    BY <1>0, <1>1, <1>3, AnswerEffect DEF AnswersPast, Requested, Pending
<1> QED
    BY <1>2, <1>3, AnswerCases

LEMMA LatestAnswerStep ==
    ConsentInv /\ [Next]_registryVars => LatestAnswerDecides'
<1> SUFFICES ASSUME ConsentInv, [Next]_registryVars,
                    NEW a \in AttestationIds, NEW v \in Wallets
             PROVE  IF v \in authorizedVerifiers'[a]
                    THEN \E r \in LatestAnswers(a, v)' :
                            accessRequests'[r].status = "APPROVED"
                    ELSE AnsweredRequests(a, v)' # {} =>
                         \E r \in LatestAnswers(a, v)' :
                            accessRequests'[r].status = "REJECTED"
    BY DEF LatestAnswerDecides
<1> USE DEF ConsentInv
<1>1. IF v \in authorizedVerifiers[a]
      THEN \E r \in LatestAnswers(a, v) : accessRequests[r].status = "APPROVED"
      ELSE AnsweredRequests(a, v) # {} =>
           \E r \in LatestAnswers(a, v) : accessRequests[r].status = "REJECTED"
    BY DEF LatestAnswerDecides
<1>2. \* Nothing about this verifier and this attestation is answered.
      ASSUME AnsweredRequests(a, v)' = AnsweredRequests(a, v),
             \A r \in AnsweredRequests(a, v) :
                accessRequests'[r] = accessRequests[r],
             v \in authorizedVerifiers'[a] <=> v \in authorizedVerifiers[a]
      PROVE  IF v \in authorizedVerifiers'[a]
             THEN \E r \in LatestAnswers(a, v)' :
                     accessRequests'[r].status = "APPROVED"
             ELSE AnsweredRequests(a, v)' # {} =>
                  \E r \in LatestAnswers(a, v)' :
                     accessRequests'[r].status = "REJECTED"
  <2>1. LatestAnswers(a, v)' = LatestAnswers(a, v)
      BY <1>2 DEF LatestAnswers
  <2>2. \A r \in LatestAnswers(a, v) : accessRequests'[r] = accessRequests[r]
      BY <1>2 DEF LatestAnswers
  <2> QED
      BY <1>1, <1>2, <2>1, <2>2
<1>3. CASE NoAnswer
  <2>1. AnsweredRequests(a, v)' = AnsweredRequests(a, v)
      BY <1>3, RequestsPersist DEF NoAnswer, AnsweredRequests, Requested, Pending
  <2>2. \A r \in AnsweredRequests(a, v) : accessRequests'[r] = accessRequests[r]
      BY <1>3 DEF NoAnswer, AnsweredRequests
  <2> QED
      BY <1>2, <1>3, <2>1, <2>2 DEF NoAnswer
<1>4. ASSUME NEW r \in RequestIds, NEW status \in {"APPROVED", "REJECTED"},
             AnswerOf(r, status)
      PROVE  IF v \in authorizedVerifiers'[a]
             THEN \E q \in LatestAnswers(a, v)' :
                     accessRequests'[q].status = "APPROVED"
             ELSE AnsweredRequests(a, v)' # {} =>
                  \E q \in LatestAnswers(a, v)' :
                     accessRequests'[q].status = "REJECTED"
  <2> DEFINE b == accessRequests[r].attestationId
             u == accessRequests[r].verifier
  <2>1. /\ b \in AttestationIds /\ u \in Wallets
        /\ Requested(r) /\ Pending(r)
      BY <1>4, AnswerableType DEF AnswerOf
  <2>2. /\ accessRequests'[r].timestamp = accessRequests[r].timestamp
        /\ accessRequests'[r].attestationId = b
        /\ accessRequests'[r].verifier = u
        /\ accessRequests'[r].status = status
        /\ accessRequests'[r].respondedAt = blockTimestamp
        /\ \A q \in RequestIds \ {r} : accessRequests'[q] = accessRequests[q]
      BY <1>4, AnswerEffect
  <2>3. /\ \A c \in AttestationIds \ {b} :
              authorizedVerifiers'[c] = authorizedVerifiers[c]
        /\ authorizedVerifiers'[b] =
              IF status = "APPROVED" THEN authorizedVerifiers[b] \cup {u}
                                     ELSE authorizedVerifiers[b] \ {u}
      BY <1>4, <2>1 DEF AnswerOf, RegistryInv, TypeOK
  <2> HIDE DEF b, u
  <2>4. CASE a = b /\ v = u
    <3>1. AnsweredRequests(a, v)' = AnsweredRequests(a, v) \cup {r}
        BY <2>1, <2>2, <2>4 DEF AnsweredRequests, Requested, Pending, b, u
    <3>2. \A q \in AnsweredRequests(a, v) :
             accessRequests'[q].respondedAt <= blockTimestamp
        BY <2>1, <2>2 DEF AnsweredRequests, AnswersPast
    <3>3. r \in LatestAnswers(a, v)'
        BY <2>2, <3>1, <3>2, ClockStep DEF LatestAnswers
    <3>4. v \in authorizedVerifiers'[a] <=> status = "APPROVED"
        BY <2>3, <2>4
    <3> QED
        BY <2>2, <3>3, <3>4
  <2>5. CASE ~(a = b /\ v = u)
    <3>1. AnsweredRequests(a, v)' = AnsweredRequests(a, v)
        BY <2>1, <2>2, <2>5 DEF AnsweredRequests, Requested, Pending, b, u
    <3>2. \A q \in AnsweredRequests(a, v) : accessRequests'[q] = accessRequests[q]
        BY <2>1, <2>2 DEF AnsweredRequests
    <3>3. v \in authorizedVerifiers'[a] <=> v \in authorizedVerifiers[a]
        BY <2>3, <2>5
    <3> QED
        BY <1>2, <3>1, <3>2, <3>3
  <2> QED
      BY <2>4, <2>5
<1> QED
    BY <1>3, <1>4, AnswerCases

LEMMA ConsentInit == Init => ConsentInv
<1> SUFFICES ASSUME Init PROVE ConsentInv
    OBVIOUS
<1>1. \A r \in RequestIds : ~Requested(r)
    BY DEF Init, NoRequest, Requested
<1>2. \A a \in AttestationIds : authorizedVerifiers[a] = {}
    BY DEF Init
<1> QED
    BY <1>1, <1>2, InvInit
       DEF ConsentInv, AnswersPast, LatestAnswerDecides, AnsweredRequests

LEMMA ConsentStep == ConsentInv /\ [Next]_registryVars => ConsentInv'
BY InvStep, AnswersPastStep, LatestAnswerStep DEF ConsentInv

\* A verifier's authorization says what the employee's latest answer to that
\* verifier said, in whatever order requests are made and answered.
THEOREM LatestAnswerHolds == Spec => []LatestAnswerDecides
<1>1. ConsentInv => LatestAnswerDecides
    BY DEF ConsentInv
<1> QED
    BY ConsentInit, ConsentStep, <1>1, PTL DEF Spec

-----------------------------------------------------------------------------
(* Who moves access.                                                        *)

\* Only an attestation that exists has authorized verifiers: somebody asked.
LEMMA AuthorizedExists ==
    ASSUME ConsentInv, NEW a \in AttestationIds, NEW v \in Wallets,
           v \in authorizedVerifiers[a]
    PROVE  Exists(a)
<1>1. PICK r \in LatestAnswers(a, v) : accessRequests[r].status = "APPROVED"
    BY DEF ConsentInv, LatestAnswerDecides
<1>2. r \in RequestIds /\ Requested(r) /\ accessRequests[r].attestationId = a
    BY <1>1 DEF LatestAnswers, AnsweredRequests
<1> QED
    BY <1>2 DEF ConsentInv, RegistryInv, RequestsMatchAttestations, RequestMatches

\* The authorization of v for a moves only by an answer to a request of v for a.
LEMMA AuthorizationMoves ==
    ASSUME ConsentInv, [Next]_registryVars,
           NEW a \in AttestationIds, NEW v \in Wallets,
           ~(v \in authorizedVerifiers'[a] <=> v \in authorizedVerifiers[a])
    PROVE  /\ v \in authorizedVerifiers'[a] => GainedByConsent(a, v)
           /\ v \notin authorizedVerifiers'[a] => LostByRejection(a, v)
           /\ attestations' = attestations
<1>1. PICK r \in RequestIds, status \in {"APPROVED", "REJECTED"} :
          AnswerOf(r, status)
    BY AnswerCases DEF ConsentInv, NoAnswer
<1> DEFINE b == accessRequests[r].attestationId
           u == accessRequests[r].verifier
<1>2. /\ b \in AttestationIds /\ u \in Wallets
      /\ accessRequests[r].employee = attestations[b].employee
    BY <1>1, AnswerableType DEF AnswerOf, ConsentInv, RegistryInv,
       RequestsMatchAttestations, RequestMatches
<1>3. /\ \A c \in AttestationIds \ {b} :
            authorizedVerifiers'[c] = authorizedVerifiers[c]
      /\ authorizedVerifiers'[b] =
            IF status = "APPROVED" THEN authorizedVerifiers[b] \cup {u}
                                   ELSE authorizedVerifiers[b] \ {u}
      /\ attestations' = attestations
    BY <1>1, <1>2
       DEF AnswerOf, ConsentInv, RegistryInv, TypeOK, attestationVars
<1>4. /\ event'.name = IF status = "APPROVED" THEN "AccessGranted"
                                              ELSE "AccessRejected"
      /\ event'.by = attestations[b].employee
      /\ event'.attestationId = b
      /\ event'.verifier = u
    BY <1>1, <1>2 DEF AnswerOf, AnswerEvent, Emitted
<1> HIDE DEF b, u
<1>5. a = b /\ v = u
    BY <1>2, <1>3
<1> QED
    BY <1>3, <1>4, <1>5 DEF GainedByConsent, LostByRejection

\* Access appears only by the employee's approval, and disappears only by the
\* employee's rejection or the issuer's revocation.
THEOREM AccessMovesByOwner == Spec => AccessChangesByOwner
<1>1. ASSUME ConsentInv, [Next]_registryVars,
             NEW a \in AttestationIds, NEW v \in Wallets
      PROVE  /\ ~hasDocumentAccess(a, v) /\ hasDocumentAccess(a, v)'
                   => GainedByConsent(a, v)
             /\ hasDocumentAccess(a, v) /\ ~hasDocumentAccess(a, v)'
                   => LostByRejection(a, v) \/ LostByRevocation(a)
  <2>1. CASE ~(v \in authorizedVerifiers'[a] <=> v \in authorizedVerifiers[a])
      BY <1>1, <2>1, AuthorizationMoves
         DEF hasDocumentAccess, Exists, Revoked
  <2>2. CASE v \in authorizedVerifiers'[a] <=> v \in authorizedVerifiers[a]
    <3>1. AttestationStep(a) /\ RecordsPersist
        BY <1>1, AttestationSteps, Persistence DEF ConsentInv
    <3>2. ~(~hasDocumentAccess(a, v) /\ hasDocumentAccess(a, v)')
        BY <1>1, <2>2, <3>1, AuthorizedExists
           DEF hasDocumentAccess, RecordsPersist
    <3>3. CASE hasDocumentAccess(a, v) /\ ~hasDocumentAccess(a, v)'
      <4>1. Exists(a) /\ Exists(a)' /\ ~Revoked(a) /\ Revoked(a)'
          BY <2>2, <3>1, <3>3 DEF hasDocumentAccess, RecordsPersist
      <4>2. event' = Emitted("AttestationRevoked", attestations[a].employer,
                             a, 0, Empty)
          BY <3>1, <4>1 DEF AttestationStep, Revoked
      <4> QED
          BY <3>2, <4>2 DEF LostByRevocation, Emitted
    <3> QED
        BY <3>2, <3>3
  <2> QED
      BY <2>1, <2>2
<1>2. ConsentInv /\ ConsentInv' /\ [Next]_registryVars
         => [\A a \in AttestationIds, v \in Wallets :
                /\ ~hasDocumentAccess(a, v) /\ hasDocumentAccess(a, v)'
                      => GainedByConsent(a, v)
                /\ hasDocumentAccess(a, v) /\ ~hasDocumentAccess(a, v)'
                      => LostByRejection(a, v) \/ LostByRevocation(a)]_registryVars
    BY <1>1
<1> QED
    BY <1>2, ConsentInit, ConsentStep, PTL DEF Spec, AccessChangesByOwner

-----------------------------------------------------------------------------
(* Revocation.                                                              *)

\* Requests are listed under an attestation only while it is not revoked.
LEMMA RequestListStep ==
    ASSUME RegistryInv, [Next]_registryVars, NEW a \in AttestationIds, Revoked(a)
    PROVE  attestationRequests'[a] = attestationRequests[a]
<1>1. ASSUME NEW sender \in Wallets, NEW b \in AttestationIds,
             requestDocumentAccess(sender, b)
      PROVE  attestationRequests'[a] = attestationRequests[a]
    BY <1>1 DEF requestDocumentAccess, CanRequest, RegistryInv, TypeOK
<1>2. ASSUME NEW sender \in Wallets,
             \/ \E name \in EmployerNames : registerEmployer(sender, name)
             \/ \E s \in Submissions : createAttestation(sender, s)
             \/ \E b \in AttestationIds : revokeAttestation(sender, b)
             \/ \E r \in RequestIds : approveDocumentAccess(sender, r)
             \/ \E r \in RequestIds : rejectDocumentAccess(sender, r)
      PROVE  attestationRequests'[a] = attestationRequests[a]
    BY <1>2 DEF registerEmployer, createAttestation, revokeAttestation,
       approveDocumentAccess, rejectDocumentAccess, requestVars
<1>3. CASE NextBlock \/ UNCHANGED registryVars
    BY <1>3 DEF NextBlock, registryVars, requestVars
<1> QED
    BY <1>1, <1>2, <1>3 DEF Next, Transaction

\* A revoked attestation never changes, is never asked about again and is never
\* readable by a verifier again.
THEOREM RevocationHolds == Spec => RevocationIsFinal
<1>1. ASSUME RegistryInv, [Next]_registryVars,
             NEW a \in AttestationIds, Revoked(a)
      PROVE  /\ attestations'[a] = attestations[a]
             /\ attestationRequests'[a] = attestationRequests[a]
             /\ \A v \in Wallets : ~hasDocumentAccess(a, v)'
  <2>1. Exists(a)
      BY <1>1 DEF RegistryInv, IdsMatchCounters, NoAttestation, Revoked
  <2>2. attestations'[a] = attestations[a]
      BY <1>1, <2>1, AttestationSteps DEF AttestationStep
  <2> QED
      BY <1>1, <2>2, RequestListStep DEF hasDocumentAccess, Revoked
<1>2. RegistryInv /\ [Next]_registryVars
         => [\A a \in AttestationIds : Revoked(a) =>
                /\ attestations'[a] = attestations[a]
                /\ attestationRequests'[a] = attestationRequests[a]
                /\ \A v \in Wallets : ~hasDocumentAccess(a, v)']_registryVars
    BY <1>1
<1> QED
    BY <1>2, InvInit, InvStep, PTL DEF Spec, RevocationIsFinal

-----------------------------------------------------------------------------
(* The registry implements AccessConsent.                                   *)

\* The four variables of AccessConsent, as the registry's INSTANCE maps them.
Owner == [a \in AttestationIds |-> attestations[a].employee]
Withdrawn == {a \in AttestationIds : Revoked(a)}
AskState(r) == IF ~Requested(r) THEN "unused"
               ELSE IF Pending(r) THEN "open" ELSE "closed"
AskOf == [r \in RequestIds |->
             [credential |-> accessRequests[r].attestationId,
              verifier |-> accessRequests[r].verifier,
              state |-> AskState(r)]]

LEMMA ConsentInitMaps == Init => Consent!Init
<1> SUFFICES ASSUME Init PROVE Consent!Init
    OBVIOUS
<1>1. Owner = [a \in AttestationIds |-> Empty]
    BY DEF Init, Owner, NoAttestation
<1>2. Withdrawn = {}
    BY DEF Init, Withdrawn, Revoked, NoAttestation
<1>3. AskOf = [r \in RequestIds |-> [credential |-> 0, verifier |-> Empty,
                                     state |-> "unused"]]
    BY DEF Init, AskOf, AskState, Requested, NoRequest
<1>4. authorizedVerifiers = [a \in AttestationIds |-> {}]
    BY DEF Init
<1> QED
    BY <1>1, <1>2, <1>3, <1>4
       DEF Consent!Init, Consent!NoAsk, Owner, Withdrawn, AskOf, AskState

\* A transaction that touches nothing AccessConsent sees is a stuttering step.
LEMMA ConsentStutters ==
    ASSUME UNCHANGED <<attestations, accessRequests, authorizedVerifiers>>
    PROVE  UNCHANGED Consent!consentVars
BY DEF Consent!consentVars, Revoked, Requested, Pending

LEMMA ConsentStepMaps ==
    RegistryInv /\ [Next]_registryVars => [Consent!Next]_Consent!consentVars
<1> SUFFICES ASSUME RegistryInv, [Next]_registryVars
             PROVE  [Consent!Next]_Consent!consentVars
    OBVIOUS
<1> USE BoundAssumption
<1>0. CASE UNCHANGED <<attestations, accessRequests, authorizedVerifiers>>
    BY <1>0, ConsentStutters
<1>1. ASSUME NEW sender \in Wallets, NEW s \in Submissions,
             createAttestation(sender, s)
      PROVE  Consent!Issue(attestationIdCounter + 1, s.employee)
  <2> DEFINE id == attestationIdCounter + 1
  <2>1. id \in AttestationIds /\ attestations[id] = NoAttestation
      BY <1>1 DEF createAttestation, RegistryInv, TypeOK, IdsMatchCounters
  <2>2. /\ attestations' = [attestations EXCEPT ![id] = Recorded(sender, s)]
        /\ UNCHANGED <<accessRequests, authorizedVerifiers>>
      BY <1>1 DEF createAttestation, NextAttestationId, requestVars
  <2>3. /\ Recorded(sender, s).employee = s.employee
        /\ Recorded(sender, s).status # "REVOKED"
      BY DEF Recorded, IssueStatus
  <2>4. /\ attestations'[id] = Recorded(sender, s)
        /\ \A a \in AttestationIds \ {id} : attestations'[a] = attestations[a]
      BY <2>1, <2>2 DEF RegistryInv, TypeOK
  <2> HIDE DEF id
  <2>5. /\ Owner[id] = Empty
        /\ Owner' = [Owner EXCEPT ![id] = s.employee]
    <3>1. NoAttestation.employee = Empty
        BY DEF NoAttestation
    <3>2. Owner[id] = Empty
        BY <2>1, <3>1 DEF Owner
    <3>3. /\ attestations'[id].employee = s.employee
          /\ \A a \in AttestationIds \ {id} :
                attestations'[a].employee = attestations[a].employee
        BY <2>3, <2>4
    <3> QED
        BY <2>1, <3>2, <3>3 DEF Owner
  <2>6. Withdrawn' = Withdrawn
      BY <2>1, <2>3, <2>4 DEF Withdrawn, Revoked, NoAttestation
  <2>7. AskOf' = AskOf
      BY <2>2 DEF AskOf, AskState, Requested, Pending
  <2> QED
      BY <2>1, <2>2, <2>5, <2>6, <2>7
         DEF Consent!Issue, Owner, Withdrawn, AskOf, AskState, id
<1>2. ASSUME NEW sender \in Wallets, NEW a \in AttestationIds,
             revokeAttestation(sender, a)
      PROVE  Consent!Withdraw(a)
  <2>1. /\ Exists(a) /\ ~Revoked(a)
        /\ attestations' = [attestations EXCEPT ![a].status = "REVOKED"]
        /\ UNCHANGED <<accessRequests, authorizedVerifiers>>
      BY <1>2 DEF revokeAttestation, CanRevoke, requestVars
  <2>2. attestations[a] \in Attestation
      BY DEF RegistryInv, TypeOK
  <2>3. /\ attestations'[a] = [attestations[a] EXCEPT !.status = "REVOKED"]
        /\ \A b \in AttestationIds \ {a} : attestations'[b] = attestations[b]
      BY <2>1 DEF RegistryInv, TypeOK
  <2>4. /\ attestations'[a].employee = attestations[a].employee
        /\ attestations'[a].status = "REVOKED"
      BY <2>2, <2>3 DEF Attestation
  <2>5. Owner' = Owner /\ Owner[a] # Empty
      BY <2>1, <2>3, <2>4, EmptyAssumption
         DEF Owner, RegistryInv, AttestationsComplete, AttestationComplete
  <2>6. Withdrawn' = Withdrawn \cup {a} /\ a \notin Withdrawn
      BY <2>1, <2>3, <2>4 DEF Withdrawn, Revoked
  <2>7. AskOf' = AskOf
      BY <2>1 DEF AskOf, AskState, Requested, Pending
  <2> QED
      BY <2>1, <2>5, <2>6, <2>7
         DEF Consent!Withdraw, Owner, Withdrawn, AskOf, AskState
<1>3. ASSUME NEW sender \in Wallets, NEW a \in AttestationIds,
             requestDocumentAccess(sender, a)
      PROVE  Consent!Open(requestIdCounter + 1, a, sender)
  <2> DEFINE id == requestIdCounter + 1
  <2>1. id \in RequestIds /\ ~Requested(id) /\ accessRequests[id] = NoRequest
      BY <1>3 DEF requestDocumentAccess, RegistryInv, TypeOK, IdsMatchCounters
  <2>2. /\ accessRequests' = [accessRequests EXCEPT ![id] = MadeRequest(sender, a)]
        /\ UNCHANGED <<attestations, authorizedVerifiers>>
        /\ Exists(a) /\ ~Revoked(a) /\ sender # attestations[a].employee
      BY <1>3 DEF requestDocumentAccess, CanRequest, MadeRequest, attestationVars
  <2>3. /\ MadeRequest(sender, a).attestationId = a
        /\ MadeRequest(sender, a).verifier = sender
        /\ MadeRequest(sender, a).status = "PENDING"
        /\ MadeRequest(sender, a).timestamp # 0
      BY DEF MadeRequest, RegistryInv, TypeOK
  <2> HIDE DEF id
  <2>4. /\ accessRequests'[id] = MadeRequest(sender, a)
        /\ \A r \in RequestIds \ {id} : accessRequests'[r] = accessRequests[r]
      BY <2>1, <2>2 DEF RegistryInv, TypeOK
  <2>5. Owner' = Owner /\ Owner[a] \notin {Empty, sender}
      BY <2>2, EmptyAssumption
         DEF Owner, RegistryInv, AttestationsComplete, AttestationComplete
  <2>6. Withdrawn' = Withdrawn /\ a \notin Withdrawn
      BY <2>2 DEF Withdrawn, Revoked
  <2>7. /\ AskOf[id].state = "unused"
        /\ AskOf' = [AskOf EXCEPT ![id] =
              [credential |-> a, verifier |-> sender, state |-> "open"]]
      BY <2>1, <2>3, <2>4 DEF AskOf, AskState, Requested, Pending
  <2> QED
      BY <2>1, <2>2, <2>5, <2>6, <2>7
         DEF Consent!Open, Owner, Withdrawn, AskOf, AskState, id
<1>4. ASSUME NEW r \in RequestIds, NEW status \in {"APPROVED", "REJECTED"},
             AnswerOf(r, status)
      PROVE  Consent!Answer(r, status = "APPROVED")
  <2>1. /\ Requested(r) /\ Pending(r)
        /\ UNCHANGED attestations
        /\ authorizedVerifiers' =
             [authorizedVerifiers EXCEPT ![accessRequests[r].attestationId] =
                IF status = "APPROVED"
                THEN @ \cup {accessRequests[r].verifier}
                ELSE @ \ {accessRequests[r].verifier}]
      BY <1>4 DEF AnswerOf, attestationVars
  <2>2. /\ accessRequests'[r].timestamp = accessRequests[r].timestamp
        /\ accessRequests'[r].attestationId = accessRequests[r].attestationId
        /\ accessRequests'[r].verifier = accessRequests[r].verifier
        /\ accessRequests'[r].status = status
        /\ \A q \in RequestIds \ {r} : accessRequests'[q] = accessRequests[q]
      BY <1>4, AnswerEffect
  <2>3. /\ AskOf[r].state = "open"
        /\ AskOf[r].credential = accessRequests[r].attestationId
        /\ AskOf[r].verifier = accessRequests[r].verifier
      BY <2>1 DEF AskOf, AskState
  <2>4. AskOf' = [AskOf EXCEPT ![r].state = "closed"]
      BY <2>1, <2>2 DEF AskOf, AskState, Requested, Pending
  <2>5. Owner' = Owner /\ Withdrawn' = Withdrawn
      BY <2>1 DEF Owner, Withdrawn, Revoked
  <2> QED
      BY <2>1, <2>3, <2>4, <2>5
         DEF Consent!Answer, Owner, Withdrawn, AskOf, AskState
<1>5. ASSUME NEW sender \in Wallets, Transaction(sender)
      PROVE  [Consent!Next]_Consent!consentVars
  <2>1. ASSUME NEW name \in EmployerNames, registerEmployer(sender, name)
        PROVE  UNCHANGED <<attestations, accessRequests, authorizedVerifiers>>
      BY <2>1 DEF registerEmployer, attestationVars, requestVars
  <2>2. ASSUME NEW s \in Submissions, createAttestation(sender, s)
        PROVE  Consent!Next
    <3>1. s.employee \in Wallets
        BY <2>2, InputAssumption DEF createAttestation, ValidSubmission, Submission
    <3>2. attestationIdCounter + 1 \in AttestationIds
        BY <2>2 DEF createAttestation, RegistryInv, TypeOK
    <3> QED
        BY <1>1, <2>2, <3>1, <3>2 DEF Consent!Next
  <2>3. ASSUME NEW a \in AttestationIds, revokeAttestation(sender, a)
        PROVE  Consent!Next
      BY <1>2, <2>3 DEF Consent!Next
  <2>4. ASSUME NEW a \in AttestationIds, requestDocumentAccess(sender, a)
        PROVE  Consent!Next
    <3>1. requestIdCounter + 1 \in RequestIds
        BY <2>4 DEF requestDocumentAccess, RegistryInv, TypeOK
    <3> QED
        BY <1>3, <2>4, <3>1 DEF Consent!Next
  <2>5. ASSUME NEW r \in RequestIds,
               approveDocumentAccess(sender, r) \/ rejectDocumentAccess(sender, r)
        PROVE  Consent!Next
    <3>1. PICK status \in {"APPROVED", "REJECTED"} : AnswerOf(r, status)
        BY <2>5, AnswerActions
    <3>2. (status = "APPROVED") \in BOOLEAN
        OBVIOUS
    <3> QED
        BY <1>4, <3>1, <3>2 DEF Consent!Next
  <2> QED
      BY <1>0, <1>5, <2>1, <2>2, <2>3, <2>4, <2>5 DEF Transaction
<1>6. CASE NextBlock \/ UNCHANGED registryVars
    BY <1>0, <1>6 DEF NextBlock, registryVars, attestationVars, requestVars
<1> QED
    BY <1>5, <1>6 DEF Next

\* The registry keeps the promise of AccessConsent: access is granted only by
\* answering an open ask, once, and the answer is the employee's.
THEOREM RegistryImplementsConsent == Spec => ImplementsConsent
<1>1. Spec => Consent!Init /\ [][Consent!Next]_Consent!consentVars
    BY ConsentInitMaps, ConsentStepMaps, InvInit, InvStep, PTL DEF Spec
<1> QED
    BY <1>1 DEF ImplementsConsent, Consent!Spec

=============================================================================
