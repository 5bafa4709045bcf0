-------------------------- MODULE EmploymentRegistry --------------------------
(***************************************************************************)
(* The smart contract blockchain/contracts/EmploymentRegistry.sol: who is  *)
(* a registered employer, the employment attestations employers issue and  *)
(* revoke, and the requests by which a verifier asks the employee for      *)
(* access to an attestation's supporting document.                         *)
(*                                                                         *)
(* A transaction is atomic, so each external function is one action, and a *)
(* call that reverts is a stuttering step: the require()s of a function    *)
(* are the conjuncts of its action.  Several transactions may share a      *)
(* block, hence a block.timestamp; NextBlock moves the clock.              *)
(***************************************************************************)
EXTENDS Integers, Sequences, FiniteSets

CONSTANTS
    Wallets,          \* the addresses that send transactions
    Data,             \* the hashes, CIDs, positions and names that calls carry
    Empty,            \* Solidity's zero: address(0), bytes32(0) and ""
    EmployerNames,    \* the names registerEmployer is called with
    Submissions,      \* the arguments createAttestation is called with
    MaxAttestations,  \* bound on _attestationIdCounter
    MaxRequests,      \* bound on _requestIdCounter
    MaxTime           \* bound on block.timestamp

Field == Data \cup {Empty}
Account == Wallets \cup {Empty}

Submission ==
    [employee: Account, employeeHash: Field, position: Field,
     startDate: Nat, endDate: Nat,
     recordHash: Field, documentHash: Field, ipfsCID: Field]

ASSUME EmptyAssumption == Empty \notin Wallets \cup Data

ASSUME InputAssumption == /\ EmployerNames \subseteq Field
                          /\ Submissions \subseteq Submission

ASSUME BoundAssumption == /\ MaxAttestations \in Nat
                          /\ MaxRequests \in Nat
                          /\ MaxTime \in Nat \ {0}

VARIABLES
    employers,                  \* wallet -> EmployerProfile
    attestations,               \* attestationId -> Attestation
    attestationIdCounter,
    employeeHashAttestations,   \* employeeHash -> its attestation ids
    employeeWalletAttestations, \* employee wallet -> its attestation ids
    employerAttestations,       \* employer wallet -> its attestation ids
    accessRequests,             \* requestId -> AccessRequest
    requestIdCounter,
    attestationRequests,        \* attestationId -> its request ids
    authorizedVerifiers,        \* attestationId -> the verifiers marked true
    blockTimestamp,             \* block.timestamp of the block being built
    event                       \* the event the last transaction emitted

indexes == <<employeeHashAttestations, employeeWalletAttestations,
             employerAttestations>>
attestationVars == <<attestations, attestationIdCounter, indexes>>
requestVars == <<accessRequests, requestIdCounter, attestationRequests>>
registryVars == <<employers, attestationVars, requestVars,
                  authorizedVerifiers, blockTimestamp, event>>

AttestationIds == 1..MaxAttestations
RequestIds == 1..MaxRequests

EmploymentStatus == {"ACTIVE", "COMPLETED", "REVOKED"}
RequestStatus == {"PENDING", "APPROVED", "REJECTED"}

-----------------------------------------------------------------------------
(* Storage.  A Solidity mapping is total: an entry never written reads as  *)
(* all zeros, and the code tells the two apart by a zero timestamp.        *)

EmployerProfile ==
    [employerName: Field, isRegistered: BOOLEAN, registrationTimestamp: Nat]

NoProfile ==
    [employerName |-> Empty, isRegistered |-> FALSE,
     registrationTimestamp |-> 0]

Attestation ==
    [employeeHash: Field, employee: Account, employer: Account,
     position: Field, startDate: Nat, endDate: Nat,
     status: EmploymentStatus, recordHash: Field, documentHash: Field,
     ipfsCID: Field, issueTimestamp: Nat]

NoAttestation ==
    [employeeHash |-> Empty, employee |-> Empty, employer |-> Empty,
     position |-> Empty, startDate |-> 0, endDate |-> 0,
     status |-> "ACTIVE", recordHash |-> Empty, documentHash |-> Empty,
     ipfsCID |-> Empty, issueTimestamp |-> 0]

AccessRequest ==
    [attestationId: Nat, verifier: Account, employee: Account,
     status: RequestStatus, timestamp: Nat, respondedAt: Nat]

NoRequest ==
    [attestationId |-> 0, verifier |-> Empty, employee |-> Empty,
     status |-> "PENDING", timestamp |-> 0, respondedAt |-> 0]

\* attestations[a].issueTimestamp != 0
Exists(a) == attestations[a].issueTimestamp # 0

Revoked(a) == attestations[a].status = "REVOKED"

\* accessRequests[r].timestamp != 0
Requested(r) == accessRequests[r].timestamp # 0

Pending(r) == accessRequests[r].status = "PENDING"

\* The onlyRegisteredEmployer modifier.
isEmployerRegistered(w) == employers[w].isRegistered

\* Events carry msg.sender; `by` is that field under its several names.
Emitted(name, by, a, r, verifier) ==
    [name |-> name, by |-> by, attestationId |-> a, requestId |-> r,
     verifier |-> verifier]

NoEvent == Emitted("None", Empty, 0, 0, Empty)

Event ==
    [name: {"None", "EmployerRegistered", "AttestationCreated",
            "AttestationRevoked", "AccessRequested", "AccessGranted",
            "AccessRejected"},
     by: Account, attestationId: Nat, requestId: Nat, verifier: Account]

-----------------------------------------------------------------------------
(* Views.                                                                   *)

\* Faulty variant: forgets that revocation ends every authorization.
hasDocumentAccess_IgnoresRevocation(a, verifier) ==
    /\ Exists(a)
    /\ verifier \in authorizedVerifiers[a]

hasDocumentAccess(a, verifier) ==
    /\ Exists(a)
    /\ ~Revoked(a)
    /\ verifier \in authorizedVerifiers[a]

-----------------------------------------------------------------------------
(* Initial storage: nothing is written.                                     *)

Init ==
    /\ employers = [w \in Wallets |-> NoProfile]
    /\ attestations = [a \in AttestationIds |-> NoAttestation]
    /\ attestationIdCounter = 0
    /\ employeeHashAttestations = [h \in Data |-> <<>>]
    /\ employeeWalletAttestations = [w \in Wallets |-> <<>>]
    /\ employerAttestations = [w \in Wallets |-> <<>>]
    /\ accessRequests = [r \in RequestIds |-> NoRequest]
    /\ requestIdCounter = 0
    /\ attestationRequests = [a \in AttestationIds |-> <<>>]
    /\ authorizedVerifiers = [a \in AttestationIds |-> {}]
    /\ blockTimestamp = 1
    /\ event = NoEvent

-----------------------------------------------------------------------------
(* Employers.                                                               *)

registerEmployer(sender, name) ==
    /\ ~isEmployerRegistered(sender)
    /\ name # Empty
    /\ employers' = [employers EXCEPT ![sender] =
                        [employerName |-> name, isRegistered |-> TRUE,
                         registrationTimestamp |-> blockTimestamp]]
    /\ event' = Emitted("EmployerRegistered", sender, 0, 0, Empty)
    /\ UNCHANGED <<attestationVars, requestVars, authorizedVerifiers,
                   blockTimestamp>>

-----------------------------------------------------------------------------
(* Attestations.                                                            *)

\* The require()s of createAttestation on its arguments.
ValidSubmission(s) ==
    /\ s.employee # Empty
    /\ s.employeeHash # Empty
    /\ s.position # Empty
    /\ s.recordHash # Empty
    /\ s.startDate > 0
    /\ s.endDate > 0 => s.endDate >= s.startDate

\* The status an attestation is stored with: it is never computed again.
IssueStatus(s) ==
    IF s.endDate > 0 /\ s.endDate <= blockTimestamp
    THEN "COMPLETED" ELSE "ACTIVE"

\* Faulty variant: stores msg.sender as the employee.
Recorded_SenderIsEmployee(sender, s) ==
    [employeeHash |-> s.employeeHash, employee |-> sender,
     employer |-> sender, position |-> s.position,
     startDate |-> s.startDate, endDate |-> s.endDate,
     status |-> IssueStatus(s), recordHash |-> s.recordHash,
     documentHash |-> s.documentHash, ipfsCID |-> s.ipfsCID,
     issueTimestamp |-> blockTimestamp]

Recorded(sender, s) ==
    [employeeHash |-> s.employeeHash, employee |-> s.employee,
     employer |-> sender, position |-> s.position,
     startDate |-> s.startDate, endDate |-> s.endDate,
     status |-> IssueStatus(s), recordHash |-> s.recordHash,
     documentHash |-> s.documentHash, ipfsCID |-> s.ipfsCID,
     issueTimestamp |-> blockTimestamp]

\* Faulty variant: the counter's value before the increment.
NextAttestationId_PostIncrement == attestationIdCounter

\* ++_attestationIdCounter: the first id is 1.
NextAttestationId == attestationIdCounter + 1

createAttestation(sender, s) ==
    LET id == NextAttestationId IN
    /\ attestationIdCounter < MaxAttestations
    /\ isEmployerRegistered(sender)
    /\ ValidSubmission(s)
    /\ attestationIdCounter' = attestationIdCounter + 1
    /\ attestations' = [attestations EXCEPT ![id] = Recorded(sender, s)]
    /\ employeeHashAttestations' =
          [employeeHashAttestations EXCEPT ![s.employeeHash] = Append(@, id)]
    /\ employeeWalletAttestations' =
          [employeeWalletAttestations EXCEPT ![s.employee] = Append(@, id)]
    /\ employerAttestations' =
          [employerAttestations EXCEPT ![sender] = Append(@, id)]
    /\ event' = Emitted("AttestationCreated", sender, id, 0, Empty)
    /\ UNCHANGED <<employers, requestVars, authorizedVerifiers,
                   blockTimestamp>>

\* Faulty variant: any registered employer may revoke.
CanRevoke_AnyEmployer(sender, a) ==
    /\ Exists(a)
    /\ isEmployerRegistered(sender)
    /\ ~Revoked(a)

CanRevoke(sender, a) ==
    /\ Exists(a)
    /\ attestations[a].employer = sender
    /\ ~Revoked(a)

\* The record stays in storage and in the indexes; only the status changes.
revokeAttestation(sender, a) ==
    /\ CanRevoke(sender, a)
    /\ attestations' = [attestations EXCEPT ![a].status = "REVOKED"]
    /\ event' = Emitted("AttestationRevoked", sender, a, 0, Empty)
    /\ UNCHANGED <<employers, attestationIdCounter, indexes, requestVars,
                   authorizedVerifiers, blockTimestamp>>

-----------------------------------------------------------------------------
(* Access requests.                                                         *)

\* Faulty variant: forgets that there must be a document to ask for.
CanRequest_WithoutDocument(sender, a) ==
    /\ isEmployerRegistered(sender)
    /\ Exists(a)
    /\ ~Revoked(a)
    /\ sender # attestations[a].employee

\* A verifier may ask again while an earlier request is open or answered.
CanRequest(sender, a) ==
    /\ isEmployerRegistered(sender)
    /\ Exists(a)
    /\ ~Revoked(a)
    /\ attestations[a].ipfsCID # Empty
    /\ sender # attestations[a].employee

requestDocumentAccess(sender, a) ==
    LET id == requestIdCounter + 1 IN
    /\ requestIdCounter < MaxRequests
    /\ CanRequest(sender, a)
    /\ requestIdCounter' = id
    /\ accessRequests' = [accessRequests EXCEPT ![id] =
          [attestationId |-> a, verifier |-> sender,
           employee |-> attestations[a].employee, status |-> "PENDING",
           timestamp |-> blockTimestamp, respondedAt |-> 0]]
    /\ attestationRequests' =
          [attestationRequests EXCEPT ![a] = Append(@, id)]
    /\ event' = Emitted("AccessRequested", sender, a, id, sender)
    /\ UNCHANGED <<employers, attestationVars, authorizedVerifiers,
                   blockTimestamp>>

\* Faulty variant: forgets that an answer is given once.
CanAnswer_Again(sender, r) ==
    /\ Requested(r)
    /\ sender = accessRequests[r].employee

\* The employee may answer while the attestation is revoked: neither function
\* looks at the attestation.
CanAnswer(sender, r) ==
    /\ Requested(r)
    /\ Pending(r)
    /\ sender = accessRequests[r].employee

\* Faulty variant: the request is closed without a response time.
Answered_NoTime(r, status) ==
    [accessRequests EXCEPT ![r].status = status]

Answered(r, status) ==
    [accessRequests EXCEPT ![r].status = status,
                           ![r].respondedAt = blockTimestamp]

AnswerEvent(name, sender, r) ==
    Emitted(name, sender, accessRequests[r].attestationId, r,
            accessRequests[r].verifier)

approveDocumentAccess(sender, r) ==
    /\ CanAnswer(sender, r)
    /\ accessRequests' = Answered(r, "APPROVED")
    /\ authorizedVerifiers' =
          [authorizedVerifiers EXCEPT ![accessRequests[r].attestationId] =
              @ \cup {accessRequests[r].verifier}]
    /\ event' = AnswerEvent("AccessGranted", sender, r)
    /\ UNCHANGED <<employers, attestationVars, requestIdCounter,
                   attestationRequests, blockTimestamp>>

\* Faulty variant: closes the request and leaves the authorization alone.
rejectDocumentAccess_KeepsGrant(sender, r) ==
    /\ CanAnswer(sender, r)
    /\ accessRequests' = Answered(r, "REJECTED")
    /\ event' = AnswerEvent("AccessRejected", sender, r)
    /\ UNCHANGED <<employers, attestationVars, requestIdCounter,
                   attestationRequests, authorizedVerifiers, blockTimestamp>>

\* Also ends an authorization an earlier request of this verifier was given.
rejectDocumentAccess(sender, r) ==
    /\ CanAnswer(sender, r)
    /\ accessRequests' = Answered(r, "REJECTED")
    /\ authorizedVerifiers' =
          [authorizedVerifiers EXCEPT ![accessRequests[r].attestationId] =
              @ \ {accessRequests[r].verifier}]
    /\ event' = AnswerEvent("AccessRejected", sender, r)
    /\ UNCHANGED <<employers, attestationVars, requestIdCounter,
                   attestationRequests, blockTimestamp>>

-----------------------------------------------------------------------------
(* The chain.                                                               *)

\* The chain closes a block; the next one has a later timestamp.
NextBlock ==
    /\ blockTimestamp < MaxTime
    /\ blockTimestamp' = blockTimestamp + 1
    /\ event' = NoEvent
    /\ UNCHANGED <<employers, attestationVars, requestVars,
                   authorizedVerifiers>>

Transaction(sender) ==
    \/ \E name \in EmployerNames : registerEmployer(sender, name)
    \/ \E s \in Submissions : createAttestation(sender, s)
    \/ \E a \in AttestationIds : revokeAttestation(sender, a)
    \/ \E a \in AttestationIds : requestDocumentAccess(sender, a)
    \/ \E r \in RequestIds : approveDocumentAccess(sender, r)
    \/ \E r \in RequestIds : rejectDocumentAccess(sender, r)

Next ==
    \/ \E sender \in Wallets : Transaction(sender)
    \/ NextBlock

Spec == Init /\ [][Next]_registryVars

-----------------------------------------------------------------------------
(* Properties.                                                              *)

\* Every variable holds a value of its Solidity type, the counters and the
\* clock stay within the bounds, and the indexes list only issued ids.
TypeOK ==
    /\ employers \in [Wallets -> EmployerProfile]
    /\ attestations \in [AttestationIds -> Attestation]
    /\ attestationIdCounter \in 0..MaxAttestations
    /\ employeeHashAttestations \in [Data -> Seq(AttestationIds)]
    /\ employeeWalletAttestations \in [Wallets -> Seq(AttestationIds)]
    /\ employerAttestations \in [Wallets -> Seq(AttestationIds)]
    /\ accessRequests \in [RequestIds -> AccessRequest]
    /\ requestIdCounter \in 0..MaxRequests
    /\ attestationRequests \in [AttestationIds -> Seq(RequestIds)]
    /\ authorizedVerifiers \in [AttestationIds -> SUBSET Wallets]
    /\ blockTimestamp \in 1..MaxTime
    /\ event \in Event

\* seq lists exactly the members of ids, in increasing order.
Lists(seq, ids) ==
    /\ {seq[i] : i \in DOMAIN seq} = ids
    /\ \A i, j \in DOMAIN seq : i < j => seq[i] < seq[j]

\* The four push()ed lists the getters return are the inverses of the records'
\* own fields: each id is listed once, in issue order, under its employee hash,
\* its employee and its employer (its attestation, for a request), and nowhere
\* else; revoking and answering never unlist anything.
IndexesMatchRecords ==
    /\ \A h \in Data : Lists(employeeHashAttestations[h],
          {a \in AttestationIds : Exists(a) /\ attestations[a].employeeHash = h})
    /\ \A w \in Wallets : Lists(employeeWalletAttestations[w],
          {a \in AttestationIds : Exists(a) /\ attestations[a].employee = w})
    /\ \A w \in Wallets : Lists(employerAttestations[w],
          {a \in AttestationIds : Exists(a) /\ attestations[a].employer = w})
    /\ \A a \in AttestationIds : Lists(attestationRequests[a],
          {r \in RequestIds : Requested(r) /\ accessRequests[r].attestationId = a})

\* A stored request agrees with the attestation it is about, however long ago
\* it was made: the attestation exists and has a document, the employee copied
\* into the request is the attestation's, and the verifier is a registered
\* employer other than the employee.
RequestMatches(r) ==
    LET q == accessRequests[r] IN
    /\ q.attestationId \in AttestationIds
    /\ Exists(q.attestationId)
    /\ attestations[q.attestationId].ipfsCID # Empty
    /\ q.employee = attestations[q.attestationId].employee
    /\ q.verifier \in Wallets \ {q.employee}
    /\ isEmployerRegistered(q.verifier)

\* RequestMatches, for every request ever made (requestDocumentAccess).
RequestsMatchAttestations ==
    \A r \in RequestIds : Requested(r) => RequestMatches(r)

\* The zero timestamp by which the code recognises an entry never written is
\* exact: the attestations and the requests that exist are those numbered up to
\* the counters, so an id is never reused and never skipped, and every other
\* entry is untouched storage.
IdsMatchCounters ==
    /\ \A a \in AttestationIds : Exists(a) <=> a <= attestationIdCounter
    /\ \A r \in RequestIds : Requested(r) <=> r <= requestIdCounter
    /\ \A a \in AttestationIds : ~Exists(a) => attestations[a] = NoAttestation
    /\ \A r \in RequestIds : ~Requested(r) => accessRequests[r] = NoRequest

\* An attestation that exists is complete, as createAttestation demanded: it has
\* an employee and a registered issuer, its term is in order, and it was
\* COMPLETED only if its end date had come when it was issued.
AttestationComplete(a) ==
    LET t == attestations[a] IN
    /\ t.employee \in Wallets
    /\ t.employer \in Wallets
    /\ isEmployerRegistered(t.employer)
    /\ t.startDate > 0
    /\ t.endDate = 0 \/ t.endDate >= t.startDate
    /\ t.status = "COMPLETED" => t.endDate \in 1..t.issueTimestamp

\* AttestationComplete, for every attestation ever issued.
AttestationsComplete ==
    \A a \in AttestationIds : Exists(a) => AttestationComplete(a)

\* The inductive invariant: what each function relies on when it trusts a
\* stored record.
RegistryInv ==
    /\ TypeOK
    /\ RequestsMatchAttestations
    /\ IdsMatchCounters
    /\ AttestationsComplete

\* Time only moves forward along a record's life: an employer is registered
\* before it issues, an attestation is issued before it is requested, a request
\* is made before it is answered, ids are given in time order, and respondedAt
\* is 0 exactly while the request is pending, as the struct's comment says.
Chronology ==
    /\ \A a \in AttestationIds : Exists(a) =>
          /\ employers[attestations[a].employer].registrationTimestamp
                \in 1..attestations[a].issueTimestamp
          /\ attestations[a].issueTimestamp <= blockTimestamp
    /\ \A a, b \in AttestationIds :
          Exists(a) /\ Exists(b) /\ a < b =>
             attestations[a].issueTimestamp <= attestations[b].issueTimestamp
    /\ \A r \in RequestIds : Requested(r) =>
          LET q == accessRequests[r] IN
          /\ attestations[q.attestationId].issueTimestamp <= q.timestamp
          /\ IF Pending(r) THEN q.respondedAt = 0
                           ELSE q.respondedAt \in q.timestamp..blockTimestamp

\* The requests of a verifier for an attestation that have been answered.
AnsweredRequests(a, v) ==
    {r \in RequestIds : /\ Requested(r) /\ ~Pending(r)
                        /\ accessRequests[r].attestationId = a
                        /\ accessRequests[r].verifier = v}

LatestAnswers(a, v) ==
    {r \in AnsweredRequests(a, v) : \A q \in AnsweredRequests(a, v) :
        accessRequests[q].respondedAt <= accessRequests[r].respondedAt}

\* The authorization of a verifier says what the employee's latest answer said:
\* set by an approval nothing later rejects, and clear only when nothing was
\* answered or a rejection is as late as any approval (several requests of one
\* verifier may be open at once and answered in any order; answers in one
\* block have equal times).
LatestAnswerDecides ==
    \A a \in AttestationIds, v \in Wallets :
        IF v \in authorizedVerifiers[a]
        THEN \E r \in LatestAnswers(a, v) : accessRequests[r].status = "APPROVED"
        ELSE AnsweredRequests(a, v) # {} =>
             \E r \in LatestAnswers(a, v) : accessRequests[r].status = "REJECTED"

\* What a verifier can read changes only by the hand that owns the decision:
\* access appears only when the attestation's employee approves that verifier,
\* and disappears only when that employee rejects a request of theirs or the
\* issuing employer revokes the attestation.
GainedByConsent(a, v) ==
    /\ event'.name = "AccessGranted"
    /\ event'.attestationId = a
    /\ event'.verifier = v
    /\ event'.by = attestations[a].employee

LostByRejection(a, v) ==
    /\ event'.name = "AccessRejected"
    /\ event'.attestationId = a
    /\ event'.verifier = v
    /\ event'.by = attestations[a].employee

LostByRevocation(a) ==
    /\ event'.name = "AttestationRevoked"
    /\ event'.attestationId = a
    /\ event'.by = attestations[a].employer

\* The action property of the three operators above (approveDocumentAccess,
\* rejectDocumentAccess and revokeAttestation are the only writers).
AccessChangesByOwner ==
    [][\A a \in AttestationIds, v \in Wallets :
          /\ ~hasDocumentAccess(a, v) /\ hasDocumentAccess(a, v)'
                => GainedByConsent(a, v)
          /\ hasDocumentAccess(a, v) /\ ~hasDocumentAccess(a, v)'
                => LostByRejection(a, v) \/ LostByRevocation(a)]_registryVars

\* A revoked attestation stays as it is: its record never changes again, no
\* request is added to it, and whatever the employee answers to the requests
\* still open, no verifier has access to its document.
RevocationIsFinal ==
    [][\A a \in AttestationIds : Revoked(a) =>
          /\ attestations'[a] = attestations[a]
          /\ attestationRequests'[a] = attestationRequests[a]
          /\ \A v \in Wallets : ~hasDocumentAccess(a, v)']_registryVars

-----------------------------------------------------------------------------
(* The registry implements AccessConsent: an attestation that exists is a  *)
(* credential of its employee, a stored request is an ask, open while      *)
(* PENDING, and authorizedVerifiers is what was granted.                    *)

Consent == INSTANCE AccessConsent WITH
    Nobody <- Empty,
    NoCredential <- 0,
    Credentials <- AttestationIds,
    Asks <- RequestIds,
    owner <- [a \in AttestationIds |-> attestations[a].employee],
    withdrawn <- {a \in AttestationIds : Revoked(a)},
    ask <- [r \in RequestIds |->
              [credential |-> accessRequests[r].attestationId,
               verifier |-> accessRequests[r].verifier,
               state |-> IF ~Requested(r) THEN "unused"
                         ELSE IF Pending(r) THEN "open" ELSE "closed"]],
    granted <- authorizedVerifiers

\* Every transaction is a step of AccessConsent, or changes nothing it can see.
ImplementsConsent == Consent!Spec

-----------------------------------------------------------------------------
(* What the repository's text says and the code does not do.               *)

\* README's "employees maintain complete control over who can access and decrypt
\* their private supporting documents": an employee who has granted access
\* could always send a transaction that ends it.  The only one there is rejects
\* another, still pending, request of the same verifier.
AccessIsWithdrawable ==
    \A a \in AttestationIds, v \in Wallets : hasDocumentAccess(a, v) =>
        \E r \in RequestIds : /\ CanAnswer(attestations[a].employee, r)
                              /\ accessRequests[r].attestationId = a
                              /\ accessRequests[r].verifier = v

=============================================================================
