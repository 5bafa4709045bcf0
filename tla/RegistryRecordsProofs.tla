------------------------ MODULE RegistryRecordsProofs ------------------------
(***************************************************************************)
(* Two more theorems about EmploymentRegistry: its lists agree with its    *)
(* records, and time moves forward along a record's life.                  *)
(***************************************************************************)
EXTENDS EmploymentRegistryProofs, RegistryHistory

USE DEF AttestationIds, RequestIds, EmploymentStatus, RequestStatus,
        Field, Account

-----------------------------------------------------------------------------
(* Lists that grow at their end.                                            *)

\* A list stays one when a greater number is appended to it.
LEMMA ListsAppend ==
    ASSUME NEW n \in Nat, NEW seq \in Seq(1..n), NEW ids, Lists(seq, ids),
           NEW new \in Nat, \A x \in ids : x < new
    PROVE  Lists(Append(seq, new), ids \cup {new})
<1> DEFINE longer == Append(seq, new)
<1>1. /\ DOMAIN longer = 1..(Len(seq) + 1)
      /\ DOMAIN seq = 1..Len(seq) /\ Len(seq) \in Nat
      /\ longer[Len(seq) + 1] = new
      /\ \A i \in DOMAIN seq : longer[i] = seq[i] /\ seq[i] \in ids
    BY DEF Lists
<1> HIDE DEF longer
<1>2. {longer[i] : i \in DOMAIN longer} = ids \cup {new}
  <2>1. \A x \in ids : \E i \in DOMAIN longer : longer[i] = x
      BY <1>1 DEF Lists
  <2>2. \E i \in DOMAIN longer : longer[i] = new
      BY <1>1
  <2>3. \A i \in DOMAIN longer : longer[i] \in ids \cup {new}
      BY <1>1
  <2> QED
      BY <2>1, <2>2, <2>3
<1>3. ASSUME NEW i \in DOMAIN longer, NEW j \in DOMAIN longer, i < j
      PROVE  longer[i] < longer[j]
  <2>1. i \in DOMAIN seq
      BY <1>1, <1>3
  <2>2. CASE j \in DOMAIN seq
      BY <1>1, <1>3, <2>1, <2>2 DEF Lists
  <2>3. CASE j = Len(seq) + 1
      BY <1>1, <2>1, <2>3
  <2> QED
      BY <1>1, <2>2, <2>3
<1> QED
    BY <1>2, <1>3 DEF Lists, longer

-----------------------------------------------------------------------------
(* What the lists are compared with.                                        *)

OfHash(h) == {a \in AttestationIds : Exists(a) /\ attestations[a].employeeHash = h}
OfEmployee(w) == {a \in AttestationIds : Exists(a) /\ attestations[a].employee = w}
OfEmployer(w) == {a \in AttestationIds : Exists(a) /\ attestations[a].employer = w}
RequestsOf(a) ==
    {r \in RequestIds : Requested(r) /\ accessRequests[r].attestationId = a}

\* While none is issued, the attestations under a hash, an employee and an
\* employer are the same.
LEMMA RecordsKept ==
    ASSUME RegistryInv, [Next]_registryVars,
           attestationIdCounter' = attestationIdCounter
    PROVE  /\ \A h : OfHash(h)' = OfHash(h)
           /\ \A w : OfEmployee(w)' = OfEmployee(w)
           /\ \A w : OfEmployer(w)' = OfEmployer(w)
<1>1. ASSUME NEW a \in AttestationIds
      PROVE  /\ Exists(a)' <=> Exists(a)
             /\ attestations'[a].employeeHash = attestations[a].employeeHash
             /\ attestations'[a].employee = attestations[a].employee
             /\ attestations'[a].employer = attestations[a].employer
  <2>1. AttestationStep(a) /\ attestations[a] \in Attestation
      BY AttestationSteps DEF RegistryInv, TypeOK
  <2>2. Exists(a) <=> a <= attestationIdCounter
      BY DEF RegistryInv, IdsMatchCounters
  <2>3. CASE attestations'[a] = attestations[a]
      BY <2>3 DEF Exists
  <2>4. CASE attestations'[a] = [attestations[a] EXCEPT !.status = "REVOKED"]
      BY <2>1, <2>4 DEF Exists, Attestation
  <2>5. ~(~Exists(a) /\ attestationIdCounter' = a)
      BY <2>2, BoundAssumption
  <2> QED
      BY <2>1, <2>3, <2>4, <2>5 DEF AttestationStep
<1> QED
    BY <1>1 DEF OfHash, OfEmployee, OfEmployer

\* The one that is issued joins those of its hash, its employee and its issuer.
LEMMA RecordIssued ==
    ASSUME RegistryInv, NEW sender \in Wallets, NEW s \in Submissions,
           createAttestation(sender, s)
    PROVE  LET id == attestationIdCounter + 1 IN
           /\ id \in AttestationIds
           /\ \A a \in AttestationIds : Exists(a) => a < id
           /\ \A h : OfHash(h)' =
              OfHash(h) \cup (IF h = s.employeeHash THEN {id} ELSE {})
           /\ \A w : OfEmployee(w)' =
              OfEmployee(w) \cup (IF w = s.employee THEN {id} ELSE {})
           /\ \A w : OfEmployer(w)' =
              OfEmployer(w) \cup (IF w = sender THEN {id} ELSE {})
<1> DEFINE id == attestationIdCounter + 1
<1>1. id \in AttestationIds /\ attestationIdCounter \in Nat
    BY BoundAssumption DEF createAttestation, RegistryInv, TypeOK
<1>2. \A a \in AttestationIds : Exists(a) <=> a < id
    BY <1>1, BoundAssumption DEF RegistryInv, IdsMatchCounters
<1>3. /\ attestations'[id] = Recorded(sender, s)
      /\ \A a \in AttestationIds \ {id} : attestations'[a] = attestations[a]
    BY <1>1 DEF createAttestation, NextAttestationId, RegistryInv, TypeOK
<1>4. /\ Recorded(sender, s).issueTimestamp # 0
      /\ Recorded(sender, s).employeeHash = s.employeeHash
      /\ Recorded(sender, s).employee = s.employee
      /\ Recorded(sender, s).employer = sender
    BY BoundAssumption DEF Recorded, RegistryInv, TypeOK
<1>5. ~Exists(id) /\ attestations'[id].issueTimestamp # 0
    BY <1>1, <1>2, <1>3, <1>4 DEF Exists
<1>6. \A a \in AttestationIds \ {id} : Exists(a)' <=> Exists(a)
    BY <1>3 DEF Exists
<1> HIDE DEF id
<1>7. \A h : OfHash(h)' = OfHash(h) \cup (IF h = s.employeeHash THEN {id} ELSE {})
    BY <1>1, <1>3, <1>4, <1>5, <1>6 DEF OfHash, Exists
<1>8. \A w : OfEmployee(w)' = OfEmployee(w) \cup (IF w = s.employee THEN {id} ELSE {})
    BY <1>1, <1>3, <1>4, <1>5, <1>6 DEF OfEmployee, Exists
<1>9. \A w : OfEmployer(w)' = OfEmployer(w) \cup (IF w = sender THEN {id} ELSE {})
    BY <1>1, <1>3, <1>4, <1>5, <1>6 DEF OfEmployer, Exists
<1> QED
    BY <1>1, <1>2, <1>7, <1>8, <1>9 DEF id

\* While none is made, the requests about an attestation are the same.
LEMMA RequestsKept ==
    ASSUME RegistryInv, [Next]_registryVars, requestIdCounter' = requestIdCounter
    PROVE  \A a : RequestsOf(a)' = RequestsOf(a)
<1>1. ASSUME NEW r \in RequestIds
      PROVE  /\ Requested(r)' <=> Requested(r)
             /\ accessRequests'[r].attestationId = accessRequests[r].attestationId
  <2>1. RequestStep(r)
      BY RequestSteps
  <2>2. ~Requested(r) => requestIdCounter' # r
      BY BoundAssumption DEF RegistryInv, IdsMatchCounters
  <2>3. CASE Requested(r)
      BY <2>3, RequestsPersist
  <2>4. CASE accessRequests'[r] = accessRequests[r]
      BY <2>4 DEF Requested
  <2> QED
      BY <2>1, <2>2, <2>3, <2>4 DEF RequestStep
<1> QED
    BY <1>1 DEF RequestsOf

\* The one that is made joins those about its attestation.
LEMMA RequestIssued ==
    ASSUME RegistryInv, NEW sender \in Wallets, NEW a \in AttestationIds,
           requestDocumentAccess(sender, a)
    PROVE  LET id == requestIdCounter + 1 IN
           /\ id \in RequestIds
           /\ \A r \in RequestIds : Requested(r) => r < id
           /\ \A b : RequestsOf(b)' = RequestsOf(b) \cup (IF b = a THEN {id} ELSE {})
<1> DEFINE id == requestIdCounter + 1
<1>1. id \in RequestIds /\ requestIdCounter \in Nat
    BY BoundAssumption DEF requestDocumentAccess, RegistryInv, TypeOK
<1>2. \A r \in RequestIds : Requested(r) <=> r < id
    BY <1>1, BoundAssumption DEF RegistryInv, IdsMatchCounters
<1>3. /\ accessRequests'[id] = MadeRequest(sender, a)
      /\ \A r \in RequestIds \ {id} : accessRequests'[r] = accessRequests[r]
    BY <1>1 DEF requestDocumentAccess, MadeRequest, RegistryInv, TypeOK
<1>4. MadeRequest(sender, a).timestamp # 0 /\ MadeRequest(sender, a).attestationId = a
    BY BoundAssumption DEF MadeRequest, RegistryInv, TypeOK
<1>5. ~Requested(id) /\ accessRequests'[id].timestamp # 0
    BY <1>1, <1>2, <1>3, <1>4 DEF Requested
<1>6. \A r \in RequestIds \ {id} : Requested(r)' <=> Requested(r)
    BY <1>3 DEF Requested
<1> HIDE DEF id
<1>7. \A b : RequestsOf(b)' = RequestsOf(b) \cup (IF b = a THEN {id} ELSE {})
    BY <1>1, <1>3, <1>4, <1>5, <1>6 DEF RequestsOf, Requested
<1> QED
    BY <1>1, <1>2, <1>7 DEF id

-----------------------------------------------------------------------------
(* The lists agree with the records.                                        *)

\* IndexesMatchRecords in terms of the sets above.
LEMMA IndexesUnfolded ==
    IndexesMatchRecords <=>
        /\ \A h \in Data : Lists(employeeHashAttestations[h], OfHash(h))
        /\ \A w \in Wallets : Lists(employeeWalletAttestations[w], OfEmployee(w))
        /\ \A w \in Wallets : Lists(employerAttestations[w], OfEmployer(w))
        /\ \A a \in AttestationIds : Lists(attestationRequests[a], RequestsOf(a))
BY DEF IndexesMatchRecords, OfHash, OfEmployee, OfEmployer, RequestsOf

LEMMA IndexesStep ==
    RegistryInv /\ IndexesMatchRecords /\ [Next]_registryVars
       => IndexesMatchRecords'
<1> SUFFICES ASSUME RegistryInv, IndexesMatchRecords, [Next]_registryVars
             PROVE  /\ \A h \in Data : Lists(employeeHashAttestations'[h], OfHash(h)')
                    /\ \A w \in Wallets :
                          Lists(employeeWalletAttestations'[w], OfEmployee(w)')
                    /\ \A w \in Wallets : Lists(employerAttestations'[w], OfEmployer(w)')
                    /\ \A a \in AttestationIds :
                          Lists(attestationRequests'[a], RequestsOf(a)')
    BY DEF IndexesMatchRecords, OfHash, OfEmployee, OfEmployer, RequestsOf
<1>0. /\ \A h \in Data : Lists(employeeHashAttestations[h], OfHash(h))
      /\ \A w \in Wallets : Lists(employeeWalletAttestations[w], OfEmployee(w))
      /\ \A w \in Wallets : Lists(employerAttestations[w], OfEmployer(w))
      /\ \A a \in AttestationIds : Lists(attestationRequests[a], RequestsOf(a))
    BY IndexesUnfolded
<1>1. ASSUME UNCHANGED <<attestationIdCounter, indexes>>
      PROVE  /\ \A h \in Data : Lists(employeeHashAttestations'[h], OfHash(h)')
             /\ \A w \in Wallets :
                   Lists(employeeWalletAttestations'[w], OfEmployee(w)')
             /\ \A w \in Wallets : Lists(employerAttestations'[w], OfEmployer(w)')
    BY <1>0, <1>1, RecordsKept DEF indexes
<1>2. ASSUME UNCHANGED <<requestIdCounter, attestationRequests>>
      PROVE  \A a \in AttestationIds : Lists(attestationRequests'[a], RequestsOf(a)')
    BY <1>0, <1>2, RequestsKept
<1>3. ASSUME NEW sender \in Wallets, NEW s \in Submissions,
             createAttestation(sender, s)
      PROVE  /\ UNCHANGED <<requestIdCounter, attestationRequests>>
             /\ \A h \in Data : Lists(employeeHashAttestations'[h], OfHash(h)')
             /\ \A w \in Wallets :
                   Lists(employeeWalletAttestations'[w], OfEmployee(w)')
             /\ \A w \in Wallets : Lists(employerAttestations'[w], OfEmployer(w)')
  <2> DEFINE id == attestationIdCounter + 1
  <2>1. /\ id \in AttestationIds
        /\ \A a \in AttestationIds : Exists(a) => a < id
        /\ \A h : OfHash(h)' =
              OfHash(h) \cup (IF h = s.employeeHash THEN {id} ELSE {})
        /\ \A w : OfEmployee(w)' =
              OfEmployee(w) \cup (IF w = s.employee THEN {id} ELSE {})
        /\ \A w : OfEmployer(w)' =
              OfEmployer(w) \cup (IF w = sender THEN {id} ELSE {})
      BY <1>3, RecordIssued
  <2>2. /\ employeeHashAttestations' =
              [employeeHashAttestations EXCEPT ![s.employeeHash] = Append(@, id)]
        /\ employeeWalletAttestations' =
              [employeeWalletAttestations EXCEPT ![s.employee] = Append(@, id)]
        /\ employerAttestations' =
              [employerAttestations EXCEPT ![sender] = Append(@, id)]
        /\ s.employeeHash \in Data /\ s.employee \in Wallets
        /\ UNCHANGED <<requestIdCounter, attestationRequests>>
      BY <1>3, InputAssumption
         DEF createAttestation, NextAttestationId, ValidSubmission, Submission,
             requestVars
  <2>3. /\ employeeHashAttestations \in [Data -> Seq(AttestationIds)]
        /\ employeeWalletAttestations \in [Wallets -> Seq(AttestationIds)]
        /\ employerAttestations \in [Wallets -> Seq(AttestationIds)]
      BY DEF RegistryInv, TypeOK
  <2>4. /\ \A h : OfHash(h) \in SUBSET Nat /\ \A a \in OfHash(h) : a < id
        /\ \A w : OfEmployee(w) \in SUBSET Nat /\ \A a \in OfEmployee(w) : a < id
        /\ \A w : OfEmployer(w) \in SUBSET Nat /\ \A a \in OfEmployer(w) : a < id
      BY <2>1 DEF OfHash, OfEmployee, OfEmployer
  <2> HIDE DEF id
  <2>5. ASSUME NEW h \in Data
        PROVE  Lists(employeeHashAttestations'[h], OfHash(h)')
    <3>1. CASE h = s.employeeHash
      <4>1. /\ employeeHashAttestations'[h] = Append(employeeHashAttestations[h], id)
            /\ OfHash(h)' = OfHash(h) \cup {id}
            /\ employeeHashAttestations[h] \in Seq(1..MaxAttestations)
          BY <2>1, <2>2, <2>3, <3>1
      <4> QED
          BY <1>0, <2>1, <2>4, <4>1, ListsAppend, BoundAssumption
    <3>2. CASE h # s.employeeHash
        BY <1>0, <2>1, <2>2, <2>3, <3>2
    <3> QED
        BY <3>1, <3>2
  <2>6. ASSUME NEW w \in Wallets
        PROVE  Lists(employeeWalletAttestations'[w], OfEmployee(w)')
    <3>1. CASE w = s.employee
      <4>1. /\ employeeWalletAttestations'[w] = Append(employeeWalletAttestations[w], id)
            /\ OfEmployee(w)' = OfEmployee(w) \cup {id}
            /\ employeeWalletAttestations[w] \in Seq(1..MaxAttestations)
          BY <2>1, <2>2, <2>3, <3>1
      <4> QED
          BY <1>0, <2>1, <2>4, <4>1, ListsAppend, BoundAssumption
    <3>2. CASE w # s.employee
        BY <1>0, <2>1, <2>2, <2>3, <3>2
    <3> QED
        BY <3>1, <3>2
  <2>7. ASSUME NEW w \in Wallets
        PROVE  Lists(employerAttestations'[w], OfEmployer(w)')
    <3>1. CASE w = sender
      <4>1. /\ employerAttestations'[w] = Append(employerAttestations[w], id)
            /\ OfEmployer(w)' = OfEmployer(w) \cup {id}
            /\ employerAttestations[w] \in Seq(1..MaxAttestations)
          BY <2>1, <2>2, <2>3, <3>1
      <4> QED
          BY <1>0, <2>1, <2>4, <4>1, ListsAppend, BoundAssumption
    <3>2. CASE w # sender
        BY <1>0, <2>1, <2>2, <2>3, <3>2
    <3> QED
        BY <3>1, <3>2
  <2> QED
      BY <2>2, <2>5, <2>6, <2>7
<1>4. ASSUME NEW sender \in Wallets, NEW b \in AttestationIds,
             requestDocumentAccess(sender, b)
      PROVE  /\ UNCHANGED <<attestationIdCounter, indexes>>
             /\ \A a \in AttestationIds :
                   Lists(attestationRequests'[a], RequestsOf(a)')
  <2> DEFINE id == requestIdCounter + 1
  <2>1. /\ id \in RequestIds
        /\ \A r \in RequestIds : Requested(r) => r < id
        /\ \A a : RequestsOf(a)' = RequestsOf(a) \cup (IF a = b THEN {id} ELSE {})
      BY <1>4, RequestIssued
  <2>2. /\ attestationRequests' =
              [attestationRequests EXCEPT ![b] = Append(@, id)]
        /\ attestationRequests \in [AttestationIds -> Seq(RequestIds)]
        /\ UNCHANGED <<attestationIdCounter, indexes>>
      BY <1>4 DEF requestDocumentAccess, attestationVars, RegistryInv, TypeOK
  <2>3. \A a : \A r \in RequestsOf(a) : r < id
      BY <2>1 DEF RequestsOf
  <2> HIDE DEF id
  <2>4. ASSUME NEW a \in AttestationIds
        PROVE  Lists(attestationRequests'[a], RequestsOf(a)')
    <3>1. CASE a = b
      <4>1. /\ attestationRequests'[a] = Append(attestationRequests[a], id)
            /\ RequestsOf(a)' = RequestsOf(a) \cup {id}
            /\ attestationRequests[a] \in Seq(1..MaxRequests)
          BY <2>1, <2>2, <3>1
      <4> QED
          BY <1>0, <2>1, <2>3, <4>1, ListsAppend, BoundAssumption
    <3>2. CASE a # b
        BY <1>0, <2>1, <2>2, <3>2
    <3> QED
        BY <3>1, <3>2
  <2> QED
      BY <2>2, <2>4
<1>5. ASSUME NEW sender \in Wallets,
             \/ \E name \in EmployerNames : registerEmployer(sender, name)
             \/ \E a \in AttestationIds : revokeAttestation(sender, a)
             \/ \E r \in RequestIds : approveDocumentAccess(sender, r)
             \/ \E r \in RequestIds : rejectDocumentAccess(sender, r)
      PROVE  UNCHANGED <<attestationIdCounter, indexes,
                         requestIdCounter, attestationRequests>>
    BY <1>5 DEF registerEmployer, revokeAttestation, approveDocumentAccess,
       rejectDocumentAccess, attestationVars, requestVars
<1>6. CASE NextBlock \/ UNCHANGED registryVars
    BY <1>1, <1>2, <1>6 DEF NextBlock, registryVars, attestationVars, requestVars
<1> QED
    BY <1>1, <1>2, <1>3, <1>4, <1>5, <1>6 DEF Next, Transaction

LEMMA IndexesInit == Init => IndexesMatchRecords
<1> SUFFICES ASSUME Init PROVE IndexesMatchRecords
    OBVIOUS
<1>1. /\ \A a \in AttestationIds : ~Exists(a)
      /\ \A r \in RequestIds : ~Requested(r)
    BY DEF Init, Exists, Requested, NoAttestation, NoRequest
<1>2. Lists(<<>>, {})
    BY DEF Lists
<1> QED
    BY <1>1, <1>2 DEF Init, IndexesMatchRecords

\* The lists the getters return hold each record once, in issue order, under
\* the hash, employee, employer or attestation the record itself names.
THEOREM ListsMatchRecords == Spec => []IndexesMatchRecords
BY InvInit, InvStep, IndexesInit, IndexesStep, PTL DEF Spec

-----------------------------------------------------------------------------
(* Time.                                                                    *)

\* What Chronology rests on: no employer and no request is dated in the future.
RegistrationsPast ==
    \A w \in Wallets : isEmployerRegistered(w) =>
        employers[w].registrationTimestamp \in 1..blockTimestamp

RequestsPast ==
    \A r \in RequestIds : Requested(r) =>
        accessRequests[r].timestamp <= blockTimestamp

TimeInv == RegistryInv /\ RegistrationsPast /\ RequestsPast /\ Chronology

\* A step registers employers as of now, and leaves the registered ones alone.
LEMMA EmployerSteps ==
    ASSUME RegistryInv, [Next]_registryVars, NEW w \in Wallets
    PROVE  \/ employers'[w] = employers[w]
           \/ /\ ~isEmployerRegistered(w)
              /\ employers'[w].registrationTimestamp = blockTimestamp
<1>1. ASSUME NEW sender \in Wallets, NEW name \in EmployerNames,
             registerEmployer(sender, name)
      PROVE  \/ employers'[w] = employers[w]
             \/ /\ ~isEmployerRegistered(w)
                /\ employers'[w].registrationTimestamp = blockTimestamp
    BY <1>1 DEF registerEmployer, RegistryInv, TypeOK
<1>2. ASSUME NEW sender \in Wallets,
             \/ \E s \in Submissions : createAttestation(sender, s)
             \/ \E a \in AttestationIds : revokeAttestation(sender, a)
             \/ \E a \in AttestationIds : requestDocumentAccess(sender, a)
             \/ \E r \in RequestIds : approveDocumentAccess(sender, r)
             \/ \E r \in RequestIds : rejectDocumentAccess(sender, r)
      PROVE  employers' = employers
    BY <1>2 DEF createAttestation, revokeAttestation, requestDocumentAccess,
       approveDocumentAccess, rejectDocumentAccess
<1>3. CASE NextBlock \/ UNCHANGED registryVars
    BY <1>3 DEF NextBlock, registryVars
<1> QED
    BY <1>1, <1>2, <1>3 DEF Next, Transaction

\* The clock as the arithmetic below needs it.
LEMMA TimePasses ==
    ASSUME RegistryInv, [Next]_registryVars
    PROVE  /\ blockTimestamp \in Nat /\ blockTimestamp' \in Nat
           /\ 1 <= blockTimestamp /\ blockTimestamp <= blockTimestamp'
<1>1. 1 <= blockTimestamp
    BY BoundAssumption DEF RegistryInv, TypeOK
<1> QED
    BY <1>1, ClockStep

LEMMA RegistrationsPastStep ==
    RegistryInv /\ RegistrationsPast /\ [Next]_registryVars => RegistrationsPast'
<1> SUFFICES ASSUME RegistryInv, RegistrationsPast, [Next]_registryVars,
                    NEW w \in Wallets, isEmployerRegistered(w)'
             PROVE  employers'[w].registrationTimestamp \in 1..blockTimestamp'
    BY DEF RegistrationsPast
<1>1. CASE employers'[w] = employers[w]
    BY <1>1, TimePasses DEF RegistrationsPast, isEmployerRegistered
<1>2. CASE employers'[w].registrationTimestamp = blockTimestamp
    BY <1>2, TimePasses
<1> QED
    BY <1>1, <1>2, EmployerSteps

LEMMA RequestsPastStep ==
    RegistryInv /\ RequestsPast /\ [Next]_registryVars => RequestsPast'
<1> SUFFICES ASSUME RegistryInv, RequestsPast, [Next]_registryVars,
                    NEW r \in RequestIds, Requested(r)'
             PROVE  accessRequests'[r].timestamp <= blockTimestamp'
    BY DEF RequestsPast
<1>1. RequestStep(r) /\ accessRequests[r] \in AccessRequest
    BY RequestSteps DEF RegistryInv, TypeOK
<1>2. CASE Requested(r)
  <2>1. /\ accessRequests'[r].timestamp = accessRequests[r].timestamp
        /\ accessRequests[r].timestamp <= blockTimestamp
        /\ accessRequests[r].timestamp \in Nat
      BY <1>1, <1>2, RequestsPersist DEF RequestsPast, AccessRequest
  <2> QED
      BY <2>1, TimePasses
<1>3. CASE ~Requested(r)
  <2>1. PICK sender \in Wallets, a \in AttestationIds :
            accessRequests'[r] = MadeRequest(sender, a)
      BY <1>1, <1>3 DEF RequestStep, Requested
  <2>2. accessRequests'[r].timestamp = blockTimestamp
      BY <2>1 DEF MadeRequest
  <2> QED
      BY <2>2, TimePasses
<1> QED
    BY <1>2, <1>3

\* An attestation a step issues is dated now, and only one is issued.
LEMMA IssuedNow ==
    ASSUME RegistryInv, [Next]_registryVars,
           NEW a \in AttestationIds, ~Exists(a), Exists(a)'
    PROVE  /\ attestations'[a].issueTimestamp = blockTimestamp
           /\ attestations'[a].employer \in Wallets
           /\ isEmployerRegistered(attestations'[a].employer)
           /\ attestationIdCounter' = a
<1>1. AttestationStep(a)
    BY AttestationSteps
<1>2. PICK sender \in Wallets, s \in Submissions :
          /\ isEmployerRegistered(sender)
          /\ attestations'[a] = Recorded(sender, s)
          /\ attestationIdCounter' = a
    BY <1>1 DEF AttestationStep, Exists
<1>3. /\ attestations'[a].issueTimestamp = blockTimestamp
      /\ attestations'[a].employer = sender
    BY <1>2 DEF Recorded
<1> QED
    BY <1>2, <1>3

LEMMA ChronologyStep == TimeInv /\ [Next]_registryVars => Chronology'
<1> SUFFICES ASSUME TimeInv, [Next]_registryVars PROVE Chronology'
    OBVIOUS
<1> USE DEF TimeInv
<1>0. /\ blockTimestamp \in Nat /\ blockTimestamp' \in Nat
      /\ 1 <= blockTimestamp /\ blockTimestamp <= blockTimestamp'
      /\ RecordsPersist
    BY TimePasses, Persistence
<1>1. ASSUME NEW a \in AttestationIds, Exists(a)'
      PROVE  /\ employers'[attestations'[a].employer].registrationTimestamp
                   \in 1..attestations'[a].issueTimestamp
             /\ attestations'[a].issueTimestamp <= blockTimestamp'
             /\ attestations'[a].issueTimestamp <= blockTimestamp
             /\ attestations'[a].issueTimestamp \in Nat
  <2> DEFINE e == attestations'[a].employer
             t == attestations'[a].issueTimestamp
  <2>1. /\ e \in Wallets /\ isEmployerRegistered(e)
        /\ employers[e].registrationTimestamp \in 1..t
        /\ t <= blockTimestamp /\ t \in Nat
    <3>1. CASE Exists(a)
      <4>1. /\ e = attestations[a].employer
            /\ t = attestations[a].issueTimestamp
          BY <1>0, <3>1 DEF RecordsPersist
      <4>2. /\ attestations[a].employer \in Wallets
            /\ isEmployerRegistered(attestations[a].employer)
            /\ attestations[a].issueTimestamp \in Nat
          BY <3>1 DEF RegistryInv, AttestationsComplete, AttestationComplete,
             TypeOK, Attestation
      <4>3. /\ employers[attestations[a].employer].registrationTimestamp
                  \in 1..attestations[a].issueTimestamp
            /\ attestations[a].issueTimestamp <= blockTimestamp
          BY <3>1 DEF Chronology
      <4> QED
          BY <4>1, <4>2, <4>3
    <3>2. CASE ~Exists(a)
      <4>1. /\ t = blockTimestamp
            /\ e \in Wallets /\ isEmployerRegistered(e)
          BY <1>1, <3>2, IssuedNow
      <4> QED
          BY <1>0, <4>1 DEF RegistrationsPast
    <3> QED
        BY <3>1, <3>2
  <2> HIDE DEF e, t
  <2>2. employers'[e] = employers[e]
      BY <2>1, EmployerSteps
  <2>3. t <= blockTimestamp'
      BY <1>0, <2>1
  <2> QED
      BY <2>1, <2>2, <2>3 DEF e, t
<1>2. ASSUME NEW a \in AttestationIds, NEW b \in AttestationIds,
             Exists(a)', Exists(b)', a < b
      PROVE  attestations'[a].issueTimestamp <= attestations'[b].issueTimestamp
  <2>1. CASE Exists(b)
    <3>1. Exists(a)
        BY <1>2, <2>1, BoundAssumption
           DEF RegistryInv, TypeOK, IdsMatchCounters
    <3>2. attestations[a].issueTimestamp <= attestations[b].issueTimestamp
        BY <1>2, <2>1, <3>1 DEF Chronology
    <3> QED
        BY <1>0, <2>1, <3>1, <3>2 DEF RecordsPersist
  <2>2. CASE ~Exists(b)
    <3>1. attestations'[b].issueTimestamp = blockTimestamp
        BY <1>2, <2>2, IssuedNow
    <3> QED
        BY <1>1, <1>2, <3>1
  <2> QED
      BY <2>1, <2>2
<1>3. ASSUME NEW r \in RequestIds, Requested(r)'
      PROVE  LET q == accessRequests'[r] IN
             /\ attestations'[q.attestationId].issueTimestamp <= q.timestamp
             /\ IF Pending(r)' THEN q.respondedAt = 0
                              ELSE q.respondedAt \in q.timestamp..blockTimestamp'
  <2>1. RequestStep(r) /\ accessRequests[r] \in AccessRequest
      BY RequestSteps DEF RegistryInv, TypeOK
  <2>2. CASE Requested(r)
    <3> DEFINE a == accessRequests[r].attestationId
    <3>1. /\ accessRequests'[r].attestationId = a
          /\ accessRequests'[r].timestamp = accessRequests[r].timestamp
          /\ accessRequests[r].timestamp \in Nat
          /\ accessRequests[r].timestamp <= blockTimestamp
        BY <2>1, <2>2, RequestsPersist DEF RequestsPast, AccessRequest
    <3>2. a \in AttestationIds /\ Exists(a)
        BY <2>2 DEF RegistryInv, RequestsMatchAttestations, RequestMatches
    <3>3. attestations[a].issueTimestamp <= accessRequests[r].timestamp
        BY <2>2 DEF Chronology
    <3>4. IF Pending(r) THEN accessRequests[r].respondedAt = 0
          ELSE accessRequests[r].respondedAt
                  \in accessRequests[r].timestamp..blockTimestamp
        BY <2>2 DEF Chronology
    <3> HIDE DEF a
    <3>5. attestations'[a].issueTimestamp = attestations[a].issueTimestamp
        BY <1>0, <3>2 DEF RecordsPersist
    <3>6. IF Pending(r)' THEN accessRequests'[r].respondedAt = 0
          ELSE accessRequests'[r].respondedAt
                  \in accessRequests[r].timestamp..blockTimestamp'
      <4>1. CASE accessRequests'[r] = accessRequests[r]
          BY <1>0, <3>1, <3>4, <4>1 DEF Pending
      <4>2. ASSUME NEW status \in {"APPROVED", "REJECTED"},
                   accessRequests'[r] = [accessRequests[r] EXCEPT
                      !.status = status, !.respondedAt = blockTimestamp]
            PROVE  /\ accessRequests'[r].status # "PENDING"
                   /\ accessRequests'[r].respondedAt
                         \in accessRequests[r].timestamp..blockTimestamp'
        <5>1. /\ accessRequests'[r].status = status
              /\ accessRequests'[r].respondedAt = blockTimestamp
            BY <2>1, <4>2 DEF AccessRequest
        <5> QED
            BY <1>0, <3>1, <5>1
      <4> QED
          BY <2>1, <2>2, <4>1, <4>2 DEF RequestStep, Pending
    <3> QED
        BY <3>1, <3>3, <3>5, <3>6
  <2>3. CASE ~Requested(r)
    <3>1. PICK sender \in Wallets, a \in AttestationIds :
              /\ Exists(a)
              /\ accessRequests'[r] = MadeRequest(sender, a)
        BY <1>3, <2>1, <2>3 DEF RequestStep, Requested, CanRequest
    <3>2. /\ accessRequests'[r].attestationId = a
          /\ accessRequests'[r].timestamp = blockTimestamp
          /\ accessRequests'[r].status = "PENDING"
          /\ accessRequests'[r].respondedAt = 0
        BY <3>1 DEF MadeRequest
    <3>3. /\ attestations'[a].issueTimestamp = attestations[a].issueTimestamp
          /\ attestations[a].issueTimestamp <= blockTimestamp
        BY <1>0, <3>1 DEF RecordsPersist, Chronology
    <3> QED
        BY <3>2, <3>3 DEF Pending
  <2> QED
      BY <2>2, <2>3
<1> QED
    BY <1>1, <1>2, <1>3 DEF Chronology

LEMMA TimeInit == Init => TimeInv
<1> SUFFICES ASSUME Init PROVE TimeInv
    OBVIOUS
<1>1. /\ \A w \in Wallets : ~isEmployerRegistered(w)
      /\ \A a \in AttestationIds : ~Exists(a)
      /\ \A r \in RequestIds : ~Requested(r)
    BY DEF Init, isEmployerRegistered, Exists, Requested, NoProfile,
       NoAttestation, NoRequest
<1> QED
    BY <1>1, InvInit
       DEF TimeInv, RegistrationsPast, RequestsPast, Chronology

LEMMA TimeStep == TimeInv /\ [Next]_registryVars => TimeInv'
BY InvStep, RegistrationsPastStep, RequestsPastStep, ChronologyStep DEF TimeInv

\* Employers register before they issue, attestations are issued before they
\* are requested and requests made before they are answered, ids in time order.
THEOREM TimeMovesForward == Spec => []Chronology
<1>1. TimeInv => Chronology
    BY DEF TimeInv
<1> QED
    BY TimeInit, TimeStep, <1>1, PTL DEF Spec

-----------------------------------------------------------------------------
(* A registry found in use.                                                 *)

\* What issuers is: a wallet for each of the ids up to its length.
LEMMA HistoryType ==
    ASSUME NEW issuers \in Histories
    PROVE  /\ Len(issuers) \in 0..MaxAttestations
           /\ issuers \in [1..Len(issuers) -> Wallets]
<1>1. PICK n \in 0..MaxAttestations : issuers \in [1..n -> Wallets]
    BY HistoryAssumption DEF SE!SeqOf
<1>2. n \in Nat
    BY BoundAssumption
<1>3. Len(issuers) = n
    BY <1>1, <1>2
<1> QED
    BY <1>1, <1>3

\* The numbers up to n, in their order, list them.
LEMMA CountingLists ==
    ASSUME NEW n \in Nat
    PROVE  /\ [i \in 1..n |-> i] \in Seq(1..n)
           /\ Lists([i \in 1..n |-> i], 1..n)
BY DEF Lists

\* The registry that RegistryHolds describes satisfies the invariants, as if its
\* transactions had been sent.
LEMMA HistoryKeeps ==
    ASSUME NEW issuers \in Histories, NEW s \in Submissions,
           ValidSubmission(s), RegistryHolds(issuers, s)
    PROVE  ConsentInv /\ IndexesMatchRecords
<1> DEFINE n == Len(issuers)
           all == [i \in 1..n |-> i]
<1>1. /\ n \in Nat /\ n <= MaxAttestations /\ MaxAttestations \in Nat
      /\ issuers \in [1..n -> Wallets]
    BY HistoryType, BoundAssumption
<1>2. /\ s \in Submission
      /\ s.employee \in Wallets /\ s.employeeHash \in Data
      /\ s.startDate > 0 /\ (s.endDate > 0 => s.endDate >= s.startDate)
    BY InputAssumption, EmptyAssumption DEF ValidSubmission, Submission
<1>3. blockTimestamp = 1
    BY DEF RegistryHolds
<1>4. ASSUME NEW a \in 1..n
      PROVE  /\ Recorded(issuers[a], s) \in Attestation
             /\ Recorded(issuers[a], s).issueTimestamp = 1
             /\ Recorded(issuers[a], s).employee = s.employee
             /\ Recorded(issuers[a], s).employer = issuers[a]
             /\ Recorded(issuers[a], s).employeeHash = s.employeeHash
             /\ Recorded(issuers[a], s).startDate = s.startDate
             /\ Recorded(issuers[a], s).endDate = s.endDate
             /\ Recorded(issuers[a], s).status = "COMPLETED" =>
                   s.endDate \in 1..1
  <2>1. issuers[a] \in Wallets
      BY <1>1
  <2> QED
      BY <1>2, <1>3, <2>1 DEF Recorded, IssueStatus, Submission, Attestation
<1>5. /\ attestations = [a \in AttestationIds |->
            IF a \in 1..n THEN Recorded(issuers[a], s) ELSE NoAttestation]
      /\ attestationIdCounter = n
      /\ accessRequests = [r \in RequestIds |-> NoRequest]
      /\ requestIdCounter = 0
      /\ authorizedVerifiers = [a \in AttestationIds |-> {}]
    BY <1>1 DEF RegistryHolds
<1>6. \A a \in 1..n : a \in AttestationIds /\ attestations[a] = Recorded(issuers[a], s)
    BY <1>1, <1>5
<1>7. /\ \A a \in AttestationIds : Exists(a) <=> a \in 1..n
      /\ \A a \in AttestationIds : ~Exists(a) => attestations[a] = NoAttestation
    BY <1>1, <1>4, <1>5 DEF Exists, NoAttestation
<1>8. \A r \in RequestIds : ~Requested(r) /\ accessRequests[r] = NoRequest
    BY <1>5 DEF Requested, NoRequest
<1>9. /\ all \in Seq(AttestationIds) /\ Lists(all, 1..n)
      /\ <<>> \in Seq(AttestationIds) /\ Lists(<<>>, {})
    BY <1>1, CountingLists DEF Lists
<1>10. /\ employeeHashAttestations = [h \in Data |->
             IF h = s.employeeHash THEN all ELSE <<>>]
       /\ employeeWalletAttestations = [w \in Wallets |->
             IF w = s.employee THEN all ELSE <<>>]
       /\ attestationRequests = [a \in AttestationIds |-> <<>>]
    BY DEF RegistryHolds
<1>11. /\ employerAttestations \in [Wallets -> Seq(AttestationIds)]
       /\ \A w \in Wallets :
             Lists(employerAttestations[w], {a \in 1..n : issuers[a] = w})
  <2>1. employerAttestations \in [Wallets -> UNION {[1..m -> AttestationIds] : m \in 0..n}]
      BY DEF RegistryHolds, SE!SeqOf
  <2>2. UNION {[1..m -> AttestationIds] : m \in 0..n} \subseteq Seq(AttestationIds)
      BY <1>1
  <2>3. DOMAIN issuers = 1..n
      BY <1>1
  <2> QED
      BY <2>1, <2>2, <2>3 DEF RegistryHolds
<1>12. /\ employers \in [Wallets -> EmployerProfile]
       /\ \A a \in 1..n : isEmployerRegistered(issuers[a])
  <2>1. employers = [w \in Wallets |->
          IF \E a \in 1..n : issuers[a] = w
          THEN [employerName |-> s.position, isRegistered |-> TRUE,
                registrationTimestamp |-> 1]
          ELSE NoProfile]
      BY <1>1 DEF RegistryHolds
  <2>2. s.position \in Field
      BY <1>2 DEF Submission
  <2> QED
      BY <1>1, <2>1, <2>2 DEF EmployerProfile, NoProfile, isEmployerRegistered
<1>13. TypeOK
  <2>1. attestations \in [AttestationIds -> Attestation]
      BY <1>4, <1>5, <1>6 DEF NoAttestation, Attestation
  <2>2. accessRequests \in [RequestIds -> AccessRequest]
      BY <1>5 DEF NoRequest, AccessRequest
  <2>3. event \in Event
      BY EmittedType DEF RegistryHolds, NoEvent
  <2>4. /\ employeeHashAttestations \in [Data -> Seq(AttestationIds)]
        /\ employeeWalletAttestations \in [Wallets -> Seq(AttestationIds)]
        /\ attestationRequests \in [AttestationIds -> Seq(RequestIds)]
    <3>1. <<>> \in Seq(RequestIds)
        OBVIOUS
    <3> HIDE DEF all
    <3> QED
        BY <1>9, <1>10, <3>1
  <2> QED
      BY <1>1, <1>3, <1>5, <1>11, <1>12, <2>1, <2>2, <2>3, <2>4, BoundAssumption
         DEF TypeOK
<1>14. IdsMatchCounters
    BY <1>1, <1>5, <1>7, <1>8, BoundAssumption DEF IdsMatchCounters
<1>15. AttestationsComplete
  <2> SUFFICES ASSUME NEW a \in AttestationIds, Exists(a)
               PROVE  AttestationComplete(a)
      BY DEF AttestationsComplete
  <2>1. a \in 1..n
      BY <1>7
  <2>2. attestations[a].issueTimestamp = 1 /\ issuers[a] \in Wallets
      BY <1>1, <1>4, <1>6, <2>1
  <2> QED
      BY <1>2, <1>4, <1>6, <1>12, <2>1, <2>2 DEF AttestationComplete, Submission
<1>16. ConsentInv
    BY <1>5, <1>8, <1>13, <1>14, <1>15
       DEF ConsentInv, RegistryInv, RequestsMatchAttestations, AnswersPast,
       LatestAnswerDecides, AnsweredRequests
<1>17. IndexesMatchRecords
  <2>1. /\ \A h \in Data : OfHash(h) = IF h = s.employeeHash THEN 1..n ELSE {}
        /\ \A w \in Wallets : OfEmployee(w) = IF w = s.employee THEN 1..n ELSE {}
        /\ \A w \in Wallets : OfEmployer(w) = {a \in 1..n : issuers[a] = w}
      BY <1>4, <1>6, <1>7 DEF OfHash, OfEmployee, OfEmployer
  <2>2. \A a \in AttestationIds : RequestsOf(a) = {}
      BY <1>8 DEF RequestsOf
  <2> QED
      BY <1>9, <1>10, <1>11, <2>1, <2>2, IndexesUnfolded
<1> QED
    BY <1>16, <1>17

=============================================================================
