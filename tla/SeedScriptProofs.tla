--------------------------- MODULE SeedScriptProofs ---------------------------
(***************************************************************************)
(* Theorems about SeedScript: what the first complete run leaves, and whom *)
(* the script lets in however often it is cut short and run again.         *)
(***************************************************************************)
EXTENDS SeedScript, EmploymentRegistryProofs

USE DEF AttestationIds, RequestIds, EmploymentStatus, RequestStatus,
        Field, Account

-----------------------------------------------------------------------------
(* The inductive invariant.                                                 *)

\* Number 1 is the script's first attestation, request 1 is for it and by the
\* script's verifier, and nobody else is let in anywhere.
OpenedInv ==
    /\ attestationIdCounter >= 1 =>
          /\ attestations[1].employee = employee1
          /\ attestations[1].documentHash = record1.documentHash
    /\ seedStep \in {"issue2", "issue3"} => attestationIdCounter >= 1
    /\ requestIdCounter >= 1 =>
          /\ accessRequests[1].attestationId = 1
          /\ accessRequests[1].verifier = verifier1
    /\ seedStep = "request2" => requestIdCounter >= 1
    /\ \A a \in AttestationIds :
          authorizedVerifiers[a] \subseteq IF a = 1 THEN {verifier1} ELSE {}

\* How many attestations and requests the first run has made when it is at a
\* transaction.
IssuedBefore(step) ==
    IF step \in {"register1", "register2", "issue1"} THEN 0
    ELSE IF step = "issue2" THEN 1
    ELSE IF step = "issue3" THEN 2 ELSE 3

AskedBefore(step) ==
    IF step = "done" THEN 2
    ELSE IF step \in {"approve", "request2"} THEN 1 ELSE 0

\* The registry under the first run.
FirstRun ==
    /\ attestationIdCounter = IssuedBefore(seedStep)
    /\ requestIdCounter = AskedBefore(seedStep)
    /\ seedStep # "register1" => isEmployerRegistered(employer1)
    /\ seedStep \notin {"register1", "register2"} => isEmployerRegistered(verifier1)
    /\ attestationIdCounter >= 1 =>
          attestations[1].employee = employee1 /\ attestations[1].status = "ACTIVE"
    /\ attestationIdCounter >= 2 =>
          attestations[2].employee = employee1 /\ attestations[2].status = "COMPLETED"
    /\ attestationIdCounter >= 3 =>
          /\ attestations[3].employee = employee2
          /\ seedStep # "revoke" => attestations[3].status = "REVOKED"
    /\ seedStep \in {"request2", "done"} => verifier1 \in authorizedVerifiers[1]
    /\ seedStep = "done" => accessRequests[2].attestationId = 2 /\ Pending(2)

SeedInv ==
    /\ RegistryInv
    /\ OpenedInv
    /\ seedRuns \in Nat
    /\ seedRuns = 0 => /\ seedStep = "none"
                       /\ attestationIdCounter = 0 /\ requestIdCounter = 0
    /\ seedRuns = 1 /\ seedStep \in Transactions \cup {"done"} => FirstRun

-----------------------------------------------------------------------------
(* The steps.                                                               *)

LEMMA TransactionOrder ==
    /\ Transactions = {"register1", "register2", "issue1", "issue2", "issue3",
                       "revoke", "request1", "approve", "request2"}
    /\ After["register1"] = "register2" /\ After["register2"] = "issue1"
    /\ After["issue1"] = "issue2" /\ After["issue2"] = "issue3"
    /\ After["issue3"] = "revoke" /\ After["revoke"] = "request1"
    /\ After["request1"] = "approve" /\ After["approve"] = "request2"
    /\ After["request2"] = "done"
BY DEF Transactions, After

LEMMA SeedIds == {1, 2, 3} \subseteq AttestationIds /\ {1, 2} \subseteq RequestIds
BY SeedAssumption, BoundAssumption

\* Every step is a step of the registry or leaves it alone.
LEMMA SeedFollowsRegistry == [SeedNext]_seedAllVars => [Next]_registryVars
<1> SUFFICES ASSUME [SeedNext]_seedAllVars PROVE [Next]_registryVars
    OBVIOUS
<1>1. CASE \/ SeedRegisters("register1", employer1, name1)
           \/ SeedRegisters("register2", verifier1, name2)
    BY <1>1, SeedAssumption DEF SeedRegisters, Next, Transaction
<1>2. CASE \/ SeedIssues("issue1", record1)
           \/ SeedIssues("issue2", record2)
           \/ SeedIssues("issue3", record3)
    BY <1>2, SeedAssumption DEF SeedIssues, Next, Transaction
<1>3. CASE SeedRevokes
    BY <1>3, SeedAssumption, SeedIds DEF SeedRevokes, RevokedId, Next, Transaction
<1>4. CASE SeedAsks("request1", 1) \/ SeedAsks("request2", 2)
    BY <1>4, SeedAssumption, SeedIds DEF SeedAsks, Next, Transaction
<1>5. CASE SeedApproves
    BY <1>5, SeedAssumption, SeedIds DEF SeedApproves, Next, Transaction
<1>6. CASE StartSeed \/ SeedReverts \/ SeedInterrupted \/ UNCHANGED seedAllVars
    BY <1>6 DEF StartSeed, SeedReverts, SeedInterrupted, EndSeed, allVars,
       seedAllVars
<1>7. CASE NextBlock
    BY <1>7 DEF Next
<1>8. CASE UNCHANGED registryVars
    BY <1>8
<1> QED
    BY <1>1, <1>2, <1>3, <1>4, <1>5, <1>6, <1>7, <1>8 DEF SeedNext, SeedStep

\* What an attestation that is issued looks like; the others stay.
LEMMA IssueEffect ==
    ASSUME RegistryInv, NEW s \in Submissions, createAttestation(employer1, s)
    PROVE  LET id == attestationIdCounter + 1 IN
           /\ id \in AttestationIds
           /\ attestationIdCounter' = id
           /\ attestations'[id].employee = s.employee
           /\ attestations'[id].documentHash = s.documentHash
           /\ attestations'[id].status = IssueStatus(s)
           /\ \A a \in AttestationIds \ {id} : attestations'[a] = attestations[a]
           /\ requestIdCounter' = requestIdCounter
           /\ accessRequests' = accessRequests
           /\ authorizedVerifiers' = authorizedVerifiers
           /\ employers' = employers
<1>1. attestationIdCounter \in Nat /\ attestationIdCounter + 1 \in AttestationIds
    BY BoundAssumption DEF RegistryInv, TypeOK, createAttestation
<1>2. attestations' = [attestations EXCEPT
                          ![attestationIdCounter + 1] = Recorded(employer1, s)]
    BY DEF createAttestation, NextAttestationId
<1>3. DOMAIN attestations = AttestationIds
    BY DEF RegistryInv, TypeOK
<1> QED
    BY <1>1, <1>2, <1>3 DEF createAttestation, Recorded, requestVars

\* The statuses of the two attestations of the first employee.
LEMMA StatusAtIssue ==
    ASSUME RegistryInv
    PROVE  IssueStatus(record1) = "ACTIVE" /\ IssueStatus(record2) = "COMPLETED"
<1>1. blockTimestamp \in Nat /\ blockTimestamp >= 1
    BY BoundAssumption DEF RegistryInv, TypeOK
<1> QED
    BY <1>1, SeedAssumption DEF IssueStatus

LEMMA StartStep ==
    ASSUME SeedInv, StartSeed
    PROVE  OpenedInv' /\ (seedRuns' = 1 => FirstRun')
<1>1. /\ seedStep' = "register1" /\ seedRuns' = seedRuns + 1
      /\ UNCHANGED registryVars
    BY DEF StartSeed, allVars
<1>2. OpenedInv'
    BY <1>1 DEF SeedInv, OpenedInv, registryVars, attestationVars, requestVars
<1>3. seedRuns' = 1 => attestationIdCounter' = 0 /\ requestIdCounter' = 0
    BY <1>1 DEF SeedInv, registryVars, attestationVars, requestVars
<1> QED
    BY <1>1, <1>2, <1>3 DEF FirstRun, IssuedBefore, AskedBefore

LEMMA RegisterStep ==
    ASSUME SeedInv, \/ SeedRegisters("register1", employer1, name1)
                    \/ SeedRegisters("register2", verifier1, name2)
    PROVE  OpenedInv' /\ (FirstRun => FirstRun')
<1>1. \/ seedStep = "register1" /\ seedStep' = "register2"
            /\ isEmployerRegistered(employer1)'
      \/ /\ seedStep = "register2" /\ seedStep' = "issue1"
         /\ isEmployerRegistered(verifier1)'
    BY TransactionOrder, SeedAssumption
       DEF SeedRegisters, Mined, SeedInv, RegistryInv, TypeOK, registerEmployer,
           isEmployerRegistered, registryVars
<1>2. /\ UNCHANGED <<attestationVars, requestVars, authorizedVerifiers>>
      /\ isEmployerRegistered(employer1) => isEmployerRegistered(employer1)'
    BY SeedAssumption
       DEF SeedRegisters, SeedInv, RegistryInv, TypeOK, registerEmployer,
           isEmployerRegistered, registryVars
<1>3. OpenedInv'
    BY <1>1, <1>2 DEF SeedInv, OpenedInv, attestationVars, requestVars
<1>4. FirstRun => FirstRun'
    BY <1>1, <1>2 DEF FirstRun, IssuedBefore, AskedBefore, attestationVars, requestVars
<1> QED
    BY <1>3, <1>4

LEMMA IssueStep ==
    ASSUME SeedInv, \/ SeedIssues("issue1", record1)
                    \/ SeedIssues("issue2", record2)
                    \/ SeedIssues("issue3", record3)
    PROVE  OpenedInv' /\ (FirstRun => FirstRun')
<1>1. PICK s \in {record1, record2, record3} :
         /\ createAttestation(employer1, s)
         /\ \/ s = record1 /\ seedStep = "issue1" /\ seedStep' = "issue2"
            \/ s = record2 /\ seedStep = "issue2" /\ seedStep' = "issue3"
            \/ s = record3 /\ seedStep = "issue3" /\ seedStep' = "revoke"
    BY TransactionOrder DEF SeedIssues, Mined
<1> DEFINE id == attestationIdCounter + 1
<1>2. /\ id \in AttestationIds
      /\ attestationIdCounter' = id
      /\ attestations'[id].employee = s.employee
      /\ attestations'[id].documentHash = s.documentHash
      /\ attestations'[id].status = IssueStatus(s)
      /\ \A a \in AttestationIds \ {id} : attestations'[a] = attestations[a]
      /\ requestIdCounter' = requestIdCounter
      /\ accessRequests' = accessRequests
      /\ authorizedVerifiers' = authorizedVerifiers
      /\ employers' = employers
    BY <1>1, IssueEffect, SeedAssumption DEF SeedInv
<1>3. attestationIdCounter \in Nat /\ id # 0
    BY BoundAssumption DEF SeedInv, RegistryInv, TypeOK
<1>4. OpenedInv'
  <2>1. attestations'[1].employee = employee1
        /\ attestations'[1].documentHash = record1.documentHash
    <3>1. CASE id = 1
        BY <1>1, <1>2, <1>3, <3>1, SeedAssumption DEF SeedInv, OpenedInv
    <3>2. CASE id # 1
        BY <1>2, <1>3, <3>2, SeedIds DEF SeedInv, OpenedInv
    <3> QED
        BY <3>1, <3>2
  <2> QED
      BY <1>1, <1>2, <1>3, <2>1 DEF SeedInv, OpenedInv
<1>5. ASSUME FirstRun PROVE FirstRun'
  <2>1. id = IF s = record1 /\ seedStep = "issue1" THEN 1
             ELSE IF seedStep = "issue2" THEN 2 ELSE 3
      BY <1>1, <1>3, <1>5 DEF FirstRun, IssuedBefore
  <2>2. CASE seedStep = "issue1"
      BY <1>1, <1>2, <1>3, <1>5, <2>1, <2>2, StatusAtIssue, SeedAssumption
         DEF FirstRun, IssuedBefore, AskedBefore, isEmployerRegistered, SeedInv
  <2>3. CASE seedStep = "issue2"
      BY <1>1, <1>2, <1>3, <1>5, <2>1, <2>3, StatusAtIssue, SeedAssumption, SeedIds
         DEF FirstRun, IssuedBefore, AskedBefore, isEmployerRegistered, SeedInv
  <2>4. CASE seedStep = "issue3"
      BY <1>1, <1>2, <1>3, <1>5, <2>1, <2>4, SeedAssumption, SeedIds
         DEF FirstRun, IssuedBefore, AskedBefore, isEmployerRegistered
  <2> QED
      BY <1>1, <2>2, <2>3, <2>4
<1> QED
    BY <1>4, <1>5

LEMMA RevokeStep ==
    ASSUME SeedInv, SeedRevokes
    PROVE  OpenedInv' /\ (FirstRun => FirstRun')
<1>1. /\ seedStep = "revoke" /\ seedStep' = "request1"
      /\ attestations' = [attestations EXCEPT ![3].status = "REVOKED"]
      /\ UNCHANGED <<employers, attestationIdCounter, requestVars,
                     authorizedVerifiers>>
    BY TransactionOrder
       DEF SeedRevokes, RevokedId, Mined, revokeAttestation, requestVars
<1>2. attestations \in [AttestationIds -> Attestation]
    BY DEF SeedInv, RegistryInv, TypeOK
<1>3. /\ \A a \in AttestationIds \ {3} : attestations'[a] = attestations[a]
      /\ attestations'[3].status = "REVOKED"
      /\ attestations'[3].employee = attestations[3].employee
    BY <1>1, <1>2, SeedIds DEF Attestation
<1>4. OpenedInv'
    BY <1>1, <1>3, SeedIds DEF SeedInv, OpenedInv, requestVars
<1>5. FirstRun => FirstRun'
    BY <1>1, <1>3, SeedIds
       DEF FirstRun, IssuedBefore, AskedBefore, requestVars, isEmployerRegistered
<1> QED
    BY <1>4, <1>5

LEMMA AskStep ==
    ASSUME SeedInv, SeedAsks("request1", 1) \/ SeedAsks("request2", 2)
    PROVE  OpenedInv' /\ (FirstRun => FirstRun')
<1> DEFINE id == requestIdCounter + 1
<1>1. PICK a \in {1, 2} :
         /\ requestDocumentAccess(verifier1, a)
         /\ \/ a = 1 /\ seedStep = "request1" /\ seedStep' = "approve"
            \/ a = 2 /\ seedStep = "request2" /\ seedStep' = "done"
    BY TransactionOrder DEF SeedAsks, Mined
<1>2. /\ id \in RequestIds /\ requestIdCounter \in Nat
      /\ requestIdCounter' = id
      /\ accessRequests'[id].attestationId = a
      /\ accessRequests'[id].verifier = verifier1
      /\ accessRequests'[id].status = "PENDING"
      /\ \A r \in RequestIds \ {id} : accessRequests'[r] = accessRequests[r]
      /\ UNCHANGED <<employers, attestationVars, authorizedVerifiers>>
    BY <1>1, BoundAssumption
       DEF requestDocumentAccess, SeedInv, RegistryInv, TypeOK
<1>3. OpenedInv'
  <2>1. accessRequests'[1].attestationId = 1 /\ accessRequests'[1].verifier = verifier1
    <3>1. CASE id = 1
        BY <1>1, <1>2, <3>1 DEF SeedInv, OpenedInv
    <3>2. CASE id # 1
        BY <1>2, <3>2, SeedIds DEF SeedInv, OpenedInv
    <3> QED
        BY <3>1, <3>2
  <2> QED
      BY <1>1, <1>2, <2>1 DEF SeedInv, OpenedInv, attestationVars
<1>4. FirstRun => FirstRun'
  <2>1. FirstRun => id = IF seedStep = "request1" THEN 1 ELSE 2
      BY <1>1 DEF FirstRun, AskedBefore
  <2> QED
      BY <1>1, <1>2, <2>1
         DEF FirstRun, IssuedBefore, AskedBefore, attestationVars,
             isEmployerRegistered, Pending
<1> QED
    BY <1>3, <1>4

LEMMA ApproveStep ==
    ASSUME SeedInv, SeedApproves
    PROVE  OpenedInv' /\ (FirstRun => FirstRun')
<1>1. /\ seedStep = "approve" /\ seedStep' = "request2"
      /\ approveDocumentAccess(employee1, 1)
    BY TransactionOrder DEF SeedApproves, Mined
<1>2. requestIdCounter >= 1
    BY <1>1, SeedIds, BoundAssumption
       DEF approveDocumentAccess, CanAnswer, SeedInv, RegistryInv,
           IdsMatchCounters, TypeOK
<1>3. /\ accessRequests[1].attestationId = 1 /\ accessRequests[1].verifier = verifier1
      /\ accessRequests[1] \in AccessRequest
    BY <1>2, SeedIds DEF SeedInv, OpenedInv, RegistryInv, TypeOK
<1>4. /\ authorizedVerifiers' =
            [authorizedVerifiers EXCEPT ![1] = authorizedVerifiers[1] \cup {verifier1}]
      /\ accessRequests' = Answered(1, "APPROVED")
      /\ UNCHANGED <<employers, attestationVars, requestIdCounter>>
    BY <1>1, <1>3 DEF approveDocumentAccess
<1>5. /\ accessRequests'[1].attestationId = 1 /\ accessRequests'[1].verifier = verifier1
    BY <1>3, <1>4, SeedIds DEF Answered, AccessRequest, SeedInv, RegistryInv, TypeOK
<1>6. /\ verifier1 \in authorizedVerifiers'[1]
      /\ \A a \in AttestationIds :
            authorizedVerifiers'[a] \subseteq authorizedVerifiers[a] \cup
               IF a = 1 THEN {verifier1} ELSE {}
    BY <1>4, SeedIds DEF SeedInv, RegistryInv, TypeOK
<1>7. OpenedInv'
    BY <1>1, <1>2, <1>4, <1>5, <1>6 DEF SeedInv, OpenedInv, attestationVars
<1>8. FirstRun => FirstRun'
    BY <1>1, <1>4, <1>6
       DEF FirstRun, IssuedBefore, AskedBefore, attestationVars, isEmployerRegistered
<1> QED
    BY <1>7, <1>8

LEMMA SeedInitially == SeedInit => SeedInv
<1> SUFFICES ASSUME SeedInit PROVE SeedInv
    OBVIOUS
<1>1. Init /\ seedStep = "none" /\ seedRuns = 0
    BY DEF SeedInit, ServiceInit
<1> QED
    BY <1>1, InvInit DEF SeedInv, OpenedInv, Init

LEMMA SeedInvStep == SeedInv /\ [SeedNext]_seedAllVars => SeedInv'
<1> SUFFICES ASSUME SeedInv, [SeedNext]_seedAllVars PROVE SeedInv'
    OBVIOUS
<1>1. RegistryInv'
    BY SeedFollowsRegistry, InvStep DEF SeedInv
<1>2. CASE StartSeed
  <2>1. seedRuns \in Nat /\ seedRuns' = seedRuns + 1
      BY <1>2 DEF StartSeed, SeedInv
  <2> QED
      BY <1>1, <1>2, <2>1, StartStep DEF SeedInv
<1>3. ASSUME OpenedInv', FirstRun => FirstRun', seedStep \in Transactions,
             seedRuns' = seedRuns
      PROVE  SeedInv'
  <2>1. seedRuns # 0
      BY <1>3, TransactionOrder DEF SeedInv
  <2> QED
      BY <1>1, <1>3, <2>1 DEF SeedInv
<1>4. CASE \/ SeedRegisters("register1", employer1, name1)
           \/ SeedRegisters("register2", verifier1, name2)
    BY <1>3, <1>4, RegisterStep, TransactionOrder DEF SeedRegisters, Mined
<1>5. CASE \/ SeedIssues("issue1", record1)
           \/ SeedIssues("issue2", record2)
           \/ SeedIssues("issue3", record3)
    BY <1>3, <1>5, IssueStep, TransactionOrder DEF SeedIssues, Mined
<1>6. CASE SeedRevokes
    BY <1>3, <1>6, RevokeStep, TransactionOrder DEF SeedRevokes, Mined
<1>7. CASE SeedAsks("request1", 1) \/ SeedAsks("request2", 2)
    BY <1>3, <1>7, AskStep, TransactionOrder DEF SeedAsks, Mined
<1>8. CASE SeedApproves
    BY <1>3, <1>8, ApproveStep, TransactionOrder DEF SeedApproves, Mined
<1>9. CASE SeedReverts \/ SeedInterrupted
  <2>1. /\ seedStep' \in {"reverted", "interrupted"} /\ seedStep \in Transactions
        /\ UNCHANGED registryVars /\ seedRuns' = seedRuns
      BY <1>9, TransactionOrder
         DEF SeedReverts, SeedInterrupted, TurnedDown, EndSeed, allVars
  <2>2. OpenedInv'
      BY <2>1 DEF SeedInv, OpenedInv, registryVars, attestationVars, requestVars
  <2>3. seedRuns # 0
      BY <2>1, TransactionOrder DEF SeedInv
  <2> QED
      BY <1>1, <2>1, <2>2, <2>3, TransactionOrder DEF SeedInv
<1>10. CASE \/ NextBlock /\ UNCHANGED <<serviceVars, seedVars>>
            \/ ServiceNext /\ UNCHANGED <<registryVars, seedVars>>
            \/ UNCHANGED seedAllVars
  <2>1. /\ UNCHANGED <<employers, attestationVars, requestVars,
                       authorizedVerifiers>>
        /\ seedRuns' = seedRuns /\ seedStep' = seedStep
      BY <1>10 DEF NextBlock, registryVars, seedVars, seedAllVars, allVars
  <2>2. OpenedInv' /\ (FirstRun => FirstRun')
      BY <2>1
         DEF SeedInv, OpenedInv, FirstRun, attestationVars, requestVars,
             isEmployerRegistered, Pending
  <2> QED
      BY <1>1, <2>1, <2>2 DEF SeedInv, attestationVars, requestVars
<1> QED
    BY <1>2, <1>4, <1>5, <1>6, <1>7, <1>8, <1>9, <1>10 DEF SeedNext, SeedStep

LEMMA SeedInvariant == SeedSpec => []SeedInv
BY SeedInitially, SeedInvStep, PTL DEF SeedSpec

-----------------------------------------------------------------------------
(* The theorems.                                                            *)

\* A first run that ends leaves what the demo guide promises.
THEOREM FirstRunSeeds == SeedSpec => []SeededAsPromised
<1>1. ASSUME SeedInv, seedStep = "done", seedRuns = 1
      PROVE  /\ isEmployerRegistered(employer1) /\ isEmployerRegistered(verifier1)
             /\ [a \in 1..3 |-> attestations[a].employee]
                   = <<employee1, employee1, employee2>>
             /\ [a \in 1..3 |-> attestations[a].status]
                   = <<"ACTIVE", "COMPLETED", "REVOKED">>
             /\ hasDocumentAccess(1, verifier1)
             /\ accessRequests[2].attestationId = 2 /\ Pending(2)
  <2>1. FirstRun /\ attestationIdCounter = 3
      BY <1>1 DEF SeedInv, FirstRun, IssuedBefore
  <2>2. /\ attestations[1].employee = employee1 /\ attestations[1].status = "ACTIVE"
        /\ attestations[2].employee = employee1 /\ attestations[2].status = "COMPLETED"
        /\ attestations[3].employee = employee2 /\ attestations[3].status = "REVOKED"
      BY <1>1, <2>1 DEF FirstRun
  <2>3. hasDocumentAccess(1, verifier1)
      BY <1>1, <2>1, <2>2, SeedIds
         DEF hasDocumentAccess, FirstRun, Revoked, SeedInv, RegistryInv,
             IdsMatchCounters
  <2>4. 1..3 = {1, 2, 3}
      OBVIOUS
  <2> QED
      BY <1>1, <2>1, <2>2, <2>3, <2>4 DEF FirstRun
<1>2. SeedInv => SeededAsPromised
    BY <1>1 DEF SeededAsPromised
<1> QED
    BY SeedInvariant, <1>2, PTL

\* However often the script is cut short and run again, only its verifier gets a
\* document, the first, of the record the script means by that number.
THEOREM OthersStayOut == SeedSpec => []OnlyFirstIsOpened
<1>1. ASSUME SeedInv, NEW a \in AttestationIds, NEW v \in Wallets,
             hasDocumentAccess(a, v)
      PROVE  /\ a = 1 /\ v = verifier1
             /\ attestations[a].employee = employee1
             /\ attestations[a].documentHash = record1.documentHash
  <2>1. v \in authorizedVerifiers[a] /\ a <= attestationIdCounter
      BY <1>1 DEF hasDocumentAccess, SeedInv, RegistryInv, IdsMatchCounters
  <2> QED
      BY <1>1, <2>1 DEF SeedInv, OpenedInv
<1>2. SeedInv => OnlyFirstIsOpened
    BY <1>1 DEF OnlyFirstIsOpened
<1> QED
    BY SeedInvariant, <1>2, PTL

=============================================================================
