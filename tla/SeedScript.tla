------------------------------ MODULE SeedScript ------------------------------
(***************************************************************************)
(* The script blockchain/scripts/seed.ts, which puts the demo's records on *)
(* the registry, beside the document service of DocumentService.           *)
(*                                                                         *)
(* The script sends nine transactions one after the other and waits for    *)
(* each.  It attaches to the contract it finds at the configured address,  *)
(* so that a run may start where an earlier one has finished or has been   *)
(* cut short; the ids it revokes, asks for and approves are written in it. *)
(***************************************************************************)
EXTENDS DocumentService

CONSTANTS
    employer1, employee1, verifier1, employee2,  \* the four signers
    name1, name2,                                \* the employers' names
    record1, record2, record3,                   \* the three submissions
    MaxRuns                                      \* bound on the script's runs

ASSUME SeedAssumption ==
    /\ {employer1, employee1, verifier1, employee2} \subseteq Wallets
    /\ record1.employee = employee1
    /\ record2.employee = employee1
    /\ record3.employee = employee2
    /\ {record1, record2, record3} \subseteq Submissions
    /\ {name1, name2} \subseteq EmployerNames
    /\ record1.endDate = 0
    /\ record2.endDate = 1  \* over when the chain starts
    /\ MaxAttestations >= 3
    /\ MaxRequests >= 2

VARIABLES
    seedStep,    \* the transaction the running script is at, or how it ended
    seedRuns,    \* how many runs were started
    seedIssued   \* the ids the latest run's attestations were given, in order

seedVars == <<seedStep, seedRuns, seedIssued>>
seedAllVars == <<allVars, seedVars>>

-----------------------------------------------------------------------------
(* The script.                                                              *)

\* Faulty variant: the two requests in the wrong order.
After_RequestsSwapped ==
    [register1 |-> "register2", register2 |-> "issue1", issue1 |-> "issue2",
     issue2 |-> "issue3", issue3 |-> "revoke", revoke |-> "request2",
     request2 |-> "approve", approve |-> "request1", request1 |-> "done"]

\* Faulty variant: the last two attestations in the wrong order.
After_IssuesSwapped ==
    [register1 |-> "register2", register2 |-> "issue1", issue1 |-> "issue3",
     issue3 |-> "issue2", issue2 |-> "revoke", revoke |-> "request1",
     request1 |-> "approve", approve |-> "request2", request2 |-> "done"]

\* The transactions in their order.
After ==
    [register1 |-> "register2", register2 |-> "issue1", issue1 |-> "issue2",
     issue2 |-> "issue3", issue3 |-> "revoke", revoke |-> "request1",
     request1 |-> "approve", approve |-> "request2", request2 |-> "done"]

Transactions == DOMAIN After

SeedInit ==
    /\ ServiceInit
    /\ seedStep = "none"
    /\ seedRuns = 0
    /\ seedIssued = <<>>

\* The script attaches to the contract, whatever is on it.
StartSeed ==
    /\ seedStep \notin Transactions
    /\ seedRuns < MaxRuns
    /\ attestationIdCounter + 3 <= MaxAttestations
    /\ requestIdCounter + 2 <= MaxRequests
    /\ seedStep' = "register1"
    /\ seedRuns' = seedRuns + 1
    /\ seedIssued' = <<>>
    /\ UNCHANGED allVars

\* The transaction at seedStep has been waited for.
Mined ==
    /\ seedStep' = After[seedStep]
    /\ UNCHANGED <<serviceVars, seedRuns>>

\* An employer who is registered already is not registered again.
SeedRegisters(step, signer, name) ==
    /\ seedStep = step
    /\ \/ registerEmployer(signer, name)
       \/ isEmployerRegistered(signer) /\ UNCHANGED registryVars
    /\ Mined
    /\ UNCHANGED seedIssued

SeedIssues(step, record) ==
    /\ seedStep = step
    /\ createAttestation(employer1, record)
    /\ Mined
    /\ seedIssued' = Append(seedIssued, attestationIdCounter')

\* The attestation revoked is named by its number.
RevokedId == 3

SeedRevokes ==
    /\ seedStep = "revoke"
    /\ revokeAttestation(employer1, RevokedId)
    /\ Mined
    /\ UNCHANGED seedIssued

SeedAsks(step, a) ==
    /\ seedStep = step
    /\ requestDocumentAccess(verifier1, a)
    /\ Mined
    /\ UNCHANGED seedIssued

SeedApproves ==
    /\ seedStep = "approve"
    /\ approveDocumentAccess(employee1, 1)
    /\ Mined
    /\ UNCHANGED seedIssued

\* A require() the contract turns the transaction at seedStep down by.
TurnedDown ==
    \/ seedStep = "revoke" /\ ~CanRevoke(employer1, RevokedId)
    \/ seedStep = "request1" /\ ~CanRequest(verifier1, 1)
    \/ seedStep = "approve" /\ ~CanAnswer(employee1, 1)
    \/ seedStep = "request2" /\ ~CanRequest(verifier1, 2)

EndSeed(how) ==
    /\ seedStep' = how
    /\ UNCHANGED <<allVars, seedRuns, seedIssued>>

\* The transaction reverts, which throws: "Seeding failed with error".
SeedReverts == TurnedDown /\ EndSeed("reverted")

\* The node is not there, or the script is stopped: the transactions mined so
\* far stay.
SeedInterrupted == seedStep \in Transactions /\ EndSeed("interrupted")

SeedStep ==
    \/ StartSeed
    \/ SeedRegisters("register1", employer1, name1)
    \/ SeedRegisters("register2", verifier1, name2)
    \/ SeedIssues("issue1", record1)
    \/ SeedIssues("issue2", record2)
    \/ SeedIssues("issue3", record3)
    \/ SeedRevokes
    \/ SeedAsks("request1", 1)
    \/ SeedApproves
    \/ SeedAsks("request2", 2)
    \/ SeedReverts
    \/ SeedInterrupted

\* The script and the backend, and blocks that close; no other wallet.
SeedNext ==
    \/ SeedStep
    \/ NextBlock /\ UNCHANGED <<serviceVars, seedVars>>
    \/ ServiceNext /\ UNCHANGED <<registryVars, seedVars>>

SeedSpec == SeedInit /\ [][SeedNext]_seedAllVars

-----------------------------------------------------------------------------
(* Properties.                                                              *)

\* A first run that ends leaves what the demo guide promises, although the ids
\* of the later transactions are not read from the earlier ones: two
\* attestations of the first employee, active and completed, a revoked one of the
\* second, a verifier who may read the first document, and an open request for
\* the second.
SeededAsPromised ==
    seedStep = "done" /\ seedRuns = 1 =>
        /\ isEmployerRegistered(employer1) /\ isEmployerRegistered(verifier1)
        /\ [a \in 1..3 |-> attestations[a].employee]
              = <<employee1, employee1, employee2>>
        /\ [a \in 1..3 |-> attestations[a].status]
              = <<"ACTIVE", "COMPLETED", "REVOKED">>
        /\ hasDocumentAccess(1, verifier1)
        /\ accessRequests[2].attestationId = 2 /\ Pending(2)

\* However often the script is cut short and run again, the verifier it lets in
\* gets no document but the first, and the record that is under that number is the
\* one the script means.
OnlyFirstIsOpened ==
    \A a \in AttestationIds, v \in Wallets : hasDocumentAccess(a, v) =>
        /\ a = 1 /\ v = verifier1
        /\ attestations[a].employee = employee1
        /\ attestations[a].documentHash = record1.documentHash

-----------------------------------------------------------------------------
(* What the repository's text says and the code does not do.               *)

\* The script's message: "Attestation #3 Created & Revoked: Security Systems
\* Contractor (REVOKED) -> Employee:" the second employee's address.  After a run
\* that was cut short, number 3 is another attestation.
RevokesWhatItIssued ==
    seedStep = "done" => Revoked(seedIssued[3])

=============================================================================
