--------------------------- MODULE RegistryHistory ---------------------------
(***************************************************************************)
(* The registry as a client may find it: employers have registered and     *)
(* have issued attestations, all alike but for the issuer.                 *)
(***************************************************************************)
EXTENDS EmploymentRegistry

CONSTANT Histories  \* who issued the attestations there are, in their order

\* SeqOf and IsPrefix.
SE == INSTANCE SequencesExt

ASSUME HistoryAssumption == Histories \subseteq SE!SeqOf(Wallets, MaxAttestations)

\* The registry after the employers of `issuers` have registered, and have each
\* issued an attestation like s, in that order and in one block.
RegistryHolds(issuers, s) ==
    LET Issued == DOMAIN issuers
        All == [n \in 1..Len(issuers) |-> n]
    IN
    /\ blockTimestamp = 1
    /\ employers = [w \in Wallets |->
          IF \E a \in Issued : issuers[a] = w
          THEN [employerName |-> s.position, isRegistered |-> TRUE,
                registrationTimestamp |-> 1]
          ELSE NoProfile]
    /\ attestations = [a \in AttestationIds |->
          IF a \in Issued THEN Recorded(issuers[a], s) ELSE NoAttestation]
    /\ attestationIdCounter = Len(issuers)
    /\ employeeHashAttestations = [h \in Data |->
          IF h = s.employeeHash THEN All ELSE <<>>]
    /\ employeeWalletAttestations = [w \in Wallets |->
          IF w = s.employee THEN All ELSE <<>>]
    /\ employerAttestations \in [Wallets -> SE!SeqOf(AttestationIds, Len(issuers))]
    /\ \A w \in Wallets :
          Lists(employerAttestations[w], {a \in Issued : issuers[a] = w})
    /\ accessRequests = [r \in RequestIds |-> NoRequest]
    /\ requestIdCounter = 0
    /\ attestationRequests = [a \in AttestationIds |-> <<>>]
    /\ authorizedVerifiers = [a \in AttestationIds |-> {}]
    /\ event = NoEvent

=============================================================================
