---------------------------- MODULE MCEmployerApp ----------------------------
\* Two accounts, the first an employer that has issued one attestation; it may
\* issue one with or without a document, or one the contract turns down.
EXTENDS EmployerApp, TLC

CONSTANTS boss, other, hash, blob1, blob2

Form(employee, document) ==
    [employee |-> employee, employeeHash |-> hash, position |-> hash,
     startDate |-> 1, endDate |-> 0, recordHash |-> hash,
     documentHash |-> document, ipfsCID |-> document]

MCBlobs == {blob1, blob2}
MCData == {hash} \cup MCBlobs
MCNames == {hash}
MCHistories == {<<boss>>}
MCForms == {Form(other, hash), Form(other, Empty), Form(Empty, hash)}

MCSubmissions == {Form(other, Empty)}
                 \cup {Form(employee, b) : employee \in {other, Empty}, b \in MCBlobs}

\* The blobs are alike.
MCSymmetry == Permutations(MCBlobs)

=============================================================================
