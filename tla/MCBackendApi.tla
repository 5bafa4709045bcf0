---------------------------- MODULE MCBackendApi ----------------------------
\* An employer that has issued one attestation, and its employee; submissions
\* the contract takes, the schemas let pass alone, and the schemas refuse.
EXTENDS BackendApi, TLC

CONSTANTS boss, worker, hash

MCData == {hash}
MCNames == {hash}
MCHistories == {<<boss>>}

Form(employee, start) ==
    [employee |-> employee, employeeHash |-> hash, position |-> hash,
     startDate |-> start, endDate |-> 0, recordHash |-> hash,
     documentHash |-> hash, ipfsCID |-> hash]

MCForms == {Form(worker, 1), Form(Empty, 1), Form(worker, 0)}

\* No answer and no property depends on the last event but the one being mined.
MCView == <<employers, attestationVars, requestVars, authorizedVerifiers,
            blockTimestamp, apiVars>>

\* The calls are alike.
MCSymmetry == Permutations(Calls)

=============================================================================
