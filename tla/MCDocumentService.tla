-------------------------- MODULE MCDocumentService --------------------------
(* Small instances of DocumentService for TLC. *)
EXTENDS DocumentService, TLC

CONSTANTS h1, h2, cid1, cid2, k1, k2, w1

MCData == {h1, h2, cid1, cid2}
MCNames == {h1}
OneCid == {cid1}
MCCids == {cid1, cid2}
OneHash == {h1}
MCDocuments == {h1, h2}
MCKeys == {k1, k2}

Submit(document, cid) ==
    [employee |-> w1, employeeHash |-> h1, position |-> h1,
     startDate |-> 1, endDate |-> 0, recordHash |-> h1,
     documentHash |-> document, ipfsCID |-> cid]

\* One employee; the hash and the CID of one answer, or of two.
OneDocument == {Submit(h1, cid1)}
AnyDocument ==
    {Submit(h1, cid1), Submit(h2, cid1), Submit(h1, Empty)}

Environment(production, token, key) ==
    [production |-> production, pinata |-> token, masterKey |-> key]

\* Production as it is meant to be.
Production == {Environment(TRUE, TRUE, k1)}

\* Production, development, and production after the key was changed.
StorageEnvironments ==
    {Environment(TRUE, TRUE, k1), Environment(FALSE, TRUE, k1),
     Environment(TRUE, TRUE, k2)}

Symmetry == Permutations(Wallets \ {w1})

\* Nothing the service does or promises depends on the last event.
View == <<employers, attestationVars, requestVars, authorizedVerifiers,
          blockTimestamp, serviceVars>>
=============================================================================
