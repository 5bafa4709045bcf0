----------------------------- MODULE MCRegistry -----------------------------
(* Small instances of EmploymentRegistry for TLC. *)
EXTENDS EmploymentRegistry, TLC

CONSTANTS h1, h2, cid

MCData == {h1, h2, cid}
MCNames == {Empty, h1}

\* One employee identifier per wallet would hide a hash shared by two wallets,
\* so both hashes are used with every employee.
Terms == {<<1, 0>>, <<1, 2>>, <<2, 1>>}

Submit(employee, hash, term, document) ==
    [employee |-> employee, employeeHash |-> hash, position |-> h1,
     startDate |-> term[1], endDate |-> term[2], recordHash |-> h1,
     documentHash |-> document, ipfsCID |-> IF document = Empty THEN Empty ELSE cid]

\* Every kind of call: valid ones with and without a document, for an ongoing
\* and for a bounded term, and the ones a require() turns down.
RecordSubmissions ==
    {Submit(w, h, t, Empty) : w \in Wallets, h \in {h1, h2}, t \in Terms}
      \cup {Submit(w, h1, <<1, 0>>, h2) : w \in Wallets \cup {Empty}}
      \cup {Submit(w, Empty, <<1, 0>>, h2) : w \in Wallets}

\* One kind of attestation, with and without a document, for every employee.
ConsentSubmissions ==
    {Submit(w, h1, <<1, 0>>, d) : w \in Wallets, d \in {h2, Empty}}

Symmetry == Permutations(Wallets)
=============================================================================
