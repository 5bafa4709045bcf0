----------------------------- MODULE MCSeedScript -----------------------------
(* Small instances of SeedScript for TLC. *)
EXTENDS SeedScript

CONSTANTS p1, p2, p3,  \* the positions, and the hashes of records and documents
          cid1, cid2, cid3,  \* the CIDs written in the script
          cid4,              \* the CID of a blob the service makes
          k1

MCData == {name1, name2, p1, p2, p3, cid1, cid2, cid3, cid4}
MCDocuments == {p1}
MCCids == {cid4}
MCKeys == {k1}
Development ==
    {[production |-> FALSE, pinata |-> FALSE, masterKey |-> k1]}

Record(employee, hash, cid, end) ==
    [employee |-> employee, employeeHash |-> hash, position |-> hash,
     startDate |-> 1, endDate |-> end, recordHash |-> hash,
     documentHash |-> hash, ipfsCID |-> cid]

\* The two dates that are over are over when the chain starts.
MCRecord1 == Record(employee1, p1, cid1, 0)
MCRecord2 == Record(employee1, p2, cid2, 1)
MCRecord3 == Record(employee2, p3, cid3, 1)

MCNames == {name1, name2}
MCSubmissions == {MCRecord1, MCRecord2, MCRecord3}
=============================================================================
