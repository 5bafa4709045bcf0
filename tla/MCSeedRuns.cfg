\* Three runs of the script, each of which may be cut short.
SPECIFICATION SeedSpec
CONSTANTS
    employer1 = employer1
    employee1 = employee1
    verifier1 = verifier1
    employee2 = employee2
    Wallets = {employer1, employee1, verifier1, employee2}
    Empty = Empty
    name1 = name1
    name2 = name2
    p1 = p1
    p2 = p2
    p3 = p3
    cid1 = cid1
    cid2 = cid2
    cid3 = cid3
    cid4 = cid4
    k1 = k1
    Data <- MCData
    EmployerNames <- MCNames
    Submissions <- MCSubmissions
    record1 <- MCRecord1
    record2 <- MCRecord2
    record3 <- MCRecord3
    MaxAttestations = 9
    MaxRequests = 6
    MaxTime = 2
    MaxRuns = 3
    Calls = {}
    Uploads = {u1}
    Cids <- MCCids
    Documents <- MCDocuments
    Keys <- MCKeys
    Configurations <- Development
INVARIANTS
    SeededAsPromised
    OnlyFirstIsOpened
CHECK_DEADLOCK FALSE
