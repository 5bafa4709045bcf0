\* Several attestations of two employers: the records, their indexes and times.
SPECIFICATION Spec
CONSTANTS
    Wallets = {w1, w2}
    Empty = Empty
    h1 = h1
    h2 = h2
    cid = cid
    Data <- MCData
    EmployerNames <- MCNames
    Submissions <- RecordSubmissions
    MaxAttestations = 2
    MaxRequests = 2
    MaxTime = 3
SYMMETRY Symmetry
INVARIANTS
    RegistryInv
    IndexesMatchRecords
    Chronology
CHECK_DEADLOCK FALSE
