\* An employee who wants to end an access already granted.
SPECIFICATION Spec
CONSTANTS
    Wallets = {w1, w2, w3}
    Empty = Empty
    h1 = h1
    h2 = h2
    cid = cid
    Data <- MCData
    EmployerNames <- MCNames
    Submissions <- ConsentSubmissions
    MaxAttestations = 1
    MaxRequests = 2
    MaxTime = 1
INVARIANTS
    AccessIsWithdrawable
CHECK_DEADLOCK FALSE
