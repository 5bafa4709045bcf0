\* One or two attestations, several requests: the order of answers.
SPECIFICATION Spec
CONSTANTS
    Wallets = {w1, w2, w3}
    Empty = Empty
    h1 = h1
    h2 = h2
    cid = cid
    Data <- MCData
    EmployerNames <- MCNames
    Submissions <- ConsentSubmissions
    MaxAttestations = 1
    MaxRequests = 3
    MaxTime = 3
SYMMETRY Symmetry
INVARIANTS
    RequestsMatchAttestations
    LatestAnswerDecides
PROPERTIES
    AccessChangesByOwner
    RevocationIsFinal
    ImplementsConsent
CHECK_DEADLOCK FALSE
