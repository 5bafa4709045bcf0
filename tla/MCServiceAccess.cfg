\* Decryption calls while consent is given, taken back and revoked.
SPECIFICATION ServiceSpec
CONSTANTS
    Wallets = {w1, w2, w3}
    w1 = w1
    Empty = Empty
    h1 = h1
    h2 = h2
    cid1 = cid1
    cid2 = cid2
    k1 = k1
    k2 = k2
    Data <- MCData
    EmployerNames <- MCNames
    Submissions <- OneDocument
    MaxAttestations = 1
    MaxRequests = 2
    MaxTime = 2
    Calls = {c1}
    Uploads = {u1}
    Cids <- OneCid
    Documents <- OneHash
    Keys <- MCKeys
    Configurations <- Production
SYMMETRY Symmetry
INVARIANTS
    ServedToEntitled
    NoServiceAfterRevocation
    OwnerRefusedOnlyByRevocation
VIEW View
CHECK_DEADLOCK FALSE
