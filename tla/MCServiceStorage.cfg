\* Documents through uploads, restarts and changes of environment.
SPECIFICATION ServiceSpec
CONSTANTS
    Wallets = {w1}
    w1 = w1
    Empty = Empty
    h1 = h1
    h2 = h2
    cid1 = cid1
    cid2 = cid2
    k1 = k1
    k2 = k2
    Data <- MCData
    EmployerNames <- MCNames
    Submissions <- AnyDocument
    MaxAttestations = 1
    MaxRequests = 0
    MaxTime = 1
    Calls = {c1}
    Uploads = {u1, u2}
    Cids <- MCCids
    Documents <- MCDocuments
    Keys <- MCKeys
    Configurations <- StorageEnvironments
INVARIANTS
    ServiceTypeOK
    ServedIsOriginal
    UploadsSurvive
    UploadedOpens
PROPERTIES
    CallsAnswered
CHECK_DEADLOCK FALSE
