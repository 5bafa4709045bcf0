\* Two calls beside two transactions of others.
SPECIFICATION ApiSpec
CONSTANTS
    boss = boss
    worker = worker
    hash = hash
    Wallets = {boss, worker}
    Empty = Empty
    Data <- MCData
    EmployerNames <- MCNames
    Submissions <- MCForms
    Histories <- MCHistories
    MaxAttestations = 3
    MaxRequests = 2
    MaxTime = 1
    Calls = {call1, call2}
    MaxOthers = 2
SYMMETRY MCSymmetry
VIEW MCView
INVARIANTS
    ApiTypeOK
    AnsweredWritesHappened
    RefusedWritesDidNothing
    ReadsSeeAnswers
    AccessViewHolds
CHECK_DEADLOCK FALSE
