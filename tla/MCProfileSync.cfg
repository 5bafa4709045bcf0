\* Whose profile the page holds once every read is answered.
SPECIFICATION EmployerSpec
CONSTANTS
  boss = boss
  other = other
  hash = hash
  blob1 = blob1
  blob2 = blob2
  Accounts = {boss, other}
  NoAccount = NoAccount
  Wallets = {boss, other}
  Empty = Empty
  Data <- MCData
  EmployerNames <- MCNames
  Submissions <- MCSubmissions
  Forms <- MCForms
  MaxAttestations = 3
  MaxRequests = 0
  MaxTime = 1
  Chains = {registry, elsewhere}
  RegistryChain = registry
  MaxSends = 2
  Refreshes = {1, 2}
  Loads = {1, 2}
  Histories <- MCHistories
  Pipelines = {1, 2}
  Blobs <- MCBlobs
  MaxActs = 4
SYMMETRY MCSymmetry
INVARIANTS
    ProfileIsSynced
CHECK_DEADLOCK FALSE
