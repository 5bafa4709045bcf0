\* Any four presses of the user, on the pages and in the wallet.
SPECIFICATION EmployerSpec
CONSTANTS
  boss = boss
  other = other
  hash = hash
  blob1 = blob1
  blob2 = blob2
  Accounts = {boss, other}
  NoAccount = NoAccount
  Wallets = {boss, other}
  Empty = Empty
  Data <- MCData
  EmployerNames <- MCNames
  Submissions <- MCSubmissions
  Forms <- MCForms
  MaxAttestations = 3
  MaxRequests = 0
  MaxTime = 1
  Chains = {registry, elsewhere}
  RegistryChain = registry
  MaxSends = 2
  Refreshes = {1, 2}
  Loads = {1, 2}
  Histories <- MCHistories
  Pipelines = {1, 2}
  Blobs <- MCBlobs
  MaxActs = 4
SYMMETRY MCSymmetry
INVARIANTS ProfileIsRight ListIsRight RegistrationIsShown AnnouncedIsIssued DocumentsAreOwn
CHECK_DEADLOCK FALSE
