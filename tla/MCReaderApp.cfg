\* Any four acts of the user and of others, on any of the three pages.
SPECIFICATION MCReaderSpec
CONSTANTS
  ann = ann
  bob = bob
  d1 = d1
  d2 = d2
  Accounts = {ann, bob}
  NoAccount = NoAccount
  Nobody = NoAccount
  NoCredential = none
  Wallets = {ann, bob}
  Credentials = {d1, d2}
  Documented = {d1, d2}
  Asks = {1, 2}
  Chains = {registry, other}
  RegistryChain = registry
  MaxSends = 2
  Checks = {1, 2, 3}
  Loads = {1, 2}
  Handlers = {1, 2}
  HashOf <- MCHashOf
  MaxActs = 4
SYMMETRY MCSymmetry
INVARIANTS
  AuthorizationIsAnswered
  NothingCarriesOver
  ListingIsRight
  HashResultsAreWhole
  AnswersStand
  TwiceOnlyUnmarked
CHECK_DEADLOCK FALSE
