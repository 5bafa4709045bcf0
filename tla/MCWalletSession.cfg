\* The session through any three changes of the wallet.
SPECIFICATION FairSessionSpec
CONSTANTS
  Accounts = {a1, a2}
  NoAccount = NoAccount
  Chains = {home, away}
  RegistryChain = home
  NoChain = NoChain
  Flows = {restore, press, again}
  Restoring = restore
  MaxSwitches = 3
INVARIANTS
  SignerFollowsWallet
  LockedHasNoSigner
  SpinnerEnds
PROPERTIES
  OnlyFlowsFallBehind
  SignerCatchesUp
  ImplementsPage
CHECK_DEADLOCK FALSE
