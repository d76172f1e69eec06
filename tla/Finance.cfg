SPECIFICATION FairSpec
CONSTANTS
  daemon = daemon
  r1 = r1
  coinbase = coinbase
  snaptrade = snaptrade
  simplefin = simplefin
  import = import
  cb = cb
  st = st
  sf = sf
  im = im
  Daemon = daemon
  Runs = {daemon, r1}
  Providers = {snaptrade, simplefin}
  Keyed <- MCKeyed
  HoldingsFail <- MCHoldingsFail
  Secrets <- MCSecrets
  MaxClock = 2
  Posting = {st}
  MaxPosts = 1
  AccountsOf <- MCAccountsOf
  SinceHonoured <- MCSinceHonoured
  InScope <- MCInScope
  Imports <- MCImports
INVARIANTS
  FailuresMissNothing
  StaleMarkHonest
  AccessUrlKept
PROPERTY
  DaemonKeepsTicking
CHECK_DEADLOCK FALSE
