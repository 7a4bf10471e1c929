SPECIFICATION Spec
CONSTANTS
  Urls = {u1, u2}
  Dirs = {d1, Root}
  Root = Root
  Chains = {Sepolia, other}
  Sepolia = Sepolia
  Unset = Unset
  NoConfig = NoConfig
  Settings <- MCSettings
INVARIANTS
  TypeInv
  LayersKept
  SignsOnlyExpected
  HistoryFiltered
  ExitTold
PROPERTIES
  HistoryOff
CHECK_DEADLOCK FALSE
