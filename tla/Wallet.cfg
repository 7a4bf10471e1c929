SPECIFICATION FairSpec
CONSTANTS
  Sessions = {s1, s2}
  Dests = {d1}
  Self = Self
  NoTx = NoTx
  NoSession = NoSession
  NoSummary = NoSummary
  NoEntry = NoEntry
  EOL = EOL
  MaxNonce = 1
  MaxFee = 2
  MaxCommands = 2
  MaxDrops = 1
  HistoryCap = 1
  MaxFaults = 1
INVARIANTS
  LogTellsTruth
  NothingForgotten
PROPERTIES
  ImplementsSend
  ImplementsPool
  Settles
CHECK_DEADLOCK FALSE
