SPECIFICATION Spec
CONSTANTS
  Sessions = {s1}
  Dests = {d1}
  Self = Self
  NoTx = NoTx
  NoSession = NoSession
  NoSummary = NoSummary
  MaxNonce = 1
  MaxFee = 2
  MaxCommands = 2
  MaxDrops = 0
INVARIANT NotBothMined
