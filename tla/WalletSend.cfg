SPECIFICATION Spec
CONSTANTS
  Sessions = {s1, s2}
  Dests = {d1}
  Self = Self
  NoTx = NoTx
  NoSession = NoSession
  NoSummary = NoSummary
  MaxNonce = 2
  MaxFee = 2
  MaxCommands = 3
  MaxDrops = 1
INVARIANTS
  TypeInv
  OwnSlotFree
  DriftFromOthers
  RecordedWasTaken
  OneTxPerCommand
PROPERTIES
  ShownIsSent
