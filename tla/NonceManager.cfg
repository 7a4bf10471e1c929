SPECIFICATION Spec
CONSTANTS
  Procs = {p1, p2}
  Addrs = {a1}
  Hashes = {h1}
  NoHash = NoHash
  NoProc = NoProc
  NoEntry = NoEntry
  EOL = EOL
  MaxNonce = 1
  HistoryCap = 1
  MaxTokens = 3
  MaxFaults = 1
INVARIANTS
  TypeInv
  MemoryIsLogged
  MinedAfterSubmitted
  WholeLines
  NoLeakedLock
