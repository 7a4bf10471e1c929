SPECIFICATION StoreSpec
CONSTANTS
  Procs = {p1, p2}
  Aliases = {a1, a2}
  Keys = {k1, k2}
  Inodes = {i1, i2, i3, i4}
  NoFile = NoFile
  Torn = Torn
  MaxFaults = 0
PROPERTY CreateKeepsWallets
