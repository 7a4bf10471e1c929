SPECIFICATION StoreSpec
CONSTANTS
  Procs = {p1}
  Aliases = {a1, a2, a3}
  Keys = {k1, k2}
  Inodes = {i1, i2, i3, i4}
  NoFile = NoFile
  Torn = Torn
  MaxFaults = 2
PROPERTIES
  KeepsWallets
