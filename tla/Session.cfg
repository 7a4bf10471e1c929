SPECIFICATION Spec
CONSTANTS
  Procs = {p1, p2}
  Users = {p1}
  Aliases = {a1, a2}
  Keys = {k1, k2}
  Inodes = {i1, i2, i3}
  NoFile = NoFile
  Torn = Torn
  NoAlias = NoAlias
  NoSigner = NoSigner
  MaxFaults = 1
INVARIANTS
  SessionTypeInv
  SignsAsActive
  OneNamePerFile
  TornHasWriter
