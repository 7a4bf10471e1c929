SPECIFICATION Spec
CONSTANTS
  Gwei = 1
  Limit = 50
  MaxBase = 3
  MaxPrio = 2
  MaxBumps = 2
  NoEstimate = NoEstimate
INVARIANTS
  TypeInv
  NeverRefused
PROPERTIES
  BumpCompetes
