SPECIFICATION FairSpec
CONSTANTS
  Second = 4
  MaxJitter = 1
  Rates = {0, 1, 2, 4}
  Timeouts = {0, 4, 6}
  MaxRpc = 1
  MaxCalls = 3
  MaxIdle = 2
  Never = Never
INVARIANTS
  TypeInv
  RequestRate
  Verdict
  InTime
PROPERTIES
  Ends
CHECK_DEADLOCK FALSE
