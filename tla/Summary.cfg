SPECIFICATION Spec
CONSTANTS
  Modulus = 1024
  Skip = Skip
  Malformed = Malformed
  Error = Error
  None = None
  Texts <- MCTexts
  MaxDecimals = 4
  EthDecimals = 3
  EthDigits = 2
  GweiDecimals = 2
  GweiDigits = 1
  GasLimit = 7
  MaxFee = 21
INVARIANTS
  TypeInv
  ParsedIsTyped
  ShownIsRounded
  ApprovedIsCovered
CHECK_DEADLOCK FALSE
