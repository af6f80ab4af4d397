CONSTANTS
  Optional = {payout, boleto}
  Charges = {k1}
  PageSize = 1
  MaxListed = 1
SPECIFICATION LoopsSpec
INVARIANT OnlyRefusalsStepDown
CHECK_DEADLOCK FALSE
