CONSTANTS
  Optional = {payout, boleto}
  Charges = {k1, k2}
  PageSize = 2
  MaxListed = 3
SPECIFICATION LoopsSpec
INVARIANT RecordsNameTheirCharges
CHECK_DEADLOCK FALSE
