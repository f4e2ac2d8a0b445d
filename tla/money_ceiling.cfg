SPECIFICATION MoneySpec
CONSTANTS
  Currencies = {usd, jpy}
  Half = 16
  Ceiling = 10
  MaxWeight = 3
  MaxShares = 3
  Error = Error
INVARIANT WithinCeiling
CHECK_DEADLOCK FALSE
