SPECIFICATION RunSpec
CONSTANTS
  MaxU64 = 255
  MaxI64 = 127
  PpmUnit = 100
  Numbers = {0, 1}
  MaxBookLines = 1
  MaxTradeLines = 1
  MaxLines = 2
  MaxText = 2
  MaxArguments = 1
  Cases <- OneRowCase
  ReadsFail = TRUE
  NoFile = NoFile
  None = None
  Empty = Empty
  Garbage = Garbage
  NaN = NaN
INVARIANT InputsIdentified
CHECK_DEADLOCK FALSE
