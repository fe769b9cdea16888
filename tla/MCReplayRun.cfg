SPECIFICATION RunSpec
CONSTANTS
  MaxU64 = 255
  MaxI64 = 127
  PpmUnit = 100
  Numbers = {0, 1}
  MaxBookLines = 3
  MaxTradeLines = 2
  MaxLines = 4
  MaxText = 4
  MaxArguments = 4
  Cases <- MCCases
  ReadsFail = FALSE
  NoFile = NoFile
  None = None
  Empty = Empty
  Garbage = Garbage
  NaN = NaN
INVARIANTS
  SourcesOrdered
  ContractDecides
  MergedFeed
  PricesExact
  ExitCodeTells
  SettingsAsWritten
  InputsIdentified
CHECK_DEADLOCK FALSE
