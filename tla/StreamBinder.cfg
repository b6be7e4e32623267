CONSTANTS
  WriteSizes = {1, 2, 3}
  ReadSizes = {1, 2, 4}
  MaxBytes = 6
  MaxSessions = 2
SPECIFICATION FairSpec
INVARIANTS
  NoDataRace
  ReadsNextByte
  AccountingExact
  NoReleaseRefused
PROPERTIES
  ImplementsPipe
  CallsReturn
