SPECIFICATION NetSpec
CONSTANTS
  Lines = 4
  LinesPerChunk = 3
  MaxAttempts = 4
  MaxBreaks = 4
  Width = 4
  MaxFilters = 2
  BatchSize = 2
  ConfigAddress = {{}, {0, 2}, {1, 3}, {0, 1, 2, 3}}
  LineAddress = {{2}, {0, 1, 3}}
  MaxLines = 4
  NoAddress = NoAddress
INVARIANTS
  SuccessMeansHandled
  DuplicatesNeedBreaks
  DisorderIsReported
  AllTrueMeansComplete
  FilterMeaning
  OutputExact
PROPERTIES
  SenderEnds
