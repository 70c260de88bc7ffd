CONSTANTS
  MaxNodes = 4
  MaxHops = 3
  MaxPaths = 4
  Graphs <- MCGraphs
  Kilo = 3
  MaxYear = 2400
  Forward = 11042
  Backward = 11259
  Texts <- MCTexts
  Dates <- MCDates
  FarDates <- MCFarDates
  Clocks <- MCClocks
  Zones <- MCZones
  Durations <- MCDurations
  Maps <- MCMaps
  MaxInt = 3
  Things <- MCThings
  OperandValues <- MCOperands
  CellValues <- MCCells
  WordBits = 2
  Buckets = 2
  Commonest = 1
  MaxPatches = 2
  Props <- MCProps
  Constants <- MCConstants
  Entities <- MCEntities
  Samples <- MCSamples
  Corpora <- MCCorpora
  Queries <- MCQueries
  Filtered <- MCFiltered
SPECIFICATION CallsSpec
CHECK_DEADLOCK FALSE
INVARIANTS
  ScopesRight
  TemporalRight
  ValuesRight
  ColumnsRight
  PathsRight
  ScoresRight
  CountsRight
  RetrievalRight
