SPECIFICATION MCSpec
CONSTANTS
  STREAMS = 4
  Seeds <- MCSeeds
  Indices <- MCIndices
  MaxCalls = 3
CHECK_DEADLOCK FALSE
INVARIANTS
  TypeOK
  UnitInterval
  StreamsApart
  TestSucceeds
PROPERTIES
  IsLehmer
