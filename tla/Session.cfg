SPECIFICATION Spec
CONSTANTS
  Instruments <- MCInstruments
  Unnamed <- MCUnnamed
  Feed <- MCFeed
  QueueCap = 2
  RowCap = 1
  Batch = 2
  MaxRows = 2
INVARIANTS
  EventsInOrder
  LoopLeftDrained
  UnknownOnlyIfUnnamed
  WrittenIsPrefix
  ExitCodeTruthful
PROPERTIES
  StopsWhenAsked
