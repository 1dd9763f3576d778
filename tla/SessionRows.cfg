SPECIFICATION Spec
CONSTANTS
  Instruments <- MCInstruments
  Unnamed <- MCUnnamed
  Feed <- MCFeed
  QueueCap = 1
  RowCap = 1
  Batch = 2
  MaxRows = 1
INVARIANT
  ExitZeroMeansAllWritten
