SPECIFICATION Spec
CONSTANTS
  Instruments = {2, 3, 7}
  Named = {2}
  Samplers <- Catalog
  Slots = 1
  IdRange = 8
  Jumps <- MCJumps
  Fills = {1}
  MinTs = 0
  MaxEvents = 4
CHECK_DEADLOCK FALSE
INVARIANTS
  RowsTrue
  BarsAsOf
  BarGrid
  CountRows
  AllReported
  StatsTrue
  EntriesInBounds
