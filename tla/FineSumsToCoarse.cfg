SPECIFICATION Spec
CONSTANTS
  Instruments = {0, 5}
  Named = {0}
  Samplers <- Bars
  Slots = 2
  IdRange = 8
  Jumps <- MCJumps
  Fills = {1}
  MinTs = 0
  MaxEvents = 4
CHECK_DEADLOCK FALSE
INVARIANT
  FineSumsToCoarse
