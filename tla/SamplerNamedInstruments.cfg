SPECIFICATION Spec
CONSTANTS
  Samplers <- ClashingSamplers
  Instruments = "instruments"
  RowGroup = 2
  MaxRows = 2
CHECK_DEADLOCK FALSE
INVARIANT
  ReportedFilesWhole
