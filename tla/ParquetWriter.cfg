SPECIFICATION Spec
CONSTANTS
  Samplers <- TwoSamplers
  Instruments = "instruments"
  RowGroup = 2
  MaxRows = 4
CHECK_DEADLOCK FALSE
INVARIANTS
  RowsPrefix
  FooterLast
  ReportedFilesWhole
