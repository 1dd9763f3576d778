SPECIFICATION Spec
CONSTANTS
  Bundles <- MCBundles
  Names <- MCNames
  Selections <- MCSelections
  Periods = {0, 1, 2}
  SamplerNames <- MCSamplerNames
  PathOf <- MCPathOf
  ParamsOf <- MCParamsOf
  Entries <- MCEntries
  Mine = 2
  MaxPlugins = 2
  MaxSamplers = 2
  MaxEvents = 4
CHECK_DEADLOCK FALSE
INVARIANTS
  CellsUnderTheirNames
  JsonReadsBack
  CsvReadsBack
