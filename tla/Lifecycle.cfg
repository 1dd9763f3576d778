SPECIFICATION Spec
CONSTANTS
  PluginNames = {"p", "q"}
  SamplerArgs <- MCSamplerArgs
  Params <- MCParams
  MaxArgs = 2
  IntMax = 31
  Units <- MCUnits
  Instruments = {"i", "j"}
INVARIANTS
  StatesOutlived
  NoHalfPipeline
  ExitCodeTold
  RefusedUntouched
  CatalogUnambiguous
  PeriodsUsable
