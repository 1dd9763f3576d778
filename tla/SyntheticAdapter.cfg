SPECIFICATION Spec
CONSTANTS
  Texts <- MCTexts
  Number <- MCNumber
  MaxEvents = 5
  MaxCalls = 20
INVARIANTS
  FeedWellFormed
  EndsAsAsked
PROPERTIES
  StaysOver
  FeedEnds
CHECK_DEADLOCK FALSE
