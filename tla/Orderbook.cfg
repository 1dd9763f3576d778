SPECIFICATION Spec
CONSTANTS
  Ids = {0, 1, 2}
  Bid = "bid"
  Sides = {"bid", "ask"}
  Prices = {1, 2}
  Nil = Nil
  MaxQty = 2
INVARIANTS
  TypeOK
  LinksOK
  DepthTrue
  SweepLevelLive
PROPERTIES
  SweepTerminates
  ImplementsBookSpec
