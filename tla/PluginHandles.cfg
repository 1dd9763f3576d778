SPECIFICATION HandlesSpec
CONSTANTS
  Libs = {l1, l2}
  FeaturePlugins = {p1, p2}
  AdapterPlugins = {a1, a2}
  FeatureInstances = {i1, i2}
  AdapterInstances = {j1, j2}
  States = {s1, s2, s3}
  Nil = Nil
SYMMETRY Symmetry
INVARIANTS
  OpenAsHeld
  OneOwner
  OwnFunctions
