\* Three slots, two boxes of one layer and one of another; room for two.
CONSTANTS
  l1 = l1
  l2 = l2
  l3 = l3
  fires1 = fires1
  fires2 = fires2
  orders = orders
  Lookups = {l1, l2, l3}
  Keys = {fires1, fires2, orders}
  KindOf <- Layers
  FreshFor = 1
  StaleFor = 3
  MaxEntries = 2
  MaxFeatures = 3
  Sizes = {0, 2}
SPECIFICATION Spec
SYMMETRY Callers
INVARIANTS
  CacheWithinLimits
  NoNeedlessFetch
  StaleIsBetween
PROPERTIES
  NeverOlder
