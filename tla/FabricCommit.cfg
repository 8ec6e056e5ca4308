\* Commissioning, updates and removals with power cuts between storage writes.
SPECIFICATION Spec
CONSTANTS
  kMaxValidFabricIndex = 2
  CHIP_CONFIG_MAX_FABRICS = 2
  MaxKeys = 2
  Roots = {1, 2}
  Failing = {"marker", "meta", "key", "noc", "icac", "rcac", "index"}
  Sticking = {"marker", "meta", "key", "rcac"}
INVARIANTS TypeOK WholeOrGone RemovedStaysRemoved
PROPERTIES ImplementsStoredFabrics
