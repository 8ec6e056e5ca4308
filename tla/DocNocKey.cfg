\* An update for a key that the device does not hold.
SPECIFICATION Spec
CONSTANTS
  kMaxValidFabricIndex = 2
  CHIP_CONFIG_MAX_FABRICS = 2
  MaxKeys = 3
  Roots = {1, 2}
  Failing = {}
  Sticking = {}
INVARIANTS UpdateMatchesKeypair
