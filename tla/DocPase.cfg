\* A PASE session that outlives its fail-safe.
SPECIFICATION Spec
CONSTANTS
  Fabrics = {1, 2}
  Sessions = {1}
  QueueSize = 3
  kMaxFailedCommissioningAttempts = 3
INVARIANTS PaseOwnsFailSafe
