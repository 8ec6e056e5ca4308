\* Commissioners, administrators, time-outs and the event queue in every order.
SPECIFICATION FairSpec
CONSTANTS
  Fabrics = {1, 2}
  Sessions = {1, 2}
  QueueSize = 2
  kMaxFailedCommissioningAttempts = 2
INVARIANTS TypeOK WindowHasTimer PairingOnlyInWindow WindowNotDeaf GivesUp FailSafeForCommissioner OpenerExists
PROPERTIES WindowCloses
