\* A dialogue and a message that needs no answer, over a network that loses and duplicates.
SPECIFICATION Spec
CONSTANTS
  Nodes = {"controller", "relay"}
  Exchanges = {1, 2}
  Opener <- MCOpener
  Replies <- MCReplies
  MAX_RETRANS = 1
  MAX_EXCHANGE_CONTEXTS <- MCContexts
  WINDOW_SIZE = 1
  CounterMod = 4
  HalfRange = 2
INVARIANTS TypeOK DeliveredOnce NeverDies OnlyBySpecViolation AckedRequestWasGiven NoContextLeak
