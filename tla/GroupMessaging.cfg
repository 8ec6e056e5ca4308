\* A sender whose power fails, and a receiver that other nodes and fabrics fill.
SPECIFICATION Spec
CONSTANTS
  CounterMod = 8
  HalfRange = 4
  WINDOW_SIZE = 1
  MIN_INCREMENT = 2
  InitialValues = {6}
  Refusable = {"data"}
  Fabrics = {1, 2}
  Sender <- MCSender
  OtherPeers <- MCOtherPeers
  MAX_FABRICS = 2
  MAX_PEERS <- MCMaxPeers
  MaxSpent = 7
INVARIANTS TypeOK CounterNotReused AcceptedOnce NewIsAccepted
