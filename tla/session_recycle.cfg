\* One worker, two slots, three connections: slots are reused.
CONSTANTS
  Acceptor = acc
  Workers = {w1}
  Apps = {}
  SlotCount = 2
  MaxSessions = 3
  MaxPackets = 2
  MaxCalls = 1
  MaxPerRecv = 2
  RingCap = 1
  MaxBatch = 1
SPECIFICATION Spec
INVARIANTS SlotsArePartitioned ClosedForCause
PROPERTIES Refinement ReusedUnheld
