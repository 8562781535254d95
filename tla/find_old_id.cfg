\* Two workers, one slot, two connections that send nothing.
CONSTANTS
  Acceptor = acc
  Workers = {w1, w2}
  Apps = {}
  SlotCount = 1
  MaxSessions = 2
  MaxPackets = 0
  MaxCalls = 0
  MaxPerRecv = 0
  RingCap = 2
  MaxBatch = 2
SYMMETRY Symmetry
SPECIFICATION Spec
INVARIANTS OldIdTouchesNoOther
