\* As send_ring.
CONSTANTS
  Workers = {w1, w2}
  Size = 6
  PointerSize = 2
  MaxBatch = 2
  MaxPackets = 3
SPECIFICATION Spec
INVARIANTS NoMismatch
