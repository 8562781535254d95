\* Two workers and a thread of the application that sends and disconnects,
\* on one connection that is never replaced.
CONSTANTS
  Acceptor = acc
  Workers = {w1, w2}
  Apps = {a1}
  SlotCount = 1
  MaxSessions = 1
  MaxPackets = 2
  MaxCalls = 1
  MaxPerRecv = 1
  RingCap = 2
  MaxBatch = 2
SYMMETRY Symmetry
SPECIFICATION Spec
PROPERTIES Refinement
