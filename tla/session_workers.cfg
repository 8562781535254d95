\* Two workers on one connection that is never replaced: the send ring
\* fills (2 pointers) and one WSASend does not empty it (1 buffer).
CONSTANTS
  Acceptor = acc
  Workers = {w1, w2}
  Apps = {}
  SlotCount = 1
  MaxSessions = 1
  MaxPackets = 3
  MaxCalls = 1
  MaxPerRecv = 2
  RingCap = 2
  MaxBatch = 1
SPECIFICATION FairSpec
INVARIANTS TypeOK IoAccounting NoIoOnClosedSocket TeardownOnce SendOrder PacketsAccounted ClosingIsPolled
PROPERTIES PeerGoneIsClosed AcceptedIsSent
