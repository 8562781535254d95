\* A ring for two pointers, empty at any place; three packets go round its
\* end, fill it and are sent one or two at a time.
CONSTANTS
  Workers = {w1, w2}
  Size = 6
  PointerSize = 2
  MaxBatch = 2
  MaxPackets = 3
SPECIFICATION FairSpec
INVARIANTS SentInOrder
PROPERTIES RefusedOnlyWhenFull AllSent
