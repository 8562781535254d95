\* Two threads share three nodes: one can recycle the head behind the back of
\* the other, the ABA scenario of the header. Either thread may be neglected.
CONSTANTS
  Threads = {t1, t2}
  Nodes = {n1, n2, n3}
  Null = Null
  MaxTag = 5
SPECIFICATION FairSpec
INVARIANTS Represents Partition
PROPERTIES TagIdentifiesHead Refinement LockFreedom
