\* Three threads that hold at most two blocks; new has one address more
\* than the pool may ever need.
CONSTANTS
  Threads = {t1, t2, t3}
  Blocks = {b1, b2, b3, b4, b5}
  Null = Null
  MaxInUse = 2
SYMMETRY Symmetry
SPECIFICATION Spec
INVARIANTS OneHolder CountersOK BlocksBounded
