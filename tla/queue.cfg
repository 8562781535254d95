\* Two threads, two cells, five pushes of two values: the positions wrap
\* around twice.
CONSTANTS
  Threads = {t1, t2}
  Values = {a, b}
  None = None
  Capacity = 2
  MaxPos = 5
SPECIFICATION FairSpec
INVARIANTS CellsExclusive PopsInOrder
PROPERTIES Refinement OnlyOvertaken
