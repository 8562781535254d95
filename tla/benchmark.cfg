\* Two producers of two nodes or values, two consumers, a queue of two places.
\* The map tests insert up to twelve keys, the caller eight in any order; the
\* keys of the hash table collide in two of three buckets.
CONSTANTS
  Producers = {p1, p2}
  Consumers = {c1, c2}
  None = None
  CountPerThread = 2
  Capacity = 2
  Keys <- TwelveKeys
  CallerKeys <- EightKeys
  Entries <- SomeEntries
  Buckets <- ThreeBuckets
  hashOf <- SmallHash
SPECIFICATION FairSpec
INVARIANTS EverySeenOnce Agrees TreeSound
PROPERTIES Terminates
