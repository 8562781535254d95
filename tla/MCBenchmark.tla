---------------------------- MODULE MCBenchmark ----------------------------
(* Benchmark with small sets of threads and keys. *)
EXTENDS Benchmark

TwelveKeys == 0..11
EightKeys  == 0..7
SomeEntries == {<<k, 7 * k + 1>> : k \in EightKeys} \cup {<<3, 2>>}
ThreeBuckets == {0, 1, 2}
SmallHash == [k \in TwelveKeys |-> k % 2]
=============================================================================
