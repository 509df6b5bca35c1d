------------------------ MODULE MCTokenBucketLedger ------------------------
(* Small instances of TokenBucketLedger for TLC.                           *)
EXTENDS TokenBucketLedger, TLC

CONSTANTS t1, t2, k1, k2

\* Threads and keys are interchangeable.
Symmetry == Permutations(Threads) \cup Permutations(Keys)

=============================================================================
