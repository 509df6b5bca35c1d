------------------------------ MODULE MCLedger ------------------------------
(* Small instances of Ledger for TLC.                                      *)
EXTENDS Ledger, TLC

CONSTANTS t1, t2, k1, k2

\* A short and a long window.
TwoBudgets == {[window_ms |-> 1, capacity |-> 3], [window_ms |-> 3, capacity |-> 3]}

\* Threads and keys are interchangeable.
Symmetry == Permutations(Threads) \cup Permutations(Keys)

=============================================================================
