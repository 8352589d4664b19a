--------------------------- MODULE MCCheckWorker ---------------------------
(* Instances of CheckWorker for TLC. *)
EXTENDS CheckWorker, TLC

\* Check goroutines are interchangeable, and so are reconnect goroutines.
Symmetry == Permutations(Checks) \cup Permutations(Recs)
=============================================================================
