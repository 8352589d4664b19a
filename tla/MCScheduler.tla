----------------------------- MODULE MCScheduler -----------------------------
(* Small instances of Scheduler for TLC. *)
EXTENDS Scheduler, TLC

CONSTANTS i1, h1, w1, c1, c2, m1

\* Both ids under one name: the second is drawn when the worker registers
\* again after its row was deleted.
OneName == [w \in WorkerIds |-> "worker-msk-01"]
TwoNames == [w \in WorkerIds |-> w]

\* Check ids are interchangeable; used with invariants only.
Symmetry == Permutations(CheckIds)
=============================================================================
