-------------------------- MODULE MCDistributedLock --------------------------
(* DistributedLock for TLC: clients are interchangeable.                   *)
EXTENDS DistributedLock, TLC

Symmetry == Permutations(Clients)
=============================================================================
