------------------------------- MODULE MCObjects -------------------------------
(* Objects for TLC: one key, under one user's prefix.                      *)
EXTENDS Objects

OneOwner == [k \in ObjectKeys |-> "u"]
=============================================================================
