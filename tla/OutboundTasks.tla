--------------------------- MODULE OutboundTasks ---------------------------
(* The tasks of one process that send requests to one origin.              *)
EXTENDS Integers, Sequences, FiniteSets

CONSTANT Tasks

ASSUME TasksFinite == IsFiniteSet(Tasks)
=============================================================================
