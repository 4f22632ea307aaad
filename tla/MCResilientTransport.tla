------------------------ MODULE MCResilientTransport ------------------------
EXTENDS ResilientTransport, TLC

Symmetry == Permutations(Tasks)
=============================================================================
