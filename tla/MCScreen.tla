------------------------------ MODULE MCScreen ------------------------------
EXTENDS ConnectionScreen, TLC
Symmetry == Permutations(Folder) \cup Permutations(Conn)
=============================================================================
