------------------------------ MODULE MCStore ------------------------------
EXTENDS D1Store, TLC
Symmetry == Permutations(Folder) \cup Permutations(Conn) \cup Permutations(Name)
              \cup Permutations(Request) \cup Permutations(AuthType)
=============================================================================
