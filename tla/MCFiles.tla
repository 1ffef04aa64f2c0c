------------------------------ MODULE MCFiles ------------------------------
EXTENDS FilePanel

MCDirs == {"a", "b"}
MCNames == {"f", "g"}
=============================================================================
