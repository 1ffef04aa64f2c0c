------------------------------ MODULE MCLink ------------------------------
EXTENDS SshLink

MCKeyChunks == {1, 4}
=============================================================================
