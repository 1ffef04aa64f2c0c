---------------------------- MODULE MCLifecycle ----------------------------
(* Two connections of one login session, which may have one at a time.     *)
EXTENDS SshLifecycle, TLC

CONSTANTS k1, c1, c2

MCKeyOf == [c \in {c1, c2} |-> k1]
=============================================================================
