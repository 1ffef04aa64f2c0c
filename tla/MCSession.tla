----------------------------- MODULE MCSession -----------------------------
(* Two sessions of one isolate, each with two requests at a time. *)
EXTENDS BackendSshSession

CONSTANTS s1, s2, q1, q2

MCSessions == {s1, s2}
MCReqs == {q1, q2}
OneSession == {s1}

(* One of the sessions exchanges keys again when it is ready. *)
MCRekeys == [s \in MCSessions |-> IF s = s1 THEN 2 ELSE 1]
=============================================================================
