---------------------------- MODULE KvMigration ----------------------------
(***************************************************************************)
(* What the bootstrap promises about the stored connections: they are      *)
(* copied from the old store to the new one, the old store gives up        *)
(* nothing before the new one has everything, and new connections are not  *)
(* created before the old store is empty.                                  *)
(***************************************************************************)
CONSTANTS Id, Later

VARIABLES old, new

Init == old = Id /\ new = {}

Copy(S) == new' = new \cup S /\ UNCHANGED old

Drop(S) == Id \subseteq new /\ old' = old \ S /\ UNCHANGED new

Create == old = {} /\ new' = new \cup {Later} /\ UNCHANGED old

Next == Create \/ \E S \in SUBSET old : Copy(S) \/ Drop(S)

Spec == Init /\ [][Next]_<<old, new>>
=============================================================================
