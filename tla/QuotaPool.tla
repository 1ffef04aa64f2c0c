----------------------------- MODULE QuotaPool -----------------------------
(***************************************************************************)
(* What the SSH quota promises its callers: a pool of slots, each held by  *)
(* one connection of one login session, with a limit per session and one   *)
(* overall.  Slots leave the pool one by one or, when time passes, several *)
(* at once; a slot is only ever taken while there is room for it.          *)
(***************************************************************************)
EXTENDS Integers, FiniteSets

CONSTANTS SessionKey, LeaseId, SessionLimit, GlobalLimit

VARIABLE held   \* pairs <<session key, lease id>> holding a slot

Init == held = {}

Take(k, i) ==
  /\ <<k, i>> \notin held
  /\ Cardinality({h \in held : h[1] = k}) < SessionLimit
  /\ Cardinality(held) < GlobalLimit
  /\ held' = held \cup {<<k, i>>}

Give(S) == held' = held \ S

Next ==
  \/ \E k \in SessionKey, i \in LeaseId : Take(k, i)
  \/ \E S \in SUBSET held : Give(S)

Spec == Init /\ [][Next]_held
=============================================================================
