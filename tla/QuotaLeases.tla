---------------------------- MODULE QuotaLeases ----------------------------
(***************************************************************************)
(* The lease table of src/worker/ssh-session-quota.ts as pure operators:   *)
(* the array stored under "active-ssh-leases" and what acquire, heartbeat  *)
(* and release answer and write back for a given stored array.             *)
(*                                                                         *)
(* The array is a set here: the code only filters it, searches it and      *)
(* takes its length, and it never pushes an entry that is already there.   *)
(***************************************************************************)
EXTENDS Integers, FiniteSets

CONSTANTS
  SessionKey,    \* digests of login-session tokens (sessionQuotaKey)
  LeaseId,       \* the UUIDs handleSsh draws, one per SSH connection
  LeaseMs,       \* lease duration, DEFAULT_LEASE_MS in the code
  SessionLimit,  \* leases one login session may hold
  GlobalLimit    \* leases the whole deployment may hold

ASSUME QuotaAssumption ==
  /\ LeaseMs \in Nat \ {0}
  /\ SessionLimit \in Nat \ {0}
  /\ GlobalLimit \in Nat \ {0}

Lease == [sessionKey: SessionKey, leaseId: LeaseId, expiresAt: Nat]

\* Operators with a Mut_ prefix are faulty variants of the definition that
\* follows them; they serve to check that the properties notice the fault.

Mut_ActiveLeases(stored, at) == stored

\* activeLeases: what is left of the stored array at time at.
ActiveLeases(stored, at) == {l \in stored : l.expiresAt > at}

Names(l, k, i) == l.sessionKey = k /\ l.leaseId = i

Holds(S, k, i) == \E l \in S : Names(l, k, i)

Mut_Without(S, k, i) == {l \in S : l.leaseId # i}

Without(S, k, i) == {l \in S : ~Names(l, k, i)}

OfSession(S, k) == {l \in S : l.sessionKey = k}

Mut_Extended(S, k, i, at) ==
  S \cup {[sessionKey |-> k, leaseId |-> i, expiresAt |-> at + LeaseMs]}

\* The array with the lease (k, i) pushed, or its expiry moved if present.
Extended(S, k, i, at) ==
  Without(S, k, i)
    \cup {[sessionKey |-> k, leaseId |-> i, expiresAt |-> at + LeaseMs]}

Mut_AcquireReply(S, k, i) ==
  IF ~Holds(S, k, i) /\ Cardinality(OfSession(S, k)) > SessionLimit
    THEN "session-limit"
  ELSE IF ~Holds(S, k, i) /\ Cardinality(S) >= GlobalLimit
    THEN "global-limit"
  ELSE "granted"

AcquireReply(S, k, i) ==
  IF ~Holds(S, k, i) /\ Cardinality(OfSession(S, k)) >= SessionLimit
    THEN "session-limit"
  ELSE IF ~Holds(S, k, i) /\ Cardinality(S) >= GlobalLimit
    THEN "global-limit"
  ELSE "granted"

AcquirePut(S, k, i, at) ==
  IF AcquireReply(S, k, i) = "granted" THEN Extended(S, k, i, at) ELSE S

HeartbeatReply(S, k, i) == IF Holds(S, k, i) THEN "ok" ELSE "gone"

Mut_HeartbeatPut(S, k, i, at) == Extended(S, k, i, at)

HeartbeatPut(S, k, i, at) ==
  IF Holds(S, k, i) THEN Extended(S, k, i, at) ELSE S

ReleaseReply(S, k, i) == IF Holds(S, k, i) THEN "ok" ELSE "gone"

ReleasePut(S, k, i) == Without(S, k, i)
=============================================================================
