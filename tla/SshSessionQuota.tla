-------------------------- MODULE SshSessionQuota --------------------------
(***************************************************************************)
(* The quota Durable Object (src/worker/ssh-quota-do.ts) running           *)
(* SshSessionQuota (src/worker/ssh-session-quota.ts).                      *)
(*                                                                         *)
(* Every operation reads the clock, awaits storage.get, decides on the     *)
(* leases it saw and awaits storage.put of the whole array: a read and a   *)
(* write with the clock free to move in between.  What makes that safe is  *)
(* not in the code but in the platform: the object's input gate delivers   *)
(* no other request while a storage operation is outstanding.  InputGate   *)
(* is that assumption, and the only one.                                   *)
(***************************************************************************)
EXTENDS QuotaLeases

CONSTANTS
  Request,   \* identities of the concurrent fetches of the object
  MaxTime    \* bound on the clock

ASSUME BoundAssumption == MaxTime \in Nat

VARIABLES
  now,      \* Date.now()
  leases,   \* the array in the object's storage
  call,     \* call[r]: request r between its get and its put, or Idle
  reply     \* the last response the object sent

vars == <<now, leases, call, reply>>

Op == {"acquire", "heartbeat", "release"}

Idle == [op |-> "idle"]

Call == [op: Op, key: SessionKey, id: LeaseId, at: Nat, seen: SUBSET Lease]

Result == {"none", "granted", "session-limit", "global-limit", "ok", "gone"}

TypeOK ==
  /\ now \in Nat
  /\ leases \subseteq Lease
  /\ call \in [Request -> Call \cup {Idle}]
  /\ reply \in [key: SessionKey, id: LeaseId, result: Result] \cup {Idle}

Init ==
  /\ now = 0
  /\ leases = {}
  /\ call = [r \in Request |-> Idle]
  /\ reply = Idle

-----------------------------------------------------------------------------
\* Platform: nothing is delivered while another request awaits the storage.
InputGate == \A r \in Request : call[r] = Idle

\* A request reads the clock, then the stored array.
Begin(r, op, k, i) ==
  /\ InputGate
  /\ call[r] = Idle
  /\ call' = [call EXCEPT ![r] =
       [op |-> op, key |-> k, id |-> i, at |-> now,
        seen |-> ActiveLeases(leases, now)]]
  /\ UNCHANGED <<now, leases, reply>>

Answer(r, result) ==
  /\ reply' = [key |-> call[r].key, id |-> call[r].id, result |-> result]
  /\ call' = [call EXCEPT ![r] = Idle]

FinishAcquire(r) ==
  /\ call[r].op = "acquire"
  /\ LET c == call[r] IN
       /\ leases' = AcquirePut(c.seen, c.key, c.id, c.at)
       /\ Answer(r, AcquireReply(c.seen, c.key, c.id))
  /\ UNCHANGED now

FinishHeartbeat(r) ==
  /\ call[r].op = "heartbeat"
  /\ LET c == call[r] IN
       /\ leases' = HeartbeatPut(c.seen, c.key, c.id, c.at)
       /\ Answer(r, HeartbeatReply(c.seen, c.key, c.id))
  /\ UNCHANGED now

FinishRelease(r) ==
  /\ call[r].op = "release"
  /\ LET c == call[r] IN
       /\ leases' = ReleasePut(c.seen, c.key, c.id)
       /\ Answer(r, ReleaseReply(c.seen, c.key, c.id))
  /\ UNCHANGED now

\* The platform evicts the object: outstanding requests fail, storage stays.
Evict ==
  /\ \E r \in Request : call[r] # Idle
  /\ call' = [r \in Request |-> Idle]
  /\ UNCHANGED <<now, leases, reply>>

Tick ==
  /\ now < MaxTime
  /\ now' = now + 1
  /\ UNCHANGED <<leases, call, reply>>

Next ==
  \/ \E r \in Request, op \in Op, k \in SessionKey, i \in LeaseId :
       Begin(r, op, k, i)
  \/ \E r \in Request : FinishAcquire(r)
  \/ \E r \in Request : FinishHeartbeat(r)
  \/ \E r \in Request : FinishRelease(r)
  \/ Evict
  \/ Tick

Spec == Init /\ [][Next]_vars

-----------------------------------------------------------------------------
\* The leases that count at this moment.
Active == ActiveLeases(leases, now)

\* Safety: however requests interleave, fail and straddle clock ticks, no
\* login session ever has more than SessionLimit stored leases and the
\* deployment never more than GlobalLimit ("at most 3 per login session, 10
\* overall": acquire's two length checks).
WithinLimits ==
  /\ \A k \in SessionKey : Cardinality(OfSession(leases, k)) <= SessionLimit
  /\ Cardinality(leases) <= GlobalLimit

\* Safety: a retried acquire or a heartbeat renews its lease in place and
\* never makes the same connection occupy two slots.
OneSlotPerLease ==
  \A l, m \in leases :
    l.sessionKey = m.sessionKey /\ l.leaseId = m.leaseId => l = m

KeepsLeases ==
  \A l \in leases :
    l.expiresAt > now' =>
      \/ \E m \in leases' :
           Names(m, l.sessionKey, l.leaseId) /\ m.expiresAt >= l.expiresAt
      \/ \E r \in Request :
           call[r].op = "release" /\ Names(l, call[r].key, call[r].id)

\* Action property: nobody loses a lease that is still running to the
\* requests of others.  A lease unexpired after the step was dropped only by
\* its own release, and it is never cut short (activeLeases filters before
\* every put, and every put rewrites the whole array).
NoEviction == [][KeepsLeases]_vars

\* Action property: a refusal is justified by leases that were unexpired when
\* the request read the clock, not by entries that had already run out.
RefusalJustified ==
  [][\A r \in Request :
       call[r] # Idle /\ call'[r] = Idle /\ reply' # reply =>
         LET held == {l \in leases : l.expiresAt > call[r].at} IN
         /\ reply'.result = "session-limit" =>
              Cardinality(OfSession(held, call[r].key)) >= SessionLimit
         /\ reply'.result = "global-limit" =>
              Cardinality(held) >= GlobalLimit]_vars

\* What the object promises, without storage, clock or requests in flight.
Pool == INSTANCE QuotaPool
  WITH held <- {<<l.sessionKey, l.leaseId>> : l \in Active}

PoolSpec == Pool!Spec
=============================================================================
