---------------------------- MODULE QuotaProofs ----------------------------
(***************************************************************************)
(* Proofs about the quota: the lease table of QuotaLeases, the quota       *)
(* object that stores it (SshSessionQuota) and the life of the connections *)
(* that hold its leases (SshLifecycle), for every number of connections,   *)
(* login sessions and requests, every limit and every timing.  The two     *)
(* machines share the lemmas about the table.  What depends on the timing  *)
(* is proved under StartsInTime.                                           *)
(***************************************************************************)
EXTENDS SshSessionQuota, SshLifecycle, FiniteSetTheorems, TLAPS

-----------------------------------------------------------------------------
(* The lease table.                                                        *)

\* What is true of every array the object ever stores.
SoundTable(S) ==
  /\ IsFiniteSet(S)
  /\ \A k \in SessionKey : Cardinality(OfSession(S, k)) <= SessionLimit
  /\ Cardinality(S) <= GlobalLimit
  /\ \A l, m \in S :
       l.sessionKey = m.sessionKey /\ l.leaseId = m.leaseId => l = m

\* Lemma: filtering a table (activeLeases, release) keeps it sound.
LEMMA FilterSound ==
  ASSUME NEW S, NEW T, SoundTable(S), T \subseteq S
  PROVE  SoundTable(T)
<1>1. IsFiniteSet(T) /\ Cardinality(T) <= Cardinality(S)
  BY FS_Subset DEF SoundTable
<1>2. ASSUME NEW k \in SessionKey
      PROVE  Cardinality(OfSession(T, k)) <= SessionLimit
  <2>1. OfSession(T, k) \subseteq OfSession(S, k)
    BY DEF OfSession
  <2>2. OfSession(S, k) \subseteq S
    BY DEF OfSession
  <2>3. IsFiniteSet(OfSession(S, k))
    BY <2>2, FS_Subset DEF SoundTable
  <2>4. /\ Cardinality(OfSession(T, k)) <= Cardinality(OfSession(S, k))
        /\ IsFiniteSet(OfSession(T, k))
    BY <2>1, <2>3, FS_Subset
  <2>5. /\ Cardinality(OfSession(T, k)) \in Nat
        /\ Cardinality(OfSession(S, k)) \in Nat
    BY <2>3, <2>4, FS_CardinalityType
  <2> QED
    BY <2>4, <2>5, QuotaAssumption DEF SoundTable
<1>3. Cardinality(T) \in Nat /\ Cardinality(S) \in Nat
  BY <1>1, FS_CardinalityType DEF SoundTable
<1> QED
  BY <1>1, <1>2, <1>3, QuotaAssumption DEF SoundTable

\* Lemma: replacing the entries of (k, i) in a finite set by one new entry
\* grows it by one at most, and not at all if (k, i) was there.
LEMMA ReplaceCardinality ==
  ASSUME NEW S, IsFiniteSet(S), NEW k, NEW i, NEW e,
         NEW T, T = Without(S, k, i) \cup {e}
  PROVE  /\ IsFiniteSet(T)
         /\ Cardinality(T) \in Nat /\ Cardinality(S) \in Nat
         /\ Cardinality(T) <= Cardinality(S) + 1
         /\ Holds(S, k, i) => Cardinality(T) <= Cardinality(S)
<1> DEFINE W == Without(S, k, i)
<1>1. W \subseteq S
  BY DEF Without
<1>2. IsFiniteSet(W) /\ Cardinality(W) <= Cardinality(S)
  BY <1>1, FS_Subset
<1>3. /\ IsFiniteSet(W \cup {e})
      /\ Cardinality(W \cup {e}) =
           IF e \in W THEN Cardinality(W) ELSE Cardinality(W) + 1
  BY <1>2, FS_AddElement
<1>4. Cardinality(W) \in Nat /\ Cardinality(S) \in Nat
  BY <1>2, FS_CardinalityType
<1>5. ASSUME Holds(S, k, i) PROVE Cardinality(W) < Cardinality(S)
  <2>1. W # S
    BY <1>5 DEF Holds, Without
  <2>2. W \in SUBSET S
    BY <1>1
  <2>3. Cardinality(W) # Cardinality(S)
    BY <2>1, <2>2, FS_Subset
  <2> HIDE DEF W
  <2> QED
    BY <1>2, <1>4, <2>3
<1>6. IsFiniteSet(T) /\ Cardinality(T) \in Nat
  BY <1>3, FS_CardinalityType
<1>7. Cardinality(T) <= Cardinality(W) + 1 /\ Cardinality(W) <= Cardinality(S)
  BY <1>2, <1>3, <1>4
<1> QED
  BY <1>4, <1>5, <1>6, <1>7

\* Lemma: pushing or renewing a lease keeps the table sound, provided the
\* lease is already there or there is room for one more.
LEMMA ExtendedSound ==
  ASSUME NEW S, SoundTable(S), S \subseteq Lease,
         NEW k \in SessionKey, NEW i \in LeaseId, NEW at \in Nat,
         \/ Holds(S, k, i)
         \/ /\ Cardinality(OfSession(S, k)) < SessionLimit
            /\ Cardinality(S) < GlobalLimit
  PROVE  SoundTable(Extended(S, k, i, at)) /\ Extended(S, k, i, at) \subseteq Lease
<1> DEFINE e == [sessionKey |-> k, leaseId |-> i, expiresAt |-> at + LeaseMs]
           T == Extended(S, k, i, at)
<1>1. T = Without(S, k, i) \cup {e}
  BY DEF Extended
<1>2. e \in Lease
  BY QuotaAssumption DEF Lease
<1>3. T \subseteq Lease
  BY <1>1, <1>2 DEF Without
<1>4. IsFiniteSet(T) /\ Cardinality(T) <= GlobalLimit
  <2> HIDE DEF T, e
  <2>1. IsFiniteSet(S) /\ Cardinality(S) <= GlobalLimit
    BY DEF SoundTable
  <2>2. /\ IsFiniteSet(T)
        /\ Cardinality(T) \in Nat /\ Cardinality(S) \in Nat
        /\ Cardinality(T) <= Cardinality(S) + 1
        /\ Holds(S, k, i) => Cardinality(T) <= Cardinality(S)
    BY <1>1, <2>1, ReplaceCardinality
  <2> QED
    BY <2>1, <2>2, QuotaAssumption
<1>5. ASSUME NEW q \in SessionKey
      PROVE  Cardinality(OfSession(T, q)) <= SessionLimit
  <2>1. CASE q = k
    <3> DEFINE P == OfSession(S, k)
    <3>1. P \subseteq S
      BY DEF OfSession
    <3>2. IsFiniteSet(P)
      BY <3>1, FS_Subset DEF SoundTable
    <3>3. OfSession(T, q) = Without(P, k, i) \cup {e}
      BY <1>1, <2>1 DEF OfSession, Without, Names
    <3>4. Holds(S, k, i) => Holds(P, k, i)
      BY DEF Holds, OfSession, Names
    <3>5. Cardinality(P) <= SessionLimit
      BY DEF SoundTable
    <3>6. Holds(S, k, i) \/ Cardinality(P) < SessionLimit
      OBVIOUS
    <3> HIDE DEF P, e, T
    <3>7. /\ Cardinality(OfSession(T, q)) \in Nat /\ Cardinality(P) \in Nat
          /\ Cardinality(OfSession(T, q)) <= Cardinality(P) + 1
          /\ Holds(P, k, i) => Cardinality(OfSession(T, q)) <= Cardinality(P)
      BY <3>2, <3>3, ReplaceCardinality
    <3> QED
      BY <3>4, <3>5, <3>6, <3>7, QuotaAssumption
  <2>2. CASE q # k
    <3>1. OfSession(T, q) = OfSession(S, q)
      BY <1>1, <2>2 DEF OfSession, Without, Names
    <3> QED
      BY <3>1 DEF SoundTable
  <2> QED
    BY <2>1, <2>2
<1>6. \A l, m \in T :
        l.sessionKey = m.sessionKey /\ l.leaseId = m.leaseId => l = m
  BY <1>1 DEF Without, Names, SoundTable
<1> QED
  BY <1>3, <1>4, <1>5, <1>6 DEF SoundTable

\* Lemma: what acquire writes back is sound when what it read was.
LEMMA AcquireSound ==
  ASSUME NEW S, SoundTable(S), S \subseteq Lease,
         NEW k \in SessionKey, NEW i \in LeaseId, NEW at \in Nat
  PROVE  SoundTable(AcquirePut(S, k, i, at)) /\ AcquirePut(S, k, i, at) \subseteq Lease
<1>1. CASE AcquireReply(S, k, i) = "granted"
  <2>1. IsFiniteSet(S) /\ IsFiniteSet(OfSession(S, k))
    BY FS_Subset DEF SoundTable, OfSession
  <2>2. Cardinality(S) \in Nat /\ Cardinality(OfSession(S, k)) \in Nat
    BY <2>1, FS_CardinalityType
  <2>3. \/ Holds(S, k, i)
        \/ /\ Cardinality(OfSession(S, k)) < SessionLimit
           /\ Cardinality(S) < GlobalLimit
    BY <1>1, <2>2, QuotaAssumption DEF AcquireReply
  <2> QED
    BY <1>1, <2>3, ExtendedSound DEF AcquirePut
<1>2. CASE AcquireReply(S, k, i) # "granted"
  BY <1>2 DEF AcquirePut
<1> QED
  BY <1>1, <1>2

\* Lemma: the same for heartbeat and release.
LEMMA HeartbeatSound ==
  ASSUME NEW S, SoundTable(S), S \subseteq Lease,
         NEW k \in SessionKey, NEW i \in LeaseId, NEW at \in Nat
  PROVE  /\ SoundTable(HeartbeatPut(S, k, i, at))
         /\ HeartbeatPut(S, k, i, at) \subseteq Lease
BY ExtendedSound DEF HeartbeatPut

LEMMA ReleaseSound ==
  ASSUME NEW S, SoundTable(S), S \subseteq Lease, NEW k, NEW i
  PROVE  SoundTable(ReleasePut(S, k, i)) /\ ReleasePut(S, k, i) \subseteq Lease
<1>1. ReleasePut(S, k, i) \subseteq S
  BY DEF ReleasePut, Without
<1> QED
  BY <1>1, FilterSound

-----------------------------------------------------------------------------
(* The quota object.                                                       *)

\* A request in flight is alone, and the array it saw is still the stored
\* one: that is what the input gate buys.
GateInv ==
  /\ \A r, q \in Request : call[r] # Idle /\ call[q] # Idle => r = q
  /\ \A r \in Request : call[r] # Idle =>
       /\ call[r].seen = ActiveLeases(leases, call[r].at)
       /\ call[r].at <= now

IInv == TypeOK /\ SoundTable(leases) /\ GateInv

-----------------------------------------------------------------------------
\* Lemma: the inductive invariant holds initially.
LEMMA InitIInv == Init => IInv
<1> SUFFICES ASSUME Init PROVE IInv
  OBVIOUS
<1>1. TypeOK
  BY DEF Init, TypeOK, Idle
<1>2. SoundTable(leases)
  <2>1. IsFiniteSet({}) /\ Cardinality({}) = 0
    BY FS_EmptySet
  <2>2. \A k : OfSession({}, k) = {}
    BY DEF OfSession
  <2> QED
    BY <2>1, <2>2, QuotaAssumption DEF SoundTable, Init
<1>3. GateInv
  BY DEF GateInv, Init
<1> QED
  BY <1>1, <1>2, <1>3 DEF IInv

\* Lemma: when request r is about to answer, what it saw is a sound table
\* cut down to the leases unexpired at its clock reading.
LEMMA SeenSound ==
  ASSUME IInv, NEW r \in Request, call[r] # Idle
  PROVE  /\ call[r] \in Call
         /\ call[r].seen = ActiveLeases(leases, call[r].at)
         /\ SoundTable(call[r].seen)
         /\ call[r].seen \subseteq Lease
<1>1. call[r] \in Call
  BY DEF IInv, TypeOK
<1>2. call[r].seen = ActiveLeases(leases, call[r].at)
  BY DEF IInv, GateInv
<1>3. call[r].seen \subseteq leases
  BY <1>2 DEF ActiveLeases
<1> QED
  BY <1>1, <1>2, <1>3, FilterSound DEF IInv, TypeOK

\* Lemma: every step that answers a request leaves nobody in flight and a
\* table of the right shape.
LEMMA AnswerIInv ==
  ASSUME IInv, NEW r \in Request, call[r] # Idle,
         NEW result \in Result, Answer(r, result), UNCHANGED now,
         SoundTable(leases'), leases' \subseteq Lease
  PROVE  IInv'
<1>1. call[r] \in Call
  BY SeenSound
<1>2. call[r].key \in SessionKey /\ call[r].id \in LeaseId
  BY <1>1 DEF Call
<1>3. TypeOK'
  BY <1>2 DEF IInv, TypeOK, Answer
<1>4. \A q \in Request : call'[q] = Idle
  BY DEF IInv, GateInv, Answer, TypeOK
<1>5. GateInv'
  BY <1>4 DEF GateInv
<1> QED
  BY <1>3, <1>5 DEF IInv

\* Lemma: no step breaks the inductive invariant.
LEMMA NextIInv == IInv /\ [Next]_vars => IInv'
<1> SUFFICES ASSUME IInv, [Next]_vars PROVE IInv'
  OBVIOUS
<1>1. ASSUME NEW r \in Request, NEW op \in Op, NEW k \in SessionKey,
             NEW i \in LeaseId, Begin(r, op, k, i)
      PROVE  IInv'
  <2> DEFINE c == [op |-> op, key |-> k, id |-> i, at |-> now,
                   seen |-> ActiveLeases(leases, now)]
  <2>1. c \in Call
    BY DEF IInv, TypeOK, Call, ActiveLeases
  <2>2. /\ call' = [call EXCEPT ![r] = c]
        /\ UNCHANGED <<now, leases, reply>>
    BY <1>1 DEF Begin
  <2>3. TypeOK'
    BY <2>1, <2>2 DEF IInv, TypeOK
  <2>4. \A q \in Request : q # r => call'[q] = Idle
    BY <1>1, <2>2 DEF Begin, InputGate, IInv, TypeOK
  <2>5. call'[r] = c
    BY <2>2 DEF IInv, TypeOK
  <2>6. c.seen = ActiveLeases(leases, c.at) /\ c.at <= now
    BY DEF IInv, TypeOK
  <2>7. GateInv'
    <3> HIDE DEF c
    <3> QED
      BY <2>2, <2>4, <2>5, <2>6 DEF GateInv, ActiveLeases
  <2> QED
    BY <2>2, <2>3, <2>7 DEF IInv, SoundTable, OfSession
<1>2. ASSUME NEW r \in Request, FinishAcquire(r) PROVE IInv'
  <2>1. call[r] # Idle
    BY <1>2 DEF FinishAcquire, Idle
  <2>2. AcquireReply(call[r].seen, call[r].key, call[r].id) \in Result
    BY DEF AcquireReply, Result
  <2>3. SoundTable(leases') /\ leases' \subseteq Lease
    BY <1>2, <2>1, SeenSound, AcquireSound DEF FinishAcquire, Call
  <2> QED
    BY <1>2, <2>1, <2>2, <2>3, AnswerIInv DEF FinishAcquire
<1>3. ASSUME NEW r \in Request, FinishHeartbeat(r) PROVE IInv'
  <2>1. call[r] # Idle
    BY <1>3 DEF FinishHeartbeat, Idle
  <2>2. HeartbeatReply(call[r].seen, call[r].key, call[r].id) \in Result
    BY DEF HeartbeatReply, Result
  <2>3. SoundTable(leases') /\ leases' \subseteq Lease
    BY <1>3, <2>1, SeenSound, HeartbeatSound DEF FinishHeartbeat, Call
  <2> QED
    BY <1>3, <2>1, <2>2, <2>3, AnswerIInv DEF FinishHeartbeat
<1>4. ASSUME NEW r \in Request, FinishRelease(r) PROVE IInv'
  <2>1. call[r] # Idle
    BY <1>4 DEF FinishRelease, Idle
  <2>2. ReleaseReply(call[r].seen, call[r].key, call[r].id) \in Result
    BY DEF ReleaseReply, Result
  <2>3. SoundTable(leases') /\ leases' \subseteq Lease
    BY <1>4, <2>1, SeenSound, ReleaseSound DEF FinishRelease, Call
  <2> QED
    BY <1>4, <2>1, <2>2, <2>3, AnswerIInv DEF FinishRelease
<1>5. ASSUME Evict PROVE IInv'
  <2>1. \A q \in Request : call'[q] = Idle
    BY <1>5 DEF Evict
  <2>2. TypeOK' /\ GateInv'
    BY <1>5, <2>1 DEF Evict, IInv, TypeOK, GateInv
  <2> QED
    BY <1>5, <2>2 DEF Evict, IInv, SoundTable, OfSession
<1>6. ASSUME Tick PROVE IInv'
  <2>1. now' \in Nat /\ now <= now' /\ UNCHANGED <<leases, call, reply>>
    BY <1>6 DEF Tick, IInv, TypeOK
  <2>2. TypeOK'
    BY <2>1 DEF IInv, TypeOK
  <2>3. GateInv'
    <3>1. \A r \in Request : call[r] # Idle => call[r].at \in Nat
      BY SeenSound DEF Call
    <3> QED
      BY <2>1, <3>1 DEF IInv, TypeOK, GateInv, ActiveLeases
  <2> QED
    BY <2>1, <2>2, <2>3 DEF IInv, SoundTable, OfSession
<1>7. CASE UNCHANGED vars
  BY <1>7 DEF vars, IInv, TypeOK, GateInv, SoundTable, OfSession, ActiveLeases
<1> QED
  BY <1>1, <1>2, <1>3, <1>4, <1>5, <1>6, <1>7 DEF Next

\* Lemma: the inductive invariant holds in every reachable state.
LEMMA AlwaysIInv == Spec => []IInv
BY InitIInv, NextIInv, PTL DEF Spec

\* Theorem: the variables of the quota object keep their types.
THEOREM TypeCorrect == Spec => []TypeOK
<1>1. IInv => TypeOK
  BY DEF IInv
<1> QED
  BY <1>1, AlwaysIInv, PTL

\* Theorem: the two limits of acquire are never exceeded, whatever requests
\* are made, fail midway or straddle the expiry of leases.
THEOREM LimitsHold == Spec => []WithinLimits
<1>1. IInv => WithinLimits
  BY DEF IInv, SoundTable, WithinLimits
<1> QED
  BY <1>1, AlwaysIInv, PTL

\* Theorem: a connection never occupies two slots.
THEOREM OneSlot == Spec => []OneSlotPerLease
<1>1. IInv => OneSlotPerLease
  BY DEF IInv, SoundTable, OneSlotPerLease
<1> QED
  BY <1>1, AlwaysIInv, PTL

-----------------------------------------------------------------------------
\* No stored lease runs further ahead of the clock than one lease duration,
\* also when measured from the clock reading of the request in flight.
ExpiryInv ==
  \A l \in leases :
    /\ l.expiresAt <= now + LeaseMs
    /\ \A r \in Request : call[r] # Idle => l.expiresAt <= call[r].at + LeaseMs

\* Lemma: the table a request writes back stays within one lease duration of
\* its clock reading.
LEMMA PutExpiry ==
  ASSUME NEW S, S \subseteq Lease, NEW at \in Nat, NEW k \in SessionKey,
         NEW i \in LeaseId, \A l \in S : l.expiresAt <= at + LeaseMs,
         NEW T,
         \/ T = AcquirePut(S, k, i, at)
         \/ T = HeartbeatPut(S, k, i, at)
         \/ T = ReleasePut(S, k, i)
  PROVE  \A l \in T : l.expiresAt <= at + LeaseMs
<1>1. T \subseteq S \/ T = Extended(S, k, i, at)
  BY DEF AcquirePut, HeartbeatPut, ReleasePut, Without
<1>2. at + LeaseMs <= at + LeaseMs
  BY QuotaAssumption
<1> QED
  BY <1>1, <1>2 DEF Extended, Without

\* Lemma: every answer writes one of the three tables.
LEMMA AnswerPut ==
  ASSUME NEW r \in Request,
         FinishAcquire(r) \/ FinishHeartbeat(r) \/ FinishRelease(r)
  PROVE  LET c == call[r] IN
         /\ call[r] # Idle
         /\ UNCHANGED now
         /\ call' = [call EXCEPT ![r] = Idle]
         /\ \/ leases' = AcquirePut(c.seen, c.key, c.id, c.at)
            \/ leases' = HeartbeatPut(c.seen, c.key, c.id, c.at)
            \/ c.op = "release" /\ leases' = ReleasePut(c.seen, c.key, c.id)
BY DEF FinishAcquire, FinishHeartbeat, FinishRelease, Answer, Idle

\* Lemma: no step breaks the bound on expiries.
LEMMA NextExpiry == IInv /\ ExpiryInv /\ [Next]_vars => ExpiryInv'
<1> SUFFICES ASSUME IInv, ExpiryInv, [Next]_vars PROVE ExpiryInv'
  OBVIOUS
<1>0. now \in Nat /\ \A l \in leases : l.expiresAt \in Nat
  BY DEF IInv, TypeOK, Lease
<1>1. ASSUME NEW r \in Request, NEW op \in Op, NEW k \in SessionKey,
             NEW i \in LeaseId, Begin(r, op, k, i)
      PROVE  ExpiryInv'
  BY <1>1 DEF Begin, ExpiryInv, IInv, TypeOK
<1>2. ASSUME NEW r \in Request,
             FinishAcquire(r) \/ FinishHeartbeat(r) \/ FinishRelease(r)
      PROVE  ExpiryInv'
  <2>1. call[r] # Idle /\ call[r] \in Call /\ call[r].seen \subseteq Lease
    BY <1>2, AnswerPut, SeenSound
  <2>2. /\ call[r].at \in Nat /\ call[r].at <= now
        /\ call[r].key \in SessionKey /\ call[r].id \in LeaseId
    BY <2>1 DEF Call, IInv, GateInv
  <2>3. \A l \in call[r].seen : l.expiresAt <= call[r].at + LeaseMs
    BY <2>1, SeenSound DEF ActiveLeases, ExpiryInv
  <2>4. \A l \in leases' : l.expiresAt <= call[r].at + LeaseMs
    BY <1>2, <2>1, <2>2, <2>3, PutExpiry, AnswerPut
  <2>5. \A q \in Request : call'[q] = Idle
    BY <1>2, <2>1, AnswerPut DEF IInv, GateInv, TypeOK
  <2>6. leases' \subseteq Lease
    BY <1>2, NextIInv DEF IInv, TypeOK, Next
  <2>7. \A l \in leases' : l.expiresAt <= now + LeaseMs
    BY <1>0, <2>2, <2>4, <2>6, QuotaAssumption DEF Lease
  <2> QED
    BY <1>2, <2>5, <2>7, AnswerPut DEF ExpiryInv
<1>3. CASE Evict
  BY <1>3 DEF Evict, ExpiryInv
<1>4. CASE Tick
  BY <1>0, <1>4, QuotaAssumption DEF Tick, ExpiryInv
<1>5. CASE UNCHANGED vars
  BY <1>5 DEF vars, ExpiryInv
<1> QED
  BY <1>1, <1>2, <1>3, <1>4, <1>5 DEF Next

\* Lemma: a lease unexpired at the end of a step survives the step, unless
\* the step is its own release (the step version of NoEviction).
LEMMA StepKeepsLeases ==
  ASSUME IInv, ExpiryInv, [Next]_vars, NEW l \in leases, l.expiresAt > now'
  PROVE  \/ \E m \in leases' :
              Names(m, l.sessionKey, l.leaseId) /\ m.expiresAt >= l.expiresAt
         \/ \E r \in Request :
              call[r].op = "release" /\ Names(l, call[r].key, call[r].id)
<1>1. l.expiresAt \in Nat /\ now \in Nat
  BY DEF IInv, TypeOK, Lease
<1>2. ASSUME l \in leases'
      PROVE  \E m \in leases' :
               Names(m, l.sessionKey, l.leaseId) /\ m.expiresAt >= l.expiresAt
  BY <1>1, <1>2 DEF Names
<1>3. ASSUME NEW r \in Request,
             FinishAcquire(r) \/ FinishHeartbeat(r) \/ FinishRelease(r),
             ~(call[r].op = "release" /\ Names(l, call[r].key, call[r].id))
      PROVE  \E m \in leases' :
               Names(m, l.sessionKey, l.leaseId) /\ m.expiresAt >= l.expiresAt
  <2> DEFINE c == call[r]
  <2>1. /\ c # Idle /\ c \in Call
        /\ c.seen = ActiveLeases(leases, c.at)
    BY <1>3, AnswerPut, SeenSound
  <2>2. c.at \in Nat /\ c.at <= now
    BY <2>1 DEF Call, IInv, GateInv
  <2>3. l \in c.seen
    BY <1>1, <1>3, <2>1, <2>2, AnswerPut DEF ActiveLeases
  <2>4. l.expiresAt <= c.at + LeaseMs
    BY <2>1 DEF ExpiryInv
  <2>5. CASE leases' = c.seen
    BY <1>2, <2>3, <2>5
  <2>6. CASE leases' = Extended(c.seen, c.key, c.id, c.at)
    <3>1. CASE Names(l, c.key, c.id)
      <4> DEFINE e == [sessionKey |-> c.key, leaseId |-> c.id,
                       expiresAt |-> c.at + LeaseMs]
      <4>1. e \in leases'
        BY <2>6 DEF Extended
      <4>2. Names(e, l.sessionKey, l.leaseId) /\ e.expiresAt >= l.expiresAt
        BY <1>1, <2>2, <2>4, <3>1, QuotaAssumption DEF Names
      <4> QED
        BY <4>1, <4>2
    <3>2. CASE ~Names(l, c.key, c.id)
      BY <1>2, <2>3, <2>6, <3>2 DEF Extended, Without
    <3> QED
      BY <3>1, <3>2
  <2>7. CASE c.op = "release" /\ leases' = ReleasePut(c.seen, c.key, c.id)
    BY <1>2, <1>3, <2>3, <2>7 DEF ReleasePut, Without
  <2> QED
    BY <1>3, <2>5, <2>6, <2>7, AnswerPut DEF AcquirePut, HeartbeatPut
<1>4. CASE \E r \in Request :
             FinishAcquire(r) \/ FinishHeartbeat(r) \/ FinishRelease(r)
  BY <1>3, <1>4
<1>5. CASE UNCHANGED leases
  BY <1>2, <1>5
<1> QED
  BY <1>4, <1>5 DEF Next, vars, Begin, Evict, Tick

\* Theorem: nobody loses a running lease to the requests of others, for any
\* number of sessions, connections and overlapping requests.
THEOREM LeasesSurvive == Spec => NoEviction
<1>1. Init => ExpiryInv
  BY DEF Init, ExpiryInv
<1>2. IInv /\ ExpiryInv /\ [Next]_vars => [KeepsLeases]_vars
  BY StepKeepsLeases DEF KeepsLeases
<1> QED
  BY <1>1, <1>2, AlwaysIInv, NextExpiry, PTL DEF Spec, NoEviction

\* Theorem: a request is refused only because of leases that were running when
\* it read the clock, entries that had run out never count, although the answer
\* comes an await after the reading.
THEOREM RefusalsJustified == Spec => RefusalJustified
<1> DEFINE Justified == \A r \in Request :
       call[r] # Idle /\ call'[r] = Idle /\ reply' # reply =>
         LET held == {l \in leases : l.expiresAt > call[r].at} IN
         /\ reply'.result = "session-limit" =>
              Cardinality(OfSession(held, call[r].key)) >= SessionLimit
         /\ reply'.result = "global-limit" =>
              Cardinality(held) >= GlobalLimit
<1>1. ASSUME IInv, Next PROVE Justified
  <2> SUFFICES ASSUME NEW r \in Request, call[r] # Idle, call'[r] = Idle, reply' # reply
               PROVE  LET held == {l \in leases : l.expiresAt > call[r].at} IN
                      /\ reply'.result = "session-limit" =>
                           Cardinality(OfSession(held, call[r].key)) >= SessionLimit
                      /\ reply'.result = "global-limit" =>
                           Cardinality(held) >= GlobalLimit
    OBVIOUS
  <2>1. call[r].seen = {l \in leases : l.expiresAt > call[r].at}
    BY <1>1 DEF IInv, GateInv, ActiveLeases
  <2>2. call \in [Request -> Call \cup {Idle}]
    BY <1>1 DEF IInv, TypeOK
  <2>3. PICK q \in Request : FinishAcquire(q) \/ FinishHeartbeat(q) \/ FinishRelease(q)
    BY <1>1 DEF Next, Begin, Evict, Tick
  <2>4. call' = [call EXCEPT ![q] = Idle]
    BY <2>3 DEF FinishAcquire, FinishHeartbeat, FinishRelease, Answer
  <2>5. q = r
    BY <2>2, <2>4
  <2> DEFINE k == call[r].key
             i == call[r].id
             seen == call[r].seen
  <2>6. CASE FinishAcquire(r)
    <3>1. reply'.result = AcquireReply(seen, k, i)
      BY <2>6 DEF FinishAcquire, Answer
    <3>2. AcquireReply(seen, k, i) = "session-limit" =>
            Cardinality(OfSession(seen, k)) >= SessionLimit
      BY DEF AcquireReply
    <3>3. AcquireReply(seen, k, i) = "global-limit" => Cardinality(seen) >= GlobalLimit
      BY DEF AcquireReply
    <3> QED
      BY <2>1, <3>1, <3>2, <3>3
  <2>7. CASE FinishHeartbeat(r)
    BY <2>7 DEF FinishHeartbeat, Answer, HeartbeatReply
  <2>8. CASE FinishRelease(r)
    BY <2>8 DEF FinishRelease, Answer, ReleaseReply
  <2> QED
    BY <2>3, <2>5, <2>6, <2>7, <2>8
<1>2. IInv /\ [Next]_vars => [Justified]_vars
  BY <1>1
<1> QED
  BY <1>2, AlwaysIInv, PTL DEF Spec, RefusalJustified

-----------------------------------------------------------------------------
\* The slots a set of leases stands for.
Slots(S) == {<<l.sessionKey, l.leaseId>> : l \in S}

\* Lemma: a set of leases occupies no more slots than it has members.
LEMMA SlotsCardinality ==
  ASSUME NEW S, IsFiniteSet(S)
  PROVE  /\ IsFiniteSet(Slots(S))
         /\ Cardinality(Slots(S)) <= Cardinality(S)
         /\ Cardinality(Slots(S)) \in Nat /\ Cardinality(S) \in Nat
<1> DEFINE f == [l \in S |-> <<l.sessionKey, l.leaseId>>]
<1>1. f \in Surjection(S, Slots(S))
  BY DEF Surjection, Slots
<1>2. IsFiniteSet(Slots(S)) /\ Cardinality(Slots(S)) <= Cardinality(S)
  BY <1>1, FS_Surjection
<1> QED
  BY <1>2, FS_CardinalityType

\* Lemma: if acquire or heartbeat writes a slot that is not held at this
\* moment, the leases unexpired now leave room for it.
LEMMA RoomForSlot ==
  ASSUME IInv, NEW r \in Request, call[r] # Idle,
         \/ Holds(call[r].seen, call[r].key, call[r].id)
         \/ /\ Cardinality(OfSession(call[r].seen, call[r].key)) < SessionLimit
            /\ Cardinality(call[r].seen) < GlobalLimit,
         <<call[r].key, call[r].id>> \notin Slots(Active)
  PROVE  /\ Cardinality({h \in Slots(Active) : h[1] = call[r].key}) < SessionLimit
         /\ Cardinality(Slots(Active)) < GlobalLimit
<1> DEFINE k == call[r].key
           i == call[r].id
           S == call[r].seen
<1>1. SoundTable(S) /\ S \subseteq Lease /\ S = ActiveLeases(leases, call[r].at)
  BY SeenSound
<1>2. k \in SessionKey /\ call[r].at \in Nat /\ call[r].at <= now /\ now \in Nat
  BY SeenSound DEF Call, IInv, GateInv, TypeOK
<1>3. \A l \in leases : l.expiresAt \in Nat
  BY DEF IInv, TypeOK, Lease
<1>4. Active \subseteq S
  BY <1>1, <1>2, <1>3 DEF Active, ActiveLeases
<1>5. \A l \in Active : ~Names(l, k, i)
  BY DEF Slots, Names
<1>6. IsFiniteSet(S) /\ IsFiniteSet(OfSession(S, k))
  BY <1>1, FS_Subset DEF SoundTable, OfSession
<1>7. /\ OfSession(Active, k) \subseteq OfSession(S, k)
      /\ IsFiniteSet(Active) /\ IsFiniteSet(OfSession(Active, k))
  BY <1>4, <1>6, FS_Subset DEF OfSession
<1>8. {h \in Slots(Active) : h[1] = k} = Slots(OfSession(Active, k))
  BY DEF Slots, OfSession
<1>9. /\ Cardinality(Active) \in Nat /\ Cardinality(S) \in Nat
      /\ Cardinality(OfSession(Active, k)) \in Nat
      /\ Cardinality(OfSession(S, k)) \in Nat
      /\ Cardinality(Active) <= Cardinality(S)
      /\ Cardinality(OfSession(Active, k)) <= Cardinality(OfSession(S, k))
  BY <1>4, <1>6, <1>7, FS_Subset, FS_CardinalityType
<1>10. /\ Cardinality(OfSession(Active, k)) < SessionLimit
       /\ Cardinality(Active) < GlobalLimit
  <2>1. CASE Holds(S, k, i)
    <3>1. PICK l \in S : Names(l, k, i)
      BY <2>1 DEF Holds
    <3>2. l \in OfSession(S, k) /\ l \notin Active
      BY <1>5, <3>1 DEF OfSession, Names
    <3>3. Active # S /\ OfSession(Active, k) # OfSession(S, k)
      BY <3>1, <3>2 DEF OfSession
    <3>4. /\ Cardinality(Active) # Cardinality(S)
          /\ Cardinality(OfSession(Active, k)) # Cardinality(OfSession(S, k))
      <4>1. Cardinality(Active) = Cardinality(S) => Active = S
        BY <1>4, <1>6, FS_Subset
      <4>2. Cardinality(OfSession(Active, k)) = Cardinality(OfSession(S, k))
              => OfSession(Active, k) = OfSession(S, k)
        BY <1>6, <1>7, FS_Subset
      <4> QED
        BY <3>3, <4>1, <4>2
    <3>5. /\ Cardinality(OfSession(S, k)) <= SessionLimit
          /\ Cardinality(S) <= GlobalLimit
      BY <1>1, <1>2 DEF SoundTable
    <3> HIDE DEF k, i, S
    <3> QED
      BY <1>9, <3>4, <3>5, QuotaAssumption
  <2>2. CASE ~Holds(S, k, i)
    <3>1. /\ Cardinality(OfSession(S, k)) < SessionLimit
          /\ Cardinality(S) < GlobalLimit
      BY <2>2
    <3> HIDE DEF k, i, S
    <3> QED
      BY <1>9, <3>1, QuotaAssumption
  <2> QED
    BY <2>1, <2>2
<1>11. /\ Cardinality(Slots(Active)) \in Nat
       /\ Cardinality(Slots(Active)) <= Cardinality(Active)
       /\ Cardinality(Slots(OfSession(Active, k))) \in Nat
       /\ Cardinality(Slots(OfSession(Active, k))) <=
            Cardinality(OfSession(Active, k))
  BY <1>7, SlotsCardinality
<1> QED
  <2> HIDE DEF k, i, S
  <2>1. /\ Cardinality(Slots(OfSession(Active, k))) < SessionLimit
        /\ Cardinality(Slots(Active)) < GlobalLimit
    BY <1>9, <1>10, <1>11, QuotaAssumption
  <2> QED
    BY <1>8, <2>1 DEF k

\* Lemma: the pool counts its slots as the object counts its leases.
LEMMA PoolCardinality == \A S : Pool!Cardinality(S) = Cardinality(S)
BY DEF Pool!Cardinality, Cardinality, Pool!IsFiniteSet, IsFiniteSet

\* Lemma: a step that changes the held slots only by losing some is a Give.
LEMMA ShrinkIsGive ==
  ASSUME Slots(Active)' \subseteq Slots(Active)
  PROVE  Pool!Next
<1>1. Slots(Active)' = Slots(Active) \ (Slots(Active) \ Slots(Active)')
  OBVIOUS
<1>2. Slots(Active) \ Slots(Active)' \in SUBSET Slots(Active)
  OBVIOUS
<1> QED
  BY <1>1, <1>2 DEF Pool!Next, Pool!Give, Slots

\* Lemma: every step of the object is a step of the pool.
LEMMA StepOfPool == IInv /\ [Next]_vars => [Pool!Next]_(Slots(Active))
<1> SUFFICES ASSUME IInv, [Next]_vars
             PROVE  Pool!Next \/ UNCHANGED Slots(Active)
  OBVIOUS
<1>0. now \in Nat /\ \A l \in leases : l.expiresAt \in Nat
  BY DEF IInv, TypeOK, Lease
<1>1. CASE UNCHANGED <<now, leases>>
  BY <1>1 DEF Slots, Active, ActiveLeases
<1>2. CASE Tick
  <2>1. Active' \subseteq Active
    BY <1>0, <1>2 DEF Tick, Active, ActiveLeases
  <2>2. Slots(Active)' \subseteq Slots(Active)
    BY <2>1 DEF Slots
  <2> QED
    BY <2>2, ShrinkIsGive
<1>3. ASSUME NEW r \in Request,
             FinishAcquire(r) \/ FinishHeartbeat(r) \/ FinishRelease(r)
      PROVE  Pool!Next \/ UNCHANGED Slots(Active)
  <2> DEFINE c == call[r]
             slot == <<c.key, c.id>>
  <2>1. c # Idle /\ UNCHANGED now
    BY <1>3, AnswerPut
  <2>2. /\ c.key \in SessionKey /\ c.id \in LeaseId
        /\ c.seen \subseteq leases
    BY <2>1, SeenSound DEF Call, ActiveLeases
  <2>3. ASSUME leases' \subseteq c.seen
        PROVE  Pool!Next
    <3>1. Active' \subseteq Active
      BY <2>1, <2>2, <2>3 DEF Active, ActiveLeases
    <3>2. Slots(Active)' \subseteq Slots(Active)
      BY <3>1 DEF Slots
    <3> QED
      BY <3>2, ShrinkIsGive
  <2>4. ASSUME leases' = Extended(c.seen, c.key, c.id, c.at),
               \/ Holds(c.seen, c.key, c.id)
               \/ /\ Cardinality(OfSession(c.seen, c.key)) < SessionLimit
                  /\ Cardinality(c.seen) < GlobalLimit
        PROVE  Pool!Next
    <3>1. \A l \in Active' : l \in Active \/ <<l.sessionKey, l.leaseId>> = slot
      BY <2>1, <2>2, <2>4 DEF Active, ActiveLeases, Extended, Without
    <3>2. Slots(Active)' \subseteq Slots(Active) \cup {slot}
      BY <3>1 DEF Slots
    <3>3. CASE slot \in Slots(Active) \/ slot \notin Slots(Active)'
      BY <3>2, <3>3, ShrinkIsGive
    <3>4. CASE slot \notin Slots(Active) /\ slot \in Slots(Active)'
      <4>1. \A l \in Active : ~Names(l, c.key, c.id)
        BY <3>4 DEF Slots, Names
      <4>2. Active \subseteq c.seen
        <5>1. c.seen = ActiveLeases(leases, c.at) /\ c.at \in Nat /\ c.at <= now
          BY <2>1, SeenSound DEF Call, IInv, GateInv
        <5> QED
          BY <1>0, <5>1 DEF Active, ActiveLeases
      <4>3. Active \subseteq Active'
        BY <2>1, <2>4, <4>1, <4>2 DEF Active, ActiveLeases, Extended, Without
      <4>4. Slots(Active)' = Slots(Active) \cup {slot}
        BY <3>2, <3>4, <4>3 DEF Slots
      <4>5. /\ Cardinality({h \in Slots(Active) : h[1] = c.key}) < SessionLimit
            /\ Cardinality(Slots(Active)) < GlobalLimit
        BY <2>1, <2>4, <3>4, RoomForSlot
      <4>6. Pool!Take(c.key, c.id)
        BY <3>4, <4>4, <4>5, PoolCardinality DEF Pool!Take, Slots
      <4>7. \E k \in SessionKey, i \in LeaseId : Pool!Take(k, i)
        BY <2>2, <4>6 DEF Pool!Take
      <4> QED
        BY <4>7 DEF Pool!Next
    <3> QED
      BY <3>3, <3>4
  <2>5. CASE FinishAcquire(r)
    <3>1. CASE AcquireReply(c.seen, c.key, c.id) = "granted"
      <4>1. IsFiniteSet(c.seen) /\ IsFiniteSet(OfSession(c.seen, c.key))
        BY <2>1, SeenSound, FS_Subset DEF SoundTable, OfSession
      <4>2. /\ Cardinality(c.seen) \in Nat
            /\ Cardinality(OfSession(c.seen, c.key)) \in Nat
        BY <4>1, FS_CardinalityType
      <4>3. \/ Holds(c.seen, c.key, c.id)
            \/ /\ Cardinality(OfSession(c.seen, c.key)) < SessionLimit
               /\ Cardinality(c.seen) < GlobalLimit
        BY <3>1, <4>2, QuotaAssumption DEF AcquireReply
      <4> QED
        BY <2>4, <2>5, <3>1, <4>3 DEF FinishAcquire, AcquirePut
    <3>2. CASE AcquireReply(c.seen, c.key, c.id) # "granted"
      BY <2>3, <2>5, <3>2 DEF FinishAcquire, AcquirePut
    <3> QED
      BY <3>1, <3>2
  <2>6. CASE FinishHeartbeat(r)
    BY <2>3, <2>4, <2>6 DEF FinishHeartbeat, HeartbeatPut
  <2>7. CASE FinishRelease(r)
    BY <2>3, <2>7 DEF FinishRelease, ReleasePut, Without
  <2> QED
    BY <1>3, <2>5, <2>6, <2>7
<1> QED
  BY <1>1, <1>2, <1>3 DEF Next, vars, Begin, Evict

\* Theorem: the quota object implements the pool of slots: a slot is taken
\* only while both limits leave room for it at that very moment, although the
\* code decided on a clock reading and an array that are one await old.
THEOREM ImplementsPool == Spec => PoolSpec
<1>1. Init => Pool!Init
  BY DEF Init, Pool!Init, Active, ActiveLeases
<1>2. IInv /\ [Next]_vars =>
        [Pool!Next]_({<<l.sessionKey, l.leaseId>> : l \in Active})
  BY StepOfPool DEF Slots
<1> QED
  BY <1>1, <1>2, AlwaysIInv, PTL DEF Spec, PoolSpec, Pool!Spec

-----------------------------------------------------------------------------
(* The life of a connection.                                               *)

\* A session becomes ready, and its first heartbeat is served, before the
\* lease that handleSsh acquired for it runs out.
StartsInTime == LeaseMs > StartMax + HeartbeatMs + RpcMax

\* The table keeps to the limits, and a lease names the session of its
\* connection.
Owned(L) ==
  /\ SoundTable(L)
  /\ L \subseteq [sessionKey: SessionKey, leaseId: Conn, expiresAt: 0..LeaseMs]
  /\ \A l \in L : l.sessionKey = KeyOf[l.leaseId]

Absent(L, c) == \A l \in L : l.leaseId # c

Lasts(L, c, n) == \E l \in L : l.leaseId = c /\ l.expiresAt > 0 /\ l.expiresAt >= n

\* The ticks the lease of a connection has left at least.
Due(c) ==
  IF task[c] # "open" THEN LeaseMs - age[c]
  ELSE IF beat[c] # "sent" THEN LeaseMs - StartMax - HeartbeatMs + timer[c]
  ELSE LeaseMs - StartMax - HeartbeatMs - HeartbeatMs + timer[c]

\* Where handleSsh and the task may be together.
Stage(c) ==
  /\ worker[c] \in {"idle", "calling"} => task[c] = "none"
  /\ worker[c] = "releasing" /\ task[c] # "none" => c \in lost
  /\ task[c] \in {"none"} \cup Starting => beat[c] = "none"

\* Not begun, or at its end without a failure: no lease.
Unheld(c) ==
  /\ worker[c] = "idle" => Absent(table, c)
  /\ worker[c] = "done" /\ task[c] \in {"none", "done"} /\ c \notin lost
       => Absent(table, c)

\* A session without a lease has been open for less than a period when its
\* next heartbeat is due, and for little more when it is dealt with.
Overstay(c) ==
  /\ task[c] # "open" => over[c] = 0
  /\ task[c] = "open" /\ beat[c] \in {"none", "ok"} => over[c] <= HeartbeatMs - timer[c]
  /\ task[c] = "open" /\ beat[c] \notin {"none", "ok"} =>
       /\ over[c] <= HeartbeatMs + HeartbeatMs - timer[c]
       /\ timer[c] >= HeartbeatMs - RpcMax

Needs(c) == worker[c] = "calling" \/ task[c] \in Starting \cup {"open"}

Cover(c) == StartsInTime /\ c \notin lost /\ Needs(c) => Lasts(table, c, Due(c))

ConnInv(c) == Stage(c) /\ Unheld(c) /\ Overstay(c) /\ Cover(c)

LifecycleInv == LifecycleTypeOK /\ Owned(table) /\ \A c \in Conn : ConnInv(c)

-----------------------------------------------------------------------------
\* What a request of connection c may make of the table.
Put(L, c) ==
  \/ L = table
  \/ L = AcquirePut(ActiveNow, KeyOf[c], c, 0)
  \/ L = HeartbeatPut(ActiveNow, KeyOf[c], c, 0)
  \/ L = ReleasePut(ActiveNow, KeyOf[c], c)

\* Lemma: no request breaks the limits or touches what another connection holds.
LEMMA PutKeeps ==
  ASSUME Owned(table), NEW c \in Conn, NEW L, Put(L, c)
  PROVE  /\ Owned(L)
         /\ \A d \in Conn \ {c} :
              /\ Absent(table, d) => Absent(L, d)
              /\ \A n : Lasts(table, d, n) => Lasts(L, d, n)
<1> DEFINE k == KeyOf[c]
           new == [sessionKey |-> k, leaseId |-> c, expiresAt |-> 0 + LeaseMs]
<1>1. k \in SessionKey /\ c \in LeaseId
  BY LifecycleAssumption DEF Conn
<1>2. ActiveNow \subseteq table /\ SoundTable(ActiveNow) /\ ActiveNow \subseteq Lease
  <2>1. ActiveNow \subseteq table
    BY DEF ActiveNow, ActiveLeases
  <2>2. SoundTable(ActiveNow)
    BY <2>1, FilterSound DEF Owned
  <2>3. table \subseteq Lease
    BY QuotaAssumption DEF Owned, Lease, Conn
  <2> QED
    BY <2>1, <2>2, <2>3
<1>3. ActiveNow = {l \in table : l.expiresAt > 0}
  BY DEF ActiveNow, ActiveLeases
<1>4. /\ L = table \/ L \subseteq ActiveNow \cup {new}
      /\ \A l \in ActiveNow : l.leaseId # c => l \in L
  <2>1. ASSUME NEW l \in ActiveNow, l.leaseId # c
        PROVE  l \in Without(ActiveNow, k, c)
    BY <2>1 DEF Without, Names
  <2>2. Without(ActiveNow, k, c) \subseteq ActiveNow
    BY DEF Without
  <2>3. Extended(ActiveNow, k, c, 0) = Without(ActiveNow, k, c) \cup {new}
    BY DEF Extended
  <2> HIDE DEF new, k
  <2>4. L = table \/ L \in {ActiveNow, Extended(ActiveNow, k, c, 0), Without(ActiveNow, k, c)}
    BY DEF Put, AcquirePut, HeartbeatPut, ReleasePut, k
  <2> QED
    BY <1>2, <2>1, <2>2, <2>3, <2>4
<1>5. SoundTable(L)
  <2>1. CASE L = table
    BY <2>1 DEF Owned
  <2>2. CASE L # table
    BY <1>1, <1>2, <2>2, AcquireSound, HeartbeatSound, ReleaseSound DEF Put
  <2> QED
    BY <2>1, <2>2
<1>6. new \in [sessionKey: SessionKey, leaseId: Conn, expiresAt: 0..LeaseMs]
  BY <1>1, QuotaAssumption
<1>7. Owned(L)
  <2>1. new.sessionKey = KeyOf[new.leaseId]
    OBVIOUS
  <2> HIDE DEF new
  <2> QED
    BY <1>2, <1>4, <1>5, <1>6, <2>1 DEF Owned
<1>8. ASSUME NEW d \in Conn \ {c}
      PROVE  /\ Absent(table, d) => Absent(L, d)
             /\ \A n : Lasts(table, d, n) => Lasts(L, d, n)
  <2>1. new.leaseId # d
    OBVIOUS
  <2> HIDE DEF new
  <2>2. Absent(table, d) => Absent(L, d)
    BY <1>2, <1>4, <2>1 DEF Absent
  <2>3. \A l \in table : l.leaseId = d /\ l.expiresAt > 0 => l \in L
    BY <1>3, <1>4
  <2> QED
    BY <2>2, <2>3 DEF Lasts
<1> QED
  BY <1>7, <1>8

\* Lemma: what a request does for its own connection.
LEMMA PutOwn ==
  ASSUME Owned(table), NEW c \in Conn
  PROVE  /\ Absent(ReleasePut(ActiveNow, KeyOf[c], c), c)
         /\ Absent(table, c) => ~Leased(c) /\ Absent(ActiveNow, c)
         /\ Lasts(Extended(ActiveNow, KeyOf[c], c, 0), c, LeaseMs)
         /\ \A n : Lasts(table, c, n) => Leased(c)
<1>1. ActiveNow = {l \in table : l.expiresAt > 0}
  BY DEF ActiveNow, ActiveLeases
<1>2. Absent(ReleasePut(ActiveNow, KeyOf[c], c), c)
  BY <1>1 DEF ReleasePut, Without, Names, Absent, Owned
<1>3. Absent(table, c) => ~Leased(c) /\ Absent(ActiveNow, c)
  BY <1>1 DEF Absent, Leased, Holds, Names
<1>4. Lasts(Extended(ActiveNow, KeyOf[c], c, 0), c, LeaseMs)
  <2> DEFINE e == [sessionKey |-> KeyOf[c], leaseId |-> c, expiresAt |-> 0 + LeaseMs]
  <2>1. e.leaseId = c /\ e.expiresAt > 0 /\ e.expiresAt >= LeaseMs
    BY QuotaAssumption
  <2>2. e \in Extended(ActiveNow, KeyOf[c], c, 0)
    BY DEF Extended
  <2> HIDE DEF e
  <2> QED
    BY <2>1, <2>2 DEF Lasts
<1>5. \A n : Lasts(table, c, n) => Leased(c)
  BY <1>1 DEF Lasts, Leased, Holds, Names, Owned
<1> QED
  BY <1>2, <1>3, <1>4, <1>5

\* Lemma: a step of one connection leaves the invariant of the others alone.
LEMMA OneConn ==
  ASSUME LifecycleInv, LifecycleTypeOK', NEW c \in Conn, Put(table', c), ConnInv(c)',
         \A d \in Conn \ {c} :
           /\ worker'[d] = worker[d] /\ task'[d] = task[d] /\ timer'[d] = timer[d]
           /\ beat'[d] = beat[d] /\ age'[d] = age[d] /\ over'[d] = over[d]
           /\ d \in lost <=> d \in lost'
  PROVE  LifecycleInv'
<1>1. Owned(table')
  BY PutKeeps DEF LifecycleInv
<1>2. ASSUME NEW d \in Conn \ {c}
      PROVE  ConnInv(d)'
  <2>1. ConnInv(d)
    BY DEF LifecycleInv
  <2>2. /\ Absent(table, d) => Absent(table', d)
        /\ \A n : Lasts(table, d, n) => Lasts(table', d, n)
    BY PutKeeps DEF LifecycleInv
  <2>3. Due(d)' = Due(d)
    BY DEF Due
  <2>4. Stage(d)' /\ Overstay(d)'
    BY <2>1 DEF ConnInv, Stage, Overstay
  <2>5. Unheld(d)'
    BY <2>1, <2>2 DEF ConnInv, Unheld
  <2>6. Cover(d)'
    BY <2>1, <2>2, <2>3 DEF ConnInv, Cover, Needs
  <2> QED
    BY <2>4, <2>5, <2>6 DEF ConnInv
<1> QED
  BY <1>1, <1>2 DEF LifecycleInv

-----------------------------------------------------------------------------
\* Lemma: the inductive invariant holds initially.
LEMMA LifecycleInitInv == LifecycleInit => LifecycleInv
<1> SUFFICES ASSUME LifecycleInit PROVE LifecycleInv
  OBVIOUS
<1>1. LifecycleTypeOK
  BY LifecycleAssumption DEF LifecycleInit, LifecycleTypeOK
<1>2. Owned(table)
  <2>1. IsFiniteSet({}) /\ Cardinality({}) = 0
    BY FS_EmptySet
  <2>2. \A k : OfSession({}, k) = {}
    BY DEF OfSession
  <2> QED
    BY <2>1, <2>2, QuotaAssumption DEF Owned, SoundTable, LifecycleInit
<1>3. ASSUME NEW c \in Conn
      PROVE  ConnInv(c)
  BY <1>3 DEF ConnInv, Stage, Unheld, Overstay, Cover, Needs, Absent, LifecycleInit, Starting
<1> QED
  BY <1>1, <1>2, <1>3 DEF LifecycleInv

-----------------------------------------------------------------------------
\* Lemma: the steps of handleSsh.
LEMMA HandlingStep ==
  ASSUME LifecycleInv, NEW c \in Conn, Handling(c)
  PROVE  LifecycleInv'
<1> USE DEF LifecycleInv
<1>1. /\ LifecycleTypeOK /\ Owned(table) /\ ConnInv(c)
      /\ Stage(c) /\ Unheld(c) /\ Overstay(c) /\ Cover(c)
  BY DEF ConnInv
<1>2. /\ Absent(ReleasePut(ActiveNow, KeyOf[c], c), c)
      /\ Absent(table, c) => Absent(ActiveNow, c)
      /\ Lasts(Extended(ActiveNow, KeyOf[c], c, 0), c, LeaseMs)
  BY PutOwn
<1>3. SUFFICES /\ LifecycleTypeOK' /\ Put(table', c) /\ ConnInv(c)'
               /\ \A d \in Conn \ {c} :
                    /\ worker'[d] = worker[d] /\ task'[d] = task[d] /\ timer'[d] = timer[d]
                    /\ beat'[d] = beat[d] /\ age'[d] = age[d] /\ over'[d] = over[d]
                    /\ d \in lost <=> d \in lost'
  BY OneConn
<1>4. table' \subseteq [sessionKey: SessionKey, leaseId: Conn, expiresAt: 0..LeaseMs]
  <2>1. Put(table', c)
    BY DEF Handling, Acquire, AcquireFails, Connect, ConnectRefused, ConnectReplyLost,
           WorkerRelease, WorkerGone, AcquireFor, ReleaseFor, Put
  <2> QED
    BY <2>1, PutKeeps DEF Owned
<1>5. CASE Acquire(c)
  <2>1. Put(table', c)
    BY <1>5 DEF Acquire, AcquireFor, Put
  <2>2. LifecycleTypeOK'
    BY <1>1, <1>4, <1>5 DEF LifecycleTypeOK, Acquire
  <2>3. Absent(table, c) /\ worker[c] = "idle" /\ task[c] = "none"
    BY <1>1, <1>5 DEF Unheld, Stage, Acquire
  <2>4. CASE AcquireReply(ActiveNow, KeyOf[c], c) = "granted"
    <3>1. table' = Extended(ActiveNow, KeyOf[c], c, 0) /\ worker'[c] = "calling"
      BY <1>1, <1>5, <2>4 DEF Acquire, AcquireFor, AcquirePut, LifecycleTypeOK
    <3>2. Due(c)' <= LeaseMs
      BY <1>1, <1>5, <2>3, QuotaAssumption, LifecycleAssumption DEF Due, Acquire, LifecycleTypeOK
    <3>3. Due(c)' \in Int
      BY <1>1, <1>5, <2>3, QuotaAssumption, LifecycleAssumption DEF Due, Acquire, LifecycleTypeOK
    <3>4. Lasts(table', c, Due(c)')
      <4>1. PICK l \in table' : l.leaseId = c /\ l.expiresAt > 0 /\ l.expiresAt >= LeaseMs
        BY <1>2, <3>1 DEF Lasts
      <4>2. l.expiresAt \in Nat
        BY <1>4, QuotaAssumption
      <4> QED
        BY <3>2, <3>3, <4>1, <4>2, QuotaAssumption DEF Lasts
    <3> QED
      BY <1>1, <1>5, <2>1, <2>2, <2>3, <3>1, <3>4
      DEF Acquire, ConnInv, Stage, Unheld, Overstay, Cover, LifecycleTypeOK
  <2>5. CASE AcquireReply(ActiveNow, KeyOf[c], c) # "granted"
    <3>1. table' = ActiveNow /\ worker'[c] = "done"
      BY <1>1, <1>5, <2>5 DEF Acquire, AcquireFor, AcquirePut, LifecycleTypeOK
    <3> QED
      BY <1>1, <1>2, <1>5, <2>1, <2>2, <2>3, <3>1
      DEF Acquire, ConnInv, Stage, Unheld, Overstay, Cover, Needs, Starting, LifecycleTypeOK
  <2> QED
    BY <2>4, <2>5
<1>6. CASE \E delivered \in BOOLEAN : AcquireFails(c, delivered)
  <2>1. PICK delivered \in BOOLEAN : AcquireFails(c, delivered)
    BY <1>6
  <2>2. Put(table', c)
    BY <2>1 DEF AcquireFails, AcquireFor, Put
  <2>3. LifecycleTypeOK'
    BY <1>1, <1>4, <2>1 DEF LifecycleTypeOK, AcquireFails, Fails
  <2> QED
    BY <1>1, <2>1, <2>2, <2>3
    DEF AcquireFails, Fails, ConnInv, Stage, Unheld, Overstay, Cover, LifecycleTypeOK
<1>7. CASE Connect(c)
  <2>1. LifecycleTypeOK' /\ Put(table', c)
    BY <1>1, <1>7 DEF LifecycleTypeOK, Connect, Starting, Put
  <2>2. Due(c)' = Due(c)
    BY <1>1, <1>7 DEF Due, Connect, Stage, LifecycleTypeOK
  <2> QED
    BY <1>1, <1>7, <2>1, <2>2
    DEF Connect, ConnInv, Stage, Unheld, Overstay, Cover, Needs, Starting, LifecycleTypeOK
<1>8. CASE ConnectRefused(c) \/ ConnectReplyLost(c)
  <2>1. LifecycleTypeOK' /\ Put(table', c)
    BY <1>1, <1>8, LifecycleAssumption
    DEF LifecycleTypeOK, ConnectRefused, ConnectReplyLost, Fails, Starting, Put
  <2> QED
    BY <1>1, <1>8, <2>1
    DEF ConnectRefused, ConnectReplyLost, Fails, ConnInv, Stage, Unheld, Overstay, Cover,
        Needs, Starting, LifecycleTypeOK
<1>9. CASE WorkerRelease(c)
  <2>1. LifecycleTypeOK' /\ Put(table', c)
    BY <1>1, <1>4, <1>9 DEF LifecycleTypeOK, WorkerRelease, ReleaseFor, Put
  <2> QED
    BY <1>1, <1>2, <1>9, <2>1
    DEF WorkerRelease, ReleaseFor, ConnInv, Stage, Unheld, Overstay, Cover, Needs,
        Starting, LifecycleTypeOK
<1>10. CASE \E delivered \in BOOLEAN : WorkerGone(c, delivered)
  <2>1. PICK delivered \in BOOLEAN : WorkerGone(c, delivered)
    BY <1>10
  <2>2. LifecycleTypeOK' /\ Put(table', c)
    BY <1>1, <1>4, <2>1, LifecycleAssumption DEF LifecycleTypeOK, WorkerGone, ReleaseFor, Fails, Put
  <2> QED
    BY <1>1, <2>1, <2>2
    DEF WorkerGone, Fails, ConnInv, Stage, Unheld, Overstay, Cover, LifecycleTypeOK
<1> QED
  BY <1>5, <1>6, <1>7, <1>8, <1>9, <1>10 DEF Handling

\* Lemma: the steps that end a session, or leave it unheard.
LEMMA LeavingStep ==
  ASSUME LifecycleInv, NEW c \in Conn, Leaving(c) \/ LoadFails(c) \/ StartFails(c)
  PROVE  LifecycleInv'
<1> USE DEF LifecycleInv
<1>1. /\ LifecycleTypeOK /\ Owned(table) /\ ConnInv(c)
      /\ Stage(c) /\ Unheld(c) /\ Overstay(c) /\ Cover(c)
  BY DEF ConnInv
<1>3. SUFFICES /\ LifecycleTypeOK' /\ Put(table', c) /\ ConnInv(c)'
               /\ \A d \in Conn \ {c} :
                    /\ worker'[d] = worker[d] /\ task'[d] = task[d] /\ timer'[d] = timer[d]
                    /\ beat'[d] = beat[d] /\ age'[d] = age[d] /\ over'[d] = over[d]
                    /\ d \in lost <=> d \in lost'
  BY OneConn
<1>4. CASE LeavesUnheard(c)
  <2>1. LifecycleTypeOK' /\ Put(table', c)
    BY <1>1, <1>4 DEF LifecycleTypeOK, LeavesUnheard, Put
  <2>2. Due(c)' = Due(c)
    BY <1>4 DEF Due, LeavesUnheard
  <2> QED
    BY <1>1, <1>4, <2>1, <2>2
    DEF LeavesUnheard, ConnInv, Stage, Unheld, Overstay, Cover, Needs
<1>5. CASE SessionEnds(c) \/ LoadFails(c) \/ StartFails(c)
  <2>1. LifecycleTypeOK' /\ Put(table', c)
    BY <1>1, <1>5, LifecycleAssumption
    DEF LifecycleTypeOK, SessionEnds, LoadFails, StartFails, Ending, Put
  <2>2. /\ Ending(c) /\ worker' = worker /\ table' = table /\ lost' = lost /\ beat' = beat
        /\ task[c] \in Starting \cup {"open"}
    BY <1>5 DEF SessionEnds, LoadFails, StartFails, Starting
  <2> QED
    BY <1>1, <2>1, <2>2
    DEF Ending, ConnInv, Stage, Unheld, Overstay, Cover, Needs, Starting, LifecycleTypeOK
<1>6. CASE ObjectLost(c)
  <2>1. LifecycleTypeOK' /\ Put(table', c)
    BY <1>1, <1>6, LifecycleAssumption DEF LifecycleTypeOK, ObjectLost, Fails, Put
  <2> QED
    BY <1>1, <1>6, <2>1
    DEF ObjectLost, Fails, ConnInv, Stage, Unheld, Overstay, Cover, Needs, Starting, LifecycleTypeOK
<1> QED
  BY <1>4, <1>5, <1>6 DEF Leaving

\* Lemma: the engine is loaded, the session becomes ready.
LEMMA StartsStep ==
  ASSUME LifecycleInv, NEW c \in Conn, Loaded(c) \/ Started(c)
  PROVE  LifecycleInv'
<1> USE DEF LifecycleInv
<1>1. /\ LifecycleTypeOK /\ Owned(table) /\ ConnInv(c)
      /\ Stage(c) /\ Unheld(c) /\ Overstay(c) /\ Cover(c)
  BY DEF ConnInv
<1>3. SUFFICES /\ LifecycleTypeOK' /\ Put(table', c) /\ ConnInv(c)'
               /\ \A d \in Conn \ {c} :
                    /\ worker'[d] = worker[d] /\ task'[d] = task[d] /\ timer'[d] = timer[d]
                    /\ beat'[d] = beat[d] /\ age'[d] = age[d] /\ over'[d] = over[d]
                    /\ d \in lost <=> d \in lost'
  BY OneConn
<1>4. CASE Loaded(c)
  <2>1. LifecycleTypeOK' /\ Put(table', c)
    BY <1>1, <1>4 DEF LifecycleTypeOK, Loaded, Starting, Put
  <2>2. Due(c)' = Due(c)
    BY <1>1, <1>4 DEF Due, Loaded, LifecycleTypeOK
  <2> QED
    BY <1>1, <1>4, <2>1, <2>2
    DEF Loaded, ConnInv, Stage, Unheld, Overstay, Cover, Needs, Starting, LifecycleTypeOK
<1>5. CASE Started(c)
  <2>1. LifecycleTypeOK' /\ Put(table', c)
    BY <1>1, <1>5, LifecycleAssumption DEF LifecycleTypeOK, Started, Starting, Put
  <2>2. /\ task[c] = "connecting" /\ task'[c] = "open" /\ beat[c] = "none"
        /\ timer'[c] = HeartbeatMs /\ over[c] = 0 /\ worker[c] \notin {"idle", "calling"}
        /\ UNCHANGED <<table, worker, beat, over, lost>>
    BY <1>1, <1>5 DEF Started, Stage, Overstay, Starting, LifecycleTypeOK
  <2>3. Due(c)' <= Due(c) /\ Due(c)' \in Int /\ Due(c) \in Int
    BY <1>1, <2>2, QuotaAssumption, LifecycleAssumption DEF Due, LifecycleTypeOK
  <2>4. Cover(c)'
    <3>1. SUFFICES ASSUME StartsInTime, c \notin lost
                   PROVE  Lasts(table, c, Due(c)')
      BY <2>2 DEF Cover
    <3>2. PICK l \in table : l.leaseId = c /\ l.expiresAt > 0 /\ l.expiresAt >= Due(c)
      BY <1>1, <2>2, <3>1 DEF Cover, Needs, Starting, Lasts
    <3>3. l.expiresAt \in Nat
      BY <1>1 DEF Owned
    <3> QED
      BY <2>3, <3>2, <3>3 DEF Lasts
  <2> QED
    BY <1>1, <1>5, <2>1, <2>2, <2>4, LifecycleAssumption
    DEF Started, ConnInv, Stage, Unheld, Overstay, Starting
<1> QED
  BY <1>4, <1>5

\* Lemma: the release of the task.
LEMMA ReleasesStep ==
  ASSUME LifecycleInv, NEW c \in Conn, Releases(c)
  PROVE  LifecycleInv'
<1> USE DEF LifecycleInv
<1>1. /\ LifecycleTypeOK /\ Owned(table) /\ ConnInv(c)
      /\ Stage(c) /\ Unheld(c) /\ Overstay(c) /\ Cover(c)
  BY DEF ConnInv
<1>2. Absent(ReleasePut(ActiveNow, KeyOf[c], c), c)
  BY PutOwn
<1>3. SUFFICES /\ LifecycleTypeOK' /\ Put(table', c) /\ ConnInv(c)'
               /\ \A d \in Conn \ {c} :
                    /\ worker'[d] = worker[d] /\ task'[d] = task[d] /\ timer'[d] = timer[d]
                    /\ beat'[d] = beat[d] /\ age'[d] = age[d] /\ over'[d] = over[d]
                    /\ d \in lost <=> d \in lost'
  BY OneConn
<1>4. table' \subseteq [sessionKey: SessionKey, leaseId: Conn, expiresAt: 0..LeaseMs]
  <2>1. Put(table', c)
    BY DEF Releases, TaskRelease, TaskReleaseFails, ReleaseFor, Put
  <2> QED
    BY <2>1, PutKeeps DEF Owned
<1>5. CASE TaskRelease(c)
  <2>1. LifecycleTypeOK' /\ Put(table', c)
    BY <1>1, <1>4, <1>5 DEF LifecycleTypeOK, TaskRelease, ReleaseFor, Put
  <2> QED
    BY <1>1, <1>2, <1>5, <2>1
    DEF TaskRelease, ReleaseFor, ConnInv, Stage, Unheld, Overstay, Cover, Needs, Starting,
        LifecycleTypeOK
<1>6. CASE \E delivered \in BOOLEAN : TaskReleaseFails(c, delivered)
  <2>1. PICK delivered \in BOOLEAN : TaskReleaseFails(c, delivered)
    BY <1>6
  <2>2. LifecycleTypeOK' /\ Put(table', c)
    BY <1>1, <1>4, <2>1 DEF LifecycleTypeOK, TaskReleaseFails, ReleaseFor, Fails, Put
  <2> QED
    BY <1>1, <2>1, <2>2
    DEF TaskReleaseFails, Fails, ConnInv, Stage, Unheld, Overstay, Cover, Starting, LifecycleTypeOK
<1> QED
  BY <1>5, <1>6 DEF Releases

\* Lemma: a heartbeat is sent, served or lost, and answered.
LEMMA BeatsStep ==
  ASSUME LifecycleInv, NEW c \in Conn, Beats(c)
  PROVE  LifecycleInv'
<1> USE DEF LifecycleInv
<1>1. /\ LifecycleTypeOK /\ Owned(table) /\ ConnInv(c)
      /\ Stage(c) /\ Unheld(c) /\ Overstay(c) /\ Cover(c)
  BY DEF ConnInv
<1>2. /\ Absent(table, c) => ~Leased(c)
      /\ Lasts(Extended(ActiveNow, KeyOf[c], c, 0), c, LeaseMs)
      /\ \A n : Lasts(table, c, n) => Leased(c)
  BY PutOwn
<1>3. SUFFICES /\ LifecycleTypeOK' /\ Put(table', c) /\ ConnInv(c)'
               /\ \A d \in Conn \ {c} :
                    /\ worker'[d] = worker[d] /\ task'[d] = task[d] /\ timer'[d] = timer[d]
                    /\ beat'[d] = beat[d] /\ age'[d] = age[d] /\ over'[d] = over[d]
                    /\ d \in lost <=> d \in lost'
  BY OneConn
<1>4. table' \subseteq [sessionKey: SessionKey, leaseId: Conn, expiresAt: 0..LeaseMs]
  <2>1. Put(table', c)
    BY DEF Beats, Beat, BeatServed, BeatAnswered, BeatFails, RenewFor, Put
  <2> QED
    BY <2>1, PutKeeps DEF Owned
<1>5. CASE Beat(c)
  <2>1. LifecycleTypeOK' /\ Put(table', c)
    BY <1>1, <1>5, LifecycleAssumption DEF LifecycleTypeOK, Beat, Put
  <2>2. /\ task[c] = "open" /\ beat[c] = "none" /\ timer[c] = 0
        /\ beat'[c] = "sent" /\ timer'[c] = HeartbeatMs
        /\ UNCHANGED <<table, worker, task, age, over, lost>>
    BY <1>1, <1>5 DEF Beat, LifecycleTypeOK
  <2>3. Due(c)' = Due(c)
    BY <1>1, <2>2, QuotaAssumption, LifecycleAssumption DEF Due, LifecycleTypeOK
  <2>4. Overstay(c)'
    BY <1>1, <2>2, LifecycleAssumption DEF Overstay, LifecycleTypeOK
  <2> QED
    BY <1>1, <1>5, <2>1, <2>2, <2>3, <2>4
    DEF Beat, ConnInv, Stage, Unheld, Cover, Needs, Starting
<1>6. CASE BeatServed(c)
  <2>1. Put(table', c)
    BY <1>6 DEF BeatServed, RenewFor, Put
  <2>2. /\ beat[c] = "sent"
        /\ beat'[c] = IF Leased(c) THEN "ok" ELSE "gone"
        /\ over'[c] = IF Leased(c) THEN 0 ELSE over[c]
        /\ table' = IF Leased(c) THEN Extended(ActiveNow, KeyOf[c], c, 0) ELSE ActiveNow
        /\ UNCHANGED <<worker, task, age, timer, lost>>
    BY <1>1, <1>6 DEF BeatServed, RenewFor, HeartbeatReply, HeartbeatPut, Leased, LifecycleTypeOK
  <2>3. LifecycleTypeOK'
    BY <1>1, <1>4, <1>6 DEF BeatServed, HeartbeatReply, LifecycleTypeOK
  <2>4. Stage(c)' /\ Overstay(c)'
    BY <1>1, <2>2, LifecycleAssumption DEF Stage, Overstay, LifecycleTypeOK
  <2>5. Unheld(c)'
    <3>1. Absent(table, c) => Absent(table', c)
      BY <1>2, <2>2, PutOwn
    <3> QED
      BY <1>1, <2>2, <3>1 DEF Unheld
  <2>6. Cover(c)'
    <3>1. SUFFICES ASSUME StartsInTime, c \notin lost, Needs(c)
                   PROVE  Lasts(table', c, Due(c)')
      BY <2>2 DEF Cover, Needs
    <3>2. Leased(c)
      BY <1>1, <1>2, <3>1 DEF Cover
    <3>3. Lasts(table', c, LeaseMs)
      BY <1>2, <2>2, <3>2
    <3>4. Due(c)' \in Int /\ Due(c)' <= LeaseMs
      BY <1>1, <2>2, <3>2, QuotaAssumption, LifecycleAssumption DEF Due, LifecycleTypeOK
    <3>5. PICK l \in table' : l.leaseId = c /\ l.expiresAt > 0 /\ l.expiresAt >= LeaseMs
      BY <3>3 DEF Lasts
    <3>6. l.expiresAt \in Nat
      BY <1>4
    <3> QED
      BY <3>4, <3>5, <3>6, QuotaAssumption DEF Lasts
  <2> QED
    BY <1>6, <2>1, <2>3, <2>4, <2>5, <2>6 DEF BeatServed, ConnInv
<1>7. CASE \E delivered \in BOOLEAN : BeatFails(c, delivered)
  <2>1. PICK delivered \in BOOLEAN : BeatFails(c, delivered)
    BY <1>7
  <2>2. LifecycleTypeOK' /\ Put(table', c)
    BY <1>1, <1>4, <2>1 DEF LifecycleTypeOK, BeatFails, RenewFor, Fails, Put
  <2>3. Absent(table, c) => Absent(table', c)
    <3>1. Absent(table, c) => ~Leased(c) /\ Absent(ActiveNow, c)
      BY PutOwn
    <3> QED
      BY <2>1, <3>1 DEF BeatFails, RenewFor, HeartbeatPut, Leased
  <2>4. Unheld(c)'
    BY <1>1, <2>1, <2>3 DEF Unheld, BeatFails, Fails
  <2> QED
    BY <1>1, <2>1, <2>2, <2>4
    DEF BeatFails, Fails, ConnInv, Stage, Overstay, Cover, LifecycleTypeOK
<1>8. CASE BeatAnswered(c)
  <2>1. LifecycleTypeOK' /\ Put(table', c)
    BY <1>1, <1>8, LifecycleAssumption DEF LifecycleTypeOK, BeatAnswered, Ending, Put
  <2>2. CASE task[c] = "open" /\ beat[c] # "ok"
    <3>1. Ending(c) /\ UNCHANGED <<table, worker, lost>>
      BY <1>8, <2>2 DEF BeatAnswered
    <3> QED
      BY <1>1, <1>8, <2>1, <2>2, <3>1
      DEF BeatAnswered, Ending, ConnInv, Stage, Unheld, Overstay, Cover, Needs, Starting,
          LifecycleTypeOK
  <2>3. CASE ~(task[c] = "open" /\ beat[c] # "ok")
    <3>1. beat'[c] = "none" /\ UNCHANGED <<table, worker, lost, task, timer, age, over>>
      BY <1>1, <1>8, <2>3 DEF BeatAnswered, LifecycleTypeOK
    <3>2. Due(c)' = Due(c)
      BY <1>1, <1>8, <2>3, <3>1 DEF Due, BeatAnswered, LifecycleTypeOK
    <3> QED
      BY <1>1, <1>8, <2>1, <2>3, <3>1, <3>2
      DEF BeatAnswered, ConnInv, Stage, Unheld, Overstay, Cover, Needs
  <2> QED
    BY <2>2, <2>3
<1> QED
  BY <1>5, <1>6, <1>7, <1>8 DEF Beats

-----------------------------------------------------------------------------
\* Lemma: counting down keeps the table within the limits.
LEMMA AgedSound ==
  ASSUME Owned(table)
  PROVE  /\ Owned(Aged)
         /\ \A c \in Conn :
              /\ Absent(table, c) => Absent(Aged, c)
              /\ \A l \in table : l.leaseId = c =>
                   \E m \in Aged : m.leaseId = c /\ m.expiresAt = Down1(l.expiresAt)
<1> DEFINE Down(l) == [l EXCEPT !.expiresAt = Down1(@)]
           Entry == [sessionKey: SessionKey, leaseId: Conn, expiresAt: 0..LeaseMs]
           Old(m) == CHOOSE l \in table : m = Down(l)
<1>1. table \subseteq Entry /\ SoundTable(table)
  BY DEF Owned
<1>2. ASSUME NEW l \in table
      PROVE  /\ Down(l) \in Entry
             /\ Down(l).sessionKey = l.sessionKey /\ Down(l).leaseId = l.leaseId
             /\ Down(l).expiresAt = Down1(l.expiresAt)
  BY <1>1, QuotaAssumption DEF Down1
<1>3. Aged = {Down(l) : l \in table}
  BY DEF Aged
<1> HIDE DEF Down, Entry
<1>4. ASSUME NEW m \in Aged
      PROVE  /\ Old(m) \in table
             /\ m.sessionKey = Old(m).sessionKey /\ m.leaseId = Old(m).leaseId
  <2>1. \E l \in table : m = Down(l)
    BY <1>3
  <2>2. Old(m) \in table /\ m = Down(Old(m))
    BY <2>1
  <2> QED
    BY <1>2, <2>2
<1> HIDE DEF Old
<1>5. \A l, m \in table :
        l.sessionKey = m.sessionKey /\ l.leaseId = m.leaseId => l = m
  BY <1>1 DEF SoundTable
<1>6. \A l, m \in Aged :
        l.sessionKey = m.sessionKey /\ l.leaseId = m.leaseId => l = m
  BY <1>2, <1>3, <1>5
<1>7. ASSUME NEW S \in SUBSET Aged, NEW T \in SUBSET table, IsFiniteSet(T),
             \A m \in S : Old(m) \in T
      PROVE  IsFiniteSet(S) /\ Cardinality(S) <= Cardinality(T)
  <2> DEFINE f == [m \in S |-> Old(m)]
  <2>1. f \in [S -> T]
    BY <1>7
  <2>2. \A m, n \in S : f[m] = f[n] => m = n
    BY <1>4, <1>6, <1>7
  <2>3. f \in Injection(S, T)
    BY <2>1, <2>2 DEF Injection, IsInjective
  <2> HIDE DEF f
  <2> QED
    BY <1>7, <2>3, FS_Injection
<1>8. IsFiniteSet(Aged) /\ Cardinality(Aged) <= Cardinality(table)
  BY <1>1, <1>4, <1>7 DEF SoundTable
<1>9. ASSUME NEW k \in SessionKey
      PROVE  /\ IsFiniteSet(OfSession(Aged, k)) /\ IsFiniteSet(OfSession(table, k))
             /\ Cardinality(OfSession(Aged, k)) <= Cardinality(OfSession(table, k))
  <2>1. IsFiniteSet(OfSession(table, k))
    BY <1>1, FS_Subset DEF SoundTable, OfSession
  <2>2. OfSession(Aged, k) \in SUBSET Aged /\ OfSession(table, k) \in SUBSET table
    BY DEF OfSession
  <2>3. \A m \in OfSession(Aged, k) : Old(m) \in OfSession(table, k)
    BY <1>4 DEF OfSession
  <2> QED
    BY <1>7, <2>1, <2>2, <2>3
<1>10. SoundTable(Aged)
  <2>1. Cardinality(Aged) \in Nat /\ Cardinality(table) \in Nat
    BY <1>1, <1>8, FS_CardinalityType DEF SoundTable
  <2>2. \A k \in SessionKey :
          /\ Cardinality(OfSession(Aged, k)) \in Nat
          /\ Cardinality(OfSession(table, k)) \in Nat
    BY <1>9, FS_CardinalityType
  <2> QED
    BY <1>1, <1>6, <1>8, <1>9, <2>1, <2>2, QuotaAssumption DEF SoundTable
<1>11. Owned(Aged)
  <2>1. Aged \subseteq Entry
    BY <1>2, <1>3
  <2> QED
    BY <1>4, <1>10, <2>1 DEF Owned, Entry
<1> QED
  BY <1>2, <1>3, <1>4, <1>11 DEF Absent

\* Lemma: the passing of a tick.
LEMMA ElapseStep == LifecycleInv /\ Elapse => LifecycleInv'
<1> SUFFICES ASSUME LifecycleInv, Elapse PROVE LifecycleInv'
  OBVIOUS
<1>1. LifecycleTypeOK /\ Owned(table) /\ table' = Aged
      /\ UNCHANGED <<worker, task, beat, lost>>
  BY DEF LifecycleInv, Elapse
<1>2. Owned(table')
  BY <1>1, AgedSound
<1>3. \A c \in Conn : timer[c] \in 0..HeartbeatMs /\ age[c] \in 0..StartMax /\ over[c] \in Nat
  BY <1>1 DEF LifecycleTypeOK
<1>4. ASSUME NEW c \in Conn
      PROVE  /\ timer'[c] = Down1(timer[c])
             /\ age'[c] = IF InProgress(c) THEN age[c] + 1 ELSE age[c]
             /\ over'[c] \in {over[c], over[c] + 1}
             /\ task[c] # "open" => over'[c] = over[c]
             /\ InProgress(c) => age[c] < StartMax
             /\ task[c] = "open" => timer[c] > 0
             /\ task[c] = "open" /\ beat[c] # "none" => timer[c] > HeartbeatMs - RpcMax
  BY DEF Elapse, MayTick
<1>5. LifecycleTypeOK'
  <2>1. timer' \in [Conn -> 0..HeartbeatMs]
    <3>1. \A c \in Conn : Down1(timer[c]) \in 0..HeartbeatMs
      BY <1>3, LifecycleAssumption DEF Down1
    <3> QED
      BY <3>1 DEF Elapse
  <2>2. age' \in [Conn -> 0..StartMax]
    <3>1. \A c \in Conn : (IF InProgress(c) THEN age[c] + 1 ELSE age[c]) \in 0..StartMax
      BY <1>3, <1>4, LifecycleAssumption
    <3> QED
      BY <3>1 DEF Elapse
  <2>3. over' \in [Conn -> Nat]
    BY <1>3 DEF Elapse
  <2> QED
    BY <1>1, <1>2, <2>1, <2>2, <2>3 DEF LifecycleTypeOK, Elapse, Owned
<1>6. ASSUME NEW c \in Conn
      PROVE  ConnInv(c)'
  <2>1. Stage(c) /\ Unheld(c) /\ Overstay(c) /\ Cover(c)
    BY DEF LifecycleInv, ConnInv
  <2>2. Stage(c)'
    BY <1>1, <2>1 DEF Stage
  <2>3. Unheld(c)'
    BY <1>1, <2>1, AgedSound DEF Unheld
  <2>4. Overstay(c)'
    BY <1>1, <1>3, <1>4, <2>1, LifecycleAssumption DEF Overstay, Down1
  <2>5. Cover(c)'
    <3>1. SUFFICES ASSUME StartsInTime, c \notin lost, Needs(c)
                   PROVE  Lasts(table', c, Due(c)')
      BY <1>1 DEF Cover, Needs
    <3>2. PICK l \in table : l.leaseId = c /\ l.expiresAt > 0 /\ l.expiresAt >= Due(c)
      BY <2>1, <3>1 DEF Cover, Lasts
    <3>3. l.expiresAt \in Nat
      BY <1>1 DEF Owned
    <3>4. PICK m \in table' : m.leaseId = c /\ m.expiresAt = Down1(l.expiresAt)
      BY <1>1, <3>2, AgedSound
    <3>5. m.expiresAt = l.expiresAt - 1
      BY <3>2, <3>3, <3>4 DEF Down1
    <3>6. Due(c)' = Due(c) - 1 /\ Due(c)' >= 1 /\ Due(c) \in Int /\ Due(c)' \in Int
      <4>1. CASE task[c] = "open"
        BY <1>1, <1>3, <1>4, <3>1, <4>1, QuotaAssumption, LifecycleAssumption
        DEF Due, Down1, StartsInTime
      <4>2. CASE task[c] # "open"
        <5>1. InProgress(c)
          BY <3>1, <4>2 DEF Needs, InProgress
        <5> QED
          BY <1>1, <1>3, <1>4, <3>1, <4>2, <5>1, QuotaAssumption, LifecycleAssumption
          DEF Due, StartsInTime
      <4> QED
        BY <4>1, <4>2
    <3> QED
      BY <3>2, <3>3, <3>4, <3>5, <3>6 DEF Lasts
  <2> QED
    BY <2>2, <2>3, <2>4, <2>5 DEF ConnInv
<1> QED
  BY <1>2, <1>5, <1>6 DEF LifecycleInv

\* Lemma: no step breaks the inductive invariant.
LEMMA LifecycleNextInv == LifecycleInv /\ [LifecycleNext]_lifecycleVars => LifecycleInv'
<1> SUFFICES ASSUME LifecycleInv, [LifecycleNext]_lifecycleVars PROVE LifecycleInv'
  OBVIOUS
<1>1. ASSUME NEW c \in Conn,
             Handling(c) \/ Leaving(c) \/ Starts(c) \/ Releases(c) \/ Beats(c)
      PROVE  LifecycleInv'
  BY <1>1, HandlingStep, LeavingStep, StartsStep, ReleasesStep, BeatsStep DEF Starts
<1>2. CASE Elapse
  BY <1>2, ElapseStep
<1>3. CASE UNCHANGED lifecycleVars
  BY <1>3 DEF lifecycleVars, LifecycleInv, LifecycleTypeOK, Owned, SoundTable, ConnInv, Stage, Unheld, Overstay,
              Cover, Needs, Due, Lasts, Absent
<1> QED
  BY <1>1, <1>2, <1>3 DEF LifecycleNext

\* Lemma: the inductive invariant holds in every reachable state.
LEMMA LifecycleSpecInv == LifecycleSpec => []LifecycleInv
BY LifecycleInitInv, LifecycleNextInv, PTL DEF LifecycleSpec

-----------------------------------------------------------------------------
\* Theorem: the table, the two ends of a connection and its clocks keep to
\* their types.
THEOREM LifecycleTypes == LifecycleSpec => []LifecycleTypeOK
<1>1. LifecycleInv => LifecycleTypeOK
  BY DEF LifecycleInv
<1> QED
  BY <1>1, LifecycleSpecInv, PTL

\* Theorem: a session that has lost its lease is gone after one period and
\* one round trip, whatever fails.
THEOREM OverstayEnds == LifecycleSpec => []OverstayBounded
<1>1. LifecycleInv => OverstayBounded
  <2> SUFFICES ASSUME LifecycleInv, NEW c \in Conn, task[c] = "open"
               PROVE  over[c] <= HeartbeatMs + RpcMax
    BY DEF OverstayBounded
  <2>1. timer[c] \in Nat /\ over[c] \in Nat /\ Overstay(c)
    BY LifecycleAssumption DEF LifecycleInv, LifecycleTypeOK, ConnInv
  <2> QED
    BY <2>1, LifecycleAssumption DEF Overstay
<1> QED
  BY <1>1, LifecycleSpecInv, PTL

\* Theorem: every path that ends a connection without a failure releases its
\* lease, and nothing brings it back.
THEOREM NothingOrphaned == LifecycleSpec => []NoOrphanLease
<1>1. LifecycleInv => NoOrphanLease
  <2> SUFFICES ASSUME LifecycleInv, NEW c \in Conn, worker[c] = "done", task[c] \in {"none", "done"},
                      c \notin lost
               PROVE  ~Leased(c)
    BY DEF NoOrphanLease
  <2>1. Absent(table, c)
    BY DEF LifecycleInv, ConnInv, Unheld
  <2> QED
    BY <2>1, PutOwn DEF LifecycleInv
<1> QED
  BY <1>1, LifecycleSpecInv, PTL

\* Lemma: an open session whose requests did not fail holds a lease, when
\* sessions start in time.
LEMMA OpenLeased == LifecycleInv /\ StartsInTime => LeaseCoversSession
<1> SUFFICES ASSUME LifecycleInv, StartsInTime, NEW c \in Conn, task[c] = "open", c \notin lost
             PROVE  Leased(c)
  BY DEF LeaseCoversSession
<1>1. Lasts(table, c, Due(c))
  BY DEF LifecycleInv, ConnInv, Cover, Needs
<1> QED
  BY <1>1, PutOwn DEF LifecycleInv

\* Theorem: when sessions start in time, an open session whose requests did
\* not fail holds a lease.
THEOREM SessionsCovered ==
  ASSUME StartsInTime
  PROVE  LifecycleSpec => []LeaseCoversSession
<1>1. LifecycleInv => LeaseCoversSession
  BY OpenLeased
<1> QED
  BY <1>1, LifecycleSpecInv, PTL

\* Theorem: when sessions start in time, there are never more open sessions
\* than the limits allow, of one login session or over all.
THEOREM SessionsLimited ==
  ASSUME StartsInTime
  PROVE  LifecycleSpec => []ActiveWithinLimit
<1>1. LifecycleInv => ActiveWithinLimit
  <2> SUFFICES ASSUME LifecycleInv PROVE ActiveWithinLimit
    OBVIOUS
  <2> DEFINE Open == {c \in Conn : task[c] = "open" /\ c \notin lost}
             Of(c) == CHOOSE l \in table : Names(l, KeyOf[c], c)
  <2>1. SoundTable(table)
    BY DEF LifecycleInv, Owned
  <2>2. ASSUME NEW c \in Open
        PROVE  Of(c) \in table /\ Of(c).leaseId = c /\ Of(c).sessionKey = KeyOf[c]
    <3>1. Leased(c)
      BY OpenLeased DEF LeaseCoversSession
    <3>2. \E l \in table : Names(l, KeyOf[c], c)
      BY <3>1 DEF Leased, Holds, ActiveNow, ActiveLeases
    <3> QED
      BY <3>2 DEF Names
  <2> HIDE DEF Of
  <2>3. ASSUME NEW S \in SUBSET Open, NEW T \in SUBSET table, IsFiniteSet(T),
               \A c \in S : Of(c) \in T
        PROVE  IsFiniteSet(S) /\ Cardinality(S) <= Cardinality(T)
    <3> DEFINE f == [c \in S |-> Of(c)]
    <3>1. f \in [S -> T]
      BY <2>3
    <3>2. \A c, d \in S : f[c] = f[d] => c = d
      BY <2>2, <2>3
    <3>3. f \in Injection(S, T)
      BY <3>1, <3>2 DEF Injection, IsInjective
    <3> HIDE DEF f
    <3> QED
      BY <2>3, <3>3, FS_Injection
  <2>4. Cardinality(Open) <= GlobalLimit
    <3>1. IsFiniteSet(table) /\ Cardinality(table) <= GlobalLimit
      BY <2>1 DEF SoundTable
    <3>2. IsFiniteSet(Open) /\ Cardinality(Open) <= Cardinality(table)
      BY <2>2, <2>3, <3>1
    <3>3. Cardinality(Open) \in Nat /\ Cardinality(table) \in Nat
      BY <3>1, <3>2, FS_CardinalityType
    <3> HIDE DEF Open
    <3> QED
      BY <3>1, <3>2, <3>3, QuotaAssumption
  <2>5. ASSUME NEW k \in SessionKey
        PROVE  Cardinality({c \in Open : KeyOf[c] = k}) <= SessionLimit
    <3> DEFINE S == {c \in Open : KeyOf[c] = k}
               T == OfSession(table, k)
    <3>1. IsFiniteSet(T) /\ Cardinality(T) <= SessionLimit
      BY <2>1, FS_Subset DEF SoundTable, OfSession
    <3>2. S \in SUBSET Open /\ T \in SUBSET table /\ \A c \in S : Of(c) \in T
      BY <2>2 DEF OfSession
    <3>3. IsFiniteSet(S) /\ Cardinality(S) <= Cardinality(T)
      BY <2>3, <3>1, <3>2
    <3>4. Cardinality(S) \in Nat /\ Cardinality(T) \in Nat
      BY <3>1, <3>3, FS_CardinalityType
    <3> HIDE DEF S, T
    <3>5. Cardinality(S) <= SessionLimit
      BY <3>1, <3>3, <3>4, QuotaAssumption
    <3> QED
      BY <3>5 DEF S
  <2> QED
    BY <2>4, <2>5 DEF ActiveWithinLimit
<1> QED
  BY <1>1, LifecycleSpecInv, PTL
=============================================================================
