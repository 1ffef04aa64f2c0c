------------------------- MODULE PanelStartupProofs -------------------------
(***************************************************************************)
(* Proofs about the migration for any number of connections, tabs and      *)
(* faults and for any sizes of the batches.                                *)
(***************************************************************************)
EXTENDS PanelStartup, FiniteSetTheorems, WellFoundedInduction, TLAPS

-----------------------------------------------------------------------------
\* The step that holds the lease works from the row as it is.
Lease ==
  /\ row.owner # None => row.status = "running"
  /\ \A w \in Worker : step[w] # Idle /\ row.owner = w => step[w].at = row.at

\* What the row says of the data.
RowSound ==
  /\ row.at.phase = "kv_scan" => row.at.total = row.at.cursor /\ row.at.processed = 0
  /\ row.at.phase # "kv_scan" => row.at.total = N
  /\ row.at.phase \notin {"kv_scan", "kv_migrate"} => row.at.cursor = 0
  /\ row.at.processed <= row.at.total
  /\ row.status = "complete" => row.at.phase = "complete"

DataSound ==
  /\ row.at.phase \in {"kv_scan", "kv_migrate", "verify"} => kv = Id /\ d1 \subseteq Id
  /\ row.at.phase \in {"kv_cleanup", "complete"} => Id \subseteq d1
  /\ row.at.phase = "complete" => kv = {}
  /\ ready => row.at.phase = "complete"
  /\ \A w \in Worker : tab[w] = "open" => row.at.phase = "complete"

\* The connections a step reads from cursor c while KV is untouched.
Batch(c) == {x \in Id : c < x /\ x <= c + KvBatch}

\* What a step under way has established, whether or not it was overtaken.
StepSound(w) ==
  step[w] # Idle =>
    /\ step[w].at.phase = "kv_cleanup" =>
         row.at.phase \in {"kv_cleanup", "complete"}
    /\ step[w].at.phase \in {"kv_scan", "kv_migrate"}
         /\ step[w].pc \in {"ready", "renewed"} =>
         step[w].page = Batch(step[w].at.cursor)
    /\ step[w].at.phase = "kv_cleanup" /\ step[w].page = {}
         /\ step[w].pc \in {"ready", "wiped", "renewed"} => kv = {}
    /\ step[w].at.phase = "verify" /\ step[w].pc = "renewed" /\ LastVerify(w) =>
         Id \subseteq d1
    /\ step[w].pc = "wiped" => step[w].at.phase = "kv_cleanup"

IInv ==
  /\ StartupTypeOK
  /\ Lease /\ RowSound /\ DataSound
  /\ \A w \in Worker : StepSound(w)

-----------------------------------------------------------------------------
\* Lemma: a set of naturals has a least member.
LEMMA LeastMember ==
  ASSUME NEW S, S \subseteq Nat, S # {}
  PROVE  \E x \in S : \A y \in S : x <= y
<1>1. PICK x \in S : \A y \in S : ~ (<<y, x>> \in OpToRel(<, Nat))
  BY NatLessThanWellFounded, WFMin, Zenon
<1>2. \A y \in S : y < x => <<y, x>> \in OpToRel(<, Nat)
  BY DEF OpToRel
<1>3. \A y \in S : ~(y < x)
  BY <1>1, <1>2, Zenon
<1> QED
  BY <1>3

\* Lemma: a listing from the start is empty only if there is nothing to list.
LEMMA EmptyListing ==
  ASSUME NEW k \in Nat \ {0}, kv \subseteq Id, Listed(0, k) = {}
  PROVE  kv = {}
<1> SUFFICES ASSUME kv # {} PROVE FALSE
  OBVIOUS
<1>1. kv \subseteq Nat /\ \A x \in kv : x > 0
  BY BootstrapAssumption DEF Id
<1>2. PICK x \in kv : \A y \in kv : x <= y
  BY <1>1, LeastMember
<1> DEFINE S == {y \in kv : y > 0}
<1>3. S = kv
  BY <1>1
<1>4. {y \in S : y < x} = {}
  <2>1. \A y \in kv : ~(y < x)
    BY <1>1, <1>2
  <2> HIDE DEF S
  <2> QED
    BY <1>3, <2>1
<1>5. Cardinality({}) = 0
  BY FS_EmptySet
<1>6. x \in {z \in S : Cardinality({y \in S : y < z}) < k}
  <2>1. Cardinality({y \in S : y < x}) < k
    BY <1>4, <1>5
  <2> QED
    BY <1>3, <2>1
<1> QED
  BY <1>6 DEF Listed, First

\* Lemma: a batch of the untouched KV is an interval.
LEMMA BatchListed ==
  ASSUME NEW c \in 0..N, kv = Id
  PROVE  Listed(c, KvBatch) = Batch(c)
<1> USE BootstrapAssumption
<1> DEFINE S == {x \in Id : x > c}
<1>1. ASSUME NEW x \in S
      PROVE  Cardinality({y \in S : y < x}) = x - 1 - c
  <2>1. {y \in S : y < x} = (c + 1)..(x - 1)
    BY DEF Id
  <2>2. x \in Int /\ c + 1 \in Int /\ x - 1 \in Int /\ x > c
    BY DEF Id
  <2>3. Cardinality((c + 1)..(x - 1)) =
          IF c + 1 > x - 1 THEN 0 ELSE (x - 1) - (c + 1) + 1
    BY <2>2, FS_Interval
  <2>4. (IF c + 1 > x - 1 THEN 0 ELSE (x - 1) - (c + 1) + 1) = x - 1 - c
    BY <2>2
  <2> HIDE DEF S
  <2> QED
    BY <2>1, <2>3, <2>4
<1>2. \A x \in S : Cardinality({y \in S : y < x}) < KvBatch <=> x <= c + KvBatch
  <2> SUFFICES ASSUME NEW x \in S
               PROVE  Cardinality({y \in S : y < x}) < KvBatch <=> x <= c + KvBatch
    OBVIOUS
  <2>1. Cardinality({y \in S : y < x}) = x - 1 - c
    BY <1>1
  <2>2. x \in Int
    BY DEF Id
  <2> QED
    BY <2>1, <2>2
<1>3. Listed(c, KvBatch) = {x \in S : Cardinality({y \in S : y < x}) < KvBatch}
  BY DEF Listed, First
<1>4. Batch(c) = {x \in S : x <= c + KvBatch}
  BY DEF Batch
<1> HIDE DEF S
<1> QED
  BY <1>2, <1>3, <1>4

\* Lemma: the size and the end of a batch.
LEMMA BatchEnd ==
  ASSUME NEW c \in 0..N, NEW m, m = IF c + KvBatch <= N THEN c + KvBatch ELSE N
  PROVE  /\ m \in c..N
         /\ Cardinality(Batch(c)) = m - c
         /\ Next1(c, Batch(c)) = m
         /\ kv = Id => (LastPage(c, Batch(c)) <=> m = N)
<1> USE BootstrapAssumption
<1>1. m \in c..N
  OBVIOUS
<1>2. Batch(c) = (c + 1)..m
  BY DEF Batch, Id
<1>3. Cardinality(Batch(c)) = m - c
  <2>1. c + 1 \in Int /\ m \in Int /\ c <= m
    BY <1>1
  <2>2. Cardinality((c + 1)..m) = IF c + 1 > m THEN 0 ELSE m - (c + 1) + 1
    BY <2>1, FS_Interval
  <2> QED
    BY <1>2, <2>1, <2>2
<1>4. Next1(c, Batch(c)) = m
  <2>1. Batch(c) \cup {c} = c..m
    BY <1>1, <1>2
  <2>2. m \in c..m /\ \A y \in c..m : y <= m
    BY <1>1
  <2>3. ASSUME NEW x \in c..m, \A y \in c..m : y <= x
        PROVE  x = m
    BY <1>1, <2>3
  <2>4. (CHOOSE x \in c..m : \A y \in c..m : y <= x) = m
    BY <2>2, <2>3
  <2> QED
    BY <2>1, <2>4 DEF Next1
<1>5. kv = Id => (LastPage(c, Batch(c)) <=> m = N)
  <2> SUFFICES ASSUME kv = Id PROVE LastPage(c, Batch(c)) <=> m = N
    OBVIOUS
  <2>1. ASSUME m # N PROVE N \in kv /\ N > c /\ N \notin Batch(c)
    BY <1>1, <1>2, <2>1 DEF Id
  <2>2. ASSUME m = N PROVE LastPage(c, Batch(c))
    BY <1>2, <2>2 DEF LastPage, Id
  <2> QED
    BY <2>1, <2>2 DEF LastPage
<1> QED
  BY <1>1, <1>3, <1>4, <1>5

\* Lemma: as many rows as connections are all of them.
LEMMA AllCopied ==
  ASSUME d1 \subseteq Id, Cardinality(d1) = N
  PROVE  Id \subseteq d1
<1>1. IsFiniteSet(Id) /\ Cardinality(Id) = N
  BY FS_Interval, BootstrapAssumption DEF Id
<1> QED
  BY <1>1, FS_Subset

\* Lemma: a page is finite.
LEMMA PageSize ==
  ASSUME NEW S, S \subseteq Id
  PROVE  IsFiniteSet(S) /\ Cardinality(S) \in Nat
<1>1. IsFiniteSet(Id)
  BY FS_Interval, BootstrapAssumption DEF Id
<1>2. IsFiniteSet(S)
  BY <1>1, FS_Subset
<1> QED
  BY <1>2, FS_CardinalityType

-----------------------------------------------------------------------------
\* Lemma: the initial state satisfies the invariant.
LEMMA InitInv == Init => IInv
<1> SUFFICES ASSUME Init PROVE IInv
  OBVIOUS
<1> USE BootstrapAssumption DEF Init, DatabaseInit, NoRow, FreshRow
<1>1. Phases = {"kv_scan", "kv_migrate", "verify", "kv_cleanup", "complete"}
  BY DEF Phases, Phase
<1>2. TypeOK
  <2>1. row.at \in Progress
    BY <1>1 DEF Progress
  <2>2. bad \subseteq Id /\ faults \in 0..MaxFaults
    BY DEF Id
  <2> QED
    BY <2>1, <2>2 DEF TypeOK
<1>3. StartupTypeOK
  BY <1>2 DEF StartupTypeOK
<1>4. Lease /\ RowSound /\ DataSound
  BY DEF Lease, RowSound, DataSound, None, Idle
<1>5. \A w \in Worker : StepSound(w)
  BY DEF StepSound
<1> QED
  BY <1>3, <1>4, <1>5 DEF IInv

-----------------------------------------------------------------------------
StepRec ==
  [pc: {"begin", "ready", "wiped", "renewed", "failing"}, at: Progress,
   page: SUBSET Id, writes: SUBSET Id]

\* Lemma: the phases and the types of what a step works with.
LEMMA Types ==
  ASSUME TypeOK
  PROVE  /\ Phases = {"kv_scan", "kv_migrate", "verify", "kv_cleanup", "complete"}
         /\ step \in [Worker -> {Idle} \cup StepRec]
         /\ \A w \in Worker : step[w] # Idle => step[w] \in StepRec
         /\ \A r \in StepRec : r # Idle
<1>1. Phases = {"kv_scan", "kv_migrate", "verify", "kv_cleanup", "complete"}
  BY DEF Phases, Phase
<1>2. step \in [Worker -> {Idle} \cup StepRec]
  BY DEF TypeOK, StepRec
<1>3. \A r \in StepRec : r # Idle
  BY DEF StepRec, Idle
<1> QED
  BY <1>1, <1>2, <1>3

\* Lemma: what a step has established stays true while others act.
LEMMA Unaffected ==
  ASSUME NEW u \in Worker, StepSound(u), step'[u] = step[u],
         kv' \subseteq kv, d1 \subseteq d1',
         row.at.phase \in {"kv_cleanup", "complete"} =>
           row'.at.phase \in {"kv_cleanup", "complete"}
  PROVE  StepSound(u)'
BY DEF StepSound, LastVerify, Verified

\* Lemma: a step that keeps the row and the data keeps the invariant if what
\* it claims to have established is so.
LEMMA WorkStep ==
  ASSUME IInv, NEW w \in Worker, NEW r \in StepRec,
         step[w] # Idle, r.at = step[w].at, step' = [step EXCEPT ![w] = r],
         row' = row \/ row' = [row EXCEPT !.fresh = TRUE],
         UNCHANGED <<kv, d1, bad, faults, tabVars>>, missed' \in BOOLEAN,
         StepSound(w)'
  PROVE  IInv'
<1> USE DEF IInv
<1>0. TypeOK
  BY DEF StartupTypeOK
<1>1. /\ row'.at = row.at /\ row'.owner = row.owner /\ row'.status = row.status
      /\ row'.fresh \in BOOLEAN
  BY <1>0 DEF TypeOK
<1>2. /\ step' \in [Worker -> {Idle} \cup StepRec]
      /\ step'[w] = r
      /\ \A u \in Worker : u # w => step'[u] = step[u]
  BY <1>0, Types
<1>3. StartupTypeOK'
  <2>1. TypeOK'
    BY <1>0, <1>1, <1>2 DEF TypeOK, StepRec
  <2> QED
    BY <2>1 DEF StartupTypeOK, tabVars
<1>4. Lease'
  BY <1>1, <1>2 DEF Lease
<1>5. RowSound'
  BY <1>1 DEF RowSound
<1>6. DataSound'
  BY <1>1 DEF DataSound, tabVars
<1>7. ASSUME NEW u \in Worker PROVE StepSound(u)'
  <2>1. CASE u = w
    BY <2>1
  <2>2. CASE u # w
    BY <1>1, <1>2, <2>2, Unaffected
  <2> QED
    BY <2>1, <2>2
<1> QED
  BY <1>3, <1>4, <1>5, <1>6, <1>7

\* Lemma: a step that ends keeps the invariant if what it writes is true.
LEMMA SaveStep ==
  ASSUME IInv, NEW w \in Worker, NEW status, NEW at, Save(w, status, at),
         step[w] # Idle, UNCHANGED <<kv, bad, missed, faults, tabVars>>,
         d1 \subseteq d1', d1' \subseteq d1 \cup Id,
         row.owner = w =>
           /\ status \in {"pending", "failed", "complete"} /\ at \in Progress
           /\ RowSound' /\ DataSound'
           /\ row.at.phase \in {"kv_cleanup", "complete"} =>
                at.phase \in {"kv_cleanup", "complete"}
  PROVE  IInv'
<1> USE BootstrapAssumption DEF IInv
<1>0. TypeOK
  BY DEF StartupTypeOK
<1>1. /\ row.owner = w => row'.at = at /\ row'.owner = None
                          /\ row'.status = status /\ row'.fresh \in BOOLEAN
      /\ row.owner # w => row' = row
  BY DEF Save
<1>2. /\ step' \in [Worker -> {Idle} \cup StepRec]
      /\ step'[w] = Idle
      /\ \A u \in Worker : u # w => step'[u] = step[u]
  BY <1>0, Types DEF Save
<1>3. StartupTypeOK'
  <2>1. row' \in
          [status: {"absent", "pending", "running", "failed", "complete"},
           owner: Worker \cup {None}, fresh: BOOLEAN, at: Progress]
    BY <1>0 DEF Save, TypeOK
  <2>2. d1' \subseteq Id \cup {Later}
    BY <1>0 DEF TypeOK
  <2>3. TypeOK'
    BY <1>0, <1>2, <2>1, <2>2 DEF TypeOK, StepRec
  <2> QED
    BY <2>3 DEF StartupTypeOK, tabVars
<1>4. Lease'
  BY <1>0, <1>1, <1>2 DEF Lease, TypeOK
<1>5. RowSound'
  <2>1. CASE row.owner = w
    BY <2>1
  <2>2. CASE row.owner # w
    BY <1>1, <2>2 DEF RowSound
  <2> QED
    BY <2>1, <2>2
<1>6. DataSound'
  <2>1. CASE row.owner = w
    BY <2>1
  <2>2. CASE row.owner # w
    BY <1>1, <2>2 DEF DataSound, tabVars
  <2> QED
    BY <2>1, <2>2
<1>7. row.at.phase \in {"kv_cleanup", "complete"} =>
        row'.at.phase \in {"kv_cleanup", "complete"}
  BY <1>1
<1>8. ASSUME NEW u \in Worker PROVE StepSound(u)'
  <2>1. CASE u = w
    BY <1>2, <2>1 DEF StepSound
  <2>2. CASE u # w
    BY <1>2, <1>7, <2>2, Unaffected
  <2> QED
    BY <2>1, <2>2
<1> QED
  BY <1>3, <1>4, <1>5, <1>6, <1>8

-----------------------------------------------------------------------------
\* The progress a step writes down, within its phase and at the phase's end.
More(a, p, cur) == [a EXCEPT !.processed = p, !.cursor = cur]

Last(a, ph) == [a EXCEPT !.phase = ph, !.processed = 0, !.cursor = 0]

\* Lemma: the fields of both.
LEMMA MoreProgress ==
  ASSUME NEW a \in Progress, NEW p \in Nat, NEW cur \in 0..N
  PROVE  /\ More(a, p, cur) \in Progress
         /\ More(a, p, cur).phase = a.phase /\ More(a, p, cur).total = a.total
         /\ More(a, p, cur).processed = p /\ More(a, p, cur).cursor = cur
BY DEF More, Progress

LEMMA LastProgress ==
  ASSUME NEW a \in Progress, NEW ph \in Phases
  PROVE  /\ Last(a, ph) \in Progress
         /\ Last(a, ph).phase = ph /\ Last(a, ph).total = a.total
         /\ Last(a, ph).processed = 0 /\ Last(a, ph).cursor = 0
<1> DEFINE b == [a EXCEPT !.phase = ph]
<1>1. b \in Progress /\ b.phase = ph /\ b.total = a.total
  BY DEF Progress
<1>2. Last(a, ph) = [b EXCEPT !.processed = 0, !.cursor = 0]
  BY DEF Last
<1>3. 0 \in Nat /\ 0 \in 0..N
  BY BootstrapAssumption
<1> HIDE DEF b
<1> QED
  BY <1>1, <1>2, <1>3 DEF Progress

\* Lemma: what holds of a step that holds the lease.
LEMMA Owner ==
  ASSUME IInv, NEW w \in Worker, step[w] # Idle, row.owner = w
  PROVE  /\ step[w].at = row.at
         /\ step[w].at.phase \in {"kv_scan", "kv_migrate", "verify"} =>
              kv = Id /\ d1 \subseteq Id
BY DEF IInv, Lease, DataSound

\* Lemma: reading a batch keeps the invariant.
LEMMA ReadingStep ==
  ASSUME IInv, NEW w \in Worker, UNCHANGED tabVars,
         \/ ReadScan(w) \/ ReadMigrate(w) \/ ReadVerify(w) \/ ReadCleanup(w)
  PROVE  IInv'
<1> USE BootstrapAssumption
<1>0. TypeOK
  BY DEF IInv, StartupTypeOK
<1> DEFINE c == step[w].at.cursor
<1>1. /\ step[w] # Idle /\ row.owner = w /\ step[w].at = row.at
      /\ step[w] \in StepRec /\ c \in 0..N
      /\ step[w].at.processed \in Nat
  <2>1. step[w] # Idle /\ row.owner = w
    BY DEF ReadScan, ReadMigrate, ReadVerify, ReadCleanup, At, Owns
  <2>2. step[w] \in StepRec
    BY <1>0, <2>1, Types
  <2> QED
    BY <2>1, <2>2, Owner DEF StepRec, Progress
<1>2. PICK page \in SUBSET Id, writes \in SUBSET Id :
      /\ step' = [step EXCEPT ![w] =
            [step[w] EXCEPT !.pc = "ready", !.page = page, !.writes = writes]]
      /\ step[w].at.phase \in {"kv_scan", "kv_migrate"} => page = Batch(c)
      /\ step[w].at.phase = "kv_cleanup" => page = Listed(0, CleanupBatch)
      /\ step[w].at.phase \in {"kv_scan", "kv_migrate", "verify", "kv_cleanup"}
  <2>1. CASE ReadScan(w)
    <3>1. Listed(c, KvBatch) = Batch(c)
      BY <1>1, <2>1, Owner, BatchListed DEF ReadScan
    <3>2. Batch(c) \in SUBSET Id
      BY DEF Batch
    <3> QED
      BY <2>1, <3>1, <3>2 DEF ReadScan, Reads
  <2>2. CASE ReadMigrate(w)
    <3>1. Listed(c, KvBatch) = Batch(c)
      BY <1>1, <2>2, Owner, BatchListed DEF ReadMigrate
    <3>2. Batch(c) \in SUBSET Id
      BY DEF Batch
    <3>3. PICK absent \in SUBSET Batch(c) :
            Reads(w, Batch(c), Batch(c) \ (absent \cup d1))
      BY <2>2, <3>1 DEF ReadMigrate
    <3>4. Batch(c) \ (absent \cup d1) \in SUBSET Id
      BY <3>2
    <3> QED
      BY <2>2, <3>2, <3>3, <3>4 DEF ReadMigrate, Reads
  <2>3. CASE ReadVerify(w)
    <3>1. d1 \subseteq Id
      BY <1>1, <2>3, Owner DEF ReadVerify
    <3>2. Offset(step[w].at.processed, VerifyBatch) \in SUBSET Id
      BY <3>1 DEF Offset, First
    <3> QED
      BY <2>3, <3>2 DEF ReadVerify, Reads
  <2>4. CASE ReadCleanup(w)
    <3>1. Listed(0, CleanupBatch) \in SUBSET Id
      BY <1>0 DEF Listed, First, TypeOK
    <3>2. Reads(w, Listed(0, CleanupBatch), {}) /\ step[w].at.phase = "kv_cleanup"
      BY <2>4 DEF ReadCleanup
    <3> QED
      BY <3>1, <3>2, {} \in SUBSET Id DEF Reads
  <2> QED
    BY <2>1, <2>2, <2>3, <2>4
<1> DEFINE r == [step[w] EXCEPT !.pc = "ready", !.page = page, !.writes = writes]
<1>3. /\ r \in StepRec /\ r.at = step[w].at /\ r.pc = "ready" /\ r.page = page
  BY <1>1 DEF StepRec
<1>4. step'[w] = r
  BY <1>0, <1>2, Types
<1>5. /\ row' = [row EXCEPT !.fresh = TRUE]
      /\ UNCHANGED <<kv, d1, bad, faults>> /\ missed' \in BOOLEAN
  <2>1. missed \in BOOLEAN
    BY <1>0 DEF TypeOK
  <2> QED
    BY <2>1 DEF ReadScan, ReadMigrate, ReadVerify, ReadCleanup, Renewed
<1>6. row'.at = row.at
  BY <1>0, <1>5 DEF TypeOK
<1> HIDE DEF r
<1>7. StepSound(w)'
  <2>1. step[w].at.phase = "kv_cleanup" /\ page = {} => kv = {}
    <3> SUFFICES ASSUME step[w].at.phase = "kv_cleanup", page = {} PROVE kv = {}
      OBVIOUS
    <3>1. Listed(0, CleanupBatch) = {} /\ kv \subseteq Id
      BY <1>0, <1>2 DEF TypeOK
    <3> QED
      BY <3>1, EmptyListing
  <2> QED
    BY <1>1, <1>2, <1>3, <1>4, <1>5, <1>6, <2>1 DEF StepSound
<1>8. step' = [step EXCEPT ![w] = r]
  BY <1>2 DEF r
<1> QED
  BY <1>1, <1>3, <1>5, <1>7, <1>8, WorkStep

\* Lemma: a step that gives up, or renews its lease for the write, keeps the
\* invariant.
LEMMA TurningStep ==
  ASSUME IInv, NEW w \in Worker, UNCHANGED tabVars,
         \/ ReadDamaged(w) \/ LeaseLost(w) \/ VerifyFails(w) \/ WriteConflict(w)
         \/ Renew(w)
  PROVE  IInv'
<1>0. TypeOK /\ StepSound(w)
  BY DEF IInv, StartupTypeOK
<1>1. step[w] # Idle /\ step[w] \in StepRec
  BY <1>0, Types DEF ReadDamaged, LeaseLost, VerifyFails, WriteConflict, Renew, At
<1>2. PICK pc \in {"failing", "renewed"} :
      /\ step' = [step EXCEPT ![w] = [step[w] EXCEPT !.pc = pc]]
      /\ pc = "renewed" => Renew(w)
  BY DEF ReadDamaged, LeaseLost, VerifyFails, WriteConflict, Renew, Goto
<1> DEFINE r == [step[w] EXCEPT !.pc = pc]
<1>3. /\ r \in StepRec /\ r.at = step[w].at /\ r.pc = pc /\ r.page = step[w].page
  BY <1>1 DEF StepRec
<1>4. /\ step'[w] = r /\ step' = [step EXCEPT ![w] = r]
  BY <1>0, <1>2, Types
<1>5. /\ row' = row \/ row' = [row EXCEPT !.fresh = TRUE]
      /\ UNCHANGED <<kv, d1, bad, faults>> /\ missed' \in BOOLEAN
  <2>1. missed \in BOOLEAN
    BY <1>0 DEF TypeOK
  <2> QED
    BY <2>1 DEF ReadDamaged, LeaseLost, VerifyFails, WriteConflict, Renew, Renewed
<1>6. row'.at = row.at
  BY <1>0, <1>5 DEF TypeOK
<1> HIDE DEF r
<1>7. LastVerify(w)' <=> LastVerify(w)
  BY <1>3, <1>4 DEF LastVerify, Verified
<1>8. StepSound(w)'
  <2>1. CASE pc = "failing"
    BY <1>0, <1>1, <1>3, <1>4, <1>5, <1>6, <2>1 DEF StepSound
  <2>2. CASE pc = "renewed"
    <3>1. Renew(w)
      BY <1>2, <2>2
    <3>2. /\ row.owner = w /\ step[w].at = row.at
          /\ \/ step[w].pc = "ready" /\ step[w].at.phase # "kv_cleanup"
             \/ step[w].pc = "wiped"
      BY <1>1, <3>1, Owner DEF Renew, Owns
    <3>3. ASSUME step[w].at.phase = "verify", LastVerify(w)
          PROVE  Id \subseteq d1
      <4>1. Cardinality(d1) = step[w].at.total
        BY <3>1, <3>3 DEF Renew, CountsAgree
      <4>2. step[w].at.total = N /\ d1 \subseteq Id
        BY <1>1, <3>2, <3>3, Owner DEF IInv, RowSound
      <4> QED
        BY <4>1, <4>2, AllCopied
    <3>4. /\ step[w].at.phase = "kv_cleanup" =>
               row.at.phase \in {"kv_cleanup", "complete"}
          /\ step[w].at.phase \in {"kv_scan", "kv_migrate"} =>
               step[w].page = Batch(step[w].at.cursor)
          /\ step[w].at.phase = "kv_cleanup" /\ step[w].page = {} => kv = {}
      <4>1. step[w].at.phase \in {"kv_scan", "kv_migrate"} => step[w].pc = "ready"
        BY <1>0, <1>1, <3>1 DEF StepSound, Renew
      <4> QED
        BY <1>0, <1>1, <3>2, <4>1 DEF StepSound
    <3> QED
      BY <1>3, <1>4, <1>5, <1>6, <1>7, <2>2, <3>3, <3>4 DEF StepSound, Batch
  <2> QED
    BY <2>1, <2>2
<1> QED
  BY <1>1, <1>3, <1>4, <1>5, <1>8, WorkStep

\* Lemma: deletions of the cleanup keep the invariant.
LEMMA DeletingStep ==
  ASSUME IInv, NEW w \in Worker, UNCHANGED tabVars,
         NEW S \in SUBSET step[w].page, Delete(w, S)
  PROVE  IInv'
<1>0. TypeOK /\ StepSound(w)
  BY DEF IInv, StartupTypeOK
<1>1. /\ step[w] # Idle /\ step[w] \in StepRec
      /\ step[w].pc = "ready" /\ step[w].at.phase = "kv_cleanup"
      /\ row.at.phase \in {"kv_cleanup", "complete"}
      /\ kv' = kv \ S
      /\ UNCHANGED <<d1, row, bad, missed, faults, tab, ready>>
  BY <1>0, Types DEF Delete, At, StepSound, tabVars
<1>2. PICK pc \in {"failing", "wiped"} :
        step' = [step EXCEPT ![w] = [step[w] EXCEPT !.pc = pc]]
  BY DEF Delete, Goto
<1> DEFINE r == [step[w] EXCEPT !.pc = pc]
<1>3. r \in StepRec /\ r.at = step[w].at /\ r.pc = pc /\ r.page = step[w].page
  BY <1>1 DEF StepRec
<1>4. /\ step' \in [Worker -> {Idle} \cup StepRec] /\ step'[w] = r
      /\ \A u \in Worker : u # w => step'[u] = step[u]
  BY <1>0, <1>2, <1>3, Types
<1> HIDE DEF r
<1>5. StartupTypeOK'
  <2>1. TypeOK'
    BY <1>0, <1>1, <1>4 DEF TypeOK, StepRec
  <2> QED
    BY <1>1, <2>1 DEF IInv, StartupTypeOK
<1>6. Lease'
  BY <1>1, <1>3, <1>4 DEF IInv, Lease
<1>7. RowSound' /\ DataSound'
  BY <1>1 DEF IInv, RowSound, DataSound
<1>8. ASSUME NEW u \in Worker PROVE StepSound(u)'
  <2>1. CASE u = w
    BY <1>0, <1>1, <1>3, <1>4, <2>1 DEF StepSound
  <2>2. CASE u # w
    BY <1>1, <1>4, <2>2, Unaffected DEF IInv
  <2> QED
    BY <2>1, <2>2
<1> QED
  BY <1>5, <1>6, <1>7, <1>8 DEF IInv


\* Lemma: the write that ends a step of the first pass over KV.
LEMMA ScanWrite ==
  ASSUME IInv, NEW w \in Worker, UNCHANGED tabVars, WriteScan(w)
  PROVE  IInv'
<1> USE BootstrapAssumption
<1>0. TypeOK /\ StepSound(w)
  BY DEF IInv, StartupTypeOK
<1> DEFINE c == step[w].at.cursor
           m == IF c + KvBatch <= N THEN c + KvBatch ELSE N
           total == step[w].at.total + Cardinality(step[w].page)
           last == [phase |-> "kv_migrate", total |-> total, processed |-> 0,
                    cursor |-> 0]
           more == [phase |-> "kv_scan", total |-> total, processed |-> 0,
                    cursor |-> Next1(c, step[w].page)]
           at == IF LastPage(c, step[w].page) THEN last ELSE more
<1>1. /\ step[w] # Idle /\ step[w] \in StepRec /\ c \in 0..N
      /\ step[w].at.phase = "kv_scan" /\ step[w].page = Batch(c)
  <2>1. step[w] # Idle /\ step[w].pc = "renewed" /\ step[w].at.phase = "kv_scan"
    BY DEF WriteScan, At
  <2>2. step[w] \in StepRec
    BY <1>0, <2>1, Types
  <2> QED
    BY <1>0, <2>1, <2>2 DEF StepSound, StepRec, Progress
<1>2. Save(w, "pending", at) /\ UNCHANGED <<kv, d1, bad, missed, faults>>
  BY DEF WriteScan
<1>3. /\ m \in c..N /\ Cardinality(Batch(c)) = m - c /\ Next1(c, Batch(c)) = m
      /\ kv = Id => (LastPage(c, Batch(c)) <=> m = N)
  BY <1>1, BatchEnd
<1> HIDE DEF m
<1>4. ASSUME row.owner = w
      PROVE  /\ at \in Progress
             /\ RowSound' /\ DataSound'
             /\ row.at.phase \notin {"kv_cleanup", "complete"}
  <2>1. /\ step[w].at = row.at /\ kv = Id /\ d1 \subseteq Id
        /\ row.at.phase = "kv_scan" /\ row.at.total = c
    BY <1>1, <1>4, Owner DEF IInv, RowSound
  <2>2. total = m
    BY <1>1, <1>3, <2>1
  <2>3. row'.at = at /\ row'.status = "pending"
    BY <1>2, <1>4 DEF Save
  <2>4. CASE m = N
    <3>1. at = last
      BY <1>1, <1>3, <2>1, <2>4
    <3>2. last \in Progress
      BY <1>0, <2>2, <2>4, Types DEF Progress
    <3>3. /\ last.phase = "kv_migrate" /\ last.total = N /\ last.processed = 0
          /\ last.cursor = 0
      BY <2>2, <2>4
    <3> HIDE DEF at, last
    <3>4. RowSound'
      BY <2>3, <3>1, <3>3 DEF RowSound
    <3>5. DataSound'
      BY <1>2, <2>1, <2>3, <3>1, <3>3 DEF DataSound, tabVars, IInv
    <3> QED
      BY <2>1, <3>1, <3>2, <3>4, <3>5
  <2>5. CASE m # N
    <3>1. at = more
      BY <1>1, <1>3, <2>1, <2>5
    <3>2. /\ more.phase = "kv_scan" /\ more.total = m /\ more.processed = 0
          /\ more.cursor = m
      BY <1>1, <1>3, <2>2
    <3>3. more \in Progress
      <4>1. m \in 0..N /\ m \in Nat
        BY <1>1, <1>3
      <4> HIDE DEF total
      <4> QED
        BY <1>0, <1>1, <1>3, <2>2, <4>1, Types DEF Progress
    <3> HIDE DEF at, more
    <3>4. RowSound'
      BY <1>1, <1>3, <2>3, <3>1, <3>2 DEF RowSound
    <3>5. DataSound'
      BY <1>2, <2>1, <2>3, <3>1, <3>2 DEF DataSound, tabVars, IInv
    <3> QED
      BY <2>1, <3>1, <3>3, <3>4, <3>5
  <2> QED
    BY <2>4, <2>5
<1> HIDE DEF at
<1> QED
  BY <1>1, <1>2, <1>4, SaveStep

\* Lemma: the write of a batch, with its rows.
LEMMA MigrateWrite ==
  ASSUME IInv, NEW w \in Worker, UNCHANGED tabVars, WriteMigrate(w)
  PROVE  IInv'
<1> USE BootstrapAssumption
<1>0. TypeOK /\ StepSound(w)
  BY DEF IInv, StartupTypeOK
<1> DEFINE c == step[w].at.cursor
           m == IF c + KvBatch <= N THEN c + KvBatch ELSE N
           done == step[w].at.processed + Cardinality(step[w].page)
           last == [step[w].at EXCEPT !.phase = "verify", !.processed = 0,
                                      !.cursor = 0]
           more == [step[w].at EXCEPT !.processed = Lower(step[w].at.total, done),
                                      !.cursor = Next1(c, step[w].page)]
           at == IF LastPage(c, step[w].page) THEN last ELSE more
<1>1. /\ step[w] # Idle /\ step[w] \in StepRec /\ c \in 0..N
      /\ step[w].at \in Progress
      /\ step[w].at.phase = "kv_migrate" /\ step[w].page = Batch(c)
      /\ step[w].writes \subseteq Id
  <2>1. step[w] # Idle /\ step[w].pc = "renewed" /\ step[w].at.phase = "kv_migrate"
    BY DEF WriteMigrate, At
  <2>2. step[w] \in StepRec
    BY <1>0, <2>1, Types
  <2> QED
    BY <1>0, <2>1, <2>2 DEF StepSound, StepRec, Progress
<1>2. /\ Save(w, "pending", at) /\ UNCHANGED <<kv, bad, missed, faults>>
      /\ d1' = d1 \cup step[w].writes
  BY DEF WriteMigrate
<1>3. /\ m \in c..N /\ Cardinality(Batch(c)) = m - c /\ Next1(c, Batch(c)) = m
  BY <1>1, BatchEnd
<1> HIDE DEF m
<1>4. ASSUME row.owner = w
      PROVE  /\ at \in Progress
             /\ RowSound' /\ DataSound'
             /\ row.at.phase \notin {"kv_cleanup", "complete"}
  <2>1. /\ step[w].at = row.at /\ kv = Id /\ d1 \subseteq Id
        /\ row.at.phase = "kv_migrate" /\ step[w].at.total = N
    BY <1>1, <1>4, Owner DEF IInv, RowSound
  <2>2. row'.at = at /\ row'.status = "pending"
    BY <1>2, <1>4 DEF Save
  <2>3. CASE at = last
    <3>1. /\ last.phase = "verify" /\ last.total = N /\ last.processed = 0
          /\ last.cursor = 0 /\ last \in Progress
      <4>1. "verify" \in Phases
        BY <1>0, Types
      <4>2. last = Last(step[w].at, "verify")
        BY DEF Last
      <4> HIDE DEF last
      <4> QED
        BY <1>1, <2>1, <4>1, <4>2, LastProgress
    <3> HIDE DEF at, last
    <3>2. RowSound'
      BY <2>2, <2>3, <3>1 DEF RowSound
    <3>3. DataSound'
      BY <1>1, <1>2, <2>1, <2>2, <2>3, <3>1 DEF DataSound, tabVars, IInv
    <3> QED
      BY <2>1, <2>3, <3>1, <3>2, <3>3
  <2>4. CASE at = more
    <3>1. /\ Lower(step[w].at.total, done) \in Nat
          /\ Lower(step[w].at.total, done) <= N
      <4>1. done \in Nat
        BY <1>1, <1>3 DEF Progress
      <4> HIDE DEF done
      <4> QED
        BY <2>1, <4>1 DEF Lower
    <3>2. Next1(c, step[w].page) \in 0..N
      BY <1>1, <1>3
    <3> HIDE DEF done
    <3>3. /\ more.phase = "kv_migrate" /\ more.total = N
          /\ more.processed = Lower(step[w].at.total, done) /\ more \in Progress
      <4>1. more = More(step[w].at, Lower(step[w].at.total, done),
                        Next1(c, step[w].page))
        BY DEF More
      <4> DEFINE p == Lower(step[w].at.total, done)
                 cur == Next1(c, step[w].page)
      <4>2. p \in Nat /\ cur \in 0..N /\ more = More(step[w].at, p, cur)
        BY <3>1, <3>2, <4>1
      <4> HIDE DEF more, p, cur
      <4>3. /\ more \in Progress /\ more.phase = step[w].at.phase
            /\ more.total = step[w].at.total /\ more.processed = p
        <5>1. step[w].at \in Progress /\ p \in Nat /\ cur \in 0..N
          BY <1>1, <4>2
        <5>2. /\ More(step[w].at, p, cur) \in Progress
              /\ More(step[w].at, p, cur).phase = step[w].at.phase
              /\ More(step[w].at, p, cur).total = step[w].at.total
              /\ More(step[w].at, p, cur).processed = p
          BY <5>1, MoreProgress
        <5> QED
          BY <4>2, <5>2
      <4> QED
        BY <1>1, <2>1, <4>3 DEF p
    <3> HIDE DEF at, more
    <3>4. RowSound'
      BY <2>2, <2>4, <3>1, <3>3 DEF RowSound
    <3>5. DataSound'
      BY <1>1, <1>2, <2>1, <2>2, <2>4, <3>3 DEF DataSound, tabVars, IInv
    <3> QED
      BY <2>1, <2>4, <3>3, <3>4, <3>5
  <2> QED
    BY <2>3, <2>4
<1> HIDE DEF at
<1>5. d1 \subseteq d1' /\ d1' \subseteq d1 \cup Id
  BY <1>1, <1>2
<1> QED
  BY <1>1, <1>2, <1>4, <1>5, SaveStep

\* Lemma: the write that ends a page of the verification.
LEMMA VerifyWrite ==
  ASSUME IInv, NEW w \in Worker, UNCHANGED tabVars, WriteVerify(w)
  PROVE  IInv'
<1> USE BootstrapAssumption
<1>0. TypeOK /\ StepSound(w)
  BY DEF IInv, StartupTypeOK
<1> DEFINE last == [step[w].at EXCEPT !.phase = "kv_cleanup", !.processed = 0,
                                      !.cursor = 0]
           more == [step[w].at EXCEPT !.processed = Verified(w), !.cursor = 0]
           at == IF LastVerify(w) THEN last ELSE more
<1>1. /\ step[w] # Idle /\ step[w] \in StepRec /\ step[w].at \in Progress
      /\ step[w].at.phase = "verify" /\ step[w].page \subseteq Id
      /\ LastVerify(w) => Id \subseteq d1
  <2>1. step[w] # Idle /\ step[w].pc = "renewed" /\ step[w].at.phase = "verify"
    BY DEF WriteVerify, At
  <2>2. step[w] \in StepRec
    BY <1>0, <2>1, Types
  <2> QED
    BY <1>0, <2>1, <2>2 DEF StepSound, StepRec
<1>2. Save(w, "pending", at) /\ UNCHANGED <<kv, d1, bad, missed, faults>>
  BY DEF WriteVerify
<1>3. ASSUME row.owner = w
      PROVE  /\ at \in Progress
             /\ RowSound' /\ DataSound'
             /\ row.at.phase \notin {"kv_cleanup", "complete"}
  <2>1. /\ step[w].at = row.at /\ kv = Id /\ d1 \subseteq Id
        /\ row.at.phase = "verify" /\ step[w].at.total = N
    BY <1>1, <1>3, Owner DEF IInv, RowSound
  <2>2. row'.at = at /\ row'.status = "pending"
    BY <1>2, <1>3 DEF Save
  <2>3. CASE LastVerify(w)
    <3>1. /\ last.phase = "kv_cleanup" /\ last.total = N /\ last.processed = 0
          /\ last.cursor = 0 /\ last \in Progress
      <4>1. "kv_cleanup" \in Phases
        BY <1>0, Types
      <4>2. last = Last(step[w].at, "kv_cleanup")
        BY DEF Last
      <4> HIDE DEF last
      <4> QED
        BY <1>1, <2>1, <4>1, <4>2, LastProgress
    <3>2. at = last
      BY <2>3
    <3> HIDE DEF at, last
    <3>3. RowSound'
      BY <2>2, <3>1, <3>2 DEF RowSound
    <3>4. DataSound'
      BY <1>1, <1>2, <2>1, <2>2, <2>3, <3>1, <3>2 DEF DataSound,
         tabVars, IInv
    <3> QED
      BY <2>1, <3>1, <3>2, <3>3, <3>4
  <2>4. CASE ~LastVerify(w)
    <3>1. Verified(w) \in Nat /\ Verified(w) < N
      <4>1. Cardinality(step[w].page) \in Nat
        BY <1>1, PageSize
      <4> QED
        BY <1>1, <2>1, <2>4, <4>1 DEF Verified, LastVerify, Progress
    <3>2. /\ more.phase = "verify" /\ more.total = N /\ more.cursor = 0
          /\ more.processed = Verified(w) /\ more \in Progress
      <4>1. 0 \in 0..N
        OBVIOUS
      <4>2. more = More(step[w].at, Verified(w), 0)
        BY DEF More
      <4> DEFINE p == Verified(w)
      <4>3. p \in Nat /\ more = More(step[w].at, p, 0)
        BY <3>1, <4>2
      <4> HIDE DEF more, p
      <4>4. /\ more \in Progress /\ more.phase = step[w].at.phase
            /\ more.total = step[w].at.total /\ more.processed = p
            /\ more.cursor = 0
        BY <1>1, <4>1, <4>3, MoreProgress
      <4> QED
        BY <1>1, <2>1, <4>4 DEF p
    <3>3. at = more
      BY <2>4
    <3> HIDE DEF at, more
    <3>4. RowSound'
      BY <2>2, <3>1, <3>2, <3>3 DEF RowSound
    <3>5. DataSound'
      BY <1>2, <2>1, <2>2, <3>2, <3>3 DEF DataSound, tabVars, IInv
    <3> QED
      BY <2>1, <3>2, <3>3, <3>4, <3>5
  <2> QED
    BY <2>3, <2>4
<1> HIDE DEF at
<1> QED
  BY <1>1, <1>2, <1>3, SaveStep


\* Lemma: the write that ends a page of the cleanup.
LEMMA CleanupWrite ==
  ASSUME IInv, NEW w \in Worker, UNCHANGED tabVars, WriteCleanup(w)
  PROVE  IInv'
<1> USE BootstrapAssumption
<1>0. TypeOK /\ StepSound(w)
  BY DEF IInv, StartupTypeOK
<1> DEFINE total == step[w].at.total
           done == step[w].at.processed + Cardinality(step[w].page)
           last == [step[w].at EXCEPT !.phase = "complete",
                      !.processed = total, !.cursor = 0]
           more == [step[w].at EXCEPT !.processed = Lower(total, done),
                      !.cursor = 0]
           status == IF step[w].page = {} THEN "complete" ELSE "pending"
           at == IF step[w].page = {} THEN last ELSE more
<1>1. /\ step[w] # Idle /\ step[w] \in StepRec /\ step[w].at \in Progress
      /\ step[w].at.phase = "kv_cleanup" /\ step[w].page \subseteq Id
      /\ step[w].page = {} => kv = {}
      /\ total \in Nat /\ step[w].at.processed \in Nat
  <2>1. /\ step[w] # Idle /\ step[w].pc = "renewed"
        /\ step[w].at.phase = "kv_cleanup"
    BY DEF WriteCleanup, At
  <2>2. step[w] \in StepRec
    BY <1>0, <2>1, Types
  <2> QED
    BY <1>0, <2>1, <2>2 DEF StepSound, StepRec, Progress
<1>2. Save(w, status, at) /\ UNCHANGED <<kv, d1, bad, missed, faults>>
  BY DEF WriteCleanup
<1>3. ASSUME row.owner = w
      PROVE  /\ at \in Progress /\ at.phase \in {"kv_cleanup", "complete"}
             /\ RowSound' /\ DataSound'
  <2>1. /\ step[w].at = row.at /\ row.at.phase = "kv_cleanup" /\ total = N
        /\ Id \subseteq d1
    BY <1>1, <1>3, Owner DEF IInv, RowSound, DataSound
  <2>2. row'.at = at /\ row'.status = status
    BY <1>2, <1>3 DEF Save
  <2>3. CASE step[w].page = {}
    <3>1. at = last /\ status = "complete"
      BY <2>3
    <3>2. /\ last \in Progress /\ last.phase = "complete" /\ last.total = N
          /\ last.processed = N /\ last.cursor = 0
      <4> DEFINE b == Last(step[w].at, "complete")
      <4>1. "complete" \in Phases
        BY <1>0, Types
      <4>2. /\ b \in Progress /\ b.phase = "complete" /\ b.total = N
            /\ b.cursor = 0
        BY <1>1, <2>1, <4>1, LastProgress
      <4>3. last = [b EXCEPT !.processed = N]
        BY <2>1 DEF Last
      <4> HIDE DEF b, last
      <4> QED
        BY <4>2, <4>3 DEF Progress
    <3> HIDE DEF at, last, status
    <3>3. RowSound'
      BY <2>2, <3>1, <3>2 DEF RowSound
    <3>4. DataSound'
      BY <1>1, <1>2, <2>1, <2>2, <2>3, <3>1, <3>2 DEF DataSound,
         tabVars, IInv
    <3> QED
      BY <3>1, <3>2, <3>3, <3>4
  <2>4. CASE step[w].page # {}
    <3>1. at = more /\ status = "pending"
      BY <2>4
    <3>2. /\ Lower(total, done) \in Nat /\ Lower(total, done) <= N
      <4>1. Cardinality(step[w].page) \in Nat
        BY <1>1, PageSize
      <4> QED
        BY <1>1, <2>1, <4>1 DEF Lower
    <3>3. /\ more \in Progress /\ more.phase = "kv_cleanup" /\ more.total = N
          /\ more.processed <= N /\ more.cursor = 0
      <4> DEFINE p == Lower(total, done)
      <4>0. p <= N
        BY <3>2
      <4>1. p \in Nat /\ 0 \in 0..N /\ more = More(step[w].at, p, 0)
        BY <3>2 DEF More
      <4>2. step[w].at \in Progress
        BY <1>1
      <4> HIDE DEF more, p
      <4>3. /\ more \in Progress /\ more.phase = step[w].at.phase
            /\ more.total = step[w].at.total /\ more.processed = p
            /\ more.cursor = 0
        BY <4>1, <4>2, MoreProgress
      <4> QED
        BY <1>1, <2>1, <4>0, <4>3
    <3> HIDE DEF at, more, status
    <3>4. RowSound'
      BY <2>2, <3>1, <3>3 DEF RowSound
    <3>5. DataSound'
      BY <1>2, <2>1, <2>2, <3>1, <3>3 DEF DataSound, tabVars, IInv
    <3> QED
      BY <3>1, <3>3, <3>4, <3>5
  <2> QED
    BY <2>3, <2>4
<1>4. status \in {"pending", "failed", "complete"}
  OBVIOUS
<1> HIDE DEF at, status
<1> QED
  BY <1>1, <1>2, <1>3, <1>4, SaveStep

\* Lemma: a failed step keeps the invariant.
LEMMA FailWrite ==
  ASSUME IInv, NEW w \in Worker, UNCHANGED tabVars, Fail(w)
  PROVE  IInv'
<1>1. /\ step[w] # Idle /\ Save(w, "failed", row.at)
      /\ UNCHANGED <<kv, d1, bad, missed, faults>>
  BY DEF Fail, At
<1>2. TypeOK /\ row.at \in Progress
  BY DEF IInv, StartupTypeOK, TypeOK
<1>3. ASSUME row.owner = w
      PROVE  RowSound' /\ DataSound'
  <2>1. row'.at = row.at /\ row'.status = "failed"
    BY <1>1, <1>3 DEF Save
  <2> QED
    BY <1>1, <2>1 DEF IInv, RowSound, DataSound, tabVars
<1> QED
  BY <1>1, <1>2, <1>3, SaveStep

-----------------------------------------------------------------------------
\* Lemma: claims, resets, crashes and the end of leases keep the invariant.
LEMMA LeaseStep ==
  ASSUME IInv, NEW w \in Worker, tab' \in [Worker -> {"away"} \cup Waiting \cup Settled],
         ready' = ready, \A u \in Worker : tab'[u] = "open" => tab[u] = "open",
         Claim(w) \/ CreateSchema \/ Reset \/ Crash(w) \/ Expire \/ Overtaken
  PROVE  IInv'
<1> USE BootstrapAssumption
<1>0. TypeOK
  BY DEF IInv, StartupTypeOK
<1>1. /\ UNCHANGED <<kv, d1, bad, missed>> /\ faults' \in 0..MaxFaults
      /\ row'.at = row.at
      /\ row' \in [status: {"absent", "pending", "running", "failed", "complete"},
                   owner: Worker \cup {None}, fresh: BOOLEAN, at: Progress]
      /\ row'.status = "complete" => row.status = "complete"
  <2>1. CASE Claim(w)
    BY <1>0, <2>1 DEF Claim, TypeOK
  <2>2. CASE CreateSchema
    <3>1. CASE row = NoRow
      <4>1. NoRow.at = FreshRow.at /\ FreshRow.status = "pending"
        BY DEF NoRow, FreshRow
      <4>2. FreshRow.at \in Progress
        BY <1>0, <3>1, <4>1 DEF TypeOK
      <4>3. FreshRow \in
              [status: {"absent", "pending", "running", "failed", "complete"},
               owner: Worker \cup {None}, fresh: BOOLEAN, at: Progress]
        BY <4>2 DEF FreshRow
      <4> QED
        BY <1>0, <2>2, <3>1, <4>1, <4>3 DEF CreateSchema, TypeOK
    <3>2. CASE row # NoRow
      BY <1>0, <2>2, <3>2 DEF CreateSchema, TypeOK
    <3> QED
      BY <3>1, <3>2
  <2>3. CASE Reset
    BY <1>0, <2>3 DEF Reset, TypeOK
  <2>4. CASE Crash(w)
    BY <1>0, <2>4 DEF Crash, TypeOK
  <2>5. CASE Expire
    BY <1>0, <2>5 DEF Expire, TypeOK
  <2>6. CASE Overtaken
    <3>1. faults' \in 0..MaxFaults
      BY <1>0, <2>6 DEF Overtaken, TypeOK
    <3>2. /\ row' = [row EXCEPT !.fresh = FALSE]
          /\ UNCHANGED <<kv, d1, bad, missed>>
      BY <2>6 DEF Overtaken
    <3> QED
      BY <1>0, <3>1, <3>2 DEF TypeOK
  <2> QED
    BY <2>1, <2>2, <2>3, <2>4, <2>5, <2>6
<1> DEFINE first == [pc |-> "begin", at |-> row.at, page |-> {}, writes |-> {}]
<1>2. /\ first \in StepRec /\ first # Idle
      /\ first.at = row.at /\ first.pc = "begin"
  <2>1. row.at \in Progress
    BY <1>0 DEF TypeOK
  <2> QED
    BY <2>1 DEF StepRec, Idle
<1> HIDE DEF first
<1>3. /\ step' \in [Worker -> {Idle} \cup StepRec]
      /\ \A u \in Worker : u # w => step'[u] = step[u]
      /\ \/ step'[w] = step[w]
         \/ step'[w] = Idle
         \/ Claim(w) /\ step'[w] = first
  <2>1. CASE Claim(w)
    BY <1>0, <1>2, <2>1, Types DEF Claim, first
  <2>2. CASE Crash(w)
    BY <1>0, <2>2, Types DEF Crash
  <2>3. CASE CreateSchema \/ Reset \/ Expire \/ Overtaken
    BY <1>0, <2>3, Types DEF CreateSchema, Reset, Expire, Overtaken
  <2> QED
    BY <2>1, <2>2, <2>3
<1>4. StartupTypeOK'
  <2>1. TypeOK'
    BY <1>0, <1>1, <1>3 DEF TypeOK, StepRec
  <2> QED
    BY <2>1 DEF IInv, StartupTypeOK
<1>5. Lease'
  <2>1. CASE Claim(w)
    <3>1. row'.owner = w /\ row'.status = "running" /\ w # None
      BY <1>0, <2>1 DEF Claim, TypeOK
    <3>2. step'[w] # Idle => step'[w].at = row'.at
      BY <1>0, <1>1, <1>2, <2>1, Types DEF Claim, first
    <3> QED
      BY <3>1, <3>2 DEF Lease
  <2>2. CASE ~Claim(w)
    <3>1. /\ row'.owner = row.owner \/ row'.owner = None
          /\ row'.owner # None => row'.status = row.status
      <4>1. CASE CreateSchema
        BY <1>0, <4>1 DEF CreateSchema, NoRow, FreshRow, TypeOK
      <4>2. CASE Reset
        BY <1>0, <4>2 DEF Reset, TypeOK
      <4>3. CASE Crash(w) \/ Expire \/ Overtaken
        BY <1>0, <4>3 DEF Crash, Expire, Overtaken, TypeOK
      <4> QED
        BY <2>2, <4>1, <4>2, <4>3
    <3> QED
      BY <1>1, <1>3, <2>2, <3>1 DEF Lease, IInv
  <2> QED
    BY <2>1, <2>2
<1>6. RowSound' /\ DataSound'
  BY <1>1 DEF IInv, RowSound, DataSound
<1>7. ASSUME NEW u \in Worker PROVE StepSound(u)'
  <2>1. CASE step'[u] = step[u]
    BY <1>1, <2>1, Unaffected DEF IInv
  <2>2. CASE step'[u] = Idle
    BY <2>2 DEF StepSound
  <2>3. CASE u = w /\ step'[w] = first
    BY <1>1, <1>2, <2>3 DEF StepSound
  <2> QED
    BY <1>3, <2>1, <2>2, <2>3
<1> QED
  BY <1>4, <1>5, <1>6, <1>7 DEF IInv

\* Lemma: what tabs and other requests do keeps the invariant.
LEMMA TabStep ==
  ASSUME IInv, UNCHANGED <<kv, row, step, bad, missed>>,
         faults' \in 0..MaxFaults, d1 \subseteq d1', d1' \subseteq d1 \cup {Later},
         tab' \in [Worker -> {"away"} \cup Waiting \cup Settled],
         ready' \in BOOLEAN,
         \/ d1' = d1
         \/ ready \/ row.status = "complete",
         ready' => ready \/ row.status = "complete",
         \A u \in Worker :
           tab'[u] = "open" => tab[u] = "open" \/ row.status = "complete"
  PROVE  IInv'
<1> USE BootstrapAssumption DEF IInv
<1>1. row.status = "complete" => row.at.phase = "complete"
  BY DEF RowSound
<1>2. StartupTypeOK'
  BY DEF StartupTypeOK, TypeOK
<1>3. Lease' /\ RowSound'
  BY DEF Lease, RowSound
<1>4. DataSound'
  BY <1>1 DEF DataSound
<1>5. \A w \in Worker : StepSound(w)'
  BY Unaffected
<1> QED
  BY <1>2, <1>3, <1>4, <1>5


-----------------------------------------------------------------------------
\* Lemma: every step of the panels, of the Worker and of time keeps the
\* invariant.
LEMMA NextInv == IInv /\ [Next]_allVars => IInv'
<1> USE BootstrapAssumption
<1> SUFFICES ASSUME IInv, [Next]_allVars PROVE IInv'
  OBVIOUS
<1> DEFINE Tabs == [Worker -> {"away"} \cup Waiting \cup Settled]
<1>0. TypeOK /\ tab \in Tabs /\ ready \in BOOLEAN
  BY DEF IInv, StartupTypeOK
<1>1. CASE UNCHANGED allVars
  BY <1>0, <1>1, TabStep DEF allVars, vars, tabVars, TypeOK
<1>2. ASSUME NEW w \in Worker, Proceed(w), UNCHANGED tabVars PROVE IInv'
  BY <1>2, ReadingStep, TurningStep, DeletingStep, ScanWrite, MigrateWrite,
     VerifyWrite, CleanupWrite, FailWrite DEF Proceed
<1>3. ASSUME NEW w \in Worker, TabActs(w) PROVE IInv'
  <2>1. CASE FindsNoSchema(w) \/ StatusArrives(w) \/ StepRefused(w) \/ StepArrives(w)
    <3>1. PICK s \in {"creating", "open", "failed", "stepping"} :
            /\ tab' = [tab EXCEPT ![w] = s] /\ ready' = ready
            /\ s = "open" => row.status = "complete"
      BY <2>1 DEF FindsNoSchema, StatusArrives, StepRefused, StepArrives, Shows, Goes
    <3>2. UNCHANGED vars
      BY <2>1 DEF FindsNoSchema, StatusArrives, StepRefused, StepArrives
    <3> QED
      BY <1>0, <3>1, <3>2, TabStep DEF vars, Waiting, Settled, TypeOK
  <2>2. CASE Creates(w) \/ StepBegins(w) \/ RetryArrives(w)
    <3>1. PICK s \in {"asking", "running"} :
            tab' = [tab EXCEPT ![w] = s] /\ ready' = ready
      BY <2>2 DEF Creates, StepBegins, RetryArrives, Goes
    <3>2. CreateSchema \/ Claim(w) \/ Reset
      BY <2>2 DEF Creates, StepBegins, RetryArrives
    <3>3. tab' \in Tabs /\ \A u \in Worker : tab'[u] = "open" => tab[u] = "open"
      BY <1>0, <3>1 DEF Waiting, Settled
    <3> QED
      BY <3>1, <3>2, <3>3, LeaseStep
  <2> QED
    BY <1>3, <2>1, <2>2 DEF TabActs
<1>4. ASSUME NEW w \in Worker, Enter(w) \/ PressRetry(w) \/ RequestLost(w)
      PROVE  IInv'
  <2>1. PICK s \in {"asking", "retrying", "failed"} :
          tab' = [tab EXCEPT ![w] = s] /\ ready' = ready
    BY <1>4 DEF Enter, PressRetry, RequestLost, Goes
  <2>2. UNCHANGED <<kv, d1, row, step, bad, missed>>
    BY <1>4 DEF Enter, PressRetry, RequestLost, vars
  <2>3. faults' \in 0..MaxFaults
    BY <1>0, <1>4 DEF Enter, PressRetry, RequestLost, vars, TypeOK
  <2>4. tab' \in Tabs /\ \A u \in Worker : tab'[u] = "open" => tab[u] = "open"
    BY <1>0, <2>1 DEF Waiting, Settled
  <2> QED
    BY <1>0, <2>1, <2>2, <2>3, <2>4, TabStep
<1>5. ASSUME NEW w \in Worker, StepDies(w) PROVE IInv'
  <2>1. tab' = [tab EXCEPT ![w] = "failed"] /\ ready' = ready /\ Crash(w)
    BY <1>5 DEF StepDies, Goes
  <2>2. tab' \in Tabs /\ \A u \in Worker : tab'[u] = "open" => tab[u] = "open"
    BY <1>0, <2>1 DEF Waiting, Settled
  <2> QED
    BY <2>1, <2>2, LeaseStep
<1>6. CASE (Expire \/ Overtaken) /\ UNCHANGED tabVars
  <2>1. row.owner \in Worker
    BY <1>0, <1>6 DEF Expire, Overtaken, TypeOK
  <2> QED
    BY <1>0, <1>6, <2>1, LeaseStep DEF tabVars
<1>7. CASE Create
  BY <1>0, <1>7, TabStep DEF Create, TypeOK
<1>8. CASE CacheEnds
  BY <1>0, <1>8, TabStep DEF CacheEnds, vars, TypeOK
<1>9. CASE Next
  BY <1>2, <1>3, <1>4, <1>5, <1>6, <1>7, <1>8, <1>9 DEF Next, StepGoesOn
<1> QED
  BY <1>1, <1>9

\* Lemma: the invariant holds in every state.
LEMMA SpecInv == Spec => []IInv
<1>1. Init => IInv
  BY InitInv
<1>2. IInv /\ [Next]_allVars => IInv'
  BY NextInv
<1> QED
  BY <1>1, <1>2, PTL DEF Spec

\* Theorem: the row, the steps and the tabs keep to their types; the recorded
\* cursor never leaves the list of connections.
THEOREM StartupTypes == Spec => []StartupTypeOK
<1>1. IInv => StartupTypeOK
  BY DEF IInv
<1> QED
  BY <1>1, SpecInv, PTL

\* Theorem: no tab opens and no request is served before the migration is
\* complete.
THEOREM OpensMigrated == Spec => []OpenWhenMigrated
<1>1. IInv => OpenWhenMigrated
  BY DEF IInv, DataSound, OpenWhenMigrated
<1> QED
  BY <1>1, SpecInv, PTL

\* Theorem: the panel's start implements the migration promised, whatever
\* dies, is overtaken or reads as absent.
THEOREM Migrates == Spec => MigrationSpec
<1> USE BootstrapAssumption
<1>1. Init => Migration!Init
  BY DEF Init, DatabaseInit, Migration!Init
<1>2. IInv /\ [Next]_allVars => [Migration!Next]_<<kv, d1>>
  <2> SUFFICES ASSUME IInv, Next, ~UNCHANGED <<kv, d1>> PROVE Migration!Next
    BY DEF allVars, vars
  <2>0. TypeOK
    BY DEF IInv, StartupTypeOK
  <2>1. \/ Create
        \/ \E w \in Worker : WriteMigrate(w)
        \/ \E w \in Worker : \E S \in SUBSET step[w].page : Delete(w, S)
    BY DEF Next, Enter, PressRetry, TabActs, FindsNoSchema, Creates, CreateSchema,
       StatusArrives, StepBegins, Claim, StepRefused, StepArrives, RetryArrives,
       Reset, StepGoesOn, Proceed, ReadScan, ReadMigrate, ReadDamaged, ReadVerify,
       ReadCleanup, LeaseLost, Renew, VerifyFails, WriteScan, WriteConflict,
       WriteVerify, WriteCleanup, Fail, RequestLost, StepDies, Crash, Expire,
       Overtaken, CacheEnds, vars
  <2>2. CASE Create
    <3>1. kv = {}
      BY <2>2 DEF Create, IInv, DataSound, RowSound
    <3> QED
      BY <2>2, <3>1 DEF Create, Migration!Next, Migration!Create
  <2>3. ASSUME NEW w \in Worker, WriteMigrate(w) PROVE Migration!Next
    <3>1. /\ d1' = d1 \cup step[w].writes /\ kv' = kv
          /\ step[w].writes \cap d1 = {} /\ step[w] # Idle
      BY <2>3 DEF WriteMigrate, At
    <3>2. step[w].writes \subseteq Id
      BY <2>0, <3>1, Types DEF StepRec
    <3>3. ~(Id \subseteq d1)
      BY <2>0, <3>1, <3>2
    <3>4. kv = Id
      <4>1. row.at.phase \in Phases
        BY <2>0 DEF TypeOK, Progress
      <4> QED
        BY <2>0, <3>3, <4>1, Types DEF IInv, DataSound
    <3>5. Migration!Copy(step[w].writes) /\ step[w].writes \in SUBSET kv
      BY <3>1, <3>2, <3>4 DEF Migration!Copy
    <3> QED
      BY <3>5 DEF Migration!Next
  <2>4. ASSUME NEW w \in Worker, NEW S \in SUBSET step[w].page, Delete(w, S)
        PROVE  Migration!Next
    <3>1. /\ kv' = kv \ S /\ d1' = d1
          /\ step[w] # Idle /\ step[w].at.phase = "kv_cleanup"
      BY <2>4 DEF Delete, At
    <3>2. Id \subseteq d1
      BY <3>1 DEF IInv, StepSound, DataSound
    <3>3. kv' = kv \ (S \cap kv) /\ S \cap kv \in SUBSET kv
      BY <3>1
    <3>4. Migration!Drop(S \cap kv)
      BY <3>1, <3>2, <3>3 DEF Migration!Drop
    <3> QED
      BY <3>3, <3>4 DEF Migration!Next
  <2> QED
    BY <2>1, <2>2, <2>3, <2>4
<1>3. Spec => [][Next]_allVars /\ Init
  BY PTL DEF Spec
<1> QED
  BY <1>1, <1>2, <1>3, SpecInv, PTL DEF MigrationSpec, Migration!Spec


-----------------------------------------------------------------------------
\* Lemma: the order of the phases.
LEMMA Ranks ==
  /\ Rank("kv_scan") = 1 /\ Rank("kv_migrate") = 2 /\ Rank("verify") = 3
  /\ Rank("kv_cleanup") = 4 /\ Rank("complete") = 5
<1>1. /\ DOMAIN Phase = 1..5
      /\ Phase[1] = "kv_scan" /\ Phase[2] = "kv_migrate" /\ Phase[3] = "verify"
      /\ Phase[4] = "kv_cleanup" /\ Phase[5] = "complete"
  BY DEF Phase
<1>2. ASSUME NEW n \in 1..5
      PROVE  n = 1 \/ n = 2 \/ n = 3 \/ n = 4 \/ n = 5
  OBVIOUS
<1>3. ASSUME NEW i \in 1..5 PROVE Rank(Phase[i]) = i
  <2>1. \A j \in 1..5 : Phase[j] = Phase[i] => j = i
    BY <1>1, <1>2
  <2>2. (CHOOSE j \in DOMAIN Phase : Phase[j] = Phase[i]) = i
    BY <1>1, <2>1
  <2> QED
    BY <2>2 DEF Rank
<1> QED
  BY <1>1, <1>3

\* The recorded progress after a step, compared with that before it.
Forward ==
  \/ Rank(row'.at.phase) > Rank(row.at.phase)
  \/ /\ row'.at.phase = row.at.phase
     /\ row'.at.processed >= row.at.processed
     /\ row'.at.cursor >= row.at.cursor
     /\ row'.at.total >= row.at.total

\* Lemma: a write moves the progress forward.
LEMMA WriteForward ==
  ASSUME IInv, NEW w \in Worker,
         WriteScan(w) \/ WriteMigrate(w) \/ WriteVerify(w) \/ WriteCleanup(w),
         row.owner = w
  PROVE  Forward
<1> USE BootstrapAssumption
<1> DEFINE a == row.at
           c == a.cursor
           m == IF c + KvBatch <= N THEN c + KvBatch ELSE N
           done == a.processed + Cardinality(step[w].page)
<1>0. TypeOK /\ StepSound(w) /\ RowSound
  BY DEF IInv, StartupTypeOK
<1>1. /\ step[w] # Idle /\ step[w].pc = "renewed" /\ step[w].at = a
      /\ step[w] \in StepRec /\ a \in Progress
  <2>1. step[w] # Idle /\ step[w].pc = "renewed"
    BY DEF WriteScan, WriteMigrate, WriteVerify, WriteCleanup, At
  <2>2. step[w] \in StepRec
    BY <1>0, <2>1, Types
  <2> QED
    BY <2>1, <2>2, Owner DEF StepRec
<1>2. /\ c \in 0..N /\ a.processed \in Nat /\ a.total \in Nat
      /\ Cardinality(step[w].page) \in Nat
  <2>1. step[w].page \subseteq Id
    BY <1>1 DEF StepRec
  <2> QED
    BY <1>1, <2>1, PageSize DEF Progress
<1>3. a.phase \in {"kv_scan", "kv_migrate"} =>
        /\ m \in c..N /\ Cardinality(step[w].page) = m - c
        /\ Next1(c, step[w].page) = m
  BY <1>0, <1>1, <1>2, BatchEnd DEF StepSound
<1> HIDE DEF m, a
<1>4. CASE WriteScan(w)
  <2>1. a.phase = "kv_scan" /\ a.total = c /\ a.processed = 0
    BY <1>0, <1>1, <1>4 DEF WriteScan, RowSound, a
  <2>2. \/ row'.at.phase = "kv_migrate"
        \/ /\ row'.at.phase = "kv_scan" /\ row'.at.processed = 0
           /\ row'.at.cursor = Next1(c, step[w].page)
           /\ row'.at.total = a.total + Cardinality(step[w].page)
    BY <1>1, <1>4 DEF WriteScan, Save
  <2> QED
    BY <1>2, <1>3, <2>1, <2>2, Ranks DEF Forward, a
<1>5. CASE WriteMigrate(w)
  <2>1. a.phase = "kv_migrate" /\ a.processed <= a.total
    BY <1>0, <1>1, <1>5 DEF WriteMigrate, RowSound, a
  <2>2. \/ row'.at.phase = "verify"
        \/ /\ row'.at.phase = "kv_migrate"
           /\ row'.at.processed = Lower(a.total, done)
           /\ row'.at.cursor = Next1(c, step[w].page)
           /\ row'.at.total = a.total
    <3> DEFINE p == Lower(a.total, done)
               cur == Next1(c, step[w].page)
    <3>1. row'.at = Last(a, "verify") \/ row'.at = More(a, p, cur)
      BY <1>1, <1>5 DEF WriteMigrate, Save, Last, More
    <3>2. p \in Nat /\ cur \in 0..N /\ "verify" \in Phases
      BY <1>0, <1>2, <1>3, <2>1, Types DEF Lower
    <3> HIDE DEF p, cur
    <3>3. /\ Last(a, "verify").phase = "verify"
          /\ More(a, p, cur).phase = a.phase /\ More(a, p, cur).total = a.total
          /\ More(a, p, cur).processed = p /\ More(a, p, cur).cursor = cur
      BY <1>1, <3>2, LastProgress, MoreProgress
    <3> QED
      BY <2>1, <3>1, <3>3 DEF p, cur
  <2>3. Lower(a.total, done) >= a.processed
    BY <1>2, <2>1 DEF Lower
  <2> QED
    BY <1>2, <1>3, <2>1, <2>2, <2>3, Ranks DEF Forward, a
<1>6. CASE WriteVerify(w)
  <2>1. a.phase = "verify" /\ c = 0
    BY <1>0, <1>1, <1>6 DEF WriteVerify, RowSound, a
  <2>2. \/ row'.at.phase = "kv_cleanup"
        \/ /\ row'.at.phase = "verify" /\ row'.at.processed = done
           /\ row'.at.cursor = 0 /\ row'.at.total = a.total
    <3>1. row'.at = Last(a, "kv_cleanup") \/ row'.at = More(a, done, 0)
      BY <1>1, <1>6 DEF WriteVerify, Save, Last, More, Verified
    <3>2. done \in Nat /\ 0 \in 0..N /\ "kv_cleanup" \in Phases
      BY <1>0, <1>2, Types
    <3> HIDE DEF done
    <3>3. /\ Last(a, "kv_cleanup").phase = "kv_cleanup"
          /\ More(a, done, 0).phase = a.phase /\ More(a, done, 0).total = a.total
          /\ More(a, done, 0).processed = done /\ More(a, done, 0).cursor = 0
      BY <1>1, <3>2, LastProgress, MoreProgress
    <3> QED
      BY <2>1, <3>1, <3>3
  <2> QED
    BY <1>2, <2>1, <2>2, Ranks DEF Forward, a
<1>7. CASE WriteCleanup(w)
  <2>1. a.phase = "kv_cleanup" /\ c = 0 /\ a.processed <= a.total
    BY <1>0, <1>1, <1>7 DEF WriteCleanup, RowSound, a
  <2>2. \/ row'.at.phase = "complete"
        \/ /\ row'.at.phase = "kv_cleanup"
           /\ row'.at.processed = Lower(a.total, done)
           /\ row'.at.cursor = 0 /\ row'.at.total = a.total
    <3> DEFINE p == Lower(a.total, done)
               last == Last(a, "complete")
    <3>1. \/ row'.at = [last EXCEPT !.processed = a.total]
          \/ row'.at = More(a, p, 0)
      <4> DEFINE end == [a EXCEPT !.phase = "complete", !.processed = a.total,
                                  !.cursor = 0]
      <4>1. row'.at = end \/ row'.at = More(a, p, 0)
        BY <1>1, <1>7 DEF WriteCleanup, Save, More
      <4>2. end = [last EXCEPT !.processed = a.total]
        BY <1>1 DEF Last, Progress
      <4> QED
        BY <4>1, <4>2
    <3>2. p \in Nat /\ 0 \in 0..N /\ "complete" \in Phases
      BY <1>0, <1>2, Types DEF Lower
    <3> HIDE DEF p, last
    <3>3. /\ last \in Progress /\ last.phase = "complete"
          /\ More(a, p, 0).phase = a.phase /\ More(a, p, 0).total = a.total
          /\ More(a, p, 0).processed = p /\ More(a, p, 0).cursor = 0
      BY <1>1, <3>2, LastProgress, MoreProgress DEF last
    <3>4. [last EXCEPT !.processed = a.total].phase = "complete"
      BY <3>3 DEF Progress
    <3> QED
      BY <2>1, <3>1, <3>3, <3>4 DEF p
  <2>3. Lower(a.total, done) >= a.processed
    BY <1>2, <2>1 DEF Lower
  <2> QED
    BY <1>2, <2>1, <2>2, <2>3, Ranks DEF Forward, a
<1> QED
  BY <1>4, <1>5, <1>6, <1>7

\* Theorem: the recorded progress only moves forward.
THEOREM ProgressForward == Spec => PhaseForward
<1>1. IInv /\ [Next]_allVars => [Forward]_vars
  <2> SUFFICES ASSUME IInv, Next PROVE Forward
    BY DEF allVars, vars
  <2>0. TypeOK
    BY DEF IInv, StartupTypeOK
  <2>1. CASE row'.at = row.at
    <3>1. /\ row.at.processed \in Nat /\ row.at.cursor \in Nat
          /\ row.at.total \in Nat
      BY <2>0, BootstrapAssumption DEF TypeOK, Progress
    <3> QED
      BY <2>1, <3>1 DEF Forward
  <2>2. CASE row'.at # row.at
    <3>1. NoRow.at = FreshRow.at
      BY DEF NoRow, FreshRow
    <3>2. \A w \in Worker : ~Claim(w)
      BY <2>0, <2>2 DEF Claim, TypeOK
    <3>3. ~CreateSchema /\ ~Reset
      BY <2>0, <2>2, <3>1 DEF CreateSchema, Reset, TypeOK
    <3>4. ~Expire /\ ~Overtaken /\ ~Renewed /\ ~UNCHANGED row
      BY <2>0, <2>2 DEF Expire, Overtaken, Renewed, TypeOK
    <3>5. PICK w \in Worker :
            WriteScan(w) \/ WriteMigrate(w) \/ WriteVerify(w) \/ WriteCleanup(w)
            \/ Fail(w)
      BY <3>2, <3>3, <3>4 DEF Next, Enter, PressRetry, TabActs, FindsNoSchema,
         Creates, StatusArrives, StepBegins, StepRefused, StepArrives,
         RetryArrives, StepGoesOn, Proceed, ReadScan, ReadMigrate, ReadDamaged,
         ReadVerify, ReadCleanup, LeaseLost, Delete, Renew, VerifyFails,
         WriteConflict, RequestLost, StepDies, Crash, Create, CacheEnds, vars
    <3>6. row.owner = w /\ ~Fail(w)
      BY <2>2, <3>5 DEF WriteScan, WriteMigrate, WriteVerify, WriteCleanup, Fail,
         Save
    <3> QED
      BY <3>5, <3>6, WriteForward
  <2> QED
    BY <2>1, <2>2
<1>2. Spec => [][Next]_allVars
  BY PTL DEF Spec
<1> QED
  BY <1>1, <1>2, SpecInv, PTL DEF PhaseForward, Forward

=============================================================================
