---------------------------- MODULE D1Bootstrap ----------------------------
(***************************************************************************)
(* DatabaseBootstrap (src/worker/d1-bootstrap.ts): the connections kept in *)
(* KV are counted, copied to D1, verified and then deleted from KV, one    *)
(* batch per HTTP request.  Each step runs under a lease on the one row of *)
(* bootstrap_state, and a step may die or be so slow that another one      *)
(* takes its lease.  PanelStartup adds the tabs that post the steps.       *)
(*                                                                         *)
(* A step is modelled in the events its writes separate: the claim of the  *)
(* lease, the reading of a batch, the last renewal and the write.  The row *)
(* is guarded by the lease; the rows of connections and the keys of KV are *)
(* not.  KV may fail to return a key that it lists.                        *)
(***************************************************************************)
EXTENDS Integers, FiniteSets

CONSTANTS
  Worker,        \* concurrent invocations of step()
  N,             \* connections in KV, named 1..N in listing order
  Damaged,       \* connections that may turn out not to be readable
  KvBatch,       \* kvBatchSize
  VerifyBatch,   \* verifyBatchSize
  CleanupBatch,  \* cleanupBatchSize
  MaxFaults      \* bound on dead or overtaken steps

None == "none"

ASSUME BootstrapAssumption ==
  /\ None \notin Worker
  /\ N \in Nat /\ Damaged \subseteq 1..N
  /\ KvBatch \in Nat \ {0}
  /\ VerifyBatch \in Nat \ {0}
  /\ CleanupBatch \in Nat \ {0}
  /\ MaxFaults \in Nat

VARIABLES
  kv,       \* the "conn:" keys
  d1,       \* ids in the connections table
  row,      \* the row of bootstrap_state
  step,     \* the invocations under way
  bad,      \* connections whose envelope cannot be read
  missed,   \* a key that was listed has been read as absent
  faults    \* dead or overtaken steps so far

vars == <<kv, d1, row, step, bad, missed, faults>>

Id == 1..N

\* A connection that is created after the migration.
Later == N + 1

Phase == <<"kv_scan", "kv_migrate", "verify", "kv_cleanup", "complete">>

Phases == {Phase[i] : i \in DOMAIN Phase}

\* Progress fields of the row, as a step finds them when it claims it.
Progress == [phase: Phases, total: Nat, processed: Nat, cursor: 0..N]

Idle == [pc |-> "idle"]

TypeOK ==
  /\ kv \subseteq Id /\ d1 \subseteq Id \cup {Later} /\ bad \subseteq Id
  /\ row \in [status: {"absent", "pending", "running", "failed", "complete"},
             owner: Worker \cup {None}, fresh: BOOLEAN, at: Progress]
  /\ step \in [Worker -> {Idle} \cup
       [pc: {"begin", "ready", "wiped", "renewed", "failing"}, at: Progress,
        page: SUBSET Id, writes: SUBSET Id]]
  /\ missed \in BOOLEAN /\ faults \in 0..MaxFaults

\* The row as ensureSchema inserts it, and the database before that.
FreshRow ==
  [status |-> "pending", owner |-> None, fresh |-> FALSE,
   at |-> [phase |-> "kv_scan", total |-> 0, processed |-> 0, cursor |-> 0]]

NoRow == [FreshRow EXCEPT !.status = "absent"]

DatabaseInit ==
  /\ kv = Id /\ d1 = {}
  /\ row = NoRow
  /\ step = [w \in Worker |-> Idle]
  /\ bad \in SUBSET Damaged
  /\ missed = FALSE /\ faults = 0

-----------------------------------------------------------------------------
\* Operators with a Mut_ prefix are faulty variants of the definition that
\* follows them; they serve to check that the properties notice the fault.

\* The first k members of S in listing order.
First(S, k) == {x \in S : Cardinality({y \in S : y < x}) < k}

\* kv.list from a cursor, and whether it was the last page.
Listed(cursor, k) == First({x \in kv : x > cursor}, k)

LastPage(cursor, page) == \A x \in kv : x > cursor => x \in page

Next1(cursor, page) ==
  CHOOSE x \in page \cup {cursor} : \A y \in page \cup {cursor} : y <= x

\* SELECT ... ORDER BY id LIMIT k OFFSET n.
Offset(n, k) == First(d1, n + k) \ First(d1, n)

\* WHERE lease_owner = ?
Owns(w) == row.owner = w /\ row.status = "running"

At(w, pc) == step[w] # Idle /\ step[w].pc = pc

Goto(w, pc) == step' = [step EXCEPT ![w].pc = pc]

Lower(a, b) == IF a < b THEN a ELSE b

-----------------------------------------------------------------------------
Mut_CreateSchema ==
  /\ row' = FreshRow
  /\ UNCHANGED <<kv, d1, step, bad, missed, faults>>

\* ensureSchema: CREATE TABLE IF NOT EXISTS and INSERT OR IGNORE, in one batch.
CreateSchema ==
  /\ row' = IF row = NoRow THEN FreshRow ELSE row
  /\ UNCHANGED <<kv, d1, step, bad, missed, faults>>

\* WHERE status NOT IN ('complete', 'failed') AND the lease is free or over.
Claimable ==
  /\ row.status \notin {"absent", "complete", "failed"}
  /\ row.owner = None \/ ~row.fresh

Mut_Claim(w) ==
  /\ step[w] = Idle
  /\ Claimable /\ row.owner = None
  /\ row' = [row EXCEPT !.status = "running", !.owner = w, !.fresh = TRUE]
  /\ step' = [step EXCEPT ![w] =
       [pc |-> "begin", at |-> row.at, page |-> {}, writes |-> {}]]
  /\ UNCHANGED <<kv, d1, bad, missed, faults>>

\* step(): takes the lease if it is free or has run out.
Claim(w) ==
  /\ step[w] = Idle
  /\ Claimable
  /\ row' = [row EXCEPT !.status = "running", !.owner = w, !.fresh = TRUE]
  /\ step' = [step EXCEPT ![w] =
       [pc |-> "begin", at |-> row.at, page |-> {}, writes |-> {}]]
  /\ UNCHANGED <<kv, d1, bad, missed, faults>>

Renewed == row' = [row EXCEPT !.fresh = TRUE]

\* renewLease finds the lease gone: BOOTSTRAP_LEASE_LOST.
LeaseLost(w) ==
  /\ step[w] # Idle /\ step[w].pc \in {"begin", "ready", "wiped"}
  /\ ~Owns(w)
  /\ step[w].pc = "ready" => step[w].at.phase # "kv_cleanup"
  /\ Goto(w, "failing")
  /\ UNCHANGED <<kv, d1, row, bad, missed, faults>>

Reads(w, page, writes) ==
  step' = [step EXCEPT ![w] =
             [@ EXCEPT !.pc = "ready", !.page = page, !.writes = writes]]

\* scanKv, up to its second renewal.
ReadScan(w) ==
  /\ At(w, "begin") /\ step[w].at.phase = "kv_scan" /\ Owns(w)
  /\ Reads(w, Listed(step[w].at.cursor, KvBatch), {})
  /\ Renewed
  /\ UNCHANGED <<kv, d1, bad, missed, faults>>

\* migrateKv, up to its last renewal: absent keys and those already in D1 are
\* skipped.
ReadMigrate(w) ==
  /\ At(w, "begin") /\ step[w].at.phase = "kv_migrate" /\ Owns(w)
  /\ \E absent \in SUBSET Listed(step[w].at.cursor, KvBatch) :
       LET page == Listed(step[w].at.cursor, KvBatch) IN
       /\ (page \ absent) \cap bad = {}
       /\ Reads(w, page, page \ (absent \cup d1))
       /\ missed' = (missed \/ absent # {})
  /\ Renewed
  /\ UNCHANGED <<kv, d1, bad, faults>>

\* KV_CONNECTION_INVALID
ReadDamaged(w) ==
  /\ At(w, "begin") /\ step[w].at.phase = "kv_migrate" /\ Owns(w)
  /\ Listed(step[w].at.cursor, KvBatch) \cap bad # {}
  /\ Goto(w, "failing")
  /\ Renewed
  /\ UNCHANGED <<kv, d1, bad, missed, faults>>

\* verifyD1: a page of rows.
ReadVerify(w) ==
  /\ At(w, "begin") /\ step[w].at.phase = "verify" /\ Owns(w)
  /\ Reads(w, Offset(step[w].at.processed, VerifyBatch), {})
  /\ Renewed
  /\ UNCHANGED <<kv, d1, bad, missed, faults>>

\* cleanupKv: a page of keys.
ReadCleanup(w) ==
  /\ At(w, "begin") /\ step[w].at.phase = "kv_cleanup" /\ Owns(w)
  /\ Reads(w, Listed(0, CleanupBatch), {})
  /\ Renewed
  /\ UNCHANGED <<kv, d1, bad, missed, faults>>

\* cleanupKv deletes what it has listed; some of the deletions may fail.
Delete(w, S) ==
  /\ At(w, "ready") /\ step[w].at.phase = "kv_cleanup"
  /\ S \subseteq step[w].page
  /\ kv' = kv \ S
  /\ Goto(w, IF S = step[w].page THEN "wiped" ELSE "failing")
  /\ UNCHANGED <<d1, row, bad, missed, faults>>

Verified(w) == step[w].at.processed + Cardinality(step[w].page)

LastVerify(w) ==
  Cardinality(step[w].page) < VerifyBatch \/ Verified(w) >= step[w].at.total

Mut_CountsAgree(w) == Verified(w) = Cardinality(d1)

\* The check that ends verifyD1: the rows read and the rows there are as many
\* as the keys that were counted.
CountsAgree(w) ==
  Cardinality(d1) = step[w].at.total /\ Verified(w) = step[w].at.total

\* The last renewal before the write.
Renew(w) ==
  /\ step[w] # Idle
  /\ \/ step[w].pc = "ready" /\ step[w].at.phase # "kv_cleanup"
     \/ step[w].pc = "wiped"
  /\ Owns(w)
  /\ step[w].at.phase = "verify" /\ LastVerify(w) => CountsAgree(w)
  /\ Goto(w, "renewed")
  /\ Renewed
  /\ UNCHANGED <<kv, d1, bad, missed, faults>>

\* D1_VERIFICATION_FAILED
VerifyFails(w) ==
  /\ At(w, "ready") /\ step[w].at.phase = "verify" /\ Owns(w)
  /\ LastVerify(w) /\ ~CountsAgree(w)
  /\ Goto(w, "failing")
  /\ Renewed
  /\ UNCHANGED <<kv, d1, bad, missed, faults>>

Mut_Save(w, status, at) ==
  /\ row' = [status |-> status, owner |-> None, fresh |-> FALSE, at |-> at]
  /\ step' = [step EXCEPT ![w] = Idle]

\* UPDATE bootstrap_state ... WHERE lease_owner = ?: gives the lease back.
Save(w, status, at) ==
  /\ row' = IF row.owner = w
              THEN [status |-> status, owner |-> None, fresh |-> FALSE, at |-> at]
              ELSE row
  /\ step' = [step EXCEPT ![w] = Idle]

WriteScan(w) ==
  /\ At(w, "renewed") /\ step[w].at.phase = "kv_scan"
  /\ LET s == step[w]
         total == s.at.total + Cardinality(s.page)
     IN IF LastPage(s.at.cursor, s.page)
          THEN Save(w, "pending", [phase |-> "kv_migrate", total |-> total,
                                   processed |-> 0, cursor |-> 0])
          ELSE Save(w, "pending", [phase |-> "kv_scan", total |-> total,
                                   processed |-> 0,
                                   cursor |-> Next1(s.at.cursor, s.page)])
  /\ UNCHANGED <<kv, d1, bad, missed, faults>>

\* One transaction: the rows of the batch and the progress.
WriteMigrate(w) ==
  /\ At(w, "renewed") /\ step[w].at.phase = "kv_migrate"
  /\ step[w].writes \cap d1 = {}
  /\ d1' = d1 \cup step[w].writes
  /\ LET s == step[w]
         done == s.at.processed + Cardinality(s.page)
     IN IF LastPage(s.at.cursor, s.page)
          THEN Save(w, "pending", [s.at EXCEPT !.phase = "verify",
                                     !.processed = 0, !.cursor = 0])
          ELSE Save(w, "pending", [s.at EXCEPT
                                     !.processed = Lower(s.at.total, done),
                                     !.cursor = Next1(s.at.cursor, s.page)])
  /\ UNCHANGED <<kv, bad, missed, faults>>

\* A row of the batch is there already: the transaction fails.
WriteConflict(w) ==
  /\ At(w, "renewed") /\ step[w].at.phase = "kv_migrate"
  /\ step[w].writes \cap d1 # {}
  /\ Goto(w, "failing")
  /\ UNCHANGED <<kv, d1, row, bad, missed, faults>>

WriteVerify(w) ==
  /\ At(w, "renewed") /\ step[w].at.phase = "verify"
  /\ LET s == step[w] IN
       IF LastVerify(w)
         THEN Save(w, "pending", [s.at EXCEPT !.phase = "kv_cleanup",
                                    !.processed = 0, !.cursor = 0])
         ELSE Save(w, "pending", [s.at EXCEPT !.processed = Verified(w),
                                    !.cursor = 0])
  /\ UNCHANGED <<kv, d1, bad, missed, faults>>

WriteCleanup(w) ==
  /\ At(w, "renewed") /\ step[w].at.phase = "kv_cleanup"
  /\ LET s == step[w]
         done == s.at.processed + Cardinality(s.page)
     IN IF s.page = {}
          THEN Save(w, "complete", [s.at EXCEPT !.phase = "complete",
                                      !.processed = s.at.total, !.cursor = 0])
          ELSE Save(w, "pending", [s.at EXCEPT
                                     !.processed = Lower(s.at.total, done),
                                     !.cursor = 0])
  /\ UNCHANGED <<kv, d1, bad, missed, faults>>

\* The catch block of step().
Fail(w) ==
  /\ At(w, "failing")
  /\ Save(w, "failed", row.at)
  /\ UNCHANGED <<kv, d1, bad, missed, faults>>

\* retry(): a failed row is pending again.
Reset ==
  /\ row' = IF row.status = "failed"
              THEN [row EXCEPT !.status = "pending", !.owner = None, !.fresh = FALSE]
              ELSE row
  /\ UNCHANGED <<kv, d1, step, bad, missed, faults>>

-----------------------------------------------------------------------------
\* An invocation dies where it stands.
Crash(w) ==
  /\ step[w] # Idle /\ faults < MaxFaults
  /\ step' = [step EXCEPT ![w] = Idle]
  /\ faults' = faults + 1
  /\ UNCHANGED <<kv, d1, row, bad, missed>>

\* The lease of a dead step runs out.
Expire ==
  /\ row.owner # None /\ row.fresh
  /\ step[row.owner] = Idle
  /\ row' = [row EXCEPT !.fresh = FALSE]
  /\ UNCHANGED <<kv, d1, step, bad, missed, faults>>

\* The lease of a slow step runs out.
Overtaken ==
  /\ row.owner # None /\ row.fresh /\ faults < MaxFaults
  /\ step[row.owner] # Idle
  /\ row' = [row EXCEPT !.fresh = FALSE]
  /\ faults' = faults + 1
  /\ UNCHANGED <<kv, d1, step, bad, missed>>

Proceed(w) ==
  \/ ReadScan(w)
  \/ ReadMigrate(w)
  \/ ReadDamaged(w)
  \/ ReadVerify(w)
  \/ ReadCleanup(w)
  \/ LeaseLost(w)
  \/ \E S \in SUBSET step[w].page : Delete(w, S)
  \/ Renew(w)
  \/ VerifyFails(w)
  \/ WriteScan(w)
  \/ WriteMigrate(w)
  \/ WriteConflict(w)
  \/ WriteVerify(w)
  \/ WriteCleanup(w)
  \/ Fail(w)

-----------------------------------------------------------------------------
\* Safety: KV loses its connections only when D1 has all of them, D1 never
\* loses one, and nobody creates another one in between, whatever dies, is
\* overtaken or reads as absent.
Migration == INSTANCE KvMigration WITH Id <- Id, Later <- Later, old <- kv, new <- d1

MigrationSpec == Migration!Spec

Rank(phase) == CHOOSE i \in DOMAIN Phase : Phase[i] = phase

\* Action property: the recorded progress only moves forward, from one phase
\* to the next and within each; a step that was overtaken and works from an
\* old copy of it, or a second creation of the schema, never puts it back.
PhaseForward ==
  [][ \/ Rank(row'.at.phase) > Rank(row.at.phase)
      \/ /\ row'.at.phase = row.at.phase
         /\ row'.at.processed >= row.at.processed
         /\ row'.at.cursor >= row.at.cursor
         /\ row'.at.total >= row.at.total ]_vars
=============================================================================
