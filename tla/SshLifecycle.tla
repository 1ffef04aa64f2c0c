---------------------------- MODULE SshLifecycle ----------------------------
(***************************************************************************)
(* One SSH connection from end to end: handleSsh in the Worker acquires a  *)
(* lease and calls the session Durable Object, whose background task       *)
(* (connectSession in src/worker/backend-ssh-do.ts) loads the engine, runs *)
(* the session, renews the lease by heartbeats and releases it at the end. *)
(* The lease table is that of QuotaLeases; an operation of the quota       *)
(* object is one step, as SshSessionQuota shows it may be seen.            *)
(*                                                                         *)
(* Time is relative: a lease carries the ticks it has left, so the table   *)
(* operators are used with the clock at 0 and Tick counts leases down.     *)
(***************************************************************************)
EXTENDS QuotaLeases

CONSTANTS
  KeyOf,         \* the login session of each connection
  HeartbeatMs,   \* period of the heartbeat timer
  RpcMax,        \* ticks a heartbeat may take until its answer is handled
  StartMax       \* ticks from the lease to the session being ready

Conn == LeaseId

ASSUME LifecycleAssumption ==
  /\ KeyOf \in [Conn -> SessionKey]
  /\ HeartbeatMs \in Nat \ {0}
  /\ RpcMax \in Nat /\ RpcMax < HeartbeatMs
  /\ StartMax \in Nat

VARIABLES
  table,    \* the table in the quota object, ticks left as expiresAt
  worker,    \* progress of handleSsh for a connection
  task,      \* progress of connectSession's background task
  browser,   \* the browser's end of the WebSocket
  timer,     \* ticks until the heartbeat timer fires
  beat,      \* the heartbeat request under way
  age,       \* ticks since the lease was granted, until the session is ready
  over,      \* ticks the session has been open without a lease
  lost       \* connections with a failed RPC, a dead Worker or a lost object

lifecycleVars == <<table, worker, task, browser, timer, beat, age, over, lost>>

\* Operators with a Mut_ prefix are faulty variants of the definition that
\* follows them; they serve to check that the properties notice the fault.

Starting == {"loading", "connecting"}

LifecycleTypeOK ==
  /\ table \subseteq [sessionKey: SessionKey, leaseId: Conn,
                       expiresAt: 0..LeaseMs]
  /\ worker \in [Conn -> {"idle", "calling", "releasing", "done"}]
  /\ task \in [Conn -> {"none", "open", "releasing", "done"} \cup Starting]
  /\ browser \in [Conn -> {"none", "open", "closed"}]
  /\ timer \in [Conn -> 0..HeartbeatMs]
  /\ beat \in [Conn -> {"none", "sent", "ok", "gone", "failed"}]
  /\ age \in [Conn -> 0..StartMax]
  /\ over \in [Conn -> Nat]
  /\ lost \subseteq Conn

LifecycleInit ==
  /\ table = {}
  /\ worker = [c \in Conn |-> "idle"]
  /\ task = [c \in Conn |-> "none"]
  /\ browser = [c \in Conn |-> "none"]
  /\ timer = [c \in Conn |-> 0]
  /\ beat = [c \in Conn |-> "none"]
  /\ age = [c \in Conn |-> 0]
  /\ over = [c \in Conn |-> 0]
  /\ lost = {}

-----------------------------------------------------------------------------
ActiveNow == ActiveLeases(table, 0)

Leased(c) == Holds(ActiveNow, KeyOf[c], c)

\* A request to the quota object and its three fates: answered, lost on the
\* way there, lost on the way back.  delivered tells the last two apart.
AcquireFor(c) == table' = AcquirePut(ActiveNow, KeyOf[c], c, 0)

RenewFor(c) == table' = HeartbeatPut(ActiveNow, KeyOf[c], c, 0)

ReleaseFor(c) == table' = ReleasePut(ActiveNow, KeyOf[c], c)

Fails(c) == lost' = lost \cup {c}

-----------------------------------------------------------------------------
\* handleSsh
Acquire(c) ==
  /\ worker[c] = "idle"
  /\ AcquireFor(c)
  /\ worker' = [worker EXCEPT ![c] =
       IF AcquireReply(ActiveNow, KeyOf[c], c) = "granted" THEN "calling" ELSE "done"]
  /\ UNCHANGED <<task, browser, timer, beat, age, over, lost>>

\* The fetch throws out of handleSsh: no session, and nobody to release.
AcquireFails(c, delivered) ==
  /\ worker[c] = "idle"
  /\ IF delivered THEN AcquireFor(c) ELSE UNCHANGED table
  /\ worker' = [worker EXCEPT ![c] = "done"]
  /\ Fails(c)
  /\ UNCHANGED <<task, browser, timer, beat, age, over>>

\* The session object answers 101 and goes on in the background.
Connect(c) ==
  /\ worker[c] = "calling"
  /\ worker' = [worker EXCEPT ![c] = "done"]
  /\ task' = [task EXCEPT ![c] = "loading"]
  /\ browser' = [browser EXCEPT ![c] = "open"]
  /\ UNCHANGED <<table, timer, beat, age, over, lost>>

\* It answers anything else, or was never reached.
ConnectRefused(c) ==
  /\ worker[c] = "calling"
  /\ worker' = [worker EXCEPT ![c] = "releasing"]
  /\ age' = [age EXCEPT ![c] = 0]
  /\ UNCHANGED <<table, task, browser, timer, beat, over, lost>>

\* Its 101 is lost: handleSsh takes the failure for a session that was not
\* started and releases the lease of one that runs.
ConnectReplyLost(c) ==
  /\ worker[c] = "calling"
  /\ worker' = [worker EXCEPT ![c] = "releasing"]
  /\ task' = [task EXCEPT ![c] = "loading"]
  /\ browser' = [browser EXCEPT ![c] = "open"]
  /\ Fails(c)
  /\ UNCHANGED <<table, timer, beat, age, over>>

WorkerRelease(c) ==
  /\ worker[c] = "releasing"
  /\ ReleaseFor(c)
  /\ worker' = [worker EXCEPT ![c] = "done"]
  /\ UNCHANGED <<task, browser, timer, beat, age, over, lost>>

\* The release fails silently (.catch), or the Worker is cancelled.
WorkerGone(c, delivered) ==
  /\ worker[c] \in {"calling", "releasing"}
  /\ IF delivered /\ worker[c] = "releasing" THEN ReleaseFor(c)
                                             ELSE UNCHANGED table
  /\ age' = [age EXCEPT ![c] = IF worker[c] = "calling" THEN 0 ELSE @]
  /\ worker' = [worker EXCEPT ![c] = "done"]
  /\ Fails(c)
  /\ UNCHANGED <<task, browser, timer, beat, over>>

-----------------------------------------------------------------------------
\* connectSession: the task enters its finally block, timer cleared.
Ending(c) ==
  /\ task' = [task EXCEPT ![c] = "releasing"]
  /\ timer' = [timer EXCEPT ![c] = 0]
  /\ age' = [age EXCEPT ![c] = 0]
  /\ over' = [over EXCEPT ![c] = 0]

\* The engine is loaded; the session object is created with its listeners.
Loaded(c) ==
  /\ task[c] = "loading"
  /\ task' = [task EXCEPT ![c] = "connecting"]
  /\ UNCHANGED <<table, worker, browser, timer, beat, age, over, lost>>

\* The engine does not load, the transport cannot be made, or the first send
\* throws: the catch block reports it and closes the socket.
LoadFails(c) ==
  /\ task[c] = "loading"
  /\ Ending(c)
  /\ browser' = [browser EXCEPT ![c] = "closed"]
  /\ UNCHANGED <<table, worker, beat, lost>>

Mut_Started(c) ==
  /\ task[c] = "connecting"
  /\ task' = [task EXCEPT ![c] = "open"]
  /\ timer' = [timer EXCEPT ![c] = LeaseMs]
  /\ age' = [age EXCEPT ![c] = 0]
  /\ UNCHANGED <<table, worker, browser, beat, over, lost>>

\* start() returns with the session ready: only now does the timer start.
Started(c) ==
  /\ task[c] = "connecting"
  /\ task' = [task EXCEPT ![c] = "open"]
  /\ timer' = [timer EXCEPT ![c] = HeartbeatMs]
  /\ age' = [age EXCEPT ![c] = 0]
  /\ UNCHANGED <<table, worker, browser, beat, over, lost>>

\* start() returns with the session closed (host key, credentials, network).
StartFails(c) ==
  /\ task[c] = "connecting"
  /\ Ending(c)
  /\ browser' = [browser EXCEPT ![c] = "closed"]
  /\ UNCHANGED <<table, worker, beat, lost>>

\* The browser leaves, or breaks the protocol: the session closes.
SessionEnds(c) ==
  /\ task[c] \in {"connecting", "open"} /\ browser[c] = "open"
  /\ Ending(c)
  /\ browser' = [browser EXCEPT ![c] = "closed"]
  /\ UNCHANGED <<table, worker, beat, lost>>

\* The browser leaves before the session has registered its close listener:
\* the event finds nobody.
LeavesUnheard(c) ==
  /\ task[c] = "loading" /\ browser[c] = "open"
  /\ browser' = [browser EXCEPT ![c] = "closed"]
  /\ UNCHANGED <<table, worker, task, timer, beat, age, over, lost>>

TaskRelease(c) ==
  /\ task[c] = "releasing"
  /\ ReleaseFor(c)
  /\ task' = [task EXCEPT ![c] = "done"]
  /\ UNCHANGED <<worker, browser, timer, beat, age, over, lost>>

\* The release fails silently (.catch).
TaskReleaseFails(c, delivered) ==
  /\ task[c] = "releasing"
  /\ IF delivered THEN ReleaseFor(c) ELSE UNCHANGED table
  /\ task' = [task EXCEPT ![c] = "done"]
  /\ Fails(c)
  /\ UNCHANGED <<worker, browser, timer, beat, age, over>>

\* The platform evicts the session object with everything in its memory.
ObjectLost(c) ==
  /\ task[c] \in Starting \cup {"open", "releasing"}
  /\ task' = [task EXCEPT ![c] = "done"]
  /\ browser' = [browser EXCEPT ![c] = "closed"]
  /\ timer' = [timer EXCEPT ![c] = 0]
  /\ age' = [age EXCEPT ![c] = 0]
  /\ over' = [over EXCEPT ![c] = 0]
  /\ Fails(c)
  /\ UNCHANGED <<table, worker, beat>>

-----------------------------------------------------------------------------
\* The heartbeat timer
Beat(c) ==
  /\ task[c] = "open" /\ timer[c] = 0 /\ beat[c] = "none"
  /\ beat' = [beat EXCEPT ![c] = "sent"]
  /\ timer' = [timer EXCEPT ![c] = HeartbeatMs]
  /\ UNCHANGED <<table, worker, task, browser, age, over, lost>>

BeatServed(c) ==
  /\ beat[c] = "sent"
  /\ RenewFor(c)
  /\ beat' = [beat EXCEPT ![c] = HeartbeatReply(ActiveNow, KeyOf[c], c)]
  /\ over' = [over EXCEPT ![c] = IF HeartbeatReply(ActiveNow, KeyOf[c], c) = "ok" THEN 0 ELSE @]
  /\ UNCHANGED <<worker, task, browser, timer, age, lost>>

BeatFails(c, delivered) ==
  /\ beat[c] = "sent"
  /\ IF delivered THEN RenewFor(c) ELSE UNCHANGED table
  /\ beat' = [beat EXCEPT ![c] = "failed"]
  /\ Fails(c)
  /\ UNCHANGED <<worker, task, browser, timer, age, over>>

Mut_BeatAnswered(c) ==
  /\ beat[c] \in {"ok", "gone", "failed"}
  /\ beat' = [beat EXCEPT ![c] = "none"]
  /\ UNCHANGED <<table, worker, task, browser, timer, age, over, lost>>

\* Any answer but ok terminates a session that is still open.
BeatAnswered(c) ==
  /\ beat[c] \in {"ok", "gone", "failed"}
  /\ beat' = [beat EXCEPT ![c] = "none"]
  /\ IF task[c] = "open" /\ beat[c] # "ok"
       THEN /\ Ending(c)
            /\ browser' = [browser EXCEPT ![c] = "closed"]
       ELSE UNCHANGED <<task, timer, age, over, browser>>
  /\ UNCHANGED <<table, worker, lost>>

-----------------------------------------------------------------------------
InProgress(c) == worker[c] = "calling" \/ task[c] \in Starting

\* Timers fire when they are due, a heartbeat is dealt with within RpcMax and
\* a session becomes ready or fails within StartMax.
MayTick ==
  \A c \in Conn :
    /\ InProgress(c) => age[c] < StartMax
    /\ task[c] = "open" =>
         /\ timer[c] > 0
         /\ beat[c] # "none" => timer[c] > HeartbeatMs - RpcMax

Down1(n) == IF n = 0 THEN 0 ELSE n - 1

Aged == {[l EXCEPT !.expiresAt = Down1(@)] : l \in table}

Elapse ==
  /\ MayTick
  /\ table' = Aged
  /\ timer' = [c \in Conn |-> Down1(timer[c])]
  /\ age' = [c \in Conn |-> IF InProgress(c) THEN age[c] + 1 ELSE age[c]]
  /\ over' = [c \in Conn |->
       IF task[c] = "open" /\ ~Holds(ActiveLeases(table, 0), KeyOf[c], c)
         THEN over[c] + 1 ELSE over[c]]
  /\ UNCHANGED <<worker, task, browser, beat, lost>>

Handling(c) ==
  \/ Acquire(c)
  \/ Connect(c)
  \/ ConnectRefused(c)
  \/ ConnectReplyLost(c)
  \/ WorkerRelease(c)
  \/ \E delivered \in BOOLEAN : AcquireFails(c, delivered)
  \/ \E delivered \in BOOLEAN : WorkerGone(c, delivered)

Leaving(c) ==
  \/ SessionEnds(c)
  \/ LeavesUnheard(c)
  \/ ObjectLost(c)

Starts(c) ==
  \/ Loaded(c)
  \/ LoadFails(c)
  \/ Started(c)
  \/ StartFails(c)

Releases(c) ==
  \/ TaskRelease(c)
  \/ \E delivered \in BOOLEAN : TaskReleaseFails(c, delivered)

Beats(c) ==
  \/ Beat(c)
  \/ BeatServed(c)
  \/ BeatAnswered(c)
  \/ \E delivered \in BOOLEAN : BeatFails(c, delivered)

LifecycleNext ==
  \/ \E c \in Conn :
       Handling(c) \/ Leaving(c) \/ Starts(c) \/ Releases(c) \/ Beats(c)
  \/ Elapse

\* Time passes, timers fire, RPCs end one way or the other and a handshake
\* does not hang.  Nothing is assumed of the browser, and no RPC succeeds.
Fairness ==
  /\ WF_lifecycleVars(Elapse)
  /\ \A c \in Conn :
       /\ WF_lifecycleVars(Handling(c) /\ worker[c] # "idle")
       /\ WF_lifecycleVars(Starts(c))
       /\ WF_lifecycleVars(Releases(c))
       /\ WF_lifecycleVars(Beats(c))

LifecycleSpec == LifecycleInit /\ [][LifecycleNext]_lifecycleVars /\ Fairness

-----------------------------------------------------------------------------
\* As long as no RPC of its own failed, an open session holds a lease: the
\* heartbeats come in time and nobody else ends it.  It is what makes the
\* count of leases a count of sessions.
LeaseCoversSession ==
  \A c \in Conn : task[c] = "open" /\ c \notin lost => Leased(c)

\* Whatever fails, a session that lost its lease (its slot may be taken by
\* another) is gone after one heartbeat period and one round trip.
OverstayBounded ==
  \A c \in Conn : task[c] = "open" /\ ~Leased(c) => over[c] <= HeartbeatMs + RpcMax

\* A connection that came to its end without a failure leaves no lease behind:
\* every path through handleSsh and the task releases it, and no heartbeat
\* that arrives after the release brings it back.
NoOrphanLease ==
  \A c \in Conn :
    worker[c] = "done" /\ task[c] \in {"none", "done"} /\ c \notin lost
      => ~Leased(c)

\* The limit as the requirements state it: connections that are open at the
\* same time, of one login session and over all.
ActiveWithinLimit ==
  LET Open == {c \in Conn : task[c] = "open" /\ c \notin lost} IN
  /\ \A k \in SessionKey : Cardinality({c \in Open : KeyOf[c] = k}) <= SessionLimit
  /\ Cardinality(Open) <= GlobalLimit

\* Liveness: when the session of a connection is over, by whatever end, and
\* even when its object and every release are lost, its slot becomes free.
SlotFreed ==
  \A c \in Conn : task[c] = "done" ~> ~Leased(c)

\* Liveness: a browser that leaves gives its slot back.
CloseFreesSlot ==
  \A c \in Conn : browser[c] = "closed" ~> ~Leased(c)
=============================================================================
