--------------------------- MODULE BrowserSession ---------------------------
(***************************************************************************)
(* One session as the browser runs it: BackendSshClient, which owns the    *)
(* socket and reconnects (src/frontend/backend-ssh-client.ts), and the     *)
(* screen around it: connectTo and teardown (main.ts), the recovery after  *)
(* a reconnection (session-reconnect.ts), the release of everything        *)
(* (session-lifecycle.ts) and the metrics poller (monitor.ts).             *)
(*                                                                         *)
(* JavaScript runs one event at a time and then every continuation that    *)
(* the event has made ready.  A flow is an asynchronous function under     *)
(* way; it stands at an await (pc) and, once what it waits for has been    *)
(* settled, has an outcome (got).  Events happen only when no flow is      *)
(* ready to go on.  SettingsDialog adds the settings.                      *)
(***************************************************************************)
EXTENDS Naturals

CONSTANT Attempts  \* length of reconnectDelaysMs, 1 to 5 by the settings

ASSUME AttemptsAssumption == Attempts \in Nat \ {0}

VARIABLES
  client,   \* fields of BackendSshClient
  screen,   \* SessionResources, the screen's `active`, its status and input
  flow,     \* the asynchronous functions under way
  enabled   \* reconnectEnabled

vars == <<client, screen, flow, enabled>>

Flow == {"main", "loop", "recovery", "poll"}

AwaitsReady == {<<"main", "connect">>, <<"loop", "opening">>}

AwaitsReply ==
  {<<"main", "detect">>, <<"main", "shell">>, <<"recovery", "shell">>,
   <<"recovery", "list">>, <<"poll", "sample">>}

AwaitsOther ==
  {<<"main", "cached">>, <<"main", "import">>, <<"main", "charts">>,
   <<"loop", "delay">>}

Idle == [pc |-> "idle", got |-> "-"]

\* A flow that awaits something else than a reply.
At(pc) == [pc |-> pc, got |-> "-"]

Waiting(f, awaits) == <<f, flow[f].pc>> \in awaits /\ flow[f].got = "-"

Quiet == \A f \in Flow : flow[f].got = "-"

TypeOK ==
  /\ client \in [sock: {"none", "open", "failed", "ready"}, explicit: BOOLEAN,
                 secErr: BOOLEAN, notified: BOOLEAN, reconnecting: BOOLEAN,
                 attempt: 0..Attempts, feeding: BOOLEAN]
  /\ screen \in [cleaned: BOOLEAN, conn: BOOLEAN, subs: BOOLEAN,
                 term: {"none", "shown", "disposed"},
                 poller: {"none", "running", "stopped"}, active: BOOLEAN,
                 stdin: BOOLEAN,
                 status: {"connecting", "open", "closed", "error"}]
  /\ \A f \in Flow :
       /\ \/ flow[f].pc = "idle"
          \/ <<f, flow[f].pc>> \in AwaitsReady \cup AwaitsReply \cup AwaitsOther
       /\ flow[f].got \in {"-", "ok", "fail", "sec"}
  /\ enabled \in BOOLEAN

\* connectTo has called connect().
SessionInit ==
  /\ client = [sock |-> "open", explicit |-> FALSE, secErr |-> FALSE,
               notified |-> FALSE, reconnecting |-> FALSE, attempt |-> 0,
               feeding |-> FALSE]
  /\ screen = [cleaned |-> FALSE, conn |-> FALSE, subs |-> FALSE,
               term |-> "none", poller |-> "none", active |-> FALSE,
               stdin |-> TRUE, status |-> "connecting"]
  /\ flow = [f \in Flow |-> IF f = "main" THEN At("connect") ELSE Idle]
  /\ enabled \in BOOLEAN

-----------------------------------------------------------------------------
\* The synchronous functions, as functions of the two objects' states.
\* Operators with a Mut_ prefix are faulty variants of the definition that
\* follows them; they serve to check that the properties notice the fault.

\* request(): refused at once unless the session is ready.
Request(c, pc) == [pc |-> pc, got |-> IF c.sock = "ready" THEN "-" ELSE "fail"]

Settle(awaits, outcome) ==
  [f \in Flow |-> IF Waiting(f, awaits) THEN [flow[f] EXCEPT !.got = outcome]
                                        ELSE flow[f]]

\* disconnect(), and close() once nobody waits for the socket any more.
Disconnected(c) ==
  [c EXCEPT !.explicit = TRUE, !.sock = "none", !.feeding = FALSE]

\* cleanupSessionResources
Released(s) ==
  IF s.cleaned THEN s
  ELSE [s EXCEPT !.cleaned = TRUE, !.subs = FALSE,
                 !.poller = IF @ = "none" THEN @ ELSE "stopped",
                 !.term = IF @ = "none" THEN @ ELSE "disposed"]

LetGo(c, s) == IF s.cleaned THEN c ELSE Disconnected(c)

\* notifyClosed, with connectTo's handler.
Notified(c, s) ==
  IF c.notified THEN c ELSE [LetGo(c, s) EXCEPT !.notified = TRUE]

ScreenNotified(c, s) ==
  IF c.notified THEN s
  ELSE [Released(s) EXCEPT !.active = FALSE, !.status = "closed"]

\* handleSessionReconnect for "reconnecting" and "failed"; it hears nothing
\* before connectTo has subscribed.
Locked(s, status) ==
  IF s.subs THEN [s EXCEPT !.poller = "stopped", !.stdin = FALSE, !.status = status]
            ELSE s

\* poller.start(): its first tick, unless one is under way.
Ticking(c) ==
  IF flow["poll"].pc = "idle" THEN Request(c, "sample") ELSE flow["poll"]

-----------------------------------------------------------------------------
\* Events.

\* A mismatch reported by the server, or the verifier throws; keys are
\* exchanged again in a session that is ready.
HostKeyBlocked ==
  /\ Quiet /\ client.sock \in {"open", "ready"}
  /\ client' = [client EXCEPT !.secErr = TRUE]
  /\ UNCHANGED <<screen, flow, enabled>>

\* state: ready.  A key refused on this socket has failed it; a dialog that an
\* earlier socket left open may be refused meanwhile.
Ready ==
  /\ Quiet /\ client.sock = "open"
  /\ client.secErr => client.reconnecting
  /\ client' = [client EXCEPT !.sock = "ready"]
  /\ flow' = Settle(AwaitsReady, "ok")
  /\ UNCHANGED <<screen, enabled>>

\* state: error.  A session that was not ready yet is closed next; the client
\* takes one that was for ready still.
StateError ==
  /\ Quiet /\ client.sock \in {"open", "ready"}
  /\ client' = [client EXCEPT !.sock = IF @ = "open" THEN "failed" ELSE @]
  /\ flow' = Settle(AwaitsReady \cup AwaitsReply,
                    IF client.secErr THEN "sec" ELSE "fail")
  /\ UNCHANGED <<screen, enabled>>

\* onerror; onclose follows.
SocketError ==
  /\ Quiet /\ client.sock = "open"
  /\ client' = [client EXCEPT !.sock = "failed"]
  /\ flow' = Settle(AwaitsReady, "fail")
  /\ UNCHANGED <<screen, enabled>>

Mut_Dropped == Settle(AwaitsReady, "fail")

\* What onclose rejects.
Dropped == Settle(AwaitsReady \cup AwaitsReply, "fail")

\* onclose of a session that was ready: reconnect() up to its first await.
ClosedUnexpectedly ==
  /\ Quiet /\ client.sock = "ready" /\ enabled /\ ~client.explicit
  /\ client' = [client EXCEPT !.sock = "none",
                  !.reconnecting = TRUE,
                  !.attempt = IF client.reconnecting THEN @ ELSE 1,
                  !.feeding = @ /\ client.reconnecting]
  /\ IF client.reconnecting
       THEN flow' = Dropped /\ UNCHANGED screen
       ELSE /\ flow' = [Dropped EXCEPT !["loop"] = At("delay")]
            /\ screen' = Locked(screen, "connecting")
  /\ UNCHANGED enabled

\* onclose of any other socket, or with code 1000.
ClosedForGood(normal) ==
  /\ Quiet /\ client.sock # "none"
  /\ normal \/ client.sock # "ready" \/ ~enabled \/ client.explicit
  /\ LET c == [client EXCEPT !.sock = "none"] IN
       IF client.reconnecting
         THEN client' = c /\ UNCHANGED screen
         ELSE /\ client' = Notified(c, screen)
              /\ screen' = ScreenNotified(c, screen)
  /\ flow' = Dropped
  /\ UNCHANGED enabled

\* A response arrives.
Reply(f, ok) ==
  /\ Quiet /\ client.sock = "ready"
  /\ Waiting(f, AwaitsReply)
  /\ flow' = [flow EXCEPT ![f].got = IF ok THEN "ok" ELSE "fail"]
  /\ UNCHANGED <<client, screen, enabled>>

\* A timer, the OS cache or a dynamic import settles; only the terminal's
\* import has a failure that is not caught.
Other(f, ok) ==
  /\ Quiet /\ Waiting(f, AwaitsOther)
  /\ ok \/ flow[f].pc = "import"
  /\ flow' = [flow EXCEPT ![f].got = IF ok THEN "ok" ELSE "fail"]
  /\ UNCHANGED <<client, screen, enabled>>

\* The poller's interval.
PollTimer ==
  /\ Quiet /\ screen.poller = "running" /\ flow["poll"] = Idle
  /\ flow' = [flow EXCEPT !["poll"] = Request(client, "sample")]
  /\ UNCHANGED <<client, screen, enabled>>

\* teardown(): the user leaves the session.
Leave ==
  /\ Quiet /\ screen.active
  /\ client' = LetGo(client, screen)
  /\ screen' = [Released(screen) EXCEPT !.active = FALSE, !.status = "closed"]
  /\ UNCHANGED <<flow, enabled>>

\* MetricsPoller.setIntervalMs: a poller that runs ticks at once.
Rescheduled ==
  IF screen.poller = "running" THEN [flow EXCEPT !["poll"] = Ticking(client)] ELSE flow

\* applyAppSettings, which finds the client and the poller of a session only
\* when connectTo is over.
Applies(policy) ==
  /\ Quiet
  /\ IF screen.active
       THEN enabled' = policy /\ flow' = Rescheduled
       ELSE UNCHANGED <<enabled, flow>>
  /\ UNCHANGED <<client, screen>>

-----------------------------------------------------------------------------
\* Continuations.

Got(f, pc) == flow[f].pc = pc /\ flow[f].got # "-"

Ok(f) == flow[f].got = "ok"

\* The catch block of connectTo.
MainFails ==
  /\ \E pc \in {"connect", "detect", "import", "shell"} : Got("main", pc)
  /\ ~Ok("main")
  /\ client' = LetGo(client, screen)
  /\ screen' = [Released(screen) EXCEPT !.status = "error"]
  /\ flow' = [flow EXCEPT !["main"] = Idle]
  /\ UNCHANGED enabled

\* The cache is asked for the system, or cannot be and a command is.
MainConnected ==
  /\ Got("main", "connect") /\ Ok("main")
  /\ screen' = [screen EXCEPT !.conn = TRUE]
  /\ \E next \in {At("cached"), Request(client, "detect")} :
       flow' = [flow EXCEPT !["main"] = next]
  /\ UNCHANGED <<client, enabled>>

\* The cache has it, or not.
MainCached ==
  /\ Got("main", "cached")
  /\ \E next \in {At("import"), Request(client, "detect")} :
       flow' = [flow EXCEPT !["main"] = next]
  /\ UNCHANGED <<client, screen, enabled>>

MainDetected ==
  /\ Got("main", "detect") /\ Ok("main")
  /\ flow' = [flow EXCEPT !["main"] = At("import")]
  /\ UNCHANGED <<client, screen, enabled>>

MainTerminal ==
  /\ Got("main", "import") /\ Ok("main")
  /\ screen' = [screen EXCEPT !.term = "shown"]
  /\ client' = [client EXCEPT !.feeding = TRUE]
  /\ flow' = [flow EXCEPT !["main"] = Request(client, "shell")]
  /\ UNCHANGED enabled

MainShell ==
  /\ Got("main", "shell") /\ Ok("main")
  /\ flow' = [flow EXCEPT !["main"] = At("charts")]
  /\ UNCHANGED <<client, screen, enabled>>

\* The rest of connectTo.
MainDone ==
  /\ Got("main", "charts")
  /\ screen' = [screen EXCEPT !.poller = "running", !.subs = TRUE,
                  !.active = TRUE, !.status = "open"]
  /\ flow' = [flow EXCEPT !["main"] = Idle, !["poll"] = Ticking(client)]
  /\ UNCHANGED <<client, enabled>>

Mut_LoopDelayed ==
  /\ Got("loop", "delay")
  /\ client' = [client EXCEPT !.secErr = FALSE, !.sock = "open"]
  /\ flow' = [flow EXCEPT !["loop"] = At("opening")]
  /\ UNCHANGED <<screen, enabled>>

\* reconnect() after a delay.
LoopDelayed ==
  /\ Got("loop", "delay")
  /\ IF client.explicit
       THEN /\ client' = [client EXCEPT !.reconnecting = FALSE]
            /\ flow' = [flow EXCEPT !["loop"] = Idle]
       ELSE /\ client' = [client EXCEPT !.secErr = FALSE, !.sock = "open"]
            /\ flow' = [flow EXCEPT !["loop"] = At("opening")]
  /\ UNCHANGED <<screen, enabled>>

Mut_LoopReady ==
  /\ Got("loop", "opening") /\ Ok("loop")
  /\ client' = [client EXCEPT !.feeding = @ \/ screen.subs]
  /\ flow' = [flow EXCEPT !["loop"] = Idle,
                !["recovery"] = IF screen.subs THEN Request(client, "shell") ELSE @]
  /\ UNCHANGED <<screen, enabled>>

\* reconnect() has succeeded; handleSessionReconnect opens a shell.
LoopReady ==
  /\ Got("loop", "opening") /\ Ok("loop")
  /\ client' = [client EXCEPT !.reconnecting = FALSE, !.feeding = @ \/ screen.subs]
  /\ flow' = [flow EXCEPT !["loop"] = Idle,
                !["recovery"] = IF screen.subs THEN Request(client, "shell") ELSE @]
  /\ UNCHANGED <<screen, enabled>>

Mut_Exhausted == client.attempt = Attempts

\* A host key that was refused ends the loop at once.
Exhausted == client.attempt = Attempts \/ flow["loop"].got = "sec"

LoopAgain ==
  /\ Got("loop", "opening") /\ ~Ok("loop") /\ ~Exhausted
  /\ client' = [client EXCEPT !.attempt = @ + 1]
  /\ screen' = Locked(screen, "connecting")
  /\ flow' = [flow EXCEPT !["loop"] = At("delay")]
  /\ UNCHANGED enabled

LoopFails ==
  /\ Got("loop", "opening") /\ ~Ok("loop") /\ Exhausted
  /\ LET s == Locked(screen, "error") IN
       /\ client' = [Notified(client, s) EXCEPT !.reconnecting = FALSE]
       /\ screen' = ScreenNotified(client, s)
  /\ flow' = [flow EXCEPT !["loop"] = Idle]
  /\ UNCHANGED enabled

RecoveryShell ==
  /\ Got("recovery", "shell") /\ Ok("recovery")
  /\ flow' = [flow EXCEPT !["recovery"] = Request(client, "list")]
  /\ UNCHANGED <<client, screen, enabled>>

RecoveryFails ==
  /\ Got("recovery", "shell") /\ ~Ok("recovery")
  /\ screen' = [screen EXCEPT !.poller = "stopped", !.stdin = FALSE, !.status = "error"]
  /\ flow' = [flow EXCEPT !["recovery"] = Idle]
  /\ UNCHANGED <<client, enabled>>

\* SftpPanel.open reports its own errors and returns.
RecoveryDone ==
  /\ Got("recovery", "list")
  /\ screen' = [screen EXCEPT !.poller = "running", !.stdin = TRUE, !.status = "open"]
  /\ flow' = [flow EXCEPT !["recovery"] = Idle, !["poll"] = Ticking(client)]
  /\ UNCHANGED <<client, enabled>>

\* The end of a tick: an error shows in the status.
PollDone ==
  /\ Got("poll", "sample")
  /\ screen' = IF Ok("poll") THEN screen ELSE [screen EXCEPT !.status = "error"]
  /\ flow' = [flow EXCEPT !["poll"] = Idle]
  /\ UNCHANGED <<client, enabled>>

Continue ==
  \/ MainFails
  \/ MainConnected
  \/ MainCached
  \/ MainDetected
  \/ MainTerminal
  \/ MainShell
  \/ MainDone
  \/ LoopDelayed
  \/ LoopReady
  \/ LoopAgain
  \/ LoopFails
  \/ RecoveryShell
  \/ RecoveryFails
  \/ RecoveryDone
  \/ PollDone

SocketEvent == Ready \/ StateError \/ SocketError \/ ClosedForGood(FALSE)

SessionNext ==
  \/ HostKeyBlocked
  \/ SocketEvent
  \/ ClosedUnexpectedly
  \/ ClosedForGood(TRUE)
  \/ \E f \in Flow, ok \in BOOLEAN : Reply(f, ok) \/ Other(f, ok)
  \/ PollTimer
  \/ Leave
  \/ Continue

\* Continuations run, the delay of the loop ends, and a socket that is being
\* opened or has failed gets its event: handleSsh and the browser bound the
\* wait.  Other events, such as the poller's, come between but do not starve
\* them (SF), since every event has its turn in the browser's queue.
Fairness ==
  /\ WF_vars(Continue)
  /\ SF_vars(Other("loop", TRUE))
  /\ SF_vars(client.sock # "ready" /\ SocketEvent)

-----------------------------------------------------------------------------
\* Action property: once the user has left, or the session was given up, no
\* socket is opened any more, in particular not by a delay that was running.
NoReopen ==
  [][client.sock # "open" /\ client'.sock = "open" => ~client.explicit]_vars

\* Temporal safety: a host key that is refused or does not match while
\* connectTo or the loop waits for the session ends it for good, once the state
\* error rejects what they wait for: no socket is opened any more.  A report
\* that is lost with its socket is retried, and so is a key refused when the
\* session is ready and nobody waits, see KeyChangeEnds.
NoRetryAfterBlock ==
  [](flow["main"].got = "sec" \/ flow["loop"].got = "sec" => [](client.sock # "open"))

\* Safety: nobody is left waiting for the answer of a socket that is gone,
\* unless the user has left; across any number of reconnections.
NoLostRequest ==
  \A f \in Flow : Waiting(f, AwaitsReply) => client.sock = "ready" \/ client.explicit

\* Liveness: a lost socket is replaced by a ready one, or the end of the
\* session is reported, or the user has left.
OutageEnds ==
  client.sock = "none" ~> client.sock = "ready" \/ client.notified \/ client.explicit

\* Safety, as src/agent/question.md:537 states it: the terminal takes no
\* input while the session reconnects.  The code does not keep it.
InputLocked ==
  Quiet /\ screen.active /\ client.reconnecting => ~screen.stdin

\* Safety, as src/agent/question.md:574 states it: a refused or changed host
\* key is not followed by a reconnection.  The code does not keep it for keys
\* that are exchanged in a session that is ready: whoever waits for a reply is
\* told, but the socket that closes afterwards is replaced.
KeyChangeEnds ==
  [](client.sock = "ready" /\ client.secErr => [](client.sock # "open"))
=============================================================================
