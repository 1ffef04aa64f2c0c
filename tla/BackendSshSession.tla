------------------------- MODULE BackendSshSession -------------------------
(***************************************************************************)
(* The server side of one browser WebSocket: BackendSshSession             *)
(* (src/worker/backend-ssh-session.ts) over the Go engine                  *)
(* (go-ssh/main.go), whose tables are shared by every session of the same  *)
(* isolate.                                                                *)
(*                                                                         *)
(* One action per event the JavaScript event loop delivers.  A call into   *)
(* the engine runs Go up to its first wait within the event, so the lookup *)
(* (getConn, the handle tables) belongs to the calling event; the rest,    *)
(* the registration of a new handle and the continuation of the awaiting   *)
(* request belong to the event that completes it.                          *)
(*                                                                         *)
(* Read and write handles are one kind of handle here: the code treats     *)
(* the two in the same way, line by line.  Commands and directory          *)
(* operations (exec, sftpList, sftpRename, ...) are the method "plain".    *)
(***************************************************************************)
EXTENDS Integers, FiniteSets

CONSTANTS
  Session,       \* sessions sharing the engine
  Req,           \* request ids of a browser
  MaxInFlight,   \* MAX_IN_FLIGHT_REQUESTS
  MaxId,         \* bound on the ids the engine hands out
  Rekeys,        \* bound, per session: host-key verifications, the first one included
  SerialShell    \* TRUE: the browser awaits one openShell before the next

ASSUME SessionAssumption ==
  /\ MaxInFlight \in Nat \ {0}
  /\ MaxId \in Nat
  /\ \A s \in Session : Rekeys[s] \in Nat
  /\ SerialShell \in BOOLEAN

VARIABLES
  nextId,     \* engineState.nextID
  conns,      \* engineState.conns: records [id, owner]
  shells,     \* engineState.shells: records [id, owner]
  files,      \* engineState.readers and writers: records [id, conn, owner]
  ssn,        \* the BackendSshSession objects
  call,       \* call[s][q]: the request q of s that awaits the engine
  consent,    \* sessions whose user accepted the server's key
  errors      \* errors[s]: "state: error" frames sent

engine == <<nextId, conns, shells, files>>

vars == <<nextId, conns, shells, files, ssn, call, consent, errors>>

\* The stored fingerprint of the host, compared with the key it presents.
Pin == {"none", "match", "mismatch"}

\* Progress of the engine's connect for a session: not called, in the key
\* exchange, waiting for the browser's verdict, authenticating, refused by
\* the verifier, connected, connected but the link is gone, given up.
Stage == {"new", "kex", "verify", "auth", "refused", "up", "down", "failed"}

NoCall == [method |-> "none"]

\* A chunk and a close are both the method "handle".
Method == [method: {"plain", "openShell", "openFile", "handle"}]

\* The tables and the objects hold values of their types.
TypeOK ==
  /\ nextId \in 1..(MaxId + 1)
  /\ conns \subseteq [id: 1..MaxId, owner: Session]
  /\ shells \subseteq [id: 1..MaxId, owner: Session]
  /\ files \subseteq [id: 1..MaxId, conn: 1..MaxId, owner: Session]
  /\ ssn \in [Session ->
       [stage: Stage, pin: Pin, connId: 0..MaxId, shell: 0..MaxId,
        handles: SUBSET (1..MaxId), challenge: BOOLEAN, blocked: BOOLEAN,
        closed: BOOLEAN, verified: Nat]]
  /\ call \in [Session -> [Req -> Method \cup {NoCall}]]
  /\ consent \subseteq Session
  /\ errors \in [Session -> 0..2]

Fresh(pin) ==
  [stage |-> "new", pin |-> pin, connId |-> 0, shell |-> 0, handles |-> {},
   challenge |-> FALSE, blocked |-> FALSE, closed |-> FALSE, verified |-> 0]

Init ==
  /\ nextId = 1 /\ conns = {} /\ shells = {} /\ files = {}
  /\ \E pin \in [Session -> Pin] : ssn = [s \in Session |-> Fresh(pin[s])]
  /\ call = [s \in Session |-> [q \in Req |-> NoCall]]
  /\ consent = {}
  /\ errors = [s \in Session |-> 0]

-----------------------------------------------------------------------------
InFlight(s) == {q \in Req : call[s][q] # NoCall}

\* Operators with a Mut_ prefix are faulty variants of the definition that
\* follows them; they serve to check that the properties notice the fault.

\* The engine still reaches the server over the connection of s.
ConnUp(s) == ssn[s].stage = "up"

\* jsShellClose and jsDisconnect: what they leave in the tables.
ShellsWithout(id) == {h \in shells : h.id # id}

ConnsWithout(id) == {c \in conns : c.id # id}

Mut_FilesWithout(id) == files

FilesWithout(id) == {f \in files : f.conn # id}

\* close(): what becomes of the object.  A pending challenge is answered
\* "no"; without its transport the connection is gone.
ClosedState(r) ==
  [r EXCEPT !.closed = TRUE, !.connId = 0, !.shell = 0, !.handles = {},
            !.challenge = FALSE,
            !.stage = IF r.connId # 0 THEN "down"
                      ELSE IF r.challenge THEN "refused" ELSE r.stage]

\* close(): what it releases in the engine, in the code's order: the shell,
\* then the connection with the handles opened on it.  jsDisconnect takes the
\* connection and all its handles out of the tables first; the round trips that
\* close the remote files afterwards change none of them.
Release(s) ==
  /\ shells' = ShellsWithout(ssn[s].shell)
  /\ conns' = ConnsWithout(ssn[s].connId)
  /\ files' = FilesWithout(ssn[s].connId)

-----------------------------------------------------------------------------
\* start(): the engine begins the key exchange.
Start(s) ==
  /\ ssn[s].stage = "new"
  /\ ssn' = [ssn EXCEPT ![s].stage = "kex"]
  /\ UNCHANGED <<engine, call, consent, errors>>

\* A key exchange asks for the host key to be verified: the first one, and
\* each later one of an established connection.
Verifying(s) ==
  /\ ssn[s].stage \in {"kex", "up"}
  /\ ~ssn[s].closed /\ ~ssn[s].challenge
  /\ ssn[s].verified < Rekeys[s]

Accepted(stage) == IF stage \in {"kex", "verify"} THEN "auth" ELSE stage

\* verifyHostKey, the stored fingerprint matches.
VerifyMatch(s) ==
  /\ Verifying(s) /\ ssn[s].pin = "match"
  /\ ssn' = [ssn EXCEPT ![s].stage = Accepted(@), ![s].verified = @ + 1]
  /\ UNCHANGED <<engine, call, consent, errors>>

Mut_VerifyMismatch(s) ==
  /\ Verifying(s) /\ ssn[s].pin = "mismatch"
  /\ ssn' = [ssn EXCEPT ![s].stage = "refused", ![s].verified = @ + 1]
  /\ errors' = [errors EXCEPT ![s] = @ + 1]
  /\ UNCHANGED <<engine, call, consent>>

\* verifyHostKey, it does not: the browser is told, the key refused.
VerifyMismatch(s) ==
  /\ Verifying(s) /\ ssn[s].pin = "mismatch"
  /\ ssn' = [ssn EXCEPT ![s].stage = "refused", ![s].blocked = TRUE,
                        ![s].verified = @ + 1]
  /\ errors' = [errors EXCEPT ![s] = @ + 1]
  /\ UNCHANGED <<engine, call, consent>>

\* verifyHostKey of an unknown host: challenge the browser.
Challenge(s) ==
  /\ Verifying(s) /\ ssn[s].pin = "none"
  /\ ssn' = [ssn EXCEPT ![s].challenge = TRUE, ![s].verified = @ + 1,
                        ![s].stage = IF @ = "kex" THEN "verify" ELSE @]
  /\ UNCHANGED <<engine, call, consent, errors>>

\* host-key-response to the pending challenge, the key is trusted.
VerdictYes(s) ==
  /\ ssn[s].challenge
  /\ ssn' = [ssn EXCEPT ![s].challenge = FALSE, ![s].stage = Accepted(@)]
  /\ consent' = consent \cup {s}
  /\ UNCHANGED <<engine, call, errors>>

\* The pending challenge is answered "no".
Refuse(s) ==
  /\ ssn[s].challenge
  /\ ssn' = [ssn EXCEPT ![s].challenge = FALSE,
                        ![s].stage = IF @ = "down" THEN "down" ELSE "refused"]
  /\ UNCHANGED <<engine, call, consent, errors>>

Mut_VerdictNo(s) ==
  /\ ssn[s].challenge
  /\ ssn' = [ssn EXCEPT ![s].challenge = FALSE, ![s].stage = Accepted(@)]
  /\ UNCHANGED <<engine, call, consent, errors>>

\* host-key-response with a refusal.
VerdictNo(s) == Refuse(s)

Mut_ChallengeTimeout(s) == ssn[s].challenge /\ UNCHANGED vars

\* The 60 s timer of the challenge.
ChallengeTimeout(s) == Refuse(s)

\* connect resolves: the engine registers the client, the session is ready.
\* Without a transport the handshake cannot finish, hence ~closed.
ConnectOk(s) ==
  /\ ssn[s].stage = "auth" /\ ~ssn[s].closed
  /\ nextId <= MaxId
  /\ nextId' = nextId + 1
  /\ conns' = conns \cup {[id |-> nextId, owner |-> s]}
  /\ ssn' = [ssn EXCEPT ![s].stage = "up", ![s].connId = nextId]
  /\ UNCHANGED <<shells, files, call, consent, errors>>

\* connect rejects: start's catch reports the error unless the mismatch did,
\* and closes the session; send and close do nothing on a closed one.
ConnectFail(s) ==
  /\ ssn[s].stage \in {"kex", "auth", "refused"} /\ ssn[s].connId = 0
  /\ ssn' = [ssn EXCEPT ![s] = [ClosedState(ssn[s]) EXCEPT !.stage = "failed"]]
  /\ Release(s)
  /\ errors' = IF ssn[s].blocked \/ ssn[s].closed THEN errors
               ELSE [errors EXCEPT ![s] = @ + 1]
  /\ UNCHANGED <<nextId, call, consent>>

\* The SSH link is gone (network, keepalive, a refused rekey).  The engine's
\* calls fail from now on; nothing tells the session.
LinkDown(s) ==
  /\ ssn[s].stage \in {"up", "refused"} /\ ssn[s].connId # 0
  /\ ssn' = [ssn EXCEPT ![s].stage = "down"]
  /\ UNCHANGED <<engine, call, consent, errors>>

-----------------------------------------------------------------------------
\* A request frame that passes the token bucket and the limit on requests in
\* flight: handleMessage and handleRequest up to the await.  Frames that are
\* refused or that come before the session is ready change nothing.
Request(s, q, m) ==
  /\ ~ssn[s].closed /\ ssn[s].connId # 0
  /\ call[s][q] = NoCall
  /\ Cardinality(InFlight(s)) < MaxInFlight
  /\ call' = [call EXCEPT ![s][q] = m]
  /\ UNCHANGED <<nextId, conns, consent, errors>>

RequestPlain(s, q) ==
  /\ Request(s, q, [method |-> "plain"])
  /\ UNCHANGED <<shells, files, ssn>>

\* openShell closes the current shell before it awaits the new one.
RequestShell(s, q) ==
  /\ SerialShell => \A p \in Req : call[s][p].method # "openShell"
  /\ Request(s, q, [method |-> "openShell"])
  /\ shells' = ShellsWithout(ssn[s].shell)
  /\ ssn' = [ssn EXCEPT ![s].shell = 0]
  /\ UNCHANGED files

RequestOpenFile(s, q) ==
  /\ Request(s, q, [method |-> "openFile"])
  /\ UNCHANGED <<shells, files, ssn>>

\* Only handles this session opened are passed on to the engine.
RequestChunk(s, q, h) ==
  /\ h \in ssn[s].handles
  /\ Request(s, q, [method |-> "handle"])
  /\ UNCHANGED <<shells, files, ssn>>

Mut_CloseUntracked(s, q, h) ==
  /\ Request(s, q, [method |-> "handle"])
  /\ ssn' = [ssn EXCEPT ![s].handles = @ \ {h}]
  /\ files' = {f \in files : f.id # h}
  /\ UNCHANGED shells

Mut_CloseKeepsHandle(s, q, h) ==
  /\ h \in ssn[s].handles
  /\ Request(s, q, [method |-> "handle"])
  /\ files' = {f \in files : f.id # h}
  /\ UNCHANGED <<ssn, shells>>

\* The engine takes the handle out of its table before it waits.
RequestCloseFile(s, q, h) ==
  /\ h \in ssn[s].handles
  /\ Request(s, q, [method |-> "handle"])
  /\ ssn' = [ssn EXCEPT ![s].handles = @ \ {h}]
  /\ files' = {f \in files : f.id # h}
  /\ UNCHANGED shells

Finish(s, q) == call' = [call EXCEPT ![s][q] = NoCall]

\* The engine completes an open: it registers the handle, and the awaiting
\* continuation stores it.  Over a link that is gone an open can only fail.
CompleteShell(s, q) ==
  /\ call[s][q].method = "openShell" /\ ConnUp(s) /\ nextId <= MaxId
  /\ nextId' = nextId + 1
  /\ shells' = shells \cup {[id |-> nextId, owner |-> s]}
  /\ ssn' = [ssn EXCEPT ![s].shell = nextId]
  /\ Finish(s, q)
  /\ UNCHANGED <<conns, files, consent, errors>>

CompleteOpenFile(s, q) ==
  /\ call[s][q].method = "openFile" /\ ConnUp(s) /\ nextId <= MaxId
  /\ nextId' = nextId + 1
  /\ files' = files \cup {[id |-> nextId, conn |-> ssn[s].connId, owner |-> s]}
  /\ ssn' = [ssn EXCEPT ![s].handles = @ \cup {nextId}]
  /\ Finish(s, q)
  /\ UNCHANGED <<conns, shells, consent, errors>>

\* A plain call, a chunk or a close completes; or any call fails.
CompleteOther(s, q) ==
  /\ call[s][q] # NoCall
  /\ Finish(s, q)
  /\ UNCHANGED <<engine, ssn, consent, errors>>

\* The result does not fit a frame (a long listing): send() closes the
\* session instead of answering.
CompleteTooLarge(s, q) ==
  /\ call[s][q].method = "plain" /\ ConnUp(s) /\ ~ssn[s].closed
  /\ Finish(s, q)
  /\ ssn' = [ssn EXCEPT ![s] = ClosedState(ssn[s])]
  /\ Release(s)
  /\ UNCHANGED <<nextId, consent, errors>>

\* shell-close frame.
ShellClose(s) ==
  /\ ~ssn[s].closed /\ ssn[s].shell # 0
  /\ shells' = ShellsWithout(ssn[s].shell)
  /\ ssn' = [ssn EXCEPT ![s].shell = 0]
  /\ UNCHANGED <<nextId, conns, files, call, consent, errors>>

\* Everything else that closes the session: the browser's disconnect frame,
\* the WebSocket's close event, terminate() of the heartbeat, a frame that
\* is too large or comes too fast.
EndSession(s) ==
  /\ ssn[s].stage # "new" /\ ~ssn[s].closed
  /\ ssn' = [ssn EXCEPT ![s] = ClosedState(ssn[s])]
  /\ Release(s)
  /\ UNCHANGED <<nextId, call, consent, errors>>

Next ==
  \E s \in Session :
    \/ Start(s)
    \/ VerifyMatch(s)
    \/ VerifyMismatch(s)
    \/ Challenge(s)
    \/ VerdictYes(s)
    \/ VerdictNo(s)
    \/ ChallengeTimeout(s)
    \/ ConnectOk(s)
    \/ ConnectFail(s)
    \/ LinkDown(s)
    \/ ShellClose(s)
    \/ EndSession(s)
    \/ \E q \in Req :
         \/ RequestPlain(s, q)
         \/ RequestShell(s, q)
         \/ RequestOpenFile(s, q)
         \/ CompleteShell(s, q)
         \/ CompleteOpenFile(s, q)
         \/ CompleteOther(s, q)
         \/ CompleteTooLarge(s, q)
         \/ \E h \in 1..MaxId :
              \/ RequestChunk(s, q, h)
              \/ RequestCloseFile(s, q, h)

\* start() runs in the event that creates the session, the challenge has a
\* timer, and a refused handshake fails by itself.
Fairness ==
  \A s \in Session :
    WF_vars(Start(s)) /\ WF_vars(ChallengeTimeout(s)) /\ WF_vars(ConnectFail(s))

Safety == Init /\ [][Next]_vars

Spec == Safety /\ Fairness

-----------------------------------------------------------------------------
Owned(table, s) == {e \in table : e.owner = s}

\* A closed session owns nothing in the engine: whatever was in flight when
\* it closed, no connection and no SFTP handle of it is left in the tables
\* the other sessions of the isolate share; nor a shell, when the browser
\* opens its shells one after the other.
ReleasedWhenClosed ==
  \A s \in Session : ssn[s].closed =>
    /\ Owned(conns, s) = {} /\ Owned(files, s) = {}
    /\ SerialShell => Owned(shells, s) = {}

\* As the documents put it, closing a session takes back its shells, however
\* the browser opened them.
ShellsReleased ==
  \A s \in Session : ssn[s].closed => Owned(shells, s) = {}

\* The sets of handles a session accepts from its browser are exactly what
\* the engine holds for its connection: no handle is accepted that the engine
\* has dropped, and none stays open that the browser can no longer close.
TablesAgree ==
  \A s \in Session :
    /\ {c.id : c \in Owned(conns, s)} = {ssn[s].connId} \ {0}
    /\ {f.id : f \in Owned(files, s)} = ssn[s].handles
    /\ \A f \in Owned(files, s) : f.conn = ssn[s].connId
    /\ SerialShell =>
         {h.id : h \in Owned(shells, s)} = {ssn[s].shell} \ {0}

\* A session is connected only to a host whose key matched the stored one or
\* was accepted by the user: not after a refusal, a timeout of the challenge
\* or a close with the challenge pending, and never on a mismatch.
TrustBeforeReady ==
  \A s \in Session : ssn[s].connId # 0 =>
    ssn[s].pin = "match" \/ (ssn[s].pin = "none" /\ s \in consent)

\* No session loses an entry of the engine's tables to another one: what
\* leaves them leaves in an event of the session that owns it, and that
\* session's object knows.
Isolation ==
  [][ /\ \A c \in conns \ conns' : ssn'[c.owner] # ssn[c.owner]
      /\ \A h \in shells \ shells' : ssn'[h.owner] # ssn[h.owner]
      /\ \A f \in files \ files' : ssn'[f.owner] # ssn[f.owner] ]_vars

\* When connecting fails while the browser still listens, it is told once,
\* by the mismatch or by the failure, never by both.
FailureReportedOnce ==
  [][ \A s \in Session :
        ssn[s].stage # "failed" /\ ssn'[s].stage = "failed" /\ ~ssn[s].closed
          => errors'[s] = 1 ]_vars

\* A challenge never blocks a key exchange for good, neither the handshake nor
\* a later one of a session that is ready: the engine gets its verdict whatever
\* the browser does.
ChallengeResolved ==
  \A s \in Session : ssn[s].challenge ~> ~ssn[s].challenge
=============================================================================
