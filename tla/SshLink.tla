------------------------------ MODULE SshLink ------------------------------
(***************************************************************************)
(* One SSH link, from the socket to the engine: WorkerTcpTransport or      *)
(* AccessWebSocketTransport, the WsConn of the Go engine above it, the     *)
(* reader of golang.org/x/crypto/ssh (external) and the keepalive of       *)
(* go-ssh/client.go.  The transport is created before the engine is        *)
(* loaded, so its events may come before anybody listens.                  *)
(*                                                                         *)
(* A step is one JavaScript event.  Go runs inside it until every          *)
(* goroutine waits, so the reader takes what is there in the same step.    *)
(* A chunk and a write have size 1; limits count chunks.  A link has fewer *)
(* chunks before its registration than the inbox of WsConn has room for.   *)
(* The link has keepalive switched on (ServerAliveInterval > 0).           *)
(***************************************************************************)
EXTENDS Integers, Sequences, FiniteSetsExt

CONSTANTS
  MaxChunks,    \* bound: chunks the server sends
  MaxWrites,    \* bound: writes of the engine
  KeyChunks,    \* chunks after which the reader waits for a host-key verdict
  LastShake,    \* the chunk that completes the handshake
  ReadMax,      \* maxBufferedReadBytes
  QueueMax,     \* maxQueuedBytes
  CountMax      \* ServerAliveCountMax

ASSUME LinkAssumption ==
  /\ MaxChunks \in Nat /\ MaxWrites \in Nat
  /\ KeyChunks \subseteq 1..MaxChunks /\ LastShake \in (1..MaxChunks) \ KeyChunks
  /\ ReadMax \in Nat /\ QueueMax \in Nat /\ CountMax \in Nat \ {0}

VARIABLES
  server,   \* sent: chunks so far; end: how it closed; silent: it stopped answering
  link,     \* transport and WsConn, see LinkTypeOK
  alive,    \* keepalive: state, failures in a row
  left,     \* the session has closed (or was never started)
  writes

linkVars == <<server, link, alive, left, writes>>

LinkTypeOK ==
  /\ server \in [sent : 0..MaxChunks, end : {"open", "clean", "broken"}, silent : BOOLEAN]
  /\ link \in
       [kind : {"tcp", "access"},
        opened : BOOLEAN, why : {"", "clean", "broken", "own"},   \* openedFlag, closedFlag
        disposed : BOOLEAN, loop : BOOLEAN,       \* disposeCallbacks; readAll runs
        taken : 0..MaxChunks, buffer : Seq(1..MaxChunks),         \* bufferedReads
        queue : Nat, flying : 0..1, bytes : Int,  \* writeQueue, writing, queuedBytes
        made : BOOLEAN, inbox : Seq(1..MaxChunks),                \* NewWsConn
        failed : BOOLEAN, released : BOOLEAN,     \* readErr and done; callbacks released
        reader : {"none", "opening", "reading", "paused", "over"},
        up : BOOLEAN, got : Seq(1..MaxChunks),    \* handshake done, chunks read
        late : BOOLEAN]                           \* history: a released callback was called
  /\ alive \in [state : {"off", "waiting", "pending"}, failures : 0..CountMax]
  /\ left \in BOOLEAN /\ writes \in 0..MaxWrites

LinkInit ==
  /\ server = [sent |-> 0, end |-> "open", silent |-> FALSE]
  /\ link \in {[kind |-> k, opened |-> FALSE, why |-> "", disposed |-> FALSE,
                loop |-> k = "tcp", taken |-> 0, buffer |-> <<>>, queue |-> 0,
                flying |-> 0, bytes |-> 0, made |-> FALSE, inbox |-> <<>>,
                failed |-> FALSE, released |-> FALSE, reader |-> "none", up |-> FALSE,
                got |-> <<>>, late |-> FALSE] : k \in {"tcp", "access"}}
  /\ alive = [state |-> "off", failures |-> 0]
  /\ left = FALSE /\ writes = 0

-----------------------------------------------------------------------------
(* The transport and WsConn: functions of the link.                        *)

\* Operators with a Mut_ prefix are faulty variants of the definition that
\* follows them; they serve to check that the properties notice the fault.

Closed(l) == l.why # ""
Listening(l) == l.made /\ ~l.disposed
Called(l) == [l EXCEPT !.late = @ \/ l.released]

\* The flags and queues of close() and fail(); the caller of a close that
\* the peer made keeps them as they are.
Emptied(l, why) ==
  IF Closed(l) THEN l ELSE [l EXCEPT !.why = why, !.queue = 0, !.bytes = 0, !.buffer = <<>>]

Mut_WsClosed(l) ==
  [Emptied(l, "own") EXCEPT !.failed = TRUE, !.released = TRUE, !.reader = "over"]

(* WsConn.Close, called by the SSH library when its reader ends: the        *)
(* callbacks are taken from the transport before they are released.         *)
WsClosed(l) ==
  [Emptied([l EXCEPT !.disposed = TRUE, !.buffer = <<>>], "own")
     EXCEPT !.failed = TRUE, !.released = TRUE, !.reader = "over"]

(* WsConn.Read until the inbox is empty or a host key waits for its         *)
(* verdict.  An end that is already known wins over the inbox.              *)
Reads(l) ==
  IF l.failed THEN WsClosed(l)
  ELSE LET keys == {i \in DOMAIN l.inbox : l.inbox[i] \in KeyChunks}
           n == IF keys = {} THEN Len(l.inbox) ELSE Min(keys)
           got == l.got \o SubSeq(l.inbox, 1, n)
       IN [l EXCEPT !.got = got, !.inbox = SubSeq(@, n + 1, Len(@)),
                    !.reader = IF keys = {} THEN "reading" ELSE "paused",
                    !.up = @ \/ Len(got) >= LastShake]

\* The goroutines run until they wait.  The first write of the handshake
\* waits for the transport to open or to end.
Run(l) ==
  IF l.reader = "reading" \/ (l.reader = "opening" /\ (l.opened \/ l.failed))
  THEN Reads(l) ELSE l

\* onData of WsConn; after the end the chunk is lost.
Data(l, c) ==
  Run(IF l.failed THEN Called(l) ELSE [Called(l) EXCEPT !.inbox = Append(@, c)])

\* notifyClosed and onClosed of WsConn, for a link that was open before.
Told(l) == IF Listening(l) THEN Run([Called(l) EXCEPT !.failed = TRUE]) ELSE l

\* close() and fail(): the queues go, the listener hears of it once.
Fail(l, why) == IF Closed(l) THEN l ELSE Told(Emptied(l, why))

(* A chunk reaches the transport: it goes to the callback, is dropped after *)
(* disposeCallbacks, or waits in the buffer, up to its limit.               *)
Received(l, c) ==
  CASE l.disposed -> l
    [] Listening(l) -> Data(l, c)
    [] OTHER -> IF Len(l.buffer) + 1 > ReadMax THEN Fail(l, "own")
                ELSE [l EXCEPT !.buffer = Append(@, c)]

Mut_Registered(l) ==
  Run([l EXCEPT !.made = TRUE, !.reader = "opening", !.inbox = l.buffer, !.buffer = <<>>])

Mut_Unflushed(l) ==
  Run([l EXCEPT !.made = TRUE, !.reader = "opening", !.failed = Closed(l)])

(* NewWsConn: onData flushes the buffer into the inbox, onOpen and onClosed *)
(* call back at once what has already happened; then the dial begins.       *)
Registered(l) ==
  Run([l EXCEPT !.made = TRUE, !.reader = "opening", !.inbox = l.buffer, !.buffer = <<>>,
                !.failed = Closed(l)])

\* scheduleWrites and the loop of flushWrites, up to its next await.
Flushed(l) ==
  IF l.flying = 0 /\ l.opened /\ ~Closed(l) /\ l.queue > 0
  THEN [l EXCEPT !.flying = 1, !.queue = @ - 1] ELSE l

-----------------------------------------------------------------------------
(* The server and the network.                                             *)

ServerSends ==
  /\ server.end = "open" /\ ~server.silent /\ server.sent < MaxChunks
  /\ server' = [server EXCEPT !.sent = @ + 1]
  /\ UNCHANGED <<link, alive, left, writes>>

ServerEnds ==
  /\ server.end = "open" /\ ~server.silent
  /\ \E e \in {"clean", "broken"} : server' = [server EXCEPT !.end = e]
  /\ UNCHANGED <<link, alive, left, writes>>

ServerSilent ==
  /\ server.end = "open" /\ ~server.silent
  /\ server' = [server EXCEPT !.silent = TRUE]
  /\ UNCHANGED <<link, alive, left, writes>>

-----------------------------------------------------------------------------
(* Events of the transport.  The keepalive begins in the step that         *)
(* completes the handshake.                                                *)

Becomes(l) ==
  /\ link' = l
  /\ alive' = IF l.up /\ ~link.up THEN [alive EXCEPT !.state = "waiting"] ELSE alive

Opens ==
  /\ ~link.opened /\ ~server.silent /\ (server.end = "broken" => server.sent > 0)
  /\ ~Closed(link)
  /\ Becomes(LET l == [link EXCEPT !.opened = TRUE] IN IF Listening(l) THEN Run(l) ELSE l)
  /\ UNCHANGED <<server, left, writes>>

\* The dial, or the upgrade of the WebSocket, is refused.
OpenFails ==
  /\ ~link.opened /\ ~Closed(link) /\ server.sent = 0 /\ ~server.silent
  /\ server.end # "clean"
  /\ server' = [server EXCEPT !.end = "broken"]
  /\ Becomes([Fail(link, "broken") EXCEPT !.loop = FALSE])
  /\ UNCHANGED <<left, writes>>

(* One turn of readAll.  A read that waits when the transport is closed     *)
(* still gives its chunk; the loop ends after it.                           *)
TcpRead ==
  /\ link.loop /\ link.taken < server.sent
  /\ LET c == link.taken + 1
         l == Received([link EXCEPT !.taken = c], c)
     IN Becomes([l EXCEPT !.loop = ~Closed(l)])
  /\ UNCHANGED <<server, left, writes>>

\* The end of the stream, or an error of the read; after a close of our own the
\* read ends too.  A clean end keeps the buffer.
TcpReadEnds ==
  /\ link.loop
  /\ \/ /\ server.end = "clean" /\ link.taken = server.sent /\ ~Closed(link)
        /\ Becomes(Told([link EXCEPT !.loop = FALSE, !.why = "clean"]))
     \/ /\ server.end = "broken" \/ Closed(link)
        /\ Becomes([Fail(link, "broken") EXCEPT !.loop = FALSE])
  /\ UNCHANGED <<server, left, writes>>

AccessMessage ==
  /\ link.kind = "access" /\ link.opened /\ ~Closed(link)
  /\ link.taken < server.sent
  /\ LET c == link.taken + 1 IN Becomes(Received([link EXCEPT !.taken = c], c))
  /\ UNCHANGED <<server, left, writes>>

\* The close event keeps the buffer, the error event empties it.
AccessCloses ==
  /\ link.kind = "access" /\ link.opened /\ ~Closed(link)
  /\ \/ server.end = "clean" /\ link.taken = server.sent
     \/ server.end = "broken"
  /\ \/ Becomes(Told([link EXCEPT !.why = server.end]))
     \/ server.end = "broken" /\ Becomes(Fail(link, "broken"))
  /\ UNCHANGED <<server, left, writes>>

(* WsConn.Write and send(): beyond the limit of the queue the TCP transport *)
(* fails; the WebSocket has no queue of its own, but its send may throw.    *)
Sends ==
  /\ writes < MaxWrites /\ writes' = writes + 1
  /\ link.made /\ link.opened /\ link.reader # "over"
  /\ \/ link.kind = "access" /\ (Becomes(link) \/ Becomes(Fail(link, "broken")))
     \/ /\ link.kind = "tcp"
        /\ Becomes(IF Closed(link) THEN link
                   ELSE IF link.bytes + 1 > QueueMax THEN Fail(link, "own")
                   ELSE Flushed([link EXCEPT !.queue = @ + 1, !.bytes = @ + 1]))
  /\ UNCHANGED <<server, left>>

Mut_Written ==
  /\ link.flying = 1
  /\ Becomes([link EXCEPT !.flying = 0, !.bytes = @ - 1])
  /\ UNCHANGED <<server, left, writes>>

\* queuedBytes is reduced after the await, whatever happened meanwhile.
Written ==
  /\ link.flying = 1
  /\ Becomes(Flushed([link EXCEPT !.flying = 0, !.bytes = @ - 1]))
  /\ UNCHANGED <<server, left, writes>>

WriteFails ==
  /\ link.flying = 1 /\ (server.end # "open" \/ Closed(link))
  /\ Becomes([Fail(link, "broken") EXCEPT !.flying = 0])
  /\ UNCHANGED <<server, left, writes>>

-----------------------------------------------------------------------------
(* The engine and the session.                                             *)

\* runtime.load() has answered: the session starts and the engine dials.
Loads ==
  /\ ~link.made /\ ~left
  /\ Becomes(Registered(link))
  /\ UNCHANGED <<server, left, writes>>

LoadFails ==
  /\ ~link.made /\ ~left /\ left' = TRUE
  /\ Becomes(Fail(link, "own"))
  /\ UNCHANGED <<server, writes>>

\* A verdict on the host key: a refusal fails the handshake, which closes the
\* connection.
Verdict ==
  /\ link.reader = "paused"
  /\ Becomes(WsClosed(link)) \/ (~left /\ Becomes(Reads(link)))
  /\ UNCHANGED <<server, left, writes>>

\* BackendSshSession.close: jsDisconnect when there is a connection (keepalive,
\* then client.Close), transport.close() in any case.
Leave ==
  /\ link.made /\ ~left /\ left' = TRUE
  /\ link' = IF link.up THEN WsClosed(link) ELSE Fail(link, "own")
  /\ alive' = [alive EXCEPT !.state = "off"]
  /\ UNCHANGED <<server, writes>>

\* goKeepalive: one request at a time, with no time limit for its reply; it
\* fails when the connection has ended.
Ask ==
  /\ alive.state = "waiting" /\ link.reader # "over"
  /\ alive' = [alive EXCEPT !.state = "pending"]
  /\ UNCHANGED <<server, link, left, writes>>

Answered ==
  /\ alive.state = "pending" /\ link.reader = "reading"
  /\ server.end = "open" /\ ~server.silent
  /\ alive' = [state |-> "waiting", failures |-> 0]
  /\ UNCHANGED <<server, link, left, writes>>

Unanswered ==
  /\ alive.state \in {"waiting", "pending"} /\ link.reader = "over"
  /\ alive' = [state |-> IF alive.failures + 1 >= CountMax THEN "off" ELSE "waiting",
               failures |-> alive.failures + 1]
  /\ link' = IF alive'.state = "off" THEN WsClosed(link) ELSE link
  /\ UNCHANGED <<server, left, writes>>

Network == ServerSends \/ ServerEnds \/ ServerSilent
Transport ==
  Opens \/ OpenFails \/ TcpRead \/ TcpReadEnds \/ AccessMessage \/ AccessCloses
  \/ Written \/ WriteFails
Engine == Loads \/ LoadFails \/ Verdict \/ Ask \/ Answered \/ Unanswered

LinkNext == Network \/ Transport \/ Engine \/ Sends \/ Leave

(* The runtime delivers the events it has, the engine loads or fails (its   *)
(* wait is limited), a host key gets its verdict (the challenge has a       *)
(* timeout) and the ticker of the keepalive fires.  Nothing makes the       *)
(* server send, answer or end.                                              *)
LinkFairness ==
  /\ WF_linkVars(Opens \/ OpenFails)
  /\ WF_linkVars(TcpRead) /\ WF_linkVars(TcpReadEnds)
  /\ WF_linkVars(AccessMessage) /\ WF_linkVars(AccessCloses)
  /\ WF_linkVars(Written \/ WriteFails)
  /\ WF_linkVars(Loads \/ LoadFails) /\ WF_linkVars(Verdict)
  /\ WF_linkVars(Ask) /\ WF_linkVars(Answered) /\ WF_linkVars(Unanswered)

LinkSpec == LinkInit /\ [][LinkNext]_linkVars /\ LinkFairness

-----------------------------------------------------------------------------
(* Properties.                                                             *)

(* While the link is open, queuedBytes counts exactly the writes that wait  *)
(* and the one under way, within the limit, and a queue that has something  *)
(* always has a write under way: no wake-up is lost between flushWrites and *)
(* send.  The early reads stay within their limit.                          *)
WritesFlow ==
  ~Closed(link) =>
    /\ link.bytes = link.queue + link.flying /\ link.bytes <= QueueMax
    /\ link.queue > 0 => link.flying = 1
    /\ Len(link.buffer) <= ReadMax

(* The transport never calls a Go callback after WsConn.Close released it,  *)
(* whatever events are still on their way.                                  *)
NoLateCall == ~link.late

(* The link implements ByteStream: what the reader takes is what the server *)
(* sent, in order, across the buffer of the transport, the registration and *)
(* the inbox, and a clean end comes after all of it for a reader that       *)
(* waits.                                                                   *)
Stream ==
  INSTANCE ByteStream WITH
    sent <- server.sent, why <- link.why, waiting <- link.reader = "reading",
    got <- link.got, over <- link.reader = "over"
StreamSpec == Stream!StreamSpec

(* Once the server has ended, everything on our side ends: the reader, the  *)
(* keepalive and the write under way, whenever the engine was loaded and    *)
(* whoever else closed.                                                     *)
Ended ==
  /\ Closed(link) /\ link.flying = 0
  /\ link.reader = "over" \/ ~link.made
  /\ alive.state = "off"
EverythingEnds == server.end # "open" ~> Ended

(* "ServerAliveCountMax requests in a row without an answer count as a lost *)
(* connection": a server that stops answering is noticed.                   *)
SilenceNoticed == link.up /\ server.silent ~> link.reader = "over"
=============================================================================
