# worker-ssh: a TLA+ verification project

worker-ssh is a web SSH panel that runs on Cloudflare Workers. A browser lists
stored connections, opens one over a WebSocket, and a Durable Object runs the
SSH session in a Go engine compiled to WebAssembly. This directory holds TLA+
models of the parts of it where order, concurrency and failure matter, the TLC
runs that check them on small instances, and TLAPS proofs that hold for every
value of the constants.

    cd tla
    tlc -workers 2 -config MCQuota.cfg MCQuota      # any run of the table below
    tlapm QuotaProofs.tla                           # any of the *Proofs modules

Paths of source files are written without the leading `src/` of the worker and
frontend sources: `worker/x.ts` is `src/worker/x.ts` of the repository.

## 1. Inventory

How the parts fit together:

    browser: main.ts -> BackendSshClient --WebSocket--> Worker: handleSsh (index.ts)
             SftpPanel, editor, settings                  |  acquire / release
                                                          +------------> SshQuotaObject
                                                          |  init + connect      ^
                                                          v                      | heartbeat
                                                        SshSessionObject --------+ release
                                                          |  background task
                                                          v
                     BackendSshSession --calls--> Go engine --WsConn--> TCP / Access transport
    browser: api.ts --HTTP--> Worker: routes -> D1Store, DatabaseBootstrap, KV store, auth

| Component | State | Operations | What is hard | What makes it correct |
|---|---|---|---|---|
| **SSH quota object** (`worker/ssh-session-quota.ts`, `ssh-quota-do.ts`) | one stored array of leases | acquire, heartbeat, release, count | read, await, write of the whole array; the clock moves in between; eviction; expiry at the boundary | limits per login session and overall; no lost or duplicated lease; justified refusals |
| **Connection lifecycle** (`handleSsh`, `worker/backend-ssh-do.ts`, `ssh-session-init.ts`) | lease, background task, heartbeat timer | acquire, init, connect, load, start, beat, release | lost calls, evicted objects, a slow start, heartbeats racing with releases, sockets closed before anyone listens | a session has a lease, an ended session has none |
| **Backend SSH session** (`worker/backend-ssh-session.ts`) and **Go engine** (`go-ssh/main.go`, `session.go`, `sftpfs.go`) | connection id, shell, SFTP handle sets, pending challenge, flags; tables of connections, shells, readers, writers, one id counter | requests of the browser, host-key verdicts, close; connect, shell and SFTP calls | requests in flight at close, challenge timeouts, several sessions on one engine | nothing leaks, nothing is shared by accident, no connection without trust |
| **SSH dial and keepalive** (`go-ssh/client.go`) | link, missed answers | dial, handshake, keepalive | servers that stay silent | every dead link comes to an end |
| **Transports** (`worker-tcp-transport.ts`, `access-ws-transport.ts`, `go-ssh/wsconn.go`) | write queue, early reads, flags; inbox in Go | send, data, open, close, dispose | callbacks registered late and released early, close against queued data, limits | bytes in order, none lost, bounded memory, one close |
| **Runtime loader** (`backend-ssh-runtime.ts`) | a load promise | load | concurrent loads, failed loads | one engine per isolate, a failure can be retried |
| **Browser client** (`frontend/backend-ssh-client.ts`, `session-reconnect.ts`, `session-lifecycle.ts`) | socket, pending requests, loop of reconnection, flags | connect, request, disconnect, reconnect | sockets that are replaced, outages during a recovery | no reopening after the end, no lost request, no silent death |
| **Session screen** (`frontend/main.ts`, `monitor.ts`, `os-cache.ts`) | `active`, resources, poller, terminal | connectTo, teardown | the session ends while connectTo awaits something | everything attached is released |
| **Settings** (`settings-controller.ts`, `settings-runtime.ts`, `worker/settings-store.ts`) | saved settings, draft | open, preview, cancel, save | a preview acts on the running session; a save ends after its dialog | the session follows the settings that are kept |
| **File panel and editor** (`frontend/sftp-panel.ts`, `edit-modal.ts`, `backend-ssh-client.ts`) | current path, rows, editor text, engine handles | list, open, save, save as, download, upload, rename, remove | overlapping listings, paths read at the time of the save, transfers in chunks that fail half way, closes that are refused, bytes that are no text | rows are those of the current path, a text shown as saved is what the stored file decodes to, handles are closed |
| **D1 store** (`worker/d1-store.ts`) | connections and a tree of folders with recursive counters | create, move, delete, promote, update | two requests that read before they write | no cycle, limited depth, counters equal the tree, patches merge |
| **Connection and folder screen** (`frontend/main.ts`, `folder-browser-state.ts`) | scope, selection, move dialog | navigate, select, move, delete, drag | replies in any order, another tab | what is selected is shown, what is shown is current |
| **D1 bootstrap** (`worker/d1-bootstrap.ts`, `db-ready-cache.ts`, `frontend/bootstrap-runner.ts`) | one row: phase, cursor, counters, lease | status, create, step, retry | several tabs, dead and overtaken steps, batches half done | KV is deleted only after D1 is complete; it completes |
| **KV store** (`worker/store.ts`) | records in KV, cached OS info | CRUD, legacy migration | eventual consistency | migration keeps every record |
| **Login and rate limit** (`worker/auth.ts`, `login-rate-limit.ts`) | signed cookies, failure counter in KV | login, check, record, reset | unguarded read-modify-write | the limit holds as far as KV allows |
| **Encryption** (`worker/crypto.ts`) | cache of derived keys | encrypt, decrypt | - | round trip |
| **HTTP routes** (`worker/index.ts`, ...) | none of their own | validation, formatting | - | - |
| **Option parsing, forms, dialogs, scripts** | none, or of the page | parsing, drawing, deployment | - | - |

`PROJECT.json` lists the same components with their sources and what is left
out of each. Its "hazards" are the places in the code that a test would hardly
reach, each with the properties that watch it or the reason why none does.

## 2. The modules

Definitions keep the source's names. In every module, operators whose name
begins with `Mut_` are faulty variants of the definition that follows them;
they stand for plausible bugs and show that each property can fail.

| Module | Models | Kind |
|---|---|---|
| `QuotaLeases` | what acquire, heartbeat and release compute from the stored array | operators |
| `SshSessionQuota` | the quota object with overlapping requests, clock and eviction | state machine |
| `QuotaPool` | a pool of slots with two limits | abstract specification |
| `SshLifecycle` | handleSsh, the session object's task and its heartbeats, over `QuotaLeases` | state machine, composition |
| `BackendSshSession` | the sessions of one isolate over the tables of one Go engine | state machine, composition |
| `SshLink` | transport, WsConn, reader and keepalive of one SSH link | state machine, composition |
| `ByteStream` | a prefix of what was sent, then the end | abstract specification |
| `BrowserSession` | BackendSshClient with connectTo, teardown, recovery and poller | state machine, composition |
| `SettingsDialog` | `BrowserSession` next to the settings dialog | state machine, composition |
| `FilePanel` | the file panel, the editor and the transfers in chunks | state machine |
| `FolderTree` | the recursive queries over the table of folders | operators |
| `FolderStore` | one tree of folders, operations that take effect at once | abstract specification |
| `D1Store` | the requests of the API as reads and batches on the tables | state machine |
| `ConnectionScreen` | the folder screen of one tab over `FolderStore`, next to another tab | state machine, composition |
| `D1Bootstrap` | the phases, the lease and the batches of the migration | state machine |
| `KvMigration` | copy first, then drop | abstract specification |
| `PanelStartup` | the start of the panel in several tabs over `D1Bootstrap` | state machine, composition |
| `QuotaProofs` | theorems about `QuotaLeases`, `SshSessionQuota` and `SshLifecycle` | proofs |
| `SshEngineProofs` | theorems about `BackendSshSession` and `SshLink` | proofs |
| `FolderTreeProofs` | what the recursive queries return, and how it changes with the table | proofs |
| `D1StoreProofs`, `ConnectionScreenProofs`, `FilePanelProofs`, `SettingsDialogProofs`, `PanelStartupProofs` | theorems about the module in their name | proofs |
| `MCQuota`, `MCLifecycle`, `MCSession`, `MCLink`, `MCBrowser`, `MCFiles`, `MCStore`, `MCScreen`, `MCBootstrap` | instances for TLC | |

### SshSessionQuota and QuotaLeases

Every operation of `SshSessionQuota` reads the clock, awaits `storage.get`,
decides, and awaits `storage.put` of the whole array. `Begin` is the first
half, `FinishAcquire`, `FinishHeartbeat` and `FinishRelease` the second; the
clock (`Tick`) and an eviction (`Evict`) may come between. The code has no lock.
What makes it safe is a guarantee of the platform, the *input gate*: no other
request is delivered to a Durable Object that awaits its storage. `InputGate`
states that assumption; nothing else is assumed. The order of the array does
not matter to the code, so it is a set of records.

### SshLifecycle

One action per step of `handleSsh` (`Acquire`, `Connect`, `WorkerRelease`, and
their failures), of the background task of `connectSession` (`Loaded`,
`Started`, `TaskRelease`, ...) and of the heartbeat (`Beat`, `BeatServed`,
`BeatAnswered`). A remote call has three fates: answered, lost on the way there,
lost on the way back (`delivered`). A call to the quota object is one step,
which `SshSessionQuota` and its refinement of `QuotaPool` justify.

Time counts down. A tick stands for 5 s: `LeaseMs` 6 (30 s), `HeartbeatMs` 2
(10 s). Two bounds are assumptions about the environment and are constants:
`RpcMax`, how long a heartbeat may take, and `StartMax`, how long a session may
take from its lease to being ready. `LeaseCoversSession` needs
`LeaseMs > StartMax + HeartbeatMs + RpcMax`: the run `lifecycle` has values that
satisfy it, the run `slow_start` has the 65 s that the 60 s timer of the
host-key challenge allows, and section 5 proves that the condition is enough.

### BackendSshSession

One action per event of the JavaScript event loop. A call into the engine runs
Go up to its first wait within that event, so looking up a connection or handle
belongs to the calling event; registering a new handle and continuing the
request belong to the event that completes it (`CompleteShell`,
`CompleteOpenFile`, ...). Every session has its own user, pin and requests;
`nextId`, `conns`, `shells` and `files` belong to all of them, as `engineState`
does. Every entry carries a ghost field `owner`, the session it was made for.
Read and write handles are one kind; commands and directory operations are the
method `plain`, chunks and closes of a handle are `handle`. A session verifies a
host key in its handshake and again in every later key exchange, with a challenge
of its own. A close clears the session's tables before the engine closes its
files, which takes round trips on the link; the model has both in one step, which
no table can tell. `LinkDown` is a link that dies without the session noticing.

### SshLink and ByteStream

The transport (TCP or Access WebSocket) is created and read before the engine is
loaded, so its events may come before, during and after the registration of the
callbacks of `WsConn`, and after their release. Transport and `WsConn` are
functions of one record `link` (`Received`, `Told`, `Fail`, `Registered`,
`Flushed`, `WsClosed`, `Reads`); an action is one event, and Go runs inside it
until every goroutine waits (`Run`), so a callback that closes the link within
another callback is one step here as it is there. The host-key pause of the
handshake (`KeyChunks`) is where the reader is *not* waiting; the keepalive
starts in the event that completes the handshake. A chunk and a write have size
1. `ByteStream` says what a reader may rely on: chunks in order, each once, and a
clean end only after all of them *for a reader that waits*; the code gives no
more, as section 3 explains. The keepalive is modelled switched on; by default
the code leaves it off.

### BrowserSession and SettingsDialog

A browser runs one event and then every continuation it has made ready. A
*flow* is an asynchronous function under way (`connectTo`, the reconnection
loop, the recovery of `handleSessionReconnect`, a tick of the poller), standing
at an `await`; its outcome is set by an event and consumed by a continuation.
Events wait until no flow is ready to go on, which is how tasks and microtasks
are ordered. Synchronous calls between the objects (`notifyClosed` ->
`cleanupSessionResources` -> `disconnect`) are operators on their states within
one action. Continuations that become ready in the same event are taken in any
order, which allows a few orders more than a browser does. `connectTo` looks for
the operating system in the cache first and asks the session when it is not
there, a second `await` (`MainCached`, `MainDetected`). A host key is refused
either while somebody waits for the session, or in a session that is ready; only
the first ends it (section 3).

`SettingsDialog` EXTENDS it with the settings: `openSettings`, a preview, which
reaches the running client at once, cancel, save, and a save that ends after its
dialog was cancelled and opened again. Of the settings the model keeps the one
the session depends on, `autoReconnectEnabled`.

### FilePanel

Operations under way occupy slots; a request is answered, or fails, at any
moment, and the link may be lost and recovered once. A listing, a transfer in
two chunks and its engine handle, the questions the panel asks, the editor with
its text and what it takes for the original, and the files of the server as
inodes with two chunks, so that a text half written, a hole and an overwritten
file are told apart.

Bytes need not be text: `Raw` chunks stand for bytes that are not the encoding of
what they decode to, because the decoder replaces what it cannot read and drops
a byte order mark (`Decoded`), or for too many of these, for which the editor
does not open (`Refusable`). An upload picks a file, which may be raw, and joins
its path after the picker; so do rename and remove after their dialogs. The
editor loads its modules before it covers the panel, and the panel can be clicked
meanwhile. A session refuses a request when `MaxInFlight` are in flight, of which
`Outside` come from elsewhere in the browser: a refused request fails like any
other, but a refused *close* leaves its handle to the end of the session
(`CloseRefused`, `left`, `crowded`).

Limits: one editor, no mkdir and stat, the editor's line ends (a file opened with
CRLF is stored with LF once it is saved), and a request that is unanswered when
the link goes counts as not done.

### FolderTree, FolderStore, D1Store, ConnectionScreen

`D1Store` has one request as up to three steps: the rows it names (`Begin`), the
recursive queries (`Measure`) and the batch (`Commit`); between two steps any
other request may commit. A batch is atomic and its statements run in order
under the constraints of the schema. Counters are the *stored* counters, changed
by the deltas the code computes from what it read. A payload is its
authentication type, whether the secret of that type is stored, and whether a
host key is pinned. `FolderTree` holds the recursive queries; `FolderStore` is
the abstract store without counters, whose operations take effect at once.
`lost` marks that two requests interfered in the ways the code allows, after
which the abstract store promises nothing: `StoreSpec` says how far it keeps its
promises, `TreeSound` and `CountersExact` what holds of the tables until the
pairs in `Races` overlap, and `UndisturbedCommits` that a batch nothing overtook,
other than a promotion, breaks no foreign key. `Races.tree` has moves overtaken by
moves and creations, and creations and promotions overtaken by moves; the latter
exceed the depth limit, and a promotion overtaken by two moves closes a cycle.

`ConnectionScreen` is one tab over `FolderStore`: navigation, selection, the
move dialog, drag, deletion, new connection and folder, each as click, service
and reply; replies come in any order and another tab changes the store. The
history variables `crossed` and `stale` say when two requests of a kind were
under way at once and when another tab interfered, which the code does not
handle and the properties leave out. Another tab's edits of a payload are
left out: the list shows none of it. The kinds are requests that decide which
folder is shown (`screen`), that change how the folders lie (`tree`) and that
decide what the dialog shows. The second one matters for `ScreenAgrees`: with
three requests under way the open folder can be moved into a folder that is
being deleted, goes with it, and the page then asks for the list of a folder
that is gone. With the two kinds excused the property also held on 3 requests,
4 clicks and 2 names (13,349,615 distinct states, outside the runs). The
confirmation of a deletion is answered at the click: under an open dialog the
open folder changes only by the reply to a `screen` request, and with that
request under way the deletion counts as crossed.

### D1Bootstrap, KvMigration, PanelStartup

A step is split where its writes are: the claim of the lease, the reading of a
batch (`Read...`), the last renewal (`Renew`) and the write (`Write...`). The
row is guarded by `WHERE lease_owner = ?`; rows of `connections` and keys of KV
are not. `Crash` ends a step anywhere, `Overtaken` lets the lease of a living
step run out, `Delete` may do only part of its batch, and `ReadMigrate` may find
that a listed key reads as absent, as `worker/d1-bootstrap.ts:397` expects.
Renewals within a batch are one, since what a failed renewal leads to
(`LeaseLost`) is the same wherever it happens.

`PanelStartup` adds what starts the steps: in each tab the status, the creation
of the schema, the loop that posts steps, its error screen with the retry, and
the gate of the rest of the API with the isolate's memory that the database is
ready (`db-ready-cache.ts`). Requests are lost; a tab is not reloaded.

## 3. The runs

| Run | Instance | Distinct states | Shows |
|---|---|---|---|
| `quota` | 2 login sessions, 3 leases, 2 requests, limits 2 and 3, lease of 2 ticks, clock to 5 | 112,485 | both limits, one slot per connection, no lease lost to others, justified refusals, refinement of `QuotaPool` |
| `lifecycle` | 2 connections of a login session that may have 1 | 48,021 | a session without failures is covered by its lease; without lease it ends within one heartbeat and one round trip; no orphaned lease; every slot is freed |
| `slow_start` | the same with `StartMax` 13 | violation | more open sessions than the limit |
| `session` | 2 sessions on one engine, 2 requests each, 3 ids, a host key verified up to twice in one (its handshake and a later exchange) and once in the other | 476,869 | tables and sessions agree, closed sessions own nothing, isolation, no connection without trust, failures reported once, challenges end, in the handshake and later |
| `link` | 5 chunks, 5 writes, both transports, host-key pause at chunk 1 or 4, limits 3, 2 missed answers | 38,025 | the write queue flows, no released callback is called, refinement of `ByteStream`, everything ends |
| `silence` | the same | violation | the keepalive never notices a silent server |
| `bootstrap` | 2 tabs, 3 connections in batches of 2, 1 unreadable, 2 faults | 153,953 | refinement of `KvMigration`, the panel opens only after it, progress never goes back, completion, no tab hangs |
| `browser` | 1 session, 3 attempts per outage, any number of outages, settings changed at any time | 56,661 | no socket after the end, none after a refused key rejected `connectTo` or the loop, no lost request, the policy follows the settings, no silent death |
| `store` | 3 folders, 2 connections, 2 names, 2 authentication types, depth 2, 2 requests that overlap | 423,218 | until a pair of `Races` overlaps: a sound tree, exact counters, kept payloads, refinement of `FolderStore`; batches that nothing overtook break no foreign key |
| `screen` | 2 folders, 2 connections, 2 requests under way, 2 clicks after the start, 1 change by another tab | 1,193,692 | no ghost selection, the scope shown is the current one, the dialog moves what it names |
| `files` | 2 directories, 2 names, 2 operations at once, 2 requests in flight of which 1 is another's, 3 clicks, 4 versions, 3 inodes, 1 lost link | 2,630,901 | rows are those of the current path, no handle stays open unless its close was refused, a text shown as saved is what the stored file decodes to |
| `wrong_file` | the same with 4 clicks | violation | a save that goes to another directory |

**Why the bounds are enough.** In `quota` both limits can be reached, each
separately, a third lease wants a slot when the limit per session or the global
one is full, and the clock runs over two whole leases. In `lifecycle` the second
connection competes for the slot of the first, and nothing else is bounded but
the lost lease time. In `session` one session can hold a connection, a shell or
a file while the other one opens its own, and three ids are enough for the table
of one to outlive the close of the other. In `link` the limits of both queues
can be exceeded, the handshake takes chunks before and after the pause, and
there is stream left after it. In `bootstrap` three connections in batches of
two give a full and a partial page in every phase, and two faults let both tabs
be overtaken once. `browser` bounds nothing but the attempts. In `store` a third
folder is what a cycle through two moves and a promotion with a name taken
need; every pair of operations overlaps in every way, since two requests are
under way and the tables start in every shape that the constants allow. In
`screen` two replies overtake each other in front of every kind of click. In
`files` a transfer has two chunks, of which either may fail, two operations
overlap on two names that exist in two directories, and one of two is a request
too many for the session. In `session` each session has a challenge, and one of
them a second one after it was connected.

Bounds that the programs do not have: `MaxTime` (clock of the quota), `MaxId`
(ids of the engine), `Rekeys` (verifications of the host key in a session, the first
included), `MaxChunks` and
`MaxWrites` (length of a stream), `MaxFaults` (bootstrap), `MaxRequests`
(requests on the store in one behaviour), `MaxFlows`, `MaxClicks` and
`MaxForeign` (screen), `MaxOps`, `MaxClicks`, `MaxVersion`, `MaxInode`,
`MaxLosses` and `Outside` (file panel). The exploration is complete within these bounds; the
proofs of section 5 hold for all of them. `MaxDepth`, `ReadMax`, `QueueMax`,
`CountMax`, `Attempts`, `MaxInFlight` (4 in the code), the batch sizes and the limits of the quota are limits
of the code, taken smaller.

Symmetry is used in `quota`, `store` and `screen` on model values that no
property tells apart; runs with liveness properties have none. `CHECK_DEADLOCK
FALSE` stands where the system really stops or a bound of the model ends it: all
sessions closed or ids used up (`session`), the stream over (`link`), the
migration complete (`bootstrap`), the browser session over (`browser`), all
requests or clicks used up (`store`, `screen`, `files`).

### The violations

Each of these runs has one property, taken from a sentence of the repository,
and a counterexample that the code follows step by step.

* **`slow_start` / `ActiveWithinLimit`** (`worker/backend-ssh-do.ts:292`). The
  heartbeat timer is made when `start()` is over. `start()` waits up to 60 s for
  the user's answer to the host-key challenge, the lease lasts 30 s. The slot
  is given to another connection, and both sessions are open until the first
  heartbeat of the late one ends it. `agent/question.md:628` asks for at most 3
  active sessions per login session and 10 overall.
* **`silence` / `SilenceNoticed`** (`go-ssh/client.go:148`). `goKeepalive` waits
  for the reply of every request without a timeout. A server that keeps its
  socket open and stops answering never produces the failure that the counter
  counts. `agent/question.md:805` promises that `ServerAliveCountMax` requests
  without an answer count as a lost connection.
* **`wrong_file` / `SaveReachesItsFile`** (`frontend/sftp-panel.ts:302`). The
  editor's save joins the name to `this.currentPath` at the time of the save. A
  folder clicked while the file is being read moves `currentPath` before the
  editor appears; the text is then written to a file of that name in the other
  directory. The comment at line 267 says that onSave overwrites the original.

Further configurations, outside the runs above, give a counterexample each. They
belong to the same modules:

| Configuration | Property | What happens |
|---|---|---|
| `MCMissedClose` (`MCLifecycle`) | `CloseFreesSlot` | the socket is accepted, then the engine is loaded, then `BackendSshSession` registers its close listener; a close in between is heard by nobody and the heartbeats keep the slot (`agent/question.md:643`) |
| `MCShells` (`MCSession`) | `ShellsReleased` | of two openShell requests in flight the second to complete overwrites the handle of the first, and closing releases only one (`agent/memory.md:315`) |
| `MCInputLock` (`MCBrowser`) | `InputLocked` | `connectTo` awaits the charts before it subscribes to reconnection states; an outage in that window unlocks the terminal in the middle of a reconnection (`agent/question.md:537`) |
| `MCPolicy` (`MCBrowser`) | `PolicyFollows` | `connectTo` gives its client the settings of its start, and a change reaches the client only once `connectTo` is over: settings saved in between do not apply to the session (`agent/question.md:575`) |
| `MCRekeyed` (`MCBrowser`) | `KeyChangeEnds` | a host key that a later key exchange finds changed closes the socket of a ready session; nobody waits for a state then, `onclose` starts the loop, and the loop opens a socket (`agent/question.md:574`) |
| `MCPromote` (`MCStore`) | `PromoteCommits` | a child with the name of the folder that is deleted makes the request fail, although the name is free afterwards: the children move up before the folder goes (`agent/question.md:481`) |
| `MCFolderCycle` (`MCStore`) | `NoCycle` | two moves that each read before the other committed put two folders into each other (`agent/question.md:470`) |

Other places where the code and its description part, met while modelling:

* `Races` of `D1Store` lists the pairs of overlapping operations that may damage
  the tree, drop an edit or a row, or leave a counter wrong: the batches repeat no
  condition on what was read. A connection deleted by two requests is counted
  down twice.
* Save as onto a name that exists overwrites it; `agent/question.md:131` asks for
  a refusal.
* `go-ssh/wsconn.go:38` promises that no order of events loses data, but data
  buffered before an early close are dropped when the callbacks are registered
  after it. `ByteStream` therefore promises everything only to a waiting reader.
* Ctrl+S in the editor is handled by two listeners (`frontend/edit-modal.ts:313`
  and `:564`) and saves twice.
* A session that has 4 requests in flight answers the next one `too many requests`
  (`worker/backend-ssh-session.ts:223`). Also a close, which the browser does not
  repeat: the handle then stays open until the session ends.
* A file whose bytes are not UTF-8, fewer than one character in ten, opens in the
  editor like a text and is shown as saved; saving it replaces these bytes.
* A save that fails half way leaves a shortened file. A listing that fails
  empties the panel with its toolbar. Remove and rename join the name to the
  path that is current after their dialog (`frontend/sftp-panel.ts:222`).
* The button that stores a connection stays enabled while the request is under
  way, so two clicks create two connections.

## 4. Fairness

Nothing is assumed of users, servers and remote calls beyond what timers bound.

* `SshLifecycle`: time passes; a handler that has begun ends, one way or the
  other; a session becomes ready or fails. That a handshake never hangs is an
  assumption: the code has no timer for it (hazard `go-ssh/client.go:220`). The
  browser need not do anything, and no call need succeed.
* `BackendSshSession`: `start()` runs, the challenge's timer fires, a refused
  handshake fails.
* `SshLink`: the runtime delivers the events it has, the engine loads or fails
  (the wait for it is limited), a host key gets its verdict, a write ends, the
  keepalive's ticker fires. Nothing makes the server send, answer or end, so
  `EverythingEnds` speaks of servers that have closed.
* `BrowserSession` and `SettingsDialog`: continuations run; the loop's delay and
  the events of a socket that is being opened come, even when other events keep
  coming in between (strong fairness, since the browser's queue serves every
  event).
* `PanelStartup`: a user opens the panel and goes on pressing retry, requests are
  answered, a step goes on (`frontend/bootstrap-runner.ts` loops until
  complete), leases of dead steps run out, and a batch of deletions that is tried
  again and again succeeds in the end (strong fairness of `Delete` with the whole
  page). `Completes` is about runs in which every connection can be read and
  every listed key is returned; `TabsSettle` says what holds in the others.
* The store, the screen and the file panel are checked for safety only: what
  they promise is about what a step may do, and their requests may stay
  unanswered for ever.

## 5. What is proved

Every theorem is about the whole specification of its module and holds for every
value of the constants that satisfies the named assumptions of the modules
(`QuotaAssumption`, `LifecycleAssumption`, `SessionAssumption`,
`LinkAssumption`, `BootstrapAssumption`, `StoreAssumption`, `ScreenAssumption`,
`PanelAssumption`): positive limits, finite sets of folders and connections, and
values that stand for different things being different. The bounds of section 3
are constants as well, so the proofs are not bounded by them. Every inductive
invariant was checked by TLC before it was proved. Every safety property that a
passing run checks, invariant or action property, and every refinement is proved.

| Module | Theorem | Statement |
|---|---|---|
| `QuotaProofs` | `TypeCorrect`, `LimitsHold`, `OneSlot` | `[]TypeOK`, `[]WithinLimits`, `[]OneSlotPerLease` |
| | `LeasesSurvive`, `RefusalsJustified`, `ImplementsPool` | `NoEviction`, `RefusalJustified`, `PoolSpec` (the object implements `QuotaPool`) |
| | `LifecycleTypes`, `OverstayEnds`, `NothingOrphaned` | `[]LifecycleTypeOK`, `[]OverstayBounded`, `[]NoOrphanLease` |
| | `SessionsCovered`, `SessionsLimited` | `[]LeaseCoversSession` and `[]ActiveWithinLimit`, if `LeaseMs > StartMax + HeartbeatMs + RpcMax` |
| `SshEngineProofs` | `TypeCorrect`, `ClosedHoldsNothing`, `HandlesAgree`, `TrustedWhenReady` | `[]TypeOK`, `[]ReleasedWhenClosed`, `[]TablesAgree`, `[]TrustBeforeReady` |
| | `SessionsIsolated`, `ToldOnce` | `Isolation`, `FailureReportedOnce` |
| | `LinkTypes`, `WritesAlwaysFlow`, `CallbacksInTime` | `[]LinkTypeOK`, `[]WritesFlow`, `[]NoLateCall` |
| | `StreamImplemented` | `StreamSpec` (the link implements `ByteStream`) |
| `D1StoreProofs` | `Invariance`, `TypeCorrect` | the inductive invariant, `[]TypeOK` |
| | `TreeStaysSound`, `CountersStayExact` | `[]TreeSound`, `[]CountersExact` |
| | `CommitsUndisturbed`, `PayloadStaysKept` | `[]UndisturbedCommits`, `PayloadKept` |
| | `ImplementsStore` | `StoreSpec` (the tables implement `FolderStore`) |
| `ConnectionScreenProofs` | `ScreenInvariance`, `ScreenTypes` | the inductive invariant, `[]ScreenTypeOK` |
| | `NoGhosts`, `DialogMovesWhatItSays`, `ShownScopeAgrees` | `[]NoGhostSelection`, `[]DialogMovesItsTitle`, `[]ScreenAgrees` |
| `FilePanelProofs` | `Invariance`, `TypeCorrect` | the inductive invariant, `[]TypeOK` |
| | `ShownStaysCurrent`, `NothingStaysOpen`, `SavedStaysStored` | `[]ShownIsCurrent`, `[]NoHandleLeft`, `[]SavedMeansStored` |
| `PanelStartupProofs` | `StartupTypes`, `OpensMigrated` | `[]StartupTypeOK`, `[]OpenWhenMigrated` |
| | `Migrates`, `ProgressForward` | `MigrationSpec` (the bootstrap implements `KvMigration`), `PhaseForward` |
| `SettingsDialogProofs` | `NothingLost`, `SettingsSettle` | `[]NoLostRequest`, `[]PolicySettles` |
| | `NeverReopened`, `NeverRetried` | `NoReopen`, `NoRetryAfterBlock` |

**Quota.** `WithinLimits` is not inductive: a request writes back the array it
*saw*, so the proof has to know that array and the stored one to be related. The
inductive invariant is `TypeOK /\ SoundTable(leases) /\ GateInv`: `SoundTable`
says that an array is finite, within both limits and has one entry per
connection; `GateInv` says that a request in flight is alone (the platform's
input gate, the one assumption), that what it saw is the stored array filtered
at its clock reading, and that this reading is not in the future. That the three
operators keep a table sound is stated once, as lemmas that the lifecycle uses
as well. `LeasesSurvive` needs `ExpiryInv`, that no lease ends
later than one duration after the reading in flight: otherwise a renewal could
shorten one. `ImplementsPool` maps the pool to the leases that are unexpired
*now*; a grant decided on an older array is still a `Take` with room, because
time only removes leases.

**Lifecycle.** Per connection the invariant has four parts. `Stage`: where
handler and task may be together. `Unheld`: before it begins and after it ended
without a failure a connection has no lease. `Overstay`: how long a session can
have been open without one when its next heartbeat is due. `Cover`: the least
time its lease has left, which `Due` computes from the age of the start, the
heartbeat timer and a heartbeat under way. Only `Cover` uses the condition on
the timing, and from it follow `SessionsCovered` and, since a lease that covers
every session limits them, `SessionsLimited`. The run `slow_start` shows that the
limit fails without the condition.

**Backend session.** The invariant relates the objects (`Objects`: what a closed
or unconnected one holds, why it trusts its host, what its browser was told,
whether shells overlap) to the tables of the engine (`Tables`: ids in use were
handed out, no id belongs to two sessions, and the tables of connections, files
and shells match the objects in both directions). `Distinct` is what makes
isolation inductive: a close removes by id, and no two sessions have the same.

**Link.** Transport and `WsConn` are functions of one record, so the invariant is
stated as predicates on such a record: `Flow` (the write queue), `Ends` (who has
closed what, and that the transport drops its callbacks before they are
released) and `Order` (chunk `i` is the `i`-th of reader, inbox and buffer
together). Each function has a lemma that it keeps these (`Half`) and a lemma
about what the reader sees of it; `Settled` holds between events, when the
goroutines have run. A step of the stream is a chunk received, the end, or
nothing.

**Bootstrap.** `Lease`: whoever holds the lease works from the row as it is.
`RowSound`: how phase, cursor and totals belong together. `DataSound`: what each
phase says of KV and D1. `StepSound`: what a step under way has established,
whether or not it was overtaken; for a step that no longer holds the lease this
must stay true when others go on, which is the heart of the proof: overtaken
copies only add rows that belong there, and overtaken deletions only happen
after verification.

**Browser.** `Shape` (types), `Parted` (whoever released the session has
disconnected its client), `Secured` (where a refused host key can be met, and
that no socket is being opened then), `Dialled` (what the loop knows of the
socket it waits for) and `Handed` (the settings that `connectTo` gave to its
client are still the kept ones). `NeverRetried` proves a formula of the form
`[](P => []Q)` from one more step invariant, `Over`; its `P` is a flow that a
refused key has rejected, which leaves out the keys refused in a ready session.

**Recursive queries.** `Above` is a recursion by rounds; what it computes for
every table cannot be proved by an induction over an operator, which no backend
takes. `FolderTreeProofs` goes around it: by the least number of rounds after
which nothing is added, the result is closed under the parent (`AboveClosed`),
and by the least round that leaves a closed set, it is contained in every such
set (`AboveLeast`). Everything else is proved from the two: transitivity, that
in a tree two folders are not above each other, depth and height, and what a
new folder, a move, a promotion and a deletion make of the folders above each
(`InsertAbove`, `MoveAbove`, `MoveAcyclic`, `PromoteAbove`, `KeptAbove`). Batches of
statements are unfolded in the same way.

**Store.** The invariant has the types; ids that are apart and never come back;
the rows and folders that a request has read, which are still as they were unless
`raced` names what it raced with; that a request which nothing touched has
measured the tables as they are; and the tree, whose folders have no cycle and no
excess depth until `raced` says so. `CommitsUndisturbed` is about batches that no
other commit overtook, promotions left out, and needs that such a batch breaks no
foreign key: a folder is never deleted before the folders in it, because depth
never decreases on the way down. `ImplementsStore` goes through the operations one
by one: the batch of each, run on the tables it was measured on, is
one operation of `FolderStore` or none.

**Screen.** `NoGhostSelection` and `DialogMovesItsTitle` have small invariants of
their own: the selection is always within the list, and while the folders are
asked for, the dialog is closed and is to move what they are asked for.
`ScreenAgrees` speaks only of states without requests, so its invariant says
what every request in flight promises. A list is `Known` (all it names exists),
`Near` (it says where its folders lie) and true, but for changes that are stored
and not listed yet; a request for a list names a folder that exists, its answer
is such a list, and a deletion of the open folder leaves its parent in place
(`TargetStays`, which needs that the folders are a tree). Without two requests
of a kind at once exactly one of these decides what is shown next.

**File panel.** Operations overlap on names, so the invariant says who is alone:
an operation that nobody else touches the file of is `apart` from all others, a
transfer that is alone has moved exactly the chunks it counts, and nobody is
about to change the file whose text the editor takes for the stored one, which
decodes to that text. An open handle belongs to the transfer that goes on, a
handle is left only by a close that was refused (`CrowdInv`), and rows on the screen are those of
the path that the last listing was asked for.

**Model-checked only.** Liveness (`SlotFreed`, `ChallengeResolved`,
`EverythingEnds`, `Completes`, `TabsSettle`, `OutageEnds`): fairness and `ENABLED`
are beyond TLAPS. No module proved about reaches a RECURSIVE operator.

## 6. What is not modelled, and why

* Parsing, formatting, encryption and token signatures: no interesting order of
  steps, and the unit tests reach them. Validation in the routes, forms and
  drawing are the same.
* The login rate limit (`worker/login-rate-limit.ts:69`): an unguarded
  read-modify-write over an eventually consistent store. Concurrent failures are
  counted once, which the code accepts; there is no promise left to state.
* The KV store: records under independent keys. Their migration is modelled.
* Bytes: chunks, terminal data and frames appear as the events they cause and
  with size 1. Frame limits appear where they close a session.
* In `SshLifecycle`, the authentication of the WebSocket request, the nonce of
  `OneTimeSessionInit` and the probe endpoint.
* In `BackendSshSession`, the token bucket, shell input and the order in which
  the goroutines of the engine hand out shell output.
* In `SshLink`, ProxyJump, authentication methods and the deadlines of `WsConn`,
  which nothing sets; one load of the engine, not the sharing of it.
* In `BrowserSession`, drawing, and a second session opened while the first is
  being connected. In `SettingsDialog`, settings that no session depends on.
* In `FilePanel`, a second editor, mkdir, stat and previews; a request that is
  unanswered when the link is lost counts as not done.
* In `ConnectionScreen`, the edit form and the import.
* In `PanelStartup`, tabs that are reloaded, deletions of connections after the
  migration, and the Promise.all of deletions whose remaining members land after
  a failed one: they come after the verification and delete what the next pass
  deletes.
* Deployment scripts and the development SSH server.

## 7. What is left

1. The token bucket of the session (never more than the burst plus rate times
   time), with elapsed time in fractions as the code has it, and its bound proved.
2. The shared promise of the engine loader, and the order of shell output.
3. The edit form and the import next to `ConnectionScreen`, and the cached
   operating system information of the KV store.
4. Under which interleavings `InputLocked` and `CloseFreesSlot` do hold, as
   theorems with the condition in their statement, like `SessionsLimited`.
