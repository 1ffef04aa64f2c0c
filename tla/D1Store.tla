------------------------------ MODULE D1Store ------------------------------
(***************************************************************************)
(* The connections and folders of worker/d1-store.ts under the requests of *)
(* worker/index.ts.  A request reads the rows it names (Begin), asks the   *)
(* recursive queries (Measure) and sends one D1 batch (Commit); between    *)
(* two of these steps any other request may commit.  A batch is atomic and *)
(* its statements run in order under the schema's constraints.             *)
(*                                                                         *)
(* A connection's payload is kept as what the requests tell apart: its     *)
(* authentication type, whether the matching secret is stored and whether  *)
(* a host key is pinned.                                                   *)
(***************************************************************************)
EXTENDS FolderTree, Sequences

CONSTANTS
  Folder, Conn,  \* row ids
  Name,          \* folder names, as the tokens of the unique index
  AuthType,
  MaxDepth,      \* MAX_FOLDER_DEPTH
  Request,       \* requests that may be in flight at once
  MaxRequests    \* bound: requests ever begun

ASSUME StoreAssumption ==
  /\ Root \notin Folder \cup Conn /\ IsFiniteSet(Folder) /\ IsFiniteSet(Conn)
  /\ MaxDepth \in Nat \ {0} /\ MaxRequests \in Nat
  /\ "keep" \notin AuthType

VARIABLES
  db,      \* the tables: db.f of folders, db.c of connections
  req,     \* per request: at which step it is and what it read so far
  begun,
  used,    \* the ids ever given to a row: they are random and never come back
  raced    \* history: what an overtaken commit may have damaged

vars == <<db, req, begun, used, raced>>

Folders == DOMAIN db.f
Conns == DOMAIN db.c

FolderRow == [parent : Folder \cup {Root}, name : Name, count : Int]
ConnRow == [folder : Folder \cup {Root}, auth : AuthType, secret : BOOLEAN, pin : BOOLEAN]

-----------------------------------------------------------------------------
(* A definition named Mut_X is a faulty variant of X: the property it is    *)
(* paired with must fail for it.                                           *)

(* The schema: foreign keys and the unique index of sibling names.         *)
Legal(d) ==
  /\ \A f \in DOMAIN d.f : d.f[f].parent \in DOMAIN d.f \cup {Root}
  /\ \A c \in DOMAIN d.c : d.c[c].folder \in DOMAIN d.f \cup {Root}
  /\ \A f, g \in DOMAIN d.f :
       f # g => <<d.f[f].parent, d.f[f].name>> # <<d.f[g].parent, d.f[g].name>>

(* One SQL statement of a batch, on table tab.  UPDATE and DELETE apply to *)
(* the rows whose column col holds one of vals: rows that are gone meanwhile *)
(* make them do nothing.                                                   *)
InsertRow(tab, id, row) == [sql |-> "insert", tab |-> tab, id |-> id, row |-> row]
UpdateRows(tab, col, vals, set) ==
  [sql |-> "update", tab |-> tab, col |-> col, vals |-> vals, set |-> set]
DeleteRows(tab, col, vals) == [sql |-> "delete", tab |-> tab, col |-> col, vals |-> vals]
AddCounts(delta) == [sql |-> "count", tab |-> "f", delta |-> delta]

Hit(t, s) == {x \in DOMAIN t : IF s.col = "id" THEN x \in s.vals ELSE t[x][s.col] \in s.vals}

Overwritten(row, set) ==
  [col \in DOMAIN row |-> IF col \in DOMAIN set THEN set[col] ELSE row[col]]

Exec(t, s) ==
  CASE s.sql = "insert" ->
         [x \in DOMAIN t \cup {s.id} |-> IF x = s.id THEN s.row ELSE t[x]]
    [] s.sql = "update" -> [x \in DOMAIN t |-> IF x \in Hit(t, s) THEN Overwritten(t[x], s.set) ELSE t[x]]
    [] s.sql = "delete" -> [x \in DOMAIN t \ Hit(t, s) |-> t[x]]
    [] s.sql = "count" ->
         [x \in DOMAIN t |->
            IF x \in DOMAIN s.delta THEN [t[x] EXCEPT !.count = @ + s.delta[x]] ELSE t[x]]

(* D1Database.batch: the first statement that breaks a constraint rolls    *)
(* everything back.                                                        *)
RolledBack == [f |-> "rolled back"]
Applied(d, s) == [d EXCEPT ![s.tab] = Exec(@, s)]
Checked(d) == IF Legal(d) THEN d ELSE RolledBack
Batch(d, statements) ==
  LET run[i \in 0 .. Len(statements)] ==
        IF i = 0 THEN d
        ELSE LET before == run[i - 1]
             IN IF before = RolledBack THEN before ELSE Checked(Applied(before, statements[i]))
  IN run[Len(statements)]

-----------------------------------------------------------------------------
(* Requests.                                                               *)

(* What a browser sends: folders and connections it knows, which others    *)
(* may delete meanwhile.  A patch names the payload fields it changes; a    *)
(* form that leaves the secret blank changes none of those kept here, and   *)
(* is not sent when it changes the authentication type.                    *)
Patch(auth, secret, pin) == [auth |-> auth, secret |-> secret, pin |-> pin]
Patches ==
  {Patch("keep", FALSE, "keep")}                           \* lastConnectedAt, lastDisconnectedAt
    \cup {Patch("keep", FALSE, p) : p \in {"set", "reset"}}         \* host key trusted, trust reset
    \cup {Patch(a, TRUE, "keep") : a \in AuthType}        \* the form, with a new secret

Places == Folders \cup {Root}
ConnectionQueries ==
  [op : {"createConnection"}, id : Conn \ used, to : Places, auth : AuthType]
    \cup [op : {"updateConnection"}, id : Conns, patch : Patches]
    \cup [op : {"clearCredential", "deleteConnection"}, id : Conns]
    \cup [op : {"moveConnections"}, ids : SUBSET Conns \ {{}}, to : Places]
FolderQueries ==
  [op : {"createFolder"}, id : Folder \ used, to : Places, name : Name]
    \cup [op : {"renameFolder"}, id : Folders, name : Name]
    \cup [op : {"moveFolder"}, id : Folders, to : Places]
    \cup [op : {"promoteFolder", "deleteFolder"}, id : Folders]

(* A new connection carries its secret and no host key.                    *)
NewConnection(q) == [folder |-> q.to, auth |-> q.auth, secret |-> TRUE, pin |-> FALSE]

Creates(q) == q.op \in {"createConnection", "createFolder"}
Mut_Row(q) ==
  CASE q.op \in {"updateConnection", "clearCredential"} -> db.c[q.id]
    [] q.op = "deleteConnection" -> [folder |-> db.c[q.id].folder]
    [] q.op = "moveConnections" -> [folders |-> [c \in q.ids |-> db.c[c].folder]]
    [] q.op \in {"moveFolder", "deleteFolder"} ->
         [parent |-> db.f[q.id].parent, count |-> db.f[q.id].count]
    [] OTHER -> [parent |-> Root]

(* What is kept of the rows read.                                          *)
Row(q) ==
  CASE q.op \in {"updateConnection", "clearCredential"} -> db.c[q.id]
    [] q.op = "deleteConnection" -> [folder |-> db.c[q.id].folder]
    [] q.op = "moveConnections" -> [folders |-> [c \in q.ids |-> db.c[c].folder]]
    [] q.op \in {"moveFolder", "promoteFolder", "deleteFolder"} ->
         [parent |-> db.f[q.id].parent, count |-> db.f[q.id].count]
    [] OTHER -> [parent |-> Root]

Mut_Merged(row, p) ==
  [auth |-> IF p.auth = "keep" THEN row.auth ELSE p.auth, secret |-> p.secret \/ row.secret,
   pin |-> p.pin = "set"]

(* updateConnection: the payload read, changed as the patch says.          *)
Merged(row, p) ==
  LET auth == IF p.auth = "keep" THEN row.auth ELSE p.auth
  IN [auth |-> auth, secret |-> p.secret \/ (row.secret /\ auth = row.auth),
      pin |-> p.pin = "set" \/ (p.pin = "keep" /\ row.pin)]

Mut_Refused(t, q, row) ==
  \/ q.op = "updateConnection" /\ ~Merged(row, q.patch).secret
  \/ q.op = "createFolder" /\ q.to # Root /\ Depth(t, q.to) >= MaxDepth
  \/ /\ q.op = "moveFolder" /\ q.to # row.parent
     /\ q.to \in Below(t, q.id) \/ Depth(t, q.to) + 1 > MaxDepth

(* assertCredential, FolderDepthError, FolderCycleError: answered with 400. *)
Refused(t, q, row) ==
  CASE q.op = "updateConnection" -> ~Merged(row, q.patch).secret
    [] q.op = "createFolder" -> q.to # Root /\ Depth(t, q.to) >= MaxDepth
    [] q.op = "moveFolder" ->
         /\ q.to # row.parent
         /\ \/ q.to = q.id
            \/ q.to \in Below(t, q.id)
            \/ Depth(t, q.to) + Height(t, q.id) > MaxDepth
    [] OTHER -> FALSE

(* A recursive query of the request would run without end.                 *)
EndlessFor(t, q, row) ==
  CASE q.op \in {"createConnection", "createFolder"} -> Endless(t, q.to)
    [] q.op = "deleteConnection" -> Endless(t, row.folder)
    [] q.op = "moveConnections" -> \E f \in {q.to} \cup {row.folders[c] : c \in q.ids} : Endless(t, f)
    [] q.op = "moveFolder" ->
         q.to # row.parent /\ (OnCycle(t, q.id) \/ Endless(t, q.to) \/ Endless(t, row.parent))
    [] q.op = "deleteFolder" -> OnCycle(t, q.id) \/ Endless(t, row.parent)
    [] OTHER -> FALSE

(* countStatements: delta for f and every folder above it.                 *)
Bump(t, f, delta) == AddCounts([g \in Above(t, f) |-> delta])

Mut_MoveDelta(t, from, movers, to) ==
  [g \in Above(t, to) \cup UNION {Above(t, from[c]) : c \in movers} |->
     IF g \in Above(t, to) THEN 1 ELSE -1]

(* moveConnections adds up the deltas of all connections it moves.         *)
MoveDelta(t, from, movers, to) ==
  [g \in Above(t, to) \cup UNION {Above(t, from[c]) : c \in movers} |->
     Cardinality({c \in movers : g \in Above(t, to)})
       - Cardinality({c \in movers : g \in Above(t, from[c])})]

Mut_DeleteDeepestFirst(t, S) ==
  LET top == Max({0} \cup {Depth(t, g) : g \in S})
  IN [i \in 1 .. top |-> DeleteRows("f", "id", {g \in S : Depth(t, g) = i})]

(* deleteFolder: the deepest folders first, as the schema demands.         *)
Deepest(t, S, n) == {g \in S : Depth(t, g) = n}
DeleteDeepestFirst(t, S) ==
  LET top == Max({0} \cup {Depth(t, g) : g \in S})
  IN [i \in 1 .. top |-> DeleteRows("f", "id", Deepest(t, S, top + 1 - i))]

(* The batch that each operation sends after its reads.                    *)
CreateConnection(t, q) == <<InsertRow("c", q.id, NewConnection(q)), Bump(t, q.to, 1)>>

UpdateConnection(q, row) == <<UpdateRows("c", "id", {q.id}, Merged(row, q.patch))>>

ClearCredential(q, row) ==
  <<UpdateRows("c", "id", {q.id}, [auth |-> row.auth, secret |-> FALSE, pin |-> row.pin])>>

DeleteConnection(t, q, row) == <<DeleteRows("c", "id", {q.id}), Bump(t, row.folder, -1)>>

MoveConnections(t, q, row) ==
  LET movers == {c \in q.ids : row.folders[c] # q.to}
  IN <<UpdateRows("c", "id", movers, [folder |-> q.to]),
       AddCounts(MoveDelta(t, row.folders, movers, q.to))>>

CreateFolder(q) == <<InsertRow("f", q.id, [parent |-> q.to, name |-> q.name, count |-> 0])>>

RenameFolder(q) == <<UpdateRows("f", "id", {q.id}, [name |-> q.name])>>

MoveFolder(t, q, row) ==
  IF q.to = row.parent THEN <<>>
  ELSE <<UpdateRows("f", "id", {q.id}, [parent |-> q.to]),
         Bump(t, row.parent, -row.count), Bump(t, q.to, row.count)>>

PromoteFolder(q, row) ==
  <<UpdateRows("c", "folder", {q.id}, [folder |-> row.parent]),
    UpdateRows("f", "parent", {q.id}, [parent |-> row.parent]),
    DeleteRows("f", "id", {q.id})>>

DeleteFolder(t, q, row) ==
  LET S == Below(t, q.id)
  IN <<DeleteRows("c", "folder", S)>> \o DeleteDeepestFirst(t, S) \o <<Bump(t, row.parent, -row.count)>>

Statements(t, q, row) ==
  CASE q.op = "createConnection" -> CreateConnection(t, q)
    [] q.op = "updateConnection" -> UpdateConnection(q, row)
    [] q.op = "clearCredential" -> ClearCredential(q, row)
    [] q.op = "deleteConnection" -> DeleteConnection(t, q, row)
    [] q.op = "moveConnections" -> MoveConnections(t, q, row)
    [] q.op = "createFolder" -> CreateFolder(q)
    [] q.op = "renameFolder" -> RenameFolder(q)
    [] q.op = "moveFolder" -> MoveFolder(t, q, row)
    [] q.op = "promoteFolder" -> PromoteFolder(q, row)
    [] q.op = "deleteFolder" -> DeleteFolder(t, q, row)

-----------------------------------------------------------------------------
(* The pairs <<op, other>> where op, committing, may damage the tables if   *)
(* other has committed since op's first read.  No condition in the batches  *)
(* prevents it.  Every pair that is not listed is safe.                     *)
Races ==
  [tree |-> ({"moveFolder"} \X {"moveFolder", "createFolder"})
              \cup ({"createFolder", "promoteFolder"} \X {"moveFolder"}),
   rows |-> ({"updateConnection", "clearCredential"} \X {"updateConnection", "clearCredential"})
              \cup ({"deleteFolder"} \X {"moveFolder", "promoteFolder"}),
   counters |->
     ({"createConnection", "promoteFolder"} \X {"moveFolder"})
       \cup ({"deleteConnection", "moveConnections"}
              \X {"deleteConnection", "moveConnections", "moveFolder", "promoteFolder", "deleteFolder"})
       \cup ({"moveFolder", "deleteFolder"}
              \X {"createConnection", "deleteConnection", "moveConnections", "moveFolder",
                  "promoteFolder", "deleteFolder"})]

Idle == [at |-> "idle"]
Busy(r) == req[r].at # "idle"

(* Any tables within the depth limit, their counters exact.                *)
Tables(parent, name, config) ==
  LET bare == [f \in DOMAIN parent |-> [parent |-> parent[f], name |-> name[f]]]
  IN [f |-> [f \in DOMAIN parent |->
               [parent |-> parent[f], name |-> name[f],
                count |-> Cardinality(HostsIn(bare, config, f))]],
      c |-> config]
InitTables ==
  UNION {{d \in {Tables(parent, name, config) :
                   parent \in [S -> S \cup {Root}], name \in [S -> Name],
                   config \in [T -> [folder : S \cup {Root}, auth : AuthType, secret : {TRUE},
                                     pin : {FALSE}]]} :
            Legal(d) /\ Acyclic(d.f) /\ \A f \in S : Depth(d.f, f) <= MaxDepth}
          : S \in SUBSET Folder, T \in SUBSET Conn}

Init ==
  /\ db \in InitTables
  /\ req = [r \in Request |-> Idle]
  /\ begun = 0 /\ used = Folders \cup Conns /\ raced = {}

(* Requests that read no more than their rows.                             *)
OneRead(q) ==
  \/ q.op \in {"updateConnection", "clearCredential", "renameFolder", "promoteFolder"}
  \/ Creates(q) /\ q.to = Root

(* seen: the folders as the recursive queries found them.                  *)
ToCommit(q, row, past) ==
  [at |-> "commit", q |-> q, row |-> row, seen |-> db.f, past |-> past]
Sent(r) == Statements(req[r].seen, req[r].q, req[r].row)

Begin(r) ==
  /\ ~Busy(r) /\ begun < MaxRequests
  /\ \E q \in ConnectionQueries \cup FolderQueries :
       /\ used' = IF Creates(q) THEN used \cup {q.id} ELSE used
       /\ req' = [req EXCEPT ![r] =
                    IF OneRead(q) /\ ~Refused(db.f, q, Row(q)) THEN ToCommit(q, Row(q), {})
                    ELSE [at |-> "measure", q |-> q, row |-> Row(q), past |-> {}]]
  /\ begun' = begun + 1
  /\ UNCHANGED <<db, raced>>

Measure(r) ==
  /\ req[r].at = "measure"
  /\ ~EndlessFor(db.f, req[r].q, req[r].row) /\ ~Refused(db.f, req[r].q, req[r].row)
  /\ req' = [req EXCEPT ![r] = ToCommit(@.q, @.row, @.past)]
  /\ UNCHANGED <<db, begun, used, raced>>

(* A committed request as the other requests in flight will remember it.   *)
Overtakes(r, op) ==
  [x \in Request |-> IF x = r THEN Idle
                     ELSE IF Busy(x) THEN [req[x] EXCEPT !.past = @ \cup {op}] ELSE req[x]]

Commit(r) ==
  LET after == Batch(db, Sent(r)) IN
  /\ req[r].at = "commit" /\ after # RolledBack
  /\ db' = after
  /\ req' = Overtakes(r, req[r].q.op)
  /\ raced' = raced \cup {d \in DOMAIN Races :
                            \E op \in req[r].past : <<req[r].q.op, op>> \in Races[d]}
  /\ UNCHANGED <<begun, used>>

(* 409 for a sibling name that is taken, 500 for any other constraint.     *)
Reject(r) ==
  /\ req[r].at = "commit" /\ Batch(db, Sent(r)) = RolledBack
  /\ req' = [req EXCEPT ![r] = Idle]
  /\ UNCHANGED <<db, begun, used, raced>>

(* 400, and 500 for a query without end.                                   *)
Refuse(r) ==
  /\ req[r].at = "measure"
  /\ EndlessFor(db.f, req[r].q, req[r].row) \/ Refused(db.f, req[r].q, req[r].row)
  /\ req' = [req EXCEPT ![r] = Idle]
  /\ UNCHANGED <<db, begun, used, raced>>

(* There is no fairness: a request whose read or batch D1 fails, or that   *)
(* dies, takes no further step.                                            *)
Next == \E r \in Request :
  Begin(r) \/ Measure(r) \/ Commit(r) \/ Reject(r) \/ Refuse(r)

Spec == Init /\ [][Next]_vars

-----------------------------------------------------------------------------
TypeOK ==
  /\ Folders \subseteq Folder /\ \A f \in Folders : db.f[f] \in FolderRow
  /\ Conns \subseteq Conn /\ \A c \in Conns : db.c[c] \in ConnRow
  /\ \A f \in Folders : db.f[f].parent \in Folders \cup {Root}
  /\ \A c \in Conns : db.c[c].folder \in Folders \cup {Root}
  /\ \A f, g \in Folders : db.f[f].parent = db.f[g].parent /\ db.f[f].name = db.f[g].name => f = g
  /\ \A r \in Request : req[r].at \in {"idle", "measure", "commit"}
  /\ Folders \cup Conns \subseteq used
  /\ begun \in 0 .. MaxRequests /\ raced \subseteq DOMAIN Races

(* The tree has no cycle and keeps its depth limit (agent/question.md, D4) *)
(* until a move is overtaken by another move or by the creation of a        *)
(* folder, or the creation or promotion of a folder by a move (Races.tree): *)
(* their batches do not repeat the check.  Every other overlap leaves the   *)
(* tree sound, and so does every sequence of requests without one.          *)
TreeSound == "tree" \in raced \/ (Acyclic(db.f) /\ \A f \in Folders : Depth(db.f, f) <= MaxDepth)

(* agent/question.md D4: cycles must be kept out.                          *)
NoCycle == Acyclic(db.f)

(* Every folder's recursive_host_count is the number of connections below  *)
(* it (D6) until a pair of Races.counters or Races.tree overlaps.  What     *)
(* remains are the deltas of each operation, and the overlaps with          *)
(* creations, renamings, updates and most creations of connections.         *)
CountersExact ==
  \/ raced \cap {"tree", "counters"} # {}
  \/ \A f \in Folders : db.f[f].count = Cardinality(HostsIn(db.f, db.c, f))

(* A batch that no other commit overtook is refused by the schema only     *)
(* because a sibling has the name already: the order of its statements     *)
(* never breaks a foreign key (deleteFolder deletes the deepest folders    *)
(* first).  An overtaken one can break it: a folder created inside the one *)
(* that is being deleted.  Promotions are left out, see PromoteCommits.    *)
Taken(r) ==
  LET q == req[r].q
      Free(p, n, except) == \A g \in Folders \ except : db.f[g].parent = p => db.f[g].name # n
  IN CASE q.op = "createFolder" -> ~Free(q.to, q.name, {})
       [] q.op = "renameFolder" -> ~Free(db.f[q.id].parent, q.name, {q.id})
       [] q.op = "moveFolder" -> ~Free(q.to, db.f[q.id].name, {q.id})
       [] q.op = "promoteFolder" ->
            \E g \in Folders : db.f[g].parent = q.id /\ ~Free(db.f[q.id].parent, db.f[g].name, {q.id})
       [] OTHER -> FALSE
RefusedForName(r) ==
  req[r].at = "commit" /\ req[r].past = {} /\ Batch(db, Sent(r)) = RolledBack => Taken(r)
UndisturbedCommits == \A r \in Request : Busy(r) /\ req[r].q.op # "promoteFolder" => RefusedForName(r)

(* agent/question.md D15: deleting only the folder promotes its contents.  *)
(* The same as above for that request.                                     *)
PromoteCommits == \A r \in Request : Busy(r) /\ req[r].q.op = "promoteFolder" => RefusedForName(r)

(* A request changes the payload fields it names and no other: the touch   *)
(* of lastDisconnectedAt, which nobody waits for (main.ts), neither drops   *)
(* a pinned host key nor brings a cleared secret back, unless an update or  *)
(* clearing of any connection was committed between its read and its write. *)
Names(q) ==
  IF q.op = "clearCredential" THEN {"secret"}
  ELSE (IF q.patch.auth = "keep" THEN {} ELSE {"auth"})
         \cup (IF q.patch.pin = "keep" THEN {} ELSE {"pin"})
         \cup (IF q.patch.secret THEN {"secret"} ELSE {})
PayloadKept ==
  [][\A c \in Conns \cap DOMAIN db'.c :
       LET changed == {x \in {"auth", "secret", "pin"} : db.c[c][x] # db'.c[c][x]} IN
       changed # {} =>
         \E r \in Request :
           /\ req[r].at = "commit" /\ req'[r].at = "idle" /\ req[r].q.id = c
           /\ \/ changed \subseteq Names(req[r].q)
              \/ req[r].past \cap {"updateConnection", "clearCredential"} # {}]_vars

(* The tables change as if every request took effect at the moment of its  *)
(* batch, until one of Races happens: nothing is lost, misplaced or half   *)
(* done.                                                                   *)
Promise == INSTANCE FolderStore WITH
  tree <- [f \in Folders |-> [parent |-> db.f[f].parent, name |-> db.f[f].name]],
  conns <- db.c,
  lost <- raced \cap {"tree", "rows"} # {}
StoreSpec == Promise!Spec
=============================================================================
