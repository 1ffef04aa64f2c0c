--------------------------- MODULE D1StoreProofs ---------------------------
(***************************************************************************)
(* Proofs about the connections and folders for any folders, connections,  *)
(* names and depth limit, and any number of requests in flight.            *)
(*                                                                         *)
(* The invariants are proved one conjunct at a time; the last part shows   *)
(* that the store implements FolderStore.                                  *)
(***************************************************************************)
EXTENDS D1Store, FolderTreeProofs, SequenceTheorems

-----------------------------------------------------------------------------
(* Batches: the statements run one after the other, and the first that breaks a constraint ends it. *)

\* A statement run on what the batch has left so far, and the recursion of a batch.
Ran(e, s) == IF e = RolledBack THEN e ELSE Checked(Applied(e, s))
IsRun(u, d, st, N) ==
  u = [i \in 0 .. N |-> IF i = 0 THEN d ELSE Ran(u[i - 1], st[i])]

\* Lemma: a recursion over the statements of a batch exists.
LEMMA BatchRuns ==
  ASSUME NEW d, NEW st, NEW N \in Nat
  PROVE  \E run : IsRun(run, d, st, N)
<1> DEFINE Good == {m \in 0 .. N : \E run : IsRun(run, d, st, m)}
<1>1. 0 \in Good
  <2> DEFINE run == [i \in 0 .. 0 |-> d]
  <2>1. IsRun(run, d, st, 0)
    BY DEF IsRun
  <2> QED
    BY <2>1
<1>2. ASSUME NEW m \in 1 .. N, m - 1 \in Good PROVE m \in Good
  <2>1. PICK low : IsRun(low, d, st, m - 1)
    BY <1>2
  <2> DEFINE run == [i \in 0 .. m |-> IF i = m THEN Ran(low[m - 1], st[m]) ELSE low[i]]
  <2>2. \A i \in 0 .. m : run[i] = IF i = 0 THEN d ELSE Ran(run[i - 1], st[i])
    <3> SUFFICES ASSUME NEW i \in 0 .. m
                 PROVE  run[i] = IF i = 0 THEN d ELSE Ran(run[i - 1], st[i])
      OBVIOUS
    <3>1. CASE i = m
      BY <3>1
    <3>2. CASE i # m
      <4>1. i \in 0 .. m - 1
        BY <3>2
      <4>2. low[i] = IF i = 0 THEN d ELSE Ran(low[i - 1], st[i])
        BY <2>1, <4>1 DEF IsRun
      <4> QED
        BY <3>2, <4>1, <4>2
    <3> QED
      BY <3>1, <3>2
  <2>3. IsRun(run, d, st, m)
    BY <2>2 DEF IsRun
  <2> QED
    BY <2>3
<1>3. 0 .. N \subseteq Good
  <2> HIDE DEF Good
  <2> QED
    BY <1>1, <1>2, Upwards
<1> QED
  BY <1>3

\* The tables that a batch goes through.
RunOf(run, d, st) ==
  /\ run[0] = d
  /\ \A i \in 1 .. Len(st) : run[i] = Ran(run[i - 1], st[i])
  /\ Batch(d, st) = run[Len(st)]

\* Lemma: a batch runs its statements one after the other.
LEMMA BatchSteps ==
  ASSUME NEW d, NEW st, Len(st) \in Nat
  PROVE  \E run : RunOf(run, d, st)
<1> DEFINE N == Len(st)
           run == CHOOSE u : IsRun(u, d, st, N)
<1>1. IsRun(run, d, st, N)
  BY BatchRuns
<1>2. Batch(d, st) = run[N]
  BY DEF Batch, IsRun, Ran
<1> HIDE DEF run
<1>3. run[0] = d
  BY <1>1 DEF IsRun
<1>4. \A i \in 1 .. N : run[i] = Ran(run[i - 1], st[i])
  <2> HIDE DEF N
  <2> TAKE i \in 1 .. N
  <2>1. i \in 0 .. N /\ i # 0
    BY DEF N
  <2> QED
    BY <1>1, <2>1 DEF IsRun
<1> QED
  BY <1>2, <1>3, <1>4 DEF RunOf

\* Lemma: a pair of tables is no rollback.
LEMMA TablesThere ==
  ASSUME NEW F, NEW C
  PROVE  [f |-> F, c |-> C] # RolledBack
BY DEF RolledBack

\* Lemma: a statement that went through left legal tables.
LEMMA RanFacts ==
  ASSUME NEW d, NEW s, Ran(d, s) # RolledBack
  PROVE  d # RolledBack /\ Ran(d, s) = Applied(d, s) /\ Legal(Applied(d, s))
BY DEF Ran, Checked

\* Lemma: a batch of no statement.
LEMMA BatchOfNone ==
  ASSUME NEW d
  PROVE  Batch(d, <<>>) = d
<1>1. Len(<<>>) = 0 /\ Len(<<>>) \in Nat
  OBVIOUS
<1> QED
  BY <1>1, BatchSteps DEF RunOf

\* Lemma: a batch of one statement.
LEMMA BatchOfOne ==
  ASSUME NEW d, NEW a
  PROVE  Batch(d, <<a>>) = Ran(d, a)
<1> DEFINE st == <<a>>
<1>1. Len(st) = 1 /\ Len(st) \in Nat /\ st[1] = a
  OBVIOUS
<1> HIDE DEF st
<1>2. PICK run : RunOf(run, d, st)
  BY <1>1, BatchSteps
<1>3. run[1] = Ran(run[0], a)
  BY <1>1, <1>2 DEF RunOf
<1> QED
  BY <1>1, <1>2, <1>3 DEF st, RunOf

\* Lemma: a batch of two.
LEMMA BatchOfTwo ==
  ASSUME NEW d, NEW a, NEW b
  PROVE  Batch(d, <<a, b>>) = Ran(Ran(d, a), b)
<1> DEFINE st == <<a, b>>
<1>1. Len(st) = 2 /\ Len(st) \in Nat /\ st[1] = a /\ st[2] = b
  OBVIOUS
<1> HIDE DEF st
<1>2. PICK run : RunOf(run, d, st)
  BY <1>1, BatchSteps
<1>3. run[1] = Ran(run[0], a) /\ run[2] = Ran(run[1], b)
  BY <1>1, <1>2 DEF RunOf
<1> QED
  BY <1>1, <1>2, <1>3 DEF st, RunOf

\* Lemma: and of three.
LEMMA BatchOfThree ==
  ASSUME NEW d, NEW a, NEW b, NEW e
  PROVE  Batch(d, <<a, b, e>>) = Ran(Ran(Ran(d, a), b), e)
<1> DEFINE st == <<a, b, e>>
<1>1. Len(st) = 3 /\ Len(st) \in Nat /\ st[1] = a /\ st[2] = b /\ st[3] = e
  OBVIOUS
<1> HIDE DEF st
<1>2. PICK run : RunOf(run, d, st)
  BY <1>1, BatchSteps
<1>3. run[1] = Ran(run[0], a) /\ run[2] = Ran(run[1], b) /\ run[3] = Ran(run[2], e)
  BY <1>1, <1>2 DEF RunOf
<1> QED
  BY <1>1, <1>2, <1>3 DEF st, RunOf

\* What each statement does to a table.
Counted(F, D) == [x \in DOMAIN F |-> IF x \in DOMAIN D THEN [F[x] EXCEPT !.count = @ + D[x]] ELSE F[x]]
Only(F, S) == [x \in S |-> F[x]]
With(F, x, row) == [y \in DOMAIN F \cup {x} |-> IF y = x THEN row ELSE F[y]]
Written(F, S, set) == [x \in DOMAIN F |-> IF x \in S THEN Overwritten(F[x], set) ELSE F[x]]

\* Lemma: a row inserted into the connections.
LEMMA RanInsertConn ==
  ASSUME NEW F, NEW C, NEW x, NEW row
  PROVE  /\ Applied([f |-> F, c |-> C], InsertRow("c", x, row)) =
              [f |-> F, c |-> With(C, x, row)]
         /\ Ran([f |-> F, c |-> C], InsertRow("c", x, row)) # RolledBack =>
              /\ Ran([f |-> F, c |-> C], InsertRow("c", x, row)) =
                   [f |-> F, c |-> With(C, x, row)]
              /\ Legal([f |-> F, c |-> With(C, x, row)])
<1>1. Applied([f |-> F, c |-> C], InsertRow("c", x, row)) =
        [f |-> F, c |-> With(C, x, row)]
  BY DEF Applied, Exec, InsertRow, With
<1> QED
  BY <1>1, RanFacts

\* Lemma: and into the folders.
LEMMA RanInsertFolder ==
  ASSUME NEW F, NEW C, NEW x, NEW row
  PROVE  /\ Applied([f |-> F, c |-> C], InsertRow("f", x, row)) =
              [f |-> With(F, x, row), c |-> C]
         /\ Ran([f |-> F, c |-> C], InsertRow("f", x, row)) # RolledBack =>
              /\ Ran([f |-> F, c |-> C], InsertRow("f", x, row)) =
                   [f |-> With(F, x, row), c |-> C]
              /\ Legal([f |-> With(F, x, row), c |-> C])
<1>1. Applied([f |-> F, c |-> C], InsertRow("f", x, row)) =
        [f |-> With(F, x, row), c |-> C]
  BY DEF Applied, Exec, InsertRow, With
<1> QED
  BY <1>1, RanFacts

\* Lemma: counters changed.
LEMMA RanCount ==
  ASSUME NEW F, NEW C, NEW D
  PROVE  /\ Applied([f |-> F, c |-> C], AddCounts(D)) =
              [f |-> Counted(F, D), c |-> C]
         /\ Ran([f |-> F, c |-> C], AddCounts(D)) # RolledBack =>
              /\ Ran([f |-> F, c |-> C], AddCounts(D)) =
                   [f |-> Counted(F, D), c |-> C]
              /\ Legal([f |-> Counted(F, D), c |-> C])
<1>1. Applied([f |-> F, c |-> C], AddCounts(D)) =
        [f |-> Counted(F, D), c |-> C]
  BY DEF Applied, Exec, AddCounts, Counted
<1> QED
  BY <1>1, RanFacts

\* Lemma: connections deleted by their ids.
LEMMA RanDeleteConns ==
  ASSUME NEW F, NEW C, NEW V
  PROVE  /\ Applied([f |-> F, c |-> C], DeleteRows("c", "id", V)) =
              [f |-> F, c |-> Only(C, DOMAIN C \ V)]
         /\ Ran([f |-> F, c |-> C], DeleteRows("c", "id", V)) # RolledBack =>
              /\ Ran([f |-> F, c |-> C], DeleteRows("c", "id", V)) =
                   [f |-> F, c |-> Only(C, DOMAIN C \ V)]
              /\ Legal([f |-> F, c |-> Only(C, DOMAIN C \ V)])
<1>1. Applied([f |-> F, c |-> C], DeleteRows("c", "id", V)) =
        [f |-> F, c |-> Only(C, DOMAIN C \ V)]
  BY DEF Applied, Exec, DeleteRows, Hit, Only
<1> QED
  BY <1>1, RanFacts

\* Lemma: and by their folders.
LEMMA RanDeleteConnsIn ==
  ASSUME NEW F, NEW C, NEW V
  PROVE  /\ Applied([f |-> F, c |-> C], DeleteRows("c", "folder", V)) =
              [f |-> F, c |-> Only(C, {x \in DOMAIN C : C[x].folder \notin V})]
         /\ Ran([f |-> F, c |-> C], DeleteRows("c", "folder", V)) # RolledBack =>
              /\ Ran([f |-> F, c |-> C], DeleteRows("c", "folder", V)) =
                   [f |-> F, c |-> Only(C, {x \in DOMAIN C : C[x].folder \notin V})]
              /\ Legal([f |-> F, c |-> Only(C, {x \in DOMAIN C : C[x].folder \notin V})])
<1>1. Applied([f |-> F, c |-> C], DeleteRows("c", "folder", V)) =
        [f |-> F, c |-> Only(C, {x \in DOMAIN C : C[x].folder \notin V})]
  BY DEF Applied, Exec, DeleteRows, Hit, Only
<1> QED
  BY <1>1, RanFacts

\* Lemma: folders deleted by their ids.
LEMMA RanDeleteFolders ==
  ASSUME NEW F, NEW C, NEW V
  PROVE  /\ Applied([f |-> F, c |-> C], DeleteRows("f", "id", V)) =
              [f |-> Only(F, DOMAIN F \ V), c |-> C]
         /\ Ran([f |-> F, c |-> C], DeleteRows("f", "id", V)) # RolledBack =>
              /\ Ran([f |-> F, c |-> C], DeleteRows("f", "id", V)) =
                   [f |-> Only(F, DOMAIN F \ V), c |-> C]
              /\ Legal([f |-> Only(F, DOMAIN F \ V), c |-> C])
<1>1. Applied([f |-> F, c |-> C], DeleteRows("f", "id", V)) =
        [f |-> Only(F, DOMAIN F \ V), c |-> C]
  BY DEF Applied, Exec, DeleteRows, Hit, Only
<1> QED
  BY <1>1, RanFacts

\* Lemma: connections updated by their ids.
LEMMA RanUpdateConns ==
  ASSUME NEW F, NEW C, NEW V, NEW set
  PROVE  /\ Applied([f |-> F, c |-> C], UpdateRows("c", "id", V, set)) =
              [f |-> F, c |-> Written(C, V, set)]
         /\ Ran([f |-> F, c |-> C], UpdateRows("c", "id", V, set)) # RolledBack =>
              /\ Ran([f |-> F, c |-> C], UpdateRows("c", "id", V, set)) =
                   [f |-> F, c |-> Written(C, V, set)]
              /\ Legal([f |-> F, c |-> Written(C, V, set)])
<1>1. Applied([f |-> F, c |-> C], UpdateRows("c", "id", V, set)) =
        [f |-> F, c |-> Written(C, V, set)]
  BY DEF Applied, Exec, UpdateRows, Hit, Written
<1> QED
  BY <1>1, RanFacts

\* Lemma: and by their folders.
LEMMA RanUpdateConnsIn ==
  ASSUME NEW F, NEW C, NEW V, NEW set
  PROVE  /\ Applied([f |-> F, c |-> C], UpdateRows("c", "folder", V, set)) =
              [f |-> F, c |-> Written(C, {x \in DOMAIN C : C[x].folder \in V}, set)]
         /\ Ran([f |-> F, c |-> C], UpdateRows("c", "folder", V, set)) # RolledBack =>
              /\ Ran([f |-> F, c |-> C], UpdateRows("c", "folder", V, set)) =
                   [f |-> F, c |-> Written(C, {x \in DOMAIN C : C[x].folder \in V}, set)]
              /\ Legal([f |-> F, c |-> Written(C, {x \in DOMAIN C : C[x].folder \in V}, set)])
<1>1. Applied([f |-> F, c |-> C], UpdateRows("c", "folder", V, set)) =
        [f |-> F, c |-> Written(C, {x \in DOMAIN C : C[x].folder \in V}, set)]
  BY DEF Applied, Exec, UpdateRows, Hit, Written
<1> QED
  BY <1>1, RanFacts

\* Lemma: folders updated by their ids.
LEMMA RanUpdateFolders ==
  ASSUME NEW F, NEW C, NEW V, NEW set
  PROVE  /\ Applied([f |-> F, c |-> C], UpdateRows("f", "id", V, set)) =
              [f |-> Written(F, V, set), c |-> C]
         /\ Ran([f |-> F, c |-> C], UpdateRows("f", "id", V, set)) # RolledBack =>
              /\ Ran([f |-> F, c |-> C], UpdateRows("f", "id", V, set)) =
                   [f |-> Written(F, V, set), c |-> C]
              /\ Legal([f |-> Written(F, V, set), c |-> C])
<1>1. Applied([f |-> F, c |-> C], UpdateRows("f", "id", V, set)) =
        [f |-> Written(F, V, set), c |-> C]
  BY DEF Applied, Exec, UpdateRows, Hit, Written
<1> QED
  BY <1>1, RanFacts

\* Lemma: and by their parents.
LEMMA RanUpdateFoldersIn ==
  ASSUME NEW F, NEW C, NEW V, NEW set
  PROVE  /\ Applied([f |-> F, c |-> C], UpdateRows("f", "parent", V, set)) =
              [f |-> Written(F, {x \in DOMAIN F : F[x].parent \in V}, set), c |-> C]
         /\ Ran([f |-> F, c |-> C], UpdateRows("f", "parent", V, set)) # RolledBack =>
              /\ Ran([f |-> F, c |-> C], UpdateRows("f", "parent", V, set)) =
                   [f |-> Written(F, {x \in DOMAIN F : F[x].parent \in V}, set), c |-> C]
              /\ Legal([f |-> Written(F, {x \in DOMAIN F : F[x].parent \in V}, set), c |-> C])
<1>1. Applied([f |-> F, c |-> C], UpdateRows("f", "parent", V, set)) =
        [f |-> Written(F, {x \in DOMAIN F : F[x].parent \in V}, set), c |-> C]
  BY DEF Applied, Exec, UpdateRows, Hit, Written
<1> QED
  BY <1>1, RanFacts

-----------------------------------------------------------------------------
(* The inductive invariant.                                                *)

\* What a browser may name, whether or not it is still there.
Place == Folder \cup {Root}
Query ==
  [op : {"createConnection"}, id : Conn, to : Place, auth : AuthType]
    \cup [op : {"updateConnection"}, id : Conn, patch : Patches]
    \cup [op : {"clearCredential", "deleteConnection"}, id : Conn]
    \cup [op : {"moveConnections"}, ids : SUBSET Conn, to : Place]
    \cup [op : {"createFolder"}, id : Folder, to : Place, name : Name]
    \cup [op : {"renameFolder"}, id : Folder, name : Name]
    \cup [op : {"moveFolder"}, id : Folder, to : Place]
    \cup [op : {"promoteFolder", "deleteFolder"}, id : Folder]
Ops == {"createConnection", "updateConnection", "clearCredential", "deleteConnection", "moveConnections",
        "createFolder", "renameFolder", "moveFolder", "promoteFolder", "deleteFolder"}

\* The tables: rows of the right kind, and the schema holds.
Typed(d) ==
  /\ d = [f |-> d.f, c |-> d.c]
  /\ d.f \in [DOMAIN d.f -> FolderRow] /\ DOMAIN d.f \subseteq Folder
  /\ d.c \in [DOMAIN d.c -> ConnRow] /\ DOMAIN d.c \subseteq Conn
  /\ Legal(d)

\* What a request read is a row as its operation keeps it.
RowTyped(q, row) ==
  CASE q.op \in {"updateConnection", "clearCredential"} -> row \in ConnRow
    [] q.op = "deleteConnection" -> row \in [folder : Place]
    [] q.op = "moveConnections" -> row \in [folders : [q.ids -> Place]]
    [] q.op \in {"moveFolder", "promoteFolder", "deleteFolder"} -> row \in [parent : Place, count : Int]
    [] OTHER -> row = [parent |-> Root]

\* A request is idle, or carries a query, the rows of its first read and, once
\* its queries are answered, a table of folders with their parents in it.
ReqTyped(r) ==
  \/ req[r] = Idle
  \/ /\ req[r] = [at |-> "measure", q |-> req[r].q, row |-> req[r].row, past |-> req[r].past]
     /\ req[r].q \in Query /\ RowTyped(req[r].q, req[r].row) /\ req[r].past \subseteq Ops
  \/ /\ req[r] = [at |-> "commit", q |-> req[r].q, row |-> req[r].row, seen |-> req[r].seen,
                  past |-> req[r].past]
     /\ req[r].q \in Query /\ RowTyped(req[r].q, req[r].row) /\ req[r].past \subseteq Ops
     /\ req[r].seen \in [DOMAIN req[r].seen -> FolderRow] /\ Rooted(req[r].seen)

\* The types of everything.
Types ==
  /\ Typed(db) /\ DOMAIN req = Request /\ begun \in 0 .. MaxRequests /\ raced \subseteq DOMAIN Races
  /\ \A r \in Request : ReqTyped(r)

\* The id of the row that a request in flight is about to insert.
Making(r) == Busy(r) /\ Creates(req[r].q)
Reserved == {req[r].q.id : r \in {x \in Request : Making(x)}}
Old == used \ Reserved
Fresh ==
  /\ Reserved \subseteq used
  /\ \A r, x \in Request : Making(r) /\ Making(x) /\ req[r].q.id = req[x].q.id => r = x
  /\ Folders \cup Conns \subseteq Old

\* The ids of rows that a request knows of.
Mentioned(q, row) ==
  CASE q.op = "createConnection" -> {q.to}
    [] q.op = "createFolder" -> {q.to}
    [] q.op \in {"updateConnection", "clearCredential", "renameFolder"} -> {q.id}
    [] q.op = "deleteConnection" -> {q.id, row.folder}
    [] q.op = "moveConnections" -> q.ids \cup {q.to} \cup {row.folders[c] : c \in q.ids}
    [] q.op = "moveFolder" -> {q.id, q.to, row.parent}
    [] q.op \in {"promoteFolder", "deleteFolder"} -> {q.id, row.parent}
Knows(r) == Busy(r) => Mentioned(req[r].q, req[r].row) \subseteq Old \cup {Root}

\* The requests that keep the parent of the folder they name.
OnFolder(q) == q.op \in {"moveFolder", "promoteFolder", "deleteFolder"}

\* The connections that a move changes, and one change for all folders above f.
Movers(q, row) == {c \in q.ids : row.folders[c] # q.to}
Evenly(t, f, n) == [g \in Above(t, f) |-> n]

\* The folders and the connections that a committed batch leaves.
FoldersAfter(F, t, q, row) ==
  CASE q.op = "createConnection" -> Counted(F, Evenly(t, q.to, 1))
    [] q.op \in {"updateConnection", "clearCredential"} -> F
    [] q.op = "deleteConnection" -> Counted(F, Evenly(t, row.folder, -1))
    [] q.op = "moveConnections" -> Counted(F, MoveDelta(t, row.folders, Movers(q, row), q.to))
    [] q.op = "createFolder" -> With(F, q.id, [parent |-> q.to, name |-> q.name, count |-> 0])
    [] q.op = "renameFolder" -> Written(F, {q.id}, [name |-> q.name])
    [] q.op = "moveFolder" ->
         IF q.to = row.parent THEN F
         ELSE Counted(Counted(Written(F, {q.id}, [parent |-> q.to]), Evenly(t, row.parent, -row.count)),
                      Evenly(t, q.to, row.count))
    [] q.op = "promoteFolder" ->
         Only(Written(F, {x \in DOMAIN F : F[x].parent \in {q.id}}, [parent |-> row.parent]), DOMAIN F \ {q.id})
    [] q.op = "deleteFolder" ->
         Counted(Only(F, DOMAIN F \ Below(t, q.id)), Evenly(t, row.parent, -row.count))

ConnsAfter(C, t, q, row) ==
  CASE q.op = "createConnection" -> With(C, q.id, NewConnection(q))
    [] q.op = "updateConnection" -> Written(C, {q.id}, Merged(row, q.patch))
    [] q.op = "clearCredential" ->
         Written(C, {q.id}, [auth |-> row.auth, secret |-> FALSE, pin |-> row.pin])
    [] q.op = "deleteConnection" -> Only(C, DOMAIN C \ {q.id})
    [] q.op = "moveConnections" -> Written(C, Movers(q, row), [folder |-> q.to])
    [] q.op = "promoteFolder" ->
         Written(C, {x \in DOMAIN C : C[x].folder \in {q.id}}, [folder |-> row.parent])
    [] q.op = "deleteFolder" -> Only(C, {x \in DOMAIN C : C[x].folder \notin Below(t, q.id)})
    [] OTHER -> C

\* The statements of deleteFolder: the connections, the folders from the deepest level up to the
\* first, the counters.
DeletePlan(t, q, row, top) ==
  LET S == Below(t, q.id)
      st == DeleteFolder(t, q, row)
  IN /\ top \in Nat /\ \A g \in S : Depth(t, g) \in 1 .. top
     /\ Len(st) = top + 2 /\ Len(st) \in Nat
     /\ st[1] = DeleteRows("c", "folder", S)
     /\ \A i \in 1 .. top : st[i + 1] = DeleteRows("f", "id", Deepest(t, S, top + 1 - i))
     /\ st[top + 2] = Bump(t, row.parent, -row.count)

\* Lemma: deleteFolder sends these statements.
LEMMA DeleteStatements ==
  ASSUME NEW t, Rooted(t), NEW q, NEW row
  PROVE  \E top : DeletePlan(t, q, row, top)
<1> DEFINE S == Below(t, q.id)
           D == {0} \cup {Depth(t, g) : g \in S}
           top == Max(D)
           L == DeleteDeepestFirst(t, S)
           B == Bump(t, row.parent, -row.count)
           st == <<DeleteRows("c", "folder", S)>> \o L \o <<B>>
<1>1. /\ D \subseteq Int /\ D # {} /\ Cardinality(DOMAIN t) \in Int
      /\ \A x \in D : x <= Cardinality(DOMAIN t)
  <2>1. IsFiniteSet(DOMAIN t) /\ \A g : Above(t, g) \in SUBSET DOMAIN t
    BY AboveClosed DEF Rooted
  <2>2. Cardinality(DOMAIN t) \in Nat
    BY <2>1, FS_CardinalityType
  <2>3. \A g : Depth(t, g) \in Nat
    BY DepthFacts
  <2>4. \A g : Depth(t, g) <= Cardinality(DOMAIN t)
    BY <2>1, FS_Subset DEF Depth
  <2> QED
    BY <2>2, <2>3, <2>4
<1>2. top \in D /\ \A x \in D : top >= x
  <2> HIDE DEF D
  <2> QED
    BY <1>1, MaxFacts
<1>3. top \in Nat /\ \A g \in S : Depth(t, g) \in 1 .. top
  <2>1. \A g \in S : g \in DOMAIN t /\ Depth(t, g) \in Nat
    BY DepthFacts DEF Below
  <2>2. \A g \in S : Depth(t, g) # 0
    <3> TAKE g \in S
    <3>1. g \in Above(t, g)
      BY <2>1, AboveClosed
    <3>2. IsFiniteSet(Above(t, g))
      BY DepthFacts
    <3> QED
      BY <3>1, <3>2, FS_EmptySet DEF Depth
  <2>3. \A g \in S : Depth(t, g) \in D
    OBVIOUS
  <2>4. 0 \in D
    OBVIOUS
  <2>5. top \in Int /\ top >= 0
    BY <1>1, <1>2, <2>4
  <2> HIDE DEF top, D, S
  <2> QED
    BY <1>2, <2>1, <2>2, <2>3, <2>5
<1>4. L = [i \in 1 .. top |-> DeleteRows("f", "id", Deepest(t, S, top + 1 - i))]
  BY DEF DeleteDeepestFirst
<1>5. DeleteFolder(t, q, row) = st
  BY DEF DeleteFolder
<1> HIDE DEF S, D, top, L, B
<1>6. /\ Len(st) = top + 2 /\ Len(st) \in Nat
      /\ st[1] = DeleteRows("c", "folder", S) /\ st[top + 2] = B
      /\ \A i \in 1 .. top : st[i + 1] = DeleteRows("f", "id", Deepest(t, S, top + 1 - i))
  <2> DEFINE M(i) == DeleteRows("f", "id", Deepest(t, S, top + 1 - i))
             a == DeleteRows("c", "folder", S)
             U == {a, B} \cup {M(i) : i \in 1 .. top}
  <2>1. L \in Seq(U) /\ Len(L) = top /\ <<a>> \in Seq(U) /\ <<B>> \in Seq(U)
    <3>1. L = [i \in 1 .. top |-> M(i)]
      BY <1>4
    <3>2. a \in U /\ B \in U /\ \A i \in 1 .. top : M(i) \in U
      OBVIOUS
    <3> HIDE DEF M, a, U
    <3> QED
      BY <1>3, <3>1, <3>2
  <2>2. \A i \in 1 .. top : L[i] = M(i)
    BY <1>4
  <2> HIDE DEF M, a, U
  <2>3. <<a>> \o L \in Seq(U) /\ Len(<<a>> \o L) = top + 1
    BY <1>3, <2>1
  <2>4. Len((<<a>> \o L) \o <<B>>) = top + 2
    BY <1>3, <2>1, <2>3
  <2>5. ((<<a>> \o L) \o <<B>>)[top + 2] = B
    BY <1>3, <2>1, <2>3
  <2>6. \A j \in 1 .. top + 1 : ((<<a>> \o L) \o <<B>>)[j] = (<<a>> \o L)[j]
    BY <1>3, <2>1, <2>3
  <2>7. (<<a>> \o L)[1] = a /\ \A i \in 1 .. top : (<<a>> \o L)[i + 1] = L[i]
    BY <1>3, <2>1
  <2>8. \A i \in 1 .. top : i + 1 \in 1 .. top + 1
    BY <1>3
  <2> QED
    BY <1>3, <2>2, <2>4, <2>5, <2>6, <2>7, <2>8 DEF M, a
<1>7. DeletePlan(t, q, row, top)
  <2> HIDE DEF st
  <2> QED
    BY <1>3, <1>5, <1>6 DEF DeletePlan, S, B
<1> QED
  BY <1>7

\* Lemma: deleteFolder's statements, taken together, delete the subtree.
LEMMA DeleteRuns ==
  ASSUME NEW F, F = [x \in DOMAIN F |-> F[x]], NEW C, NEW t, Rooted(t), NEW q, NEW row,
         Batch([f |-> F, c |-> C], DeleteFolder(t, q, row)) # RolledBack
  PROVE  LET d == [f |-> Counted(Only(F, DOMAIN F \ Below(t, q.id)), Evenly(t, row.parent, -row.count)),
                   c |-> Only(C, {x \in DOMAIN C : C[x].folder \notin Below(t, q.id)})]
         IN Batch([f |-> F, c |-> C], DeleteFolder(t, q, row)) = d /\ Legal(d)
<1> DEFINE S == Below(t, q.id)
           st == DeleteFolder(t, q, row)
           B == Bump(t, row.parent, -row.count)
           Cut == Only(C, {x \in DOMAIN C : C[x].folder \notin S})
           d0 == [f |-> F, c |-> C]
<1>1. PICK top : DeletePlan(t, q, row, top)
  BY DeleteStatements
<1> DEFINE Left(i) == [f |-> Only(F, DOMAIN F \ {g \in S : Depth(t, g) > top - i}), c |-> Cut]
<1>3. top \in Nat /\ \A g \in S : Depth(t, g) \in 1 .. top
  BY <1>1 DEF DeletePlan
<1>6. /\ Len(st) = top + 2 /\ Len(st) \in Nat
      /\ st[1] = DeleteRows("c", "folder", S) /\ st[top + 2] = B
      /\ \A i \in 1 .. top : st[i + 1] = DeleteRows("f", "id", Deepest(t, S, top + 1 - i))
  BY <1>1 DEF DeletePlan
<1> HIDE DEF S, B, st
<1>7. PICK run : RunOf(run, d0, st)
  BY <1>6, BatchSteps
<1> DEFINE Good == {i \in 0 .. top : run[i + 1] # RolledBack => run[i + 1] = Left(i)}
<1>8. 0 \in Good
  <2>1. run[1] = Ran(d0, st[1])
    BY <1>3, <1>6, <1>7 DEF RunOf
  <2>2. Applied(d0, st[1]) = [f |-> F, c |-> Cut]
    BY <1>6, RanDeleteConnsIn
  <2>3. {g \in S : Depth(t, g) > top - 0} = {}
    BY <1>3
  <2>4. Left(0) = [f |-> F, c |-> Cut]
    BY <2>3 DEF Only
  <2> QED
    BY <1>3, <2>1, <2>2, <2>4, RanFacts
<1>9. ASSUME NEW i \in 1 .. top, i - 1 \in Good PROVE i \in Good
  <2>1. SUFFICES ASSUME run[i + 1] # RolledBack PROVE run[i + 1] = Left(i)
    BY <1>3
  <2>2. run[i + 1] = Ran(run[i], st[i + 1])
    <3>1. i + 1 \in 1 .. Len(st) /\ (i + 1) - 1 = i
      BY <1>3, <1>6
    <3> QED
      BY <1>7, <3>1 DEF RunOf
  <2>3. run[i] # RolledBack /\ run[i + 1] = Applied(run[i], st[i + 1])
    BY <2>1, <2>2, RanFacts
  <2>4. run[i] = Left(i - 1)
    <3>1. (i - 1) + 1 = i
      BY <1>3
    <3> QED
      BY <1>9, <2>3, <3>1
  <2> DEFINE low == Only(F, DOMAIN F \ {g \in S : Depth(t, g) > top - (i - 1)})
  <2>5. run[i + 1] = [f |-> Only(low, DOMAIN low \ Deepest(t, S, top + 1 - i)), c |-> Cut]
    <3>1. st[i + 1] = DeleteRows("f", "id", Deepest(t, S, top + 1 - i))
      BY <1>6
    <3>2. run[i] = [f |-> low, c |-> Cut]
      BY <2>4
    <3> HIDE DEF low
    <3>3. Applied([f |-> low, c |-> Cut], DeleteRows("f", "id", Deepest(t, S, top + 1 - i))) =
            [f |-> Only(low, DOMAIN low \ Deepest(t, S, top + 1 - i)), c |-> Cut]
      BY RanDeleteFolders, Zenon
    <3> QED
      BY <2>3, <3>1, <3>2, <3>3
  <2>6. {g \in S : Depth(t, g) > top - i} = {g \in S : Depth(t, g) > top - (i - 1)} \cup Deepest(t, S, top + 1 - i)
    BY <1>3 DEF Deepest
  <2>7. Only(low, DOMAIN low \ Deepest(t, S, top + 1 - i)) = Only(F, DOMAIN F \ {g \in S : Depth(t, g) > top - i})
    BY <2>6 DEF Only
  <2> QED
    BY <2>5, <2>7
<1>10. top \in Good
  <2> HIDE DEF Good
  <2> QED
    BY <1>3, <1>8, <1>9, Upwards
<1>11. run[top + 2] = Ran(run[top + 1], B) /\ Batch(d0, st) = run[top + 2]
  <2>1. top + 2 \in 1 .. Len(st) /\ (top + 2) - 1 = top + 1
    BY <1>3, <1>6
  <2> QED
    BY <1>6, <1>7, <2>1 DEF RunOf
<1>12. /\ run[top + 1] # RolledBack /\ run[top + 2] = Applied(run[top + 1], B)
       /\ Legal(Applied(run[top + 1], B))
  BY <1>11, RanFacts DEF st
<1>13. run[top + 1] = [f |-> Only(F, DOMAIN F \ S), c |-> Cut]
  <2>1. {g \in S : Depth(t, g) > top - top} = S
    BY <1>3
  <2> QED
    BY <1>10, <1>12, <2>1
<1>14. Applied(run[top + 1], B) = [f |-> Counted(Only(F, DOMAIN F \ S), Evenly(t, row.parent, -row.count)), c |-> Cut]
  BY <1>13, RanCount DEF B, Bump, Evenly
<1> QED
  BY <1>11, <1>12, <1>14 DEF S, st

\* Lemma: the other operations' statements, taken together.
LEMMA Effect ==
  ASSUME NEW F, F = [x \in DOMAIN F |-> F[x]], NEW C, NEW t, Rooted(t), NEW q \in Query, NEW row,
         Batch([f |-> F, c |-> C], Statements(t, q, row)) # RolledBack
  PROVE  LET d == [f |-> FoldersAfter(F, t, q, row), c |-> ConnsAfter(C, t, q, row)]
         IN Batch([f |-> F, c |-> C], Statements(t, q, row)) = d /\ (Legal([f |-> F, c |-> C]) => Legal(d))
<1> DEFINE d0 == [f |-> F, c |-> C]
           Claim == /\ Batch(d0, Statements(t, q, row)) =
                         [f |-> FoldersAfter(F, t, q, row), c |-> ConnsAfter(C, t, q, row)]
                    /\ Legal(d0) => Legal([f |-> FoldersAfter(F, t, q, row), c |-> ConnsAfter(C, t, q, row)])
<1>1. CASE q.op = "createConnection"
  <2>1. Statements(t, q, row) = <<InsertRow("c", q.id, NewConnection(q)), AddCounts(Evenly(t, q.to, 1))>>
    BY <1>1 DEF Statements, CreateConnection, Bump, Evenly
  <2>2. Batch(d0, Statements(t, q, row)) = Ran(Ran(d0, InsertRow("c", q.id, NewConnection(q))), AddCounts(Evenly(t, q.to, 1)))
    BY <2>1, BatchOfTwo
  <2>3. Ran(d0, InsertRow("c", q.id, NewConnection(q))) = [f |-> F, c |-> With(C, q.id, NewConnection(q))]
    BY <2>2, RanFacts, RanInsertConn
  <2>4. /\ Batch(d0, Statements(t, q, row)) = [f |-> Counted(F, Evenly(t, q.to, 1)), c |-> With(C, q.id, NewConnection(q))]
        /\ Legal([f |-> Counted(F, Evenly(t, q.to, 1)), c |-> With(C, q.id, NewConnection(q))])
    BY <2>2, <2>3, RanCount
  <2>5. FoldersAfter(F, t, q, row) = Counted(F, Evenly(t, q.to, 1)) /\ ConnsAfter(C, t, q, row) = With(C, q.id, NewConnection(q))
    BY <1>1 DEF FoldersAfter, ConnsAfter
  <2> QED
    BY <2>4, <2>5
<1>2. CASE q.op = "updateConnection"
  <2>1. Statements(t, q, row) = <<UpdateRows("c", "id", {q.id}, Merged(row, q.patch))>>
    BY <1>2 DEF Statements, UpdateConnection
  <2>2. /\ Batch(d0, Statements(t, q, row)) = [f |-> F, c |-> Written(C, {q.id}, Merged(row, q.patch))]
        /\ Legal([f |-> F, c |-> Written(C, {q.id}, Merged(row, q.patch))])
    BY <2>1, BatchOfOne, RanUpdateConns
  <2>3. FoldersAfter(F, t, q, row) = F /\ ConnsAfter(C, t, q, row) = Written(C, {q.id}, Merged(row, q.patch))
    BY <1>2 DEF FoldersAfter, ConnsAfter
  <2> QED
    BY <2>2, <2>3
<1>3. CASE q.op = "clearCredential"
  <2> DEFINE cleared == [auth |-> row.auth, secret |-> FALSE, pin |-> row.pin]
  <2>1. Statements(t, q, row) = <<UpdateRows("c", "id", {q.id}, cleared)>>
    BY <1>3 DEF Statements, ClearCredential
  <2>2. /\ Batch(d0, Statements(t, q, row)) = [f |-> F, c |-> Written(C, {q.id}, cleared)]
        /\ Legal([f |-> F, c |-> Written(C, {q.id}, cleared)])
    BY <2>1, BatchOfOne, RanUpdateConns
  <2>3. FoldersAfter(F, t, q, row) = F /\ ConnsAfter(C, t, q, row) = Written(C, {q.id}, cleared)
    BY <1>3 DEF FoldersAfter, ConnsAfter
  <2> QED
    BY <2>2, <2>3
<1>4. CASE q.op = "deleteConnection"
  <2> DEFINE D == Evenly(t, row.folder, -1)
             C1 == Only(C, DOMAIN C \ {q.id})
  <2>1. Statements(t, q, row) = <<DeleteRows("c", "id", {q.id}), AddCounts(D)>>
    BY <1>4 DEF Statements, DeleteConnection, Bump, Evenly
  <2>2. Batch(d0, Statements(t, q, row)) = Ran(Ran(d0, DeleteRows("c", "id", {q.id})), AddCounts(D))
    BY <2>1, BatchOfTwo
  <2>3. Ran(d0, DeleteRows("c", "id", {q.id})) = [f |-> F, c |-> C1]
    BY <2>2, RanFacts, RanDeleteConns
  <2>4. Batch(d0, Statements(t, q, row)) = [f |-> Counted(F, D), c |-> C1] /\ Legal([f |-> Counted(F, D), c |-> C1])
    BY <2>2, <2>3, RanCount
  <2>5. FoldersAfter(F, t, q, row) = Counted(F, D) /\ ConnsAfter(C, t, q, row) = C1
    BY <1>4 DEF FoldersAfter, ConnsAfter
  <2> QED
    BY <2>4, <2>5
<1>5. CASE q.op = "moveConnections"
  <2> DEFINE M == Movers(q, row)
             D == MoveDelta(t, row.folders, M, q.to)
             C1 == Written(C, M, [folder |-> q.to])
  <2>1. Statements(t, q, row) = <<UpdateRows("c", "id", M, [folder |-> q.to]), AddCounts(D)>>
    BY <1>5 DEF Statements, MoveConnections, Movers
  <2>2. Batch(d0, Statements(t, q, row)) = Ran(Ran(d0, UpdateRows("c", "id", M, [folder |-> q.to])), AddCounts(D))
    BY <2>1, BatchOfTwo
  <2>3. Ran(d0, UpdateRows("c", "id", M, [folder |-> q.to])) = [f |-> F, c |-> C1]
    BY <2>2, RanFacts, RanUpdateConns
  <2>4. Batch(d0, Statements(t, q, row)) = [f |-> Counted(F, D), c |-> C1] /\ Legal([f |-> Counted(F, D), c |-> C1])
    BY <2>2, <2>3, RanCount
  <2>5. FoldersAfter(F, t, q, row) = Counted(F, D) /\ ConnsAfter(C, t, q, row) = C1
    BY <1>5 DEF FoldersAfter, ConnsAfter
  <2> QED
    BY <2>4, <2>5
<1>6. CASE q.op = "createFolder"
  <2> DEFINE new == [parent |-> q.to, name |-> q.name, count |-> 0]
  <2>1. Statements(t, q, row) = <<InsertRow("f", q.id, new)>>
    BY <1>6 DEF Statements, CreateFolder
  <2>2. /\ Batch(d0, Statements(t, q, row)) = [f |-> With(F, q.id, new), c |-> C]
        /\ Legal([f |-> With(F, q.id, new), c |-> C])
    BY <2>1, BatchOfOne, RanInsertFolder
  <2>3. FoldersAfter(F, t, q, row) = With(F, q.id, new) /\ ConnsAfter(C, t, q, row) = C
    BY <1>6 DEF FoldersAfter, ConnsAfter
  <2> QED
    BY <2>2, <2>3
<1>7. CASE q.op = "renameFolder"
  <2>1. Statements(t, q, row) = <<UpdateRows("f", "id", {q.id}, [name |-> q.name])>>
    BY <1>7 DEF Statements, RenameFolder
  <2>2. /\ Batch(d0, Statements(t, q, row)) = [f |-> Written(F, {q.id}, [name |-> q.name]), c |-> C]
        /\ Legal([f |-> Written(F, {q.id}, [name |-> q.name]), c |-> C])
    BY <2>1, BatchOfOne, RanUpdateFolders
  <2>3. FoldersAfter(F, t, q, row) = Written(F, {q.id}, [name |-> q.name]) /\ ConnsAfter(C, t, q, row) = C
    BY <1>7 DEF FoldersAfter, ConnsAfter
  <2> QED
    BY <2>2, <2>3
<1>8. CASE q.op = "moveFolder" /\ q.to = row.parent
  <2>1. Statements(t, q, row) = <<>>
    BY <1>8 DEF Statements, MoveFolder
  <2>2. Batch(d0, Statements(t, q, row)) = d0
    BY <2>1, BatchOfNone
  <2>3. FoldersAfter(F, t, q, row) = F /\ ConnsAfter(C, t, q, row) = C
    BY <1>8 DEF FoldersAfter, ConnsAfter
  <2> QED
    BY <2>2, <2>3
<1>9. CASE q.op = "moveFolder" /\ q.to # row.parent
  <2> DEFINE up == UpdateRows("f", "id", {q.id}, [parent |-> q.to])
             D1 == Evenly(t, row.parent, -row.count)
             D2 == Evenly(t, q.to, row.count)
             F1 == Written(F, {q.id}, [parent |-> q.to])
  <2>1. Statements(t, q, row) = <<up, AddCounts(D1), AddCounts(D2)>>
    BY <1>9 DEF Statements, MoveFolder, Bump, Evenly
  <2>2. Batch(d0, Statements(t, q, row)) = Ran(Ran(Ran(d0, up), AddCounts(D1)), AddCounts(D2))
    BY <2>1, BatchOfThree
  <2>3. Ran(Ran(d0, up), AddCounts(D1)) # RolledBack /\ Ran(d0, up) # RolledBack
    BY <2>2, RanFacts
  <2>4. Ran(d0, up) = [f |-> F1, c |-> C]
    BY <2>3, RanUpdateFolders
  <2>5. Ran(Ran(d0, up), AddCounts(D1)) = [f |-> Counted(F1, D1), c |-> C]
    BY <2>3, <2>4, RanCount
  <2>6. /\ Batch(d0, Statements(t, q, row)) = [f |-> Counted(Counted(F1, D1), D2), c |-> C]
        /\ Legal([f |-> Counted(Counted(F1, D1), D2), c |-> C])
    BY <2>2, <2>5, RanCount
  <2>7. FoldersAfter(F, t, q, row) = Counted(Counted(F1, D1), D2) /\ ConnsAfter(C, t, q, row) = C
    BY <1>9 DEF FoldersAfter, ConnsAfter
  <2> QED
    BY <2>6, <2>7
<1>10. CASE q.op = "promoteFolder"
  <2> DEFINE s1 == UpdateRows("c", "folder", {q.id}, [folder |-> row.parent])
             s2 == UpdateRows("f", "parent", {q.id}, [parent |-> row.parent])
             s3 == DeleteRows("f", "id", {q.id})
             C1 == Written(C, {x \in DOMAIN C : C[x].folder \in {q.id}}, [folder |-> row.parent])
             F1 == Written(F, {x \in DOMAIN F : F[x].parent \in {q.id}}, [parent |-> row.parent])
  <2>1. Statements(t, q, row) = <<s1, s2, s3>>
    BY <1>10 DEF Statements, PromoteFolder
  <2>2. Batch(d0, Statements(t, q, row)) = Ran(Ran(Ran(d0, s1), s2), s3)
    BY <2>1, BatchOfThree
  <2>3. Ran(Ran(d0, s1), s2) # RolledBack /\ Ran(d0, s1) # RolledBack
    BY <2>2, RanFacts
  <2>4. Ran(d0, s1) = [f |-> F, c |-> C1]
    BY <2>3, RanUpdateConnsIn
  <2>5. Ran(Ran(d0, s1), s2) = [f |-> F1, c |-> C1]
    BY <2>3, <2>4, RanUpdateFoldersIn
  <2>6. /\ Batch(d0, Statements(t, q, row)) = [f |-> Only(F1, DOMAIN F1 \ {q.id}), c |-> C1]
        /\ Legal([f |-> Only(F1, DOMAIN F1 \ {q.id}), c |-> C1])
    BY <2>2, <2>5, RanDeleteFolders
  <2>7. DOMAIN F1 = DOMAIN F
    BY DEF Written
  <2>8. FoldersAfter(F, t, q, row) = Only(F1, DOMAIN F \ {q.id}) /\ ConnsAfter(C, t, q, row) = C1
    BY <1>10 DEF FoldersAfter, ConnsAfter
  <2> QED
    BY <2>6, <2>7, <2>8
<1>11. CASE q.op = "deleteFolder"
  <2>1. Statements(t, q, row) = DeleteFolder(t, q, row)
    BY <1>11 DEF Statements
  <2> DEFINE F1 == Counted(Only(F, DOMAIN F \ Below(t, q.id)), Evenly(t, row.parent, -row.count))
             C1 == Only(C, {x \in DOMAIN C : C[x].folder \notin Below(t, q.id)})
  <2>2. Batch(d0, Statements(t, q, row)) = [f |-> F1, c |-> C1] /\ Legal([f |-> F1, c |-> C1])
    BY <2>1, DeleteRuns
  <2>3. FoldersAfter(F, t, q, row) = F1 /\ ConnsAfter(C, t, q, row) = C1
    BY <1>11 DEF FoldersAfter, ConnsAfter
  <2> QED
    BY <2>2, <2>3
<1>12. q.op \in Ops
  BY DEF Query, Ops
<1> QED
  BY <1>1, <1>2, <1>3, <1>4, <1>5, <1>6, <1>7, <1>8, <1>9, <1>10, <1>11, <1>12 DEF Ops

\* Lemma: what a statement does to the fields of a folder.
LEMMA CountedRows ==
  ASSUME NEW F, F \in [DOMAIN F -> FolderRow], NEW D, \A f \in DOMAIN D : D[f] \in Int
  PROVE  /\ Counted(F, D) \in [DOMAIN F -> FolderRow]
         /\ \A f \in DOMAIN F :
              /\ Counted(F, D)[f].parent = F[f].parent /\ Counted(F, D)[f].name = F[f].name
              /\ Counted(F, D)[f].count = F[f].count + (IF f \in DOMAIN D THEN D[f] ELSE 0)
<1> SUFFICES ASSUME NEW f \in DOMAIN F
             PROVE  /\ Counted(F, D)[f] \in FolderRow
                    /\ Counted(F, D)[f].parent = F[f].parent /\ Counted(F, D)[f].name = F[f].name
                    /\ Counted(F, D)[f].count = F[f].count + (IF f \in DOMAIN D THEN D[f] ELSE 0)
  BY DEF Counted
<1>1. F[f] \in FolderRow
  OBVIOUS
<1>2. CASE f \in DOMAIN D
  <2>1. Counted(F, D)[f] = [F[f] EXCEPT !.count = @ + D[f]] /\ D[f] \in Int
    BY <1>2 DEF Counted
  <2> QED
    BY <1>1, <1>2, <2>1 DEF FolderRow
<1>3. CASE f \notin DOMAIN D
  <2>1. Counted(F, D)[f] = F[f]
    BY <1>3 DEF Counted
  <2> QED
    BY <1>1, <1>3, <2>1 DEF FolderRow
<1> QED
  BY <1>2, <1>3

\* Lemma: what a new parent does to them.
LEMMA ReparentedRows ==
  ASSUME NEW F, F \in [DOMAIN F -> FolderRow], NEW S, NEW p \in Place
  PROVE  LET W == Written(F, S, [parent |-> p]) IN
         /\ W \in [DOMAIN F -> FolderRow]
         /\ \A f \in DOMAIN F :
              /\ W[f].parent = (IF f \in S THEN p ELSE F[f].parent) /\ W[f].name = F[f].name
              /\ W[f].count = F[f].count
<1> DEFINE W == Written(F, S, [parent |-> p])
<1> SUFFICES ASSUME NEW f \in DOMAIN F
             PROVE  /\ W[f] \in FolderRow
                    /\ W[f].parent = (IF f \in S THEN p ELSE F[f].parent) /\ W[f].name = F[f].name
                    /\ W[f].count = F[f].count
  BY DEF Written
<1>1. F[f] \in FolderRow
  OBVIOUS
<1>2. CASE f \in S
  <2>1. W[f] = Overwritten(F[f], [parent |-> p])
    BY <1>2 DEF Written
  <2>2. W[f] = [parent |-> p, name |-> F[f].name, count |-> F[f].count]
    BY <1>1, <2>1 DEF Overwritten, FolderRow
  <2> QED
    BY <1>1, <1>2, <2>2 DEF FolderRow, Place
<1>3. CASE f \notin S
  BY <1>1, <1>3 DEF Written
<1> QED
  BY <1>2, <1>3

\* Lemma: and a new name.
LEMMA RenamedRows ==
  ASSUME NEW F, F \in [DOMAIN F -> FolderRow], NEW S, NEW n \in Name
  PROVE  LET W == Written(F, S, [name |-> n]) IN
         /\ W \in [DOMAIN F -> FolderRow]
         /\ \A f \in DOMAIN F :
              /\ W[f].parent = F[f].parent /\ W[f].name = (IF f \in S THEN n ELSE F[f].name)
              /\ W[f].count = F[f].count
<1> DEFINE W == Written(F, S, [name |-> n])
<1> SUFFICES ASSUME NEW f \in DOMAIN F
             PROVE  /\ W[f] \in FolderRow
                    /\ W[f].parent = F[f].parent /\ W[f].name = (IF f \in S THEN n ELSE F[f].name)
                    /\ W[f].count = F[f].count
  BY DEF Written
<1>1. F[f] \in FolderRow
  OBVIOUS
<1>2. CASE f \in S
  <2>1. W[f] = Overwritten(F[f], [name |-> n])
    BY <1>2 DEF Written
  <2>2. W[f] = [parent |-> F[f].parent, name |-> n, count |-> F[f].count]
    BY <1>1, <2>1 DEF Overwritten, FolderRow
  <2> QED
    BY <1>1, <1>2, <2>2 DEF FolderRow
<1>3. CASE f \notin S
  BY <1>1, <1>3 DEF Written
<1> QED
  BY <1>2, <1>3

\* Lemma: and to those of a connection.
LEMMA PlacedRows ==
  ASSUME NEW C, C \in [DOMAIN C -> ConnRow], NEW S, NEW p \in Place
  PROVE  LET W == Written(C, S, [folder |-> p]) IN
         /\ W \in [DOMAIN C -> ConnRow]
         /\ \A c \in DOMAIN C : W[c] = IF c \in S THEN [C[c] EXCEPT !.folder = p] ELSE C[c]
<1> DEFINE W == Written(C, S, [folder |-> p])
<1> SUFFICES ASSUME NEW c \in DOMAIN C
             PROVE  /\ W[c] \in ConnRow
                    /\ W[c] = IF c \in S THEN [C[c] EXCEPT !.folder = p] ELSE C[c]
  BY DEF Written
<1>1. C[c] \in ConnRow
  OBVIOUS
<1>2. CASE c \in S
  <2>1. W[c] = Overwritten(C[c], [folder |-> p])
    BY <1>2 DEF Written
  <2>2. W[c] = [C[c] EXCEPT !.folder = p]
    BY <1>1, <2>1 DEF Overwritten, ConnRow
  <2> QED
    BY <1>1, <1>2, <2>2 DEF ConnRow, Place
<1>3. CASE c \notin S
  BY <1>1, <1>3 DEF Written
<1> QED
  BY <1>2, <1>3

\* Lemma: a new payload of connections.
LEMMA EditedRows ==
  ASSUME NEW C, C \in [DOMAIN C -> ConnRow], NEW S,
         NEW a \in AuthType, NEW b \in BOOLEAN, NEW p \in BOOLEAN
  PROVE  LET W == Written(C, S, [auth |-> a, secret |-> b, pin |-> p]) IN
         /\ W \in [DOMAIN C -> ConnRow]
         /\ \A c \in DOMAIN C :
              W[c] = IF c \in S THEN [folder |-> C[c].folder, auth |-> a, secret |-> b, pin |-> p] ELSE C[c]
<1> DEFINE W == Written(C, S, [auth |-> a, secret |-> b, pin |-> p])
<1> SUFFICES ASSUME NEW c \in DOMAIN C
             PROVE  /\ W[c] \in ConnRow
                    /\ W[c] = IF c \in S THEN [folder |-> C[c].folder, auth |-> a, secret |-> b, pin |-> p]
                              ELSE C[c]
  BY DEF Written
<1>1. C[c] \in ConnRow
  OBVIOUS
<1>2. CASE c \in S
  <2>1. W[c] = Overwritten(C[c], [auth |-> a, secret |-> b, pin |-> p])
    BY <1>2 DEF Written
  <2>2. W[c] = [folder |-> C[c].folder, auth |-> a, secret |-> b, pin |-> p]
    BY <1>1, <2>1 DEF Overwritten, ConnRow
  <2> QED
    BY <1>1, <1>2, <2>2 DEF ConnRow
<1>3. CASE c \notin S
  BY <1>1, <1>3 DEF Written
<1> QED
  BY <1>2, <1>3

\* Lemma: the patches there are.
LEMMA PatchCases ==
  ASSUME NEW p \in Patches
  PROVE  \/ p.auth = "keep" /\ p.secret = FALSE /\ p.pin \in {"keep", "set", "reset"}
         \/ p.auth \in AuthType /\ p.secret = TRUE /\ p.pin = "keep"
<1>1. \/ \E x \in {"keep", "set", "reset"} : p = Patch("keep", FALSE, x)
      \/ \E a \in AuthType : p = Patch(a, TRUE, "keep")
  BY DEF Patches
<1>2. CASE \E x \in {"keep", "set", "reset"} : p = Patch("keep", FALSE, x)
  BY <1>2 DEF Patch
<1>3. CASE \E a \in AuthType : p = Patch(a, TRUE, "keep")
  BY <1>3 DEF Patch
<1> QED
  BY <1>1, <1>2, <1>3

\* Lemma: a patched payload is a payload.
LEMMA MergedFields ==
  ASSUME NEW row \in ConnRow, NEW p \in Patches
  PROVE  /\ Merged(row, p) = [auth |-> Merged(row, p).auth, secret |-> Merged(row, p).secret,
                              pin |-> Merged(row, p).pin]
         /\ Merged(row, p).auth = (IF p.auth = "keep" THEN row.auth ELSE p.auth)
         /\ Merged(row, p).secret = (p.secret \/ (row.secret /\ Merged(row, p).auth = row.auth))
         /\ Merged(row, p).pin = (p.pin = "set" \/ (p.pin = "keep" /\ row.pin))
         /\ Merged(row, p).auth \in AuthType /\ Merged(row, p).secret \in BOOLEAN
         /\ Merged(row, p).pin \in BOOLEAN
         /\ p.secret \in BOOLEAN
<1>1. /\ p.auth \in AuthType \cup {"keep"} /\ p.secret \in BOOLEAN /\ p.pin \in {"keep", "set", "reset"}
  BY PatchCases
<1>2. row.auth \in AuthType /\ row.secret \in BOOLEAN /\ row.pin \in BOOLEAN
  BY DEF ConnRow
<1> QED
  BY <1>1, <1>2 DEF Merged

\* Lemma: the sums that moveConnections adds are numbers.
LEMMA MoveDeltaInt ==
  ASSUME NEW t, NEW from, NEW movers, movers \subseteq Conn, NEW to
  PROVE  \A g \in DOMAIN MoveDelta(t, from, movers, to) : MoveDelta(t, from, movers, to)[g] \in Int
<1>1. IsFiniteSet(movers)
  BY StoreAssumption, FS_Subset
<1>2. \A A : IsFiniteSet(A) => Cardinality(A) \in Nat
  BY FS_CardinalityType
<1>3. \A g : /\ Cardinality({c \in movers : g \in Above(t, to)}) \in Nat
              /\ Cardinality({c \in movers : g \in Above(t, from[c])}) \in Nat
  <2> TAKE g
  <2>1. {c \in movers : g \in Above(t, to)} \in SUBSET movers /\ {c \in movers : g \in Above(t, from[c])} \in SUBSET movers
    OBVIOUS
  <2>2. IsFiniteSet({c \in movers : g \in Above(t, to)}) /\ IsFiniteSet({c \in movers : g \in Above(t, from[c])})
    BY <1>1, <2>1, FS_Subset
  <2> QED
    BY <1>2, <2>2
<1>4. \A i, j \in Nat : i - j \in Int
  OBVIOUS
<1> QED
  BY <1>3, <1>4 DEF MoveDelta

\* The folders u, F before the batch.
FolderChange(F, u, t, q, row) ==
  /\ u \in [DOMAIN u -> FolderRow]
  /\ q.op \notin {"createFolder", "moveFolder", "promoteFolder", "deleteFolder"} =>
       DOMAIN u = DOMAIN F /\ \A f \in DOMAIN F : u[f].parent = F[f].parent
  /\ q.op \notin {"createFolder", "renameFolder"} => \A f \in DOMAIN u : u[f].name = F[f].name
  /\ q.op = "createFolder" =>
       /\ DOMAIN u = DOMAIN F \cup {q.id}
       /\ u[q.id] = [parent |-> q.to, name |-> q.name, count |-> 0]
       /\ \A f \in DOMAIN F : f # q.id => u[f] = F[f]
  /\ q.op = "renameFolder" =>
       \A f \in DOMAIN F : u[f].name = (IF f = q.id THEN q.name ELSE F[f].name) /\ u[f].count = F[f].count
  /\ q.op = "moveFolder" =>
       /\ DOMAIN u = DOMAIN F
       /\ \A f \in DOMAIN F : u[f].parent = IF f = q.id /\ q.to # row.parent THEN q.to ELSE F[f].parent
  /\ q.op = "promoteFolder" =>
       /\ DOMAIN u = DOMAIN F \ {q.id}
       /\ \A f \in DOMAIN u : /\ u[f].parent = IF F[f].parent = q.id THEN row.parent ELSE F[f].parent
                             /\ u[f].count = F[f].count
  /\ q.op = "deleteFolder" =>
       /\ DOMAIN u = DOMAIN F \ Below(t, q.id)
       /\ \A f \in DOMAIN u : u[f].parent = F[f].parent

\* Lemma: which folders a batch leaves, and where.
LEMMA FoldersStep ==
  ASSUME NEW F, F \in [DOMAIN F -> FolderRow], NEW t, NEW q \in Query, NEW row, RowTyped(q, row),
         NEW u, u = FoldersAfter(F, t, q, row)
  PROVE  FolderChange(F, u, t, q, row)
<1> USE DEF FolderChange
<1>0. \A f \in DOMAIN F : F[f] \in FolderRow
  OBVIOUS
<1>1. CASE q.op = "createConnection"
  <2>1. u = Counted(F, Evenly(t, q.to, 1))
    BY <1>1 DEF FoldersAfter
  <2>2. \A f \in DOMAIN Evenly(t, q.to, 1) : Evenly(t, q.to, 1)[f] \in Int
    BY DEF Evenly
  <2>3. DOMAIN u = DOMAIN F
    BY <2>1 DEF Counted
  <2> QED
    BY <1>1, <2>1, <2>2, <2>3, CountedRows
<1>2. CASE q.op \in {"updateConnection", "clearCredential"}
  BY <1>2 DEF FoldersAfter
<1>3. CASE q.op = "deleteConnection"
  <2>1. u = Counted(F, Evenly(t, row.folder, -1))
    BY <1>3 DEF FoldersAfter
  <2>2. \A f \in DOMAIN Evenly(t, row.folder, -1) : Evenly(t, row.folder, -1)[f] \in Int
    BY DEF Evenly
  <2>3. DOMAIN u = DOMAIN F
    BY <2>1 DEF Counted
  <2> QED
    BY <1>3, <2>1, <2>2, <2>3, CountedRows
<1>4. CASE q.op = "moveConnections"
  <2> DEFINE D == MoveDelta(t, row.folders, Movers(q, row), q.to)
  <2>1. u = Counted(F, D)
    BY <1>4 DEF FoldersAfter
  <2>2. Movers(q, row) \subseteq Conn
    BY <1>4 DEF Query, Movers
  <2>3. \A f \in DOMAIN D : D[f] \in Int
    BY <2>2, MoveDeltaInt
  <2>4. DOMAIN u = DOMAIN F
    BY <2>1 DEF Counted
  <2> HIDE DEF D
  <2> QED
    BY <1>4, <2>1, <2>3, <2>4, CountedRows
<1>5. CASE q.op = "createFolder"
  <2>1. u = With(F, q.id, [parent |-> q.to, name |-> q.name, count |-> 0])
    BY <1>5 DEF FoldersAfter
  <2>2. [parent |-> q.to, name |-> q.name, count |-> 0] \in FolderRow
    BY <1>5 DEF Query, FolderRow, Place
  <2> QED
    BY <1>5, <2>1, <2>2 DEF With
<1>6. CASE q.op = "renameFolder"
  <2>1. u = Written(F, {q.id}, [name |-> q.name]) /\ q.name \in Name
    BY <1>6 DEF FoldersAfter, Query
  <2>2. DOMAIN u = DOMAIN F
    BY <2>1 DEF Written
  <2> QED
    BY <1>6, <2>1, <2>2, RenamedRows
<1>7. CASE q.op = "moveFolder" /\ q.to = row.parent
  BY <1>7 DEF FoldersAfter
<1>8. CASE q.op = "moveFolder" /\ q.to # row.parent
  <2> DEFINE W == Written(F, {q.id}, [parent |-> q.to])
             D1 == Evenly(t, row.parent, -row.count)
             D2 == Evenly(t, q.to, row.count)
  <2>1. u = Counted(Counted(W, D1), D2)
    BY <1>8 DEF FoldersAfter
  <2>2. q.to \in Place /\ row.count \in Int
    BY <1>8 DEF Query, RowTyped
  <2>3. (\A f \in DOMAIN D1 : D1[f] \in Int) /\ (\A f \in DOMAIN D2 : D2[f] \in Int)
    BY <2>2 DEF Evenly
  <2>4. DOMAIN W = DOMAIN F /\ DOMAIN Counted(W, D1) = DOMAIN F /\ DOMAIN u = DOMAIN F
    BY <2>1 DEF Written, Counted
  <2> HIDE DEF D1, D2
  <2>5. W \in [DOMAIN F -> FolderRow] /\ \A f \in DOMAIN F : W[f].parent = (IF f = q.id THEN q.to ELSE F[f].parent) /\ W[f].name = F[f].name
    BY <2>2, ReparentedRows
  <2> HIDE DEF W
  <2>6. /\ Counted(W, D1) \in [DOMAIN F -> FolderRow]
        /\ \A f \in DOMAIN F : Counted(W, D1)[f].parent = W[f].parent /\ Counted(W, D1)[f].name = W[f].name
    BY <2>3, <2>4, <2>5, CountedRows
  <2>7. /\ u \in [DOMAIN F -> FolderRow]
        /\ \A f \in DOMAIN F : u[f].parent = Counted(W, D1)[f].parent /\ u[f].name = Counted(W, D1)[f].name
    BY <2>1, <2>3, <2>4, <2>6, CountedRows
  <2> QED
    BY <1>8, <2>4, <2>5, <2>6, <2>7
<1>9. CASE q.op = "promoteFolder"
  <2> DEFINE S == {x \in DOMAIN F : F[x].parent \in {q.id}}
             W == Written(F, S, [parent |-> row.parent])
  <2>1. u = Only(W, DOMAIN F \ {q.id})
    BY <1>9 DEF FoldersAfter
  <2>2. row.parent \in Place
    BY <1>9 DEF RowTyped
  <2>3. /\ W \in [DOMAIN F -> FolderRow]
        /\ \A f \in DOMAIN F : /\ W[f].parent = (IF f \in S THEN row.parent ELSE F[f].parent)
                               /\ W[f].name = F[f].name /\ W[f].count = F[f].count
    BY <2>2, ReparentedRows
  <2> HIDE DEF W
  <2> QED
    BY <1>9, <2>1, <2>3 DEF Only
<1>10. CASE q.op = "deleteFolder"
  <2> DEFINE K == Only(F, DOMAIN F \ Below(t, q.id))
             D == Evenly(t, row.parent, -row.count)
  <2>1. u = Counted(K, D)
    BY <1>10 DEF FoldersAfter
  <2>2. row.count \in Int
    BY <1>10 DEF RowTyped
  <2>3. \A f \in DOMAIN D : D[f] \in Int
    BY <2>2 DEF Evenly
  <2>4. DOMAIN K = DOMAIN F \ Below(t, q.id) /\ DOMAIN u = DOMAIN K
    BY <2>1 DEF Only, Counted
  <2>5. K \in [DOMAIN K -> FolderRow] /\ \A f \in DOMAIN K : K[f] = F[f]
    BY DEF Only
  <2> HIDE DEF D, K
  <2>6. u \in [DOMAIN K -> FolderRow] /\ \A f \in DOMAIN K : u[f].parent = K[f].parent /\ u[f].name = K[f].name
    BY <2>1, <2>3, <2>4, <2>5, CountedRows
  <2> QED
    BY <1>10, <2>4, <2>5, <2>6
<1>11. q.op \in Ops
  BY DEF Query, Ops
<1> QED
  BY <1>1, <1>2, <1>3, <1>4, <1>5, <1>6, <1>7, <1>8, <1>9, <1>10, <1>11 DEF Ops

\* The connections v, C before the batch.
ConnChange(C, v, t, q, row) ==
  /\ v \in [DOMAIN v -> ConnRow]
  /\ q.op \notin {"createConnection", "deleteConnection", "deleteFolder"} => DOMAIN v = DOMAIN C
  /\ q.op \in {"createFolder", "renameFolder", "moveFolder"} => v = C
  /\ q.op = "createConnection" =>
       DOMAIN v = DOMAIN C \cup {q.id} /\ v[q.id] = NewConnection(q) /\ \A c \in DOMAIN C : c # q.id => v[c] = C[c]
  /\ q.op = "updateConnection" =>
       \A c \in DOMAIN C :
         v[c] = IF c = q.id THEN [folder |-> C[c].folder, auth |-> Merged(row, q.patch).auth,
                                  secret |-> Merged(row, q.patch).secret, pin |-> Merged(row, q.patch).pin]
                ELSE C[c]
  /\ q.op = "clearCredential" =>
       \A c \in DOMAIN C :
         v[c] = IF c = q.id THEN [folder |-> C[c].folder, auth |-> row.auth, secret |-> FALSE, pin |-> row.pin]
                ELSE C[c]
  /\ q.op = "deleteConnection" => DOMAIN v = DOMAIN C \ {q.id} /\ \A c \in DOMAIN v : v[c] = C[c]
  /\ q.op = "moveConnections" =>
       \A c \in DOMAIN C : v[c] = IF c \in Movers(q, row) THEN [C[c] EXCEPT !.folder = q.to] ELSE C[c]
  /\ q.op = "promoteFolder" =>
       \A c \in DOMAIN C : v[c] = IF C[c].folder = q.id THEN [C[c] EXCEPT !.folder = row.parent] ELSE C[c]
  /\ q.op = "deleteFolder" =>
       DOMAIN v = {c \in DOMAIN C : C[c].folder \notin Below(t, q.id)} /\ \A c \in DOMAIN v : v[c] = C[c]

\* Lemma: which connections a batch leaves, and where.
LEMMA ConnsStep ==
  ASSUME NEW C, C \in [DOMAIN C -> ConnRow], NEW t, NEW q \in Query, NEW row, RowTyped(q, row),
         NEW v, v = ConnsAfter(C, t, q, row)
  PROVE  ConnChange(C, v, t, q, row)
<1> USE DEF ConnChange
<1>1. CASE q.op = "createConnection"
  <2>1. v = With(C, q.id, NewConnection(q))
    BY <1>1 DEF ConnsAfter
  <2>2. NewConnection(q) \in ConnRow
    BY <1>1 DEF Query, NewConnection, ConnRow, Place
  <2> QED
    BY <1>1, <2>1, <2>2 DEF With
<1>2. CASE q.op = "updateConnection"
  <2> DEFINE m == Merged(row, q.patch)
  <2>1. row \in ConnRow /\ q.patch \in Patches
    BY <1>2 DEF RowTyped, Query
  <2>2. v = Written(C, {q.id}, m)
    BY <1>2 DEF ConnsAfter
  <2>3. DOMAIN v = DOMAIN C
    BY <2>2 DEF Written
  <2>4. m = [auth |-> m.auth, secret |-> m.secret, pin |-> m.pin] /\ m.auth \in AuthType /\ m.secret \in BOOLEAN /\ m.pin \in BOOLEAN
    BY <2>1, MergedFields
  <2> HIDE DEF m
  <2>5. /\ v \in [DOMAIN C -> ConnRow]
        /\ \A c \in DOMAIN C : v[c] = IF c \in {q.id} THEN [folder |-> C[c].folder, auth |-> m.auth, secret |-> m.secret, pin |-> m.pin] ELSE C[c]
    BY <2>2, <2>4, EditedRows
  <2> QED
    BY <1>2, <2>3, <2>5 DEF m
<1>3. CASE q.op = "clearCredential"
  <2>1. row.auth \in AuthType /\ row.pin \in BOOLEAN /\ FALSE \in BOOLEAN
    BY <1>3 DEF RowTyped, ConnRow
  <2>2. v = Written(C, {q.id}, [auth |-> row.auth, secret |-> FALSE, pin |-> row.pin])
    BY <1>3 DEF ConnsAfter
  <2>3. DOMAIN v = DOMAIN C
    BY <2>2 DEF Written
  <2>5. /\ v \in [DOMAIN C -> ConnRow]
        /\ \A c \in DOMAIN C : v[c] = IF c \in {q.id} THEN [folder |-> C[c].folder, auth |-> row.auth, secret |-> FALSE, pin |-> row.pin] ELSE C[c]
    <3> DEFINE m == [auth |-> row.auth, secret |-> FALSE, pin |-> row.pin]
    <3>1. m = [auth |-> m.auth, secret |-> m.secret, pin |-> m.pin] /\ m.auth \in AuthType /\ m.secret \in BOOLEAN /\ m.pin \in BOOLEAN
      BY <2>1
    <3>2. v = Written(C, {q.id}, m)
      BY <2>2
    <3> HIDE DEF m
    <3>3. /\ v \in [DOMAIN C -> ConnRow]
          /\ \A c \in DOMAIN C : v[c] = IF c \in {q.id} THEN [folder |-> C[c].folder, auth |-> m.auth, secret |-> m.secret, pin |-> m.pin] ELSE C[c]
      BY <3>1, <3>2, EditedRows
    <3> QED
      BY <3>3 DEF m
  <2> QED
    BY <1>3, <2>3, <2>5
<1>4. CASE q.op = "deleteConnection"
  BY <1>4 DEF ConnsAfter, Only
<1>5. CASE q.op = "moveConnections"
  <2>1. v = Written(C, Movers(q, row), [folder |-> q.to]) /\ q.to \in Place
    BY <1>5 DEF ConnsAfter, Query
  <2>2. DOMAIN v = DOMAIN C
    BY <2>1 DEF Written
  <2> QED
    BY <1>5, <2>1, <2>2, PlacedRows
<1>6. CASE q.op \in {"createFolder", "renameFolder", "moveFolder"}
  BY <1>6 DEF ConnsAfter
<1>7. CASE q.op = "promoteFolder"
  <2> DEFINE S == {x \in DOMAIN C : C[x].folder \in {q.id}}
  <2>1. v = Written(C, S, [folder |-> row.parent]) /\ row.parent \in Place
    BY <1>7 DEF ConnsAfter, RowTyped
  <2>2. DOMAIN v = DOMAIN C
    BY <2>1 DEF Written
  <2>3. v \in [DOMAIN C -> ConnRow] /\ \A c \in DOMAIN C : v[c] = IF c \in S THEN [C[c] EXCEPT !.folder = row.parent] ELSE C[c]
    BY <2>1, PlacedRows
  <2> QED
    BY <1>7, <2>2, <2>3
<1>8. CASE q.op = "deleteFolder"
  BY <1>8 DEF ConnsAfter, Only
<1>9. q.op \in Ops
  BY DEF Query, Ops
<1> QED
  BY <1>1, <1>2, <1>3, <1>4, <1>5, <1>6, <1>7, <1>8, <1>9 DEF Ops

\* Lemma: the folders of typed tables form a table with its parents in it.
LEMMA TypedRooted ==
  ASSUME NEW d, Typed(d)
  PROVE  Rooted(d.f)
<1>1. IsFiniteSet(DOMAIN d.f) /\ Root \notin DOMAIN d.f
  BY StoreAssumption, FS_Subset DEF Typed
<1>2. \A f \in DOMAIN d.f : d.f[f].parent \in DOMAIN d.f \cup {Root}
  BY DEF Typed, Legal
<1> QED
  BY <1>1, <1>2 DEF Rooted

\* Lemma: only an insertion adds a row.
LEMMA RowsStep ==
  ASSUME NEW F, F \in [DOMAIN F -> FolderRow], NEW C, C \in [DOMAIN C -> ConnRow],
         NEW t, NEW q \in Query, NEW row, RowTyped(q, row),
         NEW u, u = FoldersAfter(F, t, q, row), NEW v, v = ConnsAfter(C, t, q, row)
  PROVE  /\ u \in [DOMAIN u -> FolderRow] /\ v \in [DOMAIN v -> ConnRow]
         /\ \A f \in DOMAIN u : f \in DOMAIN F \/ (q.op = "createFolder" /\ f = q.id)
         /\ \A c \in DOMAIN v : c \in DOMAIN C \/ (q.op = "createConnection" /\ c = q.id)
<1>101. FolderChange(F, u, t, q, row)
  BY FoldersStep
<1>102. ConnChange(C, v, t, q, row)
  BY ConnsStep
<1>1. u \in [DOMAIN u -> FolderRow] /\ v \in [DOMAIN v -> ConnRow]
  BY <1>101, <1>102 DEF FolderChange, ConnChange
<1>2. q.op \in Ops
  BY DEF Query, Ops
<1>3. q.op \notin {"createFolder", "moveFolder", "promoteFolder", "deleteFolder"} => DOMAIN u = DOMAIN F
  BY <1>101 DEF FolderChange
<1>4. q.op = "createFolder" => DOMAIN u = DOMAIN F \cup {q.id}
  BY <1>101 DEF FolderChange
<1>5. q.op = "moveFolder" => DOMAIN u = DOMAIN F
  BY <1>101 DEF FolderChange
<1>6. q.op = "promoteFolder" => DOMAIN u = DOMAIN F \ {q.id}
  BY <1>101 DEF FolderChange
<1>7. q.op = "deleteFolder" => DOMAIN u = DOMAIN F \ Below(t, q.id)
  BY <1>101 DEF FolderChange
<1>8. q.op \notin {"createConnection", "deleteConnection", "deleteFolder"} => DOMAIN v = DOMAIN C
  BY <1>102 DEF ConnChange
<1>9. q.op = "createConnection" => DOMAIN v = DOMAIN C \cup {q.id}
  BY <1>102 DEF ConnChange
<1>10. q.op = "deleteConnection" => DOMAIN v = DOMAIN C \ {q.id}
  BY <1>102 DEF ConnChange
<1>11. q.op = "deleteFolder" => DOMAIN v = {c \in DOMAIN C : C[c].folder \notin Below(t, q.id)}
  BY <1>102 DEF ConnChange
<1>12. \A f \in DOMAIN u : f \in DOMAIN F \/ (q.op = "createFolder" /\ f = q.id)
  BY <1>3, <1>4, <1>5, <1>6, <1>7
<1>13. \A c \in DOMAIN v : c \in DOMAIN C \/ (q.op = "createConnection" /\ c = q.id)
  BY <1>8, <1>9, <1>10, <1>11
<1> QED
  BY <1>1, <1>12, <1>13

\* Lemma: the requests in flight when one of them commits.
LEMMA OvertakenFacts ==
  ASSUME DOMAIN req = Request, \A x \in Request : ReqTyped(x), NEW r \in Request, NEW op \in Ops,
         req' = Overtakes(r, op)
  PROVE  /\ DOMAIN req' = Request /\ req'[r] = Idle
         /\ \A x \in Request \ {r} :
              /\ req[x] = Idle => req'[x] = Idle
              /\ req[x].at = req'[x].at
              /\ Busy(x) => /\ req'[x].q = req[x].q /\ req'[x].row = req[x].row
                            /\ req'[x].past = req[x].past \cup {op}
              /\ req[x].at = "commit" => req'[x].seen = req[x].seen
         /\ \A x \in Request : ReqTyped(x)'
<1>1. DOMAIN req' = Request /\ req'[r] = Idle
  BY DEF Overtakes
<1>2. ASSUME NEW x \in Request, x # r
      PROVE  /\ req[x] = Idle => req'[x] = Idle
             /\ req[x].at = req'[x].at
             /\ Busy(x) => /\ req'[x].q = req[x].q /\ req'[x].row = req[x].row
                           /\ req'[x].past = req[x].past \cup {op}
             /\ req[x].at = "commit" => req'[x].seen = req[x].seen
             /\ ReqTyped(x)'
  <2>0. ReqTyped(x) /\ Idle.at = "idle"
    BY DEF Idle
  <2>1. CASE req[x] = Idle
    <3>1. req'[x] = Idle
      BY <1>2, <2>0, <2>1 DEF Overtakes, Busy
    <3> QED
      BY <2>0, <2>1, <3>1 DEF Busy, ReqTyped, Idle
  <2>2. CASE req[x].at = "measure"
    <3>1. req'[x] = [req[x] EXCEPT !.past = @ \cup {op}]
      BY <1>2, <2>2 DEF Overtakes, Busy
    <3>2. req[x] = [at |-> "measure", q |-> req[x].q, row |-> req[x].row, past |-> req[x].past]
      BY <2>0, <2>2 DEF ReqTyped, Idle
    <3>3. req'[x] = [at |-> "measure", q |-> req[x].q, row |-> req[x].row, past |-> req[x].past \cup {op}]
      BY <3>1, <3>2
    <3> QED
      BY <2>0, <2>2, <3>3 DEF Busy, ReqTyped, Idle
  <2>3. CASE req[x].at = "commit"
    <3>1. req'[x] = [req[x] EXCEPT !.past = @ \cup {op}]
      BY <1>2, <2>3 DEF Overtakes, Busy
    <3>2. req[x] = [at |-> "commit", q |-> req[x].q, row |-> req[x].row, seen |-> req[x].seen, past |-> req[x].past]
      BY <2>0, <2>3 DEF ReqTyped, Idle
    <3>3. req'[x] = [at |-> "commit", q |-> req[x].q, row |-> req[x].row, seen |-> req[x].seen,
                     past |-> req[x].past \cup {op}]
      BY <3>1, <3>2
    <3> QED
      BY <2>0, <2>3, <3>3 DEF Busy, ReqTyped, Idle
  <2> QED
    BY <2>0, <2>1, <2>2, <2>3 DEF ReqTyped
<1>3. ReqTyped(r)'
  BY <1>1 DEF ReqTyped
<1> QED
  BY <1>1, <1>2, <1>3

\* Lemma: what a commit does, all in one place.
LEMMA CommitFacts ==
  ASSUME Types, NEW r \in Request, Commit(r)
  PROVE  /\ req[r].at = "commit" /\ req[r].q \in Query /\ RowTyped(req[r].q, req[r].row)
         /\ req[r].q.op \in Ops /\ Rooted(req[r].seen) /\ Rooted(db.f) /\ Rooted(db'.f)
         /\ db.f \in [Folders -> FolderRow] /\ db.c \in [Conns -> ConnRow]
         /\ db'.f = FoldersAfter(db.f, req[r].seen, req[r].q, req[r].row)
         /\ db'.c = ConnsAfter(db.c, req[r].seen, req[r].q, req[r].row)
         /\ FolderChange(db.f, db'.f, req[r].seen, req[r].q, req[r].row)
         /\ ConnChange(db.c, db'.c, req[r].seen, req[r].q, req[r].row)
         /\ Typed(db') /\ Types' /\ req' = Overtakes(r, req[r].q.op)
         /\ \A f \in DOMAIN db'.f : f \in Folders \/ (req[r].q.op = "createFolder" /\ f = req[r].q.id)
         /\ \A c \in DOMAIN db'.c : c \in Conns \/ (req[r].q.op = "createConnection" /\ c = req[r].q.id)
<1> DEFINE q == req[r].q
           row == req[r].row
           t == req[r].seen
           F == db.f
           C == db.c
<1>1. /\ req[r].at = "commit" /\ req[r].q \in Query /\ RowTyped(req[r].q, req[r].row)
      /\ Rooted(req[r].seen)
  BY DEF Commit, Types, ReqTyped, Idle
<1>2. q.op \in Ops
  BY <1>1 DEF Query, Ops
<1>3. Typed(db) /\ Rooted(db.f) /\ F \in [DOMAIN F -> FolderRow] /\ C \in [DOMAIN C -> ConnRow]
      /\ db = [f |-> F, c |-> C] /\ Legal(db)
  BY TypedRooted DEF Types, Typed
<1>4. Batch([f |-> F, c |-> C], Statements(t, q, row)) # RolledBack /\ db' = Batch([f |-> F, c |-> C], Statements(t, q, row))
  BY <1>3 DEF Commit, Sent
<1> DEFINE u == FoldersAfter(F, t, q, row)
           v == ConnsAfter(C, t, q, row)
<1>5. db' = [f |-> u, c |-> v] /\ Legal(db')
  <2>1. F = [x \in DOMAIN F |-> F[x]]
    BY <1>3
  <2>2. /\ Batch([f |-> F, c |-> C], Statements(t, q, row)) = [f |-> u, c |-> v]
        /\ (Legal([f |-> F, c |-> C]) => Legal([f |-> u, c |-> v]))
    <3> HIDE DEF F, C, q, t, row
    <3> QED
      BY <1>1, <1>4, <2>1, Effect DEF t, q
  <2> HIDE DEF u, v
  <2> QED
    BY <1>3, <1>4, <2>2
<1>6. /\ Typed(db')
      /\ \A f \in DOMAIN db'.f : f \in Folders \/ (req[r].q.op = "createFolder" /\ f = req[r].q.id)
      /\ \A c \in DOMAIN db'.c : c \in Conns \/ (req[r].q.op = "createConnection" /\ c = req[r].q.id)
  <2>1. DOMAIN F \subseteq Folder /\ DOMAIN C \subseteq Conn
    BY <1>3 DEF Typed
  <2>2. (q.op = "createFolder" => q.id \in Folder) /\ (q.op = "createConnection" => q.id \in Conn)
    BY <1>1 DEF Query
  <2>3. /\ u \in [DOMAIN u -> FolderRow] /\ v \in [DOMAIN v -> ConnRow]
        /\ \A f \in DOMAIN u : f \in DOMAIN F \/ (q.op = "createFolder" /\ f = q.id)
        /\ \A c \in DOMAIN v : c \in DOMAIN C \/ (q.op = "createConnection" /\ c = q.id)
    <3> HIDE DEF F, C, q, t, row
    <3>1. q \in Query /\ RowTyped(q, row) /\ F \in [DOMAIN F -> FolderRow] /\ C \in [DOMAIN C -> ConnRow]
      BY <1>1, <1>3 DEF q, row
    <3> QED
      BY <3>1, RowsStep
  <2> HIDE DEF u, v
  <2> QED
    BY <1>5, <2>1, <2>2, <2>3 DEF Typed, Folders, Conns
<1>7. Rooted(db'.f)
  BY <1>6, TypedRooted
<1>8. req' = Overtakes(r, req[r].q.op)
  BY DEF Commit
<1>9. Types'
  <2>1. DOMAIN req' = Request /\ \A x \in Request : ReqTyped(x)'
    BY <1>2, <1>8, OvertakenFacts DEF Types
  <2>2. begun' = begun /\ raced' \subseteq DOMAIN Races /\ DOMAIN Races = DOMAIN Races'
    BY DEF Commit, Types, Races
  <2> QED
    BY <1>6, <2>1, <2>2 DEF Types
<1>10. db'.f = u /\ db'.c = v
  <2> HIDE DEF u, v
  <2> QED
    BY <1>5
<1>11. FolderChange(F, db'.f, t, q, row) /\ ConnChange(C, db'.c, t, q, row)
  <2> HIDE DEF F, C, q, t, row
  <2>1. q \in Query /\ RowTyped(q, row) /\ F \in [DOMAIN F -> FolderRow] /\ C \in [DOMAIN C -> ConnRow]
    BY <1>1, <1>3 DEF q, row
  <2> QED
    BY <1>10, <2>1, FoldersStep, ConnsStep
<1> QED
  BY <1>1, <1>2, <1>3, <1>6, <1>7, <1>8, <1>9, <1>10, <1>11 DEF Folders, Conns

\* Lemma: what a browser may ask for.
LEMMA QueryCases ==
  ASSUME NEW q \in ConnectionQueries \cup FolderQueries, Typed(db)
  PROVE  /\ q \in Query /\ q.op \in Ops
         /\ Creates(q) => q.id \notin used
         /\ q.op \in {"createConnection", "moveConnections", "createFolder", "moveFolder"} => q.to \in Places
         /\ q.op \in {"updateConnection", "clearCredential", "deleteConnection"} => q.id \in Conns
         /\ q.op = "moveConnections" => q.ids \subseteq Conns
         /\ q.op \in {"renameFolder", "moveFolder", "promoteFolder", "deleteFolder"} => q.id \in Folders
<1>1. Folders \subseteq Folder /\ Conns \subseteq Conn /\ Places \subseteq Place
  BY DEF Typed, Folders, Conns, Places, Place
<1>2. CASE q \in [op : {"createConnection"}, id : Conn \ used, to : Places, auth : AuthType]
  BY <1>1, <1>2 DEF Query, Ops, Creates
<1>3. CASE q \in [op : {"updateConnection"}, id : Conns, patch : Patches]
  BY <1>1, <1>3 DEF Query, Ops, Creates
<1>4. CASE q \in [op : {"clearCredential", "deleteConnection"}, id : Conns]
  BY <1>1, <1>4 DEF Query, Ops, Creates
<1>5. CASE q \in [op : {"moveConnections"}, ids : SUBSET Conns \ {{}}, to : Places]
  BY <1>1, <1>5 DEF Query, Ops, Creates
<1>6. CASE q \in [op : {"createFolder"}, id : Folder \ used, to : Places, name : Name]
  BY <1>1, <1>6 DEF Query, Ops, Creates
<1>7. CASE q \in [op : {"renameFolder"}, id : Folders, name : Name]
  BY <1>1, <1>7 DEF Query, Ops, Creates
<1>8. CASE q \in [op : {"moveFolder"}, id : Folders, to : Places]
  BY <1>1, <1>8 DEF Query, Ops, Creates
<1>9. CASE q \in [op : {"promoteFolder", "deleteFolder"}, id : Folders]
  BY <1>1, <1>9 DEF Query, Ops, Creates
<1> QED
  BY <1>2, <1>3, <1>4, <1>5, <1>6, <1>7, <1>8, <1>9 DEF ConnectionQueries, FolderQueries

\* Lemma: the rows that a request reads, and the ids it learns.
LEMMA RowFacts ==
  ASSUME NEW q \in ConnectionQueries \cup FolderQueries, Typed(db)
  PROVE  /\ RowTyped(q, Row(q))
         /\ Mentioned(q, Row(q)) \subseteq Folders \cup Conns \cup {Root}
<1>1. /\ q \in Query /\ q.op \in Ops
      /\ q.op \in {"createConnection", "moveConnections", "createFolder", "moveFolder"} => q.to \in Places
      /\ q.op \in {"updateConnection", "clearCredential", "deleteConnection"} => q.id \in Conns
      /\ q.op = "moveConnections" => q.ids \subseteq Conns
      /\ q.op \in {"renameFolder", "moveFolder", "promoteFolder", "deleteFolder"} => q.id \in Folders
  BY QueryCases
<1>2. /\ \A c \in Conns : db.c[c] \in ConnRow /\ db.c[c].folder \in Places
      /\ \A f \in Folders : db.f[f] \in FolderRow /\ db.f[f].parent \in Places
  BY DEF Typed, Legal, Folders, Conns, Places
<1>3. Places \subseteq Place
  BY DEF Typed, Folders, Places, Place
<1>4. CASE q.op \in {"updateConnection", "clearCredential"}
  BY <1>1, <1>2, <1>4 DEF Row, RowTyped, Mentioned
<1>5. CASE q.op = "deleteConnection"
  <2>1. Row(q) = [folder |-> db.c[q.id].folder]
    BY <1>5 DEF Row
  <2>2. q.id \in Conns /\ db.c[q.id].folder \in Places
    BY <1>1, <1>2, <1>5
  <2>3. RowTyped(q, Row(q))
    BY <1>3, <1>5, <2>1, <2>2 DEF RowTyped
  <2>4. Mentioned(q, Row(q)) = {q.id, db.c[q.id].folder}
    BY <1>5, <2>1 DEF Mentioned
  <2> QED
    BY <2>2, <2>3, <2>4 DEF Places
<1>6. CASE q.op = "moveConnections"
  <2>1. Row(q) = [folders |-> [c \in q.ids |-> db.c[c].folder]]
    BY <1>6 DEF Row
  <2>2. q.ids \subseteq Conns /\ \A c \in q.ids : db.c[c].folder \in Places
    BY <1>1, <1>2, <1>6
  <2>3. RowTyped(q, Row(q))
    BY <1>3, <1>6, <2>1, <2>2 DEF RowTyped
  <2>4. Mentioned(q, Row(q)) = q.ids \cup {q.to} \cup {db.c[c].folder : c \in q.ids}
    BY <1>6, <2>1 DEF Mentioned
  <2> QED
    BY <1>1, <1>6, <2>2, <2>3, <2>4 DEF Places
<1>7. CASE q.op \in {"moveFolder", "promoteFolder", "deleteFolder"}
  <2>1. Row(q) = [parent |-> db.f[q.id].parent, count |-> db.f[q.id].count]
    BY <1>7 DEF Row
  <2>2. q.id \in Folders /\ db.f[q.id].parent \in Places /\ db.f[q.id].count \in Int
    BY <1>1, <1>2, <1>7 DEF FolderRow
  <2>3. RowTyped(q, Row(q))
    BY <1>3, <1>7, <2>1, <2>2 DEF RowTyped
  <2>4. Mentioned(q, Row(q)) \subseteq {q.id, db.f[q.id].parent} \cup (IF q.op = "moveFolder" THEN {q.to} ELSE {})
    BY <1>7, <2>1 DEF Mentioned
  <2> QED
    BY <1>1, <2>2, <2>3, <2>4 DEF Places
<1>8. CASE q.op \in {"createConnection", "createFolder", "renameFolder"}
  BY <1>1, <1>8 DEF Row, RowTyped, Mentioned, Places
<1> QED
  BY <1>1, <1>4, <1>5, <1>6, <1>7, <1>8 DEF Ops

\* Lemma: how a request begins.
LEMMA BeginFacts ==
  ASSUME Types, NEW r \in Request, Begin(r)
  PROVE  \E q \in ConnectionQueries \cup FolderQueries :
           /\ used' = (IF Creates(q) THEN used \cup {q.id} ELSE used)
           /\ \/ /\ req'[r] = [at |-> "commit", q |-> q, row |-> Row(q), seen |-> db.f, past |-> {}]
                 /\ ~Refused(db.f, q, Row(q)) /\ q.op # "deleteFolder"
              \/ req'[r] = [at |-> "measure", q |-> q, row |-> Row(q), past |-> {}]
           /\ DOMAIN req' = Request /\ \A x \in Request \ {r} : req'[x] = req[x]
           /\ ~Busy(r) /\ Busy(r)' /\ db' = db /\ raced' = raced /\ begun' \in 0 .. MaxRequests
           /\ req'[r].q = q /\ req'[r].row = Row(q) /\ req'[r].past = {}
<1>1. PICK q \in ConnectionQueries \cup FolderQueries :
        /\ used' = IF Creates(q) THEN used \cup {q.id} ELSE used
        /\ req' = [req EXCEPT ![r] =
                     IF OneRead(q) /\ ~Refused(db.f, q, Row(q)) THEN ToCommit(q, Row(q), {})
                     ELSE [at |-> "measure", q |-> q, row |-> Row(q), past |-> {}]]
  BY DEF Begin
<1>2. DOMAIN req' = Request /\ \A x \in Request \ {r} : req'[x] = req[x]
  BY <1>1 DEF Types
<1>3. \/ /\ req'[r] = [at |-> "commit", q |-> q, row |-> Row(q), seen |-> db.f, past |-> {}]
         /\ ~Refused(db.f, q, Row(q)) /\ q.op # "deleteFolder"
      \/ req'[r] = [at |-> "measure", q |-> q, row |-> Row(q), past |-> {}]
  <2>1. CASE OneRead(q) /\ ~Refused(db.f, q, Row(q))
    BY <1>1, <2>1 DEF ToCommit, Types, OneRead, Creates
  <2>2. CASE ~(OneRead(q) /\ ~Refused(db.f, q, Row(q)))
    BY <1>1, <2>2 DEF Types
  <2> QED
    BY <2>1, <2>2
<1>4. begun' \in 0 .. MaxRequests /\ ~Busy(r) /\ db' = db /\ raced' = raced
  BY StoreAssumption DEF Begin, Types
<1>5. Busy(r)' /\ req'[r].q = q /\ req'[r].row = Row(q) /\ req'[r].past = {}
  BY <1>3 DEF Busy
<1> QED
  BY <1>1, <1>2, <1>3, <1>4, <1>5

\* Lemma: how it goes on to its batch.
LEMMA MeasureFacts ==
  ASSUME Types, NEW r \in Request, Measure(r)
  PROVE  /\ req[r].at = "measure" /\ ~Refused(db.f, req[r].q, req[r].row)
         /\ ~EndlessFor(db.f, req[r].q, req[r].row)
         /\ req'[r] = [at |-> "commit", q |-> req[r].q, row |-> req[r].row, seen |-> db.f, past |-> req[r].past]
         /\ DOMAIN req' = Request /\ \A x \in Request \ {r} : req'[x] = req[x]
         /\ db' = db /\ raced' = raced /\ used' = used /\ begun' = begun
BY DEF Measure, Types, ToCommit

\* Lemma: how it ends without one.
LEMMA QuitFacts ==
  ASSUME Types, NEW r \in Request, Reject(r) \/ Refuse(r)
  PROVE  /\ req'[r] = Idle /\ DOMAIN req' = Request /\ \A x \in Request \ {r} : req'[x] = req[x]
         /\ db' = db /\ raced' = raced /\ used' = used /\ begun' = begun
BY DEF Reject, Refuse, Types

\* Lemma: the types hold after every step.
LEMMA TypesStep ==
  ASSUME Types, [Next]_vars
  PROVE  Types'
<1>1. ASSUME NEW r \in Request, Begin(r) PROVE Types'
  <2>1. PICK q \in ConnectionQueries \cup FolderQueries :
           /\ \/ /\ req'[r] = [at |-> "commit", q |-> q, row |-> Row(q), seen |-> db.f, past |-> {}]
                 /\ ~Refused(db.f, q, Row(q))
              \/ req'[r] = [at |-> "measure", q |-> q, row |-> Row(q), past |-> {}]
           /\ DOMAIN req' = Request /\ \A x \in Request \ {r} : req'[x] = req[x]
           /\ db' = db /\ raced' = raced /\ begun' \in 0 .. MaxRequests
    BY <1>1, BeginFacts
  <2>2. q \in Query /\ RowTyped(q, Row(q))
    BY QueryCases, RowFacts DEF Types
  <2>3. db.f \in [DOMAIN db.f -> FolderRow] /\ Rooted(db.f)
    BY TypedRooted DEF Types, Typed
  <2>4. \A s : s = req'[r] => ReqTyped(r)'
    BY <2>1, <2>2, <2>3 DEF ReqTyped
  <2>5. \A x \in Request \ {r} : ReqTyped(x)'
    BY <2>1 DEF ReqTyped, Types
  <2>6. raced' \subseteq DOMAIN Races'
    BY <2>1 DEF Types, Races
  <2> QED
    BY <2>1, <2>4, <2>5, <2>6 DEF Types
<1>2. ASSUME NEW r \in Request, Measure(r) PROVE Types'
  <2>1. /\ req[r].at = "measure"
        /\ req'[r] = [at |-> "commit", q |-> req[r].q, row |-> req[r].row, seen |-> db.f, past |-> req[r].past]
        /\ DOMAIN req' = Request /\ \A x \in Request \ {r} : req'[x] = req[x]
        /\ db' = db /\ raced' = raced /\ begun' = begun
    BY <1>2, MeasureFacts
  <2>2. req[r].q \in Query /\ RowTyped(req[r].q, req[r].row) /\ req[r].past \subseteq Ops
    BY <2>1 DEF Types, ReqTyped, Idle
  <2>3. db.f \in [DOMAIN db.f -> FolderRow] /\ Rooted(db.f)
    BY TypedRooted DEF Types, Typed
  <2>4. ReqTyped(r)'
    BY <2>1, <2>2, <2>3 DEF ReqTyped
  <2>5. \A x \in Request \ {r} : ReqTyped(x)'
    BY <2>1 DEF ReqTyped, Types
  <2>6. raced' \subseteq DOMAIN Races'
    BY <2>1 DEF Types, Races
  <2> QED
    BY <2>1, <2>4, <2>5, <2>6 DEF Types
<1>3. ASSUME NEW r \in Request, Commit(r) PROVE Types'
  BY <1>3, CommitFacts
<1>4. ASSUME NEW r \in Request, Reject(r) \/ Refuse(r) PROVE Types'
  <2>1. /\ req'[r] = Idle /\ DOMAIN req' = Request /\ \A x \in Request \ {r} : req'[x] = req[x]
        /\ db' = db /\ raced' = raced /\ begun' = begun
    BY <1>4, QuitFacts
  <2>2. ReqTyped(r)'
    BY <2>1 DEF ReqTyped
  <2>3. \A x \in Request \ {r} : ReqTyped(x)'
    BY <2>1 DEF ReqTyped, Types
  <2>4. raced' \subseteq DOMAIN Races'
    BY <2>1 DEF Types, Races
  <2> QED
    BY <2>1, <2>2, <2>3, <2>4 DEF Types
<1>5. CASE UNCHANGED vars
  BY <1>5 DEF vars, Types, ReqTyped, Races
<1> QED
  BY <1>1, <1>2, <1>3, <1>4, <1>5 DEF Next

\* Lemma: a request that ends gives its id back; nobody else has it.
LEMMA EndKeepsFresh ==
  ASSUME Fresh, NEW r \in Request, used' = used, ~Making(r)',
         \A x \in Request \ {r} : (Making(x)' <=> Making(x)) /\ (Making(x) => req'[x].q = req[x].q)
  PROVE  /\ Old \subseteq Old' /\ Reserved' \subseteq used'
         /\ \A x, y \in Request : Making(x)' /\ Making(y)' /\ req'[x].q.id = req'[y].q.id => x = y
         /\ Making(r) => req[r].q.id \in Old'
<1>1. Reserved' \subseteq Reserved
  BY DEF Reserved
<1>2. Making(r) => req[r].q.id \notin Reserved'
  BY DEF Reserved, Fresh
<1>3. Making(r) => req[r].q.id \in used
  BY DEF Reserved, Fresh
<1> QED
  BY <1>1, <1>2, <1>3 DEF Old, Fresh

\* Ids stay apart, and requests name ids that are no secret of another request.
Ids == Fresh /\ \A r \in Request : Knows(r)

\* Lemma: ids stay apart.
LEMMA NamesStep ==
  ASSUME Types, Ids, [Next]_vars
  PROVE  Ids' /\ Old \subseteq Old'
<1>1. ASSUME NEW r \in Request, Begin(r) PROVE Ids' /\ Old \subseteq Old'
  <2>1. PICK q \in ConnectionQueries \cup FolderQueries :
           /\ used' = (IF Creates(q) THEN used \cup {q.id} ELSE used)
           /\ \A x \in Request \ {r} : req'[x] = req[x]
           /\ ~Busy(r) /\ Busy(r)' /\ db' = db
           /\ req'[r].q = q /\ req'[r].row = Row(q)
    BY <1>1, BeginFacts
  <2>2. /\ Creates(q) => q.id \notin used
        /\ Mentioned(q, Row(q)) \subseteq Folders \cup Conns \cup {Root}
    BY QueryCases, RowFacts DEF Types
  <2>3. ~Making(r) /\ (Making(r)' <=> Creates(q))
    BY <2>1 DEF Making
  <2>4. \A x \in Request \ {r} : (Making(x)' <=> Making(x)) /\ req'[x] = req[x]
    BY <2>1 DEF Making, Busy
  <2>5. Reserved' = Reserved \cup (IF Creates(q) THEN {q.id} ELSE {})
    BY <2>1, <2>3, <2>4 DEF Reserved
  <2>6. Reserved \subseteq used /\ Folders \cup Conns \subseteq Old
    BY DEF Ids, Fresh
  <2>7. Old' = Old
    BY <2>1, <2>2, <2>5, <2>6 DEF Old
  <2>8. Reserved' \subseteq used' /\ (Folders \cup Conns \subseteq Old)'
    BY <2>1, <2>5, <2>6, <2>7 DEF Folders, Conns
  <2>9. \A x, y \in Request : Making(x)' /\ Making(y)' /\ req'[x].q.id = req'[y].q.id => x = y
    <3> SUFFICES ASSUME NEW x \in Request, NEW y \in Request, Making(x)', Making(y)',
                        req'[x].q.id = req'[y].q.id, x # y
                 PROVE  FALSE
      OBVIOUS
    <3>1. CASE x = r
      <4>1. Making(y) /\ req[y].q.id = q.id /\ q.id \notin used
        BY <2>1, <2>2, <2>3, <2>4, <3>1
      <4> QED
        BY <2>6, <4>1 DEF Reserved
    <3>2. CASE y = r
      <4>1. Making(x) /\ req[x].q.id = q.id /\ q.id \notin used
        BY <2>1, <2>2, <2>3, <2>4, <3>2
      <4> QED
        BY <2>6, <4>1 DEF Reserved
    <3>3. CASE x # r /\ y # r
      BY <2>4, <3>3 DEF Ids, Fresh
    <3> QED
      BY <3>1, <3>2, <3>3
  <2>10. \A x \in Request : Knows(x)'
    <3> TAKE x \in Request
    <3>1. CASE x = r
      BY <2>1, <2>2, <2>6, <2>7, <3>1 DEF Knows
    <3>2. CASE x # r
      BY <2>1, <2>7, <3>2 DEF Knows, Busy, Ids
    <3> QED
      BY <3>1, <3>2
  <2> QED
    BY <2>7, <2>8, <2>9, <2>10 DEF Ids, Fresh
<1>2. ASSUME NEW r \in Request, Measure(r) PROVE Ids' /\ Old \subseteq Old'
  <2>1. /\ req[r].at = "measure"
        /\ req'[r] = [at |-> "commit", q |-> req[r].q, row |-> req[r].row, seen |-> db.f, past |-> req[r].past]
        /\ \A x \in Request \ {r} : req'[x] = req[x]
        /\ db' = db /\ used' = used
    BY <1>2, MeasureFacts
  <2>2. \A x \in Request : (Busy(x)' <=> Busy(x)) /\ req'[x].q = req[x].q /\ (Busy(x) => req'[x].row = req[x].row)
    BY <2>1 DEF Busy
  <2>3. Reserved' = Reserved /\ \A x \in Request : Making(x)' <=> Making(x)
    BY <2>2 DEF Reserved, Making
  <2>4. Old' = Old
    BY <2>1, <2>3 DEF Old
  <2> QED
    BY <2>1, <2>2, <2>3, <2>4 DEF Ids, Fresh, Knows, Folders, Conns
<1>3. ASSUME NEW r \in Request, Commit(r) PROVE Ids' /\ Old \subseteq Old'
  <2>1. /\ req[r].at = "commit" /\ req[r].q \in Query /\ RowTyped(req[r].q, req[r].row) /\ req[r].q.op \in Ops
        /\ db.f \in [Folders -> FolderRow] /\ db.c \in [Conns -> ConnRow]
        /\ db'.f = FoldersAfter(db.f, req[r].seen, req[r].q, req[r].row)
        /\ db'.c = ConnsAfter(db.c, req[r].seen, req[r].q, req[r].row)
        /\ req' = Overtakes(r, req[r].q.op)
    BY <1>3, CommitFacts
  <2>2. /\ req'[r] = Idle
        /\ \A x \in Request \ {r} :
              req[x].at = req'[x].at /\ (Busy(x) => req'[x].q = req[x].q /\ req'[x].row = req[x].row)
    BY <2>1, OvertakenFacts DEF Types
  <2>3. used' = used
    BY <1>3 DEF Commit
  <2>4. ~Making(r)'
    BY <2>2 DEF Making, Busy, Idle
  <2>5. \A x \in Request \ {r} : (Making(x)' <=> Making(x)) /\ (Making(x) => req'[x].q = req[x].q)
    BY <2>2 DEF Making, Busy
  <2>6. /\ Old \subseteq Old' /\ Reserved' \subseteq used'
        /\ \A x, y \in Request : Making(x)' /\ Making(y)' /\ req'[x].q.id = req'[y].q.id => x = y
        /\ Making(r) => req[r].q.id \in Old'
    BY <2>3, <2>4, <2>5, EndKeepsFresh DEF Ids
  <2>7. (Folders \cup Conns \subseteq Old)'
    <3>1. /\ \A f \in DOMAIN db'.f : f \in Folders \/ (req[r].q.op = "createFolder" /\ f = req[r].q.id)
          /\ \A c \in DOMAIN db'.c : c \in Conns \/ (req[r].q.op = "createConnection" /\ c = req[r].q.id)
      BY <1>3, CommitFacts
    <3>2. req[r].q.op \in {"createFolder", "createConnection"} => Making(r)
      BY <2>1 DEF Making, Busy, Creates
    <3>3. Folders \cup Conns \subseteq Old
      BY DEF Ids, Fresh
    <3> QED
      BY <2>6, <3>1, <3>2, <3>3 DEF Folders, Conns
  <2>8. \A x \in Request : Knows(x)'
    <3> TAKE x \in Request
    <3>1. CASE x = r
      BY <2>2, <3>1 DEF Knows, Busy, Idle
    <3>2. CASE x # r
      <4>1. Busy(x)' => Busy(x) /\ req'[x].q = req[x].q /\ req'[x].row = req[x].row
        BY <2>2, <3>2 DEF Busy
      <4> QED
        BY <2>6, <4>1 DEF Knows, Ids
    <3> QED
      BY <3>1, <3>2
  <2> QED
    BY <2>6, <2>7, <2>8 DEF Ids, Fresh
<1>4. ASSUME NEW r \in Request, Reject(r) \/ Refuse(r) PROVE Ids' /\ Old \subseteq Old'
  <2>1. /\ req'[r] = Idle /\ \A x \in Request \ {r} : req'[x] = req[x]
        /\ db' = db /\ used' = used
    BY <1>4, QuitFacts
  <2>2. ~Making(r)'
    BY <2>1 DEF Making, Busy, Idle
  <2>3. \A x \in Request \ {r} : (Making(x)' <=> Making(x)) /\ (Making(x) => req'[x].q = req[x].q)
    BY <2>1 DEF Making, Busy
  <2>4. /\ Old \subseteq Old' /\ Reserved' \subseteq used'
        /\ \A x, y \in Request : Making(x)' /\ Making(y)' /\ req'[x].q.id = req'[y].q.id => x = y
    BY <2>1, <2>2, <2>3, EndKeepsFresh DEF Ids
  <2>5. (Folders \cup Conns \subseteq Old)'
    BY <2>1, <2>4 DEF Ids, Fresh, Folders, Conns
  <2>6. \A x \in Request : Knows(x)'
    <3> TAKE x \in Request
    <3>1. CASE x = r
      BY <2>1, <3>1 DEF Knows, Busy, Idle
    <3>2. CASE x # r
      BY <2>1, <2>4, <3>2 DEF Knows, Busy, Ids
    <3> QED
      BY <3>1, <3>2
  <2> QED
    BY <2>4, <2>5, <2>6 DEF Ids, Fresh
<1>5. CASE UNCHANGED vars
  <2>1. db' = db /\ req' = req /\ used' = used
    BY <1>5 DEF vars
  <2>2. Reserved' = Reserved /\ Old' = Old
    BY <2>1 DEF Reserved, Making, Busy, Old
  <2> QED
    BY <2>1, <2>2 DEF Ids, Fresh, Knows, Busy, Making, Folders, Conns
<1> QED
  BY <1>1, <1>2, <1>3, <1>4, <1>5 DEF Next

\* A row that no request of these kinds overtook is as the request read it.
Kept(r, S) == req[r].past \cap S = {}
HostMoves == {"moveConnections", "deleteConnection", "promoteFolder", "deleteFolder"}
Quiet == {"updateConnection", "clearCredential", "createFolder", "renameFolder"}

\* The parent of a folder that no move overtook.
FolderParent(r) ==
  Busy(r) /\ OnFolder(req[r].q) /\ Kept(r, {"moveFolder"})
    /\ req[r].q.id \in Folders /\ req[r].row.parent \in Places =>
  db.f[req[r].q.id].parent = req[r].row.parent
\* The folder, its parent and its counter, when nothing that changes them came between.
FolderCount(r) ==
  Busy(r) /\ OnFolder(req[r].q) /\ Kept(r, Ops \ Quiet) =>
  /\ req[r].q.id \in Folders /\ db.f[req[r].q.id].parent = req[r].row.parent
  /\ db.f[req[r].q.id].count = req[r].row.count
\* The folder of a connection to delete.
HostFolder(r) ==
  Busy(r) /\ req[r].q.op = "deleteConnection" /\ Kept(r, HostMoves) =>
  req[r].q.id \in Conns /\ db.c[req[r].q.id].folder = req[r].row.folder
\* The folders of the connections to move.
HostFolders(r) ==
  Busy(r) /\ req[r].q.op = "moveConnections" /\ Kept(r, HostMoves) =>
  \A c \in req[r].q.ids : c \in Conns /\ db.c[c].folder = req[r].row.folders[c]
\* The payload to merge a patch into.
Payload(r) ==
  Busy(r) /\ req[r].q.op \in {"updateConnection", "clearCredential"} /\ req[r].q.id \in Conns
    /\ Kept(r, {"updateConnection", "clearCredential"}) =>
  LET c == db.c[req[r].q.id] IN
  c.auth = req[r].row.auth /\ c.secret = req[r].row.secret /\ c.pin = req[r].row.pin
\* All of it, for every request in flight.
RowsNow == \A r \in Request : FolderParent(r) /\ FolderCount(r) /\ HostFolder(r) /\ HostFolders(r) /\ Payload(r)

\* Lemma: no row comes back that a request knew.
LEMMA NoReturn ==
  ASSUME Types, Ids, NEW r \in Request, Commit(r), NEW i \in Old
  PROVE  /\ i \in DOMAIN db'.f => i \in Folders
         /\ i \in DOMAIN db'.c => i \in Conns
         /\ Creates(req[r].q) => i # req[r].q.id
<1>1. req[r].at = "commit"
  BY CommitFacts
<1>2. /\ \A f \in DOMAIN db'.f : f \in Folders \/ (req[r].q.op = "createFolder" /\ f = req[r].q.id)
      /\ \A c \in DOMAIN db'.c : c \in Conns \/ (req[r].q.op = "createConnection" /\ c = req[r].q.id)
  BY CommitFacts
<1>3. Creates(req[r].q) => Making(r)
  BY <1>1 DEF Making, Busy
<1>4. Creates(req[r].q) => i # req[r].q.id
  BY <1>3 DEF Old, Reserved
<1> QED
  BY <1>2, <1>4 DEF Creates

\* Lemma: the row of a folder that only requests of some kinds change.
LEMMA FolderRowSame ==
  ASSUME Types, Ids, NEW r \in Request, Commit(r), NEW f \in Folders
  PROVE  /\ req[r].q.op \notin {"moveFolder", "promoteFolder"} /\ f \in DOMAIN db'.f =>
              db'.f[f].parent = db.f[f].parent
         /\ req[r].q.op = "promoteFolder" /\ f \in DOMAIN db'.f =>
              /\ req[r].q.id \notin DOMAIN db'.f
              /\ db'.f[f].parent = (IF db.f[f].parent = req[r].q.id THEN req[r].row.parent ELSE db.f[f].parent)
         /\ req[r].q.op \in Quiet => f \in DOMAIN db'.f /\ db'.f[f].count = db.f[f].count
<1>1. /\ req[r].at = "commit" /\ req[r].q \in Query /\ req[r].q.op \in Ops
      /\ db'.f = FoldersAfter(db.f, req[r].seen, req[r].q, req[r].row)
      /\ FolderChange(db.f, db'.f, req[r].seen, req[r].q, req[r].row)
  BY CommitFacts
<1>2. f \in Old
  BY DEF Ids, Fresh
<1>3. Creates(req[r].q) => f # req[r].q.id
  BY <1>2, NoReturn
<1>4. CASE req[r].q.op \in {"updateConnection", "clearCredential"}
  BY <1>1, <1>4 DEF FoldersAfter, Folders
<1>5. CASE req[r].q.op \in {"createConnection", "deleteConnection", "moveConnections"}
  BY <1>1, <1>5 DEF FolderChange, Folders, Quiet
<1>6. CASE req[r].q.op = "createFolder"
  BY <1>1, <1>3, <1>6 DEF FolderChange, Folders, Quiet, Creates
<1>7. CASE req[r].q.op = "renameFolder"
  BY <1>1, <1>7 DEF FolderChange, Folders, Quiet
<1>8. CASE req[r].q.op = "moveFolder"
  BY <1>1, <1>8 DEF FolderChange, Folders, Quiet
<1>9. CASE req[r].q.op = "promoteFolder"
  BY <1>1, <1>9 DEF FolderChange, Folders, Quiet
<1>10. CASE req[r].q.op = "deleteFolder"
  BY <1>1, <1>10 DEF FolderChange, Folders, Quiet
<1> QED
  BY <1>1, <1>4, <1>5, <1>6, <1>7, <1>8, <1>9, <1>10 DEF Ops

\* Lemma: and of a connection.
LEMMA ConnRowSame ==
  ASSUME Types, Ids, NEW r \in Request, Commit(r), NEW c \in Conns
  PROVE  /\ req[r].q.op \notin HostMoves => c \in DOMAIN db'.c /\ db'.c[c].folder = db.c[c].folder
         /\ req[r].q.op \notin {"updateConnection", "clearCredential"} /\ c \in DOMAIN db'.c =>
              /\ db'.c[c].auth = db.c[c].auth /\ db'.c[c].secret = db.c[c].secret
              /\ db'.c[c].pin = db.c[c].pin
<1> DEFINE Claim ==
         /\ req[r].q.op \notin HostMoves => c \in DOMAIN db'.c /\ db'.c[c].folder = db.c[c].folder
         /\ req[r].q.op \notin {"updateConnection", "clearCredential"} /\ c \in DOMAIN db'.c =>
              /\ db'.c[c].auth = db.c[c].auth /\ db'.c[c].secret = db.c[c].secret
              /\ db'.c[c].pin = db.c[c].pin
<1> SUFFICES Claim
  OBVIOUS
<1> HIDE DEF Claim
<1>1. /\ req[r].at = "commit" /\ req[r].q \in Query /\ req[r].q.op \in Ops
      /\ ConnChange(db.c, db'.c, req[r].seen, req[r].q, req[r].row)
      /\ db.c \in [Conns -> ConnRow]
  BY CommitFacts
<1>2. c \in Old
  BY DEF Ids, Fresh
<1>3. Creates(req[r].q) => c # req[r].q.id
  BY <1>2, NoReturn
<1>0. db.c[c] \in ConnRow
  BY <1>1
<1>4. CASE req[r].q.op = "createConnection"
  BY <1>1, <1>3, <1>4 DEF Claim, ConnChange, Conns, Creates
<1>5. CASE req[r].q.op \in {"updateConnection", "clearCredential"}
  <2>1. DOMAIN db'.c = DOMAIN db.c /\ c \in DOMAIN db.c
    BY <1>1, <1>5 DEF ConnChange, Conns
  <2>2. db'.c[c].folder = db.c[c].folder
    <3>1. CASE req[r].q.op = "updateConnection"
      <4>1. db'.c[c] = IF c = req[r].q.id
                       THEN [folder |-> db.c[c].folder, auth |-> Merged(req[r].row, req[r].q.patch).auth,
                             secret |-> Merged(req[r].row, req[r].q.patch).secret,
                             pin |-> Merged(req[r].row, req[r].q.patch).pin]
                       ELSE db.c[c]
        BY <1>1, <2>1, <3>1 DEF ConnChange
      <4> QED
        BY <4>1
    <3>2. CASE req[r].q.op = "clearCredential"
      <4>1. db'.c[c] = IF c = req[r].q.id
                       THEN [folder |-> db.c[c].folder, auth |-> req[r].row.auth, secret |-> FALSE,
                             pin |-> req[r].row.pin]
                       ELSE db.c[c]
        BY <1>1, <2>1, <3>2 DEF ConnChange
      <4> QED
        BY <4>1
    <3> QED
      BY <1>5, <3>1, <3>2
  <2> QED
    BY <1>5, <2>1, <2>2 DEF Claim
<1>6. CASE req[r].q.op = "deleteConnection"
  BY <1>1, <1>6 DEF Claim, ConnChange, Conns, HostMoves
<1>7. CASE req[r].q.op = "moveConnections"
  <2>1. db'.c[c] = IF c \in Movers(req[r].q, req[r].row) THEN [db.c[c] EXCEPT !.folder = req[r].q.to] ELSE db.c[c]
    BY <1>1, <1>7 DEF ConnChange, Conns
  <2> QED
    BY <1>0, <1>7, <2>1 DEF Claim, HostMoves, ConnRow
<1>8. CASE req[r].q.op \in {"createFolder", "renameFolder", "moveFolder"}
  BY <1>1, <1>8 DEF Claim, ConnChange, Conns
<1>9. CASE req[r].q.op = "promoteFolder"
  <2>1. db'.c[c] = IF db.c[c].folder = req[r].q.id THEN [db.c[c] EXCEPT !.folder = req[r].row.parent] ELSE db.c[c]
    BY <1>1, <1>9 DEF ConnChange, Conns
  <2> QED
    BY <1>0, <1>9, <2>1 DEF Claim, HostMoves, ConnRow
<1>10. CASE req[r].q.op = "deleteFolder"
  BY <1>1, <1>10 DEF Claim, ConnChange, Conns, HostMoves
<1> QED
  BY <1>1, <1>4, <1>5, <1>6, <1>7, <1>8, <1>9, <1>10 DEF Ops

\* Lemma: what a request read stays true until a request that changes it commits.
LEMMA RowsCommit ==
  ASSUME Types, Ids, RowsNow, NEW r \in Request, Commit(r)
  PROVE  RowsNow'
<1> SUFFICES ASSUME NEW x \in Request
             PROVE  (FolderParent(x) /\ FolderCount(x) /\ HostFolder(x) /\ HostFolders(x) /\ Payload(x))'
  BY DEF RowsNow
<1> DEFINE op == req[r].q.op
           i == req[x].q.id
<1>1. op \in Ops /\ req' = Overtakes(r, op)
  BY CommitFacts
<1>2. /\ req'[r] = Idle
      /\ x # r => /\ req[x].at = req'[x].at
                  /\ Busy(x) => /\ req'[x].q = req[x].q /\ req'[x].row = req[x].row
                                /\ req'[x].past = req[x].past \cup {op}
  BY <1>1, OvertakenFacts DEF Types
<1>3. CASE ~Busy(x)'
  BY <1>3 DEF FolderParent, FolderCount, HostFolder, HostFolders, Payload, Busy
<1>4. CASE Busy(x)'
  <2>1. /\ x # r /\ Busy(x) /\ req'[x].q = req[x].q /\ req'[x].row = req[x].row
        /\ req'[x].past = req[x].past \cup {op}
    BY <1>2, <1>4 DEF Busy, Idle
  <2>2. Mentioned(req[x].q, req[x].row) \subseteq Old \cup {Root} /\ req[x].q \in Query /\ Root \notin Folder
    BY <2>1, StoreAssumption DEF Ids, Knows, Types, ReqTyped, Busy, Idle
  <2>3. Folders \subseteq Folder /\ DOMAIN db'.f \subseteq Folder
    BY CommitFacts DEF Types, Typed, Folders
  <2>4. FolderParent(x)'
    <3>1. SUFFICES ASSUME OnFolder(req[x].q), op # "moveFolder", req[x].past \cap {"moveFolder"} = {},
                          i \in DOMAIN db'.f, req[x].row.parent \in DOMAIN db'.f \cup {Root}
                   PROVE  db'.f[i].parent = req[x].row.parent
      BY <2>1 DEF FolderParent, Kept, Folders, Places
    <3>2. {i, req[x].row.parent} \subseteq Old \cup {Root}
      BY <2>2, <3>1 DEF Mentioned, OnFolder
    <3>3. i \in Folders /\ req[x].row.parent \in Places
      BY <2>2, <2>3, <3>1, <3>2, NoReturn DEF Places
    <3>4. db.f[i].parent = req[x].row.parent
      BY <2>1, <3>1, <3>3 DEF RowsNow, FolderParent, Kept
    <3>5. CASE op = "promoteFolder"
      <4>1. /\ req[r].q.id \notin DOMAIN db'.f
            /\ db'.f[i].parent = (IF db.f[i].parent = req[r].q.id THEN req[r].row.parent ELSE db.f[i].parent)
        BY <3>1, <3>3, <3>5, FolderRowSame
      <4>2. req[r].q.id \in Folder
        BY <3>5, CommitFacts DEF Query
      <4> QED
        BY <2>2, <3>1, <3>4, <4>1, <4>2
    <3>6. CASE op # "promoteFolder"
      BY <3>1, <3>3, <3>4, <3>6, FolderRowSame
    <3> QED
      BY <3>5, <3>6
  <2>5. FolderCount(x)'
    <3>1. SUFFICES ASSUME OnFolder(req[x].q), op \in Quiet, req[x].past \cap (Ops \ Quiet) = {}
                   PROVE  /\ i \in DOMAIN db'.f /\ db'.f[i].parent = req[x].row.parent
                          /\ db'.f[i].count = req[x].row.count
      BY <1>1, <2>1 DEF FolderCount, Kept, Folders, Ops, Quiet
    <3>2. i \in Folders /\ db.f[i].parent = req[x].row.parent /\ db.f[i].count = req[x].row.count
      BY <2>1, <3>1 DEF RowsNow, FolderCount, Kept
    <3> QED
      BY <3>1, <3>2, FolderRowSame DEF Quiet
  <2>6. HostFolder(x)'
    <3>1. SUFFICES ASSUME req[x].q.op = "deleteConnection", op \notin HostMoves, req[x].past \cap HostMoves = {}
                   PROVE  i \in DOMAIN db'.c /\ db'.c[i].folder = req[x].row.folder
      BY <2>1 DEF HostFolder, Kept, Conns, HostMoves
    <3>2. i \in Conns /\ db.c[i].folder = req[x].row.folder
      BY <2>1, <3>1 DEF RowsNow, HostFolder, Kept
    <3> QED
      BY <3>1, <3>2, ConnRowSame
  <2>7. HostFolders(x)'
    <3>1. SUFFICES ASSUME req[x].q.op = "moveConnections", op \notin HostMoves, req[x].past \cap HostMoves = {},
                          NEW c \in req[x].q.ids
                   PROVE  c \in DOMAIN db'.c /\ db'.c[c].folder = req[x].row.folders[c]
      BY <2>1 DEF HostFolders, Kept, Conns, HostMoves
    <3>2. c \in Conns /\ db.c[c].folder = req[x].row.folders[c]
      BY <2>1, <3>1 DEF RowsNow, HostFolders, Kept
    <3> QED
      BY <3>1, <3>2, ConnRowSame
  <2>8. Payload(x)'
    <3>1. SUFFICES ASSUME req[x].q.op \in {"updateConnection", "clearCredential"},
                          op \notin {"updateConnection", "clearCredential"},
                          req[x].past \cap {"updateConnection", "clearCredential"} = {}, i \in DOMAIN db'.c
                   PROVE  /\ db'.c[i].auth = req[x].row.auth /\ db'.c[i].secret = req[x].row.secret
                          /\ db'.c[i].pin = req[x].row.pin
      BY <2>1 DEF Payload, Kept, Conns
    <3>2. i \in Old \cup {Root}
      BY <2>2, <3>1 DEF Mentioned
    <3>3. i \in Conns
      <4>1. i \in Conn /\ Root \notin Conn
        BY <2>2, <3>1, StoreAssumption DEF Query
      <4>2. i \in Old
        BY <3>2, <4>1
      <4> QED
        BY <3>1, <4>2, NoReturn
    <3>4. /\ db.c[i].auth = req[x].row.auth /\ db.c[i].secret = req[x].row.secret
          /\ db.c[i].pin = req[x].row.pin
      BY <2>1, <3>1, <3>3 DEF RowsNow, Payload, Kept
    <3> QED
      BY <3>1, <3>3, <3>4, ConnRowSame
  <2> QED
    BY <2>4, <2>5, <2>6, <2>7, <2>8
<1> QED
  BY <1>3, <1>4

\* Lemma: a table that keeps some of the folders with their parents keeps the tree.
LEMMA KeptTree ==
  ASSUME NEW t, NEW u, Rooted(t), Rooted(u), DOMAIN u \subseteq DOMAIN t,
         \A f \in DOMAIN u : u[f].parent = t[f].parent
  PROVE  /\ \A f \in DOMAIN u : Above(u, f) = Above(t, f) /\ Above(t, f) \subseteq DOMAIN u
         /\ Acyclic(t) => Acyclic(u)
<1>1. \A f \in DOMAIN u : Above(u, f) = Above(t, f) /\ Above(t, f) \subseteq DOMAIN u
  BY KeptAbove, AboveClosed
<1>2. ASSUME Acyclic(t), NEW f \in DOMAIN u PROVE ~OnCycle(u, f)
  <2>1. SUFFICES ASSUME f \in Above(u, u[f].parent) PROVE FALSE
    BY DEF OnCycle
  <2>2. u[f].parent \in DOMAIN u
    BY <2>1, AboveNothing
  <2>3. f \in Above(t, t[f].parent) /\ f \in DOMAIN t
    BY <1>1, <2>1, <2>2
  <2> QED
    BY <1>2, <2>3 DEF Acyclic, OnCycle
<1> QED
  BY <1>1, <1>2 DEF Acyclic

\* Lemma: a new folder keeps the tree.
LEMMA InsertTree ==
  ASSUME NEW t, NEW u, Rooted(t), Rooted(u), NEW x, x \notin DOMAIN t, DOMAIN u = DOMAIN t \cup {x},
         \A f \in DOMAIN t : u[f].parent = t[f].parent, u[x].parent # x, Acyclic(t)
  PROVE  /\ Acyclic(u)
         /\ \A f \in DOMAIN t : Above(u, f) = Above(t, f)
         /\ Depth(u, x) = Depth(t, u[x].parent) + 1
<1>1. /\ \A f : f # x => Above(u, f) = Above(t, f)
      /\ Above(u, x) = {x} \cup Above(t, u[x].parent)
  BY InsertAbove
<1>2. x # Root /\ \A f \in DOMAIN t : t[f].parent # x
  BY DEF Rooted
<1>3. ASSUME NEW f \in DOMAIN t PROVE ~OnCycle(u, f)
  <2>1. Above(u, u[f].parent) = Above(t, t[f].parent)
    BY <1>1, <1>2
  <2> QED
    BY <2>1 DEF Acyclic, OnCycle
<1>4. ~OnCycle(u, x)
  <2>1. Above(u, u[x].parent) = Above(t, u[x].parent) /\ Above(t, u[x].parent) \subseteq DOMAIN t
    BY <1>1, AboveClosed
  <2> QED
    BY <2>1 DEF OnCycle
<1>5. Depth(u, x) = Depth(u, u[x].parent) + 1
  BY <1>4, DepthStep
<1>6. Depth(u, u[x].parent) = Depth(t, u[x].parent)
  BY <1>1 DEF Depth
<1> QED
  BY <1>1, <1>3, <1>4, <1>5, <1>6 DEF Acyclic

\* The folders that the recursive queries of a request found.
SeenRows(r) ==
  req[r].at = "commit" =>
  /\ DOMAIN req[r].seen \subseteq Old
  /\ Mentioned(req[r].q, req[r].row) \cap Folders \subseteq DOMAIN req[r].seen
  /\ Kept(r, {"createFolder"}) => Folders \subseteq DOMAIN req[r].seen
  /\ ~Refused(req[r].seen, req[r].q, req[r].row)
  /\ req[r].q.op = "deleteFolder" => ~OnCycle(req[r].seen, req[r].q.id)
\* And how they lay in one another.
SeenTree(r) ==
  req[r].at = "commit" =>
  /\ Acyclic(req[r].seen)
  /\ Kept(r, {"moveFolder"}) =>
       \A f \in DOMAIN req[r].seen \cap Folders : Above(db.f, f) = Above(req[r].seen, f) \cap Folders
  /\ Kept(r, {"moveFolder", "promoteFolder"}) =>
       \A f \in DOMAIN req[r].seen \cap Folders : Above(req[r].seen, f) \subseteq Folders
SeensNow == \A r \in Request : SeenRows(r) /\ ("tree" \notin raced => SeenTree(r))

\* The tree of the tables, as TreeSound states it.
SoundTree == Acyclic(db.f) /\ \A f \in Folders : Depth(db.f, f) <= MaxDepth

\* Lemma: what the overtaking that no race is made of.
LEMMA NoRace ==
  ASSUME NEW r \in Request, Commit(r), "tree" \notin raced'
  PROVE  /\ "tree" \notin raced
         /\ req[r].q.op = "moveFolder" => Kept(r, {"moveFolder"}) /\ Kept(r, {"createFolder"})
         /\ req[r].q.op \in {"createFolder", "promoteFolder"} => Kept(r, {"moveFolder"})
<1>1. "tree" \in DOMAIN Races
  BY DEF Races
<1>2. /\ "tree" \notin raced
      /\ \A op \in req[r].past : <<req[r].q.op, op>> \notin Races["tree"]
  BY <1>1 DEF Commit
<1>3. Races["tree"] = ({"moveFolder"} \X {"moveFolder", "createFolder"})
                        \cup ({"createFolder", "promoteFolder"} \X {"moveFolder"})
  BY DEF Races
<1> QED
  BY <1>2, <1>3 DEF Kept

\* Lemma: a commit leaves a tree.  Only a move changes the order of the folders.
LEMMA TreeCommit ==
  ASSUME Types, Ids, RowsNow, SeensNow, SoundTree, NEW r \in Request, Commit(r), "tree" \notin raced'
  PROVE  /\ SoundTree'
         /\ req[r].q.op # "moveFolder" =>
              \A f \in Folders \cap DOMAIN db'.f : Above(db'.f, f) = Above(db.f, f) \cap DOMAIN db'.f
         /\ req[r].q.op \notin {"moveFolder", "promoteFolder"} =>
              \A f \in Folders \cap DOMAIN db'.f : Above(db.f, f) \subseteq DOMAIN db'.f
<1> DEFINE q == req[r].q
           row == req[r].row
           t == req[r].seen
           F == db.f
           u == db'.f
           x == q.id
<1>1. /\ req[r].at = "commit" /\ q \in Query /\ RowTyped(q, row) /\ q.op \in Ops
      /\ Rooted(t) /\ Rooted(F) /\ Rooted(u) /\ FolderChange(F, u, t, q, row)
      /\ Folders = DOMAIN F
  BY CommitFacts DEF Folders
<1>2. /\ DOMAIN t \subseteq Old
      /\ Mentioned(q, row) \cap DOMAIN F \subseteq DOMAIN t
      /\ Kept(r, {"createFolder"}) => DOMAIN F \subseteq DOMAIN t
      /\ ~Refused(t, q, row)
  BY <1>1 DEF SeensNow, SeenRows
<1>3. /\ "tree" \notin raced
      /\ q.op = "moveFolder" => Kept(r, {"moveFolder"}) /\ Kept(r, {"createFolder"})
      /\ q.op \in {"createFolder", "promoteFolder"} => Kept(r, {"moveFolder"})
  BY NoRace
<1>4. /\ Acyclic(t)
      /\ Kept(r, {"moveFolder"}) => \A f \in DOMAIN t \cap DOMAIN F : Above(F, f) = Above(t, f) \cap DOMAIN F
  BY <1>1, <1>3 DEF SeensNow, SeenTree
<1>5. Acyclic(F) /\ \A f \in DOMAIN F : Depth(F, f) <= MaxDepth
  BY <1>1 DEF SoundTree
<1>6. SoundTree' <=> Acyclic(u) /\ \A f \in DOMAIN u : Depth(u, f) <= MaxDepth
  BY DEF SoundTree, Folders
<1>7. MaxDepth \in Nat \ {0} /\ Root \notin Folder
  BY StoreAssumption
<1>8. Mentioned(q, row) \subseteq Old \cup {Root} /\ DOMAIN F \subseteq Old /\ DOMAIN F \subseteq Folder
  BY <1>1 DEF Ids, Knows, Busy, Fresh, Folders, Types, Typed
<1>9. Creates(q) => x \notin Old
  <2>1. Creates(q) => Making(r)
    BY <1>1 DEF Making, Busy
  <2> QED
    BY <2>1 DEF Old, Reserved
<1> DEFINE Same1 == \A f \in DOMAIN F \cap DOMAIN u : Above(u, f) = Above(F, f) \cap DOMAIN u
           Same2 == \A f \in DOMAIN F \cap DOMAIN u : Above(F, f) \subseteq DOMAIN u
           Goal1 == Acyclic(u) /\ \A f \in DOMAIN u : Depth(u, f) <= MaxDepth
<1>10. x = q.id /\ q.op \in Ops
  BY <1>1
<1> SUFFICES /\ Goal1
             /\ q.op # "moveFolder" => Same1
             /\ q.op \notin {"moveFolder", "promoteFolder"} => Same2
  BY <1>1, <1>6
<1> HIDE DEF F, u, t, q, row, x
<1>11. ASSUME DOMAIN u \subseteq DOMAIN F, \A f \in DOMAIN u : u[f].parent = F[f].parent
       PROVE  Goal1 /\ Same1 /\ Same2
  <2>1. /\ \A f \in DOMAIN u : Above(u, f) = Above(F, f) /\ Above(F, f) \subseteq DOMAIN u
        /\ Acyclic(u)
    BY <1>1, <1>5, <1>11, KeptTree
  <2> QED
    BY <1>5, <1>11, <2>1 DEF Depth
<1>12. CASE q.op \notin {"createFolder", "moveFolder", "promoteFolder"}
  <2>1. CASE q.op = "deleteFolder"
    BY <1>1, <1>11, <1>12, <2>1 DEF FolderChange
  <2>2. CASE q.op # "deleteFolder"
    BY <1>1, <1>11, <1>12, <2>2 DEF FolderChange
  <2> QED
    BY <1>11, <2>1, <2>2
<1>13. CASE q.op = "createFolder"
  <2>1. /\ DOMAIN u = DOMAIN F \cup {x} /\ u[x].parent = q.to
        /\ \A f \in DOMAIN F : f # x => u[f] = F[f]
    BY <1>1, <1>10, <1>13 DEF FolderChange
  <2>2. x \notin DOMAIN F /\ q.to # x /\ q.to \in DOMAIN F \cup {Root}
    <3>1. x \notin Old /\ x \in Folder
      BY <1>1, <1>9, <1>10, <1>13 DEF Creates, Query
    <3>2. q.to \in Old \cup {Root}
      BY <1>8, <1>13 DEF Mentioned
    <3>3. q.to \in DOMAIN u \cup {Root}
      BY <1>1, <2>1 DEF Rooted
    <3> QED
      BY <1>7, <1>8, <2>1, <3>1, <3>2, <3>3
  <2>3. /\ Acyclic(u) /\ \A f \in DOMAIN F : Above(u, f) = Above(F, f)
        /\ Depth(u, x) = Depth(F, q.to) + 1
    <3>1. \A f \in DOMAIN F : u[f].parent = F[f].parent
      BY <2>1, <2>2
    <3> QED
      BY <1>1, <1>5, <2>1, <2>2, <3>1, InsertTree
  <2>4. \A f \in DOMAIN F : Above(F, f) \subseteq DOMAIN F
    BY <1>1, AboveClosed
  <2>5. Depth(F, q.to) + 1 <= MaxDepth
    <3>1. CASE q.to = Root
      <4>1. Depth(F, q.to) = 0
        BY <1>1, <3>1, DepthFacts DEF Rooted
      <4> QED
        BY <1>7, <4>1
    <3>2. CASE q.to # Root
      <4>1. q.to \in DOMAIN F \cap DOMAIN t
        BY <1>2, <1>13, <2>2, <3>2 DEF Mentioned
      <4>2. Above(F, q.to) \subseteq Above(t, q.to)
        BY <1>3, <1>4, <1>13, <4>1
      <4>3. Depth(F, q.to) <= Depth(t, q.to)
        BY <1>1, <4>2, DepthFacts, FS_Subset DEF Depth
      <4>4. ~(Depth(t, q.to) >= MaxDepth)
        BY <1>2, <1>13, <3>2 DEF Refused
      <4>5. Depth(F, q.to) \in Nat /\ Depth(t, q.to) \in Nat
        BY <1>1, DepthFacts
      <4> QED
        BY <1>7, <4>3, <4>4, <4>5
    <3> QED
      BY <3>1, <3>2
  <2>6. \A f \in DOMAIN F : Depth(u, f) = Depth(F, f)
    BY <2>3 DEF Depth
  <2> QED
    BY <1>5, <2>1, <2>3, <2>4, <2>5, <2>6
<1>14. CASE q.op = "moveFolder"
  <2>1. /\ DOMAIN u = DOMAIN F
        /\ \A f \in DOMAIN F : u[f].parent = IF f = x /\ q.to # row.parent THEN q.to ELSE F[f].parent
    BY <1>1, <1>10, <1>14 DEF FolderChange
  <2>2. CASE q.to = row.parent \/ x \notin DOMAIN F
    BY <1>11, <1>14, <2>1, <2>2
  <2>3. CASE q.to # row.parent /\ x \in DOMAIN F
    <3>1. /\ u[x].parent = q.to /\ \A f \in DOMAIN F \ {x} : u[f].parent = F[f].parent
      BY <2>1, <2>3
    <3>2. \A f \in DOMAIN F : f \in DOMAIN t /\ Above(F, f) = Above(t, f) \cap DOMAIN F
      BY <1>2, <1>3, <1>4, <1>14
    <3>3. /\ q.to # x /\ q.to \notin Below(t, x)
          /\ ~(Depth(t, q.to) + Height(t, x) > MaxDepth)
      BY <1>2, <1>10, <1>14, <2>3 DEF Refused
    <3>4. x \notin Above(F, q.to)
      <4>1. SUFFICES ASSUME x \in Above(F, q.to) PROVE FALSE
        OBVIOUS
      <4>2. q.to \in DOMAIN F
        BY <1>1, <4>1, AboveNothing
      <4>3. q.to \in DOMAIN t /\ x \in Above(t, q.to)
        BY <3>2, <4>1, <4>2
      <4> QED
        BY <3>3, <4>3 DEF Below
    <3>5. Acyclic(u)
      BY <1>1, <1>5, <2>1, <2>3, <3>1, <3>4, MoveAcyclic
    <3>6. ASSUME NEW f \in DOMAIN u PROVE Depth(u, f) <= MaxDepth
      <4>1. CASE x \notin Above(F, f)
        <5>1. Above(u, f) = Above(F, f)
          BY <1>1, <1>5, <2>1, <2>3, <3>1, <3>4, <4>1, MoveAbove
        <5> QED
          BY <1>5, <2>1, <3>6, <5>1 DEF Depth
      <4>2. CASE x \in Above(F, f)
        <5>1. Depth(u, f) <= Cardinality(Between(F, f, x)) + Depth(F, q.to)
          BY <1>1, <1>5, <2>1, <2>3, <3>1, <3>4, <4>2, MoveDepth
        <5>2. x \in Above(t, f) /\ f \in DOMAIN t
          BY <2>1, <3>2, <3>6, <4>2
        <5>3. IsFiniteSet(Between(t, f, x)) /\ Cardinality(Between(t, f, x)) = Depth(t, f) - Depth(t, x) + 1
          BY <1>1, <1>4, <5>2, BetweenFacts
        <5>4. Between(F, f, x) \subseteq Between(t, f, x)
          <6>1. Above(F, f) \subseteq DOMAIN F
            BY <1>1, AboveClosed
          <6> QED
            BY <2>1, <3>2, <3>6, <6>1 DEF Between
        <5>5. Cardinality(Between(F, f, x)) <= Cardinality(Between(t, f, x)) /\ Cardinality(Between(F, f, x)) \in Nat
          BY <5>3, <5>4, FS_Subset, FS_CardinalityType
        <5>6. Height(t, x) \in Nat /\ Depth(t, f) - Depth(t, x) + 1 <= Height(t, x)
          BY <1>1, <5>2, HeightFacts DEF Below
        <5>7. Depth(F, q.to) <= Depth(t, q.to)
          <6>1. Above(F, q.to) \subseteq Above(t, q.to)
            BY <1>1, <3>2, AboveNothing
          <6> QED
            BY <1>1, <6>1, DepthFacts, FS_Subset DEF Depth
        <5>8. /\ Depth(F, q.to) \in Nat /\ Depth(t, q.to) \in Nat /\ Depth(u, f) \in Nat
              /\ Depth(t, f) \in Nat /\ Depth(t, x) \in Nat
          BY <1>1, DepthFacts
        <5> QED
          BY <1>7, <3>3, <5>1, <5>3, <5>5, <5>6, <5>7, <5>8
      <4> QED
        BY <4>1, <4>2
    <3> QED
      BY <1>14, <3>5, <3>6
  <2> QED
    BY <2>2, <2>3
<1>15. CASE q.op = "promoteFolder"
  <2>1. /\ DOMAIN u = DOMAIN F \ {x}
        /\ \A f \in DOMAIN u : u[f].parent = IF F[f].parent = x THEN row.parent ELSE F[f].parent
    BY <1>1, <1>10, <1>15 DEF FolderChange
  <2>2. CASE \A f \in DOMAIN u : F[f].parent # x
    BY <1>11, <1>15, <2>1, <2>2
  <2>3. CASE \E f \in DOMAIN u : F[f].parent = x
    <3>1. x \in DOMAIN F
      <4>1. x \in Folder
        BY <1>1, <1>10, <1>15 DEF Query
      <4> QED
        BY <1>1, <1>7, <2>1, <2>3, <4>1 DEF Rooted
    <3>2. row.parent \in DOMAIN F \cup {Root}
      BY <1>1, <2>1, <2>3 DEF Rooted
    <3>3. F[x].parent = row.parent
      <4>1. Busy(r) /\ OnFolder(q) /\ Kept(r, {"moveFolder"})
        BY <1>1, <1>3, <1>15 DEF Busy, OnFolder
      <4>2. FolderParent(r)
        BY DEF RowsNow
      <4> QED
        BY <3>1, <3>2, <4>1, <4>2 DEF FolderParent, Folders, Places, F, q, row, x
    <3>4. (\A f : f # x => Above(u, f) = Above(F, f) \ {x}) /\ Acyclic(u)
      BY <1>1, <1>5, <2>1, <3>1, <3>3, PromoteAbove
    <3>5. \A f \in DOMAIN F \cap DOMAIN u : Above(u, f) = Above(F, f) \cap DOMAIN u
      BY <1>1, <2>1, <3>4, AboveClosed
    <3>6. \A f \in DOMAIN u : Depth(u, f) <= Depth(F, f)
      <4> TAKE f \in DOMAIN u
      <4>1. Above(u, f) \subseteq Above(F, f)
        BY <2>1, <3>4
      <4> QED
        BY <1>1, <4>1, DepthFacts, FS_Subset DEF Depth
    <3>7. \A f \in DOMAIN u : Depth(u, f) \in Nat /\ Depth(F, f) \in Nat
      BY <1>1, DepthFacts
    <3> QED
      BY <1>5, <1>7, <1>15, <2>1, <3>4, <3>5, <3>6, <3>7
  <2> QED
    BY <2>2, <2>3
<1> QED
  BY <1>12, <1>13, <1>14, <1>15

\* What an operation names is there.
Present(q) ==
  /\ q.op \in {"createConnection", "moveConnections", "createFolder", "moveFolder"} => q.to \in Places
  /\ q.op \in {"updateConnection", "clearCredential", "deleteConnection"} => q.id \in Conns
  /\ q.op = "moveConnections" => q.ids \subseteq Conns
  /\ q.op \in {"renameFolder", "moveFolder", "promoteFolder", "deleteFolder"} => q.id \in Folders

\* A request that nothing overtook finds the tables as it read them.
Untouched(r) ==
  Busy(r) /\ req[r].past = {} =>
  /\ Present(req[r].q) /\ req[r].row = Row(req[r].q)
  /\ req[r].at = "commit" => req[r].seen = db.f

\* The inductive invariant.
IInv ==
  /\ Types /\ Ids /\ RowsNow /\ SeensNow
  /\ \A r \in Request : Untouched(r)
  /\ "tree" \notin raced => SoundTree

\* Lemma: what a request that begins has read.
LEMMA RowsBegin ==
  ASSUME Typed(db), NEW q \in ConnectionQueries \cup FolderQueries, NEW r \in Request,
         req'[r].q = q, req'[r].row = Row(q), db' = db
  PROVE  (FolderParent(r) /\ FolderCount(r) /\ HostFolder(r) /\ HostFolders(r) /\ Payload(r))'
<1>1. Present(q)
  BY QueryCases DEF Present
<1>2. q.op \in {"moveFolder", "promoteFolder", "deleteFolder"} =>
        Row(q) = [parent |-> db.f[q.id].parent, count |-> db.f[q.id].count]
  BY DEF Row
<1>3. q.op = "deleteConnection" => Row(q) = [folder |-> db.c[q.id].folder]
  BY DEF Row
<1>4. q.op = "moveConnections" => Row(q) = [folders |-> [c \in q.ids |-> db.c[c].folder]]
  BY DEF Row
<1>5. q.op \in {"updateConnection", "clearCredential"} => Row(q) = db.c[q.id]
  BY DEF Row
<1>6. FolderParent(r)' /\ FolderCount(r)'
  BY <1>1, <1>2 DEF FolderParent, FolderCount, OnFolder, Folders, Present
<1>7. HostFolder(r)'
  BY <1>1, <1>3 DEF HostFolder, Conns, Present
<1>8. HostFolders(r)'
  BY <1>1, <1>4 DEF HostFolders, Conns, Present
<1>9. Payload(r)'
  BY <1>5 DEF Payload
<1> QED
  BY <1>6, <1>7, <1>8, <1>9

\* Lemma: and what its queries have found.
LEMMA SeenBegin ==
  ASSUME Types, Ids, "tree" \notin raced => SoundTree, NEW r \in Request,
         req'[r].at = "commit" =>
           /\ req'[r].seen = db.f /\ ~Refused(db.f, req'[r].q, req'[r].row)
           /\ req'[r].q.op = "deleteFolder" => ~OnCycle(db.f, req'[r].q.id),
         db' = db, raced' = raced, Folders \subseteq Old'
  PROVE  (SeenRows(r) /\ ("tree" \notin raced => SeenTree(r)))'
<1>1. SeenRows(r)'
  BY DEF SeenRows, Folders
<1>2. Rooted(db.f)
  BY TypedRooted DEF Types
<1>3. \A f : Above(db.f, f) \subseteq Folders
  BY <1>2, AboveClosed DEF Folders
<1>4. ASSUME "tree" \notin raced PROVE SeenTree(r)'
  <2>1. Acyclic(db.f)
    BY <1>4 DEF SoundTree
  <2>2. \A f : Above(db.f, f) = Above(db.f, f) \cap Folders
    BY <1>3
  <2> QED
    BY <1>3, <2>1, <2>2 DEF SeenTree, Folders
<1> QED
  BY <1>1, <1>4

\* Lemma: what the queries found stays true until a request that changes it commits.
LEMMA SeenCommit ==
  ASSUME Types, Ids, RowsNow, SeensNow, "tree" \notin raced => SoundTree, NEW r \in Request, Commit(r),
         Old \subseteq Old'
  PROVE  SeensNow' /\ ("tree" \notin raced' => SoundTree')
<1> DEFINE op == req[r].q.op
<1>1. op \in Ops /\ req' = Overtakes(r, op)
  BY CommitFacts
<1>2. /\ req'[r] = Idle
      /\ \A x \in Request \ {r} :
           /\ req[x].at = req'[x].at
           /\ Busy(x) => /\ req'[x].q = req[x].q /\ req'[x].row = req[x].row
                         /\ req'[x].past = req[x].past \cup {op}
           /\ req[x].at = "commit" => req'[x].seen = req[x].seen
  BY <1>1, OvertakenFacts DEF Types
<1>3. "tree" \notin raced' =>
         /\ SoundTree' /\ "tree" \notin raced
         /\ op # "moveFolder" =>
              \A f \in Folders \cap DOMAIN db'.f : Above(db'.f, f) = Above(db.f, f) \cap DOMAIN db'.f
         /\ op \notin {"moveFolder", "promoteFolder"} =>
              \A f \in Folders \cap DOMAIN db'.f : Above(db.f, f) \subseteq DOMAIN db'.f
  BY NoRace, TreeCommit
<1>4. ASSUME NEW x \in Request, req'[x].at = "commit"
      PROVE  SeenRows(x)' /\ ("tree" \notin raced' => SeenTree(x)')
  <2> DEFINE t == req[x].seen
  <2>1. /\ x # r /\ req[x].at = "commit" /\ req'[x].q = req[x].q /\ req'[x].row = req[x].row
        /\ req'[x].past = req[x].past \cup {op} /\ req'[x].seen = t
    BY <1>2, <1>4 DEF Busy, Idle
  <2>2. Mentioned(req[x].q, req[x].row) \subseteq Old \cup {Root} /\ Root \notin DOMAIN db'.f
    BY <2>1, StoreAssumption, CommitFacts DEF Ids, Knows, Busy, Typed
  <2>3. /\ DOMAIN t \subseteq Old
        /\ Mentioned(req[x].q, req[x].row) \cap Folders \subseteq DOMAIN t
        /\ Kept(x, {"createFolder"}) => Folders \subseteq DOMAIN t
        /\ ~Refused(t, req[x].q, req[x].row)
        /\ req[x].q.op = "deleteFolder" => ~OnCycle(t, req[x].q.id)
    BY <2>1 DEF SeensNow, SeenRows
  <2>4. \A i \in Old : i \in DOMAIN db'.f => i \in Folders
    BY NoReturn
  <2>5. Mentioned(req[x].q, req[x].row) \cap DOMAIN db'.f \subseteq DOMAIN t
    BY <2>2, <2>3, <2>4
  <2>6. Kept(x, {"createFolder"})' => DOMAIN db'.f \subseteq DOMAIN t
    <3>1. SUFFICES ASSUME req[x].past \cap {"createFolder"} = {}, op # "createFolder"
                   PROVE  DOMAIN db'.f \subseteq DOMAIN t
      BY <2>1 DEF Kept
    <3>2. \A f \in DOMAIN db'.f : f \in Folders
      BY <3>1, CommitFacts
    <3> QED
      BY <2>3, <3>1, <3>2 DEF Kept
  <2>7. SeenRows(x)'
    BY <2>1, <2>3, <2>5, <2>6 DEF SeenRows, Folders
  <2>8. ASSUME "tree" \notin raced' PROVE SeenTree(x)'
    <3>1. /\ Acyclic(t)
          /\ Kept(x, {"moveFolder"}) => \A f \in DOMAIN t \cap Folders : Above(db.f, f) = Above(t, f) \cap Folders
          /\ Kept(x, {"moveFolder", "promoteFolder"}) => \A f \in DOMAIN t \cap Folders : Above(t, f) \subseteq Folders
      BY <1>3, <2>1, <2>8 DEF SeensNow, SeenTree
    <3>2. Rooted(t)
      BY <2>1 DEF Types, ReqTyped, Idle
    <3>3. \A f : Above(t, f) \subseteq Old
      BY <2>3, <3>2, AboveClosed
    <3>4. ASSUME Kept(x, {"moveFolder"})', NEW f \in DOMAIN t \cap DOMAIN db'.f
          PROVE  Above(db'.f, f) = Above(t, f) \cap DOMAIN db'.f
      <4>1. Kept(x, {"moveFolder"}) /\ op # "moveFolder"
        BY <2>1, <3>4 DEF Kept
      <4>2. f \in Folders
        BY <2>3, <2>4
      <4>3. Above(db'.f, f) = Above(db.f, f) \cap DOMAIN db'.f
        BY <1>3, <2>8, <4>1, <4>2
      <4>4. Above(db.f, f) = Above(t, f) \cap Folders
        BY <3>1, <4>1, <4>2
      <4> QED
        BY <2>4, <3>3, <4>3, <4>4
    <3>5. ASSUME Kept(x, {"moveFolder", "promoteFolder"})', NEW f \in DOMAIN t \cap DOMAIN db'.f
          PROVE  Above(t, f) \subseteq DOMAIN db'.f
      <4>1. Kept(x, {"moveFolder", "promoteFolder"}) /\ Kept(x, {"moveFolder"})
            /\ op \notin {"moveFolder", "promoteFolder"}
        BY <2>1, <3>5 DEF Kept
      <4>2. f \in Folders
        BY <2>3, <2>4
      <4>3. Above(db.f, f) \subseteq DOMAIN db'.f
        BY <1>3, <2>8, <4>1, <4>2
      <4>4. Above(db.f, f) = Above(t, f) \cap Folders /\ Above(t, f) \subseteq Folders
        BY <3>1, <4>1, <4>2
      <4> QED
        BY <4>3, <4>4
    <3> QED
      BY <2>1, <3>1, <3>4, <3>5 DEF SeenTree, Folders
  <2> QED
    BY <2>7, <2>8
<1>5. ASSUME NEW x \in Request, req'[x].at # "commit"
      PROVE  SeenRows(x)' /\ ("tree" \notin raced' => SeenTree(x)')
  BY <1>5 DEF SeenRows, SeenTree
<1> QED
  BY <1>3, <1>4, <1>5 DEF SeensNow

\* Lemma: the invariant is inductive.
LEMMA Inductive ==
  ASSUME IInv, [Next]_vars
  PROVE  IInv'
<1>1. Types /\ Ids /\ RowsNow /\ SeensNow /\ ("tree" \notin raced => SoundTree)
      /\ \A r \in Request : Untouched(r)
  BY DEF IInv
<1>2. Types' /\ Ids' /\ Old \subseteq Old'
  BY <1>1, TypesStep, NamesStep
<1> DEFINE Rows(r) == FolderParent(r) /\ FolderCount(r) /\ HostFolder(r) /\ HostFolders(r) /\ Payload(r)
           Seen(r) == SeenRows(r) /\ ("tree" \notin raced => SeenTree(r))
<1>3. ASSUME db' = db, raced' = raced, NEW x \in Request, req'[x] = req[x]
      PROVE  Rows(x)' /\ Seen(x)' /\ Untouched(x)'
  <2>1. Rows(x)'
    BY <1>1, <1>3 DEF RowsNow, FolderParent, FolderCount, HostFolder, HostFolders, Payload, Busy, Kept,
                      Folders, Conns, Places
  <2>2. Seen(x)'
    BY <1>1, <1>2, <1>3 DEF SeensNow, SeenRows, SeenTree, Kept, Folders
  <2>3. Untouched(x)'
    BY <1>1, <1>3 DEF Untouched, Busy, Present, Row, Folders, Conns, Places
  <2> QED
    BY <2>1, <2>2, <2>3
<1>4. ASSUME db' = db, raced' = raced, \A x \in Request : Rows(x)' /\ Seen(x)' /\ Untouched(x)'
      PROVE  IInv'
  <2>1. RowsNow' /\ SeensNow'
    BY <1>4 DEF RowsNow, SeensNow
  <2>2. ("tree" \notin raced => SoundTree)'
    BY <1>1, <1>4 DEF SoundTree, Folders
  <2> QED
    BY <1>2, <1>4, <2>1, <2>2 DEF IInv
<1>5. Folders \subseteq Old'
  BY <1>1, <1>2 DEF Ids, Fresh
<1>6. ASSUME NEW r \in Request, Begin(r) PROVE IInv'
  <2>1. PICK q \in ConnectionQueries \cup FolderQueries :
           /\ \/ /\ req'[r] = [at |-> "commit", q |-> q, row |-> Row(q), seen |-> db.f, past |-> {}]
                 /\ ~Refused(db.f, q, Row(q)) /\ q.op # "deleteFolder"
              \/ req'[r] = [at |-> "measure", q |-> q, row |-> Row(q), past |-> {}]
           /\ \A x \in Request \ {r} : req'[x] = req[x]
           /\ db' = db /\ raced' = raced
           /\ req'[r].q = q /\ req'[r].row = Row(q)
    BY <1>1, <1>6, BeginFacts
  <2>2. Rows(r)'
    BY <1>1, <2>1, RowsBegin DEF Types
  <2>3. Seen(r)'
    <3>1. req'[r].at = "commit" =>
           /\ req'[r].seen = db.f /\ ~Refused(db.f, req'[r].q, req'[r].row)
           /\ req'[r].q.op = "deleteFolder" => ~OnCycle(db.f, req'[r].q.id)
      BY <2>1
    <3> QED
      BY <1>1, <1>5, <2>1, <3>1, SeenBegin
  <2>4. Untouched(r)'
    <3>1. Present(q)
      BY <1>1, QueryCases DEF Present, Types
    <3>2. Present(q)' /\ Row(q)' = Row(q)
      BY <2>1, <3>1 DEF Present, Row, Folders, Conns, Places
    <3>3. req'[r].at = "commit" => req'[r].seen = db.f
      BY <2>1
    <3> QED
      BY <2>1, <3>2, <3>3 DEF Untouched
  <2> HIDE DEF Rows, Seen
  <2> QED
    BY <1>3, <1>4, <2>1, <2>2, <2>3, <2>4
<1>7. ASSUME NEW r \in Request, Measure(r) PROVE IInv'
  <2>1. /\ req[r].at = "measure" /\ ~Refused(db.f, req[r].q, req[r].row)
        /\ ~EndlessFor(db.f, req[r].q, req[r].row)
        /\ req'[r] = [at |-> "commit", q |-> req[r].q, row |-> req[r].row, seen |-> db.f, past |-> req[r].past]
        /\ \A x \in Request \ {r} : req'[x] = req[x]
        /\ db' = db /\ raced' = raced
    BY <1>1, <1>7, MeasureFacts
  <2>2. req'[r].q = req[r].q /\ req'[r].row = req[r].row /\ req'[r].past = req[r].past /\ Busy(r) /\ Busy(r)'
        /\ req'[r].seen = db.f
    BY <2>1 DEF Busy
  <2>3. Rows(r)'
    <3>1. Rows(r)
      BY <1>1, <2>1 DEF RowsNow
    <3>2. FolderParent(r)' /\ FolderCount(r)'
      BY <2>1, <2>2, <3>1 DEF FolderParent, FolderCount, Kept, Folders, Places
    <3>3. HostFolder(r)' /\ HostFolders(r)'
      BY <2>1, <2>2, <3>1 DEF HostFolder, HostFolders, Kept, Conns
    <3>4. Payload(r)'
      BY <2>1, <2>2, <3>1 DEF Payload, Kept, Conns
    <3> QED
      BY <3>2, <3>3, <3>4
  <2>4. Seen(r)'
    <3>1. req[r].q.op = "deleteFolder" => ~OnCycle(db.f, req[r].q.id)
      BY <2>1 DEF EndlessFor
    <3> QED
      BY <1>1, <1>5, <2>1, <2>2, <3>1, SeenBegin
  <2>5. Untouched(r)'
    <3>1. SUFFICES ASSUME req[r].past = {} PROVE Present(req[r].q)' /\ req[r].row = Row(req[r].q)'
      BY <2>1, <2>2 DEF Untouched
    <3>2. Present(req[r].q) /\ req[r].row = Row(req[r].q)
      BY <1>1, <2>2, <3>1 DEF Untouched
    <3> QED
      BY <2>1, <2>2, <3>2 DEF Present, Row, Folders, Conns, Places
  <2> HIDE DEF Rows, Seen
  <2> QED
    BY <1>3, <1>4, <2>1, <2>3, <2>4, <2>5
<1>8. ASSUME NEW r \in Request, Commit(r) PROVE IInv'
  <2>1. RowsNow'
    BY <1>1, <1>8, RowsCommit
  <2>2. SeensNow' /\ ("tree" \notin raced' => SoundTree')
    BY <1>1, <1>2, <1>8, SeenCommit
  <2>3. ASSUME NEW x \in Request PROVE Untouched(x)'
    <3>1. req[r].q.op \in Ops /\ req' = Overtakes(r, req[r].q.op)
      BY <1>1, <1>8, CommitFacts
    <3>2. /\ req'[r] = Idle
          /\ x # r => /\ req[x].at = req'[x].at
                      /\ Busy(x) => req'[x].past = req[x].past \cup {req[r].q.op}
      BY <1>1, <3>1, OvertakenFacts DEF Types
    <3> QED
      BY <3>2 DEF Untouched, Busy, Idle
  <2> QED
    BY <1>2, <2>1, <2>2, <2>3 DEF IInv
<1>9. ASSUME NEW r \in Request, Reject(r) \/ Refuse(r) PROVE IInv'
  <2>1. /\ req'[r] = Idle /\ \A x \in Request \ {r} : req'[x] = req[x]
        /\ db' = db /\ raced' = raced
    BY <1>1, <1>9, QuitFacts
  <2>2. Rows(r)' /\ Seen(r)' /\ Untouched(r)'
    BY <2>1 DEF FolderParent, FolderCount, HostFolder, HostFolders, Payload, SeenRows, SeenTree, Untouched,
                Busy, Idle
  <2> HIDE DEF Rows, Seen
  <2> QED
    BY <1>3, <1>4, <2>1, <2>2
<1>10. CASE UNCHANGED vars
  <2>1. db' = db /\ raced' = raced /\ req' = req
    BY <1>10 DEF vars
  <2> HIDE DEF Rows, Seen
  <2> QED
    BY <1>3, <1>4, <2>1
<1> QED
  BY <1>6, <1>7, <1>8, <1>9, <1>10 DEF Next

\* Lemma: it holds at first.
LEMMA Initial ==
  ASSUME Init
  PROVE  IInv
<1>1. db \in InitTables /\ req = [r \in Request |-> Idle] /\ begun = 0 /\ used = Folders \cup Conns /\ raced = {}
  BY DEF Init
<1> DEFINE P(S) == [S -> S \cup {Root}]
           N(S) == [S -> Name]
           K(S, T) == [T -> [folder : S \cup {Root}, auth : AuthType, secret : {TRUE}, pin : {FALSE}]]
           Any(S, T) == {Tables(parent, name, config) : parent \in P(S), name \in N(S), config \in K(S, T)}
           Sane(S, T) == {d \in Any(S, T) : Legal(d) /\ Acyclic(d.f) /\ \A f \in S : Depth(d.f, f) <= MaxDepth}
<1>2. PICK S \in SUBSET Folder, T \in SUBSET Conn : db \in Sane(S, T)
  <2>1. InitTables = UNION {Sane(S, T) : S \in SUBSET Folder, T \in SUBSET Conn}
    BY DEF InitTables
  <2> HIDE DEF Sane
  <2> QED
    BY <1>1, <2>1
<1>4. db \in Any(S, T) /\ Legal(db) /\ Acyclic(db.f) /\ \A f \in S : Depth(db.f, f) <= MaxDepth
  <2> HIDE DEF Any
  <2> QED
    BY <1>2
<1>3. PICK parent \in P(S), name \in N(S), config \in K(S, T) : db = Tables(parent, name, config)
  <2> HIDE DEF P, N, K
  <2> QED
    BY <1>4
<1> DEFINE bare == [f \in DOMAIN parent |-> [parent |-> parent[f], name |-> name[f]]]
           count(f) == Cardinality(HostsIn(bare, config, f))
<1>5. /\ db.f = [f \in S |-> [parent |-> parent[f], name |-> name[f], count |-> count(f)]]
      /\ db.c = config /\ db = [f |-> db.f, c |-> db.c]
  BY <1>3 DEF Tables
<1>6. \A f : count(f) \in Int
  <2> TAKE f
  <2>1. IsFiniteSet(T) /\ HostsIn(bare, config, f) \in SUBSET T
    BY StoreAssumption, FS_Subset DEF HostsIn
  <2>2. IsFiniteSet(HostsIn(bare, config, f))
    BY <2>1, FS_Subset
  <2> QED
    BY <2>2, FS_CardinalityType
<1> HIDE DEF count
<1>7. Typed(db)
  <2>1. db.f \in [S -> FolderRow] /\ DOMAIN db.f = S
    BY <1>5, <1>6 DEF FolderRow
  <2>2. db.c \in [T -> ConnRow] /\ DOMAIN db.c = T
    BY <1>5 DEF ConnRow
  <2> QED
    BY <1>4, <1>5, <2>1, <2>2 DEF Typed
<1>8. \A r \in Request : ~Busy(r) /\ req[r] = Idle /\ req[r].at = "idle"
  BY <1>1 DEF Busy, Idle
<1>9. Types
  BY <1>1, <1>7, <1>8, StoreAssumption DEF Types, ReqTyped
<1>10. Ids
  BY <1>1, <1>8 DEF Ids, Fresh, Knows, Old, Reserved, Making
<1>11. RowsNow /\ SeensNow /\ \A r \in Request : Untouched(r)
  BY <1>8 DEF RowsNow, FolderParent, FolderCount, HostFolder, HostFolders, Payload, SeensNow, SeenRows,
              SeenTree, Untouched
<1>12. SoundTree
  BY <1>4, <1>5 DEF SoundTree, Folders
<1> QED
  BY <1>9, <1>10, <1>11, <1>12 DEF IInv

\* Theorem: the invariant.
THEOREM Invariance == Spec => []IInv
<1>1. Init => IInv
  BY Initial
<1>2. IInv /\ [Next]_vars => IInv'
  BY Inductive
<1> QED
  BY <1>1, <1>2, PTL DEF Spec

\* Theorem: the tables keep their types and the schema's constraints, whatever requests overlap
\* (TypeOK).
THEOREM TypeCorrect == Spec => []TypeOK
<1>1. IInv => TypeOK
  <2> SUFFICES ASSUME IInv PROVE TypeOK
    OBVIOUS
  <2>1. Typed(db) /\ Fresh
    BY DEF IInv, Types, Ids
  <2>2. /\ Folders \subseteq Folder /\ \A f \in Folders : db.f[f] \in FolderRow
        /\ Conns \subseteq Conn /\ \A c \in Conns : db.c[c] \in ConnRow
    BY <2>1 DEF Typed, Folders, Conns
  <2>3. /\ \A f \in Folders : db.f[f].parent \in Folders \cup {Root}
        /\ \A c \in Conns : db.c[c].folder \in Folders \cup {Root}
    BY <2>1 DEF Typed, Legal, Folders, Conns
  <2>4. \A f, g \in Folders : db.f[f].parent = db.f[g].parent /\ db.f[f].name = db.f[g].name => f = g
    BY <2>1 DEF Typed, Legal, Folders
  <2>5. \A r \in Request : req[r].at \in {"idle", "measure", "commit"}
    BY DEF IInv, Types, ReqTyped, Idle
  <2>6. Folders \cup Conns \subseteq used
    BY <2>1 DEF Fresh, Old
  <2>7. begun \in 0 .. MaxRequests /\ raced \subseteq DOMAIN Races
    BY DEF IInv, Types
  <2> QED
    BY <2>2, <2>3, <2>4, <2>5, <2>6, <2>7 DEF TypeOK
<1> QED
  BY <1>1, Invariance, PTL

\* Theorem: until a move is overtaken by a move or by the creation of a folder, or the creation or
\* promotion of a folder by a move, the folders have no cycle and keep their depth limit (TreeSound;
\* moveFolder, createFolder, deleteFolder).
THEOREM TreeStaysSound == Spec => []TreeSound
<1>1. IInv => TreeSound
  BY DEF IInv, TreeSound, SoundTree
<1> QED
  BY <1>1, Invariance, PTL

-----------------------------------------------------------------------------
(* The payloads. *)

\* Lemma: a change of a payload is one that its request names, unless another came between.
LEMMA PayloadStep ==
  ASSUME IInv, NEW r \in Request, Commit(r), NEW c \in Conns \cap DOMAIN db'.c,
         NEW field \in {"auth", "secret", "pin"}, db.c[c][field] # db'.c[c][field]
  PROVE  /\ req[r].q.op \in {"updateConnection", "clearCredential"} /\ req[r].q.id = c
         /\ Kept(r, {"updateConnection", "clearCredential"}) => field \in Names(req[r].q)
<1> DEFINE q == req[r].q
           row == req[r].row
           v == db'.c
<1>1. /\ req[r].at = "commit" /\ q \in Query /\ RowTyped(q, row)
      /\ ConnChange(db.c, v, req[r].seen, q, row) /\ db.c \in [Conns -> ConnRow]
  BY CommitFacts DEF IInv
<1>2. q.op \in {"updateConnection", "clearCredential"}
  BY ConnRowSame DEF IInv
<1>3. c \in DOMAIN db.c /\ c \in Conns
  BY DEF Conns
<1>4. CASE q.op = "updateConnection"
  <2>1. v[c] = IF c = q.id THEN [folder |-> db.c[c].folder, auth |-> Merged(row, q.patch).auth,
                                 secret |-> Merged(row, q.patch).secret, pin |-> Merged(row, q.patch).pin]
               ELSE db.c[c]
    BY <1>1, <1>3, <1>4 DEF ConnChange
  <2>2. q.id = c
    BY <2>1
  <2>3. /\ v[c].auth = Merged(row, q.patch).auth /\ v[c].secret = Merged(row, q.patch).secret
        /\ v[c].pin = Merged(row, q.patch).pin
    BY <2>1, <2>2
  <2>4. row \in ConnRow /\ q.patch \in Patches
    BY <1>1, <1>4 DEF RowTyped, Query
  <2>5. /\ Merged(row, q.patch).auth = (IF q.patch.auth = "keep" THEN row.auth ELSE q.patch.auth)
        /\ Merged(row, q.patch).secret = (q.patch.secret \/ (row.secret /\ Merged(row, q.patch).auth = row.auth))
        /\ Merged(row, q.patch).pin = (q.patch.pin = "set" \/ (q.patch.pin = "keep" /\ row.pin))
    BY <2>4, MergedFields
  <2>6. \/ q.patch.auth = "keep" /\ q.patch.secret = FALSE
        \/ q.patch.auth \in AuthType /\ q.patch.secret = TRUE
    BY <2>4, PatchCases
  <2>7. ASSUME Kept(r, {"updateConnection", "clearCredential"}) PROVE field \in Names(q)
    <3>1. db.c[c].auth = row.auth /\ db.c[c].secret = row.secret /\ db.c[c].pin = row.pin
      BY <1>1, <1>2, <1>3, <2>2, <2>7 DEF IInv, RowsNow, Payload, Busy
    <3>2. row.secret \in BOOLEAN /\ row.pin \in BOOLEAN
      BY <2>4 DEF ConnRow
    <3>3. Names(q) = (IF q.patch.auth = "keep" THEN {} ELSE {"auth"})
                       \cup (IF q.patch.pin = "keep" THEN {} ELSE {"pin"})
                       \cup (IF q.patch.secret THEN {"secret"} ELSE {})
      BY <1>4 DEF Names
    <3>4. CASE field = "auth"
      BY <2>3, <2>5, <3>1, <3>3, <3>4
    <3>5. CASE field = "secret"
      <4>1. q.patch.secret = FALSE => v[c].secret = db.c[c].secret
        BY <2>3, <2>5, <2>6, <3>1, <3>2, StoreAssumption
      <4> QED
        BY <2>6, <3>3, <3>5, <4>1
    <3>6. CASE field = "pin"
      <4>1. q.patch.pin = "keep" => v[c].pin = db.c[c].pin
        BY <2>3, <2>5, <3>1, <3>2
      <4> QED
        BY <3>3, <3>6, <4>1
    <3> QED
      BY <3>4, <3>5, <3>6
  <2> QED
    BY <1>2, <2>2, <2>7
<1>5. CASE q.op = "clearCredential"
  <2>1. v[c] = IF c = q.id THEN [folder |-> db.c[c].folder, auth |-> row.auth, secret |-> FALSE,
                                 pin |-> row.pin]
               ELSE db.c[c]
    BY <1>1, <1>3, <1>5 DEF ConnChange
  <2>2. q.id = c
    BY <2>1
  <2>3. ASSUME Kept(r, {"updateConnection", "clearCredential"}) PROVE field \in Names(q)
    <3>1. db.c[c].auth = row.auth /\ db.c[c].secret = row.secret /\ db.c[c].pin = row.pin
      BY <1>1, <1>2, <1>3, <2>2, <2>3 DEF IInv, RowsNow, Payload, Busy
    <3>2. v[c].auth = row.auth /\ v[c].pin = row.pin
      BY <2>1, <2>2
    <3>3. field = "secret"
      BY <3>1, <3>2
    <3> QED
      BY <1>5, <3>3 DEF Names
  <2> QED
    BY <1>2, <2>2, <2>3
<1> QED
  BY <1>2, <1>4, <1>5

\* Lemma: only a commit changes the tables.
LEMMA OnlyCommit ==
  ASSUME [Next]_vars, db' # db
  PROVE  \E r \in Request : Commit(r)
BY DEF Next, Begin, Measure, Reject, Refuse, vars

\* Theorem: a request changes the payload fields it names and no other, unless an update or a
\* clearing of a credential, of any connection, came between its read and its write (PayloadKept;
\* updateConnection).
THEOREM PayloadStaysKept == Spec => PayloadKept
<1> DEFINE A ==
      \A c \in Conns \cap DOMAIN db'.c :
       LET changed == {x \in {"auth", "secret", "pin"} : db.c[c][x] # db'.c[c][x]} IN
       changed # {} =>
         \E r \in Request :
           /\ req[r].at = "commit" /\ req'[r].at = "idle" /\ req[r].q.id = c
           /\ \/ changed \subseteq Names(req[r].q)
              \/ req[r].past \cap {"updateConnection", "clearCredential"} # {}
<1>1. IInv /\ [Next]_vars => [A]_vars
  <2>1. SUFFICES ASSUME IInv, [Next]_vars, NEW c \in Conns \cap DOMAIN db'.c,
                        NEW f \in {"auth", "secret", "pin"}, db.c[c][f] # db'.c[c][f]
                 PROVE  \E r \in Request :
                          /\ req[r].at = "commit" /\ req'[r].at = "idle" /\ req[r].q.id = c
                          /\ \/ {x \in {"auth", "secret", "pin"} : db.c[c][x] # db'.c[c][x]} \subseteq Names(req[r].q)
                             \/ req[r].past \cap {"updateConnection", "clearCredential"} # {}
    OBVIOUS
  <2>2. PICK r \in Request : Commit(r)
    BY <2>1, OnlyCommit
  <2>3. req[r].at = "commit" /\ req'[r].at = "idle"
    <3>1. req[r].q.op \in Ops /\ req' = Overtakes(r, req[r].q.op) /\ req[r].at = "commit"
      BY <2>1, <2>2, CommitFacts DEF IInv
    <3>2. req'[r] = Idle
      BY <2>1, <3>1, OvertakenFacts DEF IInv, Types
    <3> QED
      BY <3>1, <3>2 DEF Idle
  <2>4. req[r].q.id = c
    BY <2>1, <2>2, PayloadStep
  <2>5. Kept(r, {"updateConnection", "clearCredential"}) =>
           {x \in {"auth", "secret", "pin"} : db.c[c][x] # db'.c[c][x]} \subseteq Names(req[r].q)
    BY <2>1, <2>2, PayloadStep
  <2> QED
    BY <2>3, <2>4, <2>5 DEF Kept
<1> QED
  BY <1>1, Invariance, PTL DEF Spec, PayloadKept

\* X and Y differ inside M only.
AlikeBut(X, Y, M) == X \ M = Y \ M

-----------------------------------------------------------------------------
(* The counters. *)

\* Lemma: two sets that differ inside M differ in size by what they have of M.
LEMMA Exchange ==
  ASSUME NEW X, NEW Y, NEW M, IsFiniteSet(X), IsFiniteSet(Y), AlikeBut(X, Y, M)
  PROVE  /\ Cardinality(X) \in Nat /\ Cardinality(Y) \in Nat
         /\ Cardinality(X \cap M) \in Nat /\ Cardinality(Y \cap M) \in Nat
         /\ Cardinality(Y) = Cardinality(X) - Cardinality(X \cap M) + Cardinality(Y \cap M)
<1>1. IsFiniteSet(X \cap M) /\ IsFiniteSet(Y \cap M)
  BY FS_Intersection
<1>2. /\ Cardinality(X \ M) = Cardinality(X) - Cardinality(X \cap M)
      /\ Cardinality(Y \ M) = Cardinality(Y) - Cardinality(Y \cap M)
  BY FS_Difference
<1>3. /\ Cardinality(X) \in Nat /\ Cardinality(Y) \in Nat
      /\ Cardinality(X \cap M) \in Nat /\ Cardinality(Y \cap M) \in Nat
  BY <1>1, FS_CardinalityType
<1>4. Cardinality(X \ M) = Cardinality(Y \ M)
  BY DEF AlikeBut
<1> QED
  BY <1>2, <1>3, <1>4

\* Lemma: and if they differ in one element.
LEMMA ExchangeOne ==
  ASSUME NEW X, NEW Y, NEW x, IsFiniteSet(X), IsFiniteSet(Y), X \ {x} = Y \ {x}
  PROVE  /\ Cardinality(X) \in Nat /\ Cardinality(Y) \in Nat
         /\ Cardinality(Y) = Cardinality(X) - (IF x \in X THEN 1 ELSE 0) + (IF x \in Y THEN 1 ELSE 0)
<1> DEFINE M == {x}
<1>1. Cardinality({}) = 0 /\ Cardinality(M) = 1
  BY FS_EmptySet, FS_Singleton
<1>2. X \cap M = (IF x \in X THEN M ELSE {}) /\ Y \cap M = (IF x \in Y THEN M ELSE {})
  OBVIOUS
<1>4. AlikeBut(X, Y, M)
  BY DEF AlikeBut
<1> HIDE DEF M
<1>3. /\ Cardinality(X) \in Nat /\ Cardinality(Y) \in Nat
      /\ Cardinality(Y) = Cardinality(X) - Cardinality(X \cap M) + Cardinality(Y \cap M)
  <2>1. /\ Cardinality(X) \in Nat /\ Cardinality(Y) \in Nat
        /\ Cardinality(X \cap M) \in Nat /\ Cardinality(Y \cap M) \in Nat
    BY <1>4, Exchange
  <2> QED
    BY <1>4, <2>1, Exchange
<1> QED
  BY <1>1, <1>2, <1>3

\* Every counter is the number of connections below its folder.
Exact(F, C) == \A f \in DOMAIN F : F[f].count = Cardinality(HostsIn(F, C, f))

\* The tables and the queries of a commit that no other change of the tree overtook.
AlikeAbove(F, C, u, v, t, p) ==
  /\ Rooted(F) /\ Rooted(u) /\ Rooted(t) /\ Acyclic(F)
  /\ F \in [DOMAIN F -> FolderRow] /\ u \in [DOMAIN u -> FolderRow]
  /\ \A c \in DOMAIN C : C[c].folder \in DOMAIN F \cup {Root}
  /\ \A c \in DOMAIN v : v[c].folder \in DOMAIN u \cup {Root}
  /\ \A f : IsFiniteSet(HostsIn(F, C, f)) /\ IsFiniteSet(HostsIn(u, v, f))
  /\ \A g \in p : g \in DOMAIN F \cup {Root} => Above(F, g) = Above(t, g) \cap DOMAIN F

\* Lemma: such a commit meets these conditions.
LEMMA AlikeFacts ==
  ASSUME IInv, NEW r \in Request, Commit(r), "tree" \notin raced'
  PROVE  AlikeAbove(db.f, db.c, db'.f, db'.c, req[r].seen,
             IF Kept(r, {"moveFolder"}) THEN Mentioned(req[r].q, req[r].row) ELSE {})
<1> DEFINE t == req[r].seen
<1>1. /\ req[r].at = "commit" /\ Rooted(t) /\ Rooted(db.f) /\ Rooted(db'.f) /\ Typed(db') /\ Typed(db)
  BY CommitFacts DEF IInv, Types
<1>2. Acyclic(db.f) /\ "tree" \notin raced
  BY NoRace DEF IInv, SoundTree
<1>3. /\ db.f \in [DOMAIN db.f -> FolderRow] /\ db'.f \in [DOMAIN db'.f -> FolderRow]
      /\ \A c \in DOMAIN db.c : db.c[c].folder \in DOMAIN db.f \cup {Root}
      /\ \A c \in DOMAIN db'.c : db'.c[c].folder \in DOMAIN db'.f \cup {Root}
  BY <1>1 DEF Typed, Legal
<1>4. \A f : IsFiniteSet(HostsIn(db.f, db.c, f)) /\ IsFiniteSet(HostsIn(db'.f, db'.c, f))
  <2> TAKE f
  <2>1. DOMAIN db.c \subseteq Conn /\ DOMAIN db'.c \subseteq Conn
    BY <1>1 DEF Typed
  <2>2. HostsIn(db.f, db.c, f) \in SUBSET Conn /\ HostsIn(db'.f, db'.c, f) \in SUBSET Conn
    BY <2>1 DEF HostsIn
  <2> QED
    BY <2>2, StoreAssumption, FS_Subset
<1>5. ASSUME Kept(r, {"moveFolder"}), NEW g \in Mentioned(req[r].q, req[r].row), g \in DOMAIN db.f \cup {Root}
      PROVE  Above(db.f, g) = Above(t, g) \cap DOMAIN db.f
  <2>1. CASE g = Root
    BY <1>1, <2>1, AboveNothing DEF Rooted
  <2>2. CASE g # Root
    <3>1. g \in DOMAIN t \cap Folders
      BY <1>1, <1>5, <2>2 DEF IInv, SeensNow, SeenRows, Folders
    <3> QED
      BY <1>1, <1>2, <1>5, <3>1 DEF IInv, SeensNow, SeenTree, Folders
  <2> QED
    BY <2>1, <2>2
<1> QED
  BY <1>1, <1>2, <1>3, <1>4, <1>5 DEF AlikeAbove

\* Lemma: counting in one more connection.
LEMMA CreateCounts ==
  ASSUME NEW F, NEW C, NEW u, NEW v, NEW t, NEW p, AlikeAbove(F, C, u, v, t, p), Exact(F, C),
         NEW x, x \notin DOMAIN C, NEW to \in p, u = Counted(F, Evenly(t, to, 1)),
         DOMAIN v = DOMAIN C \cup {x}, \A c \in DOMAIN C : v[c].folder = C[c].folder, v[x].folder = to
  PROVE  Exact(u, v)
<1> SUFFICES ASSUME NEW f \in DOMAIN u PROVE u[f].count = Cardinality(HostsIn(u, v, f))
  BY DEF Exact
<1> DEFINE X == HostsIn(F, C, f)
           Y == HostsIn(u, v, f)
<1>1. /\ DOMAIN u = DOMAIN F /\ \A g \in DOMAIN F : u[g].parent = F[g].parent
      /\ u[f].count = F[f].count + (IF f \in Above(t, to) THEN 1 ELSE 0)
  <2>1. DOMAIN u = DOMAIN F
    BY DEF Counted
  <2>2. DOMAIN Evenly(t, to, 1) = Above(t, to) /\ \A g \in DOMAIN Evenly(t, to, 1) : Evenly(t, to, 1)[g] = 1
    BY DEF Evenly
  <2>3. \A g \in DOMAIN Evenly(t, to, 1) : Evenly(t, to, 1)[g] \in Int
    BY <2>2
  <2>4. /\ \A g \in DOMAIN F : u[g].parent = F[g].parent
        /\ u[f].count = F[f].count + (IF f \in DOMAIN Evenly(t, to, 1) THEN Evenly(t, to, 1)[f] ELSE 0)
    BY <2>1, <2>3, CountedRows DEF AlikeAbove
  <2> QED
    BY <2>1, <2>2, <2>4
<1>2. \A g : Above(u, g) = Above(F, g)
  <2>1. \A g \in DOMAIN u : Above(u, g) = Above(F, g)
    BY <1>1, KeptTree DEF AlikeAbove
  <2>2. \A g : g \notin DOMAIN u => Above(u, g) = Above(F, g)
    BY <1>1, AboveNothing DEF AlikeAbove
  <2> QED
    BY <2>1, <2>2
<1>3. f \in Above(t, to) <=> f \in Above(F, to)
  <2>1. to \in DOMAIN F \cup {Root}
    BY <1>1 DEF AlikeAbove
  <2> QED
    BY <1>1, <2>1 DEF AlikeAbove
<1>4. X \ {x} = Y \ {x} /\ x \notin X /\ (x \in Y <=> f \in Above(F, to))
  BY <1>2 DEF HostsIn
<1>5. IsFiniteSet(X) /\ IsFiniteSet(Y)
  BY DEF AlikeAbove
<1> HIDE DEF X, Y
<1>6. /\ Cardinality(X) \in Nat /\ Cardinality(Y) \in Nat
      /\ Cardinality(Y) = Cardinality(X) - (IF x \in X THEN 1 ELSE 0) + (IF x \in Y THEN 1 ELSE 0)
  BY <1>4, <1>5, ExchangeOne
<1>8. F[f].count = Cardinality(X)
  BY <1>1 DEF Exact, X
<1>9. u[f].count = Cardinality(Y)
  BY <1>1, <1>3, <1>4, <1>6, <1>8
<1> QED
  BY <1>9 DEF Y

\* Lemma: counting out a connection.
LEMMA DeleteCounts ==
  ASSUME NEW F, NEW C, NEW u, NEW v, NEW t, NEW p, AlikeAbove(F, C, u, v, t, p), Exact(F, C),
         NEW x \in DOMAIN C, NEW from \in p, from = C[x].folder, u = Counted(F, Evenly(t, from, -1)),
         DOMAIN v = DOMAIN C \ {x}, \A c \in DOMAIN v : v[c].folder = C[c].folder
  PROVE  Exact(u, v)
<1> SUFFICES ASSUME NEW f \in DOMAIN u PROVE u[f].count = Cardinality(HostsIn(u, v, f))
  BY DEF Exact
<1> DEFINE X == HostsIn(F, C, f)
           Y == HostsIn(u, v, f)
<1>1. /\ DOMAIN u = DOMAIN F /\ \A g \in DOMAIN F : u[g].parent = F[g].parent
      /\ u[f].count = F[f].count + (IF f \in Above(t, from) THEN -1 ELSE 0)
  <2>1. DOMAIN u = DOMAIN F
    BY DEF Counted
  <2>2. DOMAIN Evenly(t, from, -1) = Above(t, from) /\ \A g \in DOMAIN Evenly(t, from, -1) : Evenly(t, from, -1)[g] = -1
    BY DEF Evenly
  <2>3. \A g \in DOMAIN Evenly(t, from, -1) : Evenly(t, from, -1)[g] \in Int
    BY <2>2
  <2>4. /\ \A g \in DOMAIN F : u[g].parent = F[g].parent
        /\ u[f].count = F[f].count + (IF f \in DOMAIN Evenly(t, from, -1) THEN Evenly(t, from, -1)[f] ELSE 0)
    BY <2>1, <2>3, CountedRows DEF AlikeAbove
  <2> QED
    BY <2>1, <2>2, <2>4
<1>2. \A g : Above(u, g) = Above(F, g)
  <2>1. \A g \in DOMAIN u : Above(u, g) = Above(F, g)
    BY <1>1, KeptTree DEF AlikeAbove
  <2>2. \A g : g \notin DOMAIN u => Above(u, g) = Above(F, g)
    BY <1>1, AboveNothing DEF AlikeAbove
  <2> QED
    BY <2>1, <2>2
<1>3. f \in Above(t, from) <=> f \in Above(F, from)
  BY <1>1 DEF AlikeAbove
<1>4. X \ {x} = Y \ {x} /\ x \notin Y /\ (x \in X <=> f \in Above(F, from))
  BY <1>2 DEF HostsIn
<1>5. IsFiniteSet(X) /\ IsFiniteSet(Y)
  BY DEF AlikeAbove
<1> HIDE DEF X, Y
<1>6. /\ Cardinality(X) \in Nat /\ Cardinality(Y) \in Nat
      /\ Cardinality(Y) = Cardinality(X) - (IF x \in X THEN 1 ELSE 0) + (IF x \in Y THEN 1 ELSE 0)
  BY <1>4, <1>5, ExchangeOne
<1>8. F[f].count = Cardinality(X)
  BY <1>1 DEF Exact, X
<1>9. u[f].count = Cardinality(Y)
  BY <1>1, <1>3, <1>4, <1>6, <1>8
<1> QED
  BY <1>9 DEF Y

\* Lemma: a commit of the counters alone leaves the tree as it is.
LEMMA CountsAlone ==
  ASSUME NEW F, NEW C, NEW u, NEW v, NEW t, NEW p, AlikeAbove(F, C, u, v, t, p),
         NEW D, \A f \in DOMAIN D : D[f] \in Int, u = Counted(F, D)
  PROVE  /\ DOMAIN u = DOMAIN F /\ \A g \in DOMAIN F : u[g].parent = F[g].parent
         /\ \A f \in DOMAIN F : u[f].count = F[f].count + (IF f \in DOMAIN D THEN D[f] ELSE 0)
         /\ \A g : Above(u, g) = Above(F, g)
<1>1. DOMAIN u = DOMAIN F
  BY DEF Counted
<1>2. \A g \in DOMAIN F : /\ u[g].parent = F[g].parent
                          /\ u[g].count = F[g].count + (IF g \in DOMAIN D THEN D[g] ELSE 0)
  BY CountedRows DEF AlikeAbove
<1>3. \A g \in DOMAIN u : Above(u, g) = Above(F, g)
  BY <1>1, <1>2, KeptTree DEF AlikeAbove
<1>4. \A g : g \notin DOMAIN u => Above(u, g) = Above(F, g)
  BY <1>1, AboveNothing DEF AlikeAbove
<1> QED
  BY <1>1, <1>2, <1>3, <1>4

\* Lemma: moving connections counts them out and in.
LEMMA MoveCounts ==
  ASSUME NEW F, NEW C, NEW u, NEW v, NEW t, NEW p, AlikeAbove(F, C, u, v, t, p), Exact(F, C),
         NEW M, M \subseteq DOMAIN C, M \subseteq Conn, NEW from,
         \A c \in M : from[c] = C[c].folder /\ from[c] \in p,
         NEW to \in p, u = Counted(F, MoveDelta(t, from, M, to)), DOMAIN v = DOMAIN C,
         \A c \in DOMAIN C : v[c].folder = IF c \in M THEN to ELSE C[c].folder
  PROVE  Exact(u, v)
<1> SUFFICES ASSUME NEW f \in DOMAIN u PROVE u[f].count = Cardinality(HostsIn(u, v, f))
  BY DEF Exact
<1> DEFINE X == HostsIn(F, C, f)
           Y == HostsIn(u, v, f)
           D == MoveDelta(t, from, M, to)
           A == {c \in M : f \in Above(t, to)}
           B == {c \in M : f \in Above(t, from[c])}
<1>1. /\ DOMAIN D = Above(t, to) \cup UNION {Above(t, from[c]) : c \in M}
      /\ f \in DOMAIN D => D[f] = Cardinality(A) - Cardinality(B)
  BY DEF MoveDelta
<1>2. \A g \in DOMAIN D : D[g] \in Int
  BY MoveDeltaInt
<1>3. u = Counted(F, D)
  OBVIOUS
<1> HIDE DEF D
<1>4. /\ DOMAIN u = DOMAIN F /\ \A g : Above(u, g) = Above(F, g)
      /\ u[f].count = F[f].count + (IF f \in DOMAIN D THEN D[f] ELSE 0)
  BY <1>2, <1>3, CountsAlone
<1>5. Y \cap M = A
  <2>1. ASSUME NEW c \in M PROVE f \in Above(t, to) <=> f \in Above(F, to)
    <3>1. to \in DOMAIN F \cup {Root}
      BY <1>4 DEF AlikeAbove
    <3> QED
      BY <1>4, <3>1 DEF AlikeAbove
  <2> QED
    BY <1>4, <2>1 DEF HostsIn
<1>6. X \cap M = B
  <2>1. ASSUME NEW c \in M PROVE f \in Above(t, from[c]) <=> f \in Above(F, C[c].folder)
    <3>1. from[c] = C[c].folder /\ from[c] \in p /\ from[c] \in DOMAIN F \cup {Root}
      BY DEF AlikeAbove
    <3>2. Above(F, from[c]) = Above(t, from[c]) \cap DOMAIN F
      BY <3>1 DEF AlikeAbove
    <3> QED
      BY <1>4, <3>1, <3>2
  <2> QED
    BY <2>1 DEF HostsIn
<1>7. AlikeBut(X, Y, M)
  BY <1>4 DEF AlikeBut, HostsIn
<1>8. IsFiniteSet(X) /\ IsFiniteSet(Y)
  BY DEF AlikeAbove
<1>9. f \notin DOMAIN D => A = {} /\ B = {}
  BY <1>1
<1>10. F[f].count = Cardinality(X)
  BY <1>4 DEF Exact
<1> HIDE DEF X, Y, A, B
<1>11. /\ Cardinality(X) \in Nat /\ Cardinality(Y) \in Nat
       /\ Cardinality(B) \in Nat /\ Cardinality(A) \in Nat
  BY <1>5, <1>6, <1>7, <1>8, Exchange
<1>12. Cardinality(Y) = Cardinality(X) - Cardinality(B) + Cardinality(A)
  BY <1>5, <1>6, <1>7, <1>8, <1>11, Exchange
<1>13. Cardinality({}) = 0
  BY FS_EmptySet
<1>14. u[f].count = Cardinality(Y)
  <2>1. CASE f \in DOMAIN D
    <3>1. D[f] = Cardinality(A) - Cardinality(B)
      BY <1>1, <2>1
    <3>2. u[f].count = Cardinality(X) + (Cardinality(A) - Cardinality(B))
      BY <1>4, <1>10, <2>1, <3>1
    <3> QED
      BY <1>11, <1>12, <3>2
  <2>2. CASE f \notin DOMAIN D
    <3>1. Cardinality(A) = 0 /\ Cardinality(B) = 0
      BY <1>9, <1>13, <2>2
    <3>2. u[f].count = Cardinality(X) + 0
      BY <1>4, <1>10, <2>2
    <3> QED
      BY <1>11, <1>12, <3>1, <3>2
  <2> QED
    BY <2>1, <2>2
<1> QED
  BY <1>14 DEF Y

\* Lemma: a folder that moves takes its connections along.
LEMMA MoveFolderCounts ==
  ASSUME NEW F, NEW C, NEW u, NEW v, NEW t, NEW p, AlikeAbove(F, C, u, v, t, p), Exact(F, C), v = C,
         NEW x \in DOMAIN F, NEW from \in p, from = F[x].parent, NEW to \in p, x \notin Above(F, to),
         NEW n, n = F[x].count, DOMAIN u = DOMAIN F,
         \A f \in DOMAIN F : u[f].parent = IF f = x THEN to ELSE F[f].parent,
         \A f \in DOMAIN F : u[f].count = F[f].count + (IF f \in Above(t, from) THEN -n ELSE 0)
                                            + (IF f \in Above(t, to) THEN n ELSE 0)
  PROVE  Exact(u, v)
<1> SUFFICES ASSUME NEW f \in DOMAIN u PROVE u[f].count = Cardinality(HostsIn(u, v, f))
  BY DEF Exact
<1> DEFINE X == HostsIn(F, C, f)
           Y == HostsIn(u, v, f)
           M == HostsIn(F, C, x)
<1>1. /\ \A g : x \notin Above(F, g) => Above(u, g) = Above(F, g)
      /\ \A g : x \in Above(F, g) => Above(u, g) = Between(F, g, x) \cup Above(F, to)
  <2>1. u[x].parent = to /\ \A g \in DOMAIN F \ {x} : u[g].parent = F[g].parent
    OBVIOUS
  <2> QED
    BY <2>1, MoveAbove DEF AlikeAbove
<1>2. \A c \in M : c \in DOMAIN C /\ x \in Above(F, C[c].folder)
  BY DEF HostsIn
<1>3. AlikeBut(X, Y, M)
  BY <1>1 DEF AlikeBut, HostsIn
<1>4. /\ f \in Above(t, from) <=> f \in Above(F, from)
      /\ f \in Above(t, to) <=> f \in Above(F, to)
  <2>1. from \in DOMAIN F \cup {Root} /\ to \in DOMAIN F \cup {Root}
    BY DEF AlikeAbove, Rooted
  <2> QED
    BY <2>1 DEF AlikeAbove
<1>5. Above(F, x) = {x} \cup Above(F, from)
  BY AboveStep DEF AlikeAbove
<1>6. f \in Above(F, from) => X \cap M = M
  <2>1. SUFFICES ASSUME f \in Above(F, from), NEW c \in M PROVE c \in X
    OBVIOUS
  <2>2. Above(F, x) \subseteq Above(F, C[c].folder)
    BY <1>2, AboveTrans DEF AlikeAbove
  <2> QED
    BY <1>2, <1>5, <2>1, <2>2 DEF HostsIn
<1>7. f \notin Above(F, from) => X \cap M = {c \in M : f \in Between(F, C[c].folder, x)}
  <2>1. SUFFICES ASSUME f \notin Above(F, from), NEW c \in M PROVE c \in X <=> f \in Between(F, C[c].folder, x)
    OBVIOUS
  <2>2. f \in Above(F, C[c].folder) => x \in Above(F, f) \/ f \in Above(F, x)
    BY <1>2, AboveChain DEF AlikeAbove
  <2>3. x \in Above(F, x)
    BY AboveClosed DEF AlikeAbove
  <2> QED
    BY <1>2, <1>5, <2>1, <2>2, <2>3 DEF Between, HostsIn
<1>8. f \in Above(F, to) => Y \cap M = M
  BY <1>1, <1>2 DEF HostsIn
<1>9. f \notin Above(F, to) => Y \cap M = {c \in M : f \in Between(F, C[c].folder, x)}
  BY <1>1, <1>2 DEF HostsIn
<1>10. f \in Above(F, from) => {c \in M : f \in Between(F, C[c].folder, x)} = {}
  <2>1. SUFFICES ASSUME f \in Above(F, from), x \in Above(F, f) PROVE FALSE
    BY DEF Between
  <2>2. x \in Above(F, from)
    BY <2>1, AboveTrans DEF AlikeAbove
  <2> QED
    BY <2>2 DEF AlikeAbove, Acyclic, OnCycle
<1>11. f \in Above(F, to) => {c \in M : f \in Between(F, C[c].folder, x)} = {}
  <2>1. SUFFICES ASSUME f \in Above(F, to), x \in Above(F, f) PROVE FALSE
    BY DEF Between
  <2> QED
    BY <2>1, AboveTrans DEF AlikeAbove
<1>12. IsFiniteSet(X) /\ IsFiniteSet(Y) /\ F[f].count = Cardinality(X) /\ n = Cardinality(M)
  BY DEF AlikeAbove, Exact
<1>13. u[f].count = F[f].count + (IF f \in Above(F, from) THEN -n ELSE 0) + (IF f \in Above(F, to) THEN n ELSE 0)
  BY <1>4
<1>14. IsFiniteSet(M)
  BY DEF AlikeAbove
<1> DEFINE E == {c \in M : f \in Between(F, C[c].folder, x)}
<1> HIDE DEF X, Y, M, E
<1>15. /\ Cardinality(X) \in Nat /\ Cardinality(Y) \in Nat /\ n \in Nat
       /\ Cardinality(X \cap M) \in Nat /\ Cardinality(Y \cap M) \in Nat
  BY <1>3, <1>12, <1>14, Exchange, FS_CardinalityType
<1>16. Cardinality(Y) = Cardinality(X) - Cardinality(X \cap M) + Cardinality(Y \cap M)
  BY <1>3, <1>12, <1>15, Exchange
<1>17. Cardinality({}) = 0
  BY FS_EmptySet
<1>18. /\ f \in Above(F, from) => X \cap M = M /\ E = {}
       /\ f \notin Above(F, from) => X \cap M = E
       /\ f \in Above(F, to) => Y \cap M = M /\ E = {}
       /\ f \notin Above(F, to) => Y \cap M = E
  BY <1>6, <1>7, <1>8, <1>9, <1>10, <1>11 DEF E
<1>19. u[f].count = Cardinality(Y)
  <2>1. CASE f \in Above(F, from) /\ f \in Above(F, to)
    BY <1>12, <1>13, <1>15, <1>16, <1>18, <2>1
  <2>2. CASE f \in Above(F, from) /\ f \notin Above(F, to)
    <3>1. Cardinality(X \cap M) = n /\ Cardinality(Y \cap M) = 0
      BY <1>12, <1>17, <1>18, <2>2
    <3>2. u[f].count = Cardinality(X) + (-n) + 0
      BY <1>12, <1>13, <2>2
    <3> QED
      BY <1>15, <1>16, <3>1, <3>2
  <2>3. CASE f \notin Above(F, from) /\ f \in Above(F, to)
    <3>1. Cardinality(X \cap M) = 0 /\ Cardinality(Y \cap M) = n
      BY <1>12, <1>17, <1>18, <2>3
    <3>2. u[f].count = Cardinality(X) + 0 + n
      BY <1>12, <1>13, <2>3
    <3> QED
      BY <1>15, <1>16, <3>1, <3>2
  <2>4. CASE f \notin Above(F, from) /\ f \notin Above(F, to)
    <3>1. Cardinality(X \cap M) = Cardinality(Y \cap M)
      BY <1>18, <2>4
    <3>2. u[f].count = Cardinality(X) + 0 + 0
      BY <1>12, <1>13, <2>4
    <3> QED
      BY <1>15, <1>16, <3>1, <3>2
  <2> QED
    BY <2>1, <2>2, <2>3, <2>4
<1> QED
  BY <1>19 DEF Y

\* Folder x is gone, what lay in it lies in folder to, and no counter has changed.
Promoted(F, C, u, v, x, to) ==
  /\ DOMAIN u = DOMAIN F \ {x}
  /\ \A f \in DOMAIN u : u[f].count = F[f].count /\ u[f].parent = IF F[f].parent = x THEN to ELSE F[f].parent
  /\ DOMAIN v = DOMAIN C
  /\ \A c \in DOMAIN C : v[c].folder = IF C[c].folder = x THEN to ELSE C[c].folder

\* Lemma: a folder that goes leaves its connections with the folders above it.
LEMMA PromoteCounts ==
  ASSUME NEW F, NEW C, NEW u, NEW v, NEW t, NEW p, AlikeAbove(F, C, u, v, t, p), Exact(F, C), NEW x, x # Root,
         NEW to, x \in DOMAIN F /\ to \in DOMAIN F \cup {Root} => F[x].parent = to, Promoted(F, C, u, v, x, to)
  PROVE  Exact(u, v)
<1>3. /\ DOMAIN u = DOMAIN F \ {x} /\ \A f \in DOMAIN u : u[f].count = F[f].count
      /\ \A f \in DOMAIN u : u[f].parent = IF F[f].parent = x THEN to ELSE F[f].parent
      /\ DOMAIN v = DOMAIN C /\ \A c \in DOMAIN C : v[c].folder = IF C[c].folder = x THEN to ELSE C[c].folder
  BY DEF Promoted
<1> SUFFICES ASSUME NEW f \in DOMAIN u PROVE HostsIn(u, v, f) = HostsIn(F, C, f)
  BY <1>3 DEF Exact
<1>1. CASE x \in DOMAIN F /\ to \in DOMAIN F \cup {Root}
  <2>1. \A g : g # x => Above(u, g) = Above(F, g) \ {x}
    BY <1>1, <1>3, PromoteAbove DEF AlikeAbove
  <2>2. Above(F, x) = {x} \cup Above(F, to) /\ to # x
    BY <1>1, AboveStep, AboveClosed DEF AlikeAbove, Acyclic, OnCycle
  <2>3. ASSUME NEW c \in DOMAIN C PROVE f \in Above(u, v[c].folder) <=> f \in Above(F, C[c].folder)
    BY <1>3, <2>1, <2>2
  <2> QED
    BY <1>3, <2>3 DEF HostsIn
<1>2. CASE ~(x \in DOMAIN F /\ to \in DOMAIN F \cup {Root})
  <2>1. (\A g \in DOMAIN u : F[g].parent # x) /\ \A c \in DOMAIN C : C[c].folder # x
    BY <1>2, <1>3 DEF AlikeAbove, Rooted
  <2>2. \A g \in DOMAIN u : Above(u, g) = Above(F, g)
    BY <1>3, <2>1, KeptTree DEF AlikeAbove
  <2>3. ASSUME NEW c \in DOMAIN C PROVE f \in Above(u, v[c].folder) <=> f \in Above(F, C[c].folder)
    <3>1. v[c].folder = C[c].folder /\ C[c].folder \in DOMAIN u \cup {Root}
      BY <1>2, <1>3, <2>1 DEF AlikeAbove
    <3>2. Above(u, Root) = {} /\ Above(F, Root) = {}
      BY AboveNothing DEF AlikeAbove, Rooted
    <3> QED
      BY <2>2, <3>1, <3>2
  <2> QED
    BY <1>3, <2>3 DEF HostsIn
<1> QED
  BY <1>1, <1>2

\* Lemma: a folder that is deleted takes its connections with it.
LEMMA DeleteFolderCounts ==
  ASSUME NEW F, NEW C, NEW u, NEW v, NEW t, NEW p, AlikeAbove(F, C, u, v, t, p), Exact(F, C),
         NEW x \in DOMAIN F, x \in p, x \in DOMAIN t, NEW from \in p, from = F[x].parent,
         NEW n, n = F[x].count,
         \A g \in DOMAIN t \cap DOMAIN F : Above(F, g) = Above(t, g) \cap DOMAIN F,
         DOMAIN u = DOMAIN F \ Below(t, x), \A f \in DOMAIN u : u[f].parent = F[f].parent,
         \A f \in DOMAIN u : u[f].count = F[f].count + (IF f \in Above(t, from) THEN -n ELSE 0),
         DOMAIN v = {c \in DOMAIN C : C[c].folder \notin Below(t, x)},
         \A c \in DOMAIN v : v[c].folder = C[c].folder
  PROVE  Exact(u, v)
<1> SUFFICES ASSUME NEW f \in DOMAIN u PROVE u[f].count = Cardinality(HostsIn(u, v, f))
  BY DEF Exact
<1> DEFINE X == HostsIn(F, C, f)
           Y == HostsIn(u, v, f)
           M == HostsIn(F, C, x)
<1>1. x \notin DOMAIN u
  BY AboveClosed DEF AlikeAbove, Below
<1>2. \A g \in DOMAIN u : Above(u, g) = Above(F, g) /\ x \notin Above(F, g)
  <2>1. \A g \in DOMAIN u : Above(u, g) = Above(F, g) /\ Above(F, g) \subseteq DOMAIN u
    BY KeptTree DEF AlikeAbove
  <2> QED
    BY <1>1, <2>1
<1>3. \A c \in DOMAIN C : c \in DOMAIN v <=> c \notin M
  <2> TAKE c \in DOMAIN C
  <2>1. ASSUME c \in DOMAIN v PROVE c \notin M
    <3>1. C[c].folder \in DOMAIN u \cup {Root}
      BY <2>1 DEF AlikeAbove
    <3>2. Above(F, Root) = {}
      BY AboveNothing DEF AlikeAbove, Rooted
    <3> QED
      BY <1>2, <3>1, <3>2 DEF HostsIn
  <2>2. ASSUME c \notin DOMAIN v PROVE c \in M
    <3>1. C[c].folder \in DOMAIN t /\ x \in Above(t, C[c].folder)
      BY <2>2 DEF Below
    <3>2. C[c].folder \in DOMAIN F
      BY <3>1 DEF AlikeAbove, Rooted
    <3> QED
      BY <3>1, <3>2 DEF HostsIn
  <2> QED
    BY <2>1, <2>2
<1>4. ASSUME NEW c \in DOMAIN v PROVE f \in Above(u, v[c].folder) <=> f \in Above(F, C[c].folder)
  <2>1. v[c].folder = C[c].folder /\ C[c].folder \in DOMAIN u \cup {Root}
    BY DEF AlikeAbove
  <2>2. Above(u, Root) = {} /\ Above(F, Root) = {}
    BY AboveNothing DEF AlikeAbove, Rooted
  <2> QED
    BY <1>2, <2>1, <2>2
<1>5. AlikeBut(X, Y, M) /\ Y \cap M = {}
  BY <1>3, <1>4 DEF AlikeBut, HostsIn
<1>6. f \in Above(t, from) <=> f \in Above(F, from)
  <2>1. from \in DOMAIN F \cup {Root}
    BY DEF AlikeAbove, Rooted
  <2> QED
    BY <2>1 DEF AlikeAbove
<1>7. Above(F, x) = {x} \cup Above(F, from)
  BY AboveStep DEF AlikeAbove
<1>8. X \cap M = IF f \in Above(F, from) THEN M ELSE {}
  <2>1. ASSUME NEW c \in M PROVE c \in X <=> f \in Above(F, from)
    <3>1. c \in DOMAIN C /\ x \in Above(F, C[c].folder)
      BY DEF HostsIn
    <3>2. Above(F, x) \subseteq Above(F, C[c].folder)
      BY <3>1, AboveTrans DEF AlikeAbove
    <3>3. f \in Above(F, C[c].folder) => x \in Above(F, f) \/ f \in Above(F, x)
      BY <3>1, AboveChain DEF AlikeAbove
    <3> QED
      BY <1>1, <1>2, <1>7, <3>1, <3>2, <3>3 DEF HostsIn
  <2> QED
    BY <2>1
<1>9. IsFiniteSet(X) /\ IsFiniteSet(Y) /\ IsFiniteSet(M) /\ F[f].count = Cardinality(X) /\ n = Cardinality(M)
  BY DEF AlikeAbove, Exact
<1> HIDE DEF X, Y, M
<1>14. n \in Nat
  BY <1>9, FS_CardinalityType
<1>15. AlikeBut(X, Y, M)
  BY <1>5
<1>10. /\ Cardinality(X) \in Nat /\ Cardinality(Y) \in Nat
       /\ Cardinality(X \cap M) \in Nat /\ Cardinality(Y \cap M) \in Nat
  BY <1>9, <1>15, Exchange
<1>11. Cardinality(Y) = Cardinality(X) - Cardinality(X \cap M) + Cardinality(Y \cap M)
  BY <1>9, <1>10, <1>15, Exchange
<1>12. Cardinality({}) = 0
  BY FS_EmptySet
<1>16. u[f].count = F[f].count + (IF f \in Above(t, from) THEN -n ELSE 0)
  OBVIOUS
<1>13. u[f].count = Cardinality(Y)
  <2>1. Cardinality(Y \cap M) = 0
    BY <1>5, <1>12
  <2>2. CASE f \in Above(F, from)
    <3>1. Cardinality(X \cap M) = n
      BY <1>8, <1>9, <2>2
    <3>2. u[f].count = Cardinality(X) + (-n)
      BY <1>6, <1>9, <2>2, <1>16
    <3> QED
      BY <1>10, <1>11, <1>14, <2>1, <3>1, <3>2
  <2>3. CASE f \notin Above(F, from)
    <3>1. Cardinality(X \cap M) = 0
      BY <1>8, <1>12, <2>3
    <3>2. u[f].count = Cardinality(X) + 0
      BY <1>6, <1>9, <2>3, <1>16
    <3> QED
      BY <1>10, <1>11, <1>14, <2>1, <3>1, <3>2
  <2> QED
    BY <2>2, <2>3
<1> QED
  BY <1>13 DEF Y

\* CountersExact as an invariant of its own.
CountsHold == raced \cap {"tree", "counters"} # {} \/ Exact(db.f, db.c)

\* Lemma: the overtaking that no race of the counters is made of.
LEMMA NoCounterRace ==
  ASSUME Types, NEW r \in Request, Commit(r), "counters" \notin raced'
  PROVE  /\ "counters" \notin raced
         /\ req[r].q.op \in {"createConnection", "promoteFolder"} => Kept(r, {"moveFolder"})
         /\ req[r].q.op \in {"deleteConnection", "moveConnections"} =>
              Kept(r, HostMoves) /\ Kept(r, {"moveFolder"})
         /\ req[r].q.op \in {"moveFolder", "deleteFolder"} => Kept(r, Ops \ Quiet) /\ Kept(r, {"moveFolder"})
<1>1. "counters" \in DOMAIN Races
  BY DEF Races
<1>2. /\ "counters" \notin raced
      /\ \A op \in req[r].past : <<req[r].q.op, op>> \notin Races["counters"]
  BY <1>1 DEF Commit
<1>3. Races["counters"] =
        ({"createConnection", "promoteFolder"} \X {"moveFolder"})
          \cup ({"deleteConnection", "moveConnections"}
                 \X {"deleteConnection", "moveConnections", "moveFolder", "promoteFolder", "deleteFolder"})
          \cup ({"moveFolder", "deleteFolder"}
                 \X {"createConnection", "deleteConnection", "moveConnections", "moveFolder",
                     "promoteFolder", "deleteFolder"})
  BY DEF Races
<1>4. req[r].past \subseteq Ops
  BY DEF Types, ReqTyped, Commit, Idle
<1> QED
  BY <1>2, <1>3, <1>4 DEF Kept, HostMoves, Quiet, Ops

\* Lemma: a commit that no such change overtook keeps the counters.
LEMMA CountersCommit ==
  ASSUME IInv, Exact(db.f, db.c), NEW r \in Request, Commit(r), "tree" \notin raced', "counters" \notin raced'
  PROVE  Exact(db'.f, db'.c)
<1> DEFINE q == req[r].q
           row == req[r].row
           t == req[r].seen
           F == db.f
           C == db.c
           u == db'.f
           v == db'.c
           x == q.id
           p == IF Kept(r, {"moveFolder"}) THEN Mentioned(q, row) ELSE {}
<1> SUFFICES Exact(u, v)
  OBVIOUS
<1>1. /\ q \in Query /\ RowTyped(q, row) /\ q.op \in Ops
      /\ F \in [DOMAIN F -> FolderRow] /\ C \in [DOMAIN C -> ConnRow]
      /\ u = FoldersAfter(F, t, q, row) /\ FolderChange(F, u, t, q, row) /\ ConnChange(C, v, t, q, row)
  BY CommitFacts DEF IInv, Folders, Conns
<1>2. AlikeAbove(F, C, u, v, t, p)
  BY AlikeFacts
<1>3. Exact(F, C)
  OBVIOUS
<1>4. /\ q.op \in {"createConnection", "promoteFolder"} => Kept(r, {"moveFolder"})
      /\ q.op \in {"deleteConnection", "moveConnections"} => Kept(r, HostMoves) /\ Kept(r, {"moveFolder"})
      /\ q.op \in {"moveFolder", "deleteFolder"} => Kept(r, Ops \ Quiet) /\ Kept(r, {"moveFolder"})
  BY NoCounterRace DEF IInv
<1>5. Kept(r, {"moveFolder"}) => p = Mentioned(q, row)
  OBVIOUS
<1>6. Busy(r)
  BY DEF Commit, Busy
<1>7. DOMAIN F \subseteq Folder /\ DOMAIN C \subseteq Conn /\ Root \notin Folder
  BY StoreAssumption DEF IInv, Types, Typed
<1>8. \A i \in DOMAIN F \cup DOMAIN C : Creates(q) => i # x
  BY NoReturn DEF IInv, Ids, Fresh, Folders, Conns
<1>9. CASE q.op = "createConnection"
  <2>1. u = Counted(F, Evenly(t, q.to, 1)) /\ q.to \in p
    BY <1>1, <1>4, <1>5, <1>9 DEF FoldersAfter, Mentioned
  <2>2. DOMAIN v = DOMAIN C \cup {x} /\ v[x] = NewConnection(q) /\ \A c \in DOMAIN C : c # x => v[c] = C[c]
    BY <1>1, <1>9 DEF ConnChange
  <2>3. x \notin DOMAIN C
    BY <1>8, <1>9 DEF Creates
  <2>4. v[x].folder = q.to /\ \A c \in DOMAIN C : v[c].folder = C[c].folder
    BY <2>2, <2>3 DEF NewConnection
  <2> HIDE DEF F, C, u, v, t, q, row, x, p
  <2> QED
    BY <1>2, <1>3, <2>1, <2>2, <2>3, <2>4, CreateCounts
<1>10. ASSUME DOMAIN u = DOMAIN F, \A f \in DOMAIN F : u[f].parent = F[f].parent /\ u[f].count = F[f].count,
              DOMAIN v = DOMAIN C, \A c \in DOMAIN C : v[c].folder = C[c].folder
       PROVE  Exact(u, v)
  <2> HIDE DEF F, C, u, v, t, q, row, x, p
  <2>1. \A g : Above(u, g) = Above(F, g)
    <3>1. \A g \in DOMAIN u : Above(u, g) = Above(F, g)
      BY <1>2, <1>10, KeptTree DEF AlikeAbove
    <3>2. \A g : g \notin DOMAIN u => Above(u, g) = Above(F, g)
      BY <1>2, <1>10, AboveNothing DEF AlikeAbove
    <3> QED
      BY <3>1, <3>2
  <2>2. \A f : HostsIn(u, v, f) = HostsIn(F, C, f)
    BY <1>10, <2>1 DEF HostsIn
  <2> QED
    BY <1>3, <1>10, <2>2 DEF Exact
<1>11. CASE q.op \in {"updateConnection", "clearCredential"}
  <2>1. u = F
    BY <1>1, <1>11 DEF FoldersAfter
  <2>2. DOMAIN v = DOMAIN C
    BY <1>1, <1>11 DEF ConnChange
  <2>3. \A c \in DOMAIN C : v[c].folder = C[c].folder
    BY <1>11, ConnRowSame DEF IInv, Conns, HostMoves
  <2> HIDE DEF F, C, u, v, t, q, row, x, p
  <2> QED
    BY <1>10, <2>1, <2>2, <2>3
<1>12. CASE q.op = "renameFolder"
  <2>1. DOMAIN u = DOMAIN F /\ \A f \in DOMAIN F : u[f].parent = F[f].parent /\ u[f].count = F[f].count
    BY <1>1, <1>12 DEF FolderChange
  <2>2. v = C
    BY <1>1, <1>12 DEF ConnChange
  <2> HIDE DEF F, C, u, v, t, q, row, x, p
  <2> QED
    BY <1>10, <2>1, <2>2
<1>13. CASE q.op = "deleteConnection"
  <2>1. u = Counted(F, Evenly(t, row.folder, -1)) /\ row.folder \in p
    BY <1>1, <1>4, <1>5, <1>13 DEF FoldersAfter, Mentioned
  <2>2. DOMAIN v = DOMAIN C \ {x} /\ \A c \in DOMAIN v : v[c].folder = C[c].folder
    BY <1>1, <1>13 DEF ConnChange
  <2>3. x \in DOMAIN C /\ row.folder = C[x].folder
    BY <1>4, <1>6, <1>13 DEF IInv, RowsNow, HostFolder, Conns
  <2> DEFINE from == row.folder
  <2>4. from \in p /\ from = C[x].folder /\ u = Counted(F, Evenly(t, from, -1))
    BY <2>1, <2>3
  <2> HIDE DEF F, C, u, v, t, q, row, x, p, from
  <2> QED
    BY <1>2, <1>3, <2>2, <2>3, <2>4, DeleteCounts
<1>14. CASE q.op = "moveConnections"
  <2> DEFINE M == Movers(q, row)
             from == row.folders
             to == q.to
  <2>1. u = Counted(F, MoveDelta(t, from, M, to)) /\ p = Mentioned(q, row)
    BY <1>1, <1>4, <1>5, <1>14 DEF FoldersAfter
  <2>2. \A c \in q.ids : c \in DOMAIN C /\ from[c] = C[c].folder
    BY <1>4, <1>6, <1>14 DEF IInv, RowsNow, HostFolders, Conns
  <2>3. M \subseteq q.ids
    BY DEF Movers
  <2>4. to \in p /\ \A c \in M : from[c] \in p
    BY <1>14, <2>1, <2>3 DEF Mentioned
  <2>5. DOMAIN v = DOMAIN C
    BY <1>1, <1>14 DEF ConnChange
  <2>6. \A c \in DOMAIN C : v[c].folder = IF c \in M THEN to ELSE C[c].folder
    <3>1. ASSUME NEW c \in DOMAIN C PROVE v[c].folder = IF c \in M THEN to ELSE C[c].folder
      <4>1. v[c] = IF c \in M THEN [C[c] EXCEPT !.folder = to] ELSE C[c]
        BY <1>1, <1>14 DEF ConnChange
      <4>2. C[c] \in ConnRow
        BY <1>1
      <4> QED
        BY <4>1, <4>2 DEF ConnRow
    <3> QED
      BY <3>1
  <2>7. M \subseteq DOMAIN C /\ M \subseteq Conn /\ \A c \in M : from[c] = C[c].folder /\ from[c] \in p
    BY <1>7, <2>2, <2>3, <2>4
  <2> HIDE DEF F, C, u, v, t, q, row, x, p, from, to, M
  <2> QED
    BY <1>2, <1>3, <2>1, <2>4, <2>5, <2>6, <2>7, MoveCounts
<1>15. CASE q.op = "createFolder"
  <2>1. /\ DOMAIN u = DOMAIN F \cup {x} /\ u[x] = [parent |-> q.to, name |-> q.name, count |-> 0]
        /\ \A f \in DOMAIN F : f # x => u[f] = F[f]
    BY <1>1, <1>15 DEF FolderChange
  <2>2. v = C
    BY <1>1, <1>15 DEF ConnChange
  <2>3. x \notin DOMAIN F /\ x \in Folder
    BY <1>1, <1>8, <1>15 DEF Creates, Query
  <2> HIDE DEF F, C, u, v, t, q, row, x, p
  <2>4. \A f : f # x => Above(u, f) = Above(F, f)
    <3>1. \A f \in DOMAIN F : u[f].parent = F[f].parent
      BY <2>1, <2>3
    <3> QED
      BY <1>2, <2>1, <2>3, <3>1, InsertAbove DEF AlikeAbove
  <2>5. \A c \in DOMAIN C : C[c].folder # x
    BY <1>2, <1>7, <2>3 DEF AlikeAbove
  <2>6. \A f : HostsIn(u, v, f) = HostsIn(F, C, f)
    BY <2>2, <2>4, <2>5 DEF HostsIn
  <2>7. HostsIn(F, C, x) = {}
    <3>1. \A f : Above(F, f) \subseteq DOMAIN F
      BY <1>2, AboveClosed DEF AlikeAbove
    <3> QED
      BY <2>3, <3>1 DEF HostsIn
  <2>8. Cardinality({}) = 0
    BY FS_EmptySet
  <2> SUFFICES ASSUME NEW f \in DOMAIN u PROVE u[f].count = Cardinality(HostsIn(u, v, f))
    BY DEF Exact
  <2>9. CASE f = x
    BY <2>1, <2>6, <2>7, <2>8, <2>9
  <2>10. CASE f # x
    <3>1. f \in DOMAIN F /\ u[f] = F[f]
      BY <2>1, <2>10
    <3>2. F[f].count = Cardinality(HostsIn(F, C, f))
      BY <1>3, <3>1 DEF Exact
    <3> QED
      BY <2>6, <3>1, <3>2
  <2> QED
    BY <2>9, <2>10
<1>16. CASE q.op = "moveFolder" /\ q.to = row.parent
  <2>1. u = F
    BY <1>1, <1>16 DEF FoldersAfter
  <2>2. v = C
    BY <1>1, <1>16 DEF ConnChange
  <2> QED
    BY <1>3, <2>1, <2>2
<1>17. CASE q.op = "moveFolder" /\ q.to # row.parent
  <2> DEFINE from == row.parent
             to == q.to
             n == row.count
             D1 == Evenly(t, from, -n)
             D2 == Evenly(t, to, n)
             W == Written(F, {x}, [parent |-> to])
  <2>1. x \in DOMAIN F /\ F[x].parent = from /\ F[x].count = n
    BY <1>4, <1>6, <1>17 DEF IInv, RowsNow, FolderCount, OnFolder, Folders
  <2>2. v = C
    BY <1>1, <1>17 DEF ConnChange
  <2>3. from \in p /\ to \in p
    BY <1>4, <1>5, <1>17 DEF Mentioned
  <2>4. x \notin Above(F, to)
    <3>1. SUFFICES ASSUME x \in Above(F, to) PROVE FALSE
      OBVIOUS
    <3>2. to \in DOMAIN F
      BY <1>2, <3>1, AboveNothing DEF AlikeAbove
    <3>3. x \in Above(t, to)
      BY <1>2, <2>3, <3>1, <3>2 DEF AlikeAbove
    <3>4. to \in DOMAIN t
      BY <1>2, <3>3, AboveNothing DEF AlikeAbove
    <3>5. ~Refused(t, q, row)
      BY DEF IInv, SeensNow, SeenRows, Commit
    <3>6. to \notin Below(t, x)
      BY <1>17, <3>5 DEF Refused
    <3> QED
      BY <3>3, <3>4, <3>6 DEF Below
  <2>5. u = Counted(Counted(W, D1), D2)
    BY <1>1, <1>17 DEF FoldersAfter
  <2>6. to \in Place /\ n \in Int /\ -n \in Int
    BY <1>1, <1>17 DEF Query, RowTyped
  <2>7. /\ DOMAIN D1 = Above(t, from) /\ \A f \in DOMAIN D1 : D1[f] = -n
        /\ DOMAIN D2 = Above(t, to) /\ \A f \in DOMAIN D2 : D2[f] = n
    BY DEF Evenly
  <2>8. (\A f \in DOMAIN D1 : D1[f] \in Int) /\ (\A f \in DOMAIN D2 : D2[f] \in Int)
    BY <2>6, <2>7
  <2>9. DOMAIN W = DOMAIN F /\ DOMAIN Counted(W, D1) = DOMAIN F /\ DOMAIN u = DOMAIN F
    BY <2>5 DEF Written, Counted
  <2> HIDE DEF D1, D2
  <2>10. /\ W \in [DOMAIN F -> FolderRow]
         /\ \A f \in DOMAIN F : /\ W[f].parent = (IF f \in {x} THEN to ELSE F[f].parent)
                                /\ W[f].count = F[f].count
    BY <1>1, <2>6, ReparentedRows
  <2> HIDE DEF W, F, C, u, v, t, q, row, x, p, from, to, n
  <2>11. /\ Counted(W, D1) \in [DOMAIN F -> FolderRow]
         /\ \A f \in DOMAIN F :
              /\ Counted(W, D1)[f].parent = W[f].parent
              /\ Counted(W, D1)[f].count = W[f].count + (IF f \in DOMAIN D1 THEN D1[f] ELSE 0)
    BY <2>8, <2>9, <2>10, CountedRows
  <2>12. \A f \in DOMAIN F :
              /\ u[f].parent = Counted(W, D1)[f].parent
              /\ u[f].count = Counted(W, D1)[f].count + (IF f \in DOMAIN D2 THEN D2[f] ELSE 0)
    BY <2>5, <2>8, <2>9, <2>11, CountedRows
  <2>13. \A f \in DOMAIN F : u[f].parent = IF f = x THEN to ELSE F[f].parent
    BY <2>10, <2>11, <2>12
  <2>14. \A f \in DOMAIN F : u[f].count = F[f].count + (IF f \in Above(t, from) THEN -n ELSE 0)
                                            + (IF f \in Above(t, to) THEN n ELSE 0)
    BY <2>7, <2>10, <2>11, <2>12
  <2> QED
    BY <1>2, <1>3, <2>1, <2>2, <2>3, <2>4, <2>9, <2>13, <2>14, MoveFolderCounts
<1>18. CASE q.op = "promoteFolder"
  <2>1. /\ DOMAIN u = DOMAIN F \ {x}
        /\ \A f \in DOMAIN u : /\ u[f].parent = IF F[f].parent = x THEN row.parent ELSE F[f].parent
                               /\ u[f].count = F[f].count
    BY <1>1, <1>18 DEF FolderChange
  <2>2. DOMAIN v = DOMAIN C
    BY <1>1, <1>18 DEF ConnChange
  <2>3. \A c \in DOMAIN C : v[c].folder = IF C[c].folder = x THEN row.parent ELSE C[c].folder
    <3>1. ASSUME NEW c \in DOMAIN C PROVE v[c].folder = IF C[c].folder = x THEN row.parent ELSE C[c].folder
      <4>1. v[c] = IF C[c].folder = x THEN [C[c] EXCEPT !.folder = row.parent] ELSE C[c]
        BY <1>1, <1>18 DEF ConnChange
      <4>2. C[c] \in ConnRow
        BY <1>1
      <4> QED
        BY <4>1, <4>2 DEF ConnRow
    <3> QED
      BY <3>1
  <2>4. x \in DOMAIN F /\ row.parent \in DOMAIN F \cup {Root} => F[x].parent = row.parent
    BY <1>4, <1>6, <1>18 DEF IInv, RowsNow, FolderParent, OnFolder, Folders, Places
  <2>5. x # Root
    BY <1>1, <1>7, <1>18 DEF Query
  <2> DEFINE to == row.parent
  <2> HIDE DEF F, C, u, v, t, q, row, x, p
  <2>6. x \in DOMAIN F /\ to \in DOMAIN F \cup {Root} => F[x].parent = to
    BY <2>4
  <2>7. Promoted(F, C, u, v, x, to)
    BY <2>1, <2>2, <2>3 DEF Promoted
  <2> HIDE DEF to
  <2> QED
    BY <1>2, <1>3, <2>5, <2>6, <2>7, PromoteCounts
<1>19. CASE q.op = "deleteFolder"
  <2> DEFINE from == row.parent
             n == row.count
             S == Below(t, x)
             K == Only(F, DOMAIN F \ S)
             D == Evenly(t, from, -n)
  <2>1. x \in DOMAIN F /\ F[x].parent = from /\ F[x].count = n
    BY <1>4, <1>6, <1>19 DEF IInv, RowsNow, FolderCount, OnFolder, Folders
  <2>2. from \in p /\ x \in p /\ p = Mentioned(q, row)
    BY <1>4, <1>5, <1>19 DEF Mentioned
  <2>3. x \in DOMAIN t /\ \A g \in DOMAIN t \cap DOMAIN F : Above(F, g) = Above(t, g) \cap DOMAIN F
    <3>1. "tree" \notin raced
      BY NoRace
    <3> QED
      BY <1>4, <1>19, <2>1, <2>2, <3>1 DEF IInv, SeensNow, SeenRows, SeenTree, Folders, Commit
  <2>4. DOMAIN u = DOMAIN F \ S /\ \A f \in DOMAIN u : u[f].parent = F[f].parent
    BY <1>1, <1>19 DEF FolderChange
  <2>5. DOMAIN v = {c \in DOMAIN C : C[c].folder \notin S} /\ \A c \in DOMAIN v : v[c].folder = C[c].folder
    BY <1>1, <1>19 DEF ConnChange
  <2>6. u = Counted(K, D)
    BY <1>1, <1>19 DEF FoldersAfter
  <2>7. n \in Int /\ -n \in Int
    BY <1>1, <1>19 DEF RowTyped
  <2>8. DOMAIN D = Above(t, from) /\ \A f \in DOMAIN D : D[f] = -n
    BY DEF Evenly
  <2>9. DOMAIN K = DOMAIN F \ S /\ \A f \in DOMAIN K : K[f] = F[f]
    BY DEF Only
  <2>10. K \in [DOMAIN K -> FolderRow]
    BY <1>1 DEF Only
  <2> HIDE DEF K, D, F, C, u, v, t, q, row, x, p, from, n
  <2>11. \A f \in DOMAIN K : u[f].count = K[f].count + (IF f \in DOMAIN D THEN D[f] ELSE 0)
    BY <2>6, <2>7, <2>8, <2>10, CountedRows
  <2>12. \A f \in DOMAIN u : u[f].count = F[f].count + (IF f \in Above(t, from) THEN -n ELSE 0)
    BY <2>4, <2>8, <2>9, <2>11
  <2> QED
    BY <1>2, <1>3, <2>1, <2>2, <2>3, <2>4, <2>5, <2>12, DeleteFolderCounts
<1> QED
  BY <1>1, <1>9, <1>11, <1>12, <1>13, <1>14, <1>15, <1>16, <1>17, <1>18, <1>19 DEF Ops

\* Lemma: the tables the Worker starts from have exact counters.
LEMMA InitialCounts ==
  ASSUME Init
  PROVE  Exact(db.f, db.c)
<1>1. db \in InitTables /\ IInv
  BY Initial DEF Init
<1> DEFINE P(S) == [S -> S \cup {Root}]
           N(S) == [S -> Name]
           K(S, T) == [T -> [folder : S \cup {Root}, auth : AuthType, secret : {TRUE}, pin : {FALSE}]]
           Any(S, T) == {Tables(parent, name, config) : parent \in P(S), name \in N(S), config \in K(S, T)}
           Sane(S, T) == {d \in Any(S, T) : Legal(d) /\ Acyclic(d.f) /\ \A f \in S : Depth(d.f, f) <= MaxDepth}
<1>2. PICK S \in SUBSET Folder, T \in SUBSET Conn : db \in Sane(S, T)
  <2>1. InitTables = UNION {Sane(S, T) : S \in SUBSET Folder, T \in SUBSET Conn}
    BY DEF InitTables
  <2> HIDE DEF Sane
  <2> QED
    BY <1>1, <2>1
<1>3. db \in Any(S, T)
  <2> HIDE DEF Any
  <2> QED
    BY <1>2
<1>4. PICK parent \in P(S), name \in N(S), config \in K(S, T) : db = Tables(parent, name, config)
  <2> HIDE DEF P, N, K
  <2> QED
    BY <1>3
<1> DEFINE bare == [f \in DOMAIN parent |-> [parent |-> parent[f], name |-> name[f]]]
<1>5. /\ db.f = [f \in S |-> [parent |-> parent[f], name |-> name[f],
                             count |-> Cardinality(HostsIn(bare, config, f))]]
      /\ db.c = config
  BY <1>4 DEF Tables
<1>6. Rooted(db.f)
  BY <1>1, TypedRooted DEF IInv, Types
<1>7. DOMAIN bare = DOMAIN db.f /\ \A f \in DOMAIN bare : bare[f].parent = db.f[f].parent
  BY <1>5
<1>8. \A f \in DOMAIN db.f : db.f[f].count = Cardinality(HostsIn(bare, config, f))
  BY <1>5
<1> HIDE DEF bare
<1>9. Rooted(bare)
  BY <1>6, <1>7 DEF Rooted
<1>10. \A g : Above(bare, g) = Above(db.f, g)
  <2>1. \A g \in DOMAIN bare : Above(bare, g) = Above(db.f, g)
    BY <1>6, <1>7, <1>9, KeptTree
  <2>2. \A g : g \notin DOMAIN bare => Above(bare, g) = Above(db.f, g)
    BY <1>6, <1>7, <1>9, AboveNothing
  <2> QED
    BY <2>1, <2>2
<1>11. \A f : HostsIn(bare, config, f) = HostsIn(db.f, db.c, f)
  BY <1>5, <1>10 DEF HostsIn
<1> QED
  BY <1>8, <1>11 DEF Exact

\* Theorem: every folder's recursive_host_count is the number of connections below it, until two
\* requests of a pair in Races.counters or Races.tree overlap (CountersExact; countStatements).
THEOREM CountersStayExact == Spec => []CountersExact
<1>1. Init => CountsHold
  BY InitialCounts DEF CountsHold
<1>2. IInv /\ CountsHold /\ [Next]_vars => CountsHold'
  <2>1. SUFFICES ASSUME IInv, CountsHold, [Next]_vars, raced' \cap {"tree", "counters"} = {}
                 PROVE  Exact(db'.f, db'.c)
    BY DEF CountsHold
  <2>2. ASSUME NEW r \in Request, Commit(r) PROVE Exact(db'.f, db'.c)
    <3>1. "tree" \notin raced' /\ "counters" \notin raced'
      BY <2>1
    <3>2. raced \subseteq raced'
      BY <2>2 DEF Commit
    <3>3. Exact(db.f, db.c)
      BY <2>1, <3>1, <3>2 DEF CountsHold
    <3> QED
      BY <2>1, <2>2, <3>1, <3>3, CountersCommit
  <2>3. ASSUME db' = db PROVE Exact(db'.f, db'.c)
    <3>1. raced' = raced \/ \E r \in Request : Commit(r)
      BY <2>1 DEF Next, Begin, Measure, Reject, Refuse, vars
    <3> QED
      BY <2>1, <2>2, <2>3, <3>1 DEF CountsHold
  <2> QED
    BY <2>1, <2>2, <2>3, OnlyCommit
<1>3. CountsHold => CountersExact
  BY DEF CountsHold, CountersExact, Exact, Folders
<1> QED
  BY <1>1, <1>2, <1>3, Invariance, PTL DEF Spec

-----------------------------------------------------------------------------
(* Batches that nothing overtook. *)

\* Lemma: a statement that leaves legal tables goes through.
LEMMA GoesThrough ==
  ASSUME NEW F, NEW C, NEW s, NEW G, NEW D, Applied([f |-> F, c |-> C], s) = [f |-> G, c |-> D],
         Legal([f |-> G, c |-> D])
  PROVE  Ran([f |-> F, c |-> C], s) = [f |-> G, c |-> D]
BY TablesThere DEF Ran, Checked

\* Lemma: tables stay legal as long as no parent and no name changes.
LEMMA StaysLegal ==
  ASSUME NEW F, NEW C, Legal([f |-> F, c |-> C]), NEW G, DOMAIN G = DOMAIN F,
         \A f \in DOMAIN F : G[f].parent = F[f].parent /\ G[f].name = F[f].name,
         NEW D, \A c \in DOMAIN D : D[c].folder \in DOMAIN F \cup {Root}
  PROVE  Legal([f |-> G, c |-> D])
BY DEF Legal

\* Lemma: counters always change.
LEMMA CountsGoThrough ==
  ASSUME NEW F, F \in [DOMAIN F -> FolderRow], NEW C, Legal([f |-> F, c |-> C]),
         NEW D, \A f \in DOMAIN D : D[f] \in Int
  PROVE  /\ Ran([f |-> F, c |-> C], AddCounts(D)) = [f |-> Counted(F, D), c |-> C]
         /\ Legal([f |-> Counted(F, D), c |-> C]) /\ Counted(F, D) \in [DOMAIN F -> FolderRow]
<1>1. /\ Counted(F, D) \in [DOMAIN F -> FolderRow]
      /\ \A f \in DOMAIN F : Counted(F, D)[f].parent = F[f].parent /\ Counted(F, D)[f].name = F[f].name
  BY CountedRows
<1>2. \A c \in DOMAIN C : C[c].folder \in DOMAIN F \cup {Root}
  BY DEF Legal
<1>3. Legal([f |-> Counted(F, D), c |-> C])
  BY <1>1, <1>2, StaysLegal
<1> QED
  BY <1>1, <1>3, RanCount, GoesThrough

\* Lemma: a batch of an operation on connections goes through when the folders and connections it
\* names are there.
LEMMA ConnectionsGoThrough ==
  ASSUME NEW F, F \in [DOMAIN F -> FolderRow], NEW C, C \in [DOMAIN C -> ConnRow], Legal([f |-> F, c |-> C]),
         NEW t, NEW q \in Query, NEW row, RowTyped(q, row),
         q.op \in {"createConnection", "moveConnections"} => q.to \in DOMAIN F \cup {Root},
         q.op \in {"createConnection", "updateConnection", "clearCredential", "deleteConnection",
                   "moveConnections"}
  PROVE  Batch([f |-> F, c |-> C], Statements(t, q, row)) # RolledBack
<1> DEFINE d == [f |-> F, c |-> C]
<1>1. \A c \in DOMAIN C : C[c].folder \in DOMAIN F \cup {Root}
  BY DEF Legal
<1>2. CASE q.op = "createConnection"
  <2> DEFINE D == With(C, q.id, NewConnection(q))
             N == Evenly(t, q.to, 1)
  <2>1. Statements(t, q, row) = <<InsertRow("c", q.id, NewConnection(q)), AddCounts(N)>>
    BY <1>2 DEF Statements, CreateConnection, Bump, Evenly
  <2>2. \A c \in DOMAIN D : D[c].folder \in DOMAIN F \cup {Root}
    BY <1>1, <1>2 DEF With, NewConnection
  <2>3. Legal([f |-> F, c |-> D])
    BY <2>2, StaysLegal
  <2>4. \A f \in DOMAIN N : N[f] \in Int
    BY DEF Evenly
  <2> HIDE DEF D, N
  <2>5. Ran(d, InsertRow("c", q.id, NewConnection(q))) = [f |-> F, c |-> D]
    BY <2>3, RanInsertConn, GoesThrough DEF D
  <2>6. Ran([f |-> F, c |-> D], AddCounts(N)) = [f |-> Counted(F, N), c |-> D]
    BY <2>3, <2>4, CountsGoThrough
  <2> QED
    BY <2>1, <2>5, <2>6, BatchOfTwo, TablesThere
<1>3. CASE q.op \in {"updateConnection", "clearCredential"}
  <2> DEFINE Good(m) == /\ m = [auth |-> m.auth, secret |-> m.secret, pin |-> m.pin]
                        /\ m.auth \in AuthType /\ m.secret \in BOOLEAN /\ m.pin \in BOOLEAN
  <2>1. PICK m : Good(m) /\ Statements(t, q, row) = <<UpdateRows("c", "id", {q.id}, m)>>
    <3>1. CASE q.op = "updateConnection"
      <4>1. row \in ConnRow /\ q.patch \in Patches
        BY <3>1 DEF RowTyped, Query
      <4>2. Good(Merged(row, q.patch))
        BY <4>1, MergedFields
      <4>3. Statements(t, q, row) = <<UpdateRows("c", "id", {q.id}, Merged(row, q.patch))>>
        BY <3>1 DEF Statements, UpdateConnection
      <4> HIDE DEF Good
      <4> QED
        BY <4>2, <4>3
    <3>2. CASE q.op = "clearCredential"
      <4> DEFINE m == [auth |-> row.auth, secret |-> FALSE, pin |-> row.pin]
      <4>1. row \in ConnRow
        BY <3>2 DEF RowTyped
      <4>2. Good(m)
        BY <4>1 DEF ConnRow
      <4>3. Statements(t, q, row) = <<UpdateRows("c", "id", {q.id}, m)>>
        BY <3>2 DEF Statements, ClearCredential
      <4> HIDE DEF Good, m
      <4> QED
        BY <4>2, <4>3
    <3> QED
      BY <1>3, <3>1, <3>2
  <2> DEFINE D == Written(C, {q.id}, m)
  <2>2. /\ D \in [DOMAIN C -> ConnRow]
        /\ \A c \in DOMAIN C :
             D[c] = IF c \in {q.id} THEN [folder |-> C[c].folder, auth |-> m.auth, secret |-> m.secret,
                                         pin |-> m.pin]
                    ELSE C[c]
    <3> HIDE DEF D
    <3>1. D = Written(C, {q.id}, m)
      BY DEF D
    <3> QED
      BY <2>1, <3>1, EditedRows
  <2>3. \A c \in DOMAIN D : D[c].folder \in DOMAIN F \cup {Root}
    <3> HIDE DEF D
    <3>1. \A c \in DOMAIN C : D[c].folder = C[c].folder
      BY <2>2
    <3> QED
      BY <1>1, <2>2, <3>1
  <2>4. Legal([f |-> F, c |-> D])
    BY <2>3, StaysLegal
  <2>5. Ran(d, UpdateRows("c", "id", {q.id}, m)) = [f |-> F, c |-> D]
    BY <2>4, RanUpdateConns, GoesThrough
  <2> QED
    BY <2>1, <2>5, BatchOfOne, TablesThere
<1>4. CASE q.op = "deleteConnection"
  <2> DEFINE D == Only(C, DOMAIN C \ {q.id})
             N == Evenly(t, row.folder, -1)
  <2>1. Statements(t, q, row) = <<DeleteRows("c", "id", {q.id}), AddCounts(N)>>
    BY <1>4 DEF Statements, DeleteConnection, Bump, Evenly
  <2>2. \A c \in DOMAIN D : D[c].folder \in DOMAIN F \cup {Root}
    BY <1>1 DEF Only
  <2>3. Legal([f |-> F, c |-> D])
    BY <2>2, StaysLegal
  <2>4. \A f \in DOMAIN N : N[f] \in Int
    BY DEF Evenly
  <2> HIDE DEF D, N
  <2>5. Ran(d, DeleteRows("c", "id", {q.id})) = [f |-> F, c |-> D]
    BY <2>3, RanDeleteConns, GoesThrough DEF D
  <2>6. Ran([f |-> F, c |-> D], AddCounts(N)) = [f |-> Counted(F, N), c |-> D]
    BY <2>3, <2>4, CountsGoThrough
  <2> QED
    BY <2>1, <2>5, <2>6, BatchOfTwo, TablesThere
<1>5. CASE q.op = "moveConnections"
  <2> DEFINE M == Movers(q, row)
             D == Written(C, M, [folder |-> q.to])
             N == MoveDelta(t, row.folders, M, q.to)
  <2>1. Statements(t, q, row) = <<UpdateRows("c", "id", M, [folder |-> q.to]), AddCounts(N)>>
    BY <1>5 DEF Statements, MoveConnections, Movers
  <2>2. M \subseteq Conn /\ q.to \in Place
    BY <1>5 DEF Query, Movers
  <2>3. /\ D \in [DOMAIN C -> ConnRow]
        /\ \A c \in DOMAIN C : D[c] = IF c \in M THEN [C[c] EXCEPT !.folder = q.to] ELSE C[c]
    BY <2>2, PlacedRows
  <2>4. \A c \in DOMAIN D : D[c].folder \in DOMAIN F \cup {Root}
    <3> HIDE DEF D, M
    <3>1. \A c \in DOMAIN C : D[c].folder = IF c \in M THEN q.to ELSE C[c].folder
      BY <2>3 DEF ConnRow
    <3> QED
      BY <1>1, <1>5, <2>3, <3>1
  <2>5. Legal([f |-> F, c |-> D])
    BY <2>4, StaysLegal
  <2>6. \A f \in DOMAIN N : N[f] \in Int
    BY <2>2, MoveDeltaInt
  <2> HIDE DEF D, M, N
  <2>7. Ran(d, UpdateRows("c", "id", M, [folder |-> q.to])) = [f |-> F, c |-> D]
    BY <2>5, RanUpdateConns, GoesThrough DEF D
  <2>8. Ran([f |-> F, c |-> D], AddCounts(N)) = [f |-> Counted(F, N), c |-> D]
    BY <2>5, <2>6, CountsGoThrough
  <2> QED
    BY <2>1, <2>7, <2>8, BatchOfTwo, TablesThere
<1> QED
  BY <1>2, <1>3, <1>4, <1>5

\* Lemma: so does one on folders, other than the two that delete a folder, when the names it needs
\* are free.
LEMMA FoldersGoThrough ==
  ASSUME NEW F, F \in [DOMAIN F -> FolderRow], NEW C, Legal([f |-> F, c |-> C]),
         NEW t, NEW q \in Query, NEW row, RowTyped(q, row),
         q.op \in {"createFolder", "moveFolder"} => q.to \in DOMAIN F \cup {Root},
         q.op \in {"renameFolder", "moveFolder"} => q.id \in DOMAIN F,
         q.op \in {"createFolder", "renameFolder", "moveFolder"},
         q.op = "createFolder" => \A g \in DOMAIN F : F[g].parent = q.to => F[g].name # q.name,
         q.op = "renameFolder" =>
           \A g \in DOMAIN F \ {q.id} : F[g].parent = F[q.id].parent => F[g].name # q.name,
         q.op = "moveFolder" =>
           \A g \in DOMAIN F \ {q.id} : F[g].parent = q.to => F[g].name # F[q.id].name
  PROVE  Batch([f |-> F, c |-> C], Statements(t, q, row)) # RolledBack
<1> DEFINE d == [f |-> F, c |-> C]
<1>1. /\ \A f \in DOMAIN F : F[f].parent \in DOMAIN F \cup {Root}
      /\ \A c \in DOMAIN C : C[c].folder \in DOMAIN F \cup {Root}
      /\ \A f, g \in DOMAIN F : F[f].parent = F[g].parent /\ F[f].name = F[g].name => f = g
  BY DEF Legal
<1>2. CASE q.op = "createFolder"
  <2> DEFINE row0 == [parent |-> q.to, name |-> q.name, count |-> 0]
             G == With(F, q.id, row0)
  <2>1. Statements(t, q, row) = <<InsertRow("f", q.id, row0)>>
    BY <1>2 DEF Statements, CreateFolder
  <2>2. /\ DOMAIN G = DOMAIN F \cup {q.id} /\ G[q.id].parent = q.to /\ G[q.id].name = q.name
        /\ \A f \in DOMAIN F \ {q.id} : G[f] = F[f]
    BY DEF With
  <2> HIDE DEF G
  <2>3. \A f, g \in DOMAIN G : G[f].parent = G[g].parent /\ G[f].name = G[g].name => f = g
    BY <1>1, <1>2, <2>2
  <2>4. \A f \in DOMAIN G : G[f].parent \in DOMAIN G \cup {Root}
    BY <1>1, <1>2, <2>2
  <2>5. \A c \in DOMAIN C : C[c].folder \in DOMAIN G \cup {Root}
    BY <1>1, <2>2
  <2>6. Legal([f |-> G, c |-> C])
    BY <2>3, <2>4, <2>5 DEF Legal
  <2>7. Ran(d, InsertRow("f", q.id, row0)) = [f |-> G, c |-> C]
    BY <2>6, RanInsertFolder, GoesThrough DEF G
  <2> QED
    BY <2>1, <2>7, BatchOfOne, TablesThere
<1>3. CASE q.op = "renameFolder"
  <2> DEFINE G == Written(F, {q.id}, [name |-> q.name])
  <2>1. Statements(t, q, row) = <<UpdateRows("f", "id", {q.id}, [name |-> q.name])>>
    BY <1>3 DEF Statements, RenameFolder
  <2>2. q.name \in Name
    BY <1>3 DEF Query
  <2>3. /\ G \in [DOMAIN F -> FolderRow]
        /\ \A f \in DOMAIN F :
             G[f].parent = F[f].parent /\ G[f].name = IF f \in {q.id} THEN q.name ELSE F[f].name
    BY <2>2, RenamedRows
  <2> HIDE DEF G
  <2>4. DOMAIN G = DOMAIN F
    BY <2>3
  <2>5. \A f, g \in DOMAIN G : G[f].parent = G[g].parent /\ G[f].name = G[g].name => f = g
    BY <1>1, <1>3, <2>3, <2>4
  <2>6. Legal([f |-> G, c |-> C])
    BY <1>1, <2>3, <2>4, <2>5 DEF Legal
  <2>7. Ran(d, UpdateRows("f", "id", {q.id}, [name |-> q.name])) = [f |-> G, c |-> C]
    <3> DEFINE w == [name |-> q.name]
               V == {q.id}
               s == UpdateRows("f", "id", V, w)
    <3>1. G = Written(F, V, w)
      BY DEF G
    <3>2. Applied(d, s) = [f |-> G, c |-> C]
      <4> HIDE DEF w, V
      <4> QED
        BY <3>1, RanUpdateFolders
    <3> HIDE DEF s
    <3>3. Ran(d, s) = [f |-> G, c |-> C]
      BY <2>6, <3>2, GoesThrough
    <3> QED
      BY <3>3 DEF s
  <2> QED
    BY <2>1, <2>7, BatchOfOne, TablesThere
<1>4. CASE q.op = "moveFolder" /\ q.to = row.parent
  <2>1. Statements(t, q, row) = <<>>
    BY <1>4 DEF Statements, MoveFolder
  <2> QED
    BY <2>1, BatchOfNone, TablesThere
<1>5. CASE q.op = "moveFolder" /\ q.to # row.parent
  <2> DEFINE G == Written(F, {q.id}, [parent |-> q.to])
             N1 == Evenly(t, row.parent, -row.count)
             N2 == Evenly(t, q.to, row.count)
  <2>1. Statements(t, q, row) =
          <<UpdateRows("f", "id", {q.id}, [parent |-> q.to]), AddCounts(N1), AddCounts(N2)>>
    BY <1>5 DEF Statements, MoveFolder, Bump, Evenly
  <2>2. q.to \in Place /\ row.count \in Int
    BY <1>5 DEF Query, RowTyped
  <2>3. /\ G \in [DOMAIN F -> FolderRow]
        /\ \A f \in DOMAIN F :
             G[f].parent = (IF f \in {q.id} THEN q.to ELSE F[f].parent) /\ G[f].name = F[f].name
    BY <2>2, ReparentedRows
  <2>4. (\A f \in DOMAIN N1 : N1[f] \in Int) /\ \A f \in DOMAIN N2 : N2[f] \in Int
    BY <2>2 DEF Evenly
  <2> HIDE DEF G, N1, N2
  <2>5. DOMAIN G = DOMAIN F
    BY <2>3
  <2>6. \A f, g \in DOMAIN G : G[f].parent = G[g].parent /\ G[f].name = G[g].name => f = g
    BY <1>1, <1>5, <2>3, <2>5
  <2>7. \A f \in DOMAIN G : G[f].parent \in DOMAIN G \cup {Root}
    BY <1>1, <1>5, <2>3, <2>5
  <2>8. Legal([f |-> G, c |-> C])
    BY <1>1, <2>5, <2>6, <2>7 DEF Legal
  <2>9. Ran(d, UpdateRows("f", "id", {q.id}, [parent |-> q.to])) = [f |-> G, c |-> C]
    <3> DEFINE w == [parent |-> q.to]
               V == {q.id}
               s == UpdateRows("f", "id", V, w)
    <3>1. G = Written(F, V, w)
      BY DEF G
    <3>2. Applied(d, s) = [f |-> G, c |-> C]
      <4> HIDE DEF w, V
      <4> QED
        BY <3>1, RanUpdateFolders
    <3> HIDE DEF s
    <3>3. Ran(d, s) = [f |-> G, c |-> C]
      BY <2>8, <3>2, GoesThrough
    <3> QED
      BY <3>3 DEF s
  <2> DEFINE H == Counted(G, N1)
  <2>10. Ran([f |-> G, c |-> C], AddCounts(N1)) = [f |-> H, c |-> C] /\ Legal([f |-> H, c |-> C])
         /\ H \in [DOMAIN H -> FolderRow]
    <3>1. G \in [DOMAIN G -> FolderRow]
      BY <2>3, <2>5
    <3>2. /\ Ran([f |-> G, c |-> C], AddCounts(N1)) = [f |-> H, c |-> C]
          /\ Legal([f |-> H, c |-> C]) /\ H \in [DOMAIN G -> FolderRow]
      BY <2>4, <2>8, <3>1, CountsGoThrough
    <3>3. DOMAIN H = DOMAIN G
      BY DEF Counted
    <3> HIDE DEF H
    <3> QED
      BY <3>2, <3>3
  <2> HIDE DEF H
  <2>11. Ran([f |-> H, c |-> C], AddCounts(N2)) = [f |-> Counted(H, N2), c |-> C]
    BY <2>4, <2>10, CountsGoThrough
  <2> QED
    BY <2>1, <2>9, <2>10, <2>11, BatchOfThree, TablesThere
<1> QED
  BY <1>2, <1>3, <1>4, <1>5

\* Lemma: and deleteFolder: no folder is deleted before the folders in it, nor before the
\* connections in it.
LEMMA DeleteGoesThrough ==
  ASSUME NEW F, F \in [DOMAIN F -> FolderRow], Rooted(F), NEW C, Legal([f |-> F, c |-> C]),
         NEW q, NEW row, row.count \in Int
  PROVE  Batch([f |-> F, c |-> C], DeleteFolder(F, q, row)) # RolledBack
<1> DEFINE S == Below(F, q.id)
           st == DeleteFolder(F, q, row)
           N == Evenly(F, row.parent, -row.count)
           Cut == Only(C, {x \in DOMAIN C : C[x].folder \notin S})
           d0 == [f |-> F, c |-> C]
<1>1. PICK top : DeletePlan(F, q, row, top)
  BY DeleteStatements
<1> DEFINE Left(i) == DOMAIN F \ {g \in S : Depth(F, g) > top - i}
<1>2. top \in Nat /\ \A g \in S : Depth(F, g) \in 1 .. top
  BY <1>1 DEF DeletePlan
<1>3. /\ Len(st) = top + 2 /\ Len(st) \in Nat
      /\ st[1] = DeleteRows("c", "folder", S) /\ st[top + 2] = AddCounts(N)
      /\ \A i \in 1 .. top : st[i + 1] = DeleteRows("f", "id", Deepest(F, S, top + 1 - i))
  BY <1>1 DEF DeletePlan, Bump, Evenly
<1>4. /\ \A f \in DOMAIN F : F[f].parent \in DOMAIN F \cup {Root}
      /\ \A c \in DOMAIN C : C[c].folder \in DOMAIN F \cup {Root}
      /\ \A f, g \in DOMAIN F : F[f].parent = F[g].parent /\ F[f].name = F[g].name => f = g
  BY DEF Legal
<1>5. \A f \in DOMAIN F : F[f].parent \in S => f \in S /\ Depth(F, F[f].parent) <= Depth(F, f)
  <2> SUFFICES ASSUME NEW f \in DOMAIN F, F[f].parent \in S
               PROVE  f \in S /\ Depth(F, F[f].parent) <= Depth(F, f)
    OBVIOUS
  <2> DEFINE p == F[f].parent
  <2>1. p \in DOMAIN F /\ q.id \in Above(F, p)
    BY DEF Below
  <2>2. Above(F, f) = {f} \cup Above(F, p)
    BY AboveStep
  <2>3. p \in Above(F, p)
    BY <2>1, AboveClosed
  <2> QED
    BY <2>1, <2>2, <2>3, DepthFacts DEF Below
<1> HIDE DEF S, st, N
<1>6. PICK run : RunOf(run, d0, st)
  BY <1>3, BatchSteps
<1>7. ASSUME NEW i \in 0 .. top PROVE Legal([f |-> Only(F, Left(i)), c |-> Cut])
  <2> DEFINE G == Only(F, Left(i))
  <2>1. DOMAIN G = Left(i) /\ \A f \in DOMAIN G : G[f] = F[f]
    BY DEF Only
  <2>2. DOMAIN Cut = {x \in DOMAIN C : C[x].folder \notin S} /\ \A c \in DOMAIN Cut : Cut[c] = C[c]
    BY DEF Only
  <2>3. \A f \in Left(i) : F[f].parent \in Left(i) \cup {Root}
    <3> SUFFICES ASSUME NEW f \in Left(i), F[f].parent \in S, Depth(F, F[f].parent) > top - i
                 PROVE  FALSE
      BY <1>4
    <3>1. f \in S /\ Depth(F, F[f].parent) <= Depth(F, f) /\ Depth(F, f) \in Nat
          /\ Depth(F, F[f].parent) \in Nat
      BY <1>5, DepthFacts
    <3> QED
      BY <1>2, <3>1
  <2>4. Left(i) \subseteq DOMAIN F /\ DOMAIN F \ S \subseteq Left(i)
    OBVIOUS
  <2> HIDE DEF Left, G, Cut
  <2>5. \A c \in DOMAIN Cut : Cut[c].folder \in DOMAIN G \cup {Root}
    BY <1>4, <2>1, <2>2, <2>4
  <2>6. \A f \in DOMAIN G : G[f].parent \in DOMAIN G \cup {Root}
    BY <2>1, <2>3
  <2>7. \A f, g \in DOMAIN G : G[f].parent = G[g].parent /\ G[f].name = G[g].name => f = g
    BY <1>4, <2>1, <2>4
  <2>8. Legal([f |-> G, c |-> Cut])
    BY <2>5, <2>6, <2>7 DEF Legal
  <2> QED
    BY <2>8 DEF G
<1> DEFINE Good == {i \in 0 .. top : run[i + 1] = [f |-> Only(F, Left(i)), c |-> Cut]}
<1>8. 0 \in Good
  <2>1. run[1] = Ran(d0, st[1])
    BY <1>2, <1>3, <1>6 DEF RunOf
  <2>2. Left(0) = DOMAIN F
    BY <1>2
  <2>3. F = [x \in DOMAIN F |-> F[x]]
    OBVIOUS
  <2>4. Only(F, Left(0)) = F
    BY <2>2, <2>3 DEF Only
  <2>5. Applied(d0, st[1]) = [f |-> F, c |-> Cut]
    BY <1>3, RanDeleteConnsIn
  <2>6. 0 \in 0 .. top
    BY <1>2
  <2>7. Legal([f |-> F, c |-> Cut])
    BY <1>7, <2>4, <2>6
  <2> HIDE DEF Cut, Left
  <2>8. run[1] = [f |-> F, c |-> Cut]
    BY <2>1, <2>5, <2>7, GoesThrough
  <2> QED
    BY <2>4, <2>6, <2>8
<1>9. ASSUME NEW i \in 1 .. top, i - 1 \in Good PROVE i \in Good
  <2> DEFINE low == Only(F, Left(i - 1))
             V == Deepest(F, S, top + 1 - i)
  <2>1. run[i + 1] = Ran(run[i], st[i + 1]) /\ (i - 1) + 1 = i
    <3>1. i + 1 \in 1 .. Len(st) /\ (i + 1) - 1 = i
      BY <1>2, <1>3
    <3> QED
      BY <1>6, <3>1 DEF RunOf
  <2>2. run[i] = [f |-> low, c |-> Cut]
    BY <1>9, <2>1
  <2>3. st[i + 1] = DeleteRows("f", "id", V)
    BY <1>3
  <2>4. {g \in S : Depth(F, g) > top - i} = {g \in S : Depth(F, g) > top - (i - 1)} \cup V
    BY <1>2 DEF Deepest
  <2>5. Only(low, DOMAIN low \ V) = Only(F, Left(i))
    BY <2>4 DEF Only
  <2>6. i \in 0 .. top
    BY <1>2
  <2>7. Legal([f |-> Only(F, Left(i)), c |-> Cut])
    BY <1>7, <2>6
  <2> HIDE DEF low, V, Cut, Left
  <2>8. Applied([f |-> low, c |-> Cut], DeleteRows("f", "id", V)) = [f |-> Only(low, DOMAIN low \ V), c |-> Cut]
    BY RanDeleteFolders, Zenon
  <2>9. run[i + 1] = [f |-> Only(F, Left(i)), c |-> Cut]
    BY <2>1, <2>2, <2>3, <2>5, <2>7, <2>8, GoesThrough
  <2> QED
    BY <2>6, <2>9
<1>10. top \in Good
  <2> HIDE DEF Good
  <2> QED
    BY <1>2, <1>8, <1>9, Upwards
<1>11. run[top + 2] = Ran(run[top + 1], AddCounts(N)) /\ Batch(d0, st) = run[top + 2]
  <2>1. top + 2 \in 1 .. Len(st) /\ (top + 2) - 1 = top + 1
    BY <1>2, <1>3
  <2> QED
    BY <1>3, <1>6, <2>1 DEF RunOf
<1>12. Only(F, Left(top)) \in [DOMAIN Only(F, Left(top)) -> FolderRow]
  BY DEF Only
<1>13. \A f \in DOMAIN N : N[f] \in Int
  BY DEF N, Evenly
<1>14. top \in 0 .. top
  BY <1>2
<1>15. Legal([f |-> Only(F, Left(top)), c |-> Cut])
  BY <1>7, <1>14
<1> DEFINE G == Only(F, Left(top))
<1>16. run[top + 1] = [f |-> G, c |-> Cut]
  BY <1>10
<1> HIDE DEF G, Cut
<1>17. Ran([f |-> G, c |-> Cut], AddCounts(N)) = [f |-> Counted(G, N), c |-> Cut]
  BY <1>12, <1>13, <1>15, CountsGoThrough DEF G
<1> QED
  BY <1>11, <1>16, <1>17, TablesThere DEF st

\* Lemma: a request that nothing overtook is refused by the schema only for a name that is taken.
LEMMA OnlyForName ==
  ASSUME IInv, NEW r \in Request, Busy(r), req[r].q.op # "promoteFolder", req[r].at = "commit",
         req[r].past = {}, Batch(db, Sent(r)) = RolledBack
  PROVE  Taken(r)
<1> DEFINE q == req[r].q
           row == req[r].row
           F == db.f
           C == db.c
<1>1. /\ db = [f |-> F, c |-> C] /\ F \in [DOMAIN F -> FolderRow] /\ C \in [DOMAIN C -> ConnRow]
      /\ Rooted(F) /\ Legal([f |-> F, c |-> C])
  BY TypedRooted DEF IInv, Types, Typed
<1>2. q \in Query /\ RowTyped(q, row)
  BY DEF IInv, Types, ReqTyped, Idle
<1>3. Present(q) /\ req[r].seen = F
  BY DEF IInv, Untouched
<1>4. Batch([f |-> F, c |-> C], Statements(F, q, row)) = RolledBack
  BY <1>1, <1>3 DEF Sent
<1>5. Folders = DOMAIN F /\ Places = DOMAIN F \cup {Root}
  BY DEF Folders, Places
<1>6. Taken(r) <=>
        CASE q.op = "createFolder" -> \E g \in DOMAIN F : F[g].parent = q.to /\ F[g].name = q.name
          [] q.op = "renameFolder" ->
               \E g \in DOMAIN F \ {q.id} : F[g].parent = F[q.id].parent /\ F[g].name = q.name
          [] q.op = "moveFolder" ->
               \E g \in DOMAIN F \ {q.id} : F[g].parent = q.to /\ F[g].name = F[q.id].name
          [] OTHER -> FALSE
  BY DEF Taken, Folders
<1> HIDE DEF q, row, F, C
<1>7. q.op \notin {"createConnection", "updateConnection", "clearCredential", "deleteConnection",
                   "moveConnections"}
  <2> SUFFICES ASSUME q.op \in {"createConnection", "updateConnection", "clearCredential",
                                "deleteConnection", "moveConnections"}
               PROVE  FALSE
    OBVIOUS
  <2>1. q.op \in {"createConnection", "moveConnections"} => q.to \in DOMAIN F \cup {Root}
    BY <1>3, <1>5 DEF Present
  <2> QED
    BY <1>1, <1>2, <1>4, <2>1, ConnectionsGoThrough
<1>8. q.op # "deleteFolder"
  <2> SUFFICES ASSUME q.op = "deleteFolder" PROVE FALSE
    OBVIOUS
  <2>1. row.count \in Int
    BY <1>2 DEF RowTyped
  <2>2. Statements(F, q, row) = DeleteFolder(F, q, row)
    BY DEF Statements
  <2> QED
    BY <1>1, <1>4, <2>1, <2>2, DeleteGoesThrough
<1>9. q.op \in {"createFolder", "renameFolder", "moveFolder"}
  <2>1. q.op # "promoteFolder"
    BY DEF q
  <2> QED
    BY <1>2, <1>7, <1>8, <2>1 DEF Query
<1>10. /\ q.op \in {"createFolder", "moveFolder"} => q.to \in DOMAIN F \cup {Root}
       /\ q.op \in {"renameFolder", "moveFolder"} => q.id \in DOMAIN F
  BY <1>3, <1>5 DEF Present
<1> SUFFICES ASSUME ~Taken(r) PROVE FALSE
  OBVIOUS
<1>11. /\ q.op = "createFolder" => \A g \in DOMAIN F : F[g].parent = q.to => F[g].name # q.name
       /\ q.op = "renameFolder" =>
            \A g \in DOMAIN F \ {q.id} : F[g].parent = F[q.id].parent => F[g].name # q.name
       /\ q.op = "moveFolder" =>
            \A g \in DOMAIN F \ {q.id} : F[g].parent = q.to => F[g].name # F[q.id].name
  BY <1>6
<1> QED
  BY <1>1, <1>2, <1>4, <1>9, <1>10, <1>11, FoldersGoThrough

\* Theorem: a batch that no other commit at all overtook, of any operation but promoteFolder, fails
\* only because a sibling has the name already: no foreign key stops it (UndisturbedCommits).
THEOREM CommitsUndisturbed == Spec => []UndisturbedCommits
<1>1. IInv => UndisturbedCommits
  BY OnlyForName DEF UndisturbedCommits, RefusedForName
<1> QED
  BY <1>1, Invariance, PTL

-----------------------------------------------------------------------------
(* The store implements FolderStore. *)

\* The folders as the abstract store has them.
TreeOf(F) == [f \in DOMAIN F |-> [parent |-> F[f].parent, name |-> F[f].name]]

\* Lemma: the queries of the abstract store are the same.
LEMMA SameQueries ==
  ASSUME NEW t, NEW C, NEW f
  PROVE  /\ Promise!Above(t, f) = Above(t, f) /\ Promise!Below(t, f) = Below(t, f)
         /\ Promise!Depth(t, f) = Depth(t, f) /\ Promise!Height(t, f) = Height(t, f)
         /\ Promise!HostsIn(t, C, f) = HostsIn(t, C, f) /\ (Promise!Acyclic(t) <=> Acyclic(t))
<1>0. \A S : Promise!Cardinality(S) = Cardinality(S)
  BY DEF Promise!Cardinality, Cardinality
<1>1. \A g : Promise!Above(t, g) = Above(t, g)
  BY <1>0 DEF Promise!Above, Above
<1>2. \A g : Promise!Below(t, g) = Below(t, g) /\ Promise!Depth(t, g) = Depth(t, g)
  BY <1>0, <1>1 DEF Promise!Below, Below, Promise!Depth, Depth
<1>3. \A S : Promise!Max(S) = Max(S)
  BY DEF Promise!Max, Max
<1>4. Promise!Height(t, f) = Height(t, f)
  BY <1>2, <1>3 DEF Promise!Height, Height
<1>5. Promise!HostsIn(t, C, f) = HostsIn(t, C, f)
  BY <1>1 DEF Promise!HostsIn, HostsIn
<1>6. Promise!Acyclic(t) <=> Acyclic(t)
  BY <1>1 DEF Promise!Acyclic, Acyclic, Promise!OnCycle, OnCycle
<1> QED
  BY <1>1, <1>2, <1>4, <1>5, <1>6

\* Lemma: and find the same folders without the counters.
LEMMA TreeOfFacts ==
  ASSUME NEW F, Rooted(F), F \in [DOMAIN F -> FolderRow], NEW T, T = TreeOf(F)
  PROVE  /\ DOMAIN T = DOMAIN F /\ Rooted(T) /\ (Acyclic(T) <=> Acyclic(F))
         /\ \A f \in DOMAIN F : T[f] = [parent |-> F[f].parent, name |-> F[f].name]
         /\ \A f : /\ Above(T, f) = Above(F, f) /\ Below(T, f) = Below(F, f)
                   /\ Depth(T, f) = Depth(F, f) /\ Height(T, f) = Height(F, f)
         /\ \A C, f : HostsIn(T, C, f) = HostsIn(F, C, f)
<1>1. /\ DOMAIN T = DOMAIN F /\ \A f \in DOMAIN F : T[f] = [parent |-> F[f].parent, name |-> F[f].name]
  BY DEF TreeOf
<1>2. \A f \in DOMAIN F : T[f].parent = F[f].parent
  BY <1>1
<1>3. Rooted(T)
  BY <1>1, <1>2 DEF Rooted
<1>4. \A f : Above(T, f) = Above(F, f)
  <2>1. \A f \in DOMAIN F : Above(T, f) = Above(F, f)
    BY <1>1, <1>2, <1>3, KeptTree
  <2>2. \A f : f \notin DOMAIN F => Above(T, f) = Above(F, f)
    BY <1>1, <1>3, AboveNothing
  <2> QED
    BY <2>1, <2>2
<1>5. \A f : Below(T, f) = Below(F, f) /\ Depth(T, f) = Depth(F, f)
  BY <1>1, <1>4 DEF Below, Depth
<1>6. \A f : Height(T, f) = Height(F, f)
  BY <1>5 DEF Height
<1>7. \A C, f : HostsIn(T, C, f) = HostsIn(F, C, f)
  BY <1>4 DEF HostsIn
<1>8. Acyclic(T) <=> Acyclic(F)
  BY <1>1, <1>2, <1>4 DEF Acyclic, OnCycle
<1> QED
  BY <1>1, <1>3, <1>4, <1>5, <1>6, <1>7, <1>8

\* Lemma: the abstract store starts as the tables do.
LEMMA PromiseInit ==
  ASSUME Init
  PROVE  Promise!Init
<1> DEFINE T == TreeOf(db.f)
<1>1. IInv /\ raced = {}
  BY Initial DEF Init
<1>2. Typed(db) /\ Rooted(db.f) /\ Legal(db) /\ db.f \in [DOMAIN db.f -> FolderRow] /\ SoundTree
  BY <1>1, TypedRooted DEF IInv, Types, Typed
<1>3. T = [f \in Folders |-> [parent |-> db.f[f].parent, name |-> db.f[f].name]]
  BY DEF TreeOf, Folders
<1>4. DOMAIN T = DOMAIN db.f /\ Acyclic(T) /\ \A f \in DOMAIN T : Promise!Depth(T, f) <= MaxDepth
  <2>1. /\ DOMAIN T = DOMAIN db.f /\ (Acyclic(T) <=> Acyclic(db.f))
        /\ \A f : Depth(T, f) = Depth(db.f, f)
    BY <1>2, TreeOfFacts
  <2>2. \A f : Promise!Depth(T, f) = Depth(T, f)
    BY SameQueries
  <2> QED
    BY <1>2, <2>1, <2>2 DEF SoundTree, Folders
<1>5. \A f, g \in DOMAIN T : f # g => T[f] # T[g]
  BY <1>2 DEF Legal, TreeOf
<1>6. /\ \A f \in DOMAIN T : T[f].parent \in DOMAIN T \cup {Root}
      /\ \A c \in DOMAIN db.c : db.c[c].folder \in DOMAIN T \cup {Root}
  BY <1>2 DEF Legal, TreeOf
<1>7. Promise!Acyclic(T)
  BY <1>4, SameQueries
<1> HIDE DEF T
<1> QED
  BY <1>1, <1>3, <1>4, <1>5, <1>6, <1>7 DEF Promise!Init, Promise!Places

\* The tables as the abstract store has them do not change in this step.
Unchanged == TreeOf(db'.f) = TreeOf(db.f) /\ db'.c = db.c

\* Lemma: what the race of the rows is made of.
LEMMA NoRowsRace ==
  ASSUME NEW r \in Request, Commit(r), "rows" \notin raced'
  PROVE  /\ req[r].q.op \in {"updateConnection", "clearCredential"} =>
              Kept(r, {"updateConnection", "clearCredential"})
         /\ req[r].q.op = "deleteFolder" => Kept(r, {"moveFolder", "promoteFolder"})
<1>1. "rows" \in DOMAIN Races
  BY DEF Races
<1>2. \A op \in req[r].past : <<req[r].q.op, op>> \notin Races["rows"]
  BY <1>1 DEF Commit
<1>3. Races["rows"] = ({"updateConnection", "clearCredential"} \X {"updateConnection", "clearCredential"})
                        \cup ({"deleteFolder"} \X {"moveFolder", "promoteFolder"})
  BY DEF Races
<1> QED
  BY <1>2, <1>3 DEF Kept

\* Lemma: the pin of a connection's row, written.
LEMMA PinEdit ==
  ASSUME NEW k \in ConnRow, NEW b
  PROVE  [k EXCEPT !.pin = b] = [folder |-> k.folder, auth |-> k.auth, secret |-> k.secret, pin |-> b]
BY DEF ConnRow

\* Lemma: what EXCEPT does to a payload.
LEMMA RowEdits ==
  ASSUME NEW k \in ConnRow, NEW a, NEW b
  PROVE  /\ [k EXCEPT !.secret = b] = [folder |-> k.folder, auth |-> k.auth, secret |-> b, pin |-> k.pin]
         /\ [k EXCEPT !.auth = a, !.secret = b] = [folder |-> k.folder, auth |-> a, secret |-> b, pin |-> k.pin]
<1>1. [k EXCEPT !.secret = b] = [folder |-> k.folder, auth |-> k.auth, secret |-> b, pin |-> k.pin]
  BY DEF ConnRow
<1>2. [k EXCEPT !.auth = a] = [folder |-> k.folder, auth |-> a, secret |-> k.secret, pin |-> k.pin]
  BY DEF ConnRow
<1>3. [k EXCEPT !.auth = a, !.secret = b] = [[k EXCEPT !.auth = a] EXCEPT !.secret = b]
  OBVIOUS
<1>4. [[k EXCEPT !.auth = a] EXCEPT !.secret = b] = [folder |-> k.folder, auth |-> a, secret |-> b, pin |-> k.pin]
  <2>1. [[folder |-> k.folder, auth |-> a, secret |-> k.secret, pin |-> k.pin] EXCEPT !.secret = b]
          = [folder |-> k.folder, auth |-> a, secret |-> b, pin |-> k.pin]
    OBVIOUS
  <2> QED
    BY <1>2, <2>1, Zenon
<1> QED
  BY <1>1, <1>3, <1>4, Zenon

\* Lemma: with a secret cleared or given.
LEMMA SecretEdits ==
  ASSUME NEW k \in ConnRow, NEW a
  PROVE  /\ [k EXCEPT !.secret = FALSE] = [folder |-> k.folder, auth |-> k.auth, secret |-> FALSE, pin |-> k.pin]
         /\ [k EXCEPT !.auth = a, !.secret = TRUE] = [folder |-> k.folder, auth |-> a, secret |-> TRUE, pin |-> k.pin]
<1> DEFINE no == FALSE yes == TRUE
<1> HIDE DEF no, yes
<1>1. [k EXCEPT !.secret = no] = [folder |-> k.folder, auth |-> k.auth, secret |-> no, pin |-> k.pin]
  BY RowEdits
<1>2. [k EXCEPT !.auth = a, !.secret = yes] = [folder |-> k.folder, auth |-> a, secret |-> yes, pin |-> k.pin]
  BY RowEdits
<1> QED
  BY <1>1, <1>2, Zenon DEF no, yes

\* Lemma: the operations on connections do as the abstract store says.
LEMMA ConnectionsPromised ==
  ASSUME IInv, NEW r \in Request, Commit(r), "rows" \notin raced',
         req[r].q.op \in {"createConnection", "updateConnection", "clearCredential", "deleteConnection",
                          "moveConnections"}
  PROVE  Unchanged \/ Promise!Operation
<1> DEFINE q == req[r].q
           row == req[r].row
           t == req[r].seen
           F == db.f
           C == db.c
           u == db'.f
           v == db'.c
           x == q.id
           T == TreeOf(F)
           T2 == TreeOf(u)
<1>1. /\ q \in Query /\ RowTyped(q, row) /\ q.op \in Ops
      /\ F \in [DOMAIN F -> FolderRow] /\ C \in [DOMAIN C -> ConnRow]
      /\ FolderChange(F, u, t, q, row) /\ ConnChange(C, v, t, q, row) /\ Typed(db')
  BY CommitFacts DEF IInv, Folders, Conns
<1>2. T = [f \in Folders |-> [parent |-> db.f[f].parent, name |-> db.f[f].name]]
  BY DEF TreeOf, Folders
<1>3. T2 = [f \in Folders' |-> [parent |-> db'.f[f].parent, name |-> db'.f[f].name]]
  BY DEF TreeOf, Folders
<1>4. DOMAIN T = DOMAIN F /\ DOMAIN u = DOMAIN F /\ T2 = T
  <2>1. DOMAIN u = DOMAIN F /\ \A f \in DOMAIN F : u[f].parent = F[f].parent /\ u[f].name = F[f].name
    BY <1>1 DEF FolderChange
  <2> QED
    BY <2>1 DEF TreeOf
<1>5. \A c \in DOMAIN v : v[c].folder \in DOMAIN F \cup {Root}
  BY <1>1, <1>4 DEF Typed, Legal
<1>6. \A i \in DOMAIN F \cup DOMAIN C : Creates(q) => i # x
  BY NoReturn DEF IInv, Ids, Fresh, Folders, Conns
<1>7. \A c \in DOMAIN C : C[c] = [folder |-> C[c].folder, auth |-> C[c].auth, secret |-> C[c].secret, pin |-> C[c].pin]
  BY <1>1 DEF ConnRow
<1>8. Unchanged <=> T2 = T /\ v = C
  BY DEF Unchanged
<1>9. DOMAIN C \subseteq Conn
  BY DEF IInv, Types, Typed
<1>10. CASE q.op = "createConnection"
  <2>1. /\ v \in [DOMAIN v -> ConnRow] /\ DOMAIN v = DOMAIN C \cup {x} /\ v[x] = NewConnection(q)
        /\ \A c \in DOMAIN C : c # x => v[c] = C[c]
    BY <1>1, <1>10 DEF ConnChange
  <2>2. x \notin DOMAIN C /\ x \in Conn /\ q.auth \in AuthType
    BY <1>1, <1>6, <1>10 DEF Creates, Query
  <2>3. q.to \in DOMAIN F \cup {Root}
    BY <1>5, <2>1 DEF NewConnection
  <2>4. v = [c \in DOMAIN C \cup {x} |->
               IF c = x THEN [folder |-> q.to, auth |-> q.auth, secret |-> TRUE, pin |-> FALSE] ELSE C[c]]
    BY <2>1, <2>2 DEF NewConnection
  <2>5. Promise!AddConnection(x, q.to, q.auth)
    <3> HIDE DEF F, C, u, v, q, x, T, T2
    <3> QED
      BY <1>2, <1>3, <1>4, <2>2, <2>3, <2>4 DEF Promise!AddConnection, Promise!Places, C, v
  <2>6. q.to \in Promise!Places
    BY <2>3 DEF Promise!Places, Folders
  <2> QED
    BY <2>2, <2>5, <2>6 DEF Promise!Operation, Promise!Filing
<1>11. CASE q.op = "deleteConnection"
  <2>1. v \in [DOMAIN v -> ConnRow] /\ DOMAIN v = DOMAIN C \ {x} /\ \A c \in DOMAIN v : v[c] = C[c]
    BY <1>1, <1>11 DEF ConnChange
  <2>2. CASE x \notin DOMAIN C
    BY <1>1, <1>4, <1>8, <2>1, <2>2
  <2>3. CASE x \in DOMAIN C
    <3>1. v = [c \in DOMAIN C \ {x} |-> C[c]]
      BY <2>1
    <3>2. Promise!DeleteConnection(x)
      <4> HIDE DEF F, u, q, x, T, T2
      <4> QED
        BY <1>2, <1>3, <1>4, <2>3, <3>1 DEF Promise!DeleteConnection
    <3> QED
      BY <2>3, <3>2 DEF Promise!Operation, Promise!Filing
  <2> QED
    BY <2>2, <2>3
<1>12. CASE q.op = "moveConnections"
  <2> DEFINE S == Movers(q, row) \cap DOMAIN C
  <2>1. /\ v \in [DOMAIN v -> ConnRow] /\ DOMAIN v = DOMAIN C
        /\ \A c \in DOMAIN C : v[c] = IF c \in S THEN [C[c] EXCEPT !.folder = q.to] ELSE C[c]
    BY <1>1, <1>12 DEF ConnChange
  <2>2. CASE S = {}
    <3>1. \A c \in DOMAIN C : v[c] = C[c]
      BY <2>1, <2>2
    <3>2. v = C
      BY <1>1, <2>1, <3>1
    <3> QED
      BY <1>4, <1>8, <3>2
  <2>3. CASE S # {}
    <3>1. q.to \in DOMAIN F \cup {Root}
      <4>1. PICK c \in S : TRUE
        BY <2>3
      <4>2. v[c].folder = q.to
        BY <1>7, <2>1, <4>1
      <4> QED
        BY <1>5, <2>1, <4>1, <4>2
    <3>2. v = [c \in DOMAIN C |-> IF c \in S THEN [C[c] EXCEPT !.folder = q.to] ELSE C[c]]
      BY <2>1
    <3>3. Promise!Place(S, q.to)
      <4>1. S \subseteq DOMAIN C
        OBVIOUS
      <4> HIDE DEF F, u, q, x, T, T2, S
      <4> QED
        BY <1>2, <1>3, <1>4, <3>1, <3>2, <4>1 DEF Promise!Place, Promise!Places
    <3>4. q.to \in Promise!Places
      BY <3>1 DEF Promise!Places, Folders
    <3> QED
      BY <3>3, <3>4 DEF Promise!Operation, Promise!Filing
  <2> QED
    BY <2>2, <2>3
<1>13. CASE q.op \in {"updateConnection", "clearCredential"} /\ x \notin DOMAIN C
  <2>1. v \in [DOMAIN v -> ConnRow] /\ DOMAIN v = DOMAIN C /\ \A c \in DOMAIN C : v[c] = C[c]
    BY <1>1, <1>13 DEF ConnChange
  <2> QED
    BY <1>1, <1>4, <1>8, <2>1
<1>14. ASSUME q.op \in {"updateConnection", "clearCredential"}, x \in DOMAIN C
       PROVE  C[x].auth = row.auth /\ C[x].secret = row.secret /\ C[x].pin = row.pin
  <2>1. Busy(r) /\ Kept(r, {"updateConnection", "clearCredential"})
    BY <1>14, NoRowsRace DEF Commit, Busy
  <2> QED
    BY <1>14, <2>1 DEF IInv, RowsNow, Payload, Conns
<1>15. CASE q.op = "clearCredential" /\ x \in DOMAIN C
  <2>1. /\ v \in [DOMAIN v -> ConnRow] /\ DOMAIN v = DOMAIN C
        /\ \A c \in DOMAIN C :
             v[c] = IF c = x THEN [folder |-> C[c].folder, auth |-> row.auth, secret |-> FALSE, pin |-> row.pin]
                    ELSE C[c]
    BY <1>1, <1>15 DEF ConnChange
  <2>2. v[x] = [C[x] EXCEPT !.secret = FALSE]
    <3>1. C[x] \in ConnRow
      BY <1>1, <1>15
    <3>2. v[x] = [folder |-> C[x].folder, auth |-> C[x].auth, secret |-> FALSE, pin |-> C[x].pin]
      BY <1>14, <1>15, <2>1
    <3> QED
      BY <3>1, <3>2, SecretEdits, Zenon
  <2>3. v = [C EXCEPT ![x].secret = FALSE]
    BY <1>1, <2>1, <2>2
  <2>4. Promise!ClearSecret(x)
    <3> HIDE DEF F, u, q, x, T, T2
    <3> QED
      BY <1>2, <1>3, <1>4, <1>15, <2>3 DEF Promise!ClearSecret
  <2> QED
    BY <1>15, <2>4 DEF Promise!Operation
<1>16. CASE q.op = "updateConnection" /\ x \in DOMAIN C
  <2> DEFINE p == q.patch
             w == Merged(row, p)
  <2>1. /\ v \in [DOMAIN v -> ConnRow] /\ DOMAIN v = DOMAIN C
        /\ \A c \in DOMAIN C :
             v[c] = IF c = x THEN [folder |-> C[c].folder, auth |-> w.auth, secret |-> w.secret, pin |-> w.pin]
                    ELSE C[c]
    BY <1>1, <1>16 DEF ConnChange
  <2>2. /\ w.auth = (IF p.auth = "keep" THEN C[x].auth ELSE p.auth)
        /\ w.secret = (p.secret \/ (C[x].secret /\ w.auth = C[x].auth))
        /\ w.pin = (p.pin = "set" \/ (p.pin = "keep" /\ C[x].pin))
    <3>1. row \in ConnRow /\ p \in Patches
      BY <1>1, <1>16 DEF RowTyped, Query
    <3>2. C[x].auth = row.auth /\ C[x].secret = row.secret /\ C[x].pin = row.pin
      BY <1>14, <1>16
    <3>3. /\ w.auth = (IF p.auth = "keep" THEN row.auth ELSE p.auth)
          /\ w.secret = (p.secret \/ (row.secret /\ w.auth = row.auth))
          /\ w.pin = (p.pin = "set" \/ (p.pin = "keep" /\ row.pin))
      BY <3>1, MergedFields
    <3> QED
      BY <3>2, <3>3
  <2>3. w.secret
    <3>1. ~Refused(t, q, row)
      BY DEF IInv, SeensNow, SeenRows, Commit
    <3> QED
      BY <1>16, <3>1 DEF Refused
  <2>4. p \in Patches
    BY <1>1, <1>16 DEF Query
  <2>5. C[x] \in ConnRow
    BY <1>1, <1>16
  <2>9. v[x] = [folder |-> C[x].folder, auth |-> w.auth, secret |-> w.secret, pin |-> w.pin]
    BY <1>16, <2>1
  <2> HIDE DEF w, p
  <2>6. \/ p.auth = "keep" /\ p.secret = FALSE /\ p.pin \in {"keep", "set", "reset"}
        \/ p.auth \in AuthType /\ p.secret = TRUE /\ p.pin = "keep"
    BY <2>4, PatchCases
  <2>7. CASE p.auth = "keep" /\ p.secret = FALSE /\ p.pin \in {"keep", "set", "reset"}
    <3>1. w.auth = C[x].auth /\ w.secret = TRUE /\ C[x].secret = TRUE
      BY <2>2, <2>3, <2>5, <2>7 DEF ConnRow
    <3>2. CASE p.pin = "keep"
      <4>1. w.pin = C[x].pin
        BY <2>2, <2>5, <3>2 DEF ConnRow
      <4>2. v[x] = C[x]
        <5>1. v[x] = [folder |-> C[x].folder, auth |-> C[x].auth, secret |-> C[x].secret, pin |-> C[x].pin]
          BY <2>9, <3>1, <4>1
        <5>2. C[x] = [folder |-> C[x].folder, auth |-> C[x].auth, secret |-> C[x].secret, pin |-> C[x].pin]
          BY <2>5 DEF ConnRow
        <5> QED
          BY <5>1, <5>2
      <4>3. v = C
        <5>1. \A c \in DOMAIN C : v[c] = C[c]
          BY <2>1, <4>2
        <5> QED
          BY <1>1, <2>1, <5>1
      <4> QED
        BY <1>4, <1>8, <4>3
    <3>3. CASE p.pin # "keep"
      <4> DEFINE b == (p.pin = "set")
      <4>1. w.pin = b /\ b \in BOOLEAN
        BY <2>2, <3>3
      <4> HIDE DEF b
      <4>2. v[x] = [C[x] EXCEPT !.pin = b]
        <5>1. v[x] = [folder |-> C[x].folder, auth |-> C[x].auth, secret |-> C[x].secret, pin |-> b]
          BY <2>9, <3>1, <4>1
        <5>2. [C[x] EXCEPT !.pin = b] = [folder |-> C[x].folder, auth |-> C[x].auth, secret |-> C[x].secret, pin |-> b]
          BY <2>5, PinEdit, Zenon
        <5> QED
          BY <5>1, <5>2, Zenon
      <4>3. v = [C EXCEPT ![x].pin = b]
        BY <1>1, <2>1, <4>2
      <4>4. Promise!Pin(x, b)
        <5> HIDE DEF F, u, q, x, T, T2
        <5> QED
          BY <1>2, <1>3, <1>4, <1>16, <3>1, <4>3 DEF Promise!Pin
      <4>5. C[x].auth \in AuthType
        BY <2>5 DEF ConnRow
      <4> QED
        BY <1>16, <4>1, <4>4, <4>5 DEF Promise!Operation
    <3> QED
      BY <3>2, <3>3
  <2>8. CASE p.auth \in AuthType /\ p.secret = TRUE /\ p.pin = "keep"
    <3> DEFINE a == p.auth
    <3>1. a \in AuthType /\ a # "keep"
      BY <2>8, StoreAssumption
    <3>2. w.auth = a /\ w.secret = TRUE /\ w.pin = C[x].pin
      BY <2>2, <2>5, <2>8, <3>1 DEF ConnRow
    <3> HIDE DEF a
    <3>3. v[x] = [C[x] EXCEPT !.auth = a, !.secret = TRUE]
      <4>1. v[x] = [folder |-> C[x].folder, auth |-> a, secret |-> TRUE, pin |-> C[x].pin]
        BY <2>9, <3>2
      <4> QED
        BY <2>5, <4>1, SecretEdits, Zenon
    <3>4. v = [C EXCEPT ![x].auth = a, ![x].secret = TRUE]
      BY <1>1, <1>16, <2>1, <3>3
    <3>5. Promise!Edit(x, a, TRUE)
      <4> HIDE DEF F, u, q, x, T, T2
      <4> QED
        BY <1>2, <1>3, <1>4, <1>16, <3>4 DEF Promise!Edit
    <3> QED
      BY <1>16, <3>1, <3>5 DEF Promise!Operation
  <2> QED
    BY <2>6, <2>7, <2>8
<1> QED
  BY <1>10, <1>11, <1>12, <1>13, <1>15, <1>16

\* Lemma: the depth limit that createFolder checked still holds when it commits.
LEMMA CreateInDepth ==
  ASSUME NEW F, Rooted(F), NEW t, Rooted(t), NEW to, to \in DOMAIN F \cup {Root},
         to # Root => to \in DOMAIN t /\ Above(F, to) = Above(t, to) \cap DOMAIN F /\ ~(Depth(t, to) >= MaxDepth)
  PROVE  Depth(F, to) < MaxDepth
<1>1. MaxDepth \in Nat \ {0} /\ Depth(F, to) \in Nat /\ Depth(t, to) \in Nat
  BY StoreAssumption, DepthFacts
<1>2. CASE to = Root
  BY <1>1, <1>2, DepthFacts DEF Rooted
<1>3. CASE to # Root
  <2>1. Above(F, to) \subseteq Above(t, to) /\ IsFiniteSet(Above(t, to))
    BY <1>3, DepthFacts
  <2>2. Depth(F, to) <= Depth(t, to)
    BY <2>1, FS_Subset DEF Depth
  <2> QED
    BY <1>1, <1>3, <2>2
<1> QED
  BY <1>2, <1>3

\* Lemma: folders that went meanwhile make no subtree higher and no folder deeper.
LEMMA MoveInDepth ==
  ASSUME NEW F, Rooted(F), Acyclic(F), NEW t, Rooted(t), Acyclic(t), NEW to, NEW x \in DOMAIN F,
         \A f \in DOMAIN F : f \in DOMAIN t /\ Above(F, f) = Above(t, f) \cap DOMAIN F,
         ~(Depth(t, to) + Height(t, x) > MaxDepth)
  PROVE  Depth(F, to) + Height(F, x) <= MaxDepth
<1>1. /\ MaxDepth \in Nat /\ \A f : Depth(F, f) \in Nat /\ Depth(t, f) \in Nat
      /\ Height(F, x) \in Nat /\ Height(t, x) \in Nat
  BY StoreAssumption, DepthFacts, HeightFacts
<1>2. Depth(F, to) <= Depth(t, to)
  <2>1. Above(F, to) \subseteq Above(t, to) /\ IsFiniteSet(Above(t, to))
    BY AboveNothing, DepthFacts
  <2> QED
    BY <2>1, FS_Subset DEF Depth
<1>3. ASSUME NEW g \in Below(F, x) PROVE Depth(F, g) - Depth(F, x) + 1 <= Height(t, x)
  <2>1. g \in DOMAIN F /\ x \in Above(F, g)
    BY <1>3 DEF Below
  <2>2. g \in DOMAIN t /\ x \in Above(t, g)
    BY <2>1
  <2>3. Cardinality(Between(F, g, x)) = Depth(F, g) - Depth(F, x) + 1
    BY <2>1, BetweenFacts
  <2>4. /\ IsFiniteSet(Between(t, g, x)) /\ Cardinality(Between(t, g, x)) = Depth(t, g) - Depth(t, x) + 1
    BY <2>2, BetweenFacts
  <2>5. Between(F, g, x) \subseteq Between(t, g, x)
    <3>1. Above(F, g) \subseteq DOMAIN F
      BY AboveClosed
    <3> QED
      BY <2>1, <3>1 DEF Between
  <2>6. Cardinality(Between(F, g, x)) <= Cardinality(Between(t, g, x))
    BY <2>4, <2>5, FS_Subset
  <2>7. Depth(t, g) - Depth(t, x) + 1 <= Height(t, x)
    BY <2>2, HeightFacts DEF Below
  <2> QED
    BY <1>1, <2>3, <2>4, <2>6, <2>7
<1>4. Height(F, x) <= Height(t, x)
  <2> DEFINE S == {0} \cup {Depth(F, g) - Depth(F, x) + 1 : g \in Below(F, x)}
  <2>1. S \subseteq Int /\ S # {}
    BY <1>1
  <2>2. \A n \in S : n <= Height(t, x)
    BY <1>1, <1>3
  <2>3. Height(F, x) = Max(S)
    BY DEF Height
  <2> DEFINE H == Height(t, x)
  <2>5. H \in Int /\ \A n \in S : n <= H
    BY <1>1, <2>2
  <2> HIDE DEF S, H
  <2>4. Max(S) \in S
    BY <2>1, <2>5, MaxFacts
  <2> QED
    BY <2>3, <2>4, <2>5 DEF H
<1> QED
  BY <1>1, <1>2, <1>4

\* Lemma: deleteFolder deletes what is below the folder when it commits: what came there since
\* would be left without its folder, which the foreign key forbids.
LEMMA DeletedBelow ==
  ASSUME NEW F, Rooted(F), NEW t, Rooted(t), NEW x, NEW u, Rooted(u),
         x \in DOMAIN F => x \in DOMAIN t,
         \A f \in DOMAIN t \cap DOMAIN F : Above(F, f) = Above(t, f) \cap DOMAIN F /\ Above(t, f) \subseteq DOMAIN F,
         DOMAIN u = DOMAIN F \ Below(t, x), \A f \in DOMAIN u : u[f].parent = F[f].parent
  PROVE  /\ x \notin DOMAIN F => DOMAIN u = DOMAIN F
         /\ x \in DOMAIN F => \A f \in DOMAIN F : f \in Below(t, x) <=> f \in Below(F, x)
<1>1. CASE x \notin DOMAIN F
  BY <1>1 DEF Below
<1>2. CASE x \in DOMAIN F
  <2>1. x \in Above(t, x) /\ x \in Below(t, x)
    BY <1>2, AboveClosed DEF Below
  <2>2. ASSUME NEW f \in DOMAIN F, f \in Below(t, x) PROVE f \in Below(F, x)
    BY <1>2, <2>2 DEF Below
  <2>3. ASSUME NEW f \in DOMAIN F, f \notin Below(t, x) PROVE f \notin Below(F, x)
    <3>1. f \in DOMAIN u
      BY <2>3
    <3>2. Above(F, f) \subseteq DOMAIN u
      BY <3>1, KeptTree
    <3> QED
      BY <2>1, <3>2 DEF Below
  <2> QED
    BY <1>2, <2>2, <2>3
<1> QED
  BY <1>1, <1>2

\* Lemma: the operations on folders do as the abstract store says.
LEMMA FoldersPromised ==
  ASSUME IInv, NEW r \in Request, Commit(r), "rows" \notin raced', "tree" \notin raced',
         req[r].q.op \in {"createFolder", "renameFolder", "moveFolder", "promoteFolder", "deleteFolder"}
  PROVE  Unchanged \/ Promise!Operation
<1> DEFINE q == req[r].q
           row == req[r].row
           t == req[r].seen
           F == db.f
           C == db.c
           u == db'.f
           v == db'.c
           x == q.id
           T == TreeOf(F)
           T2 == TreeOf(u)
<1>1. /\ q \in Query /\ RowTyped(q, row) /\ q.op \in Ops /\ req[r].at = "commit"
      /\ F \in [DOMAIN F -> FolderRow] /\ C \in [DOMAIN C -> ConnRow]
      /\ Rooted(t) /\ Rooted(F) /\ Rooted(u)
      /\ FolderChange(F, u, t, q, row) /\ ConnChange(C, v, t, q, row) /\ Typed(db')
  BY CommitFacts DEF IInv, Folders, Conns
<1>2. T = [f \in Folders |-> [parent |-> db.f[f].parent, name |-> db.f[f].name]]
  BY DEF TreeOf, Folders
<1>3. T2 = [f \in Folders' |-> [parent |-> db'.f[f].parent, name |-> db'.f[f].name]]
  BY DEF TreeOf, Folders
<1>4. /\ DOMAIN T = DOMAIN F /\ DOMAIN T2 = DOMAIN u
      /\ \A f \in DOMAIN F : T[f] = [parent |-> F[f].parent, name |-> F[f].name]
      /\ \A f \in DOMAIN u : T2[f] = [parent |-> u[f].parent, name |-> u[f].name]
  BY DEF TreeOf
<1>5. /\ \A f \in DOMAIN u : u[f].parent \in DOMAIN u \cup {Root}
      /\ \A c \in DOMAIN v : v[c].folder \in DOMAIN u \cup {Root}
      /\ \A f, g \in DOMAIN u : u[f].parent = u[g].parent /\ u[f].name = u[g].name => f = g
      /\ \A f \in DOMAIN F : F[f].parent \in DOMAIN F \cup {Root}
      /\ \A c \in DOMAIN C : C[c].folder \in DOMAIN F \cup {Root}
  BY <1>1 DEF Typed, Legal, IInv, Types
<1>6. \A i \in DOMAIN F \cup DOMAIN C : Creates(q) => i # x
  BY NoReturn DEF IInv, Ids, Fresh, Folders, Conns
<1>7. /\ "tree" \notin raced /\ Acyclic(F) /\ Acyclic(t)
      /\ q.op = "moveFolder" => Kept(r, {"moveFolder"}) /\ Kept(r, {"createFolder"})
      /\ q.op \in {"createFolder", "promoteFolder"} => Kept(r, {"moveFolder"})
      /\ q.op = "deleteFolder" => Kept(r, {"moveFolder", "promoteFolder"}) /\ Kept(r, {"moveFolder"})
  BY <1>1, NoRace, NoRowsRace DEF IInv, SoundTree, SeensNow, SeenTree, Kept
<1>8. Unchanged <=> T2 = T /\ v = C
  BY DEF Unchanged
<1>9. /\ Mentioned(q, row) \cap DOMAIN F \subseteq DOMAIN t /\ ~Refused(t, q, row)
      /\ Kept(r, {"createFolder"}) => DOMAIN F \subseteq DOMAIN t
      /\ Kept(r, {"moveFolder"}) => \A f \in DOMAIN t \cap DOMAIN F : Above(F, f) = Above(t, f) \cap DOMAIN F
      /\ Kept(r, {"moveFolder", "promoteFolder"}) => \A f \in DOMAIN t \cap DOMAIN F : Above(t, f) \subseteq DOMAIN F
  BY <1>1, <1>7 DEF IInv, SeensNow, SeenRows, SeenTree, Folders
<1>10. \A f : /\ Promise!Below(T, f) = Below(F, f) /\ Promise!Depth(T, f) = Depth(F, f)
              /\ Promise!Height(T, f) = Height(F, f) /\ Promise!HostsIn(T, C, f) = HostsIn(F, C, f)
  <2>1. \A f : /\ Below(T, f) = Below(F, f) /\ Depth(T, f) = Depth(F, f) /\ Height(T, f) = Height(F, f)
               /\ HostsIn(T, C, f) = HostsIn(F, C, f)
    BY <1>1, TreeOfFacts
  <2>2. \A f : /\ Promise!Below(T, f) = Below(T, f) /\ Promise!Depth(T, f) = Depth(T, f)
               /\ Promise!Height(T, f) = Height(T, f) /\ Promise!HostsIn(T, C, f) = HostsIn(T, C, f)
    BY SameQueries
  <2> QED
    BY <2>1, <2>2
<1>11. Promise!Places = DOMAIN F \cup {Root}
  BY DEF Promise!Places, Folders
<1>12. DOMAIN F \subseteq Folder /\ Root \notin Folder
  BY StoreAssumption DEF IInv, Types, Typed
<1>18. x = q.id
  OBVIOUS
<1>19. DOMAIN [f \in Folders |-> [parent |-> db.f[f].parent, name |-> db.f[f].name]] = DOMAIN F
  BY DEF Folders
<1> HIDE DEF F, C, u, v, t, q, row, x, T, T2
<1>13. CASE q.op = "createFolder"
  <2> DEFINE p == q.to
             n == q.name
  <2>1. /\ DOMAIN u = DOMAIN F \cup {x} /\ u[x] = [parent |-> p, name |-> n, count |-> 0]
        /\ \A f \in DOMAIN F : f # x => u[f] = F[f]
        /\ v = C
    BY <1>1, <1>13 DEF FolderChange, ConnChange, x
  <2>2. x \notin DOMAIN F /\ x \in Folder /\ n \in Name
    BY <1>1, <1>6, <1>13 DEF Creates, Query, x
  <2>3. p \in Place
    BY <1>1, <1>13 DEF Query
  <2>4. p # x /\ p \in DOMAIN F \cup {Root}
    <3>1. p \in Old \cup {Root}
      BY <1>1, <1>13 DEF IInv, Ids, Knows, Busy, Mentioned, q, row
    <3>2. x \notin Old
      BY <1>1, <1>13 DEF Old, Reserved, Making, Busy, Creates, q, x
    <3>3. x # Root
      BY <1>12, <2>2
    <3>4. p \in DOMAIN u \cup {Root}
      BY <1>5, <2>1
    <3> QED
      BY <2>1, <3>1, <3>2, <3>3, <3>4
  <2>5. Depth(F, p) < MaxDepth
    <3>1. p # Root => p \in DOMAIN t /\ Above(F, p) = Above(t, p) \cap DOMAIN F /\ ~(Depth(t, p) >= MaxDepth)
      BY <1>7, <1>9, <1>13, <2>4 DEF Mentioned, Refused
    <3> HIDE DEF F, t, p
    <3> QED
      BY <1>1, <2>4, <3>1, CreateInDepth
  <2>6. \A g \in DOMAIN F : F[g].parent = p => F[g].name # n
    <3> SUFFICES ASSUME NEW g \in DOMAIN F, F[g].parent = p, F[g].name = n PROVE FALSE
      OBVIOUS
    <3>1. u[g] = F[g] /\ g # x /\ g \in DOMAIN u /\ x \in DOMAIN u
      BY <2>1, <2>2
    <3>2. u[x].parent = p /\ u[x].name = n
      BY <2>1
    <3> QED
      BY <1>5, <3>1, <3>2
  <2>7. T2 = [g \in DOMAIN T \cup {x} |-> IF g = x THEN [parent |-> p, name |-> n] ELSE T[g]]
    <3> DEFINE R == [g \in DOMAIN T \cup {x} |-> IF g = x THEN [parent |-> p, name |-> n] ELSE T[g]]
    <3>1. \A g \in DOMAIN T2 : T2[g] = R[g]
      BY <1>4, <2>1, <2>2
    <3>2. DOMAIN T2 = DOMAIN R
      BY <1>4, <2>1
    <3>3. T2 = [g \in DOMAIN T2 |-> T2[g]]
      BY DEF TreeOf, T, T2
    <3> QED
      BY <3>1, <3>2, <3>3
  <2>8. ASSUME NEW f, NEW w, NEW m, f = x, w = p, m = n PROVE Promise!AddFolder(f, w, m)
    <3>1. \A g \in DOMAIN T : T[g].parent = p => T[g].name # n
      BY <1>4, <2>6
    <3>2. Promise!Depth(T, p) < MaxDepth
      BY <1>10, <2>5
    <3>3. x \notin DOMAIN T /\ p \in DOMAIN T \cup {Root}
      BY <1>4, <2>2, <2>4
    <3> HIDE DEF F, u, q, x, T, T2, p, n
    <3> QED
      BY <1>2, <1>3, <2>1, <2>7, <2>8, <3>1, <3>2, <3>3
         DEF Promise!AddFolder, Promise!Places, Promise!NameFree, Promise!Kids, C, v
  <2>9. p \in Promise!Places
    BY <1>11, <2>4
  <2>10. \E f \in Folder, w \in Promise!Places, m \in Name : Promise!AddFolder(f, w, m)
    <3> HIDE DEF p, n
    <3>1. x \in Folder /\ p \in Promise!Places /\ n \in Name
      BY <2>2, <2>9
    <3>2. PICK f \in Folder, w \in Promise!Places, m \in Name : f = x /\ w = p /\ m = n
      BY <3>1
    <3>3. Promise!AddFolder(f, w, m)
      BY <2>8, <3>2
    <3> QED
      BY <3>3
  <2> QED
    BY <2>10 DEF Promise!Operation, Promise!Filing
<1>14. CASE q.op = "renameFolder"
  <2> DEFINE n == q.name
  <2>1. /\ DOMAIN u = DOMAIN F /\ \A f \in DOMAIN F : u[f].parent = F[f].parent
        /\ \A f \in DOMAIN F : u[f].name = IF f = x THEN n ELSE F[f].name
        /\ v = C
    BY <1>1, <1>14 DEF FolderChange, ConnChange, x
  <2>2. n \in Name
    BY <1>1, <1>14 DEF Query
  <2>3. CASE x \notin DOMAIN F
    <3>1. \A f \in DOMAIN F : T2[f] = T[f]
      BY <1>4, <2>1, <2>3
    <3>2. T2 = T
      BY <1>4, <2>1, <3>1 DEF TreeOf, T, T2
    <3> QED
      BY <1>8, <2>1, <3>2
  <2>4. CASE x \in DOMAIN F
    <3>1. T2 = [T EXCEPT ![x].name = n]
      <4>1. \A f \in DOMAIN F : T2[f] = IF f = x THEN [T[x] EXCEPT !.name = n] ELSE T[f]
        BY <1>4, <2>1
      <4> QED
        BY <1>4, <2>1, <2>4, <4>1 DEF TreeOf, T, T2
    <3>2. \A g \in DOMAIN T \ {x} : T[g].parent = T[x].parent => T[g].name # n
      BY <1>4, <1>5, <2>1, <2>4
    <3>3. ASSUME NEW f, NEW m, f = x, m = n PROVE Promise!Rename(f, m)
      <4> HIDE DEF F, u, q, x, T, T2, n
      <4> QED
        BY <1>2, <1>3, <1>4, <2>1, <2>4, <3>1, <3>2, <3>3
           DEF Promise!Rename, Promise!NameFree, Promise!Kids, C, v
    <3>4. \E f \in Folder, w \in Promise!Places, m \in Name : Promise!Rename(f, m)
      <4> HIDE DEF n
      <4>1. x \in Folder /\ Root \in Promise!Places /\ n \in Name
        BY <1>11, <1>12, <2>2, <2>4
      <4>2. PICK f \in Folder, m \in Name : f = x /\ m = n
        BY <4>1
      <4>3. Promise!Rename(f, m)
        BY <3>3, <4>2
      <4> QED
        BY <4>1, <4>3
    <3> QED
      BY <3>4 DEF Promise!Operation, Promise!Filing
  <2> QED
    BY <2>3, <2>4
<1>15. CASE q.op = "moveFolder"
  <2> DEFINE p == q.to
  <2>1. /\ DOMAIN u = DOMAIN F
        /\ \A f \in DOMAIN F : u[f].parent = IF f = x /\ p # row.parent THEN p ELSE F[f].parent
        /\ \A f \in DOMAIN F : u[f].name = F[f].name
        /\ v = C
    BY <1>1, <1>15 DEF FolderChange, ConnChange, x
  <2>2. CASE p = row.parent \/ x \notin DOMAIN F
    <3>1. \A f \in DOMAIN F : T2[f] = T[f]
      BY <1>4, <2>1, <2>2
    <3>2. T2 = T
      BY <1>4, <2>1, <3>1 DEF TreeOf, T, T2
    <3> QED
      BY <1>8, <2>1, <3>2
  <2>3. CASE p # row.parent /\ x \in DOMAIN F
    <3>1. T2 = [T EXCEPT ![x].parent = p]
      <4>1. \A f \in DOMAIN F : T2[f] = IF f = x THEN [T[x] EXCEPT !.parent = p] ELSE T[f]
        BY <1>4, <2>1, <2>3
      <4> QED
        BY <1>4, <2>1, <2>3, <4>1 DEF TreeOf, T, T2
    <3>2. p \in DOMAIN F \cup {Root}
      BY <1>5, <2>1, <2>3
    <3>3. \A f \in DOMAIN F : f \in DOMAIN t /\ Above(F, f) = Above(t, f) \cap DOMAIN F
      BY <1>7, <1>9, <1>15
    <3>4. p # x /\ p \notin Below(t, x) /\ ~(Depth(t, p) + Height(t, x) > MaxDepth)
      BY <1>9, <1>15, <2>3 DEF Refused, x
    <3>5. p \notin Below(F, x)
      BY <3>3, <3>4 DEF Below
    <3>6. Depth(F, p) + Height(F, x) <= MaxDepth
      <4> HIDE DEF F, t, p, x
      <4> QED
        BY <1>1, <1>7, <2>3, <3>3, <3>4, MoveInDepth
    <3>7. \A g \in DOMAIN T \ {x} : T[g].parent = p => T[g].name # T[x].name
      BY <1>4, <1>5, <2>1, <2>3
    <3>8. ASSUME NEW f, NEW w, f = x, w = p PROVE Promise!MoveFolder(f, w)
      <4>1. p \in (DOMAIN T \cup {Root}) \ Promise!Below(T, x)
        BY <1>4, <1>10, <3>2, <3>5
      <4>2. Promise!Depth(T, p) + Promise!Height(T, x) <= MaxDepth
        BY <1>10, <3>6
      <4> HIDE DEF F, u, q, x, T, T2, p
      <4> QED
        BY <1>2, <1>3, <1>4, <2>1, <2>3, <3>1, <3>7, <3>8, <4>1, <4>2
           DEF Promise!MoveFolder, Promise!Places, Promise!NameFree, Promise!Kids, C, v
    <3>9. \E f \in DOMAIN F, w \in Promise!Places : Promise!MoveFolder(f, w)
      <4>1. x \in DOMAIN F /\ p \in Promise!Places
        BY <1>11, <2>3, <3>2
      <4>2. PICK f \in DOMAIN F, w \in Promise!Places : f = x /\ w = p
        BY <4>1
      <4>3. Promise!MoveFolder(f, w)
        BY <3>8, <4>2
      <4> QED
        BY <4>3
    <3> QED
      BY <1>19, <3>9 DEF Promise!Operation, Promise!Filing
  <2> QED
    BY <2>2, <2>3
<1>16. CASE q.op = "deleteFolder"
  <2> DEFINE S == Below(t, x)
  <2>1. /\ DOMAIN u = DOMAIN F \ S
        /\ \A f \in DOMAIN u : u[f].parent = F[f].parent /\ u[f].name = F[f].name
        /\ DOMAIN v = {c \in DOMAIN C : C[c].folder \notin S} /\ \A c \in DOMAIN v : v[c] = C[c]
    BY <1>1, <1>16 DEF FolderChange, ConnChange, x
  <2>2. /\ x \notin DOMAIN F => DOMAIN u = DOMAIN F
        /\ x \in DOMAIN F => \A f \in DOMAIN F : f \in S <=> f \in Below(F, x)
    <3>1. x \in DOMAIN F => x \in DOMAIN t
      BY <1>9, <1>16 DEF Mentioned, x
    <3>2. /\ \A f \in DOMAIN t \cap DOMAIN F : /\ Above(F, f) = Above(t, f) \cap DOMAIN F
                                              /\ Above(t, f) \subseteq DOMAIN F
          /\ \A f \in DOMAIN u : u[f].parent = F[f].parent
      BY <1>7, <1>9, <1>16, <2>1
    <3> HIDE DEF F, u, t, x
    <3> QED
      BY <1>1, <2>1, <3>1, <3>2, DeletedBelow
  <2>3. v \in [DOMAIN v -> ConnRow]
    BY <1>1 DEF ConnChange
  <2>4. CASE x \notin DOMAIN F
    <3>1. DOMAIN u = DOMAIN F
      BY <2>2, <2>4
    <3>2. DOMAIN v = DOMAIN C
      <4>1. \A c \in DOMAIN C : C[c].folder \notin S
        <5>1. S \cap DOMAIN F = {}
          BY <2>1, <3>1
        <5>2. Root \notin S
          BY <1>1 DEF Below, Rooted
        <5> QED
          BY <1>5, <5>1, <5>2
      <4> QED
        BY <2>1, <4>1
    <3>3. v = C
      BY <1>1, <2>1, <2>3, <3>2
    <3>4. T2 = T
      <4>1. \A f \in DOMAIN F : T2[f] = T[f]
        BY <1>4, <2>1, <3>1
      <4> QED
        BY <1>4, <3>1, <4>1 DEF TreeOf, T, T2
    <3> QED
      BY <1>8, <3>3, <3>4
  <2>5. CASE x \in DOMAIN F
    <3>1. DOMAIN u = DOMAIN F \ Below(F, x)
      BY <2>1, <2>2, <2>5
    <3>2. T2 = [g \in DOMAIN T \ Below(F, x) |-> T[g]]
      <4>1. \A f \in DOMAIN u : T2[f] = T[f]
        BY <1>4, <2>1, <3>1
      <4> QED
        BY <1>4, <3>1, <4>1 DEF TreeOf, T, T2
    <3>3. DOMAIN v = DOMAIN C \ HostsIn(F, C, x)
      <4>1. ASSUME NEW c \in DOMAIN C PROVE C[c].folder \in S <=> x \in Above(F, C[c].folder)
        <5>1. CASE C[c].folder = Root
          <6>1. Root \notin S /\ Above(F, Root) = {}
            BY <1>1, AboveNothing DEF Below, Rooted
          <6> QED
            BY <5>1, <6>1
        <5>2. CASE C[c].folder # Root
          <6>1. C[c].folder \in DOMAIN F
            BY <1>5, <5>2
          <6> QED
            BY <2>2, <2>5, <6>1 DEF Below
        <5> QED
          BY <5>1, <5>2
      <4> QED
        BY <2>1, <4>1 DEF HostsIn
    <3>4. v = [c \in DOMAIN C \ HostsIn(F, C, x) |-> C[c]]
      BY <2>1, <2>3, <3>3
    <3>5. ASSUME NEW f, f = x PROVE Promise!DeleteTree(f)
      <4>1. /\ T2 = [g \in DOMAIN T \ Promise!Below(T, x) |-> T[g]]
            /\ v = [c \in DOMAIN C \ Promise!HostsIn(T, C, x) |-> C[c]]
        BY <1>10, <3>2, <3>4
      <4>2. x \in DOMAIN T
        BY <1>4, <2>5
      <4> HIDE DEF F, u, q, x, T, T2
      <4> QED
        BY <1>2, <1>3, <3>5, <4>1, <4>2 DEF Promise!DeleteTree, C, v
    <3>6. \E f \in DOMAIN F, w \in Promise!Places : Promise!DeleteTree(f)
      <4>1. x \in DOMAIN F /\ Root \in Promise!Places
        BY <1>11, <2>5
      <4>2. PICK f \in DOMAIN F, w \in Promise!Places : f = x
        BY <4>1
      <4>3. Promise!DeleteTree(f)
        BY <3>5, <4>2
      <4> QED
        BY <4>3
    <3> QED
      BY <1>19, <3>6 DEF Promise!Operation, Promise!Filing
  <2> QED
    BY <2>4, <2>5
<1>17. CASE q.op = "promoteFolder"
  <2> DEFINE p == row.parent
  <2>1. /\ DOMAIN u = DOMAIN F \ {x}
        /\ \A f \in DOMAIN u : /\ u[f].parent = IF F[f].parent = x THEN p ELSE F[f].parent
                               /\ u[f].name = F[f].name
        /\ v \in [DOMAIN v -> ConnRow] /\ DOMAIN v = DOMAIN C
        /\ \A c \in DOMAIN C : v[c] = IF C[c].folder = x THEN [C[c] EXCEPT !.folder = p] ELSE C[c]
    BY <1>1, <1>17 DEF FolderChange, ConnChange, x
  <2>2. x # Root
    BY <1>1, <1>12, <1>17 DEF Query, x
  <2>3. CASE x \notin DOMAIN F
    <3>1. DOMAIN u = DOMAIN F /\ \A f \in DOMAIN F : T2[f] = T[f]
      <4>1. DOMAIN u = DOMAIN F
        BY <2>1, <2>3
      <4>2. \A f \in DOMAIN F : F[f].parent # x
        BY <1>5, <2>2, <2>3
      <4> QED
        BY <1>4, <2>1, <4>1, <4>2
    <3>2. T2 = T
      BY <1>4, <3>1 DEF TreeOf, T, T2
    <3>3. \A c \in DOMAIN C : v[c] = C[c]
      BY <1>5, <2>1, <2>2, <2>3
    <3>4. v = C
      BY <1>1, <2>1, <3>3
    <3> QED
      BY <1>8, <3>2, <3>4
  <2>4. CASE x \in DOMAIN F
    <3> DEFINE up == F[x].parent
    <3>1. up # x
      <4>1. x \in Above(F, x)
        BY <1>1, <2>4, AboveClosed
      <4> QED
        BY <1>7, <2>4, <4>1 DEF Acyclic, OnCycle
    <3>2. \/ up = p
          \/ /\ \A f \in DOMAIN u : F[f].parent # x
             /\ \A c \in DOMAIN C : C[c].folder # x
      <4>1. p \in DOMAIN F \cup {Root} => up = p
        <5>1. Busy(r) /\ OnFolder(q) /\ Kept(r, {"moveFolder"})
          BY <1>1, <1>7, <1>17 DEF Busy, OnFolder, q
        <5> QED
          BY <2>4, <5>1 DEF IInv, RowsNow, FolderParent, Folders, Places, F, q, row, x
      <4>2. ASSUME NEW f \in DOMAIN u, F[f].parent = x PROVE p \in DOMAIN F \cup {Root}
        BY <1>5, <2>1, <4>2
      <4>3. ASSUME NEW c \in DOMAIN C, C[c].folder = x PROVE p \in DOMAIN F \cup {Root}
        <5>1. C[c] \in ConnRow
          BY <1>1
        <5>2. v[c].folder = p
          BY <2>1, <4>3, <5>1 DEF ConnRow
        <5> QED
          BY <1>5, <2>1, <5>2
      <4> QED
        BY <4>1, <4>2, <4>3
    <3>3. /\ \A f \in DOMAIN u : u[f].parent = IF F[f].parent = x THEN up ELSE F[f].parent
          /\ \A c \in DOMAIN C : v[c] = IF C[c].folder = x THEN [C[c] EXCEPT !.folder = up] ELSE C[c]
      BY <2>1, <3>2
    <3> DEFINE Kids == {g \in DOMAIN T : T[g].parent = x}
    <3>4. T2 = [g \in DOMAIN T \ {x} |-> IF g \in Kids THEN [T[g] EXCEPT !.parent = up] ELSE T[g]]
      <4>1. \A f \in DOMAIN u : T2[f] = IF f \in Kids THEN [T[f] EXCEPT !.parent = up] ELSE T[f]
        BY <1>4, <2>1, <3>3
      <4>2. DOMAIN T2 = DOMAIN T \ {x}
        BY <1>4, <2>1
      <4>3. T2 = [f \in DOMAIN T2 |-> T2[f]]
        BY DEF TreeOf, T, T2
      <4> HIDE DEF T, T2, Kids
      <4> QED
        BY <1>4, <2>1, <4>1, <4>2, <4>3
    <3>5. v = [c \in DOMAIN C |-> IF C[c].folder = x THEN [C[c] EXCEPT !.folder = up] ELSE C[c]]
      BY <2>1, <3>3
    <3>6. \A g \in Kids : \A h \in {k \in DOMAIN T : T[k].parent = up} \ {x} : T[h].name # T[g].name
      <4> SUFFICES ASSUME NEW g \in DOMAIN F, F[g].parent = x, NEW h \in DOMAIN F, F[h].parent = up, h # x
                   PROVE  F[h].name # F[g].name
        BY <1>4
      <4>1. g # x /\ h # g /\ g \in DOMAIN u /\ h \in DOMAIN u
        BY <2>1, <3>1
      <4>2. u[g].parent = up /\ u[h].parent = up /\ u[g].name = F[g].name /\ u[h].name = F[h].name
        BY <2>1, <3>1, <3>3, <4>1
      <4> QED
        BY <1>5, <4>1, <4>2
    <3>7. T[x].parent = up /\ x \in DOMAIN T
      BY <1>4, <2>4
    <3>8. ASSUME NEW f, f = x PROVE Promise!Promote(f)
      <4> HIDE DEF F, u, q, x, T, T2, up
      <4> QED
        BY <1>2, <1>3, <3>4, <3>5, <3>6, <3>7, <3>8 DEF Promise!Promote, Promise!NameFree, Promise!Kids, C, v
    <3>9. \E f \in DOMAIN F, w \in Promise!Places : Promise!Promote(f)
      <4>1. x \in DOMAIN F /\ Root \in Promise!Places
        BY <1>11, <2>4
      <4>2. PICK f \in DOMAIN F, w \in Promise!Places : f = x
        BY <4>1
      <4>3. Promise!Promote(f)
        BY <3>8, <4>2
      <4> QED
        BY <4>3
    <3> QED
      BY <1>19, <3>9 DEF Promise!Operation, Promise!Filing
  <2> QED
    BY <2>3, <2>4
<1> QED
  BY <1>13, <1>14, <1>15, <1>16, <1>17 DEF q

\* Theorem: as long as no two requests of Races interfere, the tables change as if every request took
\* effect at the moment of its batch (StoreSpec; the store implements FolderStore).
THEOREM ImplementsStore == Spec => StoreSpec
<1>1. Init => Promise!Init
  BY PromiseInit
<1>2. IInv /\ [Next]_vars =>
        [Promise!Next]_<<[f \in Folders |-> [parent |-> db.f[f].parent, name |-> db.f[f].name]], db.c,
                         raced \cap {"tree", "rows"} # {}>>
  <2> SUFFICES ASSUME IInv, [Next]_vars
               PROVE  [Promise!Next]_<<TreeOf(db.f), db.c, raced \cap {"tree", "rows"} # {}>>
    BY DEF TreeOf, Folders
  <2> DEFINE lost == raced \cap {"tree", "rows"} # {}
  <2>1. CASE lost'
    BY <2>1 DEF Promise!Next
  <2>2. CASE ~lost'
    <3>1. "tree" \notin raced' /\ "rows" \notin raced'
      BY <2>2
    <3>2. raced \subseteq raced'
      BY DEF Next, Begin, Measure, Commit, Reject, Refuse, vars
    <3>3. lost' = lost
      BY <3>1, <3>2
    <3>4. CASE db' = db
      BY <3>3, <3>4 DEF Folders
    <3>5. CASE db' # db
      <4>1. PICK r \in Request : Commit(r)
        BY <3>5, OnlyCommit
      <4>2. req[r].q.op \in Ops
        BY <4>1, CommitFacts DEF IInv
      <4>3. Unchanged \/ Promise!Operation
        BY <3>1, <4>1, <4>2, ConnectionsPromised, FoldersPromised DEF Ops
      <4>4. CASE Unchanged
        BY <3>3, <4>4 DEF Unchanged
      <4>5. CASE ~Unchanged /\ Promise!Operation
        <5>1. TreeOf(db'.f) # TreeOf(db.f) \/ db'.c # db.c
          BY <4>5 DEF Unchanged
        <5> QED
          BY <3>3, <4>5, <5>1 DEF Promise!Next, TreeOf, Folders
      <4> QED
        BY <4>3, <4>4, <4>5
    <3> QED
      BY <3>4, <3>5
  <2> QED
    BY <2>1, <2>2
<1> QED
  BY <1>1, <1>2, Invariance, PTL DEF Spec, StoreSpec, Promise!Spec
=============================================================================
