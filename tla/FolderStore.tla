---------------------------- MODULE FolderStore ----------------------------
(***************************************************************************)
(* What the connection and folder store promises: one tree of folders of   *)
(* limited depth, every connection in one place, and operations that take  *)
(* effect at once.  There are no counters here: a counter is the number of *)
(* connections below a folder.                                             *)
(***************************************************************************)
EXTENDS FolderTree

CONSTANTS Folder, Conn, Name, AuthType, MaxDepth

VARIABLES
  tree,    \* the folders there are, each with its parent and name
  conns,   \* the connections there are: folder, auth, secret, pin
  lost     \* two operations interfered: nothing is promised any more

Places == DOMAIN tree \cup {Root}
Kids(f) == {g \in DOMAIN tree : tree[g].parent = f}
NameFree(p, n, except) == \A g \in Kids(p) \ except : tree[g].name # n

AddFolder(f, p, n) ==
  /\ UNCHANGED conns
  /\ f \notin DOMAIN tree /\ p \in Places /\ Depth(tree, p) < MaxDepth /\ NameFree(p, n, {})
  /\ tree' = [g \in DOMAIN tree \cup {f} |-> IF g = f THEN [parent |-> p, name |-> n] ELSE tree[g]]

Rename(f, n) ==
  /\ UNCHANGED conns
  /\ f \in DOMAIN tree /\ NameFree(tree[f].parent, n, {f})
  /\ tree' = [tree EXCEPT ![f].name = n]

(* Never below itself, never too deep.                                     *)
MoveFolder(f, p) ==
  /\ UNCHANGED conns
  /\ f \in DOMAIN tree /\ p \in Places \ Below(tree, f)
  /\ Depth(tree, p) + Height(tree, f) <= MaxDepth /\ NameFree(p, tree[f].name, {f})
  /\ tree' = [tree EXCEPT ![f].parent = p]

(* The folder goes; what lay directly in it takes its place.               *)
Promote(f) ==
  /\ f \in DOMAIN tree
  /\ LET up == tree[f].parent IN
       /\ \A g \in Kids(f) : NameFree(up, tree[g].name, {f})
       /\ tree' = [g \in DOMAIN tree \ {f} |->
                     IF g \in Kids(f) THEN [tree[g] EXCEPT !.parent = up] ELSE tree[g]]
       /\ conns' = [c \in DOMAIN conns |->
                      IF conns[c].folder = f THEN [conns[c] EXCEPT !.folder = up] ELSE conns[c]]

(* The folder goes with every folder and connection below it, and no other. *)
DeleteTree(f) ==
  /\ f \in DOMAIN tree
  /\ tree' = [g \in DOMAIN tree \ Below(tree, f) |-> tree[g]]
  /\ conns' = [c \in DOMAIN conns \ HostsIn(tree, conns, f) |-> conns[c]]

AddConnection(c, p, a) ==
  /\ UNCHANGED tree
  /\ c \notin DOMAIN conns /\ p \in Places
  /\ conns' = [x \in DOMAIN conns \cup {c} |->
                 IF x = c THEN [folder |-> p, auth |-> a, secret |-> TRUE, pin |-> FALSE]
                 ELSE conns[x]]

DeleteConnection(c) ==
  /\ UNCHANGED tree
  /\ c \in DOMAIN conns /\ conns' = [x \in DOMAIN conns \ {c} |-> conns[x]]

Place(S, p) ==
  /\ UNCHANGED tree
  /\ S \subseteq DOMAIN conns /\ p \in Places
  /\ conns' = [c \in DOMAIN conns |-> IF c \in S THEN [conns[c] EXCEPT !.folder = p] ELSE conns[c]]

(* The form: another authentication type needs its own secret, and never   *)
(* leaves the connection with the secret of the old one.                   *)
Edit(c, a, secret) ==
  /\ UNCHANGED tree
  /\ c \in DOMAIN conns
  /\ secret \/ (a = conns[c].auth /\ conns[c].secret)
  /\ conns' = [conns EXCEPT ![c].auth = a, ![c].secret = TRUE]

Pin(c, pinned) ==
  /\ UNCHANGED tree
  /\ c \in DOMAIN conns /\ conns[c].secret
  /\ conns' = [conns EXCEPT ![c].pin = pinned]

ClearSecret(c) ==
  /\ UNCHANGED tree
  /\ c \in DOMAIN conns /\ conns' = [conns EXCEPT ![c].secret = FALSE]

\* What changes the folders or where a connection is.
Filing ==
  \/ \E f \in Folder, p \in Places, n \in Name : AddFolder(f, p, n) \/ Rename(f, n)
  \/ \E f \in DOMAIN tree, p \in Places : MoveFolder(f, p) \/ Promote(f) \/ DeleteTree(f)
  \/ \E c \in Conn, p \in Places, a \in AuthType : AddConnection(c, p, a)
  \/ \E c \in DOMAIN conns : DeleteConnection(c)
  \/ \E S \in SUBSET DOMAIN conns, p \in Places : Place(S, p)

Operation ==
  \/ Filing
  \/ \E c \in DOMAIN conns : ClearSecret(c)
  \/ \E c \in DOMAIN conns, a \in AuthType, b \in BOOLEAN : Edit(c, a, b) \/ Pin(c, b)

Init ==
  /\ \A f \in DOMAIN tree : tree[f].parent \in Places /\ Depth(tree, f) <= MaxDepth
  /\ Acyclic(tree) /\ \A f, g \in DOMAIN tree : f # g => tree[f] # tree[g]
  /\ \A c \in DOMAIN conns : conns[c].folder \in Places
  /\ lost = FALSE

(* An operation that changes nothing is a stuttering step.                 *)
Next == lost' \/ (UNCHANGED lost /\ (tree' # tree \/ conns' # conns) /\ Operation)

Spec == Init /\ [][Next]_<<tree, conns, lost>>
=============================================================================
