-------------------------- MODULE ConnectionScreen --------------------------
(***************************************************************************)
(* The connection screen of frontend/main.ts: the folder one tab has open, *)
(* its list, its selection, the dialog that moves things, and the requests *)
(* it has in flight against the store, which other tabs change too.  The   *)
(* store is FolderStore; a request is served once, its reply handled later, *)
(* and replies may come back in another order.                             *)
(***************************************************************************)
EXTENDS FolderStore

CONSTANTS
  None,
  MaxFlows,     \* bound: requests in flight
  MaxClicks,    \* bound: clicks that send requests
  MaxForeign    \* bound: changes by other tabs

ASSUME ScreenAssumption ==
  /\ IsFiniteSet(Folder) /\ Root \notin Folder /\ {"current", "dialog"} \cap (Folder \cup {Root}) = {}
  /\ None # "dialog" /\ None # [ok |-> TRUE]
  /\ MaxClicks \in Nat /\ MaxForeign \in Nat

VARIABLES
  screen,    \* scope: currentScope, with currentFolderId as its folder; sel: selected
  dialog,    \* intent: moveIntent; open, title, targets: the move dialog; saving
  flows,     \* requests in flight
  clicks, foreign,
  crossed,   \* history: kinds of requests of which two were in flight at once
  stale      \* history: another tab changed the store since the last list was read

uiVars == <<screen, dialog, flows>>
vars == <<tree, conns, lost, uiVars, clicks, foreign, crossed, stale>>

ConnsOf(f) == {c \in DOMAIN conns : conns[c].folder = f}
Up(f) == IF f = Root THEN Root ELSE tree[f].parent
Scope(f) == [folder |-> f, up |-> Up(f), conns |-> ConnsOf(f), subs |-> Kids(f),
             path |-> Above(tree, f) \cup {Root}]
Links == screen.scope.subs \cup screen.scope.path

-----------------------------------------------------------------------------
(* The state of the browser.                                               *)

(* A definition named Mut_X is a faulty variant of X: the property it is    *)
(* paired with must fail for it.                                           *)

Mut_Kept(sel, folder, scope) == IF scope.folder = folder THEN sel ELSE {}

(* FolderBrowserState.replaceScope: another folder clears the selection,    *)
(* the same folder loses the connections that are not listed any more.      *)
Kept(sel, folder, scope) == IF scope.folder = folder THEN sel \cap scope.conns ELSE {}
Replaced(scope) == [scope |-> scope, sel |-> Kept(screen.sel, screen.scope.folder, scope)]

\* selectedConnectionIds(visible)
Selected == screen.sel \cap screen.scope.conns

Toggle(c) ==
  /\ c \in screen.scope.conns
  /\ screen' = [screen EXCEPT !.sel = IF c \in @ THEN @ \ {c} ELSE @ \cup {c}]
  /\ UNCHANGED <<tree, conns, lost, dialog, flows, clicks, foreign, crossed, stale>>

SelectAll ==
  /\ screen' = [screen EXCEPT !.sel = @ \cup screen.scope.conns]
  /\ UNCHANGED <<tree, conns, lost, dialog, flows, clicks, foreign, crossed, stale>>

ClearSelection ==
  /\ screen' = [screen EXCEPT !.sel = {}]
  /\ UNCHANGED <<tree, conns, lost, dialog, flows, clicks, foreign, crossed, stale>>

-----------------------------------------------------------------------------
(* Requests.  next is where showConnections goes once the reply is there:   *)
(* a folder, or "current" for currentFolderId as it is by then.            *)
Flow(do, a, b, next) == [do |-> do, a |-> a, b |-> b, next |-> next, reply |-> None]
Lists(f) == Flow("listScope", f, None, None)

(* Requests that decide which folder is shown, how the folders lie, or what *)
(* the dialog shows.                                                       *)
Deciding == [screen |-> {"listScope", "promote", "recursive"},
             tree |-> {"moveFolder", "promote", "recursive"}, dialog |-> {"listFolders"}]
Send(w, rest) ==
  /\ flows' = rest \cup {w}
  /\ crossed' = crossed \cup {k \in DOMAIN Deciding : w.do \in Deciding[k]
                                  /\ \E x \in rest : x.do \in Deciding[k]}

(* A click on the page, which an open dialog keeps from the user.          *)
Click(w) ==
  /\ ~dialog.open
  /\ clicks < MaxClicks /\ clicks' = clicks + 1
  /\ Cardinality(flows) < MaxFlows /\ w \notin flows
  /\ Send(w, flows)
  /\ UNCHANGED <<tree, conns, lost, screen, foreign, stale>>

Open(f) == f \in Links /\ Click(Lists(f)) /\ UNCHANGED dialog

(* handleDrop; a dragged connection takes the selection along when it is   *)
(* part of it.                                                             *)
Dragged(c) == IF c \in Selected THEN Selected ELSE {c}
DropConnection(c, to) ==
  /\ c \in screen.scope.conns /\ to \in Links
  /\ Click(Flow("moveConnections", Dragged(c), to, "current")) /\ UNCHANGED dialog
DropFolder(f, to) ==
  /\ f \in screen.scope.subs /\ to \in Links \ {f}
  /\ Click(Flow("moveFolder", f, to, "current")) /\ UNCHANGED dialog

DeleteConnectionFromUi(c) ==
  c \in screen.scope.conns /\ Click(Flow("deleteConnection", c, None, "current"))
    /\ UNCHANGED dialog

Mut_DeleteFolderFromUi(f, choice) ==
  /\ f \in screen.scope.subs \cup ({screen.scope.folder} \ {Root})
  /\ Click(Flow(choice, f, None, "current"))
  /\ UNCHANGED dialog

(* deleteFolderFromUi: the open folder is left for its parent.  The modal   *)
(* is answered at the click.  What the code looks at after it, which folder *)
(* is open, changes under an open modal only by a reply to a request of     *)
(* kind "screen", and that counts as crossed here.                          *)
DeleteFolderFromUi(f, choice) ==
  /\ f \in screen.scope.subs \cup ({screen.scope.folder} \ {Root})
  /\ Click(Flow(choice, f, None, IF f = screen.scope.folder THEN screen.scope.up ELSE "current"))
  /\ UNCHANGED dialog

SaveNewFolder(f, n) ==
  Click(Flow("createFolder", f, [parent |-> screen.scope.folder, name |-> n], "current"))
    /\ UNCHANGED dialog
SaveFolderName(f, n) ==
  f \in screen.scope.subs /\ Click(Flow("renameFolder", f, n, "current")) /\ UNCHANGED dialog
SaveNewConnection(c) ==
  Click(Flow("createConnection", c, screen.scope.folder, "current")) /\ UNCHANGED dialog

-----------------------------------------------------------------------------
(* The move dialog.                                                        *)
Intent(do, a) == [do |-> do, a |-> a]
Closed == [intent |-> None, open |-> FALSE, title |-> None, targets |-> {}, saving |-> FALSE]

Mut_OpenMoveDialog(intent) ==
  /\ intent.do = "moveConnections" /\ intent.a \in {{c} : c \in screen.scope.conns}
  /\ Click(Flow("listFolders", intent, None, None))
  /\ dialog' = [dialog EXCEPT !.intent = Intent("moveConnections", intent.a \cup Selected)]

(* openMoveDialog: the intent is set before the folders are asked for.     *)
OpenMoveDialog(intent) ==
  /\ \/ /\ intent.do = "moveConnections"
        /\ intent.a \in ({Selected} \ {{}}) \cup {{c} : c \in screen.scope.conns}
     \/ /\ intent.do = "moveFolder"
        /\ intent.a \in screen.scope.subs \cup ({screen.scope.folder} \ {Root})
  /\ Click(Flow("listFolders", intent, None, None))
  /\ dialog' = [dialog EXCEPT !.intent = intent]

Cancel ==
  /\ dialog.open
  /\ dialog' = [dialog EXCEPT !.intent = None, !.open = FALSE]
  /\ UNCHANGED <<tree, conns, lost, screen, flows, clicks, foreign, crossed, stale>>

Confirm(to) ==
  /\ dialog.open /\ ~dialog.saving /\ dialog.intent # None /\ to \in dialog.targets
  /\ Send(Flow(dialog.intent.do, dialog.intent.a, to, "dialog"), flows)
  /\ dialog' = [dialog EXCEPT !.saving = TRUE]
  /\ UNCHANGED <<tree, conns, lost, screen, clicks, foreign, stale>>

-----------------------------------------------------------------------------
(* The store's side: each request takes effect at once, or fails.          *)
Apply(w) ==
  CASE w.do = "moveConnections" -> Place(w.a, w.b)
    [] w.do = "moveFolder" -> MoveFolder(w.a, w.b)
    [] w.do = "deleteConnection" -> DeleteConnection(w.a)
    [] w.do = "promote" -> Promote(w.a)
    [] w.do = "recursive" -> DeleteTree(w.a)
    [] w.do = "createFolder" -> AddFolder(w.a, w.b.parent, w.b.name)
    [] w.do = "renameFolder" -> Rename(w.a, w.b)
    [] w.do = "createConnection" -> \E a \in AuthType : AddConnection(w.a, w.b, a)

Answered(w, reply) == flows' = (flows \ {w}) \cup {[w EXCEPT !.reply = reply]}
Reads(w) == w.do \in {"listScope", "listFolders"}

(* folderMoveTargets: never a folder of the one that moves.                *)
MoveTargets(intent) ==
  Places \ (IF intent.do = "moveFolder" THEN Below(tree, intent.a) ELSE {})

Serve(w) ==
  /\ w.reply = None
  /\ IF Reads(w)
     THEN /\ Answered(w, CASE w.do = "listFolders" -> [targets |-> MoveTargets(w.a)]
                           [] w.a \in Places -> [scope |-> Scope(w.a)]
                           [] OTHER -> [error |-> 404])
          /\ stale' = (stale /\ ~(w.do = "listScope" /\ w.a \in Places))
          /\ UNCHANGED <<tree, conns>>
     ELSE Apply(w) /\ Answered(w, [ok |-> TRUE]) /\ UNCHANGED stale
  /\ UNCHANGED <<lost, screen, dialog, clicks, foreign, crossed>>

(* Refused by the store, or lost on the way: before it took effect, or     *)
(* after.                                                                  *)
Fails(w) ==
  /\ w.reply = None
  /\ Answered(w, [error |-> 500])
  /\ \/ UNCHANGED <<tree, conns>> /\ stale' = (stale \/ Reads(w))
     \/ ~Reads(w) /\ Apply(w) /\ stale' = TRUE
  /\ UNCHANGED <<lost, screen, dialog, clicks, foreign, crossed>>

\* The list shows nothing of a payload, so another tab's edits of one are left out.
OtherTab ==
  /\ foreign < MaxForeign /\ foreign' = foreign + 1
  /\ Filing /\ stale' = TRUE
  /\ UNCHANGED <<lost, uiVars, clicks, crossed>>

-----------------------------------------------------------------------------
(* The replies.                                                            *)
Failed(w) == "error" \in DOMAIN w.reply

ReplyFails(w) ==
  /\ Failed(w)
  /\ \/ w.do = "listFolders" /\ dialog' = [dialog EXCEPT !.intent = None]
     \/ w.do # "listFolders" /\ w.next = "dialog" /\ dialog' = [dialog EXCEPT !.saving = FALSE]
     \/ w.do # "listFolders" /\ w.next # "dialog" /\ UNCHANGED dialog
  /\ flows' = flows \ {w} /\ UNCHANGED <<screen, crossed>>

ScopeArrives(w) ==
  /\ ~Failed(w) /\ w.do = "listScope"
  /\ screen' = Replaced(w.reply.scope)
  /\ flows' = flows \ {w} /\ UNCHANGED <<dialog, crossed>>

FoldersArrive(w) ==
  /\ ~Failed(w) /\ w.do = "listFolders"
  /\ dialog' = [dialog EXCEPT !.open = TRUE, !.title = w.a, !.targets = w.reply.targets]
  /\ flows' = flows \ {w} /\ UNCHANGED <<screen, crossed>>

\* A change is stored: the list is read again.
WriteDone(w) ==
  /\ ~Failed(w) /\ ~Reads(w)
  /\ dialog' = IF w.next = "dialog" THEN Closed ELSE dialog
  /\ screen' = [screen EXCEPT !.sel =
       IF w.next = "dialog" \/ w.do = "moveConnections" THEN {}
       ELSE IF w.do = "deleteConnection" THEN @ \ {w.a} ELSE @]
  /\ Send(Lists(IF w.next \in {"dialog", "current"} THEN screen.scope.folder ELSE w.next),
          flows \ {w})

Handle(w) ==
  /\ w.reply # None
  /\ ReplyFails(w) \/ ScopeArrives(w) \/ FoldersArrive(w) \/ WriteDone(w)
  /\ UNCHANGED <<tree, conns, lost, clicks, foreign, stale>>

-----------------------------------------------------------------------------
ScreenInit ==
  /\ tree \in UNION {[S -> [parent : S \cup {Root}, name : Name]] : S \in SUBSET Folder}
  /\ conns \in UNION {[S -> [folder : DOMAIN tree \cup {Root}, auth : AuthType, secret : {TRUE},
                             pin : {FALSE}]] : S \in SUBSET Conn}
  /\ Init
  /\ screen = [scope |-> Scope(Root), sel |-> {}]
  /\ dialog = Closed /\ flows = {} /\ clicks = 0 /\ foreign = 0 /\ crossed = {} /\ stale = FALSE

ScreenNext ==
  \/ \E f \in Folder \cup {Root} : Open(f)
  \/ \E c \in Conn : Toggle(c) \/ DeleteConnectionFromUi(c) \/ SaveNewConnection(c)
  \/ SelectAll \/ ClearSelection
  \/ \E to \in Folder \cup {Root} :
       \/ \E c \in Conn : DropConnection(c, to)
       \/ \E f \in Folder : DropFolder(f, to)
       \/ Confirm(to)
  \/ \E f \in Folder, n \in Name : SaveNewFolder(f, n) \/ SaveFolderName(f, n)
  \/ \E f \in Folder, choice \in {"promote", "recursive"} : DeleteFolderFromUi(f, choice)
  \/ \E S \in SUBSET Conn : OpenMoveDialog(Intent("moveConnections", S))
  \/ \E f \in Folder : OpenMoveDialog(Intent("moveFolder", f))
  \/ Cancel
  \/ \E w \in flows : Serve(w) \/ Fails(w) \/ Handle(w)
  \/ OtherTab

ScreenSpec == ScreenInit /\ [][ScreenNext]_vars

-----------------------------------------------------------------------------
ScreenTypeOK ==
  /\ DOMAIN tree \subseteq Folder /\ DOMAIN conns \subseteq Conn
  /\ screen.scope.conns \subseteq Conn /\ screen.scope.subs \subseteq Folder
  /\ dialog.open \in BOOLEAN /\ dialog.saving \in BOOLEAN
  /\ dialog.saving => \E w \in flows : w.next = "dialog"
  /\ clicks \in 0 .. MaxClicks /\ foreign \in 0 .. MaxForeign

(* No connection that is not on the list any more stays selected           *)
(* (agent/memory.md: the selection of another folder or of a connection    *)
(* that another tab moved), so none is counted or moved along.             *)
NoGhostSelection == screen.sel \subseteq screen.scope.conns

(* When everything is answered, the screen shows an existing folder and    *)
(* exactly its contents, unless another tab or a failed request came in    *)
(* between, two requests that decide which folder is shown were under way  *)
(* at once (showConnections, deleteFolderFromUi), or two that change how   *)
(* the folders lie: then the open folder may have been moved into one that *)
(* is deleted, and goes with it.                                           *)
ScreenAgrees ==
  flows = {} /\ ~stale /\ crossed \cap {"screen", "tree"} = {} =>
    screen.scope.folder \in Places /\ screen.scope = Scope(screen.scope.folder)

(* The move dialog moves what its title names, unless two dialogs were     *)
(* opened at once (openMoveDialog sets moveIntent before it waits).        *)
DialogMovesItsTitle ==
  dialog.open /\ dialog.intent # None /\ "dialog" \notin crossed => dialog.intent = dialog.title
=============================================================================
