----------------------- MODULE ConnectionScreenProofs -----------------------
(***************************************************************************)
(* Theorems about the connection screen: its selection, and the dialog     *)
(* that moves things.                                                      *)
(***************************************************************************)
EXTENDS ConnectionScreen, FolderTreeProofs

-----------------------------------------------------------------------------
(* The selection.                                                          *)
ScreenShape == screen = [scope |-> screen.scope, sel |-> screen.sel]
SelectionInv == ScreenShape /\ NoGhostSelection

\* Lemma: a screen that is put together from its parts.
LEMMA ScreenEdit ==
  ASSUME ScreenShape, NEW sel, screen' = [screen EXCEPT !.sel = sel]
  PROVE  ScreenShape' /\ screen'.scope = screen.scope /\ screen'.sel = sel
<1>1. screen' = [scope |-> screen.scope, sel |-> sel]
  BY DEF ScreenShape
<1> QED
  BY <1>1 DEF ScreenShape

\* Lemma: a step that leaves the screen alone.
LEMMA SameScreen ==
  ASSUME SelectionInv, UNCHANGED screen
  PROVE  SelectionInv'
BY DEF SelectionInv, ScreenShape, NoGhostSelection

\* Lemma: a click leaves the screen alone.
LEMMA ClickKeepsScreen ==
  ASSUME NEW w, Click(w)
  PROVE  UNCHANGED screen
BY DEF Click

\* Lemma: a reply replaces the list or makes the selection smaller.
LEMMA HandleKeepsSelection ==
  ASSUME SelectionInv, NEW w, Handle(w)
  PROVE  SelectionInv'
<1>1. CASE UNCHANGED screen
  BY <1>1, SameScreen
<1>2. CASE screen' = Replaced(w.reply.scope)
  BY <1>2 DEF Replaced, Kept, SelectionInv, ScreenShape, NoGhostSelection
<1>3. CASE \E sel : sel \subseteq screen.sel /\ screen' = [screen EXCEPT !.sel = sel]
  <2>1. PICK sel : sel \subseteq screen.sel /\ screen' = [screen EXCEPT !.sel = sel]
    BY <1>3
  <2> QED
    BY <2>1, ScreenEdit DEF SelectionInv, NoGhostSelection
<1>4. UNCHANGED screen \/ screen' = Replaced(w.reply.scope)
      \/ screen' = [screen EXCEPT !.sel =
           IF w.next = "dialog" \/ w.do = "moveConnections" THEN {}
           ELSE IF w.do = "deleteConnection" THEN @ \ {w.a} ELSE @]
  BY DEF Handle, ReplyFails, ScopeArrives, FoldersArrive, WriteDone
<1>5. ASSUME screen' = [screen EXCEPT !.sel =
               IF w.next = "dialog" \/ w.do = "moveConnections" THEN {}
               ELSE IF w.do = "deleteConnection" THEN @ \ {w.a} ELSE @]
      PROVE  SelectionInv'
  <2> DEFINE sel == IF w.next = "dialog" \/ w.do = "moveConnections" THEN {}
                    ELSE IF w.do = "deleteConnection" THEN screen.sel \ {w.a} ELSE screen.sel
  <2>1. sel \subseteq screen.sel /\ screen' = [screen EXCEPT !.sel = sel]
    BY <1>5
  <2> QED
    BY <1>3, <2>1
<1> QED
  BY <1>1, <1>2, <1>4, <1>5

\* Lemma: every step of the screen keeps the selection within the list.
LEMMA SelectionStep ==
  ASSUME SelectionInv, [ScreenNext]_vars
  PROVE  SelectionInv'
<1>1. CASE UNCHANGED vars
  BY <1>1, SameScreen DEF vars, uiVars
<1>2. ASSUME NEW f, Open(f) PROVE SelectionInv'
  BY <1>2, ClickKeepsScreen, SameScreen DEF Open
<1>3. ASSUME NEW c, Toggle(c) PROVE SelectionInv'
  <2> DEFINE sel == IF c \in screen.sel THEN screen.sel \ {c} ELSE screen.sel \cup {c}
  <2>1. c \in screen.scope.conns /\ screen' = [screen EXCEPT !.sel = sel]
    BY <1>3 DEF Toggle
  <2>2. screen.sel \subseteq screen.scope.conns => sel \subseteq screen.scope.conns
    BY <2>1
  <2> HIDE DEF sel
  <2> QED
    BY <2>1, <2>2, ScreenEdit DEF SelectionInv, NoGhostSelection
<1>4. ASSUME NEW c, DeleteConnectionFromUi(c) \/ SaveNewConnection(c) PROVE SelectionInv'
  BY <1>4, ClickKeepsScreen, SameScreen DEF DeleteConnectionFromUi, SaveNewConnection
<1>5. CASE SelectAll
  <2> DEFINE sel == screen.sel \cup screen.scope.conns
  <2>1. screen' = [screen EXCEPT !.sel = sel]
    BY <1>5 DEF SelectAll
  <2>2. screen.sel \subseteq screen.scope.conns => sel \subseteq screen.scope.conns
    OBVIOUS
  <2> HIDE DEF sel
  <2> QED
    BY <2>1, <2>2, ScreenEdit DEF SelectionInv, NoGhostSelection
<1>6. CASE ClearSelection
  <2>1. screen' = [screen EXCEPT !.sel = {}]
    BY <1>6 DEF ClearSelection
  <2> QED
    BY <2>1, ScreenEdit DEF SelectionInv, NoGhostSelection
<1>7. ASSUME NEW c, NEW f, NEW to, DropConnection(c, to) \/ DropFolder(f, to) PROVE SelectionInv'
  BY <1>7, ClickKeepsScreen, SameScreen DEF DropConnection, DropFolder
<1>8. ASSUME NEW to, Confirm(to) PROVE SelectionInv'
  BY <1>8, SameScreen DEF Confirm
<1>9. ASSUME NEW f, NEW n, SaveNewFolder(f, n) \/ SaveFolderName(f, n) PROVE SelectionInv'
  BY <1>9, ClickKeepsScreen, SameScreen DEF SaveNewFolder, SaveFolderName
<1>10. ASSUME NEW f, NEW choice, DeleteFolderFromUi(f, choice) PROVE SelectionInv'
  BY <1>10, ClickKeepsScreen, SameScreen DEF DeleteFolderFromUi
<1>11. ASSUME NEW i, OpenMoveDialog(i) PROVE SelectionInv'
  BY <1>11, ClickKeepsScreen, SameScreen DEF OpenMoveDialog
<1>12. CASE Cancel
  BY <1>12, SameScreen DEF Cancel
<1>13. ASSUME NEW w, Serve(w) \/ Fails(w) PROVE SelectionInv'
  BY <1>13, SameScreen DEF Serve, Fails
<1>14. ASSUME NEW w, Handle(w) PROVE SelectionInv'
  BY <1>14, HandleKeepsSelection
<1>15. CASE OtherTab
  BY <1>15, SameScreen DEF OtherTab, uiVars
<1> QED
  BY <1>1, <1>2, <1>3, <1>4, <1>5, <1>6, <1>7, <1>8, <1>9, <1>10, <1>11, <1>12, <1>13, <1>14, <1>15
     DEF ScreenNext

\* Theorem: no connection that the list does not show is selected, whatever
\* order replies come back in and whatever other tabs do.
THEOREM NoGhosts == ScreenSpec => []NoGhostSelection
<1>1. ScreenInit => SelectionInv
  BY DEF ScreenInit, SelectionInv, ScreenShape, NoGhostSelection
<1>2. SelectionInv /\ [ScreenNext]_vars => SelectionInv'
  BY SelectionStep
<1>3. SelectionInv => NoGhostSelection
  BY DEF SelectionInv
<1> QED
  BY <1>1, <1>2, <1>3, PTL DEF ScreenSpec

-----------------------------------------------------------------------------
(* The dialog that moves things.                                           *)
Shaped(w) == w = [do |-> w.do, a |-> w.a, b |-> w.b, next |-> w.next, reply |-> w.reply]
Asking(F) == {w \in F : w.do = "listFolders"}
DialogShape ==
  dialog = [intent |-> dialog.intent, open |-> dialog.open, title |-> dialog.title,
            targets |-> dialog.targets, saving |-> dialog.saving]
Movable(intent) == intent = None \/ intent.do \in {"moveConnections", "moveFolder"}

\* While the folders are asked for, the dialog is closed and is to move what they are asked for.
Waiting(F, d) ==
  /\ \A w, x \in Asking(F) : w = x
  /\ \A w \in Asking(F) : ~d.open /\ d.intent \in {None, w.a}

DialogInv ==
  /\ DialogShape /\ Movable(dialog.intent)
  /\ \A w \in flows : Shaped(w)
  /\ "dialog" \notin crossed => Waiting(flows, dialog)
  /\ DialogMovesItsTitle

\* Lemma: a request as it is sent.
LEMMA FlowShape ==
  ASSUME NEW do, NEW a, NEW b, NEW next
  PROVE  LET w == Flow(do, a, b, next)
         IN  Shaped(w) /\ w.do = do /\ w.a = a /\ w.next = next
BY DEF Flow, Shaped

\* Lemma: and with its reply.
LEMMA ReplyShape ==
  ASSUME NEW w, Shaped(w), NEW reply
  PROVE  LET q == [w EXCEPT !.reply = reply]
         IN  Shaped(q) /\ q.do = w.do /\ q.a = w.a /\ q.next = w.next
<1> DEFINE q == [w EXCEPT !.reply = reply]
<1>1. q = [do |-> w.do, a |-> w.a, b |-> w.b, next |-> w.next, reply |-> reply]
  BY DEF Shaped
<1> HIDE DEF q
<1>2. Shaped(q) /\ q.do = w.do /\ q.a = w.a /\ q.next = w.next
  BY <1>1 DEF Shaped
<1> QED
  BY <1>2 DEF q

\* Lemma: another request is sent, or some are not in flight any more.
LEMMA OtherFlows ==
  ASSUME DialogInv, NEW rest, rest \subseteq flows,
         flows' = rest \/ \E w : Shaped(w) /\ w.do # "listFolders" /\ flows' = rest \cup {w},
         crossed \subseteq crossed'
  PROVE  /\ \A w \in flows' : Shaped(w)
         /\ Asking(flows') = Asking(rest)
         /\ "dialog" \notin crossed' => Waiting(flows', dialog)
<1>1. Asking(flows') = Asking(rest) /\ Asking(rest) \subseteq Asking(flows)
  BY DEF Asking
<1> QED
  BY <1>1 DEF DialogInv, Waiting

\* Lemma: nothing that the dialog depends on changes but those.
LEMMA SameDialog ==
  ASSUME DialogInv, UNCHANGED dialog, NEW rest, rest \subseteq flows,
         flows' = rest \/ \E w : Shaped(w) /\ w.do # "listFolders" /\ flows' = rest \cup {w},
         crossed \subseteq crossed'
  PROVE  DialogInv'
BY OtherFlows DEF DialogInv, DialogShape, DialogMovesItsTitle

\* Lemma: a click that asks for something else leaves the dialog alone.
LEMMA OtherClick ==
  ASSUME DialogInv, NEW w, Click(w), UNCHANGED dialog, Shaped(w), w.do # "listFolders"
  PROVE  DialogInv'
BY SameDialog DEF Click, Send

\* Lemma: openMoveDialog.
LEMMA AskStep ==
  ASSUME DialogInv, NEW intent, OpenMoveDialog(intent)
  PROVE  DialogInv'
<1> DEFINE w == Flow("listFolders", intent, None, None)
<1>1. /\ ~dialog.open /\ flows' = flows \cup {w} /\ w \notin flows
      /\ crossed' = crossed \cup {k \in DOMAIN Deciding : w.do \in Deciding[k]
                                    /\ \E x \in flows : x.do \in Deciding[k]}
      /\ dialog' = [dialog EXCEPT !.intent = intent]
      /\ intent.do \in {"moveConnections", "moveFolder"}
  BY DEF OpenMoveDialog, Click, Send
<1>2. Shaped(w) /\ w.do = "listFolders" /\ w.a = intent
  BY FlowShape
<1> HIDE DEF w
<1>3. DialogShape' /\ dialog'.intent = intent /\ dialog'.open = dialog.open /\ dialog'.title = dialog.title
  <2>1. dialog' = [intent |-> intent, open |-> dialog.open, title |-> dialog.title,
                   targets |-> dialog.targets, saving |-> dialog.saving]
    BY <1>1 DEF DialogInv, DialogShape
  <2> QED
    BY <2>1 DEF DialogShape
<1>4. "dialog" \in DOMAIN Deciding /\ Deciding["dialog"] = {"listFolders"}
  BY DEF Deciding
<1>5. "dialog" \notin crossed' => "dialog" \notin crossed /\ Asking(flows) = {}
  BY <1>1, <1>2, <1>4 DEF Asking
<1>6. Asking(flows) = {} => Asking(flows') = {w}
  BY <1>1, <1>2 DEF Asking
<1>7. "dialog" \notin crossed' => Waiting(flows', dialog')
  BY <1>1, <1>2, <1>3, <1>5, <1>6 DEF Waiting
<1>8. DialogMovesItsTitle'
  BY <1>1, <1>3 DEF DialogMovesItsTitle
<1>9. \A x \in flows' : Shaped(x)
  BY <1>1, <1>2 DEF DialogInv
<1> QED
  BY <1>1, <1>3, <1>7, <1>8, <1>9 DEF DialogInv, Movable

\* Lemma: a request is answered.
LEMMA AnswerStep ==
  ASSUME DialogInv, NEW w \in flows, NEW reply, Answered(w, reply), UNCHANGED <<dialog, crossed>>
  PROVE  DialogInv'
<1> DEFINE q == [w EXCEPT !.reply = reply]
<1>1. flows' = (flows \ {w}) \cup {q}
  BY DEF Answered
<1>2. Shaped(w)
  BY DEF DialogInv
<1>3. Shaped(q) /\ q.do = w.do /\ q.a = w.a
  BY <1>2, ReplyShape
<1> HIDE DEF q
<1>4. ASSUME "dialog" \notin crossed
      PROVE  Waiting(flows', dialog)
  <2>1. Waiting(flows, dialog)
    BY <1>4 DEF DialogInv
  <2>2. CASE w.do = "listFolders"
    <3>1. Asking(flows') = {q}
      BY <1>1, <1>3, <2>1, <2>2 DEF Waiting, Asking
    <3>2. w \in Asking(flows)
      BY <2>2 DEF Asking
    <3> QED
      BY <1>3, <2>1, <3>1, <3>2 DEF Waiting
  <2>3. CASE w.do # "listFolders"
    <3>1. Asking(flows') = Asking(flows)
      BY <1>1, <1>3, <2>3 DEF Asking
    <3> QED
      BY <2>1, <3>1 DEF Waiting
  <2> QED
    BY <2>2, <2>3
<1>5. \A x \in flows' : Shaped(x)
  BY <1>1, <1>3 DEF DialogInv
<1> QED
  BY <1>4, <1>5 DEF DialogInv, DialogShape, DialogMovesItsTitle

\* Lemma: the dialog is closed.
LEMMA DialogCloses ==
  ASSUME DialogShape, dialog' = [dialog EXCEPT !.intent = None, !.open = FALSE]
  PROVE  DialogShape' /\ dialog'.intent = None /\ ~dialog'.open
<1> DEFINE d == [dialog EXCEPT !.intent = None]
           no == FALSE
<1>1. dialog' = [d EXCEPT !.open = no]
  OBVIOUS
<1>2. d = [intent |-> None, open |-> dialog.open, title |-> dialog.title,
           targets |-> dialog.targets, saving |-> dialog.saving]
  BY DEF DialogShape
<1>3. no = FALSE
  OBVIOUS
<1> HIDE DEF d, no
<1>4. dialog' = [intent |-> None, open |-> no, title |-> dialog.title,
                 targets |-> dialog.targets, saving |-> dialog.saving]
  BY <1>1, <1>2
<1> QED
  BY <1>3, <1>4 DEF DialogShape

\* Lemma: it opens for the folders of a reply.
LEMMA DialogOpens ==
  ASSUME DialogShape, NEW t, NEW targets,
         dialog' = [dialog EXCEPT !.open = TRUE, !.title = t, !.targets = targets]
  PROVE  DialogShape' /\ dialog'.intent = dialog.intent /\ dialog'.open /\ dialog'.title = t
<1> DEFINE yes == TRUE
           p == dialog.intent
           q == dialog.open
           r == dialog.title
           x == dialog.targets
           y == dialog.saving
           d == [dialog EXCEPT !.open = yes]
           e == [d EXCEPT !.title = t]
<1>1. dialog = [intent |-> p, open |-> q, title |-> r, targets |-> x, saving |-> y]
  BY DEF DialogShape
<1>2. dialog' = [e EXCEPT !.targets = targets] /\ yes = TRUE /\ p = dialog.intent
  OBVIOUS
<1> HIDE DEF yes, p, q, r, x, y
<1>3. d = [intent |-> p, open |-> yes, title |-> r, targets |-> x, saving |-> y]
  BY <1>1
<1> HIDE DEF d
<1>4. e = [intent |-> p, open |-> yes, title |-> t, targets |-> x, saving |-> y]
  BY <1>3
<1> HIDE DEF e
<1>5. dialog' = [intent |-> p, open |-> yes, title |-> t, targets |-> targets, saving |-> y]
  BY <1>2, <1>4
<1> QED
  BY <1>2, <1>5 DEF DialogShape

\* Lemma: the dialog closes, or waits for nothing and moves the same.
LEMMA CalmDialog ==
  ASSUME DialogInv, NEW d, dialog' = d, DialogShape',
         \/ d.intent = None /\ (~d.open \/ d.open = dialog.open)
         \/ d.intent = dialog.intent /\ d.open = dialog.open /\ d.title = dialog.title,
         NEW rest, rest \subseteq flows,
         flows' = rest \/ \E w : Shaped(w) /\ w.do # "listFolders" /\ flows' = rest \cup {w},
         crossed \subseteq crossed'
  PROVE  DialogInv'
<1>1. /\ \A w \in flows' : Shaped(w)
      /\ "dialog" \notin crossed' => Waiting(flows', dialog)
  BY OtherFlows
<1>2. "dialog" \notin crossed' => Waiting(flows', dialog')
  BY <1>1 DEF Waiting
<1>3. DialogMovesItsTitle'
  BY DEF DialogInv, DialogMovesItsTitle
<1>4. Movable(dialog'.intent)
  BY DEF DialogInv, Movable
<1> QED
  BY <1>1, <1>2, <1>3, <1>4 DEF DialogInv

\* Lemma: the move is confirmed.
LEMMA ConfirmStep ==
  ASSUME DialogInv, NEW to, Confirm(to)
  PROVE  DialogInv'
<1> DEFINE w == Flow(dialog.intent.do, dialog.intent.a, to, "dialog")
<1>1. /\ dialog.intent # None /\ flows' = flows \cup {w} /\ crossed \subseteq crossed'
      /\ dialog' = [dialog EXCEPT !.saving = TRUE]
  BY DEF Confirm, Send
<1>2. Shaped(w) /\ w.do = dialog.intent.do
  BY FlowShape
<1> HIDE DEF w
<1>3. w.do # "listFolders"
  BY <1>1, <1>2 DEF DialogInv, Movable
<1>4. DialogShape
  BY DEF DialogInv
<1>5. dialog' = [intent |-> dialog.intent, open |-> dialog.open, title |-> dialog.title,
                 targets |-> dialog.targets, saving |-> TRUE]
  BY <1>1, <1>4 DEF DialogShape
<1>6. DialogShape' /\ dialog'.intent = dialog.intent /\ dialog'.open = dialog.open /\ dialog'.title = dialog.title
  BY <1>5 DEF DialogShape
<1>7. flows \subseteq flows /\ \E x : Shaped(x) /\ x.do # "listFolders" /\ flows' = flows \cup {x}
  BY <1>1, <1>2, <1>3
<1> QED
  BY <1>1, <1>6, <1>7, CalmDialog

\* Lemma: a reply reaches the page.
LEMMA HandleKeepsDialog ==
  ASSUME DialogInv, NEW w \in flows, Handle(w)
  PROVE  DialogInv'
<1> DEFINE rest == flows \ {w}
<1>1. rest \subseteq flows /\ Shaped(w) /\ DialogShape
  BY DEF DialogInv
<1>2. CASE ReplyFails(w)
  <2>1. /\ \/ dialog' = [dialog EXCEPT !.intent = None]
           \/ dialog' = [dialog EXCEPT !.saving = FALSE]
           \/ UNCHANGED dialog
        /\ flows' = rest /\ UNCHANGED crossed
    BY <1>2, Zenon DEF ReplyFails
  <2>2. CASE dialog' = [dialog EXCEPT !.intent = None]
    <3>1. dialog' = [intent |-> None, open |-> dialog.open, title |-> dialog.title,
                     targets |-> dialog.targets, saving |-> dialog.saving]
      BY <1>1, <2>2 DEF DialogShape
    <3>2. DialogShape' /\ dialog'.intent = None /\ dialog'.open = dialog.open
      BY <3>1 DEF DialogShape
    <3> QED
      BY <1>1, <2>1, <3>2, CalmDialog
  <2>3. CASE dialog' = [dialog EXCEPT !.saving = FALSE]
    <3>1. dialog' = [intent |-> dialog.intent, open |-> dialog.open, title |-> dialog.title,
                     targets |-> dialog.targets, saving |-> FALSE]
      BY <1>1, <2>3 DEF DialogShape
    <3>2. DialogShape' /\ dialog'.intent = dialog.intent /\ dialog'.open = dialog.open
          /\ dialog'.title = dialog.title
      BY <3>1 DEF DialogShape
    <3> QED
      BY <1>1, <2>1, <3>2, CalmDialog
  <2>4. CASE UNCHANGED dialog
    BY <1>1, <2>1, <2>4, SameDialog
  <2> QED
    BY <2>1, <2>2, <2>3, <2>4
<1>3. CASE ScopeArrives(w)
  <2>1. flows' = rest /\ UNCHANGED <<dialog, crossed>>
    BY <1>3 DEF ScopeArrives
  <2> QED
    BY <1>1, <2>1, SameDialog
<1>4. CASE FoldersArrive(w)
  <2>1. /\ dialog' = [dialog EXCEPT !.open = TRUE, !.title = w.a, !.targets = w.reply.targets]
        /\ flows' = rest /\ UNCHANGED crossed /\ w.do = "listFolders"
    BY <1>4 DEF FoldersArrive
  <2>3. DialogShape' /\ dialog'.intent = dialog.intent /\ dialog'.title = w.a
    BY <1>1, <2>1, DialogOpens
  <2>4. w \in Asking(flows)
    BY <2>1 DEF Asking
  <2>5. "dialog" \notin crossed' => dialog.intent \in {None, w.a} /\ Asking(flows') = {}
    BY <2>1, <2>4 DEF DialogInv, Waiting, Asking
  <2>6. "dialog" \notin crossed' => Waiting(flows', dialog')
    BY <2>5 DEF Waiting
  <2>7. DialogMovesItsTitle'
    BY <2>3, <2>5 DEF DialogMovesItsTitle
  <2>8. \A x \in flows' : Shaped(x)
    BY <2>1 DEF DialogInv
  <2> QED
    BY <2>3, <2>6, <2>7, <2>8 DEF DialogInv
<1>5. CASE WriteDone(w)
  <2> DEFINE x == Lists(IF w.next \in {"dialog", "current"} THEN screen.scope.folder ELSE w.next)
  <2>1. /\ dialog' = IF w.next = "dialog" THEN Closed ELSE dialog
        /\ flows' = rest \cup {x} /\ crossed \subseteq crossed'
    BY <1>5 DEF WriteDone, Send
  <2>2. Shaped(x) /\ x.do = "listScope"
    BY FlowShape DEF Lists
  <2> HIDE DEF x, rest
  <2>3. \E y : Shaped(y) /\ y.do # "listFolders" /\ flows' = rest \cup {y}
    BY <2>1, <2>2
  <2>4. CASE UNCHANGED dialog
    BY <1>1, <2>1, <2>3, <2>4, SameDialog
  <2>5. CASE dialog' = Closed
    <3>1. DialogShape' /\ dialog'.intent = None /\ ~dialog'.open
      BY <2>5 DEF DialogShape, Closed
    <3> QED
      BY <1>1, <2>1, <2>3, <3>1, CalmDialog
  <2> QED
    BY <2>1, <2>4, <2>5
<1> QED
  BY <1>2, <1>3, <1>4, <1>5 DEF Handle

\* Lemma: every step of the screen keeps the dialog's part of the invariant.
LEMMA DialogStep ==
  ASSUME DialogInv, [ScreenNext]_vars
  PROVE  DialogInv'
<1>0. flows \subseteq flows
  OBVIOUS
<1>1. CASE UNCHANGED <<dialog, flows, crossed>>
  BY <1>0, <1>1, SameDialog
<1>2. ASSUME NEW f, Open(f) PROVE DialogInv'
  <2> DEFINE w == Lists(f)
  <2>1. Shaped(w) /\ w.do = "listScope"
    BY FlowShape DEF Lists
  <2>2. Click(w) /\ UNCHANGED dialog
    BY <1>2 DEF Open
  <2> HIDE DEF w
  <2> QED
    BY <2>1, <2>2, OtherClick
<1>3. ASSUME NEW do, NEW a, NEW b, NEW next, do # "listFolders",
             Click(Flow(do, a, b, next)), UNCHANGED dialog
      PROVE  DialogInv'
  <2> DEFINE w == Flow(do, a, b, next)
  <2>1. Shaped(w) /\ w.do = do
    BY FlowShape
  <2>2. Click(w)
    BY <1>3
  <2> HIDE DEF w
  <2> QED
    BY <1>3, <2>1, <2>2, OtherClick
<1>4. ASSUME NEW c, Toggle(c) PROVE DialogInv'
  BY <1>1, <1>4 DEF Toggle
<1>5. ASSUME NEW c, DeleteConnectionFromUi(c) \/ SaveNewConnection(c) PROVE DialogInv'
  <2>1. CASE DeleteConnectionFromUi(c)
    BY <1>3, <2>1 DEF DeleteConnectionFromUi
  <2>2. CASE SaveNewConnection(c)
    BY <1>3, <2>2 DEF SaveNewConnection
  <2> QED
    BY <1>5, <2>1, <2>2
<1>6. CASE SelectAll \/ ClearSelection
  BY <1>1, <1>6 DEF SelectAll, ClearSelection
<1>7. ASSUME NEW c, NEW to, DropConnection(c, to) PROVE DialogInv'
  BY <1>3, <1>7 DEF DropConnection
<1>8. ASSUME NEW f, NEW to, DropFolder(f, to) PROVE DialogInv'
  BY <1>3, <1>8 DEF DropFolder
<1>9. ASSUME NEW f, NEW n, SaveNewFolder(f, n) PROVE DialogInv'
  BY <1>3, <1>9 DEF SaveNewFolder
<1>10. ASSUME NEW f, NEW n, SaveFolderName(f, n) PROVE DialogInv'
  BY <1>3, <1>10 DEF SaveFolderName
<1>11. ASSUME NEW f, NEW choice \in {"promote", "recursive"}, DeleteFolderFromUi(f, choice) PROVE DialogInv'
  <2>1. choice # "listFolders"
    OBVIOUS
  <2> QED
    BY <1>3, <1>11, <2>1 DEF DeleteFolderFromUi
<1>12. CASE Cancel
  <2>1. dialog' = [dialog EXCEPT !.intent = None, !.open = FALSE] /\ UNCHANGED <<flows, crossed>>
    BY <1>12 DEF Cancel
  <2>2. DialogShape' /\ dialog'.intent = None /\ ~dialog'.open
    BY <2>1, DialogCloses DEF DialogInv
  <2> QED
    BY <1>0, <2>1, <2>2, CalmDialog
<1>13. ASSUME NEW w \in flows, Serve(w) PROVE DialogInv'
  <2>1. (\E reply : Answered(w, reply)) /\ UNCHANGED <<dialog, crossed>>
    BY <1>13 DEF Serve
  <2> QED
    BY <2>1, AnswerStep
<1>14. ASSUME NEW w \in flows, Fails(w) PROVE DialogInv'
  BY <1>14, AnswerStep DEF Fails
<1>15. CASE OtherTab
  BY <1>1, <1>15 DEF OtherTab, uiVars
<1>16. CASE UNCHANGED vars
  BY <1>1, <1>16 DEF vars, uiVars
<1> QED
  BY <1>2, <1>4, <1>5, <1>6, <1>7, <1>8, <1>9, <1>10, <1>11, <1>12, <1>13, <1>14, <1>15, <1>16,
     AskStep, ConfirmStep, HandleKeepsDialog DEF ScreenNext

\* Theorem: the move dialog moves what its title names, unless the folders for
\* two dialogs were asked for at once.
THEOREM DialogMovesWhatItSays == ScreenSpec => []DialogMovesItsTitle
<1>1. ScreenInit => DialogInv
  BY DEF ScreenInit, Closed, DialogInv, DialogShape, Movable, Waiting, Asking, DialogMovesItsTitle
<1>2. DialogInv /\ [ScreenNext]_vars => DialogInv'
  BY DialogStep
<1>3. DialogInv => DialogMovesItsTitle
  BY DEF DialogInv
<1> QED
  BY <1>1, <1>2, <1>3, PTL DEF ScreenSpec

-----------------------------------------------------------------------------
(* What the screen shows.                                                  *)

\* The folders are a tree.
TreeSound ==
  /\ tree \in [DOMAIN tree -> [parent : DOMAIN tree \cup {Root}, name : Name]]
  /\ DOMAIN tree \subseteq Folder /\ Acyclic(tree)

Deletes(w) == w.do \in {"promote", "recursive"}
Decides(w) == w.do = "listScope" \/ Deletes(w)

\* A change is stored, and the list not yet asked for again.
Written(w) == ~Reads(w) /\ w.reply # None /\ ~Failed(w)

\* The requests that the screen sends.
Request(w) ==
  /\ w.do \in {"listScope", "listFolders", "promote", "recursive", "moveConnections", "moveFolder",
               "deleteConnection", "createFolder", "renameFolder", "createConnection"}
  /\ Reads(w) => w.next = None
  /\ ~Reads(w) /\ ~Deletes(w) => w.next \in {"current", "dialog"}
  /\ w.do = "createFolder" => w.a \in Folder /\ w.b.name \in Name
  /\ w.do = "renameFolder" => w.b \in Name
  /\ w.do = "createConnection" => w.a \in Conn
  /\ w.do = "listScope" /\ w.reply # None /\ ~Failed(w) =>
       w.reply.scope.conns \subseteq Conn /\ w.reply.scope.subs \subseteq Folder

\* At most one request of a kind is in flight.
Lone(F, kind) == \A w, x \in F : w.do \in kind /\ x.do \in kind => w = x

Lones == \A k \in {"screen", "tree"} \ crossed : Lone(flows, Deciding[k])

\* What the store with folders t and connections c answers for folder f.
ScopeOf(t, c, f) ==
  [folder |-> f, up |-> IF f = Root THEN Root ELSE t[f].parent,
   conns |-> {x \in DOMAIN c : c[x].folder = f}, subs |-> {g \in DOMAIN t : t[g].parent = f},
   path |-> Above(t, f) \cup {Root}]

Known(t, scope) ==
  {scope.folder, scope.up} \cup scope.path \subseteq DOMAIN t \cup {Root} /\ scope.subs \subseteq DOMAIN t
Near(t, scope) ==
  /\ \A g \in scope.subs : t[g].parent = scope.folder
  /\ scope.up = IF scope.folder = Root THEN Root ELSE t[scope.folder].parent

\* A list is true but for the changes that are stored and not listed yet.
Fits(t, c, F, scope) ==
  /\ Known(t, scope)
  /\ Near(t, scope) \/ \E w \in F : Written(w) /\ w.do = "moveFolder"
  /\ scope = ScopeOf(t, c, scope.folder) \/ \E w \in F : Written(w)

\* Nothing in flight puts another folder on the screen.
Steady(F) == \A w \in F : Decides(w) => Deletes(w) /\ ~Written(w)

\* Where showConnections goes once a change is stored.
Target(scope, w) == IF w.next \in {"dialog", "current"} THEN scope.folder ELSE w.next

Listing(t, c, F, w) ==
  IF w.reply = None THEN w.a \in DOMAIN t \cup {Root} ELSE ~Failed(w) /\ Fits(t, c, F, w.reply.scope)
Deletion(t, scope, w) ==
  IF Written(w) THEN Target(scope, w) \in DOMAIN t \cup {Root}
  ELSE /\ w.a \in scope.subs \cup ({scope.folder} \ {Root})
       /\ w.next = IF w.a = scope.folder THEN scope.up ELSE "current"

Agreeing(t, c, F, scope) ==
  /\ Steady(F) => Fits(t, c, F, scope)
  /\ \A w \in F : (w.do = "listScope" => Listing(t, c, F, w)) /\ (Deletes(w) => Deletion(t, scope, w))

Undisturbed == ~stale /\ crossed \cap {"screen", "tree"} = {}

ScreenInv ==
  /\ TreeSound /\ DOMAIN conns \subseteq Conn
  /\ \A w \in flows : Request(w)
  /\ Lones
  /\ Undisturbed => Agreeing(tree, conns, flows, screen.scope)

\* Lemma: such a table is one that the lemmas about the queries hold for.
LEMMA SoundRooted ==
  ASSUME ScreenAssumption, TreeSound
  PROVE  /\ Rooted(tree) /\ Root \notin DOMAIN tree
         /\ \A f : Above(tree, f) \subseteq DOMAIN tree
<1>1. IsFiniteSet(DOMAIN tree)
  BY FS_Subset DEF ScreenAssumption, TreeSound
<1>2. Root \notin DOMAIN tree /\ \A f \in DOMAIN tree : tree[f].parent \in DOMAIN tree \cup {Root}
  BY DEF ScreenAssumption, TreeSound
<1>3. Rooted(tree)
  BY <1>1, <1>2 DEF Rooted
<1> QED
  BY <1>2, <1>3, AboveClosed

\* Lemma: a table of the right type whose parents leave no cycle.
LEMMA SoundNext ==
  ASSUME ScreenAssumption, DOMAIN tree' \subseteq Folder,
         tree' \in [DOMAIN tree' -> [parent : DOMAIN tree' \cup {Root}, name : Name]]
  PROVE  Rooted(tree')
<1>1. IsFiniteSet(DOMAIN tree')
  BY FS_Subset DEF ScreenAssumption
<1> QED
  BY <1>1 DEF ScreenAssumption, Rooted

\* Lemma: a folder is not above the one it lies in.
LEMMA ParentApart ==
  ASSUME ScreenAssumption, TreeSound, NEW f \in DOMAIN tree
  PROVE  f \notin Above(tree, tree[f].parent) /\ tree[f].parent # f
<1>1. Rooted(tree) /\ Root \notin DOMAIN tree
  BY SoundRooted
<1>2. f \notin Above(tree, tree[f].parent)
  BY DEF TreeSound, Acyclic, OnCycle
<1>3. f \in Above(tree, f)
  BY <1>1, AboveClosed
<1> QED
  BY <1>2, <1>3

\* What a change leaves of the places: none is gone, and each lies where it lay.
Grows ==
  /\ DOMAIN tree \subseteq DOMAIN tree'
  /\ \A f \in DOMAIN tree : tree'[f].parent = tree[f].parent

\* Lemma: a new folder.
LEMMA AddSound ==
  ASSUME ScreenAssumption, TreeSound, NEW f \in Folder, NEW p, NEW n \in Name, AddFolder(f, p, n)
  PROVE  TreeSound' /\ Grows
<1>1. /\ f \notin DOMAIN tree /\ p \in DOMAIN tree \cup {Root}
      /\ tree' = [g \in DOMAIN tree \cup {f} |-> IF g = f THEN [parent |-> p, name |-> n] ELSE tree[g]]
  BY DEF AddFolder, Places
<1>2. /\ DOMAIN tree' = DOMAIN tree \cup {f} /\ tree'[f] = [parent |-> p, name |-> n]
      /\ \A g \in DOMAIN tree : tree'[g] = tree[g]
  BY <1>1
<1>3. DOMAIN tree' \subseteq Folder
  BY <1>2 DEF TreeSound
<1>4. tree' \in [DOMAIN tree' -> [parent : DOMAIN tree' \cup {Root}, name : Name]]
  <2>1. \A g \in DOMAIN tree' : tree'[g] \in [parent : DOMAIN tree' \cup {Root}, name : Name]
    BY <1>1, <1>2 DEF TreeSound
  <2>2. tree' = [g \in DOMAIN tree' |-> tree'[g]]
    BY <1>1, <1>2
  <2> QED
    BY <2>1, <2>2
<1>5. Rooted(tree) /\ Rooted(tree') /\ \A g : Above(tree, g) \subseteq DOMAIN tree
  BY <1>3, <1>4, SoundRooted, SoundNext
<1>6. /\ \A g : g # f => Above(tree', g) = Above(tree, g)
  BY <1>1, <1>2, <1>5, InsertAbove
<1>7. Acyclic(tree')
  <2> SUFFICES ASSUME NEW g \in DOMAIN tree', g \in Above(tree', tree'[g].parent) PROVE FALSE
    BY DEF Acyclic, OnCycle
  <2>1. tree'[g].parent # f
    BY <1>1, <1>2, <1>5 DEF TreeSound, ScreenAssumption
  <2>2. g \in Above(tree, tree'[g].parent)
    BY <1>6, <2>1
  <2>3. g \in DOMAIN tree /\ tree'[g].parent = tree[g].parent
    BY <1>2, <1>5, <2>2
  <2> QED
    BY <2>2, <2>3, ParentApart
<1> QED
  BY <1>2, <1>3, <1>4, <1>7 DEF TreeSound, Grows

\* Lemma: another name.
LEMMA RenameSound ==
  ASSUME ScreenAssumption, TreeSound, NEW f, NEW n \in Name, Rename(f, n)
  PROVE  TreeSound' /\ Grows
<1>1. f \in DOMAIN tree /\ tree' = [tree EXCEPT ![f].name = n]
  BY DEF Rename
<1>2. /\ DOMAIN tree' = DOMAIN tree /\ tree' = [g \in DOMAIN tree' |-> tree'[g]]
      /\ \A g \in DOMAIN tree : /\ tree'[g] \in [parent : DOMAIN tree \cup {Root}, name : Name]
                                /\ tree'[g].parent = tree[g].parent
  BY <1>1 DEF TreeSound
<1>3. /\ DOMAIN tree' \subseteq Folder
      /\ tree' \in [DOMAIN tree' -> [parent : DOMAIN tree' \cup {Root}, name : Name]]
  BY <1>2 DEF TreeSound
<1>4. Rooted(tree) /\ Rooted(tree')
  BY <1>3, SoundRooted, SoundNext
<1>5. \A g \in DOMAIN tree : Above(tree', g) = Above(tree, g)
  BY <1>2, <1>4, KeptAbove
<1>6. Acyclic(tree')
  <2> SUFFICES ASSUME NEW g \in DOMAIN tree', g \in Above(tree', tree'[g].parent) PROVE FALSE
    BY DEF Acyclic, OnCycle
  <2>1. g \in DOMAIN tree /\ tree'[g].parent = tree[g].parent
    BY <1>2
  <2>2. tree[g].parent \in DOMAIN tree
    BY <1>2, <1>4, <2>1, AboveNothing
  <2> QED
    BY <1>5, <2>1, <2>2, ParentApart
<1> QED
  BY <1>2, <1>3, <1>6 DEF TreeSound, Grows

\* Lemma: another place.
LEMMA MoveSound ==
  ASSUME ScreenAssumption, TreeSound, NEW f, NEW p, MoveFolder(f, p)
  PROVE  TreeSound' /\ DOMAIN tree' = DOMAIN tree
<1>1. /\ f \in DOMAIN tree /\ p \in (DOMAIN tree \cup {Root}) \ Below(tree, f)
      /\ tree' = [tree EXCEPT ![f].parent = p]
  BY DEF MoveFolder, Places
<1>2. /\ DOMAIN tree' = DOMAIN tree /\ tree' = [g \in DOMAIN tree' |-> tree'[g]]
      /\ \A g \in DOMAIN tree : /\ tree'[g] \in [parent : DOMAIN tree \cup {Root}, name : Name]
                                /\ g # f => tree'[g].parent = tree[g].parent
      /\ tree'[f].parent = p
  BY <1>1 DEF TreeSound
<1>3. /\ DOMAIN tree' \subseteq Folder
      /\ tree' \in [DOMAIN tree' -> [parent : DOMAIN tree' \cup {Root}, name : Name]]
  BY <1>2 DEF TreeSound
<1>4. Rooted(tree) /\ Rooted(tree') /\ Root \notin DOMAIN tree
  BY <1>3, SoundRooted, SoundNext
<1>5. f \notin Above(tree, p)
  <2>1. CASE p \in DOMAIN tree
    BY <1>1, <2>1 DEF Below
  <2>2. CASE p \notin DOMAIN tree
    BY <1>4, <2>2, AboveNothing
  <2> QED
    BY <2>1, <2>2
<1>6. Acyclic(tree')
  BY <1>1, <1>2, <1>4, <1>5, MoveAcyclic DEF TreeSound
<1> QED
  BY <1>2, <1>3, <1>6 DEF TreeSound

\* Lemma: a folder goes, what lay in it lies where it lay.
LEMMA PromoteSound ==
  ASSUME ScreenAssumption, TreeSound, NEW f, Promote(f)
  PROVE  TreeSound' /\ DOMAIN tree' = DOMAIN tree \ {f} /\ f \in DOMAIN tree
<1> DEFINE up == tree[f].parent
<1>1. /\ f \in DOMAIN tree
      /\ tree' = [g \in DOMAIN tree \ {f} |->
                    IF g \in Kids(f) THEN [tree[g] EXCEPT !.parent = up] ELSE tree[g]]
  BY DEF Promote
<1>2. up # f /\ up \in DOMAIN tree \cup {Root}
  BY <1>1, ParentApart DEF TreeSound
<1>3. /\ DOMAIN tree' = DOMAIN tree \ {f} /\ tree' = [g \in DOMAIN tree' |-> tree'[g]]
      /\ \A g \in DOMAIN tree' : /\ tree'[g].parent = IF tree[g].parent = f THEN up ELSE tree[g].parent
                                 /\ tree'[g] \in [parent : DOMAIN tree' \cup {Root}, name : Name]
  <2> HIDE DEF up
  <2>1. DOMAIN tree' = DOMAIN tree \ {f} /\ tree' = [g \in DOMAIN tree' |-> tree'[g]]
    BY <1>1
  <2>2. ASSUME NEW g \in DOMAIN tree'
        PROVE  /\ tree'[g].parent = IF tree[g].parent = f THEN up ELSE tree[g].parent
               /\ tree'[g] \in [parent : DOMAIN tree' \cup {Root}, name : Name]
    <3>1. g \in DOMAIN tree /\ tree[g] \in [parent : DOMAIN tree \cup {Root}, name : Name]
      BY <2>1 DEF TreeSound
    <3>2. CASE tree[g].parent = f
      <4>1. tree'[g] = [tree[g] EXCEPT !.parent = up]
        BY <1>1, <2>1, <3>1, <3>2 DEF Kids
      <4> QED
        BY <1>2, <2>1, <3>1, <3>2, <4>1
    <3>3. CASE tree[g].parent # f
      <4>1. tree'[g] = tree[g]
        BY <1>1, <2>1, <3>1, <3>3 DEF Kids
      <4> QED
        BY <2>1, <3>1, <3>3, <4>1
    <3> QED
      BY <3>2, <3>3
  <2> QED
    BY <2>1, <2>2
<1>4. /\ DOMAIN tree' \subseteq Folder
      /\ tree' \in [DOMAIN tree' -> [parent : DOMAIN tree' \cup {Root}, name : Name]]
  BY <1>3 DEF TreeSound
<1>5. Rooted(tree) /\ Rooted(tree')
  BY <1>4, SoundRooted, SoundNext
<1>6. Acyclic(tree')
  BY <1>1, <1>3, <1>5, PromoteAbove DEF TreeSound
<1> QED
  BY <1>1, <1>3, <1>4, <1>6 DEF TreeSound

\* Lemma: a folder goes with all below it.
LEMMA DeleteSound ==
  ASSUME ScreenAssumption, TreeSound, NEW f, DeleteTree(f)
  PROVE  TreeSound' /\ DOMAIN tree' = DOMAIN tree \ Below(tree, f) /\ f \in DOMAIN tree
<1>1. f \in DOMAIN tree /\ tree' = [g \in DOMAIN tree \ Below(tree, f) |-> tree[g]]
  BY DEF DeleteTree
<1>2. Rooted(tree) /\ Root \notin DOMAIN tree
  BY SoundRooted
<1>3. DOMAIN tree' = DOMAIN tree \ Below(tree, f) /\ tree' = [g \in DOMAIN tree' |-> tree'[g]]
      /\ \A g \in DOMAIN tree' : tree'[g] = tree[g] /\ g \in DOMAIN tree
  BY <1>1
<1>4. ASSUME NEW g \in DOMAIN tree' PROVE tree[g].parent \in DOMAIN tree' \cup {Root}
  <2>1. g \in DOMAIN tree /\ f \notin Above(tree, g)
    BY <1>3 DEF Below
  <2>2. f \notin Above(tree, tree[g].parent)
    BY <1>2, <2>1, AboveStep
  <2>3. tree[g].parent \in DOMAIN tree \cup {Root}
    BY <2>1 DEF TreeSound
  <2> QED
    BY <1>3, <2>2, <2>3 DEF Below
<1>5. \A g \in DOMAIN tree' : tree'[g] \in [parent : DOMAIN tree' \cup {Root}, name : Name]
  BY <1>3, <1>4 DEF TreeSound
<1>6. /\ DOMAIN tree' \subseteq Folder
      /\ tree' \in [DOMAIN tree' -> [parent : DOMAIN tree' \cup {Root}, name : Name]]
  BY <1>3, <1>5 DEF TreeSound
<1>7. Rooted(tree')
  BY <1>6, SoundNext
<1>8. \A g \in DOMAIN tree' : Above(tree', g) = Above(tree, g)
  BY <1>2, <1>3, <1>7, KeptAbove
<1>9. Acyclic(tree')
  <2> SUFFICES ASSUME NEW g \in DOMAIN tree', g \in Above(tree', tree'[g].parent) PROVE FALSE
    BY DEF Acyclic, OnCycle
  <2>1. g \in DOMAIN tree /\ tree'[g].parent = tree[g].parent
    BY <1>3
  <2>2. tree[g].parent \in DOMAIN tree'
    BY <1>2, <1>3, <1>4, <1>7, <2>1, AboveNothing DEF Rooted
  <2> QED
    BY <1>8, <2>1, <2>2, ParentApart
<1> QED
  BY <1>1, <1>3, <1>6, <1>9 DEF TreeSound

\* Lemma: a step that leaves the folders alone.
LEMMA SameTree ==
  ASSUME TreeSound, UNCHANGED tree
  PROVE  TreeSound' /\ Grows
BY DEF TreeSound, Grows

\* Lemma: a change that deletes no folder.
LEMMA ApplyChange ==
  ASSUME ScreenAssumption, TreeSound, DOMAIN conns \subseteq Conn,
         NEW w, Request(w), ~Reads(w), ~Deletes(w), Apply(w)
  PROVE  /\ TreeSound' /\ DOMAIN conns' \subseteq Conn /\ DOMAIN tree \subseteq DOMAIN tree'
         /\ w.do # "moveFolder" => Grows
<1>1. CASE w.do = "moveConnections"
  <2>1. Place(w.a, w.b)
    BY <1>1 DEF Apply
  <2> QED
    BY <2>1, SameTree DEF Place, Grows
<1>2. CASE w.do = "moveFolder"
  <2>1. MoveFolder(w.a, w.b)
    BY <1>2 DEF Apply
  <2> QED
    BY <1>2, <2>1, MoveSound DEF MoveFolder
<1>3. CASE w.do = "deleteConnection"
  <2>1. DeleteConnection(w.a)
    BY <1>3 DEF Apply
  <2> QED
    BY <2>1, SameTree DEF DeleteConnection, Grows
<1>4. CASE w.do = "createFolder"
  <2>1. AddFolder(w.a, w.b.parent, w.b.name) /\ w.a \in Folder /\ w.b.name \in Name
    BY <1>4 DEF Apply, Request
  <2> QED
    BY <2>1, AddSound DEF AddFolder, Grows
<1>5. CASE w.do = "renameFolder"
  <2>1. Rename(w.a, w.b) /\ w.b \in Name
    BY <1>5 DEF Apply, Request
  <2> QED
    BY <2>1, RenameSound DEF Rename, Grows
<1>6. CASE w.do = "createConnection"
  <2>1. PICK a \in AuthType : AddConnection(w.a, w.b, a)
    BY <1>6 DEF Apply
  <2>2. w.a \in Conn
    BY <1>6 DEF Request
  <2> QED
    BY <2>1, <2>2, SameTree DEF AddConnection, Grows
<1> QED
  BY <1>1, <1>2, <1>3, <1>4, <1>5, <1>6 DEF Request, Reads, Deletes

\* Lemma: a deletion of a folder leaves every place that is not below it.
LEMMA ApplyDeletion ==
  ASSUME ScreenAssumption, TreeSound, DOMAIN conns \subseteq Conn, NEW w, Deletes(w), Apply(w)
  PROVE  /\ TreeSound' /\ DOMAIN conns' \subseteq Conn /\ w.a \in DOMAIN tree
         /\ \A p \in Places : w.a \notin Above(tree, p) => p \in Places'
<1>1. CASE w.do = "promote"
  <2>1. Promote(w.a)
    BY <1>1 DEF Apply
  <2>2. DOMAIN conns' \subseteq Conn
    BY <2>1 DEF Promote
  <2>3. TreeSound' /\ DOMAIN tree' = DOMAIN tree \ {w.a} /\ w.a \in DOMAIN tree
    BY <2>1, PromoteSound
  <2>4. w.a \in Above(tree, w.a)
    BY <2>3, SoundRooted, AboveClosed
  <2> QED
    BY <2>2, <2>3, <2>4 DEF Places
<1>2. CASE w.do = "recursive"
  <2>1. DeleteTree(w.a)
    BY <1>2 DEF Apply
  <2>2. DOMAIN conns' \subseteq Conn
    BY <2>1 DEF DeleteTree
  <2>3. TreeSound' /\ DOMAIN tree' = DOMAIN tree \ Below(tree, w.a) /\ w.a \in DOMAIN tree
    BY <2>1, DeleteSound
  <2> QED
    BY <2>2, <2>3 DEF Places, Below
<1> QED
  BY <1>1, <1>2 DEF Deletes

\* Lemma: the changes of another tab.
LEMMA FilingSound ==
  ASSUME ScreenAssumption, TreeSound, DOMAIN conns \subseteq Conn, Filing
  PROVE  TreeSound' /\ DOMAIN conns' \subseteq Conn
<1>1. ASSUME NEW f \in Folder, NEW p, NEW n \in Name, AddFolder(f, p, n) \/ Rename(f, n)
      PROVE  TreeSound' /\ DOMAIN conns' \subseteq Conn
  BY <1>1, AddSound, RenameSound DEF AddFolder, Rename
<1>2. ASSUME NEW f, NEW p, MoveFolder(f, p) PROVE TreeSound' /\ DOMAIN conns' \subseteq Conn
  BY <1>2, MoveSound DEF MoveFolder
<1>3. ASSUME NEW f, Promote(f) PROVE TreeSound' /\ DOMAIN conns' \subseteq Conn
  BY <1>3, PromoteSound DEF Promote
<1>4. ASSUME NEW f, DeleteTree(f) PROVE TreeSound' /\ DOMAIN conns' \subseteq Conn
  BY <1>4, DeleteSound DEF DeleteTree
<1>5. ASSUME NEW c \in Conn, NEW p, NEW a, AddConnection(c, p, a)
      PROVE  TreeSound' /\ DOMAIN conns' \subseteq Conn
  BY <1>5, SameTree DEF AddConnection
<1>6. ASSUME NEW c, DeleteConnection(c) PROVE TreeSound' /\ DOMAIN conns' \subseteq Conn
  BY <1>6, SameTree DEF DeleteConnection
<1>7. ASSUME NEW S, NEW p, Place(S, p) PROVE TreeSound' /\ DOMAIN conns' \subseteq Conn
  BY <1>7, SameTree DEF Place
<1> QED
  BY <1>1, <1>2, <1>3, <1>4, <1>5, <1>6, <1>7, Zenon DEF Filing

\* Lemma: what a list says of a store that has changed since.
LEMMA FitsStays ==
  ASSUME NEW t, NEW c, NEW F, NEW s, Fits(t, c, F, s), NEW u, NEW d, NEW G,
         Root \notin DOMAIN t, DOMAIN t \subseteq DOMAIN u, \A w \in F : Written(w) => w \in G,
         \/ \A f \in DOMAIN t : u[f].parent = t[f].parent
         \/ \E w \in G : Written(w) /\ w.do = "moveFolder",
         (u = t /\ d = c) \/ \E w \in G : Written(w)
  PROVE  Fits(u, d, G, s)
<1>1. Known(u, s)
  BY DEF Fits, Known
<1>2. Near(u, s) \/ \E w \in G : Written(w) /\ w.do = "moveFolder"
  <2>1. CASE /\ \A f \in DOMAIN t : u[f].parent = t[f].parent
             /\ Near(t, s)
    BY <2>1 DEF Fits, Known, Near
  <2> QED
    BY <2>1 DEF Fits
<1>3. s = ScopeOf(u, d, s.folder) \/ \E w \in G : Written(w)
  BY DEF Fits
<1> QED
  BY <1>1, <1>2, <1>3 DEF Fits

\* Lemma: what the requests in flight promise, when none of those that decide
\* what is shown comes or goes.
LEMMA AgreeingStays ==
  ASSUME NEW t, NEW c, NEW F, NEW s, Agreeing(t, c, F, s), NEW u, NEW d, NEW G,
         Root \notin DOMAIN t, DOMAIN t \subseteq DOMAIN u, \A w \in F : Written(w) => w \in G,
         \/ \A f \in DOMAIN t : u[f].parent = t[f].parent
         \/ \E w \in G : Written(w) /\ w.do = "moveFolder",
         (u = t /\ d = c) \/ \E w \in G : Written(w),
         \A w : Decides(w) => (w \in F <=> w \in G)
  PROVE  Agreeing(u, d, G, s)
<1>1. ASSUME NEW x, Fits(t, c, F, x) PROVE Fits(u, d, G, x)
  BY <1>1, FitsStays
<1>2. Steady(G) => Fits(u, d, G, s)
  <2>1. Steady(G) => Steady(F)
    BY DEF Steady
  <2> QED
    BY <1>1, <2>1 DEF Agreeing
<1>3. ASSUME NEW w \in G, w.do = "listScope" PROVE Listing(u, d, G, w)
  <2>1. w \in F
    BY <1>3 DEF Decides
  <2>2. Listing(t, c, F, w)
    BY <1>3, <2>1 DEF Agreeing
  <2> QED
    BY <1>1, <2>2 DEF Listing
<1>4. ASSUME NEW w \in G, Deletes(w) PROVE Deletion(u, s, w)
  <2>1. w \in F
    BY <1>4 DEF Decides
  <2>2. Deletion(t, s, w)
    BY <1>4, <2>1 DEF Agreeing
  <2> QED
    BY <2>2 DEF Deletion
<1> QED
  BY <1>2, <1>3, <1>4 DEF Agreeing

\* Lemma: a request for a list is alone with what it decides.
LEMMA AloneListing ==
  ASSUME NEW t, NEW c, NEW F, NEW s, NEW w \in F, w.do = "listScope", Listing(t, c, F, w),
         \A x \in F : x = w \/ ~Decides(x)
  PROVE  Agreeing(t, c, F, s)
<1>1. ~Steady(F)
  BY DEF Steady, Decides, Deletes
<1>2. \A x \in F : (x.do = "listScope" => x = w) /\ ~Deletes(x)
  BY DEF Decides, Deletes
<1> QED
  BY <1>1, <1>2 DEF Agreeing

\* Lemma: so is a deletion, stored or not.
LEMMA AloneDeletion ==
  ASSUME NEW t, NEW c, NEW F, NEW s, NEW w \in F, Deletes(w), Deletion(t, s, w),
         \A x \in F : x = w \/ ~Decides(x), ~Written(w) => Fits(t, c, F, s)
  PROVE  Agreeing(t, c, F, s)
<1>1. Steady(F) => Fits(t, c, F, s)
  BY DEF Steady, Decides
<1>2. \A x \in F : x.do # "listScope" /\ (Deletes(x) => x = w)
  BY DEF Decides, Deletes
<1> QED
  BY <1>1, <1>2 DEF Agreeing

\* Lemma: and without either the list that is shown is what counts.
LEMMA NoneDecides ==
  ASSUME NEW t, NEW c, NEW F, NEW s, \A x \in F : ~Decides(x), Fits(t, c, F, s)
  PROVE  Agreeing(t, c, F, s)
BY DEF Agreeing, Decides

\* Lemma: then it is true but for the changes that are not listed yet.
LEMMA SteadyFits ==
  ASSUME NEW t, NEW c, NEW F, NEW s, Agreeing(t, c, F, s), \A x \in F : ~Decides(x)
  PROVE  Fits(t, c, F, s)
BY DEF Agreeing, Steady

\* Lemma: and in a deletion that is not stored its names are right.
LEMMA DeletionFits ==
  ASSUME NEW t, NEW c, NEW F, NEW s, Agreeing(t, c, F, s), NEW w \in F, Deletes(w), ~Written(w),
         \A x \in F : x = w \/ ~Decides(x), Lone(F, Deciding["tree"])
  PROVE  Fits(t, c, F, s) /\ Near(t, s) /\ Deletion(t, s, w)
<1>1. Steady(F)
  BY DEF Steady
<1>2. ASSUME NEW x \in F, Written(x), x.do = "moveFolder" PROVE FALSE
  <2>1. x = w
    BY <1>2 DEF Lone, Deciding, Deletes
  <2> QED
    BY <1>2, <2>1
<1> QED
  BY <1>1, <1>2 DEF Agreeing, Fits

\* Lemma: what the store answers fits.
LEMMA ScopeFits ==
  ASSUME ScreenAssumption, TreeSound, NEW f \in Places, NEW F
  PROVE  Scope(f) = ScopeOf(tree, conns, f) /\ Fits(tree, conns, F, Scope(f))
<1>1. Scope(f) = ScopeOf(tree, conns, f)
  BY DEF Scope, ScopeOf, Up, ConnsOf, Kids
<1>2. Above(tree, f) \subseteq DOMAIN tree
  BY SoundRooted
<1>3. Known(tree, ScopeOf(tree, conns, f))
  BY <1>2 DEF Known, ScopeOf, Places, TreeSound
<1>4. Near(tree, ScopeOf(tree, conns, f))
  BY DEF Near, ScopeOf
<1>5. ScopeOf(tree, conns, f).folder = f
  BY DEF ScopeOf
<1> QED
  BY <1>1, <1>3, <1>4, <1>5 DEF Fits

\* Lemma: a deletion leaves the place where the screen goes.
LEMMA TargetStays ==
  ASSUME ScreenAssumption, TreeSound, NEW s, Known(tree, s), Near(tree, s),
         NEW w, w.a \in DOMAIN tree, w.a \in s.subs \cup ({s.folder} \ {Root}),
         w.next = IF w.a = s.folder THEN s.up ELSE "current"
  PROVE  Target(s, w) \in Places /\ w.a \notin Above(tree, Target(s, w))
<1>1. w.a \notin Above(tree, tree[w.a].parent)
  BY ParentApart
<1>2. CASE w.a = s.folder
  <2>1. s.up = tree[w.a].parent /\ s.up \in DOMAIN tree \cup {Root}
    BY <1>2 DEF Near, Known, ScreenAssumption, TreeSound
  <2>2. s.up \notin {"dialog", "current"}
    BY <2>1 DEF ScreenAssumption, TreeSound
  <2> QED
    BY <1>1, <1>2, <2>1, <2>2 DEF Target, Places
<1>3. CASE w.a # s.folder
  <2>1. Target(s, w) = s.folder /\ w.a \in s.subs
    BY <1>3 DEF Target
  <2>2. tree[w.a].parent = s.folder /\ s.folder \in Places
    BY <2>1 DEF Near, Known, Places
  <2> QED
    BY <1>1, <2>1, <2>2
<1> QED
  BY <1>2, <1>3

\* Lemma: a request as it is sent, field by field.
LEMMA FlowFields ==
  ASSUME NEW do, NEW a, NEW b, NEW next
  PROVE  LET w == Flow(do, a, b, next)
         IN  w.do = do /\ w.a = a /\ w.b = b /\ w.next = next /\ w.reply = None
BY DEF Flow

\* Lemma: and with its reply.
LEMMA ReplyFields ==
  ASSUME NEW w, Shaped(w), NEW reply
  PROVE  LET q == [w EXCEPT !.reply = reply]
         IN  q.do = w.do /\ q.a = w.a /\ q.b = w.b /\ q.next = w.next /\ q.reply = reply
<1> DEFINE q == [w EXCEPT !.reply = reply]
<1>1. q = [do |-> w.do, a |-> w.a, b |-> w.b, next |-> w.next, reply |-> reply]
  BY DEF Shaped
<1> HIDE DEF q
<1>2. q.do = w.do /\ q.a = w.a /\ q.b = w.b /\ q.next = w.next /\ q.reply = reply
  BY <1>1
<1> QED
  BY <1>2 DEF q

\* Lemma: the requests that decide what is shown.
LEMMA DecidingKinds ==
  /\ Deciding["screen"] = {"listScope", "promote", "recursive"}
  /\ Deciding["tree"] = {"moveFolder", "promote", "recursive"}
  /\ \A w : Decides(w) <=> w.do \in Deciding["screen"]
  /\ {"screen", "tree"} \subseteq DOMAIN Deciding
BY DEF Deciding, Decides, Deletes

\* Lemma: crossed says when a second request of a kind is sent.
LEMMA SentOne ==
  ASSUME Lones, NEW rest, rest \subseteq flows, NEW w, Send(w, rest)
  PROVE  /\ Lones' /\ crossed \subseteq crossed'
         /\ "screen" \notin crossed' /\ Decides(w) => \A x \in rest : ~Decides(x)
<1>1. flows' = rest \cup {w} /\ crossed \subseteq crossed'
  BY DEF Send
<1>2. ASSUME NEW k \in {"screen", "tree"}, k \notin crossed', w.do \in Deciding[k]
      PROVE  \A x \in rest : x.do \notin Deciding[k]
  BY <1>2, DecidingKinds DEF Send
<1>3. ASSUME NEW k \in {"screen", "tree"} \ crossed' PROVE Lone(flows', Deciding[k])
  <2>1. k \notin crossed
    BY <1>1
  <2>2. Lone(flows, Deciding[k])
    BY <2>1 DEF Lones
  <2> QED
    BY <1>1, <1>2, <2>2 DEF Lone
<1>4. Lones'
  BY <1>3 DEF Lones, Deciding
<1> QED
  BY <1>1, <1>2, <1>4, DecidingKinds

\* Lemma: a reply makes no second one.
LEMMA AnsweredOne ==
  ASSUME Lones, NEW w \in flows, Shaped(w), NEW reply, Answered(w, reply), UNCHANGED crossed
  PROVE  Lones'
<1> DEFINE q == [w EXCEPT !.reply = reply]
<1>1. flows' = (flows \ {w}) \cup {q} /\ q.do = w.do
  BY ReplyFields DEF Answered
<1> HIDE DEF q
<1>2. ASSUME NEW k \in {"screen", "tree"} \ crossed' PROVE Lone(flows', Deciding[k])
  <2>1. Lone(flows, Deciding[k])
    BY DEF Lones
  <2> QED
    BY <1>1, <2>1 DEF Lone
<1> QED
  BY <1>2 DEF Lones, Deciding

\* Lemma: nor does a reply that is handled.
LEMMA FewerLones ==
  ASSUME Lones, flows' \subseteq flows, UNCHANGED crossed
  PROVE  Lones'
<1>1. ASSUME NEW k \in {"screen", "tree"} \ crossed' PROVE Lone(flows', Deciding[k])
  BY DEF Lones, Lone
<1> QED
  BY <1>1 DEF Lones, Deciding

\* Lemma: of two requests that decide what is shown one is enough.
LEMMA OneDecides ==
  ASSUME Lones, Undisturbed, NEW w \in flows, Decides(w)
  PROVE  /\ \A x \in flows : x = w \/ ~Decides(x)
         /\ Lone(flows, Deciding["tree"])
<1>1. "screen" \notin crossed /\ "tree" \notin crossed
  BY DEF Undisturbed
<1>2. Lone(flows, Deciding["screen"]) /\ Lone(flows, Deciding["tree"])
  BY <1>1 DEF Lones
<1> QED
  BY <1>2, DecidingKinds DEF Lone

\* Lemma: a step that only sends a request; the two that decide what is shown
\* are sent for what the list says.
LEMMA SendStep ==
  ASSUME ScreenAssumption, ScreenInv, NEW w, Request(w), w.reply = None, Send(w, flows),
         UNCHANGED <<tree, conns, stale>>, screen'.scope = screen.scope,
         ASSUME Fits(tree, conns, flows, screen.scope)
         PROVE  /\ w.do = "listScope" => w.a \in Places
                /\ Deletes(w) => Deletion(tree, screen.scope, w)
  PROVE  ScreenInv'
<1> DEFINE s == screen.scope
<1>1. /\ TreeSound' /\ DOMAIN conns' \subseteq Conn /\ flows' = flows \cup {w}
      /\ Root \notin DOMAIN tree /\ ~Written(w)
  BY DEF ScreenInv, TreeSound, Send, ScreenAssumption, Written
<1>2. \A x \in flows' : Request(x)
  BY <1>1 DEF ScreenInv
<1>3. /\ Lones' /\ crossed \subseteq crossed'
      /\ "screen" \notin crossed' /\ Decides(w) => \A x \in flows : ~Decides(x)
  BY SentOne DEF ScreenInv
<1>4. ASSUME Undisturbed' PROVE Agreeing(tree, conns, flows', s)
  <2>1. Undisturbed /\ "screen" \notin crossed'
    BY <1>3, <1>4 DEF Undisturbed
  <2>2. Agreeing(tree, conns, flows, s)
    BY <2>1 DEF ScreenInv
  <2>3. CASE ~Decides(w)
    <3>1. \A x : Decides(x) => (x \in flows <=> x \in flows')
      BY <1>1, <2>3
    <3> HIDE DEF s
    <3> QED
      BY <1>1, <2>2, <3>1, AgreeingStays
  <2>4. CASE Decides(w)
    <3>1. \A x \in flows : ~Decides(x)
      BY <1>3, <2>1, <2>4
    <3>2. Fits(tree, conns, flows, s)
      BY <2>2, <3>1, SteadyFits
    <3>3. Fits(tree, conns, flows', s)
      <4> HIDE DEF s
      <4> QED
        BY <1>1, <3>2, FitsStays
    <3>4. w \in flows' /\ \A x \in flows' : x = w \/ ~Decides(x)
      BY <1>1, <3>1
    <3>5. CASE w.do = "listScope"
      <4>1. Listing(tree, conns, flows', w)
        BY <3>2, <3>5 DEF Listing, Places
      <4> HIDE DEF s
      <4> QED
        BY <3>4, <3>5, <4>1, AloneListing
    <3>6. CASE Deletes(w)
      <4>1. Deletion(tree, s, w)
        BY <3>2, <3>6
      <4> HIDE DEF s
      <4> QED
        BY <3>3, <3>4, <3>6, <4>1, AloneDeletion
    <3> QED
      BY <2>4, <3>5, <3>6 DEF Decides
  <2> QED
    BY <2>3, <2>4
<1> QED
  BY <1>1, <1>2, <1>3, <1>4 DEF ScreenInv

\* Lemma: a step that sends nothing and leaves the store and the list alone.
LEMMA QuietStep ==
  ASSUME ScreenInv, UNCHANGED <<tree, conns, flows, crossed, stale>>, screen'.scope = screen.scope
  PROVE  ScreenInv'
<1>1. TreeSound' /\ DOMAIN conns' \subseteq Conn /\ (\A w \in flows' : Request(w))
  BY DEF ScreenInv, TreeSound
<1>2. Lones'
  BY DEF ScreenInv, Lones, Deciding
<1>3. Undisturbed' => Undisturbed
  BY DEF Undisturbed
<1> QED
  BY <1>1, <1>2, <1>3 DEF ScreenInv

\* Lemma: a step after which the list is not promised to be true.
LEMMA StaleStep ==
  ASSUME TreeSound', DOMAIN conns' \subseteq Conn, \A w \in flows' : Request(w), Lones', stale'
  PROVE  ScreenInv'
BY DEF ScreenInv, Undisturbed

\* Lemma: the store answers that a folder's list is this one, or that there is none.
LEMMA ServeList ==
  ASSUME ScreenAssumption, ScreenInv, NEW w \in flows, Shaped(w), w.do = "listScope", w.reply = None,
         Serve(w)
  PROVE  ScreenInv'
<1> DEFINE r == IF w.a \in Places THEN [scope |-> Scope(w.a)] ELSE [error |-> 404]
           q == [w EXCEPT !.reply = r]
<1>1. /\ UNCHANGED <<tree, conns, screen, crossed>> /\ Answered(w, r)
      /\ stale' = (stale /\ w.a \notin Places)
  <2>1. Reads(w)
    BY DEF Reads
  <2>2. CASE w.a \in Places
    <3>1. Answered(w, [scope |-> Scope(w.a)]) /\ stale' = (stale /\ w.a \notin Places)
      BY <2>1, <2>2 DEF Serve
    <3> QED
      BY <2>1, <2>2, <3>1 DEF Serve
  <2>3. CASE w.a \notin Places
    <3>1. Answered(w, [error |-> 404]) /\ stale' = (stale /\ w.a \notin Places)
      BY <2>1, <2>3 DEF Serve
    <3> QED
      BY <2>1, <2>3, <3>1 DEF Serve
  <2> QED
    BY <2>2, <2>3
<1>2. q.do = w.do /\ q.a = w.a /\ q.b = w.b /\ q.next = w.next /\ q.reply = r
      /\ flows' = (flows \ {w}) \cup {q}
  <2> HIDE DEF r
  <2> QED
    BY <1>1, ReplyFields DEF Answered
<1> HIDE DEF q
<1>3. TreeSound /\ TreeSound' /\ DOMAIN conns' \subseteq Conn
  BY <1>1 DEF ScreenInv, TreeSound
<1>4. w.a \in Places => ~Failed(q) /\ q.reply.scope = Scope(w.a)
  BY <1>2 DEF Failed
<1>5. w.a \notin Places => Failed(q)
  BY <1>2 DEF Failed
<1>6. Request(q)
  <2>1. w.a \in Places => Scope(w.a).conns \subseteq Conn /\ Scope(w.a).subs \subseteq Folder
    BY <1>3 DEF Scope, ConnsOf, Kids, TreeSound, ScreenInv
  <2>2. q.do = "listScope" /\ (Reads(q) => q.next = None) /\ Reads(q)
    BY <1>2 DEF ScreenInv, Request, Reads
  <2> QED
    BY <1>4, <1>5, <2>1, <2>2 DEF Request, Deletes
<1>7. (\A x \in flows' : Request(x)) /\ Lones'
  BY <1>1, <1>2, <1>6, AnsweredOne DEF ScreenInv
<1>8. ASSUME Undisturbed' PROVE Agreeing(tree, conns, flows', screen.scope)
  <2>1. crossed \cap {"screen", "tree"} = {}
    BY <1>1, <1>8 DEF Undisturbed
  <2>2. Lone(flows, Deciding["screen"])
    BY <2>1 DEF ScreenInv, Lones
  <2>3. \A x \in flows : x = w \/ ~Decides(x)
    BY <2>2, DecidingKinds DEF Lone
  <2>4. w.a \in Places
    <3>1. CASE Undisturbed
      BY <3>1 DEF ScreenInv, Agreeing, Listing, Places
    <3>2. CASE ~Undisturbed
      BY <1>1, <1>8, <2>1, <3>2 DEF Undisturbed
    <3> QED
      BY <3>1, <3>2
  <2>5. Fits(tree, conns, flows', Scope(w.a)) /\ w.a \in DOMAIN tree \cup {Root}
    BY <1>3, <2>4, ScopeFits DEF Places
  <2>6. Listing(tree, conns, flows', q)
    BY <1>2, <1>4, <2>4, <2>5 DEF Listing
  <2>7. q \in flows' /\ q.do = "listScope" /\ \A x \in flows' : x = q \/ ~Decides(x)
    BY <1>2, <2>3
  <2> QED
    BY <2>6, <2>7, AloneListing
<1> QED
  BY <1>1, <1>3, <1>7, <1>8 DEF ScreenInv

\* Lemma: a request that has its reply, but for what the reply says.
LEMMA AnswerFacts ==
  ASSUME ScreenInv, NEW w \in flows, Shaped(w), w.reply = None, NEW r, Answered(w, r), UNCHANGED crossed,
         w.do = "listScope" => "error" \in DOMAIN r
  PROVE  \E q : /\ q.do = w.do /\ q.a = w.a /\ q.next = w.next /\ q.reply = r
                /\ flows' = (flows \ {w}) \cup {q} /\ (\A x \in flows' : Request(x)) /\ Lones'
                /\ \A x \in flows : Written(x) => x \in flows'
<1> DEFINE q == [w EXCEPT !.reply = r]
<1>1. q.do = w.do /\ q.a = w.a /\ q.b = w.b /\ q.next = w.next /\ q.reply = r
      /\ flows' = (flows \ {w}) \cup {q}
  BY ReplyFields DEF Answered
<1> HIDE DEF q
<1>2. Request(q)
  <2>1. Request(w) /\ (Reads(w) <=> Reads(q)) /\ (Deletes(w) <=> Deletes(q))
    BY <1>1 DEF ScreenInv, Reads, Deletes
  <2>2. q.do = "listScope" => Failed(q)
    BY <1>1 DEF Failed
  <2> QED
    BY <1>1, <2>1, <2>2 DEF Request
<1>3. \A x \in flows' : Request(x)
  BY <1>1, <1>2 DEF ScreenInv
<1>4. Lones'
  BY AnsweredOne DEF ScreenInv
<1>5. \A x \in flows : Written(x) => x \in flows'
  BY <1>1 DEF Written
<1> QED
  BY <1>1, <1>3, <1>4, <1>5

\* Lemma: a reply to a request that does not decide what is shown; with ok a
\* change is stored.
LEMMA OtherAnswer ==
  ASSUME ScreenAssumption, ScreenInv, NEW w \in flows, Shaped(w), w.reply = None, ~Decides(w),
         NEW r, Answered(w, r), UNCHANGED <<screen, crossed>>, stale => stale',
         TreeSound', DOMAIN conns' \subseteq Conn, DOMAIN tree \subseteq DOMAIN tree',
         Grows \/ (w.do = "moveFolder" /\ r = [ok |-> TRUE]),
         UNCHANGED <<tree, conns>> \/ (~Reads(w) /\ r = [ok |-> TRUE])
  PROVE  ScreenInv'
<1> DEFINE s == screen.scope
<1>1. PICK q : /\ q.do = w.do /\ q.a = w.a /\ q.next = w.next /\ q.reply = r
               /\ flows' = (flows \ {w}) \cup {q} /\ (\A x \in flows' : Request(x)) /\ Lones'
               /\ \A x \in flows : Written(x) => x \in flows'
  BY AnswerFacts DEF Decides
<1>2. r = [ok |-> TRUE] /\ ~Reads(w) => Written(q)
  BY <1>1 DEF Written, Failed, Reads, ScreenAssumption
<1>3. ~Reads(w) \/ w.do # "moveFolder"
  BY DEF Reads
<1>4. /\ (\A f \in DOMAIN tree : tree'[f].parent = tree[f].parent)
         \/ \E x \in flows' : Written(x) /\ x.do = "moveFolder"
      /\ (tree' = tree /\ conns' = conns) \/ \E x \in flows' : Written(x)
  BY <1>1, <1>2, <1>3 DEF Grows
<1>5. \A x : Decides(x) => (x \in flows <=> x \in flows')
  BY <1>1 DEF Decides, Deletes
<1>6. ASSUME Undisturbed' PROVE Agreeing(tree', conns', flows', s)
  <2>1. Agreeing(tree, conns, flows, s)
    BY <1>6 DEF Undisturbed, ScreenInv
  <2>2. Root \notin DOMAIN tree
    BY DEF ScreenInv, TreeSound, ScreenAssumption
  <2> HIDE DEF s
  <2> QED
    BY <1>1, <1>4, <1>5, <2>1, <2>2, AgreeingStays
<1> QED
  BY <1>1, <1>6 DEF ScreenInv

\* Lemma: the store answers with the folders.
LEMMA ServeFolders ==
  ASSUME ScreenAssumption, ScreenInv, NEW w \in flows, Shaped(w), w.do = "listFolders", Serve(w)
  PROVE  ScreenInv'
<1>1. Reads(w) /\ ~Decides(w) /\ UNCHANGED <<tree, conns, screen, crossed>> /\ w.reply = None
  BY DEF Reads, Serve, Decides, Deletes
<1>2. PICK r : Answered(w, r)
  BY <1>1 DEF Serve
<1>3. stale => stale'
  BY <1>1 DEF Serve
<1>4. TreeSound' /\ Grows /\ DOMAIN conns' \subseteq Conn
  BY <1>1, SameTree DEF ScreenInv
<1> QED
  BY <1>1, <1>2, <1>3, <1>4, OtherAnswer DEF Grows

\* Lemma: the store makes a change that deletes no folder.
LEMMA ServeChange ==
  ASSUME ScreenAssumption, ScreenInv, NEW w \in flows, Shaped(w), ~Reads(w), ~Deletes(w), Serve(w)
  PROVE  ScreenInv'
<1>1. /\ Apply(w) /\ Answered(w, [ok |-> TRUE]) /\ UNCHANGED <<screen, crossed, stale>>
      /\ ~Decides(w) /\ w.reply = None
  BY DEF Serve, Decides, Reads
<1>2. /\ TreeSound' /\ DOMAIN conns' \subseteq Conn /\ DOMAIN tree \subseteq DOMAIN tree'
      /\ w.do # "moveFolder" => Grows
  BY <1>1, ApplyChange DEF ScreenInv
<1> QED
  BY <1>1, <1>2, OtherAnswer

\* Lemma: the store deletes a folder.
LEMMA ServeDeletion ==
  ASSUME ScreenAssumption, ScreenInv, NEW w \in flows, Shaped(w), Deletes(w), Serve(w)
  PROVE  ScreenInv'
<1> DEFINE s == screen.scope
<1>1. /\ Apply(w) /\ Answered(w, [ok |-> TRUE]) /\ UNCHANGED <<screen, crossed, stale>>
      /\ Decides(w) /\ ~Reads(w) /\ w.reply = None /\ ~Written(w) /\ w.do # "listScope"
  BY DEF Serve, Decides, Reads, Deletes, Written
<1>2. PICK q : /\ q.do = w.do /\ q.a = w.a /\ q.next = w.next /\ q.reply = [ok |-> TRUE]
               /\ flows' = (flows \ {w}) \cup {q} /\ (\A x \in flows' : Request(x)) /\ Lones'
  BY <1>1, AnswerFacts
<1>3. /\ TreeSound' /\ DOMAIN conns' \subseteq Conn /\ w.a \in DOMAIN tree
      /\ \A p \in Places : w.a \notin Above(tree, p) => p \in Places'
  BY <1>1, ApplyDeletion DEF ScreenInv
<1>4. ASSUME Undisturbed' PROVE Agreeing(tree', conns', flows', s)
  <2>1. Undisturbed /\ Agreeing(tree, conns, flows, s) /\ TreeSound
    BY <1>1, <1>4 DEF Undisturbed, ScreenInv
  <2>2. (\A x \in flows : x = w \/ ~Decides(x)) /\ Lone(flows, Deciding["tree"])
    BY <1>1, <2>1, OneDecides DEF ScreenInv
  <2>3. Fits(tree, conns, flows, s) /\ Near(tree, s) /\ Deletion(tree, s, w)
    <3> HIDE DEF s
    <3> QED
      BY <1>1, <2>1, <2>2, DeletionFits
  <2>4. /\ Known(tree, s) /\ w.a \in s.subs \cup ({s.folder} \ {Root})
        /\ w.next = IF w.a = s.folder THEN s.up ELSE "current"
    BY <1>1, <2>3 DEF Fits, Deletion
  <2> HIDE DEF s
  <2>5. Target(s, w) \in Places /\ w.a \notin Above(tree, Target(s, w))
    BY <1>3, <2>1, <2>3, <2>4, TargetStays
  <2>6. Target(s, q) \in Places'
    BY <1>2, <1>3, <2>5 DEF Target
  <2>7. Written(q) /\ Deletes(q)
    BY <1>1, <1>2 DEF Written, Failed, Reads, Deletes, ScreenAssumption
  <2>8. Deletion(tree', s, q)
    BY <2>6, <2>7 DEF Deletion, Places
  <2>9. q \in flows' /\ \A x \in flows' : x = q \/ ~Decides(x)
    BY <1>2, <2>2
  <2> QED
    BY <2>7, <2>8, <2>9, AloneDeletion
<1> QED
  BY <1>1, <1>2, <1>3, <1>4 DEF ScreenInv

\* Lemma: a request fails; whether it took effect or not, a list that could not
\* be had or a change that is not known of leaves nothing promised.
LEMMA FailStep ==
  ASSUME ScreenAssumption, ScreenInv, NEW w \in flows, Shaped(w), Fails(w)
  PROVE  ScreenInv'
<1> DEFINE s == screen.scope
           r == [error |-> 500]
<1>1. /\ Answered(w, r) /\ UNCHANGED <<screen, crossed>> /\ w.reply = None /\ ~Written(w)
      /\ \/ UNCHANGED <<tree, conns>> /\ stale' = (stale \/ Reads(w))
         \/ ~Reads(w) /\ Apply(w) /\ stale' = TRUE
  BY DEF Fails, Written
<1>2. "error" \in DOMAIN r
  OBVIOUS
<1>3. PICK q : /\ q.do = w.do /\ q.a = w.a /\ q.next = w.next /\ q.reply = r
               /\ flows' = (flows \ {w}) \cup {q} /\ (\A x \in flows' : Request(x)) /\ Lones'
               /\ \A x \in flows : Written(x) => x \in flows'
  <2> HIDE DEF r
  <2> QED
    BY <1>1, <1>2, AnswerFacts
<1>4. CASE ~Reads(w) /\ Apply(w) /\ stale' = TRUE
  <2>1. TreeSound' /\ DOMAIN conns' \subseteq Conn
    BY <1>4, ApplyChange, ApplyDeletion DEF ScreenInv
  <2> QED
    BY <1>3, <1>4, <2>1, StaleStep
<1>5. CASE UNCHANGED <<tree, conns>> /\ stale' = (stale \/ Reads(w))
  <2>1. TreeSound' /\ Grows /\ DOMAIN conns' \subseteq Conn
    BY <1>5, SameTree DEF ScreenInv
  <2>2. CASE Reads(w)
    BY <1>3, <1>5, <2>1, <2>2, StaleStep
  <2>3. CASE ~Reads(w) /\ ~Deletes(w)
    <3>1. ~Decides(w) /\ (stale => stale')
      BY <1>5, <2>3 DEF Decides, Reads
    <3> HIDE DEF r
    <3> QED
      BY <1>1, <1>5, <2>1, <3>1, OtherAnswer DEF Grows
  <2>4. CASE ~Reads(w) /\ Deletes(w)
    <3>1. ASSUME Undisturbed' PROVE Agreeing(tree, conns, flows', s)
      <4>1. Undisturbed /\ Agreeing(tree, conns, flows, s)
        BY <1>1, <1>5, <3>1 DEF Undisturbed, ScreenInv
      <4>2. (\A x \in flows : x = w \/ ~Decides(x)) /\ Lone(flows, Deciding["tree"])
        BY <2>4, <4>1, OneDecides DEF ScreenInv, Decides
      <4> HIDE DEF s
      <4>3. Fits(tree, conns, flows, s) /\ Deletion(tree, s, w)
        BY <1>1, <2>4, <4>1, <4>2, DeletionFits
      <4>4. Fits(tree, conns, flows', s)
        BY <1>3, <4>3, FitsStays DEF ScreenInv, TreeSound, ScreenAssumption
      <4>5. ~Written(q) /\ Deletes(q) /\ Deletion(tree, s, q)
        BY <1>1, <1>2, <1>3, <2>4, <4>3 DEF Written, Failed, Deletes, Deletion
      <4>6. q \in flows' /\ \A x \in flows' : x = q \/ ~Decides(x)
        BY <1>3, <4>2
      <4> QED
        BY <4>4, <4>5, <4>6, AloneDeletion
    <3> QED
      BY <1>1, <1>3, <1>5, <2>1, <3>1 DEF ScreenInv
  <2> QED
    BY <2>2, <2>3, <2>4
<1> QED
  BY <1>1, <1>4, <1>5

\* Lemma: a reply is handled that neither stores a change nor brings a list.
LEMMA DropStep ==
  ASSUME ScreenAssumption, ScreenInv, NEW w \in flows, ~Written(w), w.do # "listScope",
         flows' = flows \ {w}, UNCHANGED <<tree, conns, screen, crossed, stale>>
  PROVE  ScreenInv'
<1> DEFINE s == screen.scope
<1>1. /\ TreeSound' /\ DOMAIN conns' \subseteq Conn /\ (\A x \in flows' : Request(x))
      /\ Root \notin DOMAIN tree
  BY DEF ScreenInv, TreeSound, ScreenAssumption
<1>2. Lones'
  BY FewerLones DEF ScreenInv
<1>3. \A x \in flows : Written(x) => x \in flows'
  OBVIOUS
<1>4. ASSUME Undisturbed' PROVE Agreeing(tree, conns, flows', s)
  <2>1. Undisturbed /\ Agreeing(tree, conns, flows, s)
    BY <1>4 DEF Undisturbed, ScreenInv
  <2>2. CASE ~Decides(w)
    <3>1. \A x : Decides(x) => (x \in flows <=> x \in flows')
      BY <2>2
    <3> HIDE DEF s
    <3> QED
      BY <1>1, <1>3, <2>1, <3>1, AgreeingStays
  <2>3. CASE Decides(w)
    <3> HIDE DEF s
    <3>1. (\A x \in flows : x = w \/ ~Decides(x)) /\ Lone(flows, Deciding["tree"])
      BY <2>1, <2>3, OneDecides DEF ScreenInv
    <3>2. Fits(tree, conns, flows, s)
      BY <2>1, <2>3, <3>1, DeletionFits DEF Decides
    <3>3. Fits(tree, conns, flows', s)
      BY <1>1, <1>3, <3>2, FitsStays
    <3>4. \A x \in flows' : ~Decides(x)
      BY <3>1
    <3> QED
      BY <3>3, <3>4, NoneDecides
  <2> QED
    BY <2>2, <2>3
<1> QED
  BY <1>1, <1>2, <1>4 DEF ScreenInv

\* Lemma: showConnections has its list.
LEMMA ListStep ==
  ASSUME ScreenAssumption, ScreenInv, NEW w \in flows, w.reply # None, ScopeArrives(w),
         UNCHANGED <<tree, conns, stale>>
  PROVE  ScreenInv'
<1>1. /\ ~Failed(w) /\ w.do = "listScope" /\ flows' = flows \ {w} /\ UNCHANGED crossed
      /\ screen'.scope = w.reply.scope /\ ~Written(w) /\ Decides(w)
  BY DEF ScopeArrives, Replaced, Written, Reads, Decides
<1>2. /\ TreeSound' /\ DOMAIN conns' \subseteq Conn /\ (\A x \in flows' : Request(x))
      /\ Root \notin DOMAIN tree
  BY <1>1 DEF ScreenInv, TreeSound, ScreenAssumption
<1>3. Lones'
  BY <1>1, FewerLones DEF ScreenInv
<1>4. ASSUME Undisturbed' PROVE Agreeing(tree, conns, flows', w.reply.scope)
  <2>1. Undisturbed /\ Agreeing(tree, conns, flows, screen.scope)
    BY <1>1, <1>4 DEF Undisturbed, ScreenInv
  <2>2. \A x \in flows' : ~Decides(x)
    BY <1>1, <2>1, OneDecides DEF ScreenInv
  <2>3. Fits(tree, conns, flows, w.reply.scope)
    BY <1>1, <2>1 DEF Agreeing, Listing
  <2>4. \A x \in flows : Written(x) => x \in flows'
    BY <1>1
  <2>5. Fits(tree, conns, flows', w.reply.scope)
    BY <1>2, <2>3, <2>4, FitsStays
  <2> QED
    BY <2>2, <2>5, NoneDecides
<1> QED
  BY <1>1, <1>2, <1>3, <1>4 DEF ScreenInv

\* Lemma: a change is stored, and the list is asked for again.
LEMMA AgainStep ==
  ASSUME ScreenAssumption, ScreenInv, NEW w \in flows, w.reply # None, WriteDone(w),
         screen'.scope = screen.scope, UNCHANGED <<tree, conns, stale>>
  PROVE  ScreenInv'
<1> DEFINE s == screen.scope
           x == Lists(Target(s, w))
<1>1. Written(w) /\ Send(x, flows \ {w})
  BY DEF WriteDone, Written, Target
<1>2. x.do = "listScope" /\ x.a = Target(s, w) /\ x.next = None /\ x.reply = None
  BY FlowFields DEF Lists
<1> HIDE DEF x
<1>3. TreeSound' /\ DOMAIN conns' \subseteq Conn /\ flows' = (flows \ {w}) \cup {x}
  BY <1>1 DEF ScreenInv, TreeSound, Send
<1>4. Request(x)
  BY <1>2 DEF Request, Reads, Deletes
<1>5. \A y \in flows' : Request(y)
  BY <1>3, <1>4 DEF ScreenInv
<1>6. /\ Lones' /\ crossed \subseteq crossed'
      /\ "screen" \notin crossed' /\ Decides(x) => \A y \in flows \ {w} : ~Decides(y)
  BY <1>1, SentOne DEF ScreenInv
<1>7. ASSUME Undisturbed' PROVE Agreeing(tree, conns, flows', s)
  <2>1. Undisturbed /\ Agreeing(tree, conns, flows, s) /\ \A y \in flows \ {w} : ~Decides(y)
    BY <1>2, <1>6, <1>7 DEF Undisturbed, ScreenInv, Decides
  <2>2. CASE Deletes(w)
    <3>1. x.a \in DOMAIN tree \cup {Root}
      BY <1>1, <1>2, <2>1, <2>2 DEF Agreeing, Deletion
    <3> QED
      BY <1>2, <1>3, <2>1, <3>1, AloneListing DEF Listing
  <2>3. CASE ~Deletes(w)
    <3>1. ~Decides(w) /\ w.next \in {"dialog", "current"}
      BY <1>1, <2>3 DEF ScreenInv, Request, Written, Decides, Reads
    <3>2. x.a = s.folder
      BY <1>2, <3>1 DEF Target
    <3> HIDE DEF s
    <3>3. Fits(tree, conns, flows, s)
      BY <2>1, <3>1, SteadyFits
    <3>4. x.a \in DOMAIN tree \cup {Root}
      BY <3>2, <3>3 DEF Fits, Known
    <3> QED
      BY <1>2, <1>3, <2>1, <3>4, AloneListing DEF Listing
  <2> QED
    BY <2>2, <2>3
<1> QED
  BY <1>3, <1>5, <1>6, <1>7 DEF ScreenInv

\* Lemma: a reply is handled.
LEMMA HandleStep ==
  ASSUME ScreenAssumption, ScreenInv, ScreenShape, NEW w \in flows, Handle(w)
  PROVE  ScreenInv'
<1>1. w.reply # None /\ UNCHANGED <<tree, conns, stale>>
  BY DEF Handle
<1>2. CASE ReplyFails(w)
  <2>1. Failed(w) /\ ~Written(w) /\ flows' = flows \ {w} /\ UNCHANGED <<screen, crossed>>
    BY <1>2 DEF ReplyFails, Written
  <2>2. CASE w.do # "listScope"
    BY <1>1, <2>1, <2>2, DropStep
  <2>3. CASE w.do = "listScope"
    <3>1. ~Undisturbed
      BY <1>1, <2>1, <2>3 DEF ScreenInv, Agreeing, Listing
    <3>2. TreeSound' /\ DOMAIN conns' \subseteq Conn /\ (\A x \in flows' : Request(x)) /\ ~Undisturbed'
      BY <1>1, <2>1, <3>1 DEF ScreenInv, TreeSound, Undisturbed
    <3>3. Lones'
      BY <2>1, FewerLones DEF ScreenInv
    <3> QED
      BY <3>2, <3>3 DEF ScreenInv
  <2> QED
    BY <2>2, <2>3
<1>3. CASE ScopeArrives(w)
  BY <1>1, <1>3, ListStep
<1>4. CASE FoldersArrive(w)
  <2>1. ~Written(w) /\ w.do # "listScope" /\ flows' = flows \ {w} /\ UNCHANGED <<screen, crossed>>
    BY <1>4 DEF FoldersArrive, Written, Reads
  <2> QED
    BY <1>1, <2>1, DropStep
<1>5. CASE WriteDone(w)
  <2> DEFINE sel == IF w.next = "dialog" \/ w.do = "moveConnections" THEN {}
                    ELSE IF w.do = "deleteConnection" THEN screen.sel \ {w.a} ELSE screen.sel
  <2>1. screen' = [screen EXCEPT !.sel = sel]
    BY <1>5 DEF WriteDone
  <2> HIDE DEF sel
  <2>2. screen'.scope = screen.scope
    BY <2>1, ScreenEdit
  <2> QED
    BY <1>1, <1>5, <2>2, AgainStep
<1> QED
  BY <1>2, <1>3, <1>4, <1>5 DEF Handle

\* Lemma: a click sends a request and nothing else.
LEMMA ClickStep ==
  ASSUME ScreenAssumption, ScreenInv, NEW w, Request(w), w.reply = None, Click(w),
         ASSUME Fits(tree, conns, flows, screen.scope)
         PROVE  /\ w.do = "listScope" => w.a \in Places
                /\ Deletes(w) => Deletion(tree, screen.scope, w)
  PROVE  ScreenInv'
<1>1. Send(w, flows) /\ UNCHANGED <<tree, conns, stale>> /\ screen'.scope = screen.scope
  BY DEF Click
<1> QED
  BY <1>1, SendStep

\* Lemma: a click that asks for no list and deletes no folder.
LEMMA OtherClickStep ==
  ASSUME ScreenAssumption, ScreenInv, NEW do, NEW a, NEW b, NEW next, Click(Flow(do, a, b, next)),
         \/ do = "listFolders" /\ next = None
         \/ /\ do \in {"moveConnections", "moveFolder", "deleteConnection", "createFolder",
                       "renameFolder", "createConnection"}
            /\ next = "current",
         do = "createFolder" => a \in Folder /\ b.name \in Name,
         do = "renameFolder" => b \in Name,
         do = "createConnection" => a \in Conn
  PROVE  ScreenInv'
<1> DEFINE w == Flow(do, a, b, next)
<1>1. w.do = do /\ w.a = a /\ w.b = b /\ w.next = next /\ w.reply = None /\ Click(w)
  BY FlowFields
<1> HIDE DEF w
<1>2. Request(w) /\ w.do # "listScope" /\ ~Deletes(w)
  BY <1>1 DEF Request, Reads, Deletes
<1> QED
  BY <1>1, <1>2, ClickStep

\* Lemma: a folder is opened.
LEMMA OpenStep ==
  ASSUME ScreenAssumption, ScreenInv, NEW f, Open(f)
  PROVE  ScreenInv'
<1> DEFINE w == Lists(f)
<1>1. /\ w.do = "listScope" /\ w.a = f /\ w.next = None /\ w.reply = None /\ Click(w)
      /\ f \in screen.scope.subs \cup screen.scope.path
  BY FlowFields DEF Lists, Open, Links
<1> HIDE DEF w
<1>2. Request(w) /\ ~Deletes(w)
  BY <1>1 DEF Request, Reads, Deletes
<1>3. Fits(tree, conns, flows, screen.scope) => w.a \in Places
  BY <1>1 DEF Fits, Known, Places
<1> QED
  BY <1>1, <1>2, <1>3, ClickStep

\* Lemma: a folder is deleted.
LEMMA DeleteStep ==
  ASSUME ScreenAssumption, ScreenInv, NEW f, NEW choice \in {"promote", "recursive"},
         DeleteFolderFromUi(f, choice)
  PROVE  ScreenInv'
<1> DEFINE w == Flow(choice, f, None, IF f = screen.scope.folder THEN screen.scope.up ELSE "current")
<1>1. /\ w.do = choice /\ w.a = f /\ w.reply = None /\ Click(w)
      /\ w.next = IF f = screen.scope.folder THEN screen.scope.up ELSE "current"
      /\ f \in screen.scope.subs \cup ({screen.scope.folder} \ {Root})
  BY FlowFields DEF DeleteFolderFromUi
<1> HIDE DEF w
<1>2. Request(w) /\ w.do # "listScope" /\ ~Written(w)
  BY <1>1 DEF Request, Reads, Deletes, Written
<1>3. Deletion(tree, screen.scope, w)
  BY <1>1, <1>2 DEF Deletion
<1> QED
  BY <1>1, <1>2, <1>3, ClickStep

\* Lemma: the dialog is confirmed.
LEMMA MoveStep ==
  ASSUME ScreenAssumption, ScreenInv, DialogInv, NEW to, Confirm(to)
  PROVE  ScreenInv'
<1> DEFINE w == Flow(dialog.intent.do, dialog.intent.a, to, "dialog")
<1>1. /\ w.do = dialog.intent.do /\ w.next = "dialog" /\ w.reply = None /\ Send(w, flows)
      /\ UNCHANGED <<tree, conns, stale, screen>> /\ dialog.intent # None
  BY FlowFields DEF Confirm
<1> HIDE DEF w
<1>2. w.do \in {"moveConnections", "moveFolder"}
  BY <1>1 DEF DialogInv, Movable
<1>3. Request(w) /\ w.do # "listScope" /\ ~Deletes(w)
  BY <1>1, <1>2 DEF Request, Reads, Deletes
<1> QED
  BY <1>1, <1>3, SendStep

\* Lemma: another tab changes the store.
LEMMA OtherTabStep ==
  ASSUME ScreenAssumption, ScreenInv, OtherTab
  PROVE  ScreenInv'
<1>1. Filing /\ stale' /\ UNCHANGED <<flows, crossed>>
  BY DEF OtherTab, uiVars
<1>2. TreeSound' /\ DOMAIN conns' \subseteq Conn
  BY <1>1, FilingSound DEF ScreenInv
<1>3. (\A w \in flows' : Request(w)) /\ Lones'
  BY <1>1 DEF ScreenInv, Lones, Deciding
<1> QED
  BY <1>1, <1>2, <1>3, StaleStep

\* Lemma: every step keeps the invariant of the list.
LEMMA ScreenStep ==
  ASSUME ScreenAssumption, ScreenInv, SelectionInv, DialogInv, [ScreenNext]_vars
  PROVE  ScreenInv'
<1>1. CASE UNCHANGED vars
  BY <1>1, QuietStep DEF vars, uiVars
<1>2. ASSUME NEW f, Open(f) PROVE ScreenInv'
  BY <1>2, OpenStep
<1>3. ASSUME NEW sel, screen' = [screen EXCEPT !.sel = sel],
             UNCHANGED <<tree, conns, flows, crossed, stale>>
      PROVE  ScreenInv'
  BY <1>3, ScreenEdit, QuietStep DEF SelectionInv
<1>4. ASSUME NEW c, Toggle(c) PROVE ScreenInv'
  BY <1>3, <1>4 DEF Toggle
<1>5. ASSUME NEW c, DeleteConnectionFromUi(c) PROVE ScreenInv'
  BY <1>5, OtherClickStep DEF DeleteConnectionFromUi
<1>6. ASSUME NEW c \in Conn, SaveNewConnection(c) PROVE ScreenInv'
  BY <1>6, OtherClickStep DEF SaveNewConnection
<1>7. CASE SelectAll \/ ClearSelection
  BY <1>3, <1>7 DEF SelectAll, ClearSelection
<1>8. ASSUME NEW c, NEW to, DropConnection(c, to) PROVE ScreenInv'
  BY <1>8, OtherClickStep DEF DropConnection
<1>9. ASSUME NEW f, NEW to, DropFolder(f, to) PROVE ScreenInv'
  BY <1>9, OtherClickStep DEF DropFolder
<1>10. ASSUME NEW to, Confirm(to) PROVE ScreenInv'
  BY <1>10, MoveStep
<1>11. ASSUME NEW f \in Folder, NEW n \in Name, SaveNewFolder(f, n) PROVE ScreenInv'
  <2>1. [parent |-> screen.scope.folder, name |-> n].name \in Name
    OBVIOUS
  <2> QED
    BY <1>11, <2>1, OtherClickStep DEF SaveNewFolder
<1>12. ASSUME NEW f, NEW n \in Name, SaveFolderName(f, n) PROVE ScreenInv'
  BY <1>12, OtherClickStep DEF SaveFolderName
<1>13. ASSUME NEW f, NEW choice \in {"promote", "recursive"}, DeleteFolderFromUi(f, choice)
       PROVE  ScreenInv'
  BY <1>13, DeleteStep
<1>14. ASSUME NEW intent, OpenMoveDialog(intent) PROVE ScreenInv'
  BY <1>14, OtherClickStep DEF OpenMoveDialog
<1>15. CASE Cancel
  BY <1>15, QuietStep DEF Cancel
<1>16. ASSUME NEW w \in flows, Serve(w) PROVE ScreenInv'
  <2>1. Shaped(w) /\ w.reply = None
    BY <1>16 DEF DialogInv, Serve
  <2>2. CASE w.do = "listScope"
    BY <1>16, <2>1, <2>2, ServeList
  <2>3. CASE w.do = "listFolders"
    BY <1>16, <2>1, <2>3, ServeFolders
  <2>4. CASE Deletes(w)
    BY <1>16, <2>1, <2>4, ServeDeletion
  <2>5. CASE ~Reads(w) /\ ~Deletes(w)
    BY <1>16, <2>1, <2>5, ServeChange
  <2> QED
    BY <2>2, <2>3, <2>4, <2>5 DEF Reads
<1>17. ASSUME NEW w \in flows, Fails(w) PROVE ScreenInv'
  BY <1>17, FailStep DEF DialogInv
<1>18. ASSUME NEW w \in flows, Handle(w) PROVE ScreenInv'
  BY <1>18, HandleStep DEF SelectionInv
<1>19. CASE OtherTab
  BY <1>19, OtherTabStep
<1> QED
  BY <1>1, <1>2, <1>4, <1>5, <1>6, <1>7, <1>8, <1>9, <1>10, <1>11, <1>12, <1>13, <1>14, <1>15, <1>16,
     <1>17, <1>18, <1>19 DEF ScreenNext

\* Lemma: the page starts with the list of the first level.
LEMMA ScreenStart ==
  ASSUME ScreenAssumption, ScreenInit
  PROVE  ScreenInv
<1>1. PICK S \in SUBSET Folder : tree \in [S -> [parent : S \cup {Root}, name : Name]]
  BY DEF ScreenInit
<1>2. PICK C \in SUBSET Conn :
        conns \in [C -> [folder : DOMAIN tree \cup {Root}, auth : AuthType, secret : {TRUE}, pin : {FALSE}]]
  BY DEF ScreenInit
<1>3. DOMAIN conns \subseteq Conn
  BY <1>2
<1>4. TreeSound
  BY <1>1 DEF TreeSound, ScreenInit, Init
<1>5. flows = {} /\ screen.scope = Scope(Root)
  BY DEF ScreenInit
<1>6. Lones
  BY <1>5 DEF Lones, Lone
<1>7. Fits(tree, conns, flows, screen.scope)
  BY <1>4, <1>5, ScopeFits DEF Places
<1>8. Agreeing(tree, conns, flows, screen.scope)
  BY <1>5, <1>7, NoneDecides
<1> QED
  BY <1>3, <1>4, <1>5, <1>6, <1>8 DEF ScreenInv

\* Theorem: the inductive invariant of the screen: the folders are a tree, one
\* request at a time decides what is shown, its answer will be right and so is
\* the list without it, but for changes that are stored and not listed yet.
THEOREM ScreenInvariance == ScreenSpec => [](SelectionInv /\ DialogInv /\ ScreenInv)
<1> USE ScreenAssumption
<1>1. ScreenInit => SelectionInv /\ DialogInv /\ ScreenInv
  <2> SUFFICES ASSUME ScreenInit PROVE SelectionInv /\ DialogInv /\ ScreenInv
    OBVIOUS
  <2>1. SelectionInv
    BY DEF ScreenInit, SelectionInv, ScreenShape, NoGhostSelection
  <2>2. DialogInv
    BY DEF ScreenInit, Closed, DialogInv, DialogShape, Movable, Waiting, Asking, DialogMovesItsTitle
  <2> QED
    BY <2>1, <2>2, ScreenStart
<1>2. SelectionInv /\ DialogInv /\ ScreenInv /\ [ScreenNext]_vars
        => (SelectionInv /\ DialogInv /\ ScreenInv)'
  BY SelectionStep, DialogStep, ScreenStep
<1> QED
  BY <1>1, <1>2, PTL DEF ScreenSpec

\* Theorem: when everything is answered the screen shows a folder that exists
\* and exactly its contents, unless another tab, a failed request or two
\* requests of a kind at once came in between.
THEOREM ShownScopeAgrees == ScreenSpec => []ScreenAgrees
<1>1. ASSUME ScreenInv PROVE ScreenAgrees
  <2> SUFFICES ASSUME flows = {}, ~stale, crossed \cap {"screen", "tree"} = {}
               PROVE  screen.scope.folder \in Places /\ screen.scope = Scope(screen.scope.folder)
    BY DEF ScreenAgrees
  <2>1. Agreeing(tree, conns, flows, screen.scope) /\ Steady(flows)
    BY <1>1 DEF ScreenInv, Undisturbed, Steady
  <2>2. screen.scope.folder \in Places /\ screen.scope = ScopeOf(tree, conns, screen.scope.folder)
    BY <2>1 DEF Agreeing, Fits, Known, Places
  <2> QED
    BY <2>2 DEF Scope, ScopeOf, Up, ConnsOf, Kids
<1> QED
  BY <1>1, ScreenInvariance, PTL

-----------------------------------------------------------------------------
(* Types.                                                                  *)

\* A dialog that waits for its change has it in flight.
Saving(d, F) ==
  d.open \in BOOLEAN /\ d.saving \in BOOLEAN /\ (d.saving => \E w \in F : w.next = "dialog")

\* Lemma: the dialog through a step.
LEMMA SavingStep ==
  ASSUME ScreenAssumption, ScreenInv, DialogInv, Saving(dialog, flows), [ScreenNext]_vars
  PROVE  Saving(dialog', flows')
<1>0. DialogShape /\ (\A w \in flows : Shaped(w))
  BY DEF DialogInv
<1>1. ASSUME UNCHANGED dialog, flows \subseteq flows' PROVE Saving(dialog', flows')
  BY <1>1 DEF Saving
<1>2. ASSUME NEW w, Click(w), UNCHANGED dialog PROVE Saving(dialog', flows')
  BY <1>1, <1>2 DEF Click, Send
<1>3. ASSUME NEW i, dialog' = [dialog EXCEPT !.intent = i]
      PROVE  dialog'.open = dialog.open /\ dialog'.saving = dialog.saving
  BY <1>0, <1>3 DEF DialogShape
<1>4. ASSUME NEW intent, OpenMoveDialog(intent) PROVE Saving(dialog', flows')
  <2>1. dialog' = [dialog EXCEPT !.intent = intent] /\ flows \subseteq flows'
    BY <1>4 DEF OpenMoveDialog, Click, Send
  <2> QED
    BY <1>3, <2>1 DEF Saving
<1>5. ASSUME NEW to, Confirm(to) PROVE Saving(dialog', flows')
  <2> DEFINE w == Flow(dialog.intent.do, dialog.intent.a, to, "dialog")
  <2>1. w.next = "dialog" /\ flows' = flows \cup {w} /\ dialog' = [dialog EXCEPT !.saving = TRUE]
    BY <1>5, FlowFields DEF Confirm, Send
  <2> HIDE DEF w
  <2>2. dialog'.open = dialog.open /\ dialog'.saving = TRUE
    BY <1>0, <2>1 DEF DialogShape
  <2> QED
    BY <2>1, <2>2 DEF Saving
<1>6. CASE Cancel
  <2>1. dialog' = [dialog EXCEPT !.intent = None, !.open = FALSE] /\ UNCHANGED flows
    BY <1>6 DEF Cancel
  <2>2. dialog'.open = FALSE /\ dialog'.saving = dialog.saving
    BY <1>0, <2>1 DEF DialogShape
  <2> QED
    BY <2>1, <2>2 DEF Saving
<1>7. ASSUME NEW w \in flows, NEW r, Answered(w, r), UNCHANGED dialog PROVE Saving(dialog', flows')
  <2> DEFINE q == [w EXCEPT !.reply = r]
  <2>1. q.next = w.next /\ flows' = (flows \ {w}) \cup {q}
    BY <1>0, <1>7, ReplyFields DEF Answered
  <2> HIDE DEF q
  <2> QED
    BY <1>7, <2>1 DEF Saving
<1>8. ASSUME NEW w \in flows, Serve(w) \/ Fails(w) PROVE Saving(dialog', flows')
  <2>1. (\E r : Answered(w, r)) /\ UNCHANGED dialog
    BY <1>8 DEF Serve, Fails
  <2> QED
    BY <1>7, <2>1
<1>9. ASSUME NEW w \in flows, Handle(w) PROVE Saving(dialog', flows')
  <2>1. flows \ {w} \subseteq flows'
    BY <1>9 DEF Handle, ReplyFails, ScopeArrives, FoldersArrive, WriteDone, Send
  <2>2. ASSUME w.next # "dialog", dialog'.open \in BOOLEAN, dialog'.saving = dialog.saving
        PROVE  Saving(dialog', flows')
    BY <2>1, <2>2 DEF Saving
  <2>3. Reads(w) => w.next # "dialog"
    BY DEF ScreenInv, Request, ScreenAssumption
  <2>4. CASE ReplyFails(w)
    <3>1. CASE w.do = "listFolders" /\ dialog' = [dialog EXCEPT !.intent = None]
      BY <1>3, <2>2, <2>3, <3>1 DEF Reads, Saving
    <3>2. CASE dialog' = [dialog EXCEPT !.saving = FALSE]
      <4>1. dialog'.open = dialog.open /\ dialog'.saving = FALSE
        BY <1>0, <3>2 DEF DialogShape
      <4> QED
        BY <4>1 DEF Saving
    <3>3. CASE w.next # "dialog" /\ UNCHANGED dialog
      BY <2>2, <3>3 DEF Saving
    <3> QED
      BY <2>4, <3>1, <3>2, <3>3 DEF ReplyFails
  <2>5. CASE ScopeArrives(w)
    BY <2>2, <2>3, <2>5 DEF ScopeArrives, Reads, Saving
  <2>6. CASE FoldersArrive(w)
    <3>1. dialog' = [dialog EXCEPT !.open = TRUE, !.title = w.a, !.targets = w.reply.targets]
          /\ Reads(w)
      BY <2>6 DEF FoldersArrive, Reads
    <3>2. dialog'.open = TRUE /\ dialog'.saving = dialog.saving
      BY <1>0, <3>1 DEF DialogShape
    <3> QED
      BY <2>2, <2>3, <3>1, <3>2
  <2>7. CASE WriteDone(w)
    <3>1. CASE w.next = "dialog"
      BY <2>7, <3>1 DEF WriteDone, Closed, Saving
    <3>2. CASE w.next # "dialog"
      BY <2>2, <2>7, <3>2 DEF WriteDone, Saving
    <3> QED
      BY <3>1, <3>2
  <2> QED
    BY <1>9, <2>4, <2>5, <2>6, <2>7 DEF Handle
<1>10. CASE OtherTab \/ UNCHANGED vars \/ SelectAll \/ ClearSelection \/ \E c \in Conn : Toggle(c)
  BY <1>1, <1>10 DEF OtherTab, uiVars, vars, SelectAll, ClearSelection, Toggle
<1>11. ASSUME NEW f, NEW c, NEW to, NEW n, NEW choice,
              \/ Open(f) \/ DeleteConnectionFromUi(c) \/ SaveNewConnection(c) \/ DropConnection(c, to)
              \/ DropFolder(f, to) \/ SaveNewFolder(f, n) \/ SaveFolderName(f, n)
              \/ DeleteFolderFromUi(f, choice)
       PROVE  Saving(dialog', flows')
  BY <1>2, <1>11 DEF Open, DeleteConnectionFromUi, SaveNewConnection, DropConnection, DropFolder,
     SaveNewFolder, SaveFolderName, DeleteFolderFromUi
<1> QED
  BY <1>4, <1>5, <1>6, <1>8, <1>9, <1>10, <1>11 DEF ScreenNext

Listed == screen.scope.conns \subseteq Conn /\ screen.scope.subs \subseteq Folder
Counted == clicks \in 0 .. MaxClicks /\ foreign \in 0 .. MaxForeign

\* Lemma: the list and the bounds through a step.
LEMMA ListedStep ==
  ASSUME ScreenAssumption, ScreenInv, SelectionInv, Listed, Counted, [ScreenNext]_vars
  PROVE  Listed' /\ Counted'
<1>1. ASSUME screen'.scope = screen.scope, UNCHANGED <<clicks, foreign>> PROVE Listed' /\ Counted'
  BY <1>1 DEF Listed, Counted
<1>2. ASSUME NEW w, Click(w) PROVE Listed' /\ Counted'
  BY <1>2 DEF Click, Listed, Counted, ScreenAssumption
<1>3. ASSUME NEW sel, screen' = [screen EXCEPT !.sel = sel], UNCHANGED <<clicks, foreign>>
      PROVE  Listed' /\ Counted'
  BY <1>1, <1>3, ScreenEdit DEF SelectionInv
<1>4. CASE UNCHANGED vars \/ Cancel \/ \E to \in Folder \cup {Root} : Confirm(to)
  BY <1>1, <1>4 DEF vars, uiVars, Cancel, Confirm
<1>5. CASE SelectAll \/ ClearSelection \/ \E c \in Conn : Toggle(c)
  BY <1>3, <1>5 DEF SelectAll, ClearSelection, Toggle
<1>6. CASE OtherTab
  BY <1>6 DEF OtherTab, uiVars, Listed, Counted, ScreenAssumption
<1>7. ASSUME NEW w \in flows, Serve(w) \/ Fails(w) PROVE Listed' /\ Counted'
  BY <1>1, <1>7 DEF Serve, Fails
<1>8. ASSUME NEW w \in flows, Handle(w) PROVE Listed' /\ Counted'
  <2>1. UNCHANGED <<clicks, foreign>> /\ w.reply # None
    BY <1>8 DEF Handle
  <2>2. CASE ReplyFails(w) \/ FoldersArrive(w)
    BY <1>1, <2>1, <2>2 DEF ReplyFails, FoldersArrive
  <2>3. CASE WriteDone(w)
    BY <1>3, <2>1, <2>3 DEF WriteDone
  <2>4. CASE ScopeArrives(w)
    <3>1. screen'.scope = w.reply.scope /\ w.do = "listScope" /\ ~Failed(w)
      BY <2>4 DEF ScopeArrives, Replaced
    <3>2. w.reply.scope.conns \subseteq Conn /\ w.reply.scope.subs \subseteq Folder
      BY <2>1, <3>1 DEF ScreenInv, Request
    <3> QED
      BY <2>1, <3>1, <3>2 DEF Listed, Counted
  <2> QED
    BY <1>8, <2>2, <2>3, <2>4 DEF Handle
<1>9. ASSUME NEW f, NEW c, NEW to, NEW n, NEW choice, NEW intent,
             \/ Open(f) \/ DeleteConnectionFromUi(c) \/ SaveNewConnection(c) \/ DropConnection(c, to)
             \/ DropFolder(f, to) \/ SaveNewFolder(f, n) \/ SaveFolderName(f, n)
             \/ DeleteFolderFromUi(f, choice) \/ OpenMoveDialog(intent)
      PROVE  Listed' /\ Counted'
  BY <1>2, <1>9 DEF Open, DeleteConnectionFromUi, SaveNewConnection, DropConnection, DropFolder,
     SaveNewFolder, SaveFolderName, DeleteFolderFromUi, OpenMoveDialog
<1> QED
  BY <1>4, <1>5, <1>6, <1>7, <1>8, <1>9 DEF ScreenNext

\* Theorem: the folders, the list, the dialog and the bounds keep to their
\* types, and a dialog that is saving has its change in flight.
THEOREM ScreenTypes == ScreenSpec => []ScreenTypeOK
<1> DEFINE All == SelectionInv /\ DialogInv /\ ScreenInv
           Types == Saving(dialog, flows) /\ Listed /\ Counted
<1> USE ScreenAssumption
<1>1. ScreenInit => Types
  <2> SUFFICES ASSUME ScreenInit PROVE Types
    OBVIOUS
  <2>1. Saving(dialog, flows) /\ Counted
    BY DEF ScreenInit, Saving, Closed, Counted, ScreenAssumption
  <2>2. ScreenInv /\ screen.scope = Scope(Root)
    BY ScreenStart DEF ScreenInit
  <2>3. Listed
    BY <2>2 DEF Listed, ScreenInv, TreeSound, Scope, ConnsOf, Kids
  <2> QED
    BY <2>1, <2>3
<1>2. All /\ Types /\ [ScreenNext]_vars => Types'
  BY SavingStep, ListedStep
<1>3. All /\ Types => ScreenTypeOK
  BY DEF ScreenTypeOK, ScreenInv, TreeSound, Saving, Listed, Counted
<1>4. ScreenSpec => []All
  BY ScreenInvariance
<1> QED
  BY <1>1, <1>2, <1>3, <1>4, PTL DEF ScreenSpec
=============================================================================
