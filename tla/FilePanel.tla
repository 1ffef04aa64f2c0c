----------------------------- MODULE FilePanel -----------------------------
(***************************************************************************)
(* The file side of a session in the browser: SftpPanel, the editor that   *)
(* it opens, and the transfers of BackendSshClient (readFile, writeFile),  *)
(* whose requests the session serves on handles of the Go engine.  Several *)
(* operations may be under way; a request is answered, or fails, at any    *)
(* moment, and the whole link may be lost and recovered.                   *)
(*                                                                         *)
(* A content is two chunks, each the number of the version it belongs to;  *)
(* 0 is a hole, and a negative number is bytes of any file: they need not  *)
(* be the encoding of the text they decode to, if they decode to one.  A   *)
(* file is an inode, which an open handle keeps.                           *)
(***************************************************************************)
EXTENDS Integers, Sequences, FiniteSets

CONSTANTS
  Dirs, Names,
  Start, Other, \* the directory the panel opens first, another one
  Old,          \* the name that has a file in both
  MaxInFlight,  \* MAX_IN_FLIGHT_REQUESTS: a session refuses a request beyond it
  Outside,      \* most requests of others in the session: status, shell, mkdir
  MaxOps,       \* bound: operations under way
  MaxClicks,    \* bound: operations the user begins
  MaxVersion,   \* bound: versions of texts
  MaxInode,     \* bound: files ever created
  MaxLosses     \* bound: losses of the link

ASSUME PanelAssumption ==
  /\ Start \in Dirs /\ Other \in Dirs \ {Start} /\ Old \in Names
  /\ Dirs \cap {"skeleton", "empty"} = {} /\ "" \notin Names
  /\ MaxInFlight \in Nat /\ Outside \in Nat
  /\ MaxOps \in Nat \ {0} /\ MaxClicks \in Nat /\ MaxLosses \in Nat
  /\ MaxVersion \in Nat \ {0, 1} /\ MaxInode \in Nat \ {0, 1}

VARIABLES
  file, data,    \* remote: the inode of a path (0: none), the chunks of an inode
  panel,         \* path: currentPath; shown: the directory listed, "skeleton" or "empty"
  dialog,        \* what the user is asked to confirm: {} or one question; two at most for Save
  editor,        \* view: closed, loading its modules, open; at: where it was read;
                 \* doc, orig: originalText
  ops,           \* operations under way, by slot
  handles,       \* slots whose transfer has an engine handle
  left,          \* engine handles that no transfer will close any more
  version, clicks, losses,
  home,          \* history: the path that holds orig, unless something else touched it
  crowded        \* history: in this session a request was beyond MaxInFlight

vars == <<file, data, panel, dialog, editor, ops, handles, left, version, clicks, losses, home, crowded>>

Path == Dirs \X Names
Slot == 1..MaxOps
Text(v) == <<v, v>>
Raw(v) == <<-v, -v>>
NoPath == <<"", "">>
Idle == [kind |-> "none"]

Busy == {s \in Slot : ops[s].kind # "none"}
Closed == [view |-> "closed", at |-> NoPath, doc |-> <<>>, orig |-> <<>>]

\* An operation under way.  A listing names a directory and no file.
Operation ==
  [kind: {"list", "read", "write", "remove", "rename"}, meant: Dirs \X (Names \cup {""}),
   at: Dirs \X (Names \cup {""}), stage: {"opening", "moving", "closing"}, pos: Nat,
   text: Seq(Int), ino: 0..MaxInode, failed: BOOLEAN, edits: BOOLEAN, alone: BOOLEAN]
Question ==
  [kind: {"save", "remove", "rename"}, at: Path, text: Seq(Nat)]
    \cup [kind: {"upload"}, at: Dirs \X {""}, text: {<<>>}]

PanelTypeOK ==
  /\ file \in [Path -> 0..MaxInode] /\ data \in [1..MaxInode -> Seq(Int)]
  /\ panel \in [path: Dirs, shown: Dirs \cup {"skeleton", "empty"}]
  /\ dialog \in Seq(Question) /\ Len(dialog) <= 2
  /\ editor \in [view: {"closed", "loading", "open"}, at: Path \cup {NoPath}, doc: Seq(Nat), orig: Seq(Nat)]
  /\ editor.view # "closed" => editor.at \in Path
  /\ ops \in [Slot -> Operation \cup {Idle}]
  /\ \A s \in Busy : ops[s].kind # "list" => ops[s].at \in Path /\ ops[s].meant \in Path
  /\ handles \subseteq Slot
  /\ version \in 0..MaxVersion /\ clicks \in 0..MaxClicks /\ losses \in 0..MaxLosses
  /\ home \in Path \cup {NoPath}

TypeOK == PanelTypeOK /\ left \in Nat /\ crowded \in BOOLEAN

-----------------------------------------------------------------------------
(* Operations.  meant is the path the user acted on, at the path the        *)
(* requests name; alone is lost when another operation touches at.          *)

Op(kind, meant, at) ==
  [kind |-> kind, meant |-> meant, at |-> at, stage |-> "opening", pos |-> 0,
   text |-> <<>>, ino |-> 0, failed |-> FALSE, edits |-> FALSE, alone |-> TRUE]
List(d) == Op("list", <<d, "">>, <<d, "">>)

Changes(o) == o.kind \in {"write", "remove", "rename"}

\* The new operation o and p touch the same file, and one of them changes it.
Clash(o, p) ==
  /\ p.kind \notin {"none", "list"} /\ o.kind # "list"
  /\ p.at = o.at \/ (p.ino # 0 /\ p.ino = file[o.at])
  /\ Changes(o) \/ Changes(p)
\* A rename replaces whatever has the new name: nobody is alone.
Renaming(table, o) == o.kind = "rename" \/ \E s \in Slot : table[s].kind = "rename"
Meets(table, o, s) ==
  Clash(o, table[s]) \/ (Renaming(table, o) /\ table[s].kind # "none")

\* Start o in a free slot: what else touches the same file is not alone any more.
Started(table, o) ==
  LET free == CHOOSE s \in Slot : table[s].kind = "none" IN
  [s \in Slot |->
     IF s = free THEN [o EXCEPT !.alone = ~\E t \in Slot : Meets(table, o, t)]
     ELSE IF Meets(table, o, s) THEN [table[s] EXCEPT !.alone = FALSE] ELSE table[s]]

Room == Cardinality(Busy) < MaxOps
Begin(o) ==
  /\ Room /\ ops' = Started(ops, o)
  /\ clicks < MaxClicks /\ clicks' = clicks + 1
  /\ home' = IF o.kind = "rename" \/ (Changes(o) /\ o.at = home) THEN NoPath ELSE home

\* With the requests of others, more than the session takes at once.
Crowd(table) == Cardinality({s \in Slot : table[s].kind # "none"}) + Outside > MaxInFlight

Init ==
  /\ file = [q \in Path |-> IF q = <<Start, Old>> THEN 1 ELSE IF q = <<Other, Old>> THEN 2 ELSE 0]
  /\ data = [i \in 1..MaxInode |-> IF i = 1 THEN Raw(1) ELSE IF i = 2 THEN Text(2) ELSE <<>>]
  /\ panel = [path |-> Start, shown |-> "skeleton"]
  /\ dialog = <<>> /\ editor = Closed
  /\ ops = Started([s \in Slot |-> Idle], List(Start))
  /\ handles = {} /\ left = 0 /\ version = 2 /\ clicks = 0 /\ losses = 0
  /\ home = NoPath /\ crowded = Crowd(ops)

-----------------------------------------------------------------------------
(* The user.  A dialog or the editor covers the panel, but not while the    *)
(* editor loads; the keyboard reaches the editor.                          *)

Uncovered == dialog = <<>> /\ editor.view # "open"
Clickable == panel.shown \in Dirs /\ Uncovered
Listed == {q \in Path : q[1] = panel.shown /\ file[q] # 0}

\* A folder, the row "..", or the refresh button: open().
Open(d) ==
  /\ Uncovered
  /\ IF d = panel.path THEN panel.shown # "empty" ELSE panel.shown \in Dirs
  /\ Begin(List(d))
  /\ panel' = [panel EXCEPT !.shown = "skeleton"]
  /\ UNCHANGED <<file, data, dialog, editor, handles, left, version, losses>>

\* edit(entry), for a small text file; the bound is one editor at a time.
Edit(q) ==
  /\ Clickable /\ q \in Listed
  /\ editor.view = "closed" /\ \A s \in Busy : ~ops[s].edits
  /\ Begin([Op("read", q, <<panel.path, q[2]>>) EXCEPT !.edits = TRUE])
  /\ UNCHANGED <<file, data, panel, dialog, editor, handles, left, version, losses>>

\* A row's download, or the editor's, which makes its path of now.
Download(q) ==
  /\ (Clickable /\ q \in Listed) \/ (editor.view = "open" /\ dialog = <<>> /\ q = editor.at)
  /\ Begin(Op("read", q, <<panel.path, q[2]>>))
  /\ UNCHANGED <<file, data, panel, dialog, editor, handles, left, version, losses>>

\* The toolbar, which a skeleton has too, opens the browser's file picker.
AskUpload ==
  /\ panel.shown \in Dirs \cup {"skeleton"} /\ Uncovered
  /\ dialog' = <<[kind |-> "upload", at |-> <<panel.path, "">>, text |-> <<>>]>>
  /\ UNCHANGED <<file, data, panel, editor, ops, handles, left, version, clicks, losses, home>>

\* onchange: a file is picked; a path is made of the directory of now.
Upload(n) ==
  /\ dialog # <<>> /\ Head(dialog).kind = "upload" /\ dialog' = Tail(dialog)
  /\ version < MaxVersion /\ version' = version + 1
  /\ Begin([Op("write", <<Head(dialog).at[1], n>>, <<panel.path, n>>)
              EXCEPT !.text = Raw(version')])
  /\ UNCHANGED <<file, data, panel, editor, handles, left, losses>>

\* remove(entry) asks first; rename(entry) asks for the new name.
AskEntry(kind, q) ==
  /\ Clickable /\ q \in Listed
  /\ dialog' = <<[kind |-> kind, at |-> q, text |-> <<>>]>>
  /\ UNCHANGED <<file, data, panel, editor, ops, handles, left, version, clicks, losses, home>>

Type ==
  /\ editor.view = "open" /\ dialog = <<>> /\ version < MaxVersion /\ version' = version + 1
  /\ editor' = [editor EXCEPT !.doc = Text(version')]
  /\ UNCHANGED <<file, data, panel, dialog, ops, handles, left, clicks, losses, home>>

\* doSave asks with the text of that moment.  Ctrl+S reaches both the keymap of
\* the editor and the listener of the document: it asks twice.
AskSave ==
  /\ editor.view = "open" /\ dialog = <<>> /\ editor.doc # editor.orig
  /\ \E n \in 1..2 :
       dialog' = [i \in 1..n |-> [kind |-> "save", at |-> editor.at, text |-> editor.doc]]
  /\ UNCHANGED <<file, data, panel, editor, ops, handles, left, version, clicks, losses, home>>

\* The answer to a question; here too the directory is that of now.
Answer ==
  /\ dialog # <<>> /\ dialog' = Tail(dialog)
  /\ LET d == Head(dialog)  at == <<panel.path, d.at[2]>> IN
     \/ UNCHANGED <<ops, clicks, home>>
     \/ /\ d.kind = "save"
        /\ Begin([Op("write", d.at, at) EXCEPT !.text = d.text, !.edits = TRUE])
     \/ d.kind \in {"remove", "rename"} /\ Begin(Op(d.kind, d.at, at))
  /\ UNCHANGED <<file, data, panel, editor, handles, left, version, losses>>

\* doSaveAs, whose prompt blocks everything else.
SaveAs(n) ==
  /\ editor.view = "open" /\ dialog = <<>>
  /\ Begin([Op("write", <<editor.at[1], n>>, <<panel.path, n>>)
              EXCEPT !.text = editor.doc, !.edits = TRUE])
  /\ UNCHANGED <<file, data, panel, dialog, editor, handles, left, version, losses>>

\* With unsaved changes the user has confirmed it.
CloseEditor ==
  /\ editor.view = "open" /\ dialog = <<>>
  /\ editor' = Closed /\ home' = NoPath
  /\ UNCHANGED <<file, data, panel, dialog, ops, handles, left, version, clicks, losses>>

-----------------------------------------------------------------------------
(* Replies.                                                                *)

\* Operators with a Mut_ prefix are faulty variants of the definition that
\* follows them; they serve to check that the properties notice the fault.

Ended(s) == [ops EXCEPT ![s] = Idle]

Mut_Arrived(s) == [path |-> panel.path, shown |-> ops[s].at[1]]

\* currentPath moves with the rows, when the reply is there.
Arrived(s) == [path |-> ops[s].at[1], shown |-> ops[s].at[1]]

ListReply(s) ==
  /\ ops[s].kind = "list"
  /\ panel' = Arrived(s) /\ ops' = Ended(s)
  /\ UNCHANGED <<file, data, dialog, editor, handles, left, version, clicks, losses, home>>

ListFails(s) ==
  /\ ops[s].kind = "list"
  /\ panel' = [panel EXCEPT !.shown = "empty"] /\ ops' = Ended(s)
  /\ UNCHANGED <<file, data, dialog, editor, handles, left, version, clicks, losses, home>>

\* open() again, at the directory of now, after an operation that changed it.
Reopened(s) ==
  /\ ops' = Started(Ended(s), List(panel.path))
  /\ panel' = [panel EXCEPT !.shown = "skeleton"]

\* remove and rename: the request is served, or fails.
EntryReply(s) ==
  /\ ops[s].kind \in {"remove", "rename"} /\ file[ops[s].at] # 0
  /\ LET q == ops[s].at IN
     \E n \in Names \ {q[2]} :
       file' = IF ops[s].kind = "remove" THEN [file EXCEPT ![q] = 0]
               ELSE [file EXCEPT ![q] = 0, ![<<q[1], n>>] = file[q]]
  /\ Reopened(s)
  /\ UNCHANGED <<data, dialog, editor, handles, left, version, clicks, losses, home>>

EntryFails(s) ==
  /\ ops[s].kind \in {"remove", "rename"}
  /\ ops' = Ended(s)
  /\ UNCHANGED <<file, data, panel, dialog, editor, handles, left, version, clicks, losses, home>>

\* sftpOpenRead, sftpOpenWrite: Create makes the file or empties it.
FreeInode ==
  {i \in 1..MaxInode : /\ data[i] = <<>>
                       /\ \A q \in Path : file[q] # i
                       /\ \A s \in Busy : ops[s].ino # i}
Opened(s) ==
  LET o == ops[s]
      handle(i) == ops' = [ops EXCEPT ![s].stage = "moving", ![s].ino = i]
  IN
  /\ o.kind \in {"read", "write"} /\ o.stage = "opening"
  /\ \/ /\ file[o.at] # 0 /\ handle(file[o.at]) /\ UNCHANGED file
        /\ data' = IF o.kind = "write" THEN [data EXCEPT ![file[o.at]] = <<>>] ELSE data
     \/ /\ file[o.at] = 0 /\ o.kind = "write" /\ FreeInode # {}
        /\ LET i == CHOOSE i \in FreeInode : TRUE
           IN handle(i) /\ file' = [file EXCEPT ![o.at] = i]
        /\ UNCHANGED data
  /\ handles' = handles \cup {s}
  /\ UNCHANGED <<panel, dialog, editor, left, version, clicks, losses, home>>

OpenFails(s) ==
  /\ ops[s].kind \in {"read", "write"} /\ ops[s].stage = "opening"
  /\ ops' = Ended(s)
  /\ UNCHANGED <<file, data, panel, dialog, editor, handles, left, version, clicks, losses, home>>

\* sftpReadChunk: the next chunk; the end is told with the last one or after it.
ReadChunk(s) ==
  LET o == ops[s]  chunks == data[o.ino] IN
  /\ o.kind = "read" /\ o.stage = "moving"
  /\ IF o.pos < Len(chunks)
     THEN \E st \in IF o.pos + 1 = Len(chunks) THEN {"moving", "closing"} ELSE {"moving"} :
            ops' = [ops EXCEPT ![s].text = Append(@, chunks[o.pos + 1]),
                               ![s].pos = @ + 1, ![s].stage = st]
     ELSE ops' = [ops EXCEPT ![s].stage = "closing"]
  /\ UNCHANGED <<file, data, panel, dialog, editor, handles, left, version, clicks, losses, home>>

\* sftpWriteChunk at the offset of the handle.
WriteChunk(s) ==
  LET o == ops[s]  k == o.pos + 1 IN
  /\ o.kind = "write" /\ o.stage = "moving"
  /\ IF k <= Len(o.text)
     THEN /\ data' = [data EXCEPT ![o.ino] =
                 [i \in 1..(IF Len(@) > k THEN Len(@) ELSE k) |->
                    IF i = k THEN o.text[k] ELSE IF i <= Len(@) THEN @[i] ELSE 0]]
          /\ ops' = [ops EXCEPT ![s].pos = k,
                                ![s].stage = IF k = Len(o.text) THEN "closing" ELSE "moving"]
     ELSE UNCHANGED data /\ ops' = [ops EXCEPT ![s].stage = "closing"]
  /\ UNCHANGED <<file, panel, dialog, editor, handles, left, version, clicks, losses, home>>

Mut_ChunkFails(s) ==
  /\ ops[s].kind \in {"read", "write"} /\ ops[s].stage = "moving"
  /\ ops' = Ended(s)
  /\ UNCHANGED <<file, data, panel, dialog, editor, handles, left, version, clicks, losses, home>>

Mut_Forgotten(s) ==
  /\ ops[s].kind \in {"read", "write"} /\ ops[s].stage = "moving"
  /\ ops' = [ops EXCEPT ![s].stage = "closing"]
  /\ UNCHANGED <<file, data, panel, dialog, editor, handles, left, version, clicks, losses, home>>

\* A failed chunk is remembered and the handle closed all the same.
ChunkFails(s) ==
  /\ ops[s].kind \in {"read", "write"} /\ ops[s].stage = "moving"
  /\ ops' = [ops EXCEPT ![s].stage = "closing", ![s].failed = TRUE]
  /\ UNCHANGED <<file, data, panel, dialog, editor, handles, left, version, clicks, losses, home>>

\* decodePreviewText: other bytes may give the same text, and too many that are
\* no text give none.
Decoded(t) == [i \in DOMAIN t |-> IF t[i] < 0 THEN -t[i] ELSE t[i]]
Refusable(t) == \E i \in DOMAIN t : t[i] < 0

(* The close is served: the session has let go of the handle, even when the *)
(* engine's own close fails.  A transfer without failure loads the editor   *)
(* with its text or finds no text, marks the text it encodes as saved, or   *)
(* lists the directory of an upload again; a download is done.              *)
TransferEnds(s) ==
  LET o == ops[s] IN
  /\ o.kind \in {"read", "write"} /\ o.stage = "closing"
  /\ handles' = handles \ {s}
  /\ \E fails \in BOOLEAN :
       LET ok == ~fails /\ ~o.failed IN
       CASE ~ok -> ops' = Ended(s) /\ UNCHANGED <<panel, editor, home>>
         [] ok /\ o.kind = "read" /\ o.edits ->
              /\ ops' = Ended(s) /\ UNCHANGED panel
              /\ \/ /\ editor' = [view |-> "loading", at |-> o.meant,
                                 doc |-> Decoded(o.text), orig |-> Decoded(o.text)]
                    /\ home' = IF o.alone THEN o.at ELSE NoPath
                 \/ Refusable(o.text) /\ UNCHANGED <<editor, home>>
         [] ok /\ o.kind = "write" /\ o.edits ->
              /\ editor' = IF editor.view = "open" THEN [editor EXCEPT !.orig = Decoded(o.text)] ELSE editor
              /\ ops' = Ended(s) /\ UNCHANGED panel
              /\ home' = IF editor.view = "open" /\ o.alone THEN o.at ELSE NoPath
         [] ok /\ o.kind = "read" /\ ~o.edits ->
              ops' = Ended(s) /\ UNCHANGED <<panel, editor, home>>
         [] OTHER -> Reopened(s) /\ UNCHANGED <<editor, home>>
  /\ UNCHANGED <<file, data, dialog, left, version, clicks, losses>>

\* The close is one request too many: it is refused, and not repeated.
CloseRefused(s) ==
  /\ ops[s].kind \in {"read", "write"} /\ ops[s].stage = "closing" /\ Crowd(ops)
  /\ ops' = Ended(s) /\ handles' = handles \ {s} /\ left' = left + 1
  /\ UNCHANGED <<file, data, panel, dialog, editor, version, clicks, losses, home>>

\* loadCodeMirror and preloadLanguage: the modules arrive, or do not.
EditorOpens ==
  /\ editor.view = "loading" /\ editor' = [editor EXCEPT !.view = "open"]
  /\ UNCHANGED <<file, data, panel, dialog, ops, handles, left, version, clicks, losses, home>>

EditorFails ==
  /\ editor.view = "loading" /\ editor' = Closed /\ home' = NoPath
  /\ UNCHANGED <<file, data, panel, dialog, ops, handles, left, version, clicks, losses>>

(* The socket is lost: every pending request fails, so does every close     *)
(* after it, and the session closes its handles.  The recovery opens the    *)
(* directory of now again.                                                 *)
LinkLost ==
  /\ losses < MaxLosses /\ losses' = losses + 1
  /\ handles' = {} /\ left' = 0
  /\ ops' = Started([s \in Slot |-> Idle], List(panel.path)) /\ crowded' = Crowd(ops')
  /\ panel' = [panel EXCEPT !.shown = "skeleton"]
  /\ UNCHANGED <<file, data, dialog, editor, version, clicks, home>>

User ==
  \/ \E d \in Dirs : Open(d)
  \/ \E q \in Path : Edit(q) \/ Download(q) \/ AskEntry("remove", q) \/ AskEntry("rename", q)
  \/ \E n \in Names : Upload(n) \/ SaveAs(n)
  \/ AskUpload \/ Type \/ AskSave \/ Answer \/ CloseEditor

Reply(s) ==
  ListReply(s) \/ ListFails(s) \/ EntryReply(s) \/ EntryFails(s) \/ Opened(s)
  \/ OpenFails(s) \/ ReadChunk(s) \/ WriteChunk(s) \/ ChunkFails(s) \/ TransferEnds(s)
  \/ CloseRefused(s)

Going == User \/ (\E s \in Slot : Reply(s)) \/ EditorOpens \/ EditorFails

Next == (Going /\ crowded' = (crowded \/ Crowd(ops'))) \/ LinkLost

Spec == Init /\ [][Next]_vars

-----------------------------------------------------------------------------
(* Properties.                                                             *)

(* Rows of a directory are only on the screen while currentPath is that     *)
(* directory, in whatever order overlapping listings are answered; and a    *)
(* skeleton waits for a listing.                                           *)
ShownIsCurrent ==
  /\ panel.shown \in Dirs => panel.shown = panel.path
  /\ panel.shown = "skeleton" => \E s \in Busy : ops[s].kind = "list"

(* SFTP transfers leave no handle behind: an open handle of the engine      *)
(* belongs to a transfer that goes on, after failed chunks, failed closes   *)
(* and lost links.  One is left only in a session that had more requests at *)
(* once than it takes, which may refuse a close; it goes with the session.  *)
NoHandleLeft ==
  /\ \A s \in handles : ops[s].kind \in {"read", "write"}
  /\ left > 0 => crowded

(* While the editor shows a text as saved, the file at the path it was read *)
(* from or stored to last is there, whole, and decodes to that text, unless *)
(* something else touched that path meanwhile.                             *)
SavedMeansStored ==
  home # NoPath /\ editor.view = "open" =>
    file[home] # 0 /\ Decoded(data[file[home]]) = editor.orig

(* "onSave overwrites the original file, onSaveAs stores a new one in the   *)
(* same directory": a save of the editor reaches the directory the text was *)
(* read from.                                                               *)
SaveReachesItsFile ==
  \A s \in Busy : ops[s].kind = "write" /\ ops[s].edits => ops[s].at = ops[s].meant
=============================================================================
