-------------------------- MODULE FilePanelProofs --------------------------
(***************************************************************************)
(* Theorems about the file side of a session: the types, the rows that are *)
(* shown, the handles of the engine and the text that the editor takes for *)
(* the stored one.                                                         *)
(*                                                                         *)
(* The inductive invariant follows every transfer through its file: one    *)
(* that is alone with it has the inode of its path, has moved exactly the  *)
(* chunks it counts and, when it closes without failure, has moved them    *)
(* all.  Whoever is alone is apart from everybody who touches its file,    *)
(* and nobody is about to change the file whose text the editor takes for  *)
(* the stored one.                                                         *)
(***************************************************************************)
EXTENDS FilePanel, FiniteSetTheorems, SequenceTheorems, TLAPS

-----------------------------------------------------------------------------
(* The inductive invariant.                                                *)

\* The first n chunks of b, and nothing else, are in a.
Reached(a, b, n) == Len(a) = n /\ n <= Len(b) /\ \A i \in 1..n : a[i] = b[i]

\* What an operation has done to the file it opened: F and D are the files and their chunks.
Transferring(o, F, D) ==
  /\ o.stage # "opening" => o.kind \in {"read", "write"} /\ o.ino # 0
  /\ o.stage = "opening" => o.ino = 0 /\ o.pos = 0 /\ ~o.failed
  /\ o.stage = "opening" /\ o.kind = "read" => o.text = <<>>
  /\ o.alone /\ o.stage # "opening" => F[o.at] = o.ino
  /\ o.alone /\ o.stage = "moving" /\ o.kind = "read" => Reached(o.text, D[o.ino], o.pos)
  /\ o.alone /\ o.stage = "moving" /\ o.kind = "write" => Reached(D[o.ino], o.text, o.pos)
  /\ o.alone /\ o.stage = "closing" /\ ~o.failed => D[o.ino] = o.text

\* Whoever is alone shares its file with nobody, if one of the two changes it.
Apart(o, p, F) ==
  o.alone /\ o.kind # "list" /\ p.kind # "list" =>
    /\ o.kind # "rename" /\ p.kind # "rename"
    /\ Changes(o) \/ Changes(p) => p.at # o.at /\ (p.ino # 0 => p.ino # F[o.at])

At(table) == {s \in Slot : table[s].kind # "none"}

Sound(table, F, D) ==
  /\ \A s \in At(table) : Transferring(table[s], F, D)
  /\ \A s, t \in At(table) : s # t => Apart(table[s], table[t], F)

OneFileEach(F) == \A p, q \in Path : F[p] = F[q] /\ F[p] # 0 => p = q

\* No operation is about to change the file at h.
Untouched(h, table, F) ==
  \A s \in At(table) : Changes(table[s]) =>
    /\ table[s].kind # "rename" /\ table[s].at # h
    /\ table[s].ino # 0 => table[s].ino # F[h]

\* The text that the editor takes for the stored one is stored at h.
Stored(h, orig, table, F, D) ==
  h # NoPath => F[h] # 0 /\ Decoded(D[F[h]]) = orig /\ Untouched(h, table, F)

HomeInv == (home # NoPath => editor.view # "closed") /\ Stored(home, editor.orig, ops, file, data)

HandleInv == \A s \in handles : ops[s].kind \in {"read", "write"} /\ ops[s].stage # "opening"

IInv ==
  /\ PanelTypeOK /\ OneFileEach(file) /\ Sound(ops, file, data)
  /\ HomeInv /\ HandleInv /\ ShownIsCurrent

-----------------------------------------------------------------------------
(* Operations and their table.                                             *)
Table == [Slot -> Operation \cup {Idle}]

\* Lemma: what a slot holds.
LEMMA SlotCases ==
  ASSUME NEW x \in Operation \cup {Idle}
  PROVE  (x.kind = "none" /\ x = Idle) \/ (x.kind # "none" /\ x \in Operation)
<1>1. Idle.kind = "none"
  BY DEF Idle
<1>2. \A o \in Operation : o.kind # "none"
  BY DEF Operation
<1> QED
  BY <1>1, <1>2

\* Lemma: an operation that is alone or not any more.
LEMMA AloneEdit ==
  ASSUME NEW o \in Operation, NEW b \in BOOLEAN
  PROVE  LET q == [o EXCEPT !.alone = b]
         IN  /\ q \in Operation
             /\ q.kind = o.kind /\ q.at = o.at /\ q.meant = o.meant /\ q.stage = o.stage /\ q.pos = o.pos
             /\ q.text = o.text /\ q.ino = o.ino /\ q.failed = o.failed /\ q.edits = o.edits /\ q.alone = b
BY DEF Operation

\* Lemma: someone who does not fill the table leaves a free slot.
LEMMA FreeSlot ==
  ASSUME ops \in Table, Room
  PROVE  \E s \in Slot : ops[s].kind = "none"
<1>1. SUFFICES ASSUME \A s \in Slot : ops[s].kind # "none" PROVE FALSE
  OBVIOUS
<1>2. Busy = 1..MaxOps
  BY <1>1 DEF Busy, Slot
<1>3. MaxOps \in Nat /\ MaxOps >= 1
  <2>1. MaxOps \in Nat \ {0}
    BY PanelAssumption, Zenon
  <2> QED
    BY <2>1
<1>4. Cardinality(1..MaxOps) = IF 1 > MaxOps THEN 0 ELSE MaxOps - 1 + 1
  <2>1. 1 \in Int /\ MaxOps \in Int
    BY <1>3
  <2> QED
    BY <2>1, FS_Interval, Zenon
<1>5. Cardinality(1..MaxOps) < MaxOps
  BY <1>2 DEF Room
<1>6. Cardinality(1..MaxOps) = MaxOps
  BY <1>3, <1>4
<1> DEFINE n == Cardinality(1..MaxOps)
<1> HIDE DEF n
<1> QED
  BY <1>3, <1>5, <1>6 DEF n

\* What begins in table with o becomes next.
Entered(table, o, next, s) ==
  /\ next \in Table /\ s \in Slot /\ table[s].kind = "none"
  /\ \E b \in BOOLEAN : next[s] = [o EXCEPT !.alone = b] /\ (b => \A t \in Slot : ~Meets(table, o, t))
  /\ \A t \in Slot \ {s} :
       \/ next[t] = table[t] /\ ~Meets(table, o, t)
       \/ Meets(table, o, t) /\ table[t] \in Operation /\ next[t] = [table[t] EXCEPT !.alone = FALSE]

\* Lemma: Started puts the operation into a free slot.
LEMMA StartedEnters ==
  ASSUME NEW table \in Table, NEW o \in Operation, \E s \in Slot : table[s].kind = "none"
  PROVE  \E s \in Slot : Entered(table, o, Started(table, o), s)
<1> DEFINE free == CHOOSE s \in Slot : table[s].kind = "none"
           b == ~\E t \in Slot : Meets(table, o, t)
           next == Started(table, o)
<1>1. free \in Slot /\ table[free].kind = "none"
  OBVIOUS
<1>2. b \in BOOLEAN
  OBVIOUS
<1>3. next = [s \in Slot |->
     IF s = free THEN [o EXCEPT !.alone = b]
     ELSE IF Meets(table, o, s) THEN [table[s] EXCEPT !.alone = FALSE] ELSE table[s]]
  BY DEF Started
<1>4. b => \A t \in Slot : ~Meets(table, o, t)
  OBVIOUS
<1>5. \A t \in Slot : Meets(table, o, t) => table[t] \in Operation
  <2> TAKE t \in Slot
  <2>1. Meets(table, o, t) => table[t].kind # "none"
    BY DEF Meets, Clash
  <2> QED
    BY <2>1, SlotCases DEF Table
<1> HIDE DEF free, b, next
<1>6. \A t \in Slot : table[t] \in Operation \cup {Idle}
  BY DEF Table
<1>7. [o EXCEPT !.alone = b] \in Operation
  BY <1>2, AloneEdit
<1>8. \A t \in Slot : Meets(table, o, t) => [table[t] EXCEPT !.alone = FALSE] \in Operation
  BY <1>5, AloneEdit
<1>9. next \in Table
  BY <1>3, <1>6, <1>7, <1>8 DEF Table
<1>10. next[free] = [o EXCEPT !.alone = b]
  BY <1>1, <1>3
<1>11. \A t \in Slot \ {free} :
       \/ next[t] = table[t] /\ ~Meets(table, o, t)
       \/ Meets(table, o, t) /\ table[t] \in Operation /\ next[t] = [table[t] EXCEPT !.alone = FALSE]
  BY <1>3, <1>5
<1>12. Entered(table, o, next, free)
  BY <1>1, <1>2, <1>4, <1>9, <1>10, <1>11 DEF Entered
<1> QED
  BY <1>1, <1>12 DEF next

-----------------------------------------------------------------------------
(* Sound tables, and an operation that begins in one.                      *)

\* An operation as it begins.
Fresh(o) ==
  /\ o \in Operation /\ o.stage = "opening" /\ o.pos = 0 /\ o.ino = 0 /\ ~o.failed
  /\ o.kind = "read" => o.text = <<>>

\* q is o, perhaps not alone any more.
Fades(o, q) ==
  /\ q.kind = o.kind /\ q.at = o.at /\ q.meant = o.meant /\ q.stage = o.stage /\ q.pos = o.pos
  /\ q.text = o.text /\ q.ino = o.ino /\ q.failed = o.failed /\ (q.alone => o.alone)

\* Lemma: an operation that is not alone any more is no less sound.
LEMMA FadesSound ==
  ASSUME NEW o, NEW q, NEW F, NEW D, Fades(o, q), Transferring(o, F, D)
  PROVE  Transferring(q, F, D)
BY DEF Fades, Transferring

\* Lemma: nor are two any closer.
LEMMA FadesApart ==
  ASSUME NEW o, NEW q, NEW x, NEW y, NEW F, Fades(o, q), Fades(x, y), Apart(o, x, F)
  PROVE  Apart(q, y, F)
BY DEF Fades, Apart, Changes

\* Lemma: what has just begun is sound.
LEMMA FreshSound ==
  ASSUME NEW o, Fresh(o), NEW b \in BOOLEAN, NEW F, NEW D
  PROVE  Transferring([o EXCEPT !.alone = b], F, D)
<1> DEFINE q == [o EXCEPT !.alone = b]
<1>1. /\ q.kind = o.kind /\ q.stage = o.stage /\ q.pos = o.pos
      /\ q.text = o.text /\ q.ino = o.ino /\ q.failed = o.failed
  BY AloneEdit DEF Fresh
<1> HIDE DEF q
<1>2. Transferring(q, F, D)
  BY <1>1 DEF Fresh, Transferring
<1> QED
  BY <1>2 DEF q

\* Lemma: the operations of a table that lost some of them.
LEMMA FewerSound ==
  ASSUME NEW table, NEW next, NEW F, NEW D, Sound(table, F, D),
         \A s \in Slot : next[s] = table[s] \/ next[s] = Idle
  PROVE  Sound(next, F, D)
<1>1. \A s \in At(next) : s \in At(table) /\ next[s] = table[s]
  BY DEF At, Idle
<1> QED
  BY <1>1 DEF Sound

\* Lemma: what none of them was about to change, none is now.
LEMMA FewerUntouched ==
  ASSUME NEW table, NEW next, NEW h, NEW F, Untouched(h, table, F),
         \A s \in Slot : next[s] = table[s] \/ next[s] = Idle
  PROVE  Untouched(h, next, F)
<1>1. \A s \in At(next) : s \in At(table) /\ next[s] = table[s]
  BY DEF At, Idle
<1> QED
  BY <1>1 DEF Untouched

\* Lemma: who meets nobody is apart from everybody.
LEMMA NoMeeting ==
  ASSUME NEW table, NEW o, NEW t \in Slot, ~Meets(table, o, t), table[t].kind # "none",
         o.kind # "list", table[t].kind # "list"
  PROVE  /\ o.kind # "rename" /\ table[t].kind # "rename"
         /\ Changes(o) \/ Changes(table[t]) =>
              table[t].at # o.at /\ (table[t].ino # 0 => table[t].ino # file[o.at])
<1>1. ~Renaming(table, o)
  BY DEF Meets
<1>2. o.kind # "rename" /\ table[t].kind # "rename"
  BY <1>1 DEF Renaming
<1>3. ~Clash(o, table[t])
  BY DEF Meets
<1> QED
  BY <1>2, <1>3 DEF Clash

\* Lemma: the table after an operation has begun in slot s.
LEMMA EnteredFacts ==
  ASSUME NEW table \in Table, NEW o, Fresh(o), NEW next, NEW s, Entered(table, o, next, s)
  PROVE  /\ s \in Slot /\ table[s].kind = "none" /\ next \in Table
         /\ next[s].kind = o.kind /\ next[s].at = o.at /\ next[s].meant = o.meant /\ next[s].ino = 0
         /\ next[s].alone => \A t \in Slot : ~Meets(table, o, t)
         /\ \A F, D : Transferring(next[s], F, D)
         /\ \A t \in Slot \ {s} :
              /\ next[t].kind = table[t].kind
              /\ t \in At(next) => /\ t \in At(table) /\ Fades(table[t], next[t])
                                   /\ next[t].alone => ~Meets(table, o, t)
<1>1. PICK b \in BOOLEAN : next[s] = [o EXCEPT !.alone = b] /\ (b => \A t \in Slot : ~Meets(table, o, t))
  BY DEF Entered
<1>2. /\ next[s].kind = o.kind /\ next[s].at = o.at /\ next[s].meant = o.meant /\ next[s].ino = 0 /\ next[s].alone = b
  BY <1>1, AloneEdit DEF Fresh
<1>3. \A F, D : Transferring(next[s], F, D)
  BY <1>1, FreshSound
<1>4. ASSUME NEW t \in Slot \ {s}
      PROVE  /\ next[t].kind = table[t].kind
             /\ t \in At(next) => /\ t \in At(table) /\ Fades(table[t], next[t])
                                  /\ next[t].alone => ~Meets(table, o, t)
  <2>2. CASE next[t] = table[t] /\ ~Meets(table, o, t)
    BY <1>4, <2>2 DEF At, Fades
  <2>3. CASE Meets(table, o, t) /\ table[t] \in Operation /\ next[t] = [table[t] EXCEPT !.alone = FALSE]
    <3>1. Fades(table[t], next[t]) /\ ~next[t].alone
      BY <2>3, AloneEdit DEF Fades
    <3>2. table[t].kind # "none"
      BY <2>3 DEF Operation
    <3> QED
      BY <1>4, <3>1, <3>2 DEF At, Fades
  <2> QED
    BY <2>2, <2>3 DEF Entered
<1> QED
  BY <1>1, <1>2, <1>3, <1>4 DEF Entered

\* Lemma: an operation that begins leaves the others as sound as they were.
LEMMA EnteredSound ==
  ASSUME NEW table \in Table, NEW o, Fresh(o), NEW next, NEW s, Entered(table, o, next, s),
         NEW F, F = file \/ o.kind = "list", NEW D, Sound(table, F, D)
  PROVE  Sound(next, F, D)
<1>1. /\ s \in Slot /\ next[s].kind = o.kind /\ next[s].at = o.at /\ next[s].meant = o.meant /\ next[s].ino = 0
      /\ next[s].alone => \A t \in Slot : ~Meets(table, o, t)
      /\ Transferring(next[s], F, D)
  BY EnteredFacts
<1>4. ASSUME NEW t \in At(next), t # s
      PROVE  t \in At(table) /\ Fades(table[t], next[t]) /\ (next[t].alone => ~Meets(table, o, t))
  BY <1>4, EnteredFacts DEF At
<1>5. ASSUME NEW t \in At(next)
      PROVE  Transferring(next[t], F, D)
  <2>1. CASE t = s
    BY <1>1, <2>1
  <2>2. CASE t # s
    BY <1>4, <2>2, FadesSound DEF Sound
  <2> QED
    BY <2>1, <2>2
<1>6. ASSUME NEW t \in At(next), NEW x \in At(next), t # x
      PROVE  Apart(next[t], next[x], F)
  <2>1. CASE t # s /\ x # s
    BY <1>4, <1>6, <2>1, FadesApart DEF Sound
  <2>2. CASE t = s
    <3>1. x \in At(table) /\ Fades(table[x], next[x]) /\ x \in Slot
      BY <1>4, <1>6, <2>2 DEF At
    <3>2. SUFFICES ASSUME next[s].alone, o.kind # "list", table[x].kind # "list"
                   PROVE  Apart(next[s], next[x], F)
      BY <1>1, <2>2, <3>1 DEF Apart, Fades
    <3>3. ~Meets(table, o, x) /\ table[x].kind # "none"
      BY <1>1, <3>1, <3>2 DEF At
    <3>4. /\ o.kind # "rename" /\ table[x].kind # "rename"
          /\ Changes(o) \/ Changes(table[x]) =>
              table[x].at # o.at /\ (table[x].ino # 0 => table[x].ino # F[o.at])
      BY <3>1, <3>2, <3>3, NoMeeting
    <3> QED
      BY <1>1, <3>1, <3>4 DEF Apart, Fades, Changes
  <2>3. CASE x = s
    <3>1. t \in At(table) /\ Fades(table[t], next[t]) /\ t \in Slot
      BY <1>4, <1>6, <2>3 DEF At
    <3>2. SUFFICES ASSUME next[t].alone, o.kind # "list", table[t].kind # "list"
                   PROVE  Apart(next[t], next[s], F)
      BY <1>1, <2>3, <3>1 DEF Apart, Fades
    <3>3. ~Meets(table, o, t) /\ table[t].kind # "none"
      BY <1>4, <1>6, <2>3, <3>1, <3>2 DEF At
    <3>4. /\ o.kind # "rename" /\ table[t].kind # "rename"
          /\ Changes(o) \/ Changes(table[t]) => table[t].at # o.at
      BY <3>1, <3>2, <3>3, NoMeeting
    <3> QED
      BY <1>1, <3>1, <3>4 DEF Apart, Fades, Changes
  <2> QED
    BY <1>6, <2>1, <2>2, <2>3
<1> QED
  BY <1>5, <1>6 DEF Sound

\* Lemma: nor is a file about to change that it does not change.
LEMMA EnteredUntouched ==
  ASSUME NEW table \in Table, NEW o, Fresh(o), NEW next, NEW s, Entered(table, o, next, s),
         NEW h, NEW F, Untouched(h, table, F), Changes(o) => o.kind # "rename" /\ o.at # h
  PROVE  Untouched(h, next, F)
<1>1. s \in Slot /\ next[s].kind = o.kind /\ next[s].at = o.at /\ next[s].meant = o.meant /\ next[s].ino = 0
  BY EnteredFacts
<1>2. ASSUME NEW t \in At(next), t # s
      PROVE  t \in At(table) /\ Fades(table[t], next[t])
  BY <1>2, EnteredFacts DEF At
<1>3. ASSUME NEW t \in At(next), Changes(next[t])
      PROVE  next[t].kind # "rename" /\ next[t].at # h /\ (next[t].ino # 0 => next[t].ino # F[h])
  <2>1. CASE t = s
    BY <1>1, <1>3, <2>1 DEF Changes
  <2>2. CASE t # s
    BY <1>2, <1>3, <2>2 DEF Untouched, Fades, Changes
  <2> QED
    BY <2>1, <2>2
<1> QED
  BY <1>3 DEF Untouched

-----------------------------------------------------------------------------
(* The user.                                                               *)
AnyPath == Dirs \X (Names \cup {""})

\* Lemma: the tokens are no paths.
LEMMA Tokens ==
  /\ Path \subseteq AnyPath /\ NoPath \notin Path /\ {"skeleton", "empty"} \cap Dirs = {}
  /\ \A d \in Dirs : <<d, "">> \in AnyPath
  /\ \A q \in Path, d \in Dirs : q[1] \in Dirs /\ q[2] \in Names /\ <<d, q[2]>> \in Path
<1>1. "" \notin Names
  BY PanelAssumption, Zenon
<1>2. {"skeleton", "empty"} \cap Dirs = {}
  BY PanelAssumption
<1>3. NoPath \notin Path
  BY <1>1 DEF NoPath, Path
<1> QED
  BY <1>2, <1>3 DEF Path, AnyPath

\* Lemma: the operations that the panel and the editor begin.
LEMMA OpFresh ==
  ASSUME NEW k \in {"list", "read", "write", "remove", "rename"}, NEW q \in AnyPath, NEW at \in AnyPath
  PROVE  Fresh(Op(k, q, at)) /\ Op(k, q, at).kind = k /\ Op(k, q, at).at = at /\ Op(k, q, at).meant = q
<1>1. MaxInode \in Nat
  BY PanelAssumption, Zenon
<1>2. 0 \in 0..MaxInode
  BY <1>1
<1>3. <<>> \in Seq(Int)
  BY EmptySeq
<1>4. Op(k, q, at) \in Operation
  BY <1>2, <1>3 DEF Op, Operation, AnyPath
<1> QED
  BY <1>4 DEF Op, Fresh

\* Lemma: with a text.
LEMMA TextFresh ==
  ASSUME NEW o, Fresh(o), o.kind = "write", NEW t \in Seq(Int)
  PROVE  LET q == [o EXCEPT !.text = t]
         IN  Fresh(q) /\ q.kind = "write" /\ q.at = o.at /\ q.meant = o.meant
BY DEF Fresh, Operation

\* Lemma: of the editor.
LEMMA EditsFresh ==
  ASSUME NEW o, Fresh(o)
  PROVE  LET q == [o EXCEPT !.edits = TRUE]
         IN  Fresh(q) /\ q.kind = o.kind /\ q.at = o.at /\ q.meant = o.meant
BY DEF Fresh, Operation

\* Lemma: of the editor, with a text.
LEMMA SaveFresh ==
  ASSUME NEW o, Fresh(o), o.kind = "write", NEW t \in Seq(Int)
  PROVE  LET q == [o EXCEPT !.text = t, !.edits = TRUE]
         IN  Fresh(q) /\ q.kind = "write" /\ q.at = o.at /\ q.meant = o.meant
<1> DEFINE p == [o EXCEPT !.text = t]
           q == [o EXCEPT !.text = t, !.edits = TRUE]
<1>1. Fresh(p) /\ p.kind = "write" /\ p.at = o.at
  BY TextFresh
<1>2. q = [p EXCEPT !.edits = TRUE]
  OBVIOUS
<1> HIDE DEF p, q
<1> QED
  BY <1>1, <1>2, EditsFresh DEF q

\* Lemma: a text is a content, and what a content decodes to is a text.
LEMMA Texts ==
  /\ Seq(Nat) \subseteq Seq(Int)
  /\ \A t \in Seq(Int) : Decoded(t) \in Seq(Nat)
<1>1. ASSUME NEW t \in Seq(Nat) PROVE t \in Seq(Int)
  OBVIOUS
<1>2. ASSUME NEW t \in Seq(Int) PROVE Decoded(t) \in Seq(Nat)
  <2>1. Len(t) \in Nat /\ DOMAIN t = 1..Len(t) /\ \A i \in 1..Len(t) : t[i] \in Int
    BY ElementOfSeq, LenProperties
  <2>2. Decoded(t) \in [1..Len(t) -> Nat]
    BY <2>1 DEF Decoded
  <2> QED
    BY <2>1, <2>2, SeqDef
<1> QED
  BY <1>1, <1>2

\* Lemma: the questions of a dialog.
LEMMA Asked ==
  ASSUME NEW x \in Question
  PROVE  <<x>> \in Seq(Question) /\ Len(<<x>>) = 1
OBVIOUS

\* An operation on a file has the path of one.
Aimed(o) == Fresh(o) /\ (o.kind # "list" => o.at \in Path /\ o.meant \in Path)

\* The user begins o: what changes besides the table.
Begins(o) ==
  /\ Aimed(o) /\ Begin(o)
  /\ panel' = panel \/ (o.kind = "list" /\ panel' = [panel EXCEPT !.shown = "skeleton"])
  /\ dialog' = dialog \/ (dialog # <<>> /\ dialog' = Tail(dialog))
  /\ version' \in 0..MaxVersion
  /\ UNCHANGED <<file, data, editor, handles, losses>>

\* The user does something else.
Quiet ==
  /\ \/ UNCHANGED home /\ (editor.view # "closed" => editor'.view # "closed") /\ editor'.orig = editor.orig
     \/ home' = NoPath
  /\ dialog' \in Seq(Question) /\ Len(dialog') <= 2
  /\ editor' \in [view: {"closed", "loading", "open"}, at: Path \cup {NoPath}, doc: Seq(Nat), orig: Seq(Nat)]
  /\ editor'.view # "closed" => editor'.at \in Path
  /\ version' \in 0..MaxVersion
  /\ UNCHANGED <<file, data, panel, ops, handles, clicks, losses>>

\* Lemma: the types, one by one.
LEMMA Types ==
  ASSUME PanelTypeOK
  PROVE  /\ file \in [Path -> 0..MaxInode] /\ data \in [1..MaxInode -> Seq(Int)]
         /\ panel.path \in Dirs /\ panel.shown \in Dirs \cup {"skeleton", "empty"}
         /\ panel = [path |-> panel.path, shown |-> panel.shown]
         /\ dialog \in Seq(Question) /\ Len(dialog) <= 2
         /\ editor \in [view: {"closed", "loading", "open"}, at: Path \cup {NoPath}, doc: Seq(Nat), orig: Seq(Nat)]
         /\ editor.view \in {"closed", "loading", "open"} /\ editor.at \in Path \cup {NoPath}
         /\ editor.doc \in Seq(Nat) /\ editor.orig \in Seq(Nat)
         /\ editor.view # "closed" => editor.at \in Path
         /\ ops \in Table /\ \A s \in Busy : ops[s].kind # "list" => ops[s].at \in Path /\ ops[s].meant \in Path
         /\ handles \subseteq Slot
         /\ version \in 0..MaxVersion /\ clicks \in 0..MaxClicks /\ losses \in 0..MaxLosses
         /\ home \in Path \cup {NoPath}
BY DEF PanelTypeOK, Table

\* Lemma: another version of a text.
LEMMA NewVersion ==
  ASSUME PanelTypeOK, version < MaxVersion, version' = version + 1
  PROVE  version' \in 0..MaxVersion /\ Text(version') \in Seq(Nat) /\ Raw(version') \in Seq(Int)
<1>1. MaxVersion \in Nat
  BY PanelAssumption, Zenon
<1>2. version \in Nat
  BY Types
<1> QED
  BY <1>1, <1>2 DEF Text, Raw

\* Lemma: an answer given, a question is left of what was asked.
LEMMA Answered ==
  ASSUME NEW d \in Seq(Question), Len(d) <= 2, d # <<>>
  PROVE  Head(d) \in Question /\ Tail(d) \in Seq(Question) /\ Len(Tail(d)) <= 2
BY HeadTailProperties

\* Lemma: what the user does begins an operation or leaves them alone.
LEMMA UserCases ==
  ASSUME PanelTypeOK, User
  PROVE  Quiet \/ \E o : Begins(o)
<1>1. /\ panel.path \in Dirs /\ dialog \in Seq(Question) /\ Len(dialog) <= 2
      /\ editor \in [view: {"closed", "loading", "open"}, at: Path \cup {NoPath}, doc: Seq(Nat), orig: Seq(Nat)]
      /\ editor.view # "closed" => editor.at \in Path
      /\ editor.doc \in Seq(Nat) /\ version \in 0..MaxVersion
  BY Types
<1>2. ASSUME NEW d \in Dirs, Open(d) PROVE \E o : Begins(o)
  <2> DEFINE q == <<d, "">>
  <2>3. q \in AnyPath
    BY Tokens
  <2>4. List(d) = Op("list", q, q)
    BY DEF List
  <2> HIDE DEF q
  <2>1. Aimed(List(d)) /\ List(d).kind = "list"
    BY <2>3, <2>4, OpFresh DEF Aimed
  <2>2. Begins(List(d))
    BY <1>1, <1>2, <2>1 DEF Open, Begins
  <2> QED
    BY <2>2
<1>3. ASSUME NEW q \in Path, Edit(q) PROVE \E o : Begins(o)
  <2> DEFINE p == Op("read", q, <<panel.path, q[2]>>)
             o == [p EXCEPT !.edits = TRUE]
  <2> DEFINE at == <<panel.path, q[2]>>
  <2>4. q \in AnyPath /\ at \in Path /\ at \in AnyPath
    BY <1>1, Tokens
  <2>5. p = Op("read", q, at)
    OBVIOUS
  <2> HIDE DEF at
  <2>1. Fresh(p) /\ p.at \in Path /\ p.meant \in Path
    BY <2>4, <2>5, OpFresh
  <2>2. Begin(o)
    BY <1>3 DEF Edit
  <2> HIDE DEF p
  <2>3. Aimed(o)
    BY <2>1, EditsFresh DEF Aimed
  <2> HIDE DEF o
  <2>6. Begins(o)
    BY <1>1, <1>3, <2>2, <2>3 DEF Edit, Begins
  <2> QED
    BY <2>6
<1>4. ASSUME NEW q \in Path, Download(q) PROVE \E o : Begins(o)
  <2> DEFINE o == Op("read", q, <<panel.path, q[2]>>)
  <2> DEFINE at == <<panel.path, q[2]>>
  <2>4. q \in AnyPath /\ at \in Path /\ at \in AnyPath
    BY <1>1, Tokens
  <2>5. o = Op("read", q, at)
    OBVIOUS
  <2>2. Begin(o)
    BY <1>4 DEF Download
  <2> HIDE DEF at
  <2>1. Aimed(o)
    BY <2>4, <2>5, OpFresh DEF Aimed
  <2> HIDE DEF o
  <2>3. Begins(o)
    BY <1>1, <1>4, <2>1, <2>2 DEF Download, Begins
  <2> QED
    BY <2>3
<1>5. ASSUME NEW q \in Path, NEW k \in {"remove", "rename"}, AskEntry(k, q) PROVE Quiet
  <2> DEFINE x == [kind |-> k, at |-> q, text |-> <<>>]
  <2>1. x \in Question
    BY EmptySeq DEF Question
  <2>2. dialog' = <<x>>
    BY <1>5 DEF AskEntry
  <2> HIDE DEF x
  <2>3. dialog' \in Seq(Question) /\ Len(dialog') <= 2
    BY <2>1, <2>2, Asked
  <2> QED
    BY <1>1, <1>5, <2>3 DEF AskEntry, Quiet
<1>6. ASSUME NEW n \in Names, Upload(n) PROVE \E o : Begins(o)
  <2> DEFINE d == Head(dialog)
             p == Op("write", <<d.at[1], n>>, <<panel.path, n>>)
             t == Raw(version')
             o == [p EXCEPT !.text = t]
  <2>1. d.at[1] \in Dirs
    <3>1. d \in Question /\ d.kind = "upload"
      BY <1>1, <1>6, Answered DEF Upload
    <3> QED
      BY <3>1 DEF Question
  <2> DEFINE q == <<d.at[1], n>>
             at == <<panel.path, n>>
  <2>7. q \in AnyPath /\ q \in Path /\ at \in Path /\ at \in AnyPath
    BY <1>1, <2>1 DEF AnyPath, Path
  <2>8. p = Op("write", q, at)
    OBVIOUS
  <2> HIDE DEF q, at
  <2>2. Fresh(p) /\ p.kind = "write" /\ p.at \in Path /\ p.meant \in Path
    BY <2>7, <2>8, OpFresh
  <2>3. version' \in 0..MaxVersion /\ t \in Seq(Int)
    BY <1>6, NewVersion DEF Upload
  <2>4. Begin(o)
    BY <1>6 DEF Upload
  <2> HIDE DEF p, t
  <2>5. Aimed(o)
    BY <2>2, <2>3, TextFresh DEF Aimed
  <2> HIDE DEF o, d
  <2>6. Begins(o)
    BY <1>1, <1>6, <2>3, <2>4, <2>5 DEF Upload, Begins
  <2> QED
    BY <2>6
<1>7. ASSUME NEW n \in Names, SaveAs(n) PROVE \E o : Begins(o)
  <2> DEFINE p == Op("write", <<editor.at[1], n>>, <<panel.path, n>>)
             o == [p EXCEPT !.text = editor.doc, !.edits = TRUE]
  <2>1. editor.at \in Path
    BY <1>1, <1>7 DEF SaveAs
  <2> DEFINE q == <<editor.at[1], n>>
             at == <<panel.path, n>>
  <2>7. q \in AnyPath /\ q \in Path /\ at \in Path /\ at \in AnyPath
    BY <1>1, <2>1 DEF AnyPath, Path
  <2>8. p = Op("write", q, at)
    OBVIOUS
  <2> HIDE DEF q, at
  <2>2. Fresh(p) /\ p.kind = "write" /\ p.at \in Path /\ p.meant \in Path
    BY <2>7, <2>8, OpFresh
  <2>3. Begin(o)
    BY <1>7 DEF SaveAs
  <2> HIDE DEF p
  <2>9. editor.doc \in Seq(Int)
    BY <1>1, Texts
  <2>4. Aimed(o)
    BY <2>2, <2>9, SaveFresh DEF Aimed
  <2> HIDE DEF o
  <2>5. Begins(o)
    BY <1>1, <1>7, <2>3, <2>4 DEF SaveAs, Begins
  <2> QED
    BY <2>5
<1>8. ASSUME Type PROVE Quiet
  <2> DEFINE t == Text(version')
  <2>1. version' \in 0..MaxVersion /\ t \in Seq(Nat)
    BY <1>8, NewVersion DEF Type
  <2>2. editor' = [editor EXCEPT !.doc = t]
    BY <1>8 DEF Type
  <2> HIDE DEF t
  <2> QED
    BY <1>1, <1>8, <2>1, <2>2 DEF Type, Quiet
<1>9. ASSUME AskSave PROVE Quiet
  <2> DEFINE x == [kind |-> "save", at |-> editor.at, text |-> editor.doc]
  <2>1. x \in Question
    BY <1>1, <1>9 DEF Question, AskSave
  <2>2. PICK n \in 1..2 : dialog' = [i \in 1..n |-> x]
    BY <1>9 DEF AskSave
  <2> HIDE DEF x
  <2>3. dialog' \in Seq(Question) /\ Len(dialog') <= 2
    BY <2>1, <2>2
  <2> QED
    BY <1>1, <1>9, <2>3 DEF AskSave, Quiet
<1>10. ASSUME Answer PROVE Quiet \/ \E o : Begins(o)
  <2> DEFINE d == Head(dialog)
             at == <<panel.path, d.at[2]>>
             w == Op("write", d.at, at)
             o1 == [w EXCEPT !.text = d.text, !.edits = TRUE]
             o2 == Op(d.kind, d.at, at)
  <2>1. d \in Question /\ Tail(dialog) \in Seq(Question) /\ Len(Tail(dialog)) <= 2
    BY <1>1, <1>10, Answered DEF Answer
  <2>2. /\ dialog # <<>> /\ dialog' = Tail(dialog)
        /\ \/ UNCHANGED <<ops, clicks, home>>
           \/ d.kind = "save" /\ Begin(o1)
           \/ d.kind \in {"remove", "rename"} /\ Begin(o2)
        /\ UNCHANGED <<file, data, panel, editor, handles, version, losses>>
    BY <1>10 DEF Answer
  <2>3. d.kind \in {"save", "remove", "rename"} => d.at \in Path /\ d.text \in Seq(Nat)
    BY <2>1 DEF Question
  <2>4. d.kind \in {"save", "remove", "rename"} => d.at \in AnyPath /\ at \in Path /\ at \in AnyPath
    BY <1>1, <2>3, Tokens
  <2> HIDE DEF d, at
  <2>5. CASE UNCHANGED <<ops, clicks, home>>
    BY <1>1, <2>1, <2>2, <2>5 DEF Quiet
  <2>6. CASE d.kind = "save" /\ Begin(o1)
    <3>1. Fresh(w) /\ w.kind = "write" /\ w.at = at /\ w.meant = d.at
      BY <2>4, <2>6, OpFresh
    <3> HIDE DEF w
    <3>2. Aimed(o1)
      BY <2>3, <2>4, <2>6, <3>1, SaveFresh, Texts DEF Aimed
    <3> HIDE DEF o1
    <3>3. Begins(o1)
      BY <1>1, <2>2, <2>6, <3>2 DEF Begins
    <3> QED
      BY <3>3
  <2>7. CASE d.kind \in {"remove", "rename"} /\ Begin(o2)
    <3>1. d.kind \in {"list", "read", "write", "remove", "rename"}
      BY <2>7
    <3>2. Aimed(o2)
      BY <2>3, <2>4, <2>7, <3>1, OpFresh DEF Aimed
    <3> HIDE DEF o2
    <3>3. Begins(o2)
      BY <1>1, <2>2, <2>7, <3>2 DEF Begins
    <3> QED
      BY <3>3
  <2> QED
    BY <2>2, <2>5, <2>6, <2>7
<1>11. ASSUME CloseEditor PROVE Quiet
  BY <1>1, <1>11, EmptySeq DEF CloseEditor, Quiet, Closed
<1>12. ASSUME AskUpload PROVE Quiet
  <2> DEFINE x == [kind |-> "upload", at |-> <<panel.path, "">>, text |-> <<>>]
  <2>1. x \in Question
    BY <1>1 DEF Question
  <2>2. dialog' = <<x>>
    BY <1>12 DEF AskUpload
  <2> HIDE DEF x
  <2>3. dialog' \in Seq(Question) /\ Len(dialog') <= 2
    BY <2>1, <2>2, Asked
  <2> QED
    BY <1>1, <1>12, <2>3 DEF AskUpload, Quiet
<1> QED
  BY <1>2, <1>3, <1>4, <1>5, <1>6, <1>7, <1>8, <1>9, <1>10, <1>11, <1>12 DEF User

\* Lemma: the editor's modules arrive, or do not.
LEMMA LoadCases ==
  ASSUME PanelTypeOK, EditorOpens \/ EditorFails
  PROVE  Quiet
<1>1. /\ dialog \in Seq(Question) /\ Len(dialog) <= 2 /\ version \in 0..MaxVersion
      /\ editor \in [view: {"closed", "loading", "open"}, at: Path \cup {NoPath}, doc: Seq(Nat), orig: Seq(Nat)]
      /\ editor.view # "closed" => editor.at \in Path
  BY Types
<1>2. CASE EditorOpens
  BY <1>1, <1>2 DEF EditorOpens, Quiet
<1>3. CASE EditorFails
  BY <1>1, <1>3, EmptySeq DEF EditorFails, Quiet, Closed
<1> QED
  BY <1>2, <1>3

\* Lemma: the paths of a table in which an aimed operation has begun.
LEMMA EnteredPaths ==
  ASSUME NEW table \in Table, NEW o, Aimed(o), NEW next, NEW s, Entered(table, o, next, s),
         \A t \in At(table) : table[t].kind # "list" => table[t].at \in Path /\ table[t].meant \in Path
  PROVE  next \in Table /\ \A t \in At(next) : next[t].kind # "list" => next[t].at \in Path /\ next[t].meant \in Path
<1>1. next \in Table
  BY EnteredFacts DEF Aimed
<1>2. ASSUME NEW t \in At(next), next[t].kind # "list" PROVE next[t].at \in Path /\ next[t].meant \in Path
  <2>1. CASE t = s
    BY <1>2, <2>1, EnteredFacts DEF Aimed
  <2>2. CASE t # s
    BY <1>2, <2>2, EnteredFacts DEF Aimed, At, Fades
  <2> QED
    BY <2>1, <2>2
<1> QED
  BY <1>1, <1>2

\* Lemma: an operation that the user begins keeps the invariant.
LEMMA BeginStep ==
  ASSUME IInv, NEW o, Begins(o)
  PROVE  IInv'
<1>1. /\ file' = file /\ data' = data /\ editor' = editor /\ handles' = handles /\ losses' = losses
      /\ panel' = panel \/ (o.kind = "list" /\ panel' = [panel EXCEPT !.shown = "skeleton"])
      /\ dialog' = dialog \/ (dialog # <<>> /\ dialog' = Tail(dialog))
      /\ version' \in 0..MaxVersion /\ Fresh(o) /\ Aimed(o)
  BY DEF Begins, Aimed
<1>2. /\ Room /\ ops' = Started(ops, o)
      /\ clicks < MaxClicks /\ clicks' = clicks + 1
      /\ home' = IF o.kind = "rename" \/ (Changes(o) /\ o.at = home) THEN NoPath ELSE home
  BY DEF Begins, Begin
<1>3. PanelTypeOK /\ ops \in Table
  BY Types DEF IInv
<1>4. PICK s \in Slot : Entered(ops, o, ops', s)
  BY <1>1, <1>2, <1>3, FreeSlot, StartedEnters DEF Fresh
<1>5. PanelTypeOK'
  <2>1. ops' \in Table /\ \A t \in At(ops') : ops'[t].kind # "list" => ops'[t].at \in Path /\ ops'[t].meant \in Path
    <3>1. \A t \in At(ops) : ops[t].kind # "list" => ops[t].at \in Path /\ ops[t].meant \in Path
      BY <1>3, Types DEF At, Busy
    <3> QED
      BY <1>1, <1>3, <1>4, <3>1, EnteredPaths
  <2>2. dialog' \in Seq(Question) /\ Len(dialog') <= 2
    BY <1>1, <1>3, Types, Answered
  <2>3. clicks' \in 0..MaxClicks
    <3>1. clicks \in 0..MaxClicks /\ MaxClicks \in Nat
      BY <1>3, Types, PanelAssumption, Zenon
    <3> QED
      BY <1>2, <3>1
  <2>4. panel' \in [path: Dirs, shown: Dirs \cup {"skeleton", "empty"}]
    <3>1. panel \in [path: Dirs, shown: Dirs \cup {"skeleton", "empty"}]
      BY <1>3 DEF PanelTypeOK
    <3> QED
      BY <1>1, <3>1
  <2>5. home' \in Path \cup {NoPath}
    BY <1>2, <1>3, Types
  <2> QED
    BY <1>1, <1>3, <2>1, <2>2, <2>3, <2>4, <2>5 DEF PanelTypeOK, Table, At, Busy
<1>6. Sound(ops', file, data)
  BY <1>1, <1>3, <1>4, EnteredSound DEF IInv
<1>7. HomeInv'
  <2>1. CASE home' = NoPath
    BY <2>1 DEF HomeInv, Stored
  <2>2. CASE home' # NoPath
    <3>1. home' = home /\ (Changes(o) => o.kind # "rename" /\ o.at # home)
      BY <1>2, <2>2 DEF Changes
    <3>2. /\ editor.view # "closed" /\ file[home] # 0 /\ Decoded(data[file[home]]) = editor.orig
          /\ Untouched(home, ops, file)
      BY <2>2, <3>1 DEF IInv, HomeInv, Stored
    <3>3. Untouched(home, ops', file)
      BY <1>1, <1>3, <1>4, <3>1, <3>2, EnteredUntouched
    <3> QED
      BY <1>1, <3>1, <3>2, <3>3 DEF HomeInv, Stored
  <2> QED
    BY <2>1, <2>2
<1>8. HandleInv'
  <2> SUFFICES ASSUME NEW t \in handles
               PROVE  ops'[t].kind \in {"read", "write"} /\ ops'[t].stage # "opening"
    BY <1>1 DEF HandleInv
  <2>1. t \in Slot /\ ops[t].kind \in {"read", "write"} /\ ops[t].stage # "opening"
    BY <1>3, Types DEF IInv, HandleInv
  <2>2. t # s /\ ops'[t].kind = ops[t].kind
    BY <1>1, <1>3, <1>4, <2>1, EnteredFacts
  <2>3. t \in At(ops')
    BY <2>1, <2>2 DEF At
  <2>4. Fades(ops[t], ops'[t])
    BY <1>1, <1>3, <1>4, <2>1, <2>2, <2>3, EnteredFacts
  <2> QED
    BY <2>1, <2>4 DEF Fades
<1>9. ShownIsCurrent'
  <2>1. CASE panel' = panel
    <3>1. panel.shown \in Dirs => panel.shown = panel.path
      BY DEF IInv, ShownIsCurrent
    <3>2. ASSUME panel.shown = "skeleton"
          PROVE  \E t \in Slot : ops'[t].kind = "list"
      <4>1. PICK t \in Busy : ops[t].kind = "list"
        BY <3>2 DEF IInv, ShownIsCurrent
      <4>2. t \in Slot /\ t # s /\ ops'[t].kind = "list"
        BY <1>1, <1>3, <1>4, <4>1, EnteredFacts DEF Busy
      <4> QED
        BY <4>2
    <3> QED
      BY <2>1, <3>1, <3>2 DEF ShownIsCurrent, Busy
  <2>2. CASE o.kind = "list" /\ panel' = [panel EXCEPT !.shown = "skeleton"]
    <3>1. panel'.shown = "skeleton"
      BY <1>3, <2>2, Types
    <3>2. ops'[s].kind = "list"
      BY <1>1, <1>3, <1>4, <2>2, EnteredFacts
    <3> QED
      BY <1>4, <3>1, <3>2, Tokens DEF ShownIsCurrent, Busy
  <2> QED
    BY <1>1, <2>1, <2>2
<1> QED
  BY <1>1, <1>5, <1>6, <1>7, <1>8, <1>9 DEF IInv

\* Lemma: so does what the user does besides.
LEMMA QuietStep ==
  ASSUME IInv, Quiet
  PROVE  IInv'
<1>1. PanelTypeOK'
  BY PanelAssumption DEF IInv, PanelTypeOK, Quiet, Busy
<1>2. HomeInv'
  BY DEF IInv, HomeInv, Stored, Quiet
<1> QED
  BY <1>1, <1>2 DEF IInv, Quiet, HandleInv, ShownIsCurrent, Busy

-----------------------------------------------------------------------------
(* The replies.                                                            *)
Paths(table) == \A t \in At(table) : table[t].kind # "list" => table[t].at \in Path /\ table[t].meant \in Path

\* Lemma: the table without the operation of slot s.
LEMMA EndedFacts ==
  ASSUME IInv, NEW s \in Slot
  PROVE  /\ Ended(s) \in Table /\ Ended(s)[s].kind = "none"
         /\ \A t \in Slot \ {s} : Ended(s)[t] = ops[t]
         /\ Paths(Ended(s)) /\ Sound(Ended(s), file, data)
         /\ \A h, F : Untouched(h, ops, F) => Untouched(h, Ended(s), F)
<1>1. ops \in Table
  BY Types DEF IInv
<1>2. /\ Ended(s) \in Table /\ Ended(s)[s] = Idle
      /\ \A t \in Slot \ {s} : Ended(s)[t] = ops[t]
  BY <1>1 DEF Ended, Table
<1>3. \A t \in Slot : Ended(s)[t] = ops[t] \/ Ended(s)[t] = Idle
  BY <1>2
<1>4. Sound(Ended(s), file, data)
  BY <1>3, FewerSound DEF IInv
<1>5. \A h, F : Untouched(h, ops, F) => Untouched(h, Ended(s), F)
  BY <1>3, FewerUntouched
<1>6. Paths(Ended(s))
  <2>1. \A t \in At(Ended(s)) : t \in Busy /\ Ended(s)[t] = ops[t]
    BY <1>3 DEF At, Busy, Idle
  <2> QED
    BY <2>1, Types DEF IInv, Paths
<1> QED
  BY <1>2, <1>4, <1>5, <1>6 DEF Idle

\* Lemma: the directory of now is listed again.
LEMMA ListFacts ==
  ASSUME IInv, NEW table \in Table, Paths(table), \E s \in Slot : table[s].kind = "none"
  PROVE  LET next == Started(table, List(panel.path))
         IN  /\ next \in Table /\ Paths(next)
             /\ \E t \in Slot : next[t].kind = "list"
             /\ \A t \in Slot : table[t].kind # "none" =>
                  next[t].kind = table[t].kind /\ next[t].stage = table[t].stage
             /\ \A F, D : Sound(table, F, D) => Sound(next, F, D)
             /\ \A h, F : Untouched(h, table, F) => Untouched(h, next, F)
<1> DEFINE o == List(panel.path)
           q == <<panel.path, "">>
           next == Started(table, o)
<1>1. q \in AnyPath
  BY Types, Tokens DEF IInv
<1>2. o = Op("list", q, q)
  BY DEF List
<1> HIDE DEF q
<1>3. Fresh(o) /\ o.kind = "list" /\ Aimed(o)
  BY <1>1, <1>2, OpFresh DEF Aimed
<1>4. o \in Operation
  BY <1>3 DEF Fresh
<1> HIDE DEF o
<1>5. PICK s \in Slot : Entered(table, o, next, s)
  BY <1>4, StartedEnters
<1> HIDE DEF next
<1>6. next \in Table /\ Paths(next)
  BY <1>3, <1>5, EnteredPaths DEF Paths
<1>7. next[s].kind = "list"
  BY <1>3, <1>5, EnteredFacts
<1>8. ASSUME NEW t \in Slot, table[t].kind # "none"
      PROVE  next[t].kind = table[t].kind /\ next[t].stage = table[t].stage
  <2>1. t # s /\ next[t].kind = table[t].kind
    BY <1>3, <1>5, <1>8, EnteredFacts
  <2>2. t \in At(next)
    BY <1>8, <2>1 DEF At
  <2>3. Fades(table[t], next[t])
    BY <1>3, <1>5, <2>1, <2>2, EnteredFacts
  <2> QED
    BY <2>3 DEF Fades
<1>9. ASSUME NEW F, NEW D, Sound(table, F, D)
      PROVE  Sound(next, F, D)
  BY <1>3, <1>5, <1>9, EnteredSound
<1>10. ASSUME NEW h, NEW F, Untouched(h, table, F)
       PROVE  Untouched(h, next, F)
  <2>1. ~Changes(o)
    BY <1>3 DEF Changes
  <2> QED
    BY <1>3, <1>5, <1>10, <2>1, EnteredUntouched
<1>11. /\ next \in Table /\ Paths(next)
       /\ \E t \in Slot : next[t].kind = "list"
       /\ \A t \in Slot : table[t].kind # "none" =>
            next[t].kind = table[t].kind /\ next[t].stage = table[t].stage
       /\ \A F, D : Sound(table, F, D) => Sound(next, F, D)
       /\ \A h, F : Untouched(h, table, F) => Untouched(h, next, F)
  BY <1>5, <1>6, <1>7, <1>8, <1>9, <1>10
<1> QED
  BY <1>11 DEF next, o

\* Lemma: one operation goes on, and does not change what it was not about to change.
LEMMA SlotUntouched ==
  ASSUME NEW table \in Table, NEW h, NEW F, Untouched(h, table, F), NEW s \in At(table),
         NEW q, q.kind = table[s].kind, q.at = table[s].at,
         Changes(q) => (q.ino # 0 => q.ino # F[h]), NEW G, G[h] = F[h]
  PROVE  Untouched(h, [table EXCEPT ![s] = q], G)
<1> DEFINE next == [table EXCEPT ![s] = q]
<1>1. s \in Slot /\ DOMAIN table = Slot
  BY DEF At, Table
<1>2. next[s] = q /\ \A t \in Slot \ {s} : next[t] = table[t]
  BY <1>1
<1> HIDE DEF next
<1>3. At(next) = At(table)
  BY <1>2 DEF At
<1>4. ASSUME NEW t \in At(next), Changes(next[t])
      PROVE  next[t].kind # "rename" /\ next[t].at # h /\ (next[t].ino # 0 => next[t].ino # G[h])
  <2>1. CASE t = s
    BY <1>2, <1>3, <1>4, <2>1 DEF Untouched, Changes
  <2>2. CASE t # s
    BY <1>2, <1>3, <1>4, <2>2 DEF Untouched, At
  <2> QED
    BY <2>1, <2>2
<1>5. Untouched(h, next, G)
  BY <1>4 DEF Untouched
<1> QED
  BY <1>5 DEF next

\* Lemma: an operation ends without a trace outside the table.
LEMMA EndStep ==
  ASSUME IInv, NEW s \in Busy, ops' = Ended(s), UNCHANGED <<file, data, editor, home>>,
         handles' = handles \ {s}, PanelTypeOK', ShownIsCurrent'
  PROVE  IInv'
<1>1. s \in Slot
  BY DEF Busy
<1>2. Sound(ops', file, data)
  BY <1>1, EndedFacts
<1>3. HomeInv'
  <2>1. Untouched(home, ops, file) => Untouched(home, ops', file)
    BY <1>1, EndedFacts
  <2> QED
    BY <2>1 DEF IInv, HomeInv, Stored
<1>4. HandleInv'
  <2> SUFFICES ASSUME NEW t \in handles \ {s}
               PROVE  ops'[t].kind \in {"read", "write"} /\ ops'[t].stage # "opening"
    BY DEF HandleInv
  <2>1. t \in Slot \ {s}
    BY Types DEF IInv
  <2> QED
    BY <1>1, <2>1, EndedFacts DEF IInv, HandleInv
<1> QED
  BY <1>2, <1>3, <1>4 DEF IInv

\* Lemma: its types, if the panel keeps them.
LEMMA EndTypes ==
  ASSUME IInv, NEW s \in Busy, ops' = Ended(s), UNCHANGED <<file, data, dialog, editor, home, version, clicks, losses>>,
         handles' \subseteq handles, panel' \in [path: Dirs, shown: Dirs \cup {"skeleton", "empty"}]
  PROVE  PanelTypeOK'
<1>1. ops' \in Table /\ Paths(ops')
  BY EndedFacts DEF Busy
<1> QED
  BY <1>1 DEF IInv, PanelTypeOK, Table, Paths, At, Busy

\* Lemma: a skeleton still waits when something else than a listing ends.
LEMMA EndShown ==
  ASSUME IInv, NEW s \in Busy, ops[s].kind # "list", ops' = Ended(s), panel' = panel
  PROVE  ShownIsCurrent'
<1>1. ASSUME panel.shown = "skeleton" PROVE \E t \in Slot : ops'[t].kind = "list"
  <2>1. PICK t \in Busy : ops[t].kind = "list"
    BY <1>1 DEF IInv, ShownIsCurrent
  <2>2. t \in Slot \ {s}
    BY <2>1 DEF Busy
  <2> QED
    BY <2>1, <2>2, EndedFacts DEF Busy
<1> QED
  BY <1>1 DEF IInv, ShownIsCurrent, Busy

\* Lemma: a listing is answered.
LEMMA ListStep ==
  ASSUME IInv, NEW s \in Slot, ListReply(s) \/ ListFails(s)
  PROVE  IInv'
<1>1. /\ ops[s].kind = "list" /\ ops' = Ended(s)
      /\ panel' = Arrived(s) \/ panel' = [panel EXCEPT !.shown = "empty"]
      /\ UNCHANGED <<file, data, dialog, editor, handles, version, clicks, losses, home>>
  BY DEF ListReply, ListFails
<1>2. s \in Busy /\ ops[s] \in Operation
  BY <1>1, SlotCases, Types DEF Busy, IInv, Table
<1>3. ops[s].at[1] \in Dirs
  BY <1>2 DEF Operation
<1>4. panel \in [path: Dirs, shown: Dirs \cup {"skeleton", "empty"}]
  BY DEF IInv, PanelTypeOK
<1>5. /\ panel' \in [path: Dirs, shown: Dirs \cup {"skeleton", "empty"}]
      /\ panel'.shown \in Dirs => panel'.shown = panel'.path
      /\ panel'.shown # "skeleton"
  <2>1. CASE panel' = Arrived(s)
    BY <1>3, <2>1, Tokens DEF Arrived
  <2>2. CASE panel' = [panel EXCEPT !.shown = "empty"]
    BY <1>4, <2>2, Tokens
  <2> QED
    BY <1>1, <2>1, <2>2
<1>6. ShownIsCurrent'
  BY <1>5 DEF ShownIsCurrent
<1>7. handles' = handles \ {s}
  BY <1>1 DEF IInv, HandleInv
<1>8. PanelTypeOK'
  BY <1>1, <1>2, <1>5, EndTypes
<1> QED
  BY <1>1, <1>2, <1>6, <1>7, <1>8, EndStep

\* Lemma: an operation fails before it has opened anything.
LEMMA FailStep ==
  ASSUME IInv, NEW s \in Slot, EntryFails(s) \/ OpenFails(s)
  PROVE  IInv'
<1>1. /\ ops[s].kind \in {"remove", "rename", "read", "write"}
      /\ ops[s].kind \in {"remove", "rename"} \/ ops[s].stage = "opening"
      /\ ops' = Ended(s)
      /\ UNCHANGED <<file, data, panel, dialog, editor, handles, version, clicks, losses, home>>
  BY DEF EntryFails, OpenFails
<1>2. s \in Busy /\ ops[s].kind # "list"
  BY <1>1 DEF Busy
<1>3. handles' = handles \ {s}
  BY <1>1 DEF IInv, HandleInv
<1>4. PanelTypeOK'
  BY <1>1, <1>2, EndTypes DEF IInv, PanelTypeOK
<1>5. ShownIsCurrent'
  BY <1>1, <1>2, EndShown
<1> QED
  BY <1>1, <1>2, <1>3, <1>4, <1>5, EndStep

\* Lemma: an operation ends, or all do, and the directory of now is listed again.
LEMMA ReopenStep ==
  ASSUME IInv, NEW table \in Table, Paths(table), \E s \in Slot : table[s].kind = "none",
         \A t \in handles' : t \in handles /\ table[t] = ops[t],
         ops' = Started(table, List(panel.path)), panel' = [panel EXCEPT !.shown = "skeleton"],
         UNCHANGED <<dialog, editor, version, clicks>>,
         file' \in [Path -> 0..MaxInode], data' \in [1..MaxInode -> Seq(Int)], losses' \in 0..MaxLosses,
         home' \in Path \cup {NoPath}, OneFileEach(file'), Sound(table, file', data'),
         home' # NoPath => editor.view # "closed", Stored(home', editor.orig, table, file', data')
  PROVE  IInv'
<1>1. /\ ops' \in Table /\ Paths(ops')
      /\ \E t \in Slot : ops'[t].kind = "list"
      /\ \A t \in Slot : table[t].kind # "none" =>
           ops'[t].kind = table[t].kind /\ ops'[t].stage = table[t].stage
      /\ Sound(ops', file', data')
      /\ Untouched(home', table, file') => Untouched(home', ops', file')
  BY ListFacts
<1>2. panel' \in [path: Dirs, shown: Dirs \cup {"skeleton", "empty"}] /\ panel'.shown = "skeleton"
  BY DEF IInv, PanelTypeOK
<1>3. handles' \subseteq Slot
  BY Types DEF IInv
<1>4. PanelTypeOK'
  BY <1>1, <1>2, <1>3 DEF IInv, PanelTypeOK, Table, Paths, At, Busy
<1>5. HomeInv'
  BY <1>1 DEF HomeInv, Stored
<1>6. HandleInv'
  <2> SUFFICES ASSUME NEW t \in handles'
               PROVE  ops'[t].kind \in {"read", "write"} /\ ops'[t].stage # "opening"
    BY DEF HandleInv
  <2>1. t \in handles /\ table[t] = ops[t] /\ t \in Slot
    BY <1>3
  <2>2. ops[t].kind \in {"read", "write"} /\ ops[t].stage # "opening"
    BY <2>1 DEF IInv, HandleInv
  <2> QED
    BY <1>1, <2>1, <2>2
<1>7. ShownIsCurrent'
  BY <1>1, <1>2, Tokens DEF ShownIsCurrent, Busy
<1> QED
  BY <1>1, <1>4, <1>5, <1>6, <1>7 DEF IInv

\* Lemma: the link is lost.
LEMMA LostStep ==
  ASSUME IInv, LinkLost
  PROVE  IInv'
<1> DEFINE table == [t \in Slot |-> Idle]
<1>1. table \in Table /\ \A t \in Slot : table[t].kind = "none"
  BY DEF Table, Idle
<1>2. \A t \in Slot : table[t] = Idle
  OBVIOUS
<1>3. /\ ops' = Started(table, List(panel.path)) /\ losses < MaxLosses /\ losses' = losses + 1
      /\ handles' = {} /\ panel' = [panel EXCEPT !.shown = "skeleton"]
      /\ UNCHANGED <<file, data, dialog, editor, version, clicks, home>>
  BY DEF LinkLost
<1> HIDE DEF table
<1>4. At(table) = {}
  BY <1>1 DEF At
<1>5. Paths(table) /\ Sound(table, file, data)
  BY <1>4 DEF Paths, Sound
<1>6. losses' \in 0..MaxLosses
  <2>1. losses \in 0..MaxLosses /\ MaxLosses \in Nat
    BY Types, PanelAssumption, Zenon DEF IInv
  <2> QED
    BY <1>3, <2>1
<1>7. \E s \in Slot : table[s].kind = "none"
  <2>1. MaxOps \in Nat \ {0}
    BY PanelAssumption, Zenon
  <2>2. 1 \in Slot
    BY <2>1 DEF Slot
  <2> QED
    BY <1>1, <2>2
<1>8. /\ file' \in [Path -> 0..MaxInode] /\ data' \in [1..MaxInode -> Seq(Int)]
      /\ home' \in Path \cup {NoPath} /\ OneFileEach(file')
  BY <1>3, Types DEF IInv
<1>9. (home' # NoPath => editor.view # "closed") /\ Stored(home', editor.orig, table, file', data')
  BY <1>3, <1>4 DEF IInv, HomeInv, Stored, Untouched
<1> QED
  BY <1>1, <1>3, <1>5, <1>6, <1>7, <1>8, <1>9, ReopenStep

\* Lemma: files may change where nobody is alone.
LEMMA FilesSound ==
  ASSUME NEW table, NEW F, NEW D, Sound(table, F, D), NEW G,
         \A t \in At(table) : table[t].alone /\ table[t].kind # "list" => G[table[t].at] = F[table[t].at]
  PROVE  Sound(table, G, D)
<1>1. ASSUME NEW t \in At(table) PROVE Transferring(table[t], G, D)
  <2>1. Transferring(table[t], F, D)
    BY DEF Sound
  <2>2. table[t].stage # "opening" => table[t].kind # "list"
    BY <2>1 DEF Transferring
  <2> QED
    BY <2>1, <2>2 DEF Transferring
<1>2. ASSUME NEW t \in At(table), NEW x \in At(table), t # x PROVE Apart(table[t], table[x], G)
  <2>1. Apart(table[t], table[x], F)
    BY <1>2 DEF Sound
  <2> QED
    BY <2>1 DEF Apart
<1> QED
  BY <1>1, <1>2 DEF Sound

\* Lemma: a file is removed or renamed.
LEMMA EntryStep ==
  ASSUME IInv, NEW s \in Slot, EntryReply(s)
  PROVE  IInv'
<1> DEFINE o == ops[s]
           q == o.at
           table == Ended(s)
<1>1. o.kind \in {"remove", "rename"} /\ file[q] # 0
  BY DEF EntryReply
<1>2. s \in Busy /\ s \in At(ops)
  BY <1>1 DEF Busy, At
<1>3. q \in Path
  BY <1>1, <1>2, Types DEF IInv
<1>4. PICK n \in Names \ {q[2]} :
        file' = IF o.kind = "remove" THEN [file EXCEPT ![q] = 0]
                ELSE [file EXCEPT ![q] = 0, ![<<q[1], n>>] = file[q]]
  BY DEF EntryReply
<1>5. /\ ops' = Started(table, List(panel.path)) /\ panel' = [panel EXCEPT !.shown = "skeleton"]
      /\ UNCHANGED <<data, dialog, editor, handles, version, clicks, losses, home>>
  BY DEF EntryReply, Reopened
<1>6. /\ table \in Table /\ table[s].kind = "none" /\ \A t \in Slot \ {s} : table[t] = ops[t]
      /\ Paths(table) /\ Sound(table, file, data)
      /\ Untouched(home, ops, file) => Untouched(home, table, file)
  BY EndedFacts
<1>7. file \in [Path -> 0..MaxInode] /\ MaxInode \in Nat
  BY Types, PanelAssumption, Zenon DEF IInv
<1> DEFINE r == <<q[1], n>>
<1>8. r \in Path /\ r # q
  BY <1>3 DEF Path
<1>9. file' = IF o.kind = "remove" THEN [file EXCEPT ![q] = 0] ELSE [file EXCEPT ![q] = 0, ![r] = file[q]]
  BY <1>4
<1> HIDE DEF q, r, table
<1>10. file' \in [Path -> 0..MaxInode]
  BY <1>3, <1>7, <1>8, <1>9
<1>11. OneFileEach(file')
  <2>1. OneFileEach(file)
    BY DEF IInv
  <2>2. CASE o.kind = "remove"
    BY <1>3, <1>7, <1>9, <2>1, <2>2 DEF OneFileEach
  <2>3. CASE o.kind = "rename"
    <3>1. file' = [file EXCEPT ![q] = 0, ![r] = file[q]]
      BY <1>9, <2>3
    <3>2. \A p \in Path : file'[p] = IF p = r THEN file[q] ELSE IF p = q THEN 0 ELSE file[p]
      BY <1>3, <1>7, <1>8, <3>1
    <3> QED
      BY <1>3, <1>8, <2>1, <3>2 DEF OneFileEach
  <2> QED
    BY <1>1, <2>2, <2>3
<1>12. \A p \in Path : o.kind # "rename" /\ p # q => file'[p] = file[p]
  BY <1>1, <1>3, <1>7, <1>9
<1>13. Sound(table, file', data)
  <2>1. ASSUME NEW t \in At(table), table[t].alone, table[t].kind # "list"
        PROVE  file'[table[t].at] = file[table[t].at]
    <3>1. t \in Slot \ {s} /\ table[t] = ops[t] /\ t \in At(ops)
      BY <1>6, <2>1 DEF At
    <3>2. Apart(ops[t], o, file)
      BY <1>2, <3>1 DEF IInv, Sound
    <3>3. o.kind # "rename" /\ q # ops[t].at
      BY <1>1, <2>1, <3>1, <3>2 DEF Apart, Changes, q
    <3>4. ops[t].at \in Path
      BY <2>1, <3>1, Types DEF IInv, At, Busy
    <3> QED
      BY <1>12, <3>1, <3>3, <3>4
  <2> QED
    BY <1>6, <2>1, FilesSound
<1>14. Stored(home, editor.orig, table, file', data)
  <2> SUFFICES ASSUME home # NoPath
               PROVE  file'[home] # 0 /\ Decoded(data[file'[home]]) = editor.orig /\ Untouched(home, table, file')
    BY DEF Stored
  <2>1. /\ file[home] # 0 /\ Decoded(data[file[home]]) = editor.orig
        /\ Untouched(home, ops, file) /\ home \in Path
    BY Types DEF IInv, HomeInv, Stored
  <2>2. o.kind # "rename" /\ q # home
    BY <1>1, <1>2, <2>1 DEF Untouched, Changes, q
  <2>3. file'[home] = file[home]
    BY <1>12, <2>1, <2>2
  <2>4. Untouched(home, table, file')
    BY <1>6, <2>1, <2>3 DEF Untouched
  <2> QED
    BY <2>1, <2>3, <2>4
<1>15. \A t \in handles' : t \in handles /\ table[t] = ops[t]
  <2>1. \A t \in handles : t \in Slot /\ t # s
    BY <1>1, Types DEF IInv, HandleInv
  <2> QED
    BY <1>5, <1>6, <2>1
<1>16. data' \in [1..MaxInode -> Seq(Int)] /\ losses' \in 0..MaxLosses /\ home' \in Path \cup {NoPath}
  BY <1>5, Types DEF IInv
<1>17. (home' # NoPath => editor.view # "closed") /\ Sound(table, file', data') /\ Stored(home', editor.orig, table, file', data')
  BY <1>5, <1>13, <1>14 DEF IInv, HomeInv
<1>18. \E t \in Slot : table[t].kind = "none"
  BY <1>6
<1>19. ops' = Started(table, List(panel.path))
  BY <1>5
<1> QED
  BY <1>5, <1>6, <1>10, <1>11, <1>15, <1>16, <1>17, <1>18, <1>19, ReopenStep

\* Lemma: one operation goes on while the user waits: the invariant, from what
\* is particular about the step.
LEMMA GoesOnStep ==
  ASSUME IInv, NEW s \in Busy, NEW q \in Operation, ops' = [ops EXCEPT ![s] = q],
         q.kind = ops[s].kind, q.at = ops[s].at, q.meant = ops[s].meant,
         q.kind \in {"read", "write"}, q.stage # "opening",
         handles' \subseteq handles \cup {s},
         UNCHANGED <<panel, dialog, editor, version, clicks, losses, home>>,
         file' \in [Path -> 0..MaxInode], data' \in [1..MaxInode -> Seq(Int)],
         OneFileEach(file'), Sound(ops', file', data'),
         home # NoPath =>
           /\ file'[home] = file[home] /\ data'[file[home]] = data[file[home]]
           /\ Changes(q) => (q.ino # 0 => q.ino # file[home])
  PROVE  IInv'
<1>1. ops \in Table /\ s \in Slot /\ s \in At(ops)
  BY Types DEF IInv, Busy, At
<1>2. ops'[s] = q /\ (\A t \in Slot \ {s} : ops'[t] = ops[t]) /\ ops' \in Table
  BY <1>1 DEF Table
<1>3. PanelTypeOK'
  <2>1. \A t \in At(ops') : ops'[t].kind # "list" => ops'[t].at \in Path /\ ops'[t].meant \in Path
    <3>1. ASSUME NEW t \in At(ops'), ops'[t].kind # "list" PROVE ops'[t].at \in Path /\ ops'[t].meant \in Path
      <4>1. t \in Slot
        BY DEF At
      <4>2. ops[t].kind = ops'[t].kind /\ ops[t].at = ops'[t].at /\ ops[t].meant = ops'[t].meant
        BY <1>2, <4>1
      <4>3. t \in Busy
        BY <4>1, <4>2 DEF At, Busy
      <4> QED
        BY <3>1, <4>2, <4>3, Types DEF IInv
    <3> QED
      BY <3>1
  <2>2. handles' \subseteq Slot
    BY <1>1, Types DEF IInv
  <2> QED
    BY <1>2, <2>1, <2>2 DEF IInv, PanelTypeOK, Table, At, Busy
<1>4. HomeInv'
  <2>1. CASE home = NoPath
    BY <2>1 DEF HomeInv, Stored
  <2>2. CASE home # NoPath
    <3>1. /\ editor.view # "closed" /\ file[home] # 0 /\ Decoded(data[file[home]]) = editor.orig
          /\ Untouched(home, ops, file)
      BY <2>2 DEF IInv, HomeInv, Stored
    <3>2. Untouched(home, ops', file')
      BY <1>1, <2>2, <3>1, SlotUntouched
    <3> QED
      BY <2>2, <3>1, <3>2 DEF HomeInv, Stored
  <2> QED
    BY <2>1, <2>2
<1>5. HandleInv'
  <2> SUFFICES ASSUME NEW t \in handles'
               PROVE  ops'[t].kind \in {"read", "write"} /\ ops'[t].stage # "opening"
    BY DEF HandleInv
  <2>1. CASE t = s
    BY <1>2, <2>1
  <2>2. CASE t # s
    BY <1>2, <2>2, Types DEF IInv, HandleInv
  <2> QED
    BY <2>1, <2>2
<1>6. ShownIsCurrent'
  <2>1. ASSUME panel.shown = "skeleton" PROVE \E t \in Slot : ops'[t].kind = "list"
    <3>1. PICK t \in Busy : ops[t].kind = "list"
      BY <2>1 DEF IInv, ShownIsCurrent
    <3> QED
      BY <1>2, <3>1 DEF Busy
  <2> QED
    BY <2>1 DEF IInv, ShownIsCurrent, Busy
<1> QED
  BY <1>3, <1>4, <1>5, <1>6 DEF IInv

-----------------------------------------------------------------------------
(* Transfers.                                                              *)

\* A transfer o goes on as q.
Moves(o, q, stage, ino, pos, text, failed) ==
  /\ q \in Operation /\ q.kind = o.kind /\ q.at = o.at /\ q.meant = o.meant /\ q.alone = o.alone
  /\ q.stage = stage /\ q.ino = ino /\ q.pos = pos /\ q.text = text /\ q.failed = failed

\* Lemma: it opens a file.
LEMMA OpenMoves ==
  ASSUME NEW o \in Operation, NEW i \in 0..MaxInode
  PROVE  Moves(o, [o EXCEPT !.stage = "moving", !.ino = i], "moving", i, o.pos, o.text, o.failed)
BY DEF Operation, Moves

\* Lemma: a chunk of it is read.
LEMMA ReadMoves ==
  ASSUME NEW o \in Operation, NEW t \in Seq(Int), NEW n \in Nat, NEW st \in {"opening", "moving", "closing"}
  PROVE  Moves(o, [o EXCEPT !.text = t, !.pos = n, !.stage = st], st, o.ino, n, t, o.failed)
BY DEF Operation, Moves

\* Lemma: or written.
LEMMA WriteMoves ==
  ASSUME NEW o \in Operation, NEW n \in Nat, NEW st \in {"opening", "moving", "closing"}
  PROVE  Moves(o, [o EXCEPT !.pos = n, !.stage = st], st, o.ino, n, o.text, o.failed)
BY DEF Operation, Moves

\* Lemma: it is at its end.
LEMMA CloseMoves ==
  ASSUME NEW o \in Operation
  PROVE  /\ Moves(o, [o EXCEPT !.stage = "closing"], "closing", o.ino, o.pos, o.text, o.failed)
         /\ Moves(o, [o EXCEPT !.stage = "closing", !.failed = TRUE], "closing", o.ino, o.pos, o.text, TRUE)
BY DEF Operation, Moves

\* The operation q in slot s leaves to everyone who is alone what was theirs.
Spares(table, s, q, F, D, G, E) ==
  \A t \in At(table) \ {s} : table[t].alone /\ table[t].kind # "list" =>
    /\ G[table[t].at] = F[table[t].at]
    /\ table[t].stage # "opening" => E[table[t].ino] = D[table[t].ino]
    /\ Changes(q) \/ Changes(table[t]) => (q.ino # 0 => q.ino # F[table[t].at])

\* And is spared by them, if it is alone.
Spared(table, s, q, G) ==
  q.alone => \A t \in At(table) \ {s} :
    Changes(q) \/ Changes(table[t]) => (table[t].ino # 0 => table[t].ino # G[q.at])

\* Lemma: a table stays sound as one transfer goes on.
LEMMA MoveSound ==
  ASSUME NEW table \in Table, NEW F, NEW D, Sound(table, F, D), NEW s \in At(table),
         NEW q, q.kind = table[s].kind, q.at = table[s].at, q.alone = table[s].alone,
         NEW G, NEW E, Transferring(q, G, E), Spares(table, s, q, F, D, G, E), Spared(table, s, q, G)
  PROVE  Sound([table EXCEPT ![s] = q], G, E)
<1> DEFINE next == [table EXCEPT ![s] = q]
<1>1. \A t \in At(table) \ {s} : table[t].alone /\ table[t].kind # "list" =>
        /\ G[table[t].at] = F[table[t].at]
        /\ table[t].stage # "opening" => E[table[t].ino] = D[table[t].ino]
        /\ Changes(q) \/ Changes(table[t]) => (q.ino # 0 => q.ino # F[table[t].at])
  BY DEF Spares
<1>2. q.alone => \A t \in At(table) \ {s} :
        Changes(q) \/ Changes(table[t]) => (table[t].ino # 0 => table[t].ino # G[q.at])
  BY DEF Spared
<1>3. s \in Slot /\ DOMAIN table = Slot
  BY DEF At, Table
<1>4. next[s] = q /\ \A t \in Slot \ {s} : next[t] = table[t]
  BY <1>3
<1> HIDE DEF next
<1>5. At(next) = At(table)
  BY <1>4 DEF At
<1>6. ASSUME NEW t \in At(table), t # s
      PROVE  Transferring(table[t], G, E)
  <2>1. Transferring(table[t], F, D)
    BY DEF Sound
  <2>2. table[t].stage # "opening" => table[t].kind # "list"
    BY <2>1 DEF Transferring
  <2> QED
    BY <1>6, <1>1, <2>1, <2>2 DEF Transferring
<1>7. \A t \in At(next) : Transferring(next[t], G, E)
  BY <1>4, <1>5, <1>6 DEF At
<1>8. ASSUME NEW t \in At(table), NEW x \in At(table), t # x
      PROVE  Apart(next[t], next[x], G)
  <2>1. Apart(table[t], table[x], F) /\ t \in Slot /\ x \in Slot
    BY <1>8 DEF Sound, At
  <2>2. CASE t # s /\ x # s
    <3>1. next[t] = table[t] /\ next[x] = table[x]
      BY <1>4, <2>1, <2>2
    <3> QED
      BY <1>8, <1>1, <1>2, <2>1, <2>2, <3>1 DEF Apart
  <2>3. CASE t = s
    <3>1. next[t] = q /\ next[x] = table[x]
      BY <1>4, <1>8, <2>1, <2>3
    <3> QED
      BY <1>8, <1>1, <1>2, <2>1, <2>3, <3>1 DEF Apart, Changes
  <2>4. CASE x = s
    <3>1. next[t] = table[t] /\ next[x] = q
      BY <1>4, <1>8, <2>1, <2>4
    <3> QED
      BY <1>8, <1>1, <1>2, <2>1, <2>4, <3>1 DEF Apart, Changes
  <2> QED
    BY <2>2, <2>3, <2>4
<1>9. Sound(next, G, E)
  BY <1>5, <1>7, <1>8 DEF Sound
<1> QED
  BY <1>9 DEF next

\* Lemma: nothing of a file is in nothing.
LEMMA NothingReached ==
  ASSUME NEW b \in Seq(Int)
  PROVE  Reached(<<>>, b, 0)
BY DEF Reached

\* Lemma: a transfer in slot s.
LEMMA TransferFacts ==
  ASSUME IInv, NEW s \in Slot, ops[s].kind \in {"read", "write"}
  PROVE  /\ s \in Busy /\ s \in At(ops) /\ ops[s] \in Operation /\ ops[s].at \in Path
         /\ Transferring(ops[s], file, data)
         /\ \A t \in At(ops) \ {s} : Apart(ops[s], ops[t], file) /\ Apart(ops[t], ops[s], file)
         /\ \A t \in At(ops) \ {s} : ops[t].alone /\ ops[t].stage # "opening" =>
              ops[t].ino = file[ops[t].at] /\ ops[t].ino # 0
         /\ \A t \in At(ops) : ops[t].kind # "list" => ops[t].at \in Path /\ ops[t].meant \in Path
<1>1. s \in Busy /\ s \in At(ops)
  BY DEF Busy, At
<1>2. ops[s] \in Operation
  BY <1>1, SlotCases, Types DEF IInv, Table, At
<1>3. \A t \in At(ops) : ops[t].kind # "list" => ops[t].at \in Path /\ ops[t].meant \in Path
  BY Types DEF IInv, At, Busy
<1>4. \A t \in At(ops) : Transferring(ops[t], file, data)
  BY DEF IInv, Sound
<1>5. \A t \in At(ops) \ {s} : Apart(ops[s], ops[t], file) /\ Apart(ops[t], ops[s], file)
  BY <1>1 DEF IInv, Sound
<1>6. \A t \in At(ops) : ops[t].alone /\ ops[t].stage # "opening" =>
              ops[t].ino = file[ops[t].at] /\ ops[t].ino # 0
  BY <1>4 DEF Transferring
<1> QED
  BY <1>1, <1>2, <1>3, <1>4, <1>5, <1>6

\* Lemma: a transfer opens a file that there is, and empties it to write.
LEMMA OpenThere ==
  ASSUME IInv, NEW s \in Slot, ops[s].kind \in {"read", "write"}, ops[s].stage = "opening",
         file[ops[s].at] # 0, file' = file,
         ops' = [ops EXCEPT ![s].stage = "moving", ![s].ino = file[ops[s].at]],
         data' = IF ops[s].kind = "write" THEN [data EXCEPT ![file[ops[s].at]] = <<>>] ELSE data,
         handles' = handles \cup {s},
         UNCHANGED <<panel, dialog, editor, version, clicks, losses, home>>
  PROVE  IInv'
<1> DEFINE o == ops[s]
           i == file[o.at]
           q == [o EXCEPT !.stage = "moving", !.ino = i]
<1>1. /\ s \in Busy /\ s \in At(ops) /\ o \in Operation /\ o.at \in Path
      /\ Transferring(o, file, data)
      /\ \A t \in At(ops) \ {s} : Apart(o, ops[t], file) /\ Apart(ops[t], o, file)
      /\ \A t \in At(ops) \ {s} : ops[t].alone /\ ops[t].stage # "opening" =>
           ops[t].ino = file[ops[t].at] /\ ops[t].ino # 0
      /\ \A t \in At(ops) : ops[t].kind # "list" => ops[t].at \in Path /\ ops[t].meant \in Path
  BY TransferFacts
<1>2. /\ file \in [Path -> 0..MaxInode] /\ data \in [1..MaxInode -> Seq(Int)] /\ ops \in Table
      /\ OneFileEach(file) /\ Sound(ops, file, data) /\ MaxInode \in Nat
  BY Types, PanelAssumption, Zenon DEF IInv
<1>3. i \in 0..MaxInode /\ i # 0 /\ i \in 1..MaxInode
  BY <1>1, <1>2
<1>4. /\ q \in Operation /\ q.kind = o.kind /\ q.at = o.at /\ q.meant = o.meant /\ q.alone = o.alone /\ q.failed = o.failed
      /\ q.stage = "moving" /\ q.ino = i /\ q.pos = o.pos /\ q.text = o.text
  <2>1. Moves(o, q, "moving", i, o.pos, o.text, o.failed)
    BY <1>1, <1>3, OpenMoves
  <2> QED
    BY <2>1 DEF Moves
<1>5. ops' = [ops EXCEPT ![s] = q]
  BY <1>2 DEF Table
<1>6. data' = IF o.kind = "write" THEN [data EXCEPT ![i] = <<>>] ELSE data
  OBVIOUS
<1>7. i = file[o.at] /\ o = ops[s]
  OBVIOUS
<1> HIDE DEF o, i, q
<1>8. data' \in [1..MaxInode -> Seq(Int)] /\ \A j \in 1..MaxInode : o.kind # "write" \/ j # i => data'[j] = data[j]
  <2>1. <<>> \in Seq(Int)
    BY EmptySeq
  <2> QED
    BY <1>2, <1>3, <1>6, <2>1
<1>9. Transferring(q, file, data')
  <2>1. o.pos = 0 /\ ~o.failed /\ (o.kind = "read" => o.text = <<>>) /\ o.text \in Seq(Int)
    BY <1>1, <1>7 DEF Transferring, Operation
  <2>2. CASE o.kind = "read"
    <3>1. Reached(q.text, data'[i], q.pos)
      BY <1>3, <1>4, <1>8, <2>1, <2>2, NothingReached
    <3> QED
      BY <1>3, <1>4, <1>7, <2>1, <2>2, <3>1 DEF Transferring
  <2>3. CASE o.kind = "write"
    <3>1. data'[i] = <<>>
      BY <1>2, <1>3, <1>6, <2>3
    <3>2. Reached(data'[i], q.text, q.pos)
      BY <1>4, <2>1, <3>1, NothingReached
    <3> QED
      BY <1>3, <1>4, <1>7, <2>1, <2>3, <3>2 DEF Transferring
  <2> QED
    BY <1>7, <2>2, <2>3
<1>10. \A t \in At(ops) \ {s} : ops[t].alone /\ ops[t].kind # "list" /\ (Changes(o) \/ Changes(ops[t])) =>
         file[ops[t].at] # i
  <2> TAKE t \in At(ops) \ {s}
  <2> HAVE ops[t].alone /\ ops[t].kind # "list" /\ (Changes(o) \/ Changes(ops[t]))
  <2>1. Apart(ops[t], o, file) /\ ops[t].at \in Path
    BY <1>1
  <2>2. o.at # ops[t].at
    BY <1>7, <2>1 DEF Apart
  <2> QED
    BY <1>1, <1>2, <1>3, <1>7, <2>1, <2>2 DEF OneFileEach
<1>11. \A t \in At(ops) \ {s} : ops[t].alone /\ ops[t].kind # "list" =>
         /\ file[ops[t].at] = file[ops[t].at]
         /\ ops[t].stage # "opening" => data'[ops[t].ino] = data[ops[t].ino]
         /\ Changes(q) \/ Changes(ops[t]) => (q.ino # 0 => q.ino # file[ops[t].at])
  <2> TAKE t \in At(ops) \ {s}
  <2> HAVE ops[t].alone /\ ops[t].kind # "list"
  <2>1. ops[t].stage # "opening" => ops[t].ino = file[ops[t].at] /\ ops[t].ino # 0 /\ ops[t].at \in Path
    BY <1>1
  <2>2. ops[t].stage # "opening" => ops[t].ino \in 1..MaxInode
    BY <1>2, <2>1
  <2>3. o.kind = "write" => Changes(o)
    BY DEF Changes
  <2>4. Changes(q) <=> Changes(o)
    BY <1>4 DEF Changes
  <2> QED
    BY <1>4, <1>8, <1>10, <2>1, <2>2, <2>3, <2>4
<1>12. q.alone => \A t \in At(ops) \ {s} : Changes(q) \/ Changes(ops[t]) => (ops[t].ino # 0 => ops[t].ino # file[q.at])
  <2> SUFFICES ASSUME q.alone, NEW t \in At(ops) \ {s}, Changes(q) \/ Changes(ops[t]), ops[t].ino # 0
               PROVE  ops[t].ino # file[q.at]
    OBVIOUS
  <2>1. Apart(o, ops[t], file)
    BY <1>1
  <2>2. ops[t].kind # "list"
    <3>1. Transferring(ops[t], file, data)
      BY <1>2 DEF Sound
    <3> QED
      BY <3>1 DEF Transferring
  <2> QED
    BY <1>4, <1>7, <2>1, <2>2 DEF Apart, Changes
<1>13. Sound(ops', file, data')
  <2>1. Spares(ops, s, q, file, data, file, data')
    BY <1>11 DEF Spares
  <2>2. Spared(ops, s, q, file)
    BY <1>12 DEF Spared
  <2>3. q.kind = ops[s].kind /\ q.at = ops[s].at /\ q.alone = ops[s].alone
    BY <1>4, <1>7
  <2>4. Sound([ops EXCEPT ![s] = q], file, data')
    BY <1>1, <1>2, <1>9, <2>1, <2>2, <2>3, MoveSound
  <2> QED
    BY <1>5, <2>4
<1>14. home # NoPath => data'[file[home]] = data[file[home]] /\ (Changes(q) => q.ino # file[home])
  <2> SUFFICES ASSUME home # NoPath
               PROVE  data'[file[home]] = data[file[home]] /\ (Changes(q) => q.ino # file[home])
    OBVIOUS
  <2>1. home \in Path /\ file[home] # 0 /\ Untouched(home, ops, file)
    BY Types DEF IInv, HomeInv, Stored
  <2>2. file[home] \in 1..MaxInode
    BY <1>2, <2>1
  <2>3. Changes(o) => o.at # home
    BY <1>1, <1>7, <2>1 DEF Untouched
  <2>4. Changes(o) => i # file[home]
    BY <1>1, <1>2, <1>7, <2>1, <2>3 DEF OneFileEach
  <2> QED
    BY <1>4, <1>8, <2>2, <2>4 DEF Changes
<1>15. q.kind \in {"read", "write"} /\ q.stage # "opening" /\ q.kind = ops[s].kind /\ q.at = ops[s].at /\ q.meant = ops[s].meant
  BY <1>4, <1>7
<1> QED
  BY <1>1, <1>2, <1>4, <1>5, <1>8, <1>13, <1>14, <1>15, GoesOnStep

\* Lemma: a free inode is nobody's.
LEMMA NobodyHas ==
  ASSUME NEW i \in FreeInode
  PROVE  /\ i \in 1..MaxInode /\ data[i] = <<>> /\ \A p \in Path : file[p] # i
         /\ \A t \in At(ops) : ops[t].ino # i
<1>1. i \in 1..MaxInode /\ data[i] = <<>> /\ \A p \in Path : file[p] # i
  BY DEF FreeInode
<1>2. \A t \in Busy : ops[t].ino # i
  BY DEF FreeInode
<1>3. At(ops) = Busy
  BY DEF At, Busy
<1> QED
  BY <1>1, <1>2, <1>3

\* Lemma: a transfer makes the file it writes, where nobody who is alone is.
LEMMA OpenNew ==
  ASSUME IInv, NEW s \in Slot, ops[s].kind = "write", ops[s].stage = "opening",
         file[ops[s].at] = 0, NEW i \in FreeInode,
         file' = [file EXCEPT ![ops[s].at] = i], data' = data,
         ops' = [ops EXCEPT ![s].stage = "moving", ![s].ino = i],
         handles' = handles \cup {s},
         UNCHANGED <<panel, dialog, editor, version, clicks, losses, home>>
  PROVE  IInv'
<1> DEFINE o == ops[s]
           q == [o EXCEPT !.stage = "moving", !.ino = i]
<1>1. /\ s \in Busy /\ s \in At(ops) /\ o \in Operation /\ o.at \in Path
      /\ Transferring(o, file, data)
      /\ \A t \in At(ops) \ {s} : Apart(o, ops[t], file) /\ Apart(ops[t], o, file)
      /\ \A t \in At(ops) \ {s} : ops[t].alone /\ ops[t].stage # "opening" =>
           ops[t].ino = file[ops[t].at] /\ ops[t].ino # 0
      /\ \A t \in At(ops) : ops[t].kind # "list" => ops[t].at \in Path /\ ops[t].meant \in Path
  BY TransferFacts
<1>2. /\ file \in [Path -> 0..MaxInode] /\ data \in [1..MaxInode -> Seq(Int)] /\ ops \in Table
      /\ OneFileEach(file) /\ Sound(ops, file, data) /\ MaxInode \in Nat
  BY Types, PanelAssumption, Zenon DEF IInv
<1>3. /\ i \in 1..MaxInode /\ i \in 0..MaxInode /\ i # 0 /\ data[i] = <<>>
      /\ \A p \in Path : file[p] # i
      /\ \A t \in At(ops) : ops[t].ino # i
  BY <1>2, NobodyHas
<1>4. /\ q \in Operation /\ q.kind = o.kind /\ q.at = o.at /\ q.meant = o.meant /\ q.alone = o.alone /\ q.failed = o.failed
      /\ q.stage = "moving" /\ q.ino = i /\ q.pos = o.pos /\ q.text = o.text
  <2>1. Moves(o, q, "moving", i, o.pos, o.text, o.failed)
    BY <1>1, <1>3, OpenMoves
  <2> QED
    BY <2>1 DEF Moves
<1>5. ops' = [ops EXCEPT ![s] = q]
  BY <1>2 DEF Table
<1>6. file' = [file EXCEPT ![o.at] = i] /\ o = ops[s] /\ o.kind = "write" /\ file[o.at] = 0 /\ o.stage = "opening"
  OBVIOUS
<1> HIDE DEF o, q
<1>7. /\ file' \in [Path -> 0..MaxInode] /\ file'[o.at] = i
      /\ \A p \in Path : p # o.at => file'[p] = file[p]
  BY <1>1, <1>2, <1>3, <1>6
<1>8. OneFileEach(file')
  BY <1>2, <1>3, <1>7 DEF OneFileEach
<1>9. Transferring(q, file', data')
  <2>1. o.pos = 0 /\ ~o.failed /\ o.text \in Seq(Int)
    BY <1>1, <1>6 DEF Transferring, Operation
  <2>2. Reached(data'[i], q.text, q.pos)
    BY <1>3, <1>4, <2>1, NothingReached
  <2> QED
    BY <1>3, <1>4, <1>6, <1>7, <2>1, <2>2 DEF Transferring
<1>10. Changes(o) /\ Changes(q) /\ o.kind # "list"
  BY <1>4, <1>6 DEF Changes
<1>11. \A t \in At(ops) \ {s} : ops[t].alone /\ ops[t].kind # "list" => ops[t].at \in Path /\ o.at # ops[t].at
  BY <1>1, <1>10 DEF Apart
<1>12. Spares(ops, s, q, file, data, file', data')
  BY <1>3, <1>4, <1>7, <1>11 DEF Spares
<1>13. Spared(ops, s, q, file')
  BY <1>3, <1>4, <1>7 DEF Spared
<1>14. Sound(ops', file', data')
  <2>1. q.kind = ops[s].kind /\ q.at = ops[s].at /\ q.alone = ops[s].alone
    BY <1>4, <1>6
  <2>2. Sound([ops EXCEPT ![s] = q], file', data')
    BY <1>1, <1>2, <1>9, <1>12, <1>13, <2>1, MoveSound
  <2> QED
    BY <1>5, <2>2
<1>15. home # NoPath =>
         /\ file'[home] = file[home] /\ data'[file[home]] = data[file[home]]
         /\ Changes(q) => (q.ino # 0 => q.ino # file[home])
  <2> SUFFICES ASSUME home # NoPath
               PROVE  file'[home] = file[home] /\ q.ino # file[home]
    OBVIOUS
  <2>1. home \in Path /\ file[home] # 0
    BY Types DEF IInv, HomeInv, Stored
  <2> QED
    BY <1>3, <1>4, <1>6, <1>7, <2>1
<1>16. /\ q.kind \in {"read", "write"} /\ q.stage # "opening" /\ q.kind = ops[s].kind /\ q.at = ops[s].at /\ q.meant = ops[s].meant
       /\ handles' \subseteq handles \cup {s} /\ data' \in [1..MaxInode -> Seq(Int)]
  BY <1>2, <1>4, <1>6
<1> QED
  BY <1>1, <1>4, <1>5, <1>7, <1>8, <1>14, <1>15, <1>16, GoesOnStep

\* Lemma: sftpOpenRead and sftpOpenWrite.
LEMMA OpenedStep ==
  ASSUME IInv, NEW s \in Slot, Opened(s)
  PROVE  IInv'
<1>1. /\ ops[s].kind \in {"read", "write"} /\ ops[s].stage = "opening"
      /\ handles' = handles \cup {s}
      /\ UNCHANGED <<panel, dialog, editor, version, clicks, losses, home>>
  BY DEF Opened
<1>2. CASE /\ file[ops[s].at] # 0 /\ file' = file
           /\ ops' = [ops EXCEPT ![s].stage = "moving", ![s].ino = file[ops[s].at]]
           /\ data' = IF ops[s].kind = "write" THEN [data EXCEPT ![file[ops[s].at]] = <<>>] ELSE data
  BY <1>1, <1>2, OpenThere
<1>3. CASE /\ file[ops[s].at] = 0 /\ ops[s].kind = "write" /\ data' = data
           /\ \E i \in FreeInode : /\ ops' = [ops EXCEPT ![s].stage = "moving", ![s].ino = i]
                                   /\ file' = [file EXCEPT ![ops[s].at] = i]
  <2>1. PICK i \in FreeInode : /\ ops' = [ops EXCEPT ![s].stage = "moving", ![s].ino = i]
                               /\ file' = [file EXCEPT ![ops[s].at] = i]
    BY <1>3
  <2> QED
    BY <1>1, <1>3, <2>1, OpenNew
<1> QED
  BY <1>2, <1>3 DEF Opened

\* Lemma: a transfer goes on with the file it opened.
LEMMA MoveStep ==
  ASSUME IInv, NEW s \in Slot, ops[s].kind \in {"read", "write"}, ops[s].stage = "moving",
         NEW q \in Operation, q.kind = ops[s].kind, q.at = ops[s].at, q.meant = ops[s].meant, q.alone = ops[s].alone,
         q.ino = ops[s].ino, q.stage # "opening", ops' = [ops EXCEPT ![s] = q],
         data' \in [1..MaxInode -> Seq(Int)],
         \A j \in 1..MaxInode : ops[s].kind # "write" \/ j # ops[s].ino => data'[j] = data[j],
         Transferring(q, file, data'),
         UNCHANGED <<file, panel, dialog, editor, handles, version, clicks, losses, home>>
  PROVE  IInv'
<1>1. /\ s \in Busy /\ s \in At(ops)
      /\ \A t \in At(ops) \ {s} : Apart(ops[s], ops[t], file) /\ Apart(ops[t], ops[s], file)
      /\ \A t \in At(ops) \ {s} : ops[t].alone /\ ops[t].stage # "opening" =>
           ops[t].ino = file[ops[t].at] /\ ops[t].ino # 0
      /\ \A t \in At(ops) : ops[t].kind # "list" => ops[t].at \in Path /\ ops[t].meant \in Path
  BY TransferFacts
<1>2. /\ file \in [Path -> 0..MaxInode] /\ data \in [1..MaxInode -> Seq(Int)] /\ ops \in Table
      /\ OneFileEach(file) /\ Sound(ops, file, data) /\ MaxInode \in Nat
  BY Types, PanelAssumption, Zenon DEF IInv
<1>3. \A t \in At(ops) : Transferring(ops[t], file, data)
  BY <1>2 DEF Sound
<1>4. ops[s].ino # 0
  BY <1>1, <1>3 DEF Transferring
<1>5. \A t \in At(ops) \ {s} : ops[t].alone /\ ops[t].kind # "list" =>
        /\ ops[t].stage # "opening" => ops[t].ino \in 1..MaxInode
        /\ Changes(q) \/ Changes(ops[t]) => q.ino # file[ops[t].at]
  <2> TAKE t \in At(ops) \ {s}
  <2> HAVE ops[t].alone /\ ops[t].kind # "list"
  <2>1. ops[t].stage # "opening" => ops[t].ino \in 1..MaxInode
    <3>1. ops[t].at \in Path
      BY <1>1
    <3>2. file[ops[t].at] \in 0..MaxInode
      BY <1>2, <3>1
    <3>3. ops[t].stage # "opening" => ops[t].ino \in 0..MaxInode /\ ops[t].ino # 0
      BY <1>1, <3>2
    <3> QED
      BY <1>2, <3>3
  <2>2. Apart(ops[t], ops[s], file)
    BY <1>1
  <2>3. Changes(q) <=> Changes(ops[s])
    BY DEF Changes
  <2> QED
    BY <1>4, <2>1, <2>2, <2>3 DEF Apart
<1>6. Spares(ops, s, q, file, data, file, data')
  BY <1>1, <1>5 DEF Spares, Changes
<1>7. Spared(ops, s, q, file)
  <2> SUFFICES ASSUME q.alone, NEW t \in At(ops) \ {s}, Changes(q) \/ Changes(ops[t]), ops[t].ino # 0
               PROVE  ops[t].ino # file[q.at]
    BY DEF Spared
  <2>1. Apart(ops[s], ops[t], file)
    BY <1>1
  <2>2. ops[t].kind # "list"
    BY <1>3 DEF Transferring
  <2> QED
    BY <2>1, <2>2 DEF Apart, Changes
<1>8. Sound(ops', file', data')
  <2>1. Sound([ops EXCEPT ![s] = q], file, data')
    BY <1>1, <1>2, <1>6, <1>7, MoveSound
  <2> QED
    BY <2>1
<1>9. home # NoPath =>
         /\ file'[home] = file[home] /\ data'[file[home]] = data[file[home]]
         /\ Changes(q) => (q.ino # 0 => q.ino # file[home])
  <2> SUFFICES ASSUME home # NoPath
               PROVE  /\ data'[file[home]] = data[file[home]]
                      /\ Changes(q) => q.ino # file[home]
    OBVIOUS
  <2>1. home \in Path /\ file[home] # 0 /\ Untouched(home, ops, file)
    BY Types DEF IInv, HomeInv, Stored
  <2>2. file[home] \in 1..MaxInode
    BY <1>2, <2>1
  <2>3. Changes(ops[s]) => ops[s].ino # file[home]
    BY <1>1, <1>4, <2>1 DEF Untouched
  <2> QED
    BY <2>2, <2>3 DEF Changes
<1>10. /\ file' \in [Path -> 0..MaxInode] /\ OneFileEach(file')
       /\ q.kind \in {"read", "write"} /\ handles' \subseteq handles \cup {s}
  BY <1>2
<1> QED
  BY <1>1, <1>8, <1>9, <1>10, GoesOnStep

\* Lemma: what it has reached and then some.
LEMMA ReachedMore ==
  ASSUME NEW a \in Seq(Int), NEW b \in Seq(Int), NEW n \in Nat, Reached(a, b, n), n < Len(b)
  PROVE  Reached(Append(a, b[n + 1]), b, n + 1)
BY DEF Reached

\* Lemma: and all of it.
LEMMA ReachedAll ==
  ASSUME NEW a \in Seq(Int), NEW b \in Seq(Int), Reached(a, b, Len(b))
  PROVE  a = b
<1>1. Len(a) = Len(b) /\ \A i \in 1..Len(a) : a[i] = b[i]
  BY DEF Reached
<1> QED
  BY <1>1, SeqEqual

\* Lemma: sftpReadChunk.
LEMMA ReadStep ==
  ASSUME IInv, NEW s \in Slot, ReadChunk(s)
  PROVE  IInv'
<1> DEFINE o == ops[s]
           chunks == data[o.ino]
<1>1. /\ o.kind = "read" /\ o.stage = "moving"
      /\ UNCHANGED <<file, data, panel, dialog, editor, handles, version, clicks, losses, home>>
  BY DEF ReadChunk
<1>2. o \in Operation /\ Transferring(o, file, data) /\ s \in At(ops)
  BY <1>1, TransferFacts
<1>3. data \in [1..MaxInode -> Seq(Int)] /\ ops \in Table
  BY Types DEF IInv
<1>4. o.pos \in Nat /\ o.text \in Seq(Int) /\ o.ino \in 1..MaxInode
  <2>1. MaxInode \in Nat
    BY PanelAssumption, Zenon
  <2>2. o.ino \in 0..MaxInode /\ o.pos \in Nat /\ o.text \in Seq(Int)
    BY <1>2 DEF Operation
  <2>3. o.ino # 0
    BY <1>1, <1>2 DEF Transferring
  <2> QED
    BY <2>1, <2>2, <2>3
<1>5. chunks \in Seq(Int)
  BY <1>3, <1>4
<1>6. o.alone => file[o.at] = o.ino /\ Reached(o.text, chunks, o.pos)
  BY <1>1, <1>2 DEF Transferring
<1>7. ASSUME NEW st \in {"moving", "closing"}, o.pos < Len(chunks), st = "closing" => o.pos + 1 = Len(chunks),
             ops' = [ops EXCEPT ![s].text = Append(@, chunks[o.pos + 1]), ![s].pos = @ + 1, ![s].stage = st]
      PROVE  IInv'
  <2> DEFINE t == Append(o.text, chunks[o.pos + 1])
             n == o.pos + 1
             q == [o EXCEPT !.text = t, !.pos = n, !.stage = st]
  <2>1. n \in Nat /\ t \in Seq(Int)
    <3>1. n \in Nat /\ n \in 1..Len(chunks)
      BY <1>4, <1>5, <1>7
    <3>2. chunks[n] \in Int
      BY <1>5, <3>1, ElementOfSeq
    <3> QED
      BY <1>4, <3>1, <3>2, AppendProperties
  <2>2. ops' = [ops EXCEPT ![s] = q]
    BY <1>3, <1>7 DEF Table
  <2>3. o.alone => Reached(t, chunks, n)
    BY <1>4, <1>5, <1>6, <1>7, ReachedMore
  <2>4. n = o.pos + 1
    OBVIOUS
  <2> HIDE DEF t, n
  <2>5. Moves(o, q, st, o.ino, n, t, o.failed)
    BY <1>2, <2>1, ReadMoves
  <2> HIDE DEF q, o, chunks
  <2>6. st = "closing" /\ o.alone => t = chunks
    BY <1>5, <1>7, <2>1, <2>3, <2>4, ReachedAll
  <2>7. Transferring(q, file, data)
    BY <1>1, <1>4, <1>6, <2>3, <2>5, <2>6 DEF Moves, Transferring, chunks
  <2>8. q \in Operation /\ q.kind = o.kind /\ q.at = o.at /\ q.meant = o.meant /\ q.alone = o.alone /\ q.ino = o.ino /\ q.stage = st
    BY <2>5 DEF Moves
  <2> QED
    BY <1>1, <1>3, <2>2, <2>7, <2>8, MoveStep DEF o
<1>8. ASSUME o.pos >= Len(chunks), ops' = [ops EXCEPT ![s].stage = "closing"]
      PROVE  IInv'
  <2> DEFINE q == [o EXCEPT !.stage = "closing"]
  <2>1. ops' = [ops EXCEPT ![s] = q]
    BY <1>3, <1>8 DEF Table
  <2>2. Moves(o, q, "closing", o.ino, o.pos, o.text, o.failed)
    BY <1>2, CloseMoves
  <2> HIDE DEF q, o, chunks
  <2>3. o.alone => o.text = chunks
    <3>1. o.alone => Reached(o.text, chunks, Len(chunks))
      BY <1>4, <1>5, <1>6, <1>8 DEF Reached
    <3> QED
      BY <1>4, <1>5, <3>1, ReachedAll
  <2>4. Transferring(q, file, data)
    BY <1>1, <1>4, <1>6, <2>2, <2>3 DEF Moves, Transferring, chunks
  <2>5. q \in Operation /\ q.kind = o.kind /\ q.at = o.at /\ q.meant = o.meant /\ q.alone = o.alone /\ q.ino = o.ino /\ q.stage = "closing"
    BY <2>2 DEF Moves
  <2> QED
    BY <1>1, <1>3, <2>1, <2>4, <2>5, MoveStep DEF o
<1>9. CASE o.pos < Len(chunks)
  <2>1. PICK st \in IF o.pos + 1 = Len(chunks) THEN {"moving", "closing"} ELSE {"moving"} :
          ops' = [ops EXCEPT ![s].text = Append(@, chunks[o.pos + 1]), ![s].pos = @ + 1, ![s].stage = st]
    BY <1>9 DEF ReadChunk
  <2>2. st \in {"moving", "closing"} /\ (st = "closing" => o.pos + 1 = Len(chunks))
    BY <2>1
  <2> QED
    BY <1>7, <1>9, <2>1, <2>2
<1>10. CASE ~(o.pos < Len(chunks))
  <2>1. ops' = [ops EXCEPT ![s].stage = "closing"]
    BY <1>10 DEF ReadChunk
  <2>2. o.pos >= Len(chunks)
    BY <1>4, <1>5, <1>10
  <2> QED
    BY <1>8, <2>1, <2>2
<1> QED
  BY <1>9, <1>10

\* Chunk k of b written into a.
Written(a, b, k) ==
  [i \in 1..(IF Len(a) > k THEN Len(a) ELSE k) |-> IF i = k THEN b[k] ELSE IF i <= Len(a) THEN a[i] ELSE 0]

\* Lemma: it is a text, and the next one of what has been reached.
LEMMA WrittenFacts ==
  ASSUME NEW a \in Seq(Int), NEW b \in Seq(Int), NEW n \in Nat, n + 1 <= Len(b)
  PROVE  /\ Written(a, b, n + 1) \in Seq(Int)
         /\ Reached(a, b, n) => Reached(Written(a, b, n + 1), b, n + 1)
<1> DEFINE k == n + 1
           m == IF Len(a) > k THEN Len(a) ELSE k
           w == Written(a, b, k)
<1>1. Len(a) \in Nat /\ m \in Nat /\ k \in 1..Len(b) /\ k \in 1..m /\ k = n + 1
  OBVIOUS
<1>2. w = [i \in 1..m |-> IF i = k THEN b[k] ELSE IF i <= Len(a) THEN a[i] ELSE 0]
  BY DEF Written
<1>3. b[k] \in Int
  BY <1>1, ElementOfSeq
<1>4. \A i \in 1..Len(a) : a[i] \in Int
  BY ElementOfSeq
<1>5. Reached(a, b, n) => m = n + 1
  BY DEF Reached
<1> HIDE DEF k, m, w
<1>6. \A i \in 1..m : w[i] \in Int
  BY <1>1, <1>2, <1>3, <1>4
<1>7. w \in Seq(Int) /\ Len(w) = m
  <2>1. w \in [1..m -> Int]
    BY <1>2, <1>6
  <2>2. w \in Seq(Int)
    BY <1>1, <2>1, SeqDef
  <2>3. 1..Len(w) = 1..m /\ Len(w) \in Nat
    BY <2>1, <2>2, LenProperties
  <2> QED
    BY <1>1, <2>2, <2>3
<1>8. ASSUME Reached(a, b, n)
      PROVE  Reached(w, b, k)
  BY <1>1, <1>2, <1>5, <1>7, <1>8 DEF Reached
<1> QED
  BY <1>7, <1>8 DEF w, k

\* Lemma: sftpWriteChunk.
LEMMA WriteStep ==
  ASSUME IInv, NEW s \in Slot, WriteChunk(s)
  PROVE  IInv'
<1> DEFINE o == ops[s]
           k == o.pos + 1
           there == data[o.ino]
<1>1. /\ o.kind = "write" /\ o.stage = "moving"
      /\ UNCHANGED <<file, panel, dialog, editor, handles, version, clicks, losses, home>>
  BY DEF WriteChunk
<1>2. o \in Operation /\ Transferring(o, file, data) /\ s \in At(ops)
  BY <1>1, TransferFacts
<1>3. data \in [1..MaxInode -> Seq(Int)] /\ ops \in Table
  BY Types DEF IInv
<1>4. o.pos \in Nat /\ o.text \in Seq(Int) /\ o.ino \in 1..MaxInode
  <2>1. MaxInode \in Nat
    BY PanelAssumption, Zenon
  <2>2. o.ino \in 0..MaxInode /\ o.pos \in Nat /\ o.text \in Seq(Int)
    BY <1>2 DEF Operation
  <2>3. o.ino # 0
    BY <1>1, <1>2 DEF Transferring
  <2> QED
    BY <2>1, <2>2, <2>3
<1>5. there \in Seq(Int)
  BY <1>3, <1>4
<1>6. o.alone => file[o.at] = o.ino /\ Reached(there, o.text, o.pos)
  BY <1>1, <1>2 DEF Transferring
<1>7. CASE k <= Len(o.text)
  <2> DEFINE st == IF k = Len(o.text) THEN "closing" ELSE "moving"
             w == Written(there, o.text, k)
             q == [o EXCEPT !.pos = k, !.stage = st]
  <2>1. data' = [data EXCEPT ![o.ino] = w] /\ ops' = [ops EXCEPT ![s].pos = k, ![s].stage = st]
    BY <1>7 DEF WriteChunk, Written
  <2>2. k \in Nat /\ k = o.pos + 1 /\ st \in {"moving", "closing"} /\ (st = "closing" => k = Len(o.text))
    BY <1>4
  <2>3. ops' = [ops EXCEPT ![s] = q]
    BY <1>3, <2>1 DEF Table
  <2> HIDE DEF st, k, o, there, w
  <2>4. w \in Seq(Int) /\ (o.alone => Reached(w, o.text, k))
    BY <1>4, <1>5, <1>6, <1>7, <2>2, WrittenFacts DEF w
  <2>5. Moves(o, q, st, o.ino, k, o.text, o.failed)
    BY <1>2, <2>2, WriteMoves
  <2> HIDE DEF q
  <2>6. /\ data' \in [1..MaxInode -> Seq(Int)] /\ data'[o.ino] = w
        /\ \A j \in 1..MaxInode : j # o.ino => data'[j] = data[j]
    BY <1>3, <1>4, <2>1, <2>4
  <2>7. st = "closing" /\ o.alone => w = o.text
    BY <1>4, <2>2, <2>4, ReachedAll
  <2>8. Transferring(q, file, data')
    BY <1>1, <1>4, <1>6, <2>2, <2>4, <2>5, <2>6, <2>7 DEF Moves, Transferring
  <2>9. q \in Operation /\ q.kind = o.kind /\ q.at = o.at /\ q.meant = o.meant /\ q.alone = o.alone /\ q.ino = o.ino /\ q.stage = st
    BY <2>5 DEF Moves
  <2> QED
    BY <1>1, <2>2, <2>3, <2>6, <2>8, <2>9, MoveStep DEF o
<1>8. CASE ~(k <= Len(o.text))
  <2> DEFINE q == [o EXCEPT !.stage = "closing"]
  <2>1. ops' = [ops EXCEPT ![s] = q] /\ data' = data
    BY <1>3, <1>8 DEF Table, WriteChunk
  <2>2. Moves(o, q, "closing", o.ino, o.pos, o.text, o.failed)
    BY <1>2, CloseMoves
  <2>3. o.pos >= Len(o.text)
    BY <1>4, <1>8
  <2> HIDE DEF q, o, there, k
  <2>4. o.alone => there = o.text
    <3>1. o.alone => Reached(there, o.text, Len(o.text))
      BY <1>4, <1>5, <1>6, <2>3 DEF Reached
    <3> QED
      BY <1>4, <1>5, <3>1, ReachedAll
  <2>5. Transferring(q, file, data')
    BY <1>1, <1>4, <1>6, <2>1, <2>2, <2>4 DEF Moves, Transferring, there
  <2>6. q \in Operation /\ q.kind = o.kind /\ q.at = o.at /\ q.meant = o.meant /\ q.alone = o.alone /\ q.ino = o.ino /\ q.stage = "closing"
    BY <2>2 DEF Moves
  <2> QED
    BY <1>1, <1>3, <2>1, <2>5, <2>6, MoveStep DEF o
<1> QED
  BY <1>7, <1>8

\* Lemma: a chunk fails.
LEMMA ChunkFailsStep ==
  ASSUME IInv, NEW s \in Slot, ChunkFails(s)
  PROVE  IInv'
<1> DEFINE o == ops[s]
           q == [o EXCEPT !.stage = "closing", !.failed = TRUE]
<1>1. /\ o.kind \in {"read", "write"} /\ o.stage = "moving"
      /\ UNCHANGED <<file, data, panel, dialog, editor, handles, version, clicks, losses, home>>
  BY DEF ChunkFails
<1>2. o \in Operation /\ Transferring(o, file, data) /\ s \in At(ops)
  BY <1>1, TransferFacts
<1>3. data \in [1..MaxInode -> Seq(Int)] /\ ops \in Table
  BY Types DEF IInv
<1>4. ops' = [ops EXCEPT ![s] = q]
  BY <1>3 DEF Table, ChunkFails
<1>5. Moves(o, q, "closing", o.ino, o.pos, o.text, TRUE)
  BY <1>2, CloseMoves
<1> HIDE DEF q, o
<1>6. Transferring(q, file, data')
  BY <1>1, <1>2, <1>5 DEF Moves, Transferring
<1>7. q \in Operation /\ q.kind = o.kind /\ q.at = o.at /\ q.meant = o.meant /\ q.alone = o.alone /\ q.ino = o.ino /\ q.stage = "closing"
  BY <1>5 DEF Moves
<1> QED
  BY <1>1, <1>3, <1>4, <1>6, <1>7, MoveStep DEF o

\* Lemma: a transfer ends and nothing follows.
LEMMA DoneStep ==
  ASSUME IInv, NEW s \in Slot, ops[s].kind \in {"read", "write"}, ops' = Ended(s), handles' = handles \ {s},
         UNCHANGED <<file, data, panel, dialog, editor, version, clicks, losses, home>>
  PROVE  IInv'
<1>1. s \in Busy /\ ops[s].kind # "list"
  BY DEF Busy
<1>2. PanelTypeOK'
  BY <1>1, EndTypes DEF IInv, PanelTypeOK
<1>3. ShownIsCurrent'
  BY <1>1, EndShown
<1> QED
  BY <1>1, <1>2, <1>3, EndStep

\* Lemma: its close is refused.
LEMMA RefusedStep ==
  ASSUME IInv, NEW s \in Slot, CloseRefused(s)
  PROVE  IInv'
BY DoneStep DEF CloseRefused

\* Lemma: a transfer of the editor ends.
LEMMA EditorStep ==
  ASSUME IInv, NEW s \in Slot, ops[s].kind \in {"read", "write"}, ops[s].stage = "closing",
         ~ops[s].failed, ops' = Ended(s), handles' = handles \ {s},
         UNCHANGED <<file, data, panel, dialog, version, clicks, losses>>,
         editor' \in [view: {"closed", "loading", "open"}, at: Path \cup {NoPath}, doc: Seq(Nat), orig: Seq(Nat)],
         editor'.view # "closed" => editor'.at \in Path,
         home' = NoPath \/ (home' = ops[s].at /\ ops[s].alone /\ editor'.view # "closed" /\ editor'.orig = Decoded(ops[s].text))
  PROVE  IInv'
<1> DEFINE o == ops[s]
<1>1. /\ s \in Busy /\ s \in At(ops) /\ o.at \in Path
      /\ Transferring(o, file, data)
      /\ \A t \in At(ops) \ {s} : Apart(o, ops[t], file)
  BY TransferFacts
<1>2. /\ Ended(s) \in Table /\ Ended(s)[s].kind = "none"
      /\ \A t \in Slot \ {s} : Ended(s)[t] = ops[t]
      /\ Paths(Ended(s)) /\ Sound(Ended(s), file, data)
  BY EndedFacts
<1>3. ShownIsCurrent'
  BY <1>1, EndShown
<1>4. PanelTypeOK'
  BY <1>1, <1>2, Types DEF IInv, PanelTypeOK, Table, Paths, At, Busy
<1>5. ASSUME home' # NoPath
      PROVE  Stored(home', editor'.orig, ops', file, data)
  <2>1. home' = o.at /\ o.alone /\ editor'.orig = Decoded(o.text)
    BY <1>5
  <2>2. file[o.at] = o.ino /\ o.ino # 0 /\ data[o.ino] = o.text
    BY <1>1, <2>1 DEF Transferring
  <2>3. ASSUME NEW t \in At(ops'), Changes(ops'[t])
        PROVE  /\ ops'[t].kind # "rename" /\ ops'[t].at # o.at
               /\ ops'[t].ino # 0 => ops'[t].ino # file[o.at]
    <3>1. t \in At(ops) \ {s} /\ ops'[t] = ops[t]
      BY <1>2, <2>3 DEF At
    <3>2. Apart(o, ops[t], file)
      BY <1>1, <3>1
    <3> QED
      BY <2>1, <2>3, <3>1, <3>2 DEF Apart, Changes
  <2>4. Untouched(o.at, ops', file)
    BY <2>3 DEF Untouched
  <2> QED
    BY <2>1, <2>2, <2>4 DEF Stored
<1>6. HomeInv'
  BY <1>5 DEF HomeInv, Stored
<1>7. HandleInv'
  BY <1>2, Types DEF IInv, HandleInv
<1> QED
  BY <1>2, <1>3, <1>4, <1>6, <1>7 DEF IInv

\* Lemma: the close is answered.
LEMMA TransferStep ==
  ASSUME IInv, NEW s \in Slot, TransferEnds(s)
  PROVE  IInv'
<1> DEFINE o == ops[s]
<1>1. /\ o.kind \in {"read", "write"} /\ o.stage = "closing"
      /\ handles' = handles \ {s}
      /\ UNCHANGED <<file, data, dialog, version, clicks, losses>>
  BY DEF TransferEnds
<1>2. PICK fails \in BOOLEAN :
       LET ok == ~fails /\ ~o.failed IN
       CASE ~ok -> ops' = Ended(s) /\ UNCHANGED <<panel, editor, home>>
         [] ok /\ o.kind = "read" /\ o.edits ->
              /\ ops' = Ended(s) /\ UNCHANGED panel
              /\ \/ /\ editor' = [view |-> "loading", at |-> o.meant,
                                 doc |-> Decoded(o.text), orig |-> Decoded(o.text)]
                    /\ home' = IF o.alone THEN o.at ELSE NoPath
                 \/ Refusable(o.text) /\ UNCHANGED <<editor, home>>
         [] ok /\ o.kind = "write" /\ o.edits ->
              /\ editor' = IF editor.view = "open" THEN [editor EXCEPT !.orig = Decoded(o.text)] ELSE editor
              /\ ops' = Ended(s) /\ UNCHANGED panel
              /\ home' = IF editor.view = "open" /\ o.alone THEN o.at ELSE NoPath
         [] ok /\ o.kind = "read" /\ ~o.edits ->
              ops' = Ended(s) /\ UNCHANGED <<panel, editor, home>>
         [] OTHER -> Reopened(s) /\ UNCHANGED <<editor, home>>
  BY DEF TransferEnds
<1> DEFINE ok == ~fails /\ ~o.failed
<1>3. o \in Operation /\ s \in Busy /\ o.at \in Path /\ o.meant \in Path /\ Decoded(o.text) \in Seq(Nat)
  <2>1. o \in Operation /\ s \in Busy
    BY <1>1, TransferFacts
  <2> QED
    BY <1>1, <2>1, Types, Texts DEF IInv, Operation
<1>4. CASE ~ok \/ (ok /\ o.kind = "read" /\ ~o.edits)
  <2>1. ops' = Ended(s) /\ UNCHANGED <<panel, editor, home>>
    BY <1>1, <1>2, <1>4
  <2> QED
    BY <1>1, <2>1, DoneStep
<1>5. CASE ok /\ o.kind = "read" /\ o.edits
  <2>1. /\ ops' = Ended(s) /\ UNCHANGED panel
        /\ \/ /\ editor' = [view |-> "loading", at |-> o.meant,
                           doc |-> Decoded(o.text), orig |-> Decoded(o.text)]
              /\ home' = IF o.alone THEN o.at ELSE NoPath
           \/ UNCHANGED <<editor, home>>
    BY <1>2, <1>5
  <2>2. CASE UNCHANGED <<editor, home>>
    BY <1>1, <2>1, <2>2, DoneStep
  <2>3. CASE /\ editor' = [view |-> "loading", at |-> o.meant,
                           doc |-> Decoded(o.text), orig |-> Decoded(o.text)]
             /\ home' = IF o.alone THEN o.at ELSE NoPath
    BY <1>1, <1>3, <1>5, <2>1, <2>3, EditorStep
  <2> QED
    BY <2>1, <2>2, <2>3
<1>6. CASE ok /\ o.kind = "write" /\ o.edits
  <2>1. /\ editor' = IF editor.view = "open" THEN [editor EXCEPT !.orig = Decoded(o.text)] ELSE editor
        /\ ops' = Ended(s) /\ UNCHANGED panel
        /\ home' = IF editor.view = "open" /\ o.alone THEN o.at ELSE NoPath
    BY <1>2, <1>6
  <2>2. /\ editor \in [view: {"closed", "loading", "open"}, at: Path \cup {NoPath}, doc: Seq(Nat), orig: Seq(Nat)]
        /\ editor.view # "closed" => editor.at \in Path
    BY Types DEF IInv
  <2>3. /\ editor' \in [view: {"closed", "loading", "open"}, at: Path \cup {NoPath}, doc: Seq(Nat), orig: Seq(Nat)]
        /\ editor'.view # "closed" => editor'.at \in Path
        /\ editor.view = "open" => editor'.view # "closed" /\ editor'.orig = Decoded(o.text)
    BY <1>3, <2>1, <2>2
  <2> QED
    BY <1>1, <1>3, <1>6, <2>1, <2>3, EditorStep
<1>7. CASE ok /\ o.kind = "write" /\ ~o.edits
  <2>1. Reopened(s) /\ UNCHANGED <<editor, home>>
    BY <1>2, <1>7
  <2>2. /\ Ended(s) \in Table /\ Ended(s)[s].kind = "none" /\ \A t \in Slot \ {s} : Ended(s)[t] = ops[t]
        /\ Paths(Ended(s)) /\ Sound(Ended(s), file, data)
        /\ Untouched(home, ops, file) => Untouched(home, Ended(s), file)
    BY EndedFacts
  <2>3. \A t \in handles' : t \in handles /\ Ended(s)[t] = ops[t]
    BY <1>1, <2>2, Types DEF IInv
  <2>4. /\ file' \in [Path -> 0..MaxInode] /\ data' \in [1..MaxInode -> Seq(Int)] /\ losses' \in 0..MaxLosses
        /\ home' \in Path \cup {NoPath} /\ OneFileEach(file')
    BY <1>1, <2>1, Types DEF IInv
  <2>5. /\ home' # NoPath => editor.view # "closed"
        /\ Sound(Ended(s), file', data') /\ Stored(home', editor.orig, Ended(s), file', data')
    BY <1>1, <2>1, <2>2 DEF IInv, HomeInv, Stored
  <2>6. \E t \in Slot : Ended(s)[t].kind = "none"
    BY <2>2
  <2> QED
    BY <1>1, <2>1, <2>2, <2>3, <2>4, <2>5, <2>6, ReopenStep DEF Reopened
<1> QED
  BY <1>1, <1>4, <1>5, <1>6, <1>7

-----------------------------------------------------------------------------
(* The specification.                                                      *)

\* Lemma: the panel as it opens.
LEMMA Opens ==
  ASSUME Init
  PROVE  IInv
<1> DEFINE table == [s \in Slot |-> Idle]
           q == <<Start, "">>
           o == List(Start)
<1>1. /\ file = [p \in Path |-> IF p = <<Start, Old>> THEN 1 ELSE IF p = <<Other, Old>> THEN 2 ELSE 0]
      /\ data = [i \in 1..MaxInode |-> IF i = 1 THEN Raw(1) ELSE IF i = 2 THEN Text(2) ELSE <<>>]
      /\ panel = [path |-> Start, shown |-> "skeleton"]
      /\ dialog = <<>> /\ editor = Closed
      /\ ops = Started(table, o)
      /\ handles = {} /\ version = 2 /\ clicks = 0 /\ losses = 0 /\ home = NoPath
  BY DEF Init
<1>2. Start \in Dirs /\ Other \in Dirs
  BY PanelAssumption, Zenon
<1>3. MaxOps \in Nat /\ MaxOps >= 1 /\ MaxInode \in Nat /\ MaxInode >= 2 /\ MaxVersion \in Nat /\ MaxVersion >= 2
      /\ MaxClicks \in Nat /\ MaxLosses \in Nat
  <2>1. MaxOps \in Nat \ {0} /\ MaxInode \in Nat \ {0, 1} /\ MaxVersion \in Nat \ {0, 1}
        /\ MaxClicks \in Nat /\ MaxLosses \in Nat
    BY PanelAssumption, Zenon
  <2> QED
    BY <2>1
<1>4. q \in AnyPath /\ o = Op("list", q, q)
  BY <1>2, Tokens DEF List
<1> HIDE DEF q
<1>5. Fresh(o) /\ o.kind = "list" /\ Aimed(o)
  BY <1>4, OpFresh DEF Aimed
<1>6. table \in Table /\ At(table) = {} /\ 1 \in Slot /\ table[1].kind = "none"
  BY <1>3 DEF Table, At, Idle, Slot
<1> HIDE DEF o, table
<1>7. PICK s \in Slot : Entered(table, o, ops, s)
  BY <1>1, <1>5, <1>6, StartedEnters DEF Fresh
<1>8. Sound(table, file, data)
  BY <1>6 DEF Sound
<1>9. Sound(ops, file, data)
  BY <1>5, <1>6, <1>7, <1>8, EnteredSound
<1>10. ops \in Table /\ \A t \in At(ops) : ops[t].kind # "list" => ops[t].at \in Path /\ ops[t].meant \in Path
  BY <1>5, <1>6, <1>7, EnteredPaths
<1>11. ops[s].kind = "list"
  BY <1>5, <1>6, <1>7, EnteredFacts
<1>12. ShownIsCurrent
  <2>1. panel.shown = "skeleton" /\ "skeleton" \notin Dirs
    BY <1>1, Tokens
  <2> QED
    BY <1>7, <1>11, <2>1 DEF ShownIsCurrent, Busy
<1>13. OneFileEach(file)
  BY <1>1 DEF OneFileEach
<1>14. PanelTypeOK
  <2>1. file \in [Path -> 0..MaxInode]
    BY <1>1, <1>3
  <2>2. data \in [1..MaxInode -> Seq(Int)]
    <3>1. Raw(1) \in Seq(Int) /\ Text(2) \in Seq(Int)
      BY DEF Raw, Text
    <3>2. <<>> \in Seq(Int)
      BY EmptySeq
    <3> QED
      BY <1>1, <3>1, <3>2
  <2>3. panel \in [path: Dirs, shown: Dirs \cup {"skeleton", "empty"}]
    BY <1>1, <1>2
  <2>4. dialog \in Seq(Question) /\ Len(dialog) <= 2
    BY <1>1, EmptySeq
  <2>5. /\ editor \in [view: {"closed", "loading", "open"}, at: Path \cup {NoPath}, doc: Seq(Nat), orig: Seq(Nat)]
        /\ editor.view # "closed" => editor.at \in Path
    BY <1>1, EmptySeq DEF Closed
  <2>6. /\ handles \subseteq Slot /\ version \in 0..MaxVersion /\ clicks \in 0..MaxClicks
        /\ losses \in 0..MaxLosses /\ home \in Path \cup {NoPath}
    BY <1>1, <1>3
  <2> QED
    BY <1>10, <2>1, <2>2, <2>3, <2>4, <2>5, <2>6 DEF PanelTypeOK, Table, At, Busy
<1> QED
  BY <1>1, <1>9, <1>12, <1>13, <1>14 DEF IInv, HomeInv, Stored, HandleInv

\* Lemma: nothing happens.
LEMMA StillStep ==
  ASSUME IInv, UNCHANGED vars
  PROVE  IInv'
BY DEF vars, IInv, PanelTypeOK, Busy, HomeInv, Stored, Untouched, HandleInv, ShownIsCurrent, Sound

\* Lemma: every step of the panel keeps the invariant.
LEMMA NextStep ==
  ASSUME IInv, [Next]_vars
  PROVE  IInv'
<1>1. CASE User
  BY <1>1, UserCases, BeginStep, QuietStep DEF IInv
<1>2. ASSUME NEW s \in Slot, Reply(s)
      PROVE  IInv'
  BY <1>2, ListStep, EntryStep, FailStep, OpenedStep, ReadStep, WriteStep, ChunkFailsStep, TransferStep, RefusedStep
     DEF Reply
<1>3. CASE EditorOpens \/ EditorFails
  BY <1>3, LoadCases, QuietStep DEF IInv
<1>4. CASE LinkLost
  BY <1>4, LostStep
<1>5. CASE UNCHANGED vars
  BY <1>5, StillStep
<1> QED
  BY <1>1, <1>2, <1>3, <1>4, <1>5 DEF Next, Going

\* Theorem: every state the panel reaches satisfies the inductive invariant.
THEOREM Invariance == Spec => []IInv
<1>1. Init => IInv
  BY Opens
<1>2. IInv /\ [Next]_vars => IInv'
  BY NextStep
<1> QED
  BY <1>1, <1>2, PTL DEF Spec

\* A close was refused only in a session that had too many requests.
CrowdInv ==
  /\ left \in Nat /\ crowded \in BOOLEAN
  /\ Crowd(ops) \/ left > 0 => crowded

\* Lemma: what is left changes when a close is refused and when the link is lost.
LEMMA LeftSteps ==
  ASSUME Next
  PROVE  \/ left' = left /\ crowded' = (crowded \/ Crowd(ops'))
         \/ left' = left + 1 /\ Crowd(ops) /\ crowded' = (crowded \/ Crowd(ops'))
         \/ left' = 0 /\ crowded' = Crowd(ops')
<1>1. CASE LinkLost
  BY <1>1 DEF LinkLost
<1>2. CASE Going /\ crowded' = (crowded \/ Crowd(ops'))
  <2>1. CASE User
    BY <1>2, <2>1 DEF User, Open, Edit, Download, AskEntry, AskUpload, Upload, SaveAs, Type, AskSave, Answer,
                      CloseEditor
  <2>2. CASE EditorOpens \/ EditorFails
    BY <1>2, <2>2 DEF EditorOpens, EditorFails
  <2>3. ASSUME NEW s \in Slot, Reply(s), ~CloseRefused(s) PROVE left' = left
    <3>1. CASE ListReply(s) \/ ListFails(s) \/ EntryReply(s) \/ EntryFails(s)
      BY <3>1 DEF ListReply, ListFails, EntryReply, EntryFails
    <3>2. CASE Opened(s) \/ OpenFails(s) \/ ReadChunk(s) \/ WriteChunk(s) \/ ChunkFails(s)
      BY <3>2 DEF Opened, OpenFails, ReadChunk, WriteChunk, ChunkFails
    <3>3. CASE TransferEnds(s)
      BY <3>3 DEF TransferEnds
    <3> QED
      BY <2>3, <3>1, <3>2, <3>3 DEF Reply
  <2>4. ASSUME NEW s \in Slot, CloseRefused(s) PROVE left' = left + 1 /\ Crowd(ops)
    BY <2>4 DEF CloseRefused
  <2> QED
    BY <1>2, <2>1, <2>2, <2>3, <2>4 DEF Going
<1> QED
  BY <1>1, <1>2 DEF Next

\* Lemma: that is an invariant of its own.
LEMMA CrowdInvariance == Spec => []CrowdInv
<1>1. Init => CrowdInv
  <2> SUFFICES ASSUME Init PROVE CrowdInv
    OBVIOUS
  <2>1. left = 0 /\ crowded = Crowd(ops)
    BY DEF Init
  <2>2. left \in Nat /\ ~(left > 0)
    BY <2>1
  <2>3. Crowd(ops) \in BOOLEAN
    BY DEF Crowd
  <2> QED
    BY <2>1, <2>2, <2>3, Zenon DEF CrowdInv
<1>2. CrowdInv /\ [Next]_vars => CrowdInv'
  <2> SUFFICES ASSUME CrowdInv, [Next]_vars PROVE CrowdInv'
    OBVIOUS
  <2>1. Crowd(ops') \in BOOLEAN /\ left \in Nat /\ crowded \in BOOLEAN /\ (Crowd(ops) \/ left > 0 => crowded)
    BY DEF CrowdInv, Crowd
  <2>2. CASE UNCHANGED vars
    BY <2>1, <2>2 DEF vars, CrowdInv
  <2>3. CASE left' = left /\ crowded' = (crowded \/ Crowd(ops'))
    BY <2>1, <2>3, Zenon DEF CrowdInv
  <2>4. CASE left' = left + 1 /\ Crowd(ops) /\ crowded' = (crowded \/ Crowd(ops'))
    <3>1. left' \in Nat
      BY <2>1, <2>4
    <3> QED
      BY <2>1, <2>4, <3>1, Zenon DEF CrowdInv
  <2>5. CASE left' = 0 /\ crowded' = Crowd(ops')
    <3>1. left' \in Nat /\ ~(left' > 0)
      BY <2>5
    <3> QED
      BY <2>1, <2>5, <3>1, Zenon DEF CrowdInv
  <2> QED
    BY <2>2, <2>3, <2>4, <2>5, LeftSteps
<1> QED
  BY <1>1, <1>2, PTL DEF Spec

\* Theorem: the state of the panel keeps its types.
THEOREM TypeCorrect == Spec => []TypeOK
<1>1. IInv /\ CrowdInv => TypeOK
  BY DEF IInv, CrowdInv, TypeOK
<1> QED
  BY <1>1, Invariance, CrowdInvariance, PTL

\* Theorem: rows on the screen are those of currentPath, whatever order the
\* listings of open() are answered in, and a skeleton waits for one of them.
THEOREM ShownStaysCurrent == Spec => []ShownIsCurrent
<1>1. IInv => ShownIsCurrent
  BY DEF IInv
<1> QED
  BY <1>1, Invariance, PTL

\* Theorem: an open handle of the engine belongs to a transfer that goes on, but
\* for those whose close was refused, in a session with too many requests at once.
THEOREM NothingStaysOpen == Spec => []NoHandleLeft
<1>1. IInv /\ CrowdInv => NoHandleLeft
  BY DEF IInv, CrowdInv, HandleInv, NoHandleLeft
<1> QED
  BY <1>1, Invariance, CrowdInvariance, PTL

\* Theorem: the file that the editor shows as saved is there, whole, and decodes
\* to the editor's text, unless something else touched that path meanwhile.
THEOREM SavedStaysStored == Spec => []SavedMeansStored
<1>1. IInv => SavedMeansStored
  BY DEF IInv, HomeInv, Stored, SavedMeansStored
<1> QED
  BY <1>1, Invariance, PTL
=============================================================================
