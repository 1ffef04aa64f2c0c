--------------------------- MODULE SshEngineProofs ---------------------------
(***************************************************************************)
(* Proofs about the session objects and the tables of the engine that they *)
(* share, for any number of sessions, requests, ids and key exchanges, and *)
(* about the link below a session, for any number of chunks and writes,    *)
(* any host-key pauses and any limits.  The two have no state in common.   *)
(***************************************************************************)
EXTENDS BackendSshSession, SshLink, SequenceTheorems, WellFoundedInduction, TLAPS

-----------------------------------------------------------------------------
Trusted(s) ==
  ssn[s].pin = "match" \/ (ssn[s].pin = "none" /\ s \in consent)

\* A closed object holds nothing, and only a connected one holds handles.
Held(s) ==
  /\ ssn[s].closed => ssn[s].connId = 0 /\ ~ssn[s].challenge
  /\ ssn[s].connId = 0 =>
       ssn[s].shell = 0 /\ ssn[s].handles = {} /\ ssn[s].stage # "up"

\* The way to a connection: no key is accepted without a reason to trust it.
Trust(s) ==
  /\ ssn[s].connId # 0 => ssn[s].stage \in {"up", "refused", "down"} /\ Trusted(s)
  /\ ssn[s].stage = "auth" => Trusted(s)
  /\ ssn[s].challenge => ssn[s].pin = "none"

\* What the browser has been told of a connection attempt.
Informed(s) ==
  /\ ssn[s].stage \in {"new", "kex", "verify", "auth"} => ~ssn[s].blocked
  /\ ssn[s].stage = "failed" => ssn[s].closed
  /\ ~ssn[s].closed /\ ssn[s].connId = 0 =>
       errors[s] = IF ssn[s].blocked THEN 1 ELSE 0

\* At most one shell is being opened, and then there is none.
Serial(s) ==
  SerialShell => \A p \in Req : call[s][p].method = "openShell" =>
    /\ ssn[s].shell = 0
    /\ \A q \in Req : call[s][q].method = "openShell" => p = q

Objects == \A s \in Session : Held(s) /\ Trust(s) /\ Informed(s) /\ Serial(s)

\* Every id in use has been handed out.
Ids ==
  /\ \A c \in conns : c.id < nextId
  /\ \A h \in shells : h.id < nextId
  /\ \A f \in files : f.id < nextId
  /\ \A s \in Session :
       /\ ssn[s].connId < nextId /\ ssn[s].shell < nextId
       /\ \A h \in ssn[s].handles : h < nextId

\* No id belongs to two sessions.
Distinct ==
  \A s, t \in Session : s # t =>
    /\ ssn[s].connId # 0 => ssn[s].connId # ssn[t].connId
    /\ ssn[s].shell # 0 => ssn[s].shell # ssn[t].shell
    /\ \A h \in ssn[s].handles : h \notin ssn[t].handles

ConnTable ==
  /\ \A c \in conns : c.id = ssn[c.owner].connId
  /\ \A s \in Session :
       ssn[s].connId # 0 => \E c \in conns : c.owner = s

FileTable ==
  /\ \A f \in files :
       f.id \in ssn[f.owner].handles /\ f.conn = ssn[f.owner].connId
  /\ \A s \in Session : \A h \in ssn[s].handles :
       \E f \in files : f.owner = s /\ f.id = h

ShellTable ==
  /\ \A h \in shells : \A s \in Session : h.id = ssn[s].shell => h.owner = s
  /\ SerialShell => \A h \in shells : h.id = ssn[h.owner].shell
  /\ \A s \in Session :
       ssn[s].shell # 0 => \E h \in shells : h.owner = s /\ h.id = ssn[s].shell

Tables == Ids /\ Distinct /\ ConnTable /\ FileTable /\ ShellTable

IInv == TypeOK /\ Objects /\ Tables

-----------------------------------------------------------------------------
\* Lemma: the initial state satisfies the invariant.
LEMMA InitInv == Init => IInv
<1> SUFFICES ASSUME Init PROVE IInv
  OBVIOUS
<1> USE SessionAssumption
<1>1. TypeOK
  BY DEF Init, Fresh, TypeOK, Stage, Pin, NoCall
<1>2. Objects
  BY DEF Init, Fresh, Objects, Held, Trust, Informed, Serial, NoCall
<1>3. Tables
  BY DEF Init, Fresh, Tables, Ids, Distinct, ConnTable, FileTable, ShellTable
<1> QED
  BY <1>1, <1>2, <1>3 DEF IInv

\* Lemma: an event of s disturbs the object of s only.
LEMMA OneObject ==
  ASSUME Objects, NEW s \in Session,
         \A t \in Session : t # s =>
           ssn'[t] = ssn[t] /\ call'[t] = call[t] /\ errors'[t] = errors[t],
         consent \subseteq consent',
         Held(s)', Trust(s)', Informed(s)', Serial(s)'
  PROVE  Objects'
<1> SUFFICES ASSUME NEW t \in Session, t # s
             PROVE  Held(t)' /\ Trust(t)' /\ Informed(t)' /\ Serial(t)'
  BY DEF Objects
<1>1. Held(t) /\ Trust(t) /\ Informed(t) /\ Serial(t)
  BY DEF Objects
<1> QED
  BY <1>1 DEF Held, Trust, Trusted, Informed, Serial

\* Lemma: nothing happens to the tables in an event that leaves the engine
\* and what the objects hold of it as they were.
LEMMA QuietTables ==
  ASSUME Tables, TypeOK, engine' = engine,
         \A t \in Session : /\ ssn'[t].connId = ssn[t].connId
                            /\ ssn'[t].shell = ssn[t].shell
                            /\ ssn'[t].handles = ssn[t].handles
  PROVE  Tables'
<1>1. /\ nextId' = nextId /\ conns' = conns /\ shells' = shells /\ files' = files
      /\ \A e \in conns \cup shells \cup files : e.owner \in Session
  BY DEF engine, TypeOK
<1>2. Ids' /\ Distinct'
  BY <1>1 DEF Tables, Ids, Distinct
<1>3. ConnTable' /\ FileTable' /\ ShellTable'
  BY <1>1 DEF Tables, ConnTable, FileTable, ShellTable
<1> QED
  BY <1>2, <1>3 DEF Tables

\* Lemma: a session that gives everything back takes its own entries out of
\* the tables, and no others.
LEMMA ReleaseTables ==
  ASSUME Tables, TypeOK, Objects, NEW s \in Session, Release(s), nextId' = nextId,
         \A t \in Session : t # s => ssn'[t] = ssn[t],
         ssn'[s].connId = 0, ssn'[s].shell = 0, ssn'[s].handles = {}
  PROVE  Tables'
<1>1. /\ conns' = {c \in conns : c.id # ssn[s].connId}
      /\ shells' = {h \in shells : h.id # ssn[s].shell}
      /\ files' = {f \in files : f.conn # ssn[s].connId}
  BY DEF Release, ConnsWithout, ShellsWithout, FilesWithout
<1>2. /\ nextId \in Nat /\ nextId > 0
      /\ \A e \in conns \cup shells \cup files : e.owner \in Session /\ e.id > 0
      /\ \A f \in files : f.conn > 0
      /\ \A t \in Session : ssn[t].connId \in Nat /\ ssn[t].shell \in Nat
  BY SessionAssumption DEF TypeOK
<1>3. ssn[s].connId = 0 => ssn[s].handles = {}
  BY DEF Objects, Held
<1>4. Ids'
  BY <1>1, <1>2 DEF Tables, Ids
<1>5. Distinct'
  BY <1>1, <1>2 DEF Tables, Distinct
<1>6. ConnTable'
  <2>1. \A c \in conns' : c.owner # s
    BY <1>1, <1>2 DEF Tables, ConnTable
  <2>2. \A c \in conns : c.owner # s => c \in conns'
    BY <1>1, <1>2 DEF Tables, ConnTable, Distinct
  <2> QED
    BY <1>1, <1>2, <2>1, <2>2 DEF Tables, ConnTable
<1>7. FileTable'
  <2>1. \A f \in files' : f.owner # s
    BY <1>1, <1>2 DEF Tables, FileTable
  <2>2. \A f \in files : f.owner # s => f \in files'
    BY <1>1, <1>2 DEF Tables, FileTable, Distinct
  <2> QED
    BY <1>1, <1>2, <2>1, <2>2 DEF Tables, FileTable
<1>8. ShellTable'
  <2>1. SerialShell => \A h \in shells' : h.owner # s
    BY <1>1, <1>2 DEF Tables, ShellTable
  <2>2. \A h \in shells : h.owner # s => h \in shells'
    BY <1>1, <1>2 DEF Tables, ShellTable
  <2>3. \A h \in shells' : h \in shells /\ h.id # 0
    BY <1>1, <1>2
  <2> QED
    BY <1>1, <1>2, <2>1, <2>2, <2>3 DEF Tables, ShellTable
<1> QED
  BY <1>4, <1>5, <1>6, <1>7, <1>8 DEF Tables

-----------------------------------------------------------------------------
Object ==
  [stage: Stage, pin: Pin, connId: 0..MaxId, shell: 0..MaxId,
   handles: SUBSET (1..MaxId), challenge: BOOLEAN, blocked: BOOLEAN,
   closed: BOOLEAN, verified: Nat]

\* Lemma: the type of a session object.
LEMMA ObjectType ==
  TypeOK => ssn \in [Session -> Object] /\ \A s \in Session : ssn[s] \in Object
BY DEF TypeOK, Object

\* Lemma: what every step keeps, first the steps of connecting.
LEMMA ConnectingStep ==
  ASSUME IInv, NEW s \in Session,
         \/ Start(s) \/ VerifyMatch(s) \/ VerifyMismatch(s) \/ Challenge(s)
         \/ VerdictYes(s) \/ Refuse(s) \/ LinkDown(s)
  PROVE  IInv'
<1> USE SessionAssumption DEF IInv
<1>0. Held(s) /\ Trust(s) /\ Informed(s) /\ Serial(s)
  BY DEF Objects
<1>1. CASE Start(s)
  <2>1. TypeOK'
    <3>1. ssn'[s] \in Object /\ \A t \in Session : t # s => ssn'[t] = ssn[t]
      BY <1>1, ObjectType DEF Start, Object, Stage
    <3> QED
      BY <1>1, <3>1, ObjectType DEF Start, TypeOK, engine, Object
  <2>2. Held(s)' /\ Trust(s)' /\ Informed(s)' /\ Serial(s)'
    BY <1>0, <1>1 DEF Start, TypeOK, engine, Held, Trust, Trusted, Informed, Serial
  <2>3. Objects'
    BY <1>1, <2>2, OneObject DEF Start, TypeOK
  <2>4. Tables'
    BY <1>1, QuietTables DEF Start, TypeOK
  <2> QED
    BY <2>1, <2>3, <2>4
<1>2. CASE VerifyMatch(s)
  <2>1. TypeOK'
    BY <1>2 DEF VerifyMatch, Verifying, Accepted, TypeOK, engine, Stage
  <2>2. Held(s)' /\ Trust(s)' /\ Informed(s)' /\ Serial(s)'
    BY <1>0, <1>2 DEF VerifyMatch, Verifying, Accepted, TypeOK, Held, Trust,
                      Trusted, Informed, Serial
  <2>3. Objects'
    BY <1>2, <2>2, OneObject DEF VerifyMatch, TypeOK
  <2>4. Tables'
    BY <1>2, QuietTables DEF VerifyMatch, TypeOK
  <2> QED
    BY <2>1, <2>3, <2>4
<1>3. CASE VerifyMismatch(s)
  <2>0. ssn[s].stage = "kex" /\ errors[s] = 0
    BY <1>0, <1>3 DEF VerifyMismatch, Verifying, Trust, Trusted, Held, Informed
  <2>1. TypeOK'
    BY <1>3, <2>0 DEF VerifyMismatch, Verifying, TypeOK, engine, Stage
  <2>2. Held(s)' /\ Trust(s)' /\ Informed(s)' /\ Serial(s)'
    BY <1>0, <1>3, <2>0 DEF VerifyMismatch, Verifying, TypeOK, Held, Trust,
                            Trusted, Informed, Serial
  <2>3. Objects'
    BY <1>3, <2>2, OneObject DEF VerifyMismatch, TypeOK
  <2>4. Tables'
    BY <1>3, QuietTables DEF VerifyMismatch, TypeOK
  <2> QED
    BY <2>1, <2>3, <2>4
<1>4. CASE Challenge(s)
  <2>1. TypeOK'
    BY <1>4 DEF Challenge, Verifying, TypeOK, engine, Stage
  <2>2. Held(s)' /\ Trust(s)' /\ Informed(s)' /\ Serial(s)'
    BY <1>0, <1>4 DEF Challenge, Verifying, TypeOK, Held, Trust, Trusted, Informed,
                      Serial
  <2>3. Objects'
    BY <1>4, <2>2, OneObject DEF Challenge, TypeOK
  <2>4. Tables'
    BY <1>4, QuietTables DEF Challenge, TypeOK
  <2> QED
    BY <2>1, <2>3, <2>4
<1>5. CASE VerdictYes(s)
  <2>1. TypeOK'
    <3>1. ssn'[s] \in Object /\ \A t \in Session : t # s => ssn'[t] = ssn[t]
      BY <1>5, ObjectType DEF VerdictYes, Accepted, Object, Stage
    <3> QED
      BY <1>5, <3>1, ObjectType DEF VerdictYes, Accepted, TypeOK, engine, Object
  <2>2. Held(s)' /\ Trust(s)' /\ Informed(s)' /\ Serial(s)'
    BY <1>0, <1>5 DEF VerdictYes, Accepted, TypeOK, Held, Trust, Trusted, Informed,
                      Serial
  <2>3. Objects'
    BY <1>5, <2>2, OneObject DEF VerdictYes, TypeOK
  <2>4. Tables'
    BY <1>5, QuietTables DEF VerdictYes, TypeOK
  <2> QED
    BY <2>1, <2>3, <2>4
<1>6. CASE Refuse(s)
  <2>1. TypeOK'
    <3>1. ssn'[s] \in Object /\ \A t \in Session : t # s => ssn'[t] = ssn[t]
      BY <1>6, ObjectType DEF Refuse, Object, Stage
    <3> QED
      BY <1>6, <3>1, ObjectType DEF Refuse, TypeOK, engine, Object
  <2>2. Held(s)' /\ Trust(s)' /\ Informed(s)' /\ Serial(s)'
    BY <1>0, <1>6 DEF Refuse, TypeOK, Held, Trust, Trusted, Informed, Serial
  <2>3. Objects'
    BY <1>6, <2>2, OneObject DEF Refuse, TypeOK
  <2>4. Tables'
    BY <1>6, QuietTables DEF Refuse, TypeOK
  <2> QED
    BY <2>1, <2>3, <2>4
<1>7. CASE LinkDown(s)
  <2>1. TypeOK'
    <3>1. ssn'[s] \in Object /\ \A t \in Session : t # s => ssn'[t] = ssn[t]
      BY <1>7, ObjectType DEF LinkDown, Object, Stage
    <3> QED
      BY <1>7, <3>1, ObjectType DEF LinkDown, TypeOK, engine, Object
  <2>2. Held(s)' /\ Trust(s)' /\ Informed(s)' /\ Serial(s)'
    BY <1>0, <1>7 DEF LinkDown, TypeOK, Held, Trust, Trusted, Informed, Serial
  <2>3. Objects'
    BY <1>7, <2>2, OneObject DEF LinkDown, TypeOK
  <2>4. Tables'
    BY <1>7, QuietTables DEF LinkDown, TypeOK
  <2> QED
    BY <2>1, <2>3, <2>4
<1> QED
  BY <1>1, <1>2, <1>3, <1>4, <1>5, <1>6, <1>7

\* Lemma: the registration of a connection.
LEMMA RegisterStep ==
  ASSUME IInv, NEW s \in Session, ConnectOk(s)
  PROVE  IInv'
<1> USE SessionAssumption DEF IInv
<1>0. Held(s) /\ Trust(s) /\ Informed(s) /\ Serial(s)
  BY DEF Objects
<1>1. /\ ssn[s].stage = "auth" /\ ~ssn[s].closed /\ ssn[s].connId = 0
      /\ nextId \in 1..MaxId /\ nextId' = nextId + 1
      /\ conns' = conns \cup {[id |-> nextId, owner |-> s]}
      /\ ssn' = [ssn EXCEPT ![s].stage = "up", ![s].connId = nextId]
      /\ shells' = shells /\ files' = files /\ call' = call
      /\ consent' = consent /\ errors' = errors
  BY <1>0 DEF ConnectOk, Trust, TypeOK
<1>2. TypeOK'
  BY <1>1 DEF TypeOK, Stage
<1>3. Held(s)' /\ Trust(s)' /\ Informed(s)' /\ Serial(s)'
  BY <1>0, <1>1 DEF TypeOK, Held, Trust, Trusted, Informed, Serial
<1>4. Objects'
  BY <1>1, <1>3, OneObject DEF TypeOK
<1>5. /\ ssn'[s].connId = nextId /\ ssn'[s].shell = 0 /\ ssn'[s].handles = {}
      /\ ssn[s].shell = 0 /\ ssn[s].handles = {}
      /\ \A t \in Session : t # s => ssn'[t] = ssn[t]
  BY <1>0, <1>1 DEF TypeOK, Held
<1>6. Ids'
  BY <1>1, <1>5 DEF Tables, Ids, TypeOK
<1>7. Distinct'
  BY <1>1, <1>5 DEF Tables, Distinct, Ids, TypeOK
<1>8. ConnTable'
  <2>1. \A c \in conns : c.owner # s
    BY <1>1 DEF Tables, ConnTable, TypeOK
  <2> QED
    BY <1>1, <1>5, <2>1 DEF Tables, ConnTable, TypeOK
<1>9. FileTable' /\ ShellTable'
  <2>1. \A f \in files : f.owner # s
    BY <1>5 DEF Tables, FileTable
  <2> QED
    BY <1>1, <1>5, <2>1 DEF Tables, FileTable, ShellTable, TypeOK
<1> QED
  BY <1>2, <1>4, <1>6, <1>7, <1>8, <1>9 DEF Tables

\* Lemma: the ways a session ends.
LEMMA ClosingStep ==
  ASSUME IInv, NEW s \in Session,
         ConnectFail(s) \/ EndSession(s) \/ \E q \in Req : CompleteTooLarge(s, q)
  PROVE  IInv'
<1> USE SessionAssumption DEF IInv
<1>0. Held(s) /\ Trust(s) /\ Informed(s) /\ Serial(s)
  BY DEF Objects
<1> DEFINE r == ClosedState(ssn[s])
<1>1. PICK stage \in Stage :
      /\ ssn' = [ssn EXCEPT ![s] = [r EXCEPT !.stage = stage]]
      /\ stage = "failed" \/ stage = r.stage
      /\ errors'[s] \in 0..2
      /\ \A t \in Session : t # s =>
           errors'[t] = errors[t] /\ call'[t] = call[t]
      /\ errors' \in [Session -> 0..2]
      /\ call' \in [Session -> [Req -> Method \cup {NoCall}]]
      /\ \A q \in Req : call'[s][q] = call[s][q] \/ call'[s][q] = NoCall
      /\ Release(s) /\ nextId' = nextId /\ consent' = consent
  <2>1. CASE ConnectFail(s)
    <3>1. ssn[s].blocked \/ ssn[s].closed \/ errors[s] = 0
      BY <1>0, <2>1 DEF ConnectFail, Informed
    <3> QED
      BY <2>1, <3>1 DEF ConnectFail, Stage, TypeOK, ClosedState
  <2>2. CASE EndSession(s)
    <3>1. /\ r.stage \in Stage
          /\ ssn' = [ssn EXCEPT ![s] = [r EXCEPT !.stage = r.stage]]
      BY <2>2 DEF EndSession, Stage, TypeOK, ClosedState
    <3> QED
      BY <2>2, <3>1 DEF EndSession, TypeOK
  <2>3. CASE \E q \in Req : CompleteTooLarge(s, q)
    <3>1. PICK q \in Req : CompleteTooLarge(s, q)
      BY <2>3
    <3>2. /\ r.stage \in Stage
          /\ ssn' = [ssn EXCEPT ![s] = [r EXCEPT !.stage = r.stage]]
      <4>1. ssn' = [ssn EXCEPT ![s] = r]
        BY <3>1 DEF CompleteTooLarge
      <4> QED
        BY <4>1 DEF Stage, TypeOK, ClosedState
    <3>3. call' = [call EXCEPT ![s][q] = NoCall]
      BY <3>1 DEF CompleteTooLarge, Finish
    <3>4. /\ call' \in [Session -> [Req -> Method \cup {NoCall}]]
          /\ \A p \in Req : call'[s][p] = call[s][p] \/ call'[s][p] = NoCall
          /\ \A t \in Session : t # s => call'[t] = call[t]
      BY <3>3 DEF TypeOK
    <3> QED
      BY <3>1, <3>2, <3>4 DEF CompleteTooLarge, TypeOK
  <2> QED
    BY <2>1, <2>2, <2>3
<1>2. /\ ssn'[s].closed /\ ~ssn'[s].challenge /\ ssn'[s].connId = 0
      /\ ssn'[s].shell = 0 /\ ssn'[s].handles = {} /\ ssn'[s].pin = ssn[s].pin
      /\ ssn'[s].blocked = ssn[s].blocked /\ ssn'[s].stage = stage
      /\ \A t \in Session : t # s => ssn'[t] = ssn[t]
  BY <1>1 DEF ClosedState, TypeOK
<1>3. /\ stage # "up"
      /\ stage = "auth" => ssn[s].stage = "auth"
      /\ stage \in {"new", "kex", "verify"} => ssn[s].stage = stage
  BY <1>0, <1>1 DEF ClosedState, TypeOK, Held
<1>4. TypeOK'
  <2>1. ssn'[s] \in Object
    <3>1. ssn[s] \in Object /\ ssn'[s] = [r EXCEPT !.stage = stage]
      BY <1>1, ObjectType DEF TypeOK
    <3>2. r \in Object
      <4> DEFINE stage1 == IF ssn[s].connId # 0 THEN "down"
                           ELSE IF ssn[s].challenge THEN "refused"
                           ELSE ssn[s].stage
      <4>1. stage1 \in Stage
        BY <3>1 DEF Object, Stage
      <4> HIDE DEF stage1
      <4> DEFINE r1 == [ssn[s] EXCEPT !.closed = TRUE, !.connId = 0]
                 r2 == [r1 EXCEPT !.shell = 0, !.handles = {}]
                 r3 == [r2 EXCEPT !.challenge = FALSE, !.stage = stage1]
      <4>0. 0 \in 0..MaxId
        BY SessionAssumption
      <4>2. r1 \in Object
        BY <3>1, <4>0 DEF Object
      <4>3. r2 \in Object
        <5> HIDE DEF r1
        <5> QED  BY <4>2, <4>0 DEF Object
      <4>4. r3 \in Object
        <5> HIDE DEF r2
        <5> QED  BY <4>1, <4>3 DEF Object
      <4> QED
        BY <4>4 DEF ClosedState, stage1
    <3> HIDE DEF r
    <3> QED
      BY <3>1, <3>2 DEF Object
  <2> QED
    BY <1>1, <1>2, <2>1, ObjectType DEF Release, ConnsWithout, ShellsWithout,
       FilesWithout, TypeOK, Object
<1>5. Held(s)' /\ Trust(s)' /\ Informed(s)' /\ Serial(s)'
  BY <1>0, <1>1, <1>2, <1>3 DEF Held, Trust, Trusted, Informed, Serial, NoCall
<1>6. Objects'
  BY <1>1, <1>2, <1>5, OneObject
<1>7. Tables'
  BY <1>1, <1>2, ReleaseTables
<1> QED
  BY <1>4, <1>6, <1>7

\* Lemma: a frame that only asks the engine, and an answer that changes
\* nothing else.
LEMMA AskingStep ==
  ASSUME IInv, NEW s \in Session, NEW q \in Req,
         \/ RequestPlain(s, q) \/ RequestOpenFile(s, q) \/ CompleteOther(s, q)
         \/ \E h \in 1..MaxId : RequestChunk(s, q, h)
  PROVE  IInv'
<1> USE SessionAssumption DEF IInv
<1>0. Held(s) /\ Trust(s) /\ Informed(s) /\ Serial(s)
  BY DEF Objects
<1>1. PICK m \in Method \cup {NoCall} :
        call' = [call EXCEPT ![s][q] = m] /\ m.method # "openShell"
  <2>1. CASE RequestPlain(s, q)
    <3>1. call' = [call EXCEPT ![s][q] = [method |-> "plain"]]
      BY <2>1 DEF RequestPlain, Request
    <3> QED
      BY <3>1, [method |-> "plain"] \in Method DEF Method
  <2>2. CASE RequestOpenFile(s, q)
    <3>1. call' = [call EXCEPT ![s][q] = [method |-> "openFile"]]
      BY <2>2 DEF RequestOpenFile, Request
    <3> QED
      BY <3>1, [method |-> "openFile"] \in Method DEF Method
  <2>3. CASE CompleteOther(s, q)
    <3>1. call' = [call EXCEPT ![s][q] = NoCall]
      BY <2>3 DEF CompleteOther, Finish
    <3> QED
      BY <3>1, NoCall.method # "openShell" DEF NoCall
  <2>4. CASE \E h \in 1..MaxId : RequestChunk(s, q, h)
    <3>1. PICK h \in 1..MaxId : RequestChunk(s, q, h)
      BY <2>4
    <3>2. call' = [call EXCEPT ![s][q] = [method |-> "handle"]]
      BY <3>1 DEF RequestChunk, Request
    <3> QED
      BY <3>2, [method |-> "handle"] \in Method DEF Method
  <2> QED
    BY <2>1, <2>2, <2>3, <2>4
<1>2. /\ engine' = engine /\ ssn' = ssn /\ consent' = consent /\ errors' = errors
  BY DEF RequestPlain, RequestOpenFile, CompleteOther, RequestChunk, Request,
         engine
<1>3. TypeOK'
  BY <1>1, <1>2 DEF TypeOK, engine
<1>4. /\ \A p \in Req : p # q => call'[s][p] = call[s][p]
      /\ call'[s][q].method # "openShell"
      /\ \A t \in Session : t # s => call'[t] = call[t]
  BY <1>1 DEF TypeOK
<1>5. Held(s)' /\ Trust(s)' /\ Informed(s)' /\ Serial(s)'
  BY <1>0, <1>2, <1>4 DEF Held, Trust, Trusted, Informed, Serial
<1>6. Objects'
  BY <1>2, <1>4, <1>5, OneObject
<1>7. Tables'
  BY <1>2, QuietTables
<1> QED
  BY <1>3, <1>6, <1>7

\* Lemma: the shell a session has is closed, by its browser or to make room
\* for another one.
LEMMA ShellGoesStep ==
  ASSUME IInv, NEW s \in Session,
         ShellClose(s) \/ \E q \in Req : RequestShell(s, q)
  PROVE  IInv'
<1> USE SessionAssumption DEF IInv
<1>0. Held(s) /\ Trust(s) /\ Informed(s) /\ Serial(s)
  BY DEF Objects
<1>1. /\ shells' = {h \in shells : h.id # ssn[s].shell}
      /\ ssn' = [ssn EXCEPT ![s].shell = 0]
      /\ nextId' = nextId /\ conns' = conns /\ files' = files
      /\ consent' = consent /\ errors' = errors
  BY DEF ShellClose, RequestShell, Request, ShellsWithout
<1>2. /\ call' \in [Session -> [Req -> Method \cup {NoCall}]]
      /\ \A t \in Session : t # s => call'[t] = call[t]
      /\ SerialShell => \A p, q \in Req :
           call'[s][p].method = "openShell" /\ call'[s][q].method = "openShell"
             => p = q
  <2>1. CASE ShellClose(s)
    BY <1>0, <2>1 DEF ShellClose, TypeOK, Serial
  <2>2. CASE \E q \in Req : RequestShell(s, q)
    <3>1. PICK q \in Req :
            /\ call' = [call EXCEPT ![s][q] = [method |-> "openShell"]]
            /\ SerialShell => \A p \in Req : call[s][p].method # "openShell"
      BY <2>2 DEF RequestShell, Request
    <3>2. [method |-> "openShell"] \in Method
      BY DEF Method
    <3> QED
      BY <3>1, <3>2 DEF TypeOK
  <2> QED
    BY <2>1, <2>2
<1>3. /\ ssn'[s].shell = 0 /\ ssn'[s] = [ssn[s] EXCEPT !.shell = 0]
      /\ ssn[s] \in Object
      /\ \A t \in Session : t # s => ssn'[t] = ssn[t]
  BY <1>1, ObjectType DEF Object, TypeOK
<1>4. TypeOK'
  <2>1. ssn'[s] \in Object
    BY <1>3 DEF Object
  <2> QED
    BY <1>1, <1>2, <1>3, <2>1, ObjectType DEF TypeOK, Object
<1>5. Held(s)' /\ Trust(s)' /\ Informed(s)' /\ Serial(s)'
  BY <1>0, <1>1, <1>2, <1>3 DEF Held, Trust, Trusted, Informed, Serial, Object
<1>6. Objects'
  BY <1>1, <1>2, <1>3, <1>5, OneObject
<1>7. /\ \A t \in Session : /\ ssn'[t].connId = ssn[t].connId
                            /\ ssn'[t].handles = ssn[t].handles
      /\ \A e \in conns \cup shells \cup files : e.owner \in Session
      /\ \A h \in shells : h.id > 0
      /\ nextId > 0
  <2>1. \A t \in Session : ssn'[t].connId = ssn[t].connId /\ ssn'[t].handles = ssn[t].handles
    BY <1>3 DEF Object
  <2>2. /\ \A e \in conns \cup shells \cup files : e.owner \in Session
        /\ \A h \in shells : h.id > 0
    BY DEF TypeOK
  <2>3. nextId > 0
    BY DEF TypeOK
  <2> QED
    BY <2>1, <2>2, <2>3
<1>8. Ids' /\ Distinct'
  BY <1>1, <1>3, <1>7 DEF Tables, Ids, Distinct
<1>9. ConnTable' /\ FileTable'
  BY <1>1, <1>7 DEF Tables, ConnTable, FileTable
<1>10. ShellTable'
  <2>1. SerialShell => \A h \in shells' : h.owner # s
    BY <1>1, <1>7 DEF Tables, ShellTable
  <2>2. \A h \in shells : h.owner # s => h \in shells'
    BY <1>1, <1>7 DEF Tables, ShellTable
  <2>3. \A h \in shells' : h \in shells /\ h.id # 0
    BY <1>1, <1>7
  <2>4. \A t \in Session : ssn'[t].shell # 0 =>
          \E h \in shells' : h.owner = t /\ h.id = ssn'[t].shell
    <3> SUFFICES ASSUME NEW t \in Session, ssn'[t].shell # 0
                 PROVE  \E h \in shells' : h.owner = t /\ h.id = ssn'[t].shell
      OBVIOUS
    <3>1. t # s /\ ssn'[t] = ssn[t]
      BY <1>3
    <3>2. PICK h \in shells : h.owner = t /\ h.id = ssn[t].shell
      BY <3>1 DEF Tables, ShellTable
    <3> QED
      BY <2>2, <3>1, <3>2
  <2>5. \A h \in shells' : \A t \in Session : h.id = ssn'[t].shell => h.owner = t
    <3>1. \A h \in shells : \A t \in Session : h.id = ssn[t].shell => h.owner = t
      BY DEF Tables, ShellTable
    <3>2. \A t \in Session : t # s => ssn'[t].shell = ssn[t].shell
      BY <1>3
    <3>3. ssn'[s].shell = 0
      BY <1>3
    <3> QED
      BY <2>3, <3>1, <3>2, <3>3
  <2>6. SerialShell => \A h \in shells' : h.id = ssn'[h.owner].shell
    BY <1>3, <1>7, <2>1, <2>3 DEF Tables, ShellTable
  <2> QED
    BY <2>4, <2>5, <2>6 DEF ShellTable
<1> QED
  BY <1>4, <1>6, <1>8, <1>9, <1>10 DEF Tables


\* Lemma: a file handle is closed.
LEMMA CloseFileStep ==
  ASSUME IInv, NEW s \in Session, NEW q \in Req, NEW h \in 1..MaxId,
         RequestCloseFile(s, q, h)
  PROVE  IInv'
<1> USE SessionAssumption DEF IInv
<1>0. Held(s) /\ Trust(s) /\ Informed(s) /\ Serial(s)
  BY DEF Objects
<1>1. /\ h \in ssn[s].handles
      /\ files' = {f \in files : f.id # h}
      /\ ssn' = [ssn EXCEPT ![s].handles = @ \ {h}]
      /\ call' = [call EXCEPT ![s][q] = [method |-> "handle"]]
      /\ nextId' = nextId /\ conns' = conns /\ shells' = shells
      /\ consent' = consent /\ errors' = errors
  BY DEF RequestCloseFile, Request
<1>2. /\ call' \in [Session -> [Req -> Method \cup {NoCall}]]
      /\ \A t \in Session : t # s => call'[t] = call[t]
      /\ \A p \in Req : call'[s][p].method = "openShell" => call'[s][p] = call[s][p]
  BY <1>1, [method |-> "handle"] \in Method DEF TypeOK, Method
<1>3. /\ ssn'[s] = [ssn[s] EXCEPT !.handles = ssn[s].handles \ {h}]
      /\ ssn[s] \in Object
      /\ \A t \in Session : t # s => ssn'[t] = ssn[t]
  BY <1>1, ObjectType DEF Object, TypeOK
<1>4. ssn'[s].handles = ssn[s].handles \ {h}
  BY <1>3 DEF Object
<1>5. TypeOK'
  <2>1. ssn'[s] \in Object
    BY <1>3 DEF Object
  <2> QED
    BY <1>1, <1>2, <1>3, <2>1, ObjectType DEF TypeOK, Object
<1>6. Held(s)' /\ Trust(s)' /\ Informed(s)' /\ Serial(s)'
  BY <1>0, <1>1, <1>2, <1>3 DEF Held, Trust, Trusted, Informed, Serial, Object
<1>7. Objects'
  BY <1>1, <1>2, <1>3, <1>6, OneObject
<1>8. /\ \A t \in Session : /\ ssn'[t].connId = ssn[t].connId
                            /\ ssn'[t].shell = ssn[t].shell
                            /\ ssn'[t].handles \subseteq ssn[t].handles
      /\ \A e \in conns \cup shells \cup files : e.owner \in Session
  BY <1>3 DEF Object, TypeOK
<1>9. Ids' /\ Distinct'
  BY <1>1, <1>8 DEF Tables, Ids, Distinct
<1>10. ConnTable' /\ ShellTable'
  BY <1>1, <1>8 DEF Tables, ConnTable, ShellTable
<1>11. FileTable'
  <2>1. \A f \in files' : f \in files /\ f.id # h
    BY <1>1
  <2>2. \A f \in files : f.id = h => f.owner = s
    BY <1>1, <1>8 DEF Tables, FileTable, Distinct
  <2> QED
    BY <1>1, <1>3, <1>4, <1>8, <2>1, <2>2 DEF Tables, FileTable
<1> QED
  BY <1>5, <1>7, <1>9, <1>10, <1>11 DEF Tables


\* Lemma: the engine hands out a shell.
LEMMA CompleteShellStep ==
  ASSUME IInv, NEW s \in Session, NEW q \in Req, CompleteShell(s, q)
  PROVE  IInv'
<1> USE SessionAssumption DEF IInv
<1>0. Held(s) /\ Trust(s) /\ Informed(s) /\ Serial(s)
  BY DEF Objects
<1>1. /\ call[s][q].method = "openShell" /\ ssn[s].stage = "up"
      /\ nextId \in 1..MaxId /\ nextId' = nextId + 1
      /\ shells' = shells \cup {[id |-> nextId, owner |-> s]}
      /\ ssn' = [ssn EXCEPT ![s].shell = nextId]
      /\ call' = [call EXCEPT ![s][q] = NoCall]
      /\ conns' = conns /\ files' = files
      /\ consent' = consent /\ errors' = errors
  BY DEF CompleteShell, ConnUp, Finish, TypeOK
<1>2. /\ call' \in [Session -> [Req -> Method \cup {NoCall}]]
      /\ \A t \in Session : t # s => call'[t] = call[t]
      /\ SerialShell => \A p \in Req : call'[s][p].method # "openShell"
  <2>1. /\ call' \in [Session -> [Req -> Method \cup {NoCall}]]
        /\ \A t \in Session : t # s => call'[t] = call[t]
    BY <1>1 DEF TypeOK
  <2>2. NoCall.method # "openShell"
    BY DEF NoCall
  <2>3. /\ call'[s][q] = NoCall
        /\ \A p \in Req : p # q => call'[s][p] = call[s][p]
    BY <1>1 DEF TypeOK
  <2> QED
    BY <1>0, <1>1, <2>1, <2>2, <2>3 DEF Serial
<1>3. /\ ssn'[s] = [ssn[s] EXCEPT !.shell = nextId]
      /\ ssn[s] \in Object
      /\ \A t \in Session : t # s => ssn'[t] = ssn[t]
  BY <1>1, ObjectType DEF Object, TypeOK
<1>4. /\ ssn'[s].shell = nextId
      /\ SerialShell => ssn[s].shell = 0
      /\ ssn[s].connId # 0
  BY <1>0, <1>1, <1>3 DEF Object, Held, Serial
<1>5. TypeOK'
  <2>1. nextId \in 0..MaxId
    BY <1>1
  <2>2. ssn'[s] \in Object
    BY <1>3, <2>1 DEF Object
  <2>3. shells' \subseteq [id: 1..MaxId, owner: Session]
    BY <1>1, [id |-> nextId, owner |-> s] \in [id: 1..MaxId, owner: Session] DEF TypeOK
  <2>4. ssn' \in [Session -> Object]
    BY <1>1, <1>3, <2>2, ObjectType
  <2>5. nextId' \in 1..(MaxId + 1)
    BY <1>1
  <2> QED
    BY <1>1, <1>2, <2>3, <2>4, <2>5 DEF TypeOK, Object
<1>6. Held(s)' /\ Trust(s)' /\ Informed(s)' /\ Serial(s)'
  BY <1>0, <1>1, <1>2, <1>3, <1>4 DEF Held, Trust, Trusted, Informed, Serial, Object
<1>7. Objects'
  BY <1>1, <1>2, <1>3, <1>6, OneObject
<1>8. /\ \A t \in Session : /\ ssn'[t].connId = ssn[t].connId
                            /\ ssn'[t].handles = ssn[t].handles
                            /\ t # s => ssn'[t].shell = ssn[t].shell
                            /\ ssn[t].connId \in Nat /\ ssn[t].shell \in Nat
                            /\ ssn[t].handles \subseteq Nat
      /\ \A e \in conns \cup shells \cup files : e.owner \in Session /\ e.id \in Nat \ {0}
  BY <1>3 DEF Object, TypeOK
<1>9. Ids'
  BY <1>1, <1>3, <1>4, <1>8 DEF Tables, Ids
<1>10. Distinct'
  <2>1. \A t \in Session : ssn[t].shell # nextId
    BY <1>1, <1>8 DEF Tables, Ids
  <2>2. ssn'[s].shell = nextId
    BY <1>4
  <2> QED
    BY <1>8, <2>1, <2>2 DEF Tables, Distinct
<1>11. ConnTable' /\ FileTable'
  BY <1>1, <1>8 DEF Tables, ConnTable, FileTable
<1>12. ShellTable'
  <2> DEFINE new == [id |-> nextId, owner |-> s]
  <2>1. /\ \A h \in shells' : h \in shells \/ h = new
        /\ shells \subseteq shells' /\ new \in shells'
        /\ new.id = nextId /\ new.owner = s
    BY <1>1
  <2>2. /\ \A h \in shells : h.id # nextId /\ h.id # 0
        /\ \A t \in Session : ssn[t].shell # nextId
    BY <1>1, <1>8 DEF Tables, Ids
  <2> HIDE DEF new
  <2>3. \A h \in shells : \A t \in Session : h.id = ssn[t].shell => h.owner = t
    BY DEF Tables, ShellTable
  <2>4. \A h \in shells' : \A t \in Session : h.id = ssn'[t].shell => h.owner = t
    <3>1. ASSUME NEW h \in shells', NEW t \in Session, h.id = ssn'[t].shell
          PROVE  h.owner = t
      <4>1. CASE t = s
        BY <1>4, <2>1, <2>2, <3>1, <4>1
      <4>2. CASE t # s
        <5>1. h.id = ssn[t].shell
          BY <1>8, <3>1, <4>2
        <5> QED
          BY <2>1, <2>2, <2>3, <5>1
      <4> QED
        BY <4>1, <4>2
    <3> QED
      BY <3>1
  <2>5. SerialShell => \A h \in shells' : h.id = ssn'[h.owner].shell
    <3>1. SerialShell => \A h \in shells : h.id = ssn[h.owner].shell /\ h.owner # s
      BY <1>4, <2>2 DEF Tables, ShellTable
    <3>2. ssn'[s].shell = nextId
      BY <1>4
    <3> QED
      BY <1>8, <2>1, <3>1, <3>2
  <2>6. \A t \in Session : ssn'[t].shell # 0 =>
          \E h \in shells' : h.owner = t /\ h.id = ssn'[t].shell
    <3>1. ASSUME NEW t \in Session, t # s, ssn'[t].shell # 0
          PROVE  \E h \in shells' : h.owner = t /\ h.id = ssn'[t].shell
      <4>1. ssn'[t].shell = ssn[t].shell
        BY <1>8, <3>1
      <4> QED
        BY <2>1, <3>1, <4>1 DEF Tables, ShellTable
    <3>2. ssn'[s].shell = nextId
      BY <1>4
    <3> QED
      BY <2>1, <3>1, <3>2
  <2> QED
    BY <2>4, <2>5, <2>6 DEF ShellTable
<1> QED
  BY <1>5, <1>7, <1>9, <1>10, <1>11, <1>12 DEF Tables

\* Lemma: the engine hands out a file handle.
LEMMA CompleteOpenFileStep ==
  ASSUME IInv, NEW s \in Session, NEW q \in Req, CompleteOpenFile(s, q)
  PROVE  IInv'
<1> USE SessionAssumption DEF IInv
<1> DEFINE new == [id |-> nextId, conn |-> ssn[s].connId, owner |-> s]
<1>0. Held(s) /\ Trust(s) /\ Informed(s) /\ Serial(s)
  BY DEF Objects
<1>1. /\ ssn[s].stage = "up"
      /\ nextId \in 1..MaxId /\ nextId' = nextId + 1
      /\ files' = files \cup {new}
      /\ ssn' = [ssn EXCEPT ![s].handles = @ \cup {nextId}]
      /\ call' = [call EXCEPT ![s][q] = NoCall]
      /\ conns' = conns /\ shells' = shells
      /\ consent' = consent /\ errors' = errors
  BY DEF CompleteOpenFile, ConnUp, Finish, TypeOK
<1>2. /\ call' \in [Session -> [Req -> Method \cup {NoCall}]]
      /\ \A t \in Session : t # s => call'[t] = call[t]
      /\ \A p \in Req : call'[s][p].method = "openShell" => call'[s][p] = call[s][p]
  BY <1>1, NoCall.method # "openShell" DEF TypeOK, NoCall
<1>3. /\ ssn'[s] = [ssn[s] EXCEPT !.handles = ssn[s].handles \cup {nextId}]
      /\ ssn[s] \in Object
      /\ \A t \in Session : t # s => ssn'[t] = ssn[t]
  BY <1>1, ObjectType DEF Object, TypeOK
<1>4. /\ ssn'[s].handles = ssn[s].handles \cup {nextId}
      /\ ssn[s].connId \in 1..MaxId
  BY <1>0, <1>1, <1>3 DEF Object, Held
<1>5. TypeOK'
  <2>1. ssn'[s] \in Object
    BY <1>1, <1>3 DEF Object
  <2>2. new \in [id: 1..MaxId, conn: 1..MaxId, owner: Session]
    BY <1>1, <1>4
  <2> HIDE DEF new
  <2> QED
    BY <1>1, <1>2, <1>3, <2>1, <2>2, ObjectType DEF TypeOK, Object
<1>6. Held(s)' /\ Trust(s)' /\ Informed(s)' /\ Serial(s)'
  BY <1>0, <1>1, <1>2, <1>3, <1>4 DEF Held, Trust, Trusted, Informed, Serial, Object
<1>7. Objects'
  BY <1>1, <1>2, <1>3, <1>6, OneObject
<1>8. /\ \A t \in Session : /\ ssn'[t].connId = ssn[t].connId
                            /\ ssn'[t].shell = ssn[t].shell
                            /\ ssn[t].connId \in Nat /\ ssn[t].shell \in Nat
                            /\ ssn[t].handles \subseteq Nat
      /\ \A e \in conns \cup shells \cup files : e.owner \in Session /\ e.id \in Nat
  <2>1. \A t \in Session : ssn'[t].connId = ssn[t].connId /\ ssn'[t].shell = ssn[t].shell
    BY <1>3 DEF Object
  <2>2. \A t \in Session : /\ ssn[t].connId \in Nat /\ ssn[t].shell \in Nat
                           /\ ssn[t].handles \subseteq Nat
    BY DEF TypeOK
  <2>3. \A e \in conns \cup shells \cup files : e.owner \in Session /\ e.id \in Nat
    BY DEF TypeOK
  <2> QED
    BY <2>1, <2>2, <2>3
<1>13. new.id = nextId /\ new.conn = ssn[s].connId /\ new.owner = s
  OBVIOUS
<1> HIDE DEF new
<1>9. Ids'
  BY <1>1, <1>3, <1>4, <1>8, <1>13 DEF Tables, Ids
<1>10. Distinct'
  <2>1. \A t \in Session : nextId \notin ssn[t].handles
    BY <1>1, <1>8 DEF Tables, Ids
  <2>2. /\ ssn'[s].handles = ssn[s].handles \cup {nextId}
        /\ \A t \in Session : t # s => ssn'[t].handles = ssn[t].handles
    BY <1>3, <1>4
  <2> QED
    BY <1>8, <2>1, <2>2 DEF Tables, Distinct
<1>11. ConnTable' /\ ShellTable'
  BY <1>1, <1>8 DEF Tables, ConnTable, ShellTable
<1>12. FileTable'
  <2>1. /\ ssn'[s].handles = ssn[s].handles \cup {nextId}
        /\ \A t \in Session : t # s => ssn'[t].handles = ssn[t].handles
    BY <1>3, <1>4
  <2> QED
    BY <1>1, <1>8, <1>13, <2>1 DEF Tables, FileTable
<1> QED
  BY <1>5, <1>7, <1>9, <1>10, <1>11, <1>12 DEF Tables


-----------------------------------------------------------------------------
\* Lemma: every step keeps the invariant.
LEMMA NextInv == IInv /\ [Next]_vars => IInv'
<1> SUFFICES ASSUME IInv, [Next]_vars PROVE IInv'
  OBVIOUS
<1>1. CASE UNCHANGED vars
  BY <1>1 DEF vars, IInv, TypeOK, Objects, Held, Trust, Trusted, Informed, Serial,
     Tables, Ids, Distinct, ConnTable, FileTable, ShellTable
<1>2. CASE Next
  <2>1. PICK s \in Session :
     \/ Start(s) \/ VerifyMatch(s) \/ VerifyMismatch(s) \/ Challenge(s)
     \/ VerdictYes(s) \/ Refuse(s) \/ LinkDown(s)
     \/ ConnectOk(s)
     \/ ConnectFail(s) \/ EndSession(s) \/ (\E q \in Req : CompleteTooLarge(s, q))
     \/ ShellClose(s) \/ (\E q \in Req : RequestShell(s, q))
     \/ \E q \in Req :
          \/ RequestPlain(s, q) \/ RequestOpenFile(s, q) \/ CompleteOther(s, q)
          \/ \E h \in 1..MaxId : RequestChunk(s, q, h)
     \/ \E q \in Req : \E h \in 1..MaxId : RequestCloseFile(s, q, h)
     \/ \E q \in Req : CompleteShell(s, q)
     \/ \E q \in Req : CompleteOpenFile(s, q)
    BY <1>2 DEF Next, VerdictNo, ChallengeTimeout
  <2> QED
    BY <2>1, ConnectingStep, RegisterStep, ClosingStep, AskingStep,
       ShellGoesStep, CloseFileStep, CompleteShellStep, CompleteOpenFileStep
<1> QED
  BY <1>1, <1>2

\* Lemma: the inductive invariant holds in every reachable state.
LEMMA SpecInv == Spec => []IInv
<1>1. Init => IInv
  BY InitInv
<1>2. IInv /\ [Next]_vars => IInv'
  BY NextInv
<1> QED
  BY <1>1, <1>2, PTL DEF Spec, Safety

\* Theorem: the tables of the engine and the session objects keep to their
\* types.
THEOREM TypeCorrect == Spec => []TypeOK
<1>1. IInv => TypeOK
  BY DEF IInv
<1> QED
  BY <1>1, SpecInv, PTL

\* Theorem: a closed session has nothing left in the engine.
THEOREM ClosedHoldsNothing == Spec => []ReleasedWhenClosed
<1>1. IInv => ReleasedWhenClosed
  <2> SUFFICES ASSUME IInv, NEW s \in Session, ssn[s].closed
               PROVE  /\ Owned(conns, s) = {} /\ Owned(files, s) = {}
                      /\ SerialShell => Owned(shells, s) = {}
    BY DEF ReleasedWhenClosed
  <2>1. /\ ssn[s].connId = 0 /\ ssn[s].shell = 0 /\ ssn[s].handles = {}
        /\ \A e \in conns \cup shells : e.id > 0
    BY SessionAssumption DEF IInv, TypeOK, Objects, Held
  <2>2. Owned(conns, s) = {}
    BY <2>1 DEF IInv, Tables, ConnTable, Owned
  <2>3. Owned(files, s) = {}
    BY <2>1 DEF IInv, Tables, FileTable, Owned
  <2>4. SerialShell => Owned(shells, s) = {}
    BY <2>1 DEF IInv, Tables, ShellTable, Owned
  <2> QED
    BY <2>2, <2>3, <2>4
<1> QED
  BY <1>1, SpecInv, PTL

\* Theorem: what a session accepts from its browser is what the engine holds
\* for it.
THEOREM HandlesAgree == Spec => []TablesAgree
<1>1. IInv => TablesAgree
  <2> SUFFICES ASSUME IInv, NEW s \in Session
               PROVE  /\ {c.id : c \in Owned(conns, s)} = {ssn[s].connId} \ {0}
                      /\ {f.id : f \in Owned(files, s)} = ssn[s].handles
                      /\ \A f \in Owned(files, s) : f.conn = ssn[s].connId
                      /\ SerialShell =>
                           {h.id : h \in Owned(shells, s)} = {ssn[s].shell} \ {0}
    BY DEF TablesAgree
  <2>1. \A e \in conns \cup shells : e.id # 0
    BY SessionAssumption DEF IInv, TypeOK
  <2>2. {c.id : c \in Owned(conns, s)} = {ssn[s].connId} \ {0}
    BY <2>1 DEF IInv, Tables, ConnTable, Owned
  <2>3. {f.id : f \in Owned(files, s)} = ssn[s].handles
    BY DEF IInv, Tables, FileTable, Owned
  <2>4. \A f \in Owned(files, s) : f.conn = ssn[s].connId
    BY DEF IInv, Tables, FileTable, Owned
  <2>5. SerialShell => {h.id : h \in Owned(shells, s)} = {ssn[s].shell} \ {0}
    BY <2>1 DEF IInv, Tables, ShellTable, Owned
  <2> QED
    BY <2>2, <2>3, <2>4, <2>5
<1> QED
  BY <1>1, SpecInv, PTL

\* Theorem: no connection without a matching key or the user's consent.
THEOREM TrustedWhenReady == Spec => []TrustBeforeReady
<1>1. IInv => TrustBeforeReady
  BY DEF IInv, Objects, Trust, Trusted, TrustBeforeReady
<1> QED
  BY <1>1, SpecInv, PTL

\* Theorem: an entry leaves the engine's tables only in an event of the
\* session that owns it.
THEOREM SessionsIsolated == Spec => Isolation
<1> DEFINE Kept ==
      /\ \A c \in conns \ conns' : ssn'[c.owner] # ssn[c.owner]
      /\ \A h \in shells \ shells' : ssn'[h.owner] # ssn[h.owner]
      /\ \A f \in files \ files' : ssn'[f.owner] # ssn[f.owner]
<1>1. IInv /\ [Next]_vars => [Kept]_vars
  <2> SUFFICES ASSUME IInv, Next PROVE Kept
    BY DEF vars
  <2>0. /\ \A e \in conns \cup shells \cup files : e.owner \in Session /\ e.id # 0
        /\ \A f \in files : f.conn # 0
    BY SessionAssumption DEF IInv, TypeOK
  <2>1. ASSUME NEW s \in Session, Release(s), ssn'[s].closed, ~ssn[s].closed
                 \/ (ssn[s].connId = 0 /\ ssn[s].shell = 0)
        PROVE  Kept
    <3>1. \A c \in conns \ conns' : c.owner = s /\ ssn[s].connId # 0
      BY <2>0, <2>1 DEF Release, ConnsWithout, IInv, Tables, ConnTable, Distinct
    <3>2. \A h \in shells \ shells' : h.owner = s /\ ssn[s].shell # 0
      BY <2>0, <2>1 DEF Release, ShellsWithout, IInv, Tables, ShellTable
    <3>3. \A f \in files \ files' : f.owner = s /\ ssn[s].connId # 0
      BY <2>0, <2>1 DEF Release, FilesWithout, IInv, Tables, FileTable, Distinct
    <3> QED
      BY <2>1, <3>1, <3>2, <3>3
  <2>2. PICK s \in Session :
     \/ /\ conns \subseteq conns' /\ shells \subseteq shells'
        /\ files \subseteq files'
     \/ ConnectFail(s) \/ EndSession(s) \/ (\E q \in Req : CompleteTooLarge(s, q))
     \/ ShellClose(s) \/ (\E q \in Req : RequestShell(s, q))
     \/ \E q \in Req : \E h \in 1..MaxId : RequestCloseFile(s, q, h)
    BY DEF Next, Start, VerifyMatch, VerifyMismatch, Challenge, VerdictYes,
       VerdictNo, ChallengeTimeout, Refuse, LinkDown, ConnectOk, RequestPlain,
       RequestOpenFile, RequestChunk, Request, CompleteOther, CompleteShell,
       CompleteOpenFile, engine
  <2>3. Held(s)
    BY DEF IInv, Objects
  <2>4. CASE ConnectFail(s) \/ EndSession(s) \/ \E q \in Req : CompleteTooLarge(s, q)
    <3>1. Release(s)
      BY <2>4 DEF ConnectFail, EndSession, CompleteTooLarge
    <3>2. ssn'[s].closed
      BY <2>4 DEF ConnectFail, EndSession, CompleteTooLarge, ClosedState, IInv, TypeOK
    <3>3. ~ssn[s].closed \/ (ssn[s].connId = 0 /\ ssn[s].shell = 0)
      BY <2>3 DEF Held
    <3> QED
      BY <2>1, <3>1, <3>2, <3>3
  <2>5. CASE ShellClose(s) \/ \E q \in Req : RequestShell(s, q)
    <3>1. /\ conns' = conns /\ files' = files
          /\ shells' = ShellsWithout(ssn[s].shell)
          /\ ssn' = [ssn EXCEPT ![s].shell = 0]
      BY <2>5 DEF ShellClose, RequestShell, Request
    <3>2. ssn'[s].shell = 0
      BY <3>1 DEF IInv, TypeOK
    <3>3. \A h \in shells \ shells' : h.owner = s /\ ssn[s].shell # 0
      BY <2>0, <3>1 DEF ShellsWithout, IInv, Tables, ShellTable
    <3> QED
      BY <3>1, <3>2, <3>3
  <2>6. CASE \E q \in Req : \E h \in 1..MaxId : RequestCloseFile(s, q, h)
    <3>1. PICK h \in 1..MaxId :
            /\ conns' = conns /\ shells' = shells
            /\ files' = {f \in files : f.id # h} /\ h \in ssn[s].handles
            /\ ssn' = [ssn EXCEPT ![s].handles = @ \ {h}]
      BY <2>6 DEF RequestCloseFile, Request
    <3>2. h \notin ssn'[s].handles
      BY <3>1 DEF IInv, TypeOK
    <3>3. \A f \in files \ files' : f.owner = s
      BY <2>0, <3>1 DEF IInv, Tables, FileTable, Distinct
    <3> QED
      BY <3>1, <3>2, <3>3
  <2> QED
    BY <2>2, <2>4, <2>5, <2>6
<1>2. Spec => [][Next]_vars
  BY DEF Spec, Safety
<1> QED
  BY <1>1, <1>2, SpecInv, PTL DEF Isolation

\* Theorem: a browser that still listens when connecting fails is told once.
THEOREM ToldOnce == Spec => FailureReportedOnce
<1> DEFINE Reported == \A s \in Session :
      ssn[s].stage # "failed" /\ ssn'[s].stage = "failed" /\ ~ssn[s].closed
        => errors'[s] = 1
<1>1. IInv /\ [Next]_vars => [Reported]_vars
  <2> SUFFICES ASSUME IInv, Next, NEW s \in Session, ssn[s].stage # "failed",
                      ssn'[s].stage = "failed", ~ssn[s].closed
               PROVE  errors'[s] = 1
    BY DEF vars
  <2>1. ConnectFail(s)
    <3>1. PICK t \in Session :
       \/ UNCHANGED ssn
       \/ ConnectFail(t)
       \/ Start(t) \/ VerifyMatch(t) \/ VerifyMismatch(t) \/ Challenge(t)
       \/ VerdictYes(t) \/ Refuse(t) \/ LinkDown(t) \/ ConnectOk(t)
       \/ EndSession(t) \/ (\E q \in Req : CompleteTooLarge(t, q))
       \/ ShellClose(t) \/ (\E q \in Req : RequestShell(t, q))
       \/ \E q \in Req : \E h \in 1..MaxId : RequestCloseFile(t, q, h)
       \/ \E q \in Req : CompleteShell(t, q)
       \/ \E q \in Req : CompleteOpenFile(t, q)
      BY DEF Next, VerdictNo, ChallengeTimeout, RequestPlain, RequestOpenFile,
         RequestChunk, CompleteOther
    <3>2. ssn \in [Session -> Object]
      BY ObjectType DEF IInv
    <3>3. CASE Start(t) \/ VerifyMatch(t) \/ VerifyMismatch(t) \/ Challenge(t)
      BY <3>2, <3>3 DEF Start, VerifyMatch, VerifyMismatch, Challenge, Accepted,
         Object
    <3>4. CASE VerdictYes(t) \/ Refuse(t) \/ LinkDown(t) \/ ConnectOk(t)
      BY <3>2, <3>4 DEF VerdictYes, Refuse, LinkDown, ConnectOk, Accepted, Object
    <3>5. CASE EndSession(t) \/ \E q \in Req : CompleteTooLarge(t, q)
      <4>1. ssn' = [ssn EXCEPT ![t] = ClosedState(ssn[t])]
        BY <3>5 DEF EndSession, CompleteTooLarge
      <4>2. ssn'[t].stage = "failed" => ssn[t].stage = "failed"
        BY <3>2, <4>1 DEF ClosedState, Object
      <4> QED
        BY <3>2, <4>1, <4>2
    <3>6. CASE ShellClose(t) \/ \E q \in Req : RequestShell(t, q)
      BY <3>2, <3>6 DEF ShellClose, RequestShell, Object
    <3>7. CASE \/ \E q \in Req : \E h \in 1..MaxId : RequestCloseFile(t, q, h)
               \/ \E q \in Req : CompleteShell(t, q)
               \/ \E q \in Req : CompleteOpenFile(t, q)
      BY <3>2, <3>7 DEF RequestCloseFile, CompleteShell, CompleteOpenFile, Object
    <3>8. CASE ConnectFail(t)
      BY <3>2, <3>8 DEF ConnectFail
    <3> QED
      BY <3>1, <3>3, <3>4, <3>5, <3>6, <3>7, <3>8
  <2>2. errors[s] = IF ssn[s].blocked THEN 1 ELSE 0
    BY <2>1 DEF IInv, Objects, Informed, ConnectFail
  <2> QED
    BY <2>1, <2>2 DEF ConnectFail, IInv, TypeOK
<1>2. Spec => [][Next]_vars
  BY DEF Spec, Safety
<1> QED
  BY <1>1, <1>2, SpecInv, PTL DEF FailureReportedOnce

-----------------------------------------------------------------------------
(* The link.  The transport and WsConn are functions of the link, so each  *)
(* has a lemma: what it makes of a link, and what the reader sees of it.   *)
Chunk == 1..MaxChunks

Link ==
  [kind : {"tcp", "access"}, opened : BOOLEAN, why : {"", "clean", "broken", "own"},
   disposed : BOOLEAN, loop : BOOLEAN, taken : 0..MaxChunks, buffer : Seq(Chunk),
   queue : Nat, flying : 0..1, bytes : Int, made : BOOLEAN, inbox : Seq(Chunk),
   failed : BOOLEAN, released : BOOLEAN,
   reader : {"none", "opening", "reading", "paused", "over"},
   up : BOOLEAN, got : Seq(Chunk), late : BOOLEAN]

\* WritesFlow as a predicate on a link.
Flow(l) ==
  ~Closed(l) =>
    /\ l.bytes = l.queue + l.flying /\ l.bytes <= QueueMax
    /\ l.queue > 0 => l.flying = 1
    /\ Len(l.buffer) <= ReadMax

\* The callbacks are taken from the transport before they are released, and
\* the connection is over from then on.  A write is under way only once the
\* transport has opened.
Ends(l) ==
  /\ ~l.late
  /\ l.released => l.disposed
  /\ l.disposed <=> l.reader = "over"
  /\ l.disposed => l.failed
  /\ l.failed => Closed(l)
  /\ l.made /\ Closed(l) => l.failed
  /\ l.made <=> l.reader # "none"
  /\ l.flying = 1 => l.opened

\* Where the chunks are: with the reader, in the inbox, in the buffer.
Order(l) ==
  /\ \A i \in 1..Len(l.got) : l.got[i] = i
  /\ Len(l.got) <= l.taken
  /\ l.made /\ ~l.failed =>
       /\ Len(l.got) + Len(l.inbox) = l.taken
       /\ \A i \in 1..Len(l.inbox) : l.inbox[i] = Len(l.got) + i
  /\ ~l.made => l.got = <<>> /\ l.inbox = <<>>
  /\ ~l.made /\ ~Closed(l) =>
       /\ Len(l.buffer) = l.taken
       /\ \A i \in 1..Len(l.buffer) : l.buffer[i] = i

\* A link that the goroutines may still have to act on, and one they have.
Half(l) == Flow(l) /\ Ends(l) /\ Order(l)
Settled(l) == l.reader = "reading" => ~l.failed /\ l.inbox = <<>>

\* The keepalive runs while failures are left, and not before the handshake.
Counting ==
  /\ alive.state # "off" => alive.failures < CountMax
  /\ ~link.up => alive.state = "off" /\ alive.failures = 0

LinkInv ==
  /\ LinkTypeOK
  /\ Half(link) /\ Settled(link) /\ Counting
  /\ link.taken <= server.sent

-----------------------------------------------------------------------------
\* What a function of the link does to the stream that the reader sees.
Kept(l, m) == m.taken = l.taken /\ (l.up => m.up)
Same(l, m) ==
  /\ m.why = l.why /\ m.got = l.got
  /\ m.reader = "reading" <=> l.reader = "reading"
  /\ m.reader = "over" <=> l.reader = "over"
Took(l, m) ==
  /\ m.why = l.why /\ l.reader # "over" /\ m.reader # "over"
  /\ \E n \in Len(l.got)..m.taken : m.got = Stream!Chunks(n)
Over(l, m) ==
  /\ m.why = l.why /\ Closed(l) /\ l.reader # "over" /\ m.reader = "over" /\ m.got = l.got

\* Lemma: the chunks that the reader has are the first ones of the stream.
LEMMA Prefix ==
  ASSUME NEW s \in Seq(Chunk), \A i \in 1..Len(s) : s[i] = i
  PROVE  s = Stream!Chunks(Len(s))
<1>1. s \in [1..Len(s) -> Chunk]
  BY LenProperties
<1> QED BY <1>1 DEF Stream!Chunks

\* Lemma: WsConn.Close ends the reader of any link and keeps what it has.
LEMMA WsClosedEnds ==
  ASSUME NEW l \in Link, Half(l), l.made
  PROVE  /\ WsClosed(l) \in Link /\ Half(WsClosed(l)) /\ Settled(WsClosed(l))
         /\ Kept(l, WsClosed(l)) /\ WsClosed(l).reader = "over"
         /\ WsClosed(l).why = (IF Closed(l) THEN l.why ELSE "own")
         /\ WsClosed(l).got = l.got
<1> DEFINE m == WsClosed(l)
<1>1. <<>> \in Seq(Chunk) /\ Len(<<>>) = 0
  BY EmptySeq
<1>2. m = [l EXCEPT !.disposed = TRUE, !.buffer = <<>>,
                    !.why = IF Closed(l) THEN @ ELSE "own",
                    !.queue = IF Closed(l) THEN @ ELSE 0,
                    !.bytes = IF Closed(l) THEN @ ELSE 0,
                    !.failed = TRUE, !.released = TRUE, !.reader = "over"]
  BY DEF WsClosed, Emptied, Closed, Link
<1> HIDE DEF m
<1>3. m \in Link
  <2>1. /\ (IF Closed(l) THEN l.why ELSE "own") \in {"", "clean", "broken", "own"}
        /\ (IF Closed(l) THEN l.queue ELSE 0) \in Nat
    BY DEF Link
  <2>2. (IF Closed(l) THEN l.bytes ELSE 0) \in Int
    <3>1. l.bytes \in Int
      BY DEF Link
    <3> QED BY <3>1
  <2> QED BY <1>1, <1>2, <2>1, <2>2 DEF Link
<1>4. /\ m.disposed /\ m.failed /\ m.released /\ m.reader = "over" /\ m.made
      /\ m.why = (IF Closed(l) THEN l.why ELSE "own") /\ m.late = l.late
      /\ m.got = l.got /\ m.taken = l.taken /\ m.up = l.up
      /\ m.flying = l.flying /\ m.opened = l.opened
  BY <1>2 DEF Link
<1>5. Closed(m) /\ Settled(m) /\ Kept(l, m)
  BY <1>4 DEF Closed, Settled, Kept
<1>6. Half(m)
  BY <1>4, <1>5 DEF Half, Flow, Ends, Order
<1> QED BY <1>3, <1>4, <1>5, <1>6 DEF m

\* Lemma: a set of naturals has a least member.
LEMMA Least ==
  ASSUME NEW S, S \subseteq Nat, S # {}
  PROVE  Min(S) \in S
<1>1. PICK x \in S : \A y \in S : ~ (<<y, x>> \in OpToRel(<, Nat))
  BY NatLessThanWellFounded, WFMin, Zenon
<1>2. \A y \in S : y < x => <<y, x>> \in OpToRel(<, Nat)
  BY DEF OpToRel
<1>3. \A y \in S : ~(y < x)
  BY <1>1, <1>2
<1>4. \A y \in S : x <= y
  BY <1>3
<1> QED BY <1>4 DEF Min

\* Lemma: WsConn.Read takes a part of the inbox, up to the next host key, and
\* goes on waiting only when it has taken all of it.
LEMMA ReadsTake ==
  ASSUME NEW l \in Link, Half(l), ~l.failed, l.made, l.reader # "over"
  PROVE  /\ Reads(l) \in Link /\ Half(Reads(l)) /\ Settled(Reads(l))
         /\ Kept(l, Reads(l)) /\ Took(l, Reads(l))
<1> DEFINE keys == {i \in DOMAIN l.inbox : l.inbox[i] \in KeyChunks}
           n == IF keys = {} THEN Len(l.inbox) ELSE Min(keys)
           head == SubSeq(l.inbox, 1, n)
           tail == SubSeq(l.inbox, n + 1, Len(l.inbox))
           got == l.got \o head
           r == IF keys = {} THEN "reading" ELSE "paused"
           m == [l EXCEPT !.got = got, !.inbox = tail, !.reader = r,
                          !.up = @ \/ Len(got) >= LastShake]
<1>1. Reads(l) = m
  BY DEF Reads, Link
<1>2. /\ l.inbox \in Seq(Chunk) /\ Len(l.inbox) \in Nat /\ DOMAIN l.inbox = 1..Len(l.inbox)
      /\ l.got \in Seq(Chunk) /\ Len(l.got) \in Nat
      /\ \A i \in 1..Len(l.inbox) : l.inbox[i] \in Chunk
  BY LenProperties, ElementOfSeq DEF Link
<1>3. n \in 0..Len(l.inbox)
  <2>1. CASE keys = {}
    BY <1>2, <2>1
  <2>2. CASE keys # {}
    <3>1. keys \subseteq Nat
      BY <1>2
    <3>2. Min(keys) \in keys
      BY <2>2, <3>1, Least
    <3> QED BY <1>2, <2>2, <3>2
  <2> QED BY <2>1, <2>2
<1>4. keys = {} => n = Len(l.inbox)
  OBVIOUS
<1> HIDE DEF n
<1>5. /\ head \in Seq(Chunk) /\ Len(head) = n
      /\ \A i \in 1..n : head[i] = l.inbox[i]
  <2>1. \A i \in 1..n : l.inbox[i] \in Chunk
    BY <1>2, <1>3
  <2>2. /\ head \in Seq(Chunk)
        /\ Len(head) = IF 1 <= n THEN n - 1 + 1 ELSE 0
        /\ \A i \in 1..(n - 1 + 1) : head[i] = l.inbox[1 + i - 1]
    BY <1>3, <2>1, SubSeqProperties
  <2> QED BY <1>3, <2>2
<1>6. /\ tail \in Seq(Chunk) /\ Len(tail) = Len(l.inbox) - n
      /\ \A i \in 1..(Len(l.inbox) - n) : tail[i] = l.inbox[n + i]
  <2>1. \A i \in (n + 1)..Len(l.inbox) : l.inbox[i] \in Chunk
    BY <1>2, <1>3
  <2>2. /\ tail \in Seq(Chunk)
        /\ Len(tail) = IF n + 1 <= Len(l.inbox) THEN Len(l.inbox) - (n + 1) + 1 ELSE 0
        /\ \A i \in 1..(Len(l.inbox) - (n + 1) + 1) : tail[i] = l.inbox[n + 1 + i - 1]
    BY <1>2, <1>3, <2>1, SubSeqProperties
  <2> QED BY <1>2, <1>3, <2>2
<1> HIDE DEF head, tail
<1>7. /\ got \in Seq(Chunk) /\ Len(got) = Len(l.got) + n
      /\ \A i \in 1..Len(got) : got[i] = i
  <2>1. /\ got \in Seq(Chunk) /\ Len(got) = Len(l.got) + Len(head)
        /\ \A i \in 1..Len(l.got) + Len(head) :
             got[i] = IF i <= Len(l.got) THEN l.got[i] ELSE head[i - Len(l.got)]
    <3>1. l.got \in Seq(Chunk) /\ head \in Seq(Chunk)
      BY <1>2, <1>5
    <3> HIDE DEF got
    <3>2. got = l.got \o head
      BY DEF got
    <3> QED BY <3>1, <3>2, ConcatProperties, Zenon
  <2>2. /\ \A i \in 1..Len(l.got) : l.got[i] = i
        /\ \A i \in 1..Len(l.inbox) : l.inbox[i] = Len(l.got) + i
    BY DEF Half, Order
  <2> DEFINE a == Len(l.got)
             b == Len(l.inbox)
  <2>3. a \in Nat /\ b \in Nat /\ n \in 0..b
    BY <1>2, <1>3
  <2>4. Len(got) = a + n
    BY <1>5, <2>1
  <2>5. ASSUME NEW i \in 1..(a + n) PROVE got[i] = i
    <3>1. got[i] = IF i <= a THEN l.got[i] ELSE head[i - a]
      BY <1>5, <2>1
    <3>2. CASE i <= a
      <4>1. i \in 1..a
        BY <2>3, <3>2
      <4> QED BY <2>2, <3>1, <3>2, <4>1
    <3>3. CASE ~(i <= a)
      <4> DEFINE j == i - a
      <4>1. j \in 1..n /\ j \in 1..b /\ a + j = i
        <5> HIDE DEF a, b
        <5> QED BY <2>3, <3>3
      <4> HIDE DEF j
      <4>2. head[j] = l.inbox[j] /\ l.inbox[j] = a + j
        BY <1>5, <2>2, <4>1
      <4> QED BY <3>1, <3>3, <4>1, <4>2 DEF j
    <3> QED BY <3>2, <3>3
  <2> QED BY <2>1, <2>4, <2>5
<1>8. tail # <<>> => keys # {}
  BY <1>2, <1>3, <1>4, <1>6, EmptySeq
<1>9. r \in {"reading", "paused"} /\ (r = "reading" => keys = {})
  OBVIOUS
<1> HIDE DEF keys, r, got
<1>10. m \in Link
  BY <1>6, <1>7, <1>9 DEF Link
<1>11. /\ m.got = got /\ m.inbox = tail /\ m.reader = r /\ (l.up => m.up)
       /\ m.why = l.why /\ m.taken = l.taken /\ m.made = l.made /\ m.failed = l.failed
       /\ m.disposed = l.disposed /\ m.released = l.released /\ m.late = l.late
       /\ m.queue = l.queue /\ m.flying = l.flying /\ m.bytes = l.bytes
       /\ m.buffer = l.buffer /\ m.opened = l.opened
  BY <1>9 DEF Link
<1> HIDE DEF m
<1>12. Flow(m) /\ Ends(m)
  BY <1>9, <1>11 DEF Half, Flow, Ends, Closed
<1>13. /\ l.taken \in Nat /\ l.taken = Len(l.got) + Len(l.inbox)
       /\ \A i \in 1..Len(l.inbox) : l.inbox[i] = Len(l.got) + i
  <2>1. l.taken \in Nat
    <3>1. l.taken \in 0..MaxChunks
      BY DEF Link
    <3> QED BY <3>1
  <2> QED BY <2>1 DEF Half, Order
<1>14. Order(m)
  <2>1. Len(m.got) <= m.taken /\ Len(m.got) + Len(m.inbox) = m.taken
    <3> DEFINE a == Len(l.got)
               b == Len(l.inbox)
    <3>1. /\ Len(got) = a + n /\ a \in Nat /\ n \in Nat
          /\ Len(tail) = b - n /\ n <= b /\ b \in Nat
      BY <1>2, <1>3, <1>6, <1>7
    <3>2. m.taken = a + b
      BY <1>11, <1>13
    <3> HIDE DEF a, b
    <3> QED BY <1>11, <3>1, <3>2
  <2>2. \A i \in 1..Len(m.inbox) : m.inbox[i] = Len(m.got) + i
    <3> SUFFICES ASSUME NEW i \in 1..Len(tail) PROVE tail[i] = Len(got) + i
      BY <1>11
    <3>1. tail[i] = l.inbox[n + i] /\ n + i \in 1..Len(l.inbox)
      BY <1>2, <1>3, <1>6
    <3> QED BY <1>2, <1>3, <1>7, <1>13, <3>1
  <2> QED BY <1>7, <1>11, <2>1, <2>2 DEF Order
<1>15. Settled(m) /\ Kept(l, m)
  BY <1>8, <1>9, <1>11 DEF Settled, Kept
<1>16. Took(l, m)
  <2>1. m.got = Stream!Chunks(Len(got))
    BY <1>7, <1>11, Prefix
  <2>2. Len(got) \in Len(l.got)..m.taken
    <3> DEFINE a == Len(l.got)
               b == Len(l.inbox)
    <3>1. /\ Len(got) = a + n /\ a \in Nat /\ n \in Nat /\ n <= b /\ b \in Nat
      BY <1>2, <1>3, <1>7
    <3>2. m.taken = a + b
      BY <1>11, <1>13
    <3>3. Len(got) \in a..m.taken
      <4> HIDE DEF a, b
      <4> QED BY <3>1, <3>2
    <3> QED BY <3>3
  <2> QED BY <1>9, <1>11, <2>1, <2>2 DEF Took
<1> QED BY <1>1, <1>10, <1>12, <1>14, <1>15, <1>16 DEF Half

\* Lemma: the goroutines run until they wait, whatever has just changed.
LEMMA RunSettles ==
  ASSUME NEW l \in Link, Half(l)
  PROVE  /\ Run(l) \in Link /\ Half(Run(l)) /\ Settled(Run(l)) /\ Kept(l, Run(l))
         /\ (Same(l, Run(l)) /\ Run(l) = l) \/ Took(l, Run(l)) \/ Over(l, Run(l))
         /\ l.reader = "reading" /\ l.failed => Over(l, Run(l))
<1>1. CASE ~(l.reader = "reading" \/ (l.reader = "opening" /\ (l.opened \/ l.failed)))
  BY <1>1 DEF Run, Settled, Kept, Same
<1>2. CASE l.reader = "reading" \/ (l.reader = "opening" /\ (l.opened \/ l.failed))
  <2>1. Run(l) = Reads(l) /\ l.reader # "over" /\ l.made
    BY <1>2 DEF Run, Half, Ends
  <2>2. CASE ~l.failed
    BY <2>1, <2>2, ReadsTake
  <2>3. CASE l.failed
    <3>1. Run(l) = WsClosed(l) /\ Closed(l)
      BY <2>1, <2>3 DEF Reads, Half, Ends
    <3>2. /\ WsClosed(l) \in Link /\ Half(WsClosed(l)) /\ Settled(WsClosed(l))
          /\ Kept(l, WsClosed(l)) /\ WsClosed(l).reader = "over"
          /\ WsClosed(l).why = l.why /\ WsClosed(l).got = l.got
      BY <2>1, <3>1, WsClosedEnds
    <3> QED BY <2>1, <2>3, <3>1, <3>2 DEF Over
  <2> QED BY <2>2, <2>3
<1> QED BY <1>1, <1>2

\* Lemma: where the chunks are depends on nothing but the reader and its buffers.
LEMMA OrderCarries ==
  ASSUME NEW k, NEW m, Order(k),
         m.taken = k.taken, m.got = k.got, m.inbox = k.inbox, m.buffer = k.buffer,
         m.made = k.made, m.failed = k.failed, m.why = k.why
  PROVE  Order(m)
<1>1. Closed(m) <=> Closed(k)
  BY DEF Closed
<1> QED BY <1>1 DEF Order

-----------------------------------------------------------------------------
\* A step of the reader or none; a close, seen by a reader that waits.
Calm(l, m) == Same(l, m) \/ Took(l, m) \/ Over(l, m)
Closes(l, m, w) ==
  /\ ~Closed(l) /\ m.why = w /\ m.got = l.got
  /\ \/ m.reader = "over"
     \/ m.reader = l.reader /\ l.reader # "reading"

\* A link that has just been closed and has told nobody yet.
Shut(l, k, w) ==
  /\ l \in Link /\ l.why = w /\ Closed(l) /\ Kept(k, l)
  /\ l.got = k.got /\ l.inbox = k.inbox /\ l.reader = k.reader /\ l.made = k.made
  /\ l.failed = k.failed /\ l.released = k.released /\ l.disposed = k.disposed
  /\ l.late = k.late /\ (l.flying = 1 => l.opened)

\* Lemma: notifyClosed ends a reader that waits and breaks nothing else.
LEMMA ToldEnds ==
  ASSUME NEW k \in Link, Half(k), Settled(k), ~Closed(k), NEW l, NEW w, Shut(l, k, w)
  PROVE  /\ Told(l) \in Link /\ Half(Told(l)) /\ Settled(Told(l)) /\ Kept(k, Told(l))
         /\ Closes(k, Told(l), w)
<1> USE DEF Shut
<1>1. ~k.failed /\ ~k.disposed /\ ~k.released /\ k.reader # "over" /\ ~k.late
  BY DEF Half, Ends
<1>2. CASE ~k.made
  <2>1. Told(l) = l /\ k.reader = "none"
    BY <1>2 DEF Told, Listening, Half, Ends, Link
  <2>2. Flow(l)
    BY DEF Flow
  <2>3. Ends(l)
    BY <1>1, <1>2 DEF Half, Ends
  <2>4. Order(l)
    BY <1>2 DEF Half, Order, Kept
  <2>5. Settled(l) /\ Closes(k, l, w)
    BY <2>1 DEF Settled, Closes
  <2> QED BY <2>1, <2>2, <2>3, <2>4, <2>5 DEF Half
<1>3. CASE k.made
  <2> DEFINE e == [l EXCEPT !.late = @ \/ l.released, !.failed = TRUE]
  <2>1. Told(l) = Run(e)
    BY <1>1, <1>3 DEF Told, Listening, Called, Link
  <2>2. e \in Link
    BY DEF Link
  <2>3. /\ e.failed /\ e.made /\ ~e.late /\ ~e.released /\ ~e.disposed
        /\ e.reader = k.reader /\ e.why = w /\ e.got = k.got /\ e.taken = k.taken
        /\ (k.up => e.up) /\ e.inbox = k.inbox /\ (e.flying = 1 => e.opened)
    BY <1>1, <1>3 DEF Link, Kept
  <2> HIDE DEF e
  <2>4. Closed(e)
    BY <2>3 DEF Closed
  <2>5. Half(e)
    <3>1. Flow(e)
      BY <2>4 DEF Flow
    <3>2. Ends(e)
      BY <1>1, <1>3, <2>3, <2>4 DEF Half, Ends
    <3>3. Order(e)
      BY <2>3 DEF Half, Order
    <3> QED BY <3>1, <3>2, <3>3 DEF Half
  <2>6. /\ Run(e) \in Link /\ Half(Run(e)) /\ Settled(Run(e)) /\ Kept(e, Run(e))
        /\ (Same(e, Run(e)) /\ Run(e) = e) \/ Took(e, Run(e)) \/ Over(e, Run(e))
        /\ e.reader = "reading" /\ e.failed => Over(e, Run(e))
    BY <2>2, <2>5, RunSettles
  <2>7. Run(e) = e \/ (Run(e).reader = "over" /\ Run(e).got = e.got /\ Run(e).why = e.why)
    <3>1. CASE e.reader \in {"reading", "opening"}
      <4>1. Run(e) = WsClosed(e)
        BY <2>3, <3>1 DEF Run, Reads
      <4> QED BY <2>2, <2>3, <2>4, <2>5, <4>1, WsClosedEnds
    <3>2. CASE e.reader \notin {"reading", "opening"}
      BY <3>2 DEF Run
    <3> QED BY <3>1, <3>2
  <2>8. e.reader = "reading" => Run(e).reader = "over"
    BY <2>3, <2>6 DEF Over
  <2>9. Closes(k, Run(e), w)
    BY <2>3, <2>7, <2>8 DEF Closes
  <2>10. Kept(k, Run(e))
    BY <2>3, <2>6 DEF Kept
  <2> QED BY <2>1, <2>6, <2>9, <2>10
<1> QED BY <1>2, <1>3

\* Lemma: close() and fail() of the transport.
LEMMA FailEnds ==
  ASSUME NEW k \in Link, Half(k), Settled(k), NEW w \in {"clean", "broken", "own"}
  PROVE  /\ Fail(k, w) \in Link /\ Half(Fail(k, w)) /\ Settled(Fail(k, w))
         /\ Kept(k, Fail(k, w))
         /\ Fail(k, w) = k \/ Closes(k, Fail(k, w), w)
         /\ Closed(Fail(k, w))
<1>1. CASE Closed(k)
  BY <1>1 DEF Fail, Kept
<1>2. CASE ~Closed(k)
  <2> DEFINE l == [k EXCEPT !.why = w, !.queue = 0, !.bytes = 0, !.buffer = <<>>]
  <2>1. Fail(k, w) = Told(l)
    BY <1>2 DEF Fail, Emptied
  <2>2. l \in Link
    <3>1. <<>> \in Seq(Chunk) /\ 0 \in Nat /\ 0 \in Int
      BY EmptySeq
    <3> QED BY <3>1 DEF Link
  <2>3. Shut(l, k, w)
    BY <2>2 DEF Shut, Closed, Kept, Link, Half, Ends
  <2> HIDE DEF l
  <2>4. Told(l) \in Link /\ Half(Told(l)) /\ Settled(Told(l)) /\ Kept(k, Told(l))
        /\ Closes(k, Told(l), w)
    BY <1>2, <2>3, ToldEnds
  <2> QED BY <2>1, <2>4 DEF Closes, Closed
<1> QED BY <1>1, <1>2

\* Lemma: a chunk that reaches the transport is read, kept or dropped, in order.
LEMMA ReceivedInOrder ==
  ASSUME NEW k \in Link, Half(k), Settled(k), k.taken + 1 \in Chunk,
         NEW m, m = Received([k EXCEPT !.taken = k.taken + 1], k.taken + 1)
  PROVE  /\ m \in Link /\ Half(m) /\ Settled(m) /\ m.taken = k.taken + 1 /\ (k.up => m.up)
         /\ Calm(k, m) \/ Closes(k, m, "own")
<1> DEFINE c == k.taken + 1
           l == [k EXCEPT !.taken = c]
<1>1. l \in Link /\ c \in Nat /\ k.taken \in Nat /\ k.taken \in 0..MaxChunks
  <2>1. k.taken \in 0..MaxChunks
    BY DEF Link
  <2>2. c \in 0..MaxChunks /\ c \in Nat
    BY <2>1, LinkAssumption DEF Chunk
  <2>3. l \in Link
    <3> HIDE DEF c
    <3> QED BY <2>2 DEF Link
  <2> QED BY <2>1, <2>2, <2>3
<1>2. /\ l.taken = c /\ l.why = k.why /\ l.got = k.got /\ l.reader = k.reader
      /\ l.made = k.made /\ l.failed = k.failed /\ l.released = k.released
      /\ l.disposed = k.disposed /\ l.late = k.late /\ l.inbox = k.inbox
      /\ l.buffer = k.buffer /\ l.queue = k.queue /\ l.flying = k.flying
      /\ l.bytes = k.bytes /\ l.up = k.up /\ l.opened = k.opened
  BY DEF Link
<1>3. Len(k.got) <= k.taken => Len(k.got) <= c
  <2>1. Len(k.got) \in Nat
    BY LenProperties DEF Link
  <2> DEFINE a == Len(k.got)
             b == k.taken
  <2>2. a \in Nat /\ b \in Nat
    BY <1>1, <2>1
  <2> HIDE DEF a, b
  <2>3. a <= b => a <= b + 1
    BY <2>2
  <2> QED BY <2>3 DEF a, b
<1>4. m = Received(l, c)
  OBVIOUS
<1> HIDE DEF l
<1>5. CASE k.disposed
  <2>1. m = l
    <3>1. l.disposed
      BY <1>2, <1>5
    <3> QED BY <1>4, <3>1 DEF Received, Listening
  <2>2. k.failed /\ k.made /\ k.reader = "over"
    BY <1>5 DEF Half, Ends
  <2>3. Flow(l) /\ Ends(l) /\ Settled(l)
    BY <1>2, <2>2 DEF Half, Flow, Ends, Settled, Closed
  <2>4. Order(l)
    BY <1>2, <1>3, <2>2 DEF Half, Order
  <2> QED BY <1>1, <1>2, <2>1, <2>3, <2>4 DEF Half, Calm, Same
<1>6. CASE ~k.disposed /\ k.made
  <2>1. m = Data(l, c) /\ ~k.released /\ ~k.late
    BY <1>2, <1>4, <1>6 DEF Received, Listening, Half, Ends
  <2>2. PICK e : /\ m = Run(e)
                 /\ e = IF k.failed THEN Called(l)
                        ELSE [Called(l) EXCEPT !.inbox = Append(@, c)]
    BY <1>2, <2>1 DEF Data
  <2>3. /\ k.inbox \in Seq(Chunk) /\ Len(k.inbox) \in Nat
        /\ Append(k.inbox, c) \in Seq(Chunk) /\ Len(Append(k.inbox, c)) = Len(k.inbox) + 1
        /\ \A i \in 1..(Len(k.inbox) + 1) :
             Append(k.inbox, c)[i] = IF i = Len(k.inbox) + 1 THEN c ELSE k.inbox[i]
    <3>1. k.inbox \in Seq(Chunk) /\ Len(k.inbox) \in Nat
      BY LenProperties DEF Link
    <3>2. /\ Append(k.inbox, c) \in Seq(Chunk) /\ Len(Append(k.inbox, c)) = Len(k.inbox) + 1
          /\ \A i \in 1..Len(k.inbox) : Append(k.inbox, c)[i] = k.inbox[i]
          /\ Append(k.inbox, c)[Len(k.inbox) + 1] = c
      <4>1. c \in Chunk
        OBVIOUS
      <4> HIDE DEF c
      <4> QED BY <3>1, <4>1, AppendProperties
    <3> QED BY <3>1, <3>2
  <2>4. e = [l EXCEPT !.late = FALSE,
                      !.inbox = IF k.failed THEN @ ELSE Append(k.inbox, c)]
    BY <1>1, <1>2, <2>1, <2>2 DEF Called, Link
  <2>5. e \in Link
    <3>1. (IF k.failed THEN l.inbox ELSE Append(k.inbox, c)) \in Seq(Chunk)
      BY <1>2, <2>3
    <3> QED BY <1>1, <2>4, <3>1 DEF Link
  <2>6. /\ e.taken = c /\ e.why = k.why /\ e.got = k.got /\ e.reader = k.reader
        /\ e.made = k.made /\ e.failed = k.failed /\ e.released = k.released
        /\ e.disposed = k.disposed /\ ~e.late
        /\ e.inbox = (IF k.failed THEN k.inbox ELSE Append(k.inbox, c))
        /\ e.buffer = k.buffer /\ e.queue = k.queue /\ e.flying = k.flying
        /\ e.bytes = k.bytes /\ e.up = k.up /\ e.opened = k.opened
    BY <1>1, <1>2, <2>4 DEF Link
  <2>7. Flow(e) /\ Ends(e)
    BY <2>6 DEF Half, Flow, Ends, Closed
  <2>8. Order(e)
    <3>1. CASE k.failed
      BY <1>3, <1>6, <2>6, <3>1 DEF Half, Order
    <3>2. CASE ~k.failed
      <4> DEFINE a == Len(k.got)
                 b == Len(k.inbox)
      <4>1. a \in Nat /\ b \in Nat /\ k.taken = a + b
        BY <1>1, <1>6, <2>3, <3>2, LenProperties DEF Link, Half, Order
      <4>2. \A i \in 1..b : k.inbox[i] = a + i
        BY <1>6, <3>2 DEF Half, Order
      <4>3. Len(e.inbox) = b + 1
            /\ \A i \in 1..(b + 1) : e.inbox[i] = IF i = b + 1 THEN c ELSE k.inbox[i]
        BY <2>3, <2>6, <3>2
      <4>4. Len(e.got) = a /\ \A i \in 1..a : e.got[i] = i
        BY <2>6 DEF Half, Order
      <4> HIDE DEF a, b
      <4>5. a + (b + 1) = c /\ a <= c
        BY <4>1
      <4>6. \A i \in 1..(b + 1) : e.inbox[i] = a + i
        BY <4>1, <4>2, <4>3, <4>5
      <4> QED BY <1>6, <2>6, <4>3, <4>4, <4>5, <4>6 DEF Order
    <3> QED BY <3>1, <3>2
  <2>9. /\ m \in Link /\ Half(m) /\ Settled(m) /\ Kept(e, m)
        /\ Same(e, m) \/ Took(e, m) \/ Over(e, m)
    BY <2>2, <2>5, <2>7, <2>8, RunSettles DEF Half
  <2>10. Calm(k, m)
    BY <2>6, <2>9 DEF Calm, Same, Took, Over, Closed
  <2> QED BY <2>6, <2>9, <2>10 DEF Kept
<1>7. CASE ~k.disposed /\ ~k.made /\ Len(k.buffer) + 1 <= ReadMax
  <2>1. m = [l EXCEPT !.buffer = Append(@, c)]
    <3>1. Len(k.buffer) \in Nat
      BY LenProperties DEF Link
    <3>2. ~(Len(l.buffer) + 1 > ReadMax) /\ ~l.disposed /\ ~l.made
      BY <1>2, <1>7, <3>1, LinkAssumption
    <3> QED BY <1>4, <3>2 DEF Received, Listening
  <2>2. /\ k.buffer \in Seq(Chunk) /\ Len(k.buffer) \in Nat
        /\ Append(k.buffer, c) \in Seq(Chunk) /\ Len(Append(k.buffer, c)) = Len(k.buffer) + 1
        /\ \A i \in 1..(Len(k.buffer) + 1) :
             Append(k.buffer, c)[i] = IF i = Len(k.buffer) + 1 THEN c ELSE k.buffer[i]
    <3>1. k.buffer \in Seq(Chunk) /\ Len(k.buffer) \in Nat
      BY LenProperties DEF Link
    <3>2. /\ Append(k.buffer, c) \in Seq(Chunk) /\ Len(Append(k.buffer, c)) = Len(k.buffer) + 1
          /\ \A i \in 1..Len(k.buffer) : Append(k.buffer, c)[i] = k.buffer[i]
          /\ Append(k.buffer, c)[Len(k.buffer) + 1] = c
      <4>1. c \in Chunk
        OBVIOUS
      <4> HIDE DEF c
      <4> QED BY <3>1, <4>1, AppendProperties
    <3> QED BY <3>1, <3>2
  <2>3. m \in Link
    <3>1. m = [l EXCEPT !.buffer = Append(k.buffer, c)]
      BY <1>2, <2>1
    <3> HIDE DEF c
    <3> QED BY <1>1, <2>2, <3>1 DEF Link
  <2>4. /\ m.taken = c /\ m.why = k.why /\ m.got = k.got /\ m.reader = k.reader
        /\ m.made = k.made /\ m.failed = k.failed /\ m.released = k.released
        /\ m.disposed = k.disposed /\ m.late = k.late /\ m.inbox = k.inbox
        /\ m.buffer = Append(k.buffer, c) /\ m.queue = k.queue /\ m.flying = k.flying
        /\ m.bytes = k.bytes /\ m.up = k.up /\ m.opened = k.opened
    <3> HIDE DEF c
    <3>1. m = [l EXCEPT !.buffer = Append(k.buffer, c)]
      BY <1>2, <2>1
    <3>2. /\ m.taken = l.taken /\ m.why = l.why /\ m.got = l.got /\ m.reader = l.reader
          /\ m.made = l.made /\ m.failed = l.failed /\ m.released = l.released
          /\ m.disposed = l.disposed /\ m.late = l.late /\ m.inbox = l.inbox
          /\ m.buffer = Append(k.buffer, c) /\ m.queue = l.queue /\ m.flying = l.flying
          /\ m.bytes = l.bytes /\ m.up = l.up /\ m.opened = l.opened
      BY <1>1, <3>1 DEF Link
    <3> QED BY <1>2, <3>2
  <2>5. Flow(m)
    BY <1>7, <2>2, <2>4 DEF Half, Flow, Closed
  <2>6. Ends(m) /\ Settled(m)
    BY <2>4 DEF Half, Ends, Settled, Closed
  <2>7. Order(m)
    <3>1. CASE Closed(k)
      BY <1>3, <1>7, <2>4, <3>1 DEF Half, Order, Closed
    <3>2. CASE ~Closed(k)
      <4> DEFINE b == Len(k.buffer)
      <4>1. b = k.taken /\ \A i \in 1..b : k.buffer[i] = i
        BY <1>7, <3>2 DEF Half, Order
      <4>2. Len(m.buffer) = b + 1
            /\ \A i \in 1..(b + 1) : m.buffer[i] = IF i = b + 1 THEN c ELSE k.buffer[i]
        BY <2>2, <2>4
      <4> HIDE DEF b
      <4>3. Len(m.buffer) = c /\ \A i \in 1..c : m.buffer[i] = i
        BY <1>1, <4>1, <4>2
      <4> QED BY <1>3, <1>7, <2>4, <4>3 DEF Half, Order
    <3> QED BY <3>1, <3>2
  <2> QED BY <2>3, <2>4, <2>5, <2>6, <2>7 DEF Half, Calm, Same
<1>8. CASE ~k.disposed /\ ~k.made /\ ~(Len(k.buffer) + 1 <= ReadMax)
  <2>1. m = Fail(l, "own")
    <3>1. Len(k.buffer) \in Nat
      BY LenProperties DEF Link
    <3>2. Len(l.buffer) + 1 > ReadMax
      BY <1>2, <1>8, <3>1, LinkAssumption
    <3> QED BY <1>2, <1>4, <1>8, <3>2 DEF Received, Listening
  <2>2. CASE Closed(k)
    <3>1. m = l
      BY <1>2, <2>1, <2>2 DEF Fail, Closed
    <3>2. Flow(l) /\ Ends(l) /\ Settled(l)
      BY <1>2, <2>2 DEF Half, Flow, Ends, Settled, Closed
    <3>3. Order(l)
      BY <1>2, <1>3, <1>8, <2>2 DEF Half, Order, Closed
    <3> QED BY <1>1, <1>2, <3>1, <3>2, <3>3 DEF Half, Calm, Same
  <2>3. CASE ~Closed(k)
    <3>1. m = [l EXCEPT !.why = "own", !.queue = 0, !.bytes = 0, !.buffer = <<>>]
      BY <1>1, <1>2, <1>8, <2>1, <2>3 DEF Fail, Told, Listening, Emptied, Closed, Link
    <3>2. m \in Link
      <4>1. <<>> \in Seq(Chunk) /\ 0 \in Nat /\ 0 \in Int
        BY EmptySeq
      <4> QED BY <1>1, <3>1, <4>1 DEF Link
    <3>3. /\ m.taken = c /\ m.why = "own" /\ m.got = k.got /\ m.reader = k.reader
          /\ m.made = k.made /\ m.failed = k.failed /\ m.released = k.released
          /\ m.disposed = k.disposed /\ m.late = k.late /\ m.inbox = k.inbox /\ m.up = k.up
          /\ m.flying = k.flying /\ m.opened = k.opened
      <4> HIDE DEF c
      <4>1. /\ m.taken = l.taken /\ m.why = "own" /\ m.got = l.got /\ m.reader = l.reader
            /\ m.made = l.made /\ m.failed = l.failed /\ m.released = l.released
            /\ m.disposed = l.disposed /\ m.late = l.late /\ m.inbox = l.inbox
            /\ m.up = l.up /\ m.flying = l.flying /\ m.opened = l.opened
        BY <1>1, <3>1 DEF Link
      <4> QED BY <1>2, <4>1
    <3>4. Closed(m) /\ k.reader # "reading"
      BY <1>8, <3>3 DEF Closed, Half, Ends
    <3>5. Flow(m) /\ Ends(m) /\ Settled(m)
      BY <1>8, <3>3, <3>4 DEF Half, Flow, Ends, Settled
    <3>6. Order(m)
      BY <1>3, <1>8, <3>3, <3>4 DEF Half, Order
    <3> QED BY <2>3, <3>2, <3>3, <3>4, <3>5, <3>6 DEF Half, Closes
  <2> QED BY <2>2, <2>3
<1> QED BY <1>5, <1>6, <1>7, <1>8

\* Lemma: the registration takes over what the transport has kept.
LEMMA RegisteredInOrder ==
  ASSUME NEW k \in Link, Half(k), ~k.made, NEW m, m = Registered(k)
  PROVE  m \in Link /\ Half(m) /\ Settled(m) /\ Kept(k, m) /\ Calm(k, m)
<1> DEFINE e == [k EXCEPT !.made = TRUE, !.reader = "opening", !.inbox = k.buffer,
                          !.buffer = <<>>, !.failed = Closed(k)]
<1>1. m = Run(e)
  BY DEF Registered
<1>2. <<>> \in Seq(Chunk) /\ Len(<<>>) = 0
  BY EmptySeq
<1>3. Closed(k) \in BOOLEAN /\ k.buffer \in Seq(Chunk)
  BY DEF Closed, Link
<1>4. e \in Link
  BY <1>2, <1>3 DEF Link
<1>5. /\ e.made /\ e.reader = "opening" /\ e.inbox = k.buffer /\ e.buffer = <<>>
      /\ e.failed = Closed(k) /\ e.taken = k.taken /\ e.why = k.why /\ e.got = k.got
      /\ e.released = k.released /\ e.disposed = k.disposed /\ e.late = k.late
      /\ e.queue = k.queue /\ e.flying = k.flying /\ e.bytes = k.bytes /\ e.up = k.up
      /\ e.opened = k.opened
  BY DEF Link
<1> HIDE DEF e
<1>6. /\ k.got = <<>> /\ Len(k.got) = 0 /\ ~k.late /\ ~k.released /\ ~k.disposed
      /\ k.reader = "none"
  BY <1>2 DEF Half, Ends, Order, Link
<1>7. Flow(e)
  <2>1. Closed(e) = Closed(k)
    BY <1>5 DEF Closed
  <2>2. Len(e.buffer) <= ReadMax
    BY <1>2, <1>5, LinkAssumption
  <2> QED BY <1>5, <2>1, <2>2 DEF Half, Flow
<1>8. Ends(e)
  BY <1>5, <1>6 DEF Half, Ends, Closed
<1>9. Order(e)
  <2>1. \A i \in 1..Len(e.got) : e.got[i] = i
    BY <1>5 DEF Half, Order
  <2>2. Len(e.got) = 0 /\ Len(e.got) <= e.taken
    BY <1>5, <1>6 DEF Half, Order
  <2>3. CASE Closed(k)
    BY <1>5, <2>1, <2>2, <2>3 DEF Order
  <2>4. CASE ~Closed(k)
    <3> DEFINE b == Len(k.buffer)
    <3>1. b \in Nat /\ b = k.taken /\ \A i \in 1..b : k.buffer[i] = i
      BY <1>3, <2>4, LenProperties DEF Half, Order
    <3>2. Len(e.inbox) = b /\ \A i \in 1..b : e.inbox[i] = i
      BY <1>5, <3>1
    <3> HIDE DEF b
    <3>3. 0 + b = k.taken /\ \A i \in 1..b : e.inbox[i] = 0 + i
      BY <3>1, <3>2
    <3>4. /\ Len(e.got) + Len(e.inbox) = e.taken
          /\ \A i \in 1..Len(e.inbox) : e.inbox[i] = Len(e.got) + i
      BY <1>5, <2>2, <3>2, <3>3
    <3> QED BY <1>5, <2>1, <2>2, <3>4 DEF Order
  <2> QED BY <2>3, <2>4
<1>10. /\ m \in Link /\ Half(m) /\ Settled(m) /\ Kept(e, m)
       /\ (Same(e, m) /\ Run(e) = e) \/ Took(e, m) \/ Over(e, m)
  BY <1>1, <1>4, <1>7, <1>8, <1>9, RunSettles DEF Half
<1> QED BY <1>5, <1>6, <1>10 DEF Kept, Calm, Same, Took, Over, Closed

-----------------------------------------------------------------------------
\* What a step makes of the link, and of the stream.
Sound ==
  /\ link' \in Link /\ Half(link') /\ Settled(link')
  /\ link.up => link'.up
  /\ link'.taken <= server'.sent
Moves ==
  \/ Calm(link, link') /\ server'.sent = server.sent
  \/ Same(link, link') /\ server'.sent \in {server.sent, server.sent + 1}
  \/ /\ server'.sent = server.sent
     /\ \E w \in {"clean", "broken", "own"} :
          /\ Closes(link, link', w)
          /\ w = "clean" /\ link.reader = "reading" => Len(link.got) = server.sent

\* Lemma: the types of what surrounds the link.
LEMMA Surroundings ==
  ASSUME LinkInv
  PROVE  /\ link \in Link /\ Half(link) /\ Settled(link)
         /\ server.sent \in 0..MaxChunks /\ server.sent \in Nat
         /\ link.taken \in Nat /\ link.taken <= server.sent
         /\ Len(link.got) \in Nat /\ Len(link.got) <= link.taken
<1>1. link \in Link /\ server.sent \in 0..MaxChunks /\ Half(link) /\ Settled(link)
      /\ link.taken <= server.sent
  BY DEF LinkInv, LinkTypeOK, Link, Chunk
<1>2. link.taken \in 0..MaxChunks /\ link.got \in Seq(Chunk)
  BY <1>1 DEF Link
<1>3. link.taken \in Nat /\ server.sent \in Nat
  BY <1>1, <1>2, LinkAssumption
<1>4. Len(link.got) \in Nat
  BY <1>2, LenProperties
<1>5. Len(link.got) <= link.taken
  BY <1>1 DEF Half, Order
<1> QED BY <1>1, <1>3, <1>4, <1>5

\* Lemma: a step that leaves the link alone.
LEMMA Untouched ==
  ASSUME LinkInv, UNCHANGED link, server'.sent \in {server.sent, server.sent + 1}
  PROVE  Sound /\ Moves
<1> QED BY Surroundings DEF Sound, Moves, Same

\* Lemma: a step that fails the transport.
LEMMA Fails ==
  ASSUME LinkInv, NEW w \in {"broken", "own"}, link' = Fail(link, w), server'.sent = server.sent
  PROVE  Sound /\ Moves
<1>1. /\ Fail(link, w) \in Link /\ Half(Fail(link, w)) /\ Settled(Fail(link, w))
      /\ Kept(link, Fail(link, w))
      /\ Fail(link, w) = link \/ Closes(link, Fail(link, w), w)
  BY Surroundings, FailEnds
<1> QED BY <1>1, Surroundings DEF Sound, Moves, Same, Kept

\* Lemma: a step that closes the connection of the engine.
LEMMA WsCloses ==
  ASSUME LinkInv, link.made, link' = WsClosed(link), server'.sent = server.sent
  PROVE  Sound /\ Moves
<1>1. /\ link' \in Link /\ Half(link') /\ Settled(link') /\ Kept(link, link')
      /\ link'.reader = "over" /\ link'.got = link.got
      /\ link'.why = (IF Closed(link) THEN link.why ELSE "own")
  BY Surroundings, WsClosedEnds
<1>2. CASE ~Closed(link)
  BY <1>1, <1>2, Surroundings DEF Sound, Moves, Closes, Kept
<1>3. CASE Closed(link)
  BY <1>1, <1>3, Surroundings DEF Sound, Moves, Calm, Over, Same, Kept
<1> QED BY <1>2, <1>3

\* Lemma: leaving readAll does not concern the reader.
LEMMA LoopLeft ==
  ASSUME NEW k \in Link, Half(k), Settled(k), NEW b \in BOOLEAN,
         NEW m, m = [k EXCEPT !.loop = b]
  PROVE  /\ m \in Link /\ Half(m) /\ Settled(m) /\ m.taken = k.taken /\ m.up = k.up
         /\ m.why = k.why /\ m.got = k.got /\ m.reader = k.reader
<1>1. /\ m \in Link
      /\ m.opened = k.opened /\ m.why = k.why /\ m.disposed = k.disposed
      /\ m.taken = k.taken /\ m.buffer = k.buffer /\ m.queue = k.queue
      /\ m.flying = k.flying /\ m.bytes = k.bytes /\ m.made = k.made
      /\ m.inbox = k.inbox /\ m.failed = k.failed /\ m.released = k.released
      /\ m.reader = k.reader /\ m.up = k.up /\ m.got = k.got /\ m.late = k.late
  BY DEF Link
<1>2. Flow(k) /\ Ends(k) /\ Order(k)
  BY DEF Half
<1>3. Flow(m) /\ Settled(m)
  BY <1>1, <1>2 DEF Flow, Settled, Closed
<1>4. Ends(m)
  BY <1>1, <1>2 DEF Ends, Closed
<1>5. Order(m)
  BY <1>1, <1>2, OrderCarries
<1> QED BY <1>1, <1>3, <1>4, <1>5 DEF Half

\* Lemma: the open event of the transport.
LEMMA OpensSound ==
  ASSUME LinkInv, Opens
  PROVE  Sound /\ Moves
<1> DEFINE l == [link EXCEPT !.opened = TRUE]
<1>1. /\ l \in Link
      /\ l.why = link.why /\ l.disposed = link.disposed
      /\ l.taken = link.taken /\ l.buffer = link.buffer /\ l.queue = link.queue
      /\ l.flying = link.flying /\ l.bytes = link.bytes /\ l.made = link.made
      /\ l.inbox = link.inbox /\ l.failed = link.failed /\ l.released = link.released
      /\ l.reader = link.reader /\ l.up = link.up /\ l.got = link.got /\ l.late = link.late
      /\ l.opened
  BY Surroundings DEF Link
<1>2. link' = Run(l) \/ link' = l
  BY DEF Opens, Becomes
<1>3. server' = server
  BY DEF Opens
<1> HIDE DEF l
<1>4. Half(l) /\ Settled(l)
  <2>1. Flow(l) /\ Settled(l)
    BY <1>1, Surroundings DEF Half, Flow, Settled, Closed
  <2>2. Ends(l)
    BY <1>1, Surroundings DEF Half, Ends, Closed
  <2>3. Order(l)
    <3>1. Order(link)
      BY Surroundings DEF Half
    <3> QED BY <1>1, <3>1, OrderCarries
  <2> QED BY <2>1, <2>2, <2>3 DEF Half
<1>5. CASE link' = l
  BY <1>1, <1>3, <1>4, <1>5, Surroundings DEF Sound, Moves, Same
<1>6. CASE link' = Run(l)
  <2>1. /\ Run(l) \in Link /\ Half(Run(l)) /\ Settled(Run(l)) /\ Kept(l, Run(l))
        /\ (Same(l, Run(l)) /\ Run(l) = l) \/ Took(l, Run(l)) \/ Over(l, Run(l))
    BY <1>1, <1>4, RunSettles
  <2>2. Calm(link, link')
    BY <1>1, <1>6, <2>1 DEF Calm, Same, Took, Over, Closed
  <2> QED BY <1>1, <1>3, <1>6, <2>1, <2>2, Surroundings DEF Sound, Moves, Kept
<1> QED BY <1>2, <1>5, <1>6

\* Lemma: a refused dial or upgrade.
LEMMA OpenFailsSound ==
  ASSUME LinkInv, OpenFails
  PROVE  Sound /\ Moves
<1> DEFINE k == Fail(link, "broken")
<1>1. /\ k \in Link /\ Half(k) /\ Settled(k) /\ Kept(link, k)
      /\ k = link \/ Closes(link, k, "broken")
  BY Surroundings, FailEnds
<1>2. link' = [k EXCEPT !.loop = FALSE] /\ server'.sent = server.sent
  BY DEF OpenFails, Becomes, LinkInv, LinkTypeOK
<1> HIDE DEF k
<1>3. /\ link' \in Link /\ Half(link') /\ Settled(link')
      /\ link'.taken = k.taken /\ link'.up = k.up /\ link'.why = k.why
      /\ link'.got = k.got /\ link'.reader = k.reader
  BY <1>1, <1>2, LoopLeft
<1> QED BY <1>1, <1>2, <1>3, Surroundings DEF Sound, Moves, Same, Closes, Kept

\* Lemma: one turn of readAll.
LEMMA TcpReadSound ==
  ASSUME LinkInv, TcpRead
  PROVE  Sound /\ Moves
<1> DEFINE k == Received([link EXCEPT !.taken = link.taken + 1], link.taken + 1)
<1>1. link' = [k EXCEPT !.loop = ~Closed(k)] /\ server' = server
      /\ link.taken < server.sent
  BY DEF TcpRead, Becomes
<1>2. link.taken + 1 \in Chunk /\ link.taken + 1 <= server.sent
  BY <1>1, Surroundings, LinkAssumption DEF Chunk
<1>3. /\ k \in Link /\ Half(k) /\ Settled(k) /\ k.taken = link.taken + 1
      /\ link.up => k.up
      /\ Calm(link, k) \/ Closes(link, k, "own")
  <2>1. k = Received([link EXCEPT !.taken = link.taken + 1], link.taken + 1)
    OBVIOUS
  <2>2. link \in Link /\ Half(link) /\ Settled(link) /\ link.taken + 1 \in Chunk
    BY <1>2, Surroundings
  <2> HIDE DEF k
  <2> QED BY <2>1, <2>2, ReceivedInOrder
<1> HIDE DEF k
<1>4. /\ link' \in Link /\ Half(link') /\ Settled(link')
      /\ link'.taken = k.taken /\ link'.up = k.up /\ link'.why = k.why
      /\ link'.got = k.got /\ link'.reader = k.reader
  <2>1. (~Closed(k)) \in BOOLEAN
    BY DEF Closed
  <2> QED BY <1>1, <1>3, <2>1, LoopLeft
<1>5. Calm(link, link') \/ Closes(link, link', "own")
  BY <1>3, <1>4 DEF Calm, Same, Took, Over, Closes
<1> QED BY <1>1, <1>2, <1>3, <1>4, <1>5 DEF Sound, Moves

\* Lemma: a message of the WebSocket.
LEMMA AccessMessageSound ==
  ASSUME LinkInv, AccessMessage
  PROVE  Sound /\ Moves
<1> DEFINE k == Received([link EXCEPT !.taken = link.taken + 1], link.taken + 1)
<1>1. link' = k /\ server' = server /\ link.taken < server.sent
  BY DEF AccessMessage, Becomes
<1>2. link.taken + 1 \in Chunk /\ link.taken + 1 <= server.sent
  BY <1>1, Surroundings, LinkAssumption DEF Chunk
<1>3. /\ k \in Link /\ Half(k) /\ Settled(k) /\ k.taken = link.taken + 1
      /\ link.up => k.up
      /\ Calm(link, k) \/ Closes(link, k, "own")
  <2>1. k = Received([link EXCEPT !.taken = link.taken + 1], link.taken + 1)
    OBVIOUS
  <2>2. link \in Link /\ Half(link) /\ Settled(link) /\ link.taken + 1 \in Chunk
    BY <1>2, Surroundings
  <2> HIDE DEF k
  <2> QED BY <2>1, <2>2, ReceivedInOrder
<1> HIDE DEF k
<1> QED BY <1>1, <1>2, <1>3 DEF Sound, Moves

\* Lemma: a close of the peer; a reader that waits has had everything by then.
LEMMA PeerCloses ==
  ASSUME LinkInv, NEW w \in {"clean", "broken"}, ~Closed(link),
         w = "clean" => link.taken = server.sent,
         server'.sent = server.sent,
         NEW b \in BOOLEAN, link' = Told([link EXCEPT !.loop = b, !.why = w])
  PROVE  Sound /\ Moves
<1> DEFINE l == [link EXCEPT !.loop = b, !.why = w]
<1>1. Shut(l, link, w)
  <2>1. l \in Link
    BY Surroundings DEF Link
  <2> QED BY <2>1, Surroundings DEF Shut, Closed, Kept, Link, Half, Ends
<1>2. link' = Told(l)
  OBVIOUS
<1> HIDE DEF l
<1>3. /\ link' \in Link /\ Half(link') /\ Settled(link') /\ Kept(link, link')
      /\ Closes(link, link', w)
  BY <1>1, <1>2, Surroundings, ToldEnds
<1>4. ASSUME w = "clean", link.reader = "reading"
      PROVE  Len(link.got) = server.sent
  <2>1. link.made /\ ~link.failed /\ link.inbox = <<>>
    BY <1>4, Surroundings DEF Half, Ends, Settled
  <2> DEFINE a == Len(link.got)
             b0 == Len(link.inbox)
  <2>2. a \in Nat /\ b0 = 0 /\ a + b0 = link.taken
    BY <2>1, Surroundings, EmptySeq DEF Half, Order
  <2>3. link.taken = server.sent
    BY <1>4
  <2> HIDE DEF a, b0
  <2>4. a = server.sent
    BY <2>2, <2>3
  <2> QED BY <2>4 DEF a
<1> QED BY <1>3, <1>4, Surroundings DEF Sound, Moves, Kept

\* Lemma: the end of readAll.
LEMMA TcpReadEndsSound ==
  ASSUME LinkInv, TcpReadEnds
  PROVE  Sound /\ Moves
<1>1. server' = server
  BY DEF TcpReadEnds
<1>2. CASE /\ link.taken = server.sent /\ ~Closed(link)
           /\ link' = Told([link EXCEPT !.loop = FALSE, !.why = "clean"])
  BY <1>1, <1>2, PeerCloses
<1>3. CASE link' = [Fail(link, "broken") EXCEPT !.loop = FALSE]
  <2> DEFINE k == Fail(link, "broken")
  <2>1. /\ k \in Link /\ Half(k) /\ Settled(k) /\ Kept(link, k)
        /\ k = link \/ Closes(link, k, "broken")
    BY Surroundings, FailEnds
  <2>2. link' = [k EXCEPT !.loop = FALSE]
    BY <1>3
  <2> HIDE DEF k
  <2>3. /\ link' \in Link /\ Half(link') /\ Settled(link')
        /\ link'.taken = k.taken /\ link'.up = k.up /\ link'.why = k.why
        /\ link'.got = k.got /\ link'.reader = k.reader
    BY <2>1, <2>2, LoopLeft
  <2> QED BY <1>1, <2>1, <2>3, Surroundings DEF Sound, Moves, Same, Closes, Kept
<1> QED BY <1>2, <1>3 DEF TcpReadEnds, Becomes

\* Lemma: the close and the error event of the WebSocket.
LEMMA AccessClosesSound ==
  ASSUME LinkInv, AccessCloses
  PROVE  Sound /\ Moves
<1>1. server' = server /\ ~Closed(link)
  BY DEF AccessCloses
<1>2. CASE /\ link' = Told([link EXCEPT !.why = server.end])
           /\ \/ server.end = "clean" /\ link.taken = server.sent
              \/ server.end = "broken"
  <2>1. [link EXCEPT !.why = server.end] = [link EXCEPT !.loop = link.loop, !.why = server.end]
        /\ link.loop \in BOOLEAN
    BY Surroundings DEF Link
  <2>2. PICK w \in {"clean", "broken"} :
          w = server.end /\ (w = "clean" => link.taken = server.sent)
    BY <1>2
  <2>3. PICK b \in BOOLEAN : link' = Told([link EXCEPT !.loop = b, !.why = w])
    BY <1>2, <2>1, <2>2
  <2>4. w = "clean" => link.taken = server.sent
    BY <2>2
  <2> QED BY <1>1, <2>3, <2>4, PeerCloses
<1>3. CASE link' = Fail(link, "broken")
  BY <1>1, <1>3, Fails
<1> QED BY <1>2, <1>3 DEF AccessCloses, Becomes

\* Lemma: what only concerns the writes.
LEMMA WritesSound ==
  ASSUME LinkInv, NEW q \in Nat, NEW f \in 0..1, NEW n \in Int,
         link' = [link EXCEPT !.queue = q, !.flying = f, !.bytes = n],
         f = 1 => link.opened,
         ~Closed(link) => n = q + f /\ n <= QueueMax /\ (q > 0 => f = 1),
         server'.sent = server.sent
  PROVE  Sound /\ Moves
<1>1. /\ link' \in Link
      /\ link'.why = link.why /\ link'.disposed = link.disposed
      /\ link'.taken = link.taken /\ link'.buffer = link.buffer /\ link'.queue = q
      /\ link'.flying = f /\ link'.bytes = n /\ link'.made = link.made
      /\ link'.inbox = link.inbox /\ link'.failed = link.failed
      /\ link'.released = link.released /\ link'.reader = link.reader
      /\ link'.up = link.up /\ link'.got = link.got /\ link'.late = link.late
      /\ link'.opened = link.opened
  BY Surroundings DEF Link
<1>2. Half(link') /\ Settled(link')
  <2>1. Flow(link') /\ Settled(link')
    BY <1>1, Surroundings DEF Half, Flow, Settled, Closed
  <2>2. Ends(link')
    BY <1>1, Surroundings DEF Half, Ends, Closed
  <2>3. Order(link')
    <3>1. Order(link)
      BY Surroundings DEF Half
    <3> QED BY <1>1, <3>1, OrderCarries
  <2> QED BY <2>1, <2>2, <2>3 DEF Half
<1> QED BY <1>1, <1>2, Surroundings DEF Sound, Moves, Same

\* Lemma: a write of the engine.
LEMMA SendsSound ==
  ASSUME LinkInv, Sends
  PROVE  Sound /\ Moves
<1>1. server' = server
  BY DEF Sends
<1>2. CASE link' = link
  BY <1>1, <1>2, Untouched
<1>3. CASE \E w \in {"broken", "own"} : link' = Fail(link, w)
  BY <1>1, <1>3, Fails
<1>4. CASE /\ ~Closed(link) /\ ~(link.bytes + 1 > QueueMax) /\ link.opened
           /\ link' = Flushed([link EXCEPT !.queue = @ + 1, !.bytes = @ + 1])
  <2> DEFINE l == [link EXCEPT !.queue = @ + 1, !.bytes = @ + 1]
             f == IF link.flying = 0 THEN 1 ELSE link.flying
             q == IF link.flying = 0 THEN link.queue ELSE link.queue + 1
             n == link.bytes + 1
  <2>1. link.queue \in Nat /\ link.flying \in 0..1 /\ link.bytes \in Int
    BY Surroundings DEF Link
  <2>2. /\ link.bytes = link.queue + link.flying
        /\ link.queue > 0 => link.flying = 1
    BY <1>4, Surroundings DEF Half, Flow
  <2>3. l.flying = link.flying /\ l.opened /\ ~Closed(l) /\ l.queue = link.queue + 1
    BY <1>4, Surroundings DEF Closed, Link
  <2>4. link' = IF link.flying = 0 THEN [l EXCEPT !.flying = 1, !.queue = @ - 1] ELSE l
    BY <1>4, <2>1, <2>3 DEF Flushed
  <2>5. link' = [link EXCEPT !.queue = q, !.flying = f, !.bytes = n]
    <3>1. CASE link.flying = 0
      <4>1. link' = [l EXCEPT !.flying = 1, !.queue = l.queue - 1]
        BY <2>4, <3>1
      <4>2. l.queue - 1 = link.queue
        BY <2>1, <2>3
      <4>3. link' = [l EXCEPT !.flying = 1, !.queue = link.queue]
        BY <4>1, <4>2
      <4> QED BY <3>1, <4>3, Surroundings DEF Link
    <3>2. CASE link.flying # 0
      BY <2>4, <3>2, Surroundings DEF Link
    <3> QED BY <3>1, <3>2
  <2>6. q \in Nat /\ f \in 0..1 /\ n \in Int /\ n = q + f /\ n <= QueueMax /\ (q > 0 => f = 1)
    BY <1>4, <2>1, <2>2, LinkAssumption
  <2>7. f = 1 => link.opened
    BY <1>4
  <2> HIDE DEF l, f, q, n
  <2> QED BY <1>1, <2>5, <2>6, <2>7, WritesSound
<1>5. /\ link.opened
      /\ \/ link' = link \/ link' = Fail(link, "broken") \/ link' = Fail(link, "own")
         \/ /\ ~Closed(link) /\ ~(link.bytes + 1 > QueueMax)
            /\ link' = Flushed([link EXCEPT !.queue = @ + 1, !.bytes = @ + 1])
  BY DEF Sends, Becomes
<1> QED BY <1>2, <1>3, <1>4, <1>5

\* Lemma: a write that is done; bytes counts what is left.
LEMMA WrittenSound ==
  ASSUME LinkInv, Written
  PROVE  Sound /\ Moves
<1> DEFINE l == [link EXCEPT !.flying = 0, !.bytes = @ - 1]
           go == link.opened /\ ~Closed(link) /\ link.queue > 0
           f == IF go THEN 1 ELSE 0
           q == IF go THEN link.queue - 1 ELSE link.queue
           n == link.bytes - 1
<1>1. link.queue \in Nat /\ link.flying = 1 /\ link.bytes \in Int
  BY Surroundings DEF Link, Written
<1>2. /\ ~Closed(link) => link.bytes = link.queue + link.flying /\ link.bytes <= QueueMax
      /\ link.opened
  BY <1>1, Surroundings DEF Half, Flow, Ends
<1>3. l.flying = 0 /\ l.opened = link.opened /\ (Closed(l) <=> Closed(link))
      /\ l.queue = link.queue
  BY Surroundings DEF Closed, Link
<1>4. link' = IF go THEN [l EXCEPT !.flying = 1, !.queue = @ - 1] ELSE l
  BY <1>3 DEF Written, Becomes, Flushed
<1>5. link' = [link EXCEPT !.queue = q, !.flying = f, !.bytes = n]
  BY <1>1, <1>4, Surroundings DEF Link
<1>6. q \in Nat /\ f \in 0..1 /\ n \in Int
  BY <1>1
<1>7. ~Closed(link) => n = q + f /\ n <= QueueMax /\ (q > 0 => f = 1)
  BY <1>1, <1>2, LinkAssumption
<1>8. server' = server
  BY DEF Written
<1> HIDE DEF l, go, f, q, n
<1> QED BY <1>2, <1>5, <1>6, <1>7, <1>8, WritesSound

\* Lemma: a write that fails.
LEMMA WriteFailsSound ==
  ASSUME LinkInv, WriteFails
  PROVE  Sound /\ Moves
<1> DEFINE k == Fail(link, "broken")
<1>1. /\ k \in Link /\ Half(k) /\ Settled(k) /\ Kept(link, k)
      /\ k = link \/ Closes(link, k, "broken")
      /\ Closed(k)
  BY Surroundings, FailEnds
<1>2. link' = [k EXCEPT !.flying = 0] /\ server' = server
      /\ (server.end # "open" \/ Closed(link))
  BY DEF WriteFails, Becomes
<1> HIDE DEF k
<1>3. 0 \in 0..1
  OBVIOUS
<1>4. /\ link' \in Link
      /\ link'.opened = k.opened /\ link'.why = k.why /\ link'.disposed = k.disposed
      /\ link'.taken = k.taken /\ link'.flying = 0 /\ link'.made = k.made
      /\ link'.inbox = k.inbox /\ link'.failed = k.failed /\ link'.released = k.released
      /\ link'.reader = k.reader /\ link'.up = k.up /\ link'.got = k.got
      /\ link'.late = k.late
  BY <1>1, <1>2, <1>3 DEF Link
<1>5. Half(link') /\ Settled(link')
  <2>1. Closed(link')
    BY <1>1, <1>4 DEF Closed
  <2>2. Flow(link') /\ Settled(link')
    BY <1>1, <1>4, <2>1 DEF Flow, Settled
  <2>3. Ends(link')
    BY <1>1, <1>4, <2>1 DEF Half, Ends
  <2>4. Order(link')
    BY <1>1, <1>4, <2>1 DEF Half, Order
  <2> QED BY <2>2, <2>3, <2>4 DEF Half
<1> QED BY <1>1, <1>2, <1>4, <1>5, Surroundings DEF Sound, Moves, Same, Closes, Kept

\* Lemma: the engine is loaded and registers its callbacks.
LEMMA LoadsSound ==
  ASSUME LinkInv, Loads
  PROVE  Sound /\ Moves
<1>1. link' = Registered(link) /\ server' = server /\ ~link.made
  BY DEF Loads, Becomes
<1>2. /\ link' \in Link /\ Half(link') /\ Settled(link') /\ Kept(link, link')
      /\ Calm(link, link')
  BY <1>1, Surroundings, RegisteredInOrder
<1> QED BY <1>1, <1>2, Surroundings DEF Sound, Moves, Kept

\* Lemma: a host key is judged.
LEMMA VerdictSound ==
  ASSUME LinkInv, Verdict
  PROVE  Sound /\ Moves
<1>1. link.reader = "paused" /\ link.made /\ server' = server
  BY Surroundings DEF Verdict, Half, Ends
<1>2. CASE link' = WsClosed(link)
  BY <1>1, <1>2, WsCloses
<1>3. CASE link' = Reads(link) /\ link.failed
  BY <1>1, <1>3, WsCloses DEF Reads
<1>4. CASE link' = Reads(link) /\ ~link.failed
  <2>1. /\ link' \in Link /\ Half(link') /\ Settled(link') /\ Kept(link, link')
        /\ Took(link, link')
    BY <1>1, <1>4, Surroundings, ReadsTake
  <2> QED BY <1>1, <2>1, Surroundings DEF Sound, Moves, Calm, Kept
<1> QED BY <1>2, <1>3, <1>4 DEF Verdict, Becomes

\* Lemma: the session closes.
LEMMA LeaveSound ==
  ASSUME LinkInv, Leave
  PROVE  Sound /\ Moves
<1>1. link.made /\ server' = server
      /\ (link' = WsClosed(link) \/ link' = Fail(link, "own"))
  BY DEF Leave
<1> QED BY <1>1, WsCloses, Fails

\* Lemma: a keepalive request fails.
LEMMA UnansweredSound ==
  ASSUME LinkInv, Unanswered
  PROVE  Sound /\ Moves
<1>1. server' = server /\ (link' = WsClosed(link) \/ link' = link) /\ link.reader = "over"
  BY DEF Unanswered
<1>2. link.made
  BY <1>1, Surroundings DEF Half, Ends
<1>3. CASE link' = link
  BY <1>1, <1>3, Untouched
<1> QED BY <1>1, <1>2, <1>3, WsCloses

\* Lemma: every step, taken together.
LEMMA StepSound ==
  ASSUME LinkInv, [LinkNext]_linkVars
  PROVE  Sound /\ Moves
<1>1. CASE LinkNext
  <2>1. CASE Network
    <3>1. UNCHANGED link
      BY <2>1 DEF Network, ServerSends, ServerEnds, ServerSilent
    <3>2. server'.sent \in {server.sent, server.sent + 1}
      BY <2>1 DEF Network, ServerSends, ServerEnds, ServerSilent, LinkInv, LinkTypeOK
    <3> QED BY <3>1, <3>2, Untouched
  <2>2. CASE Transport
    BY <2>2, OpensSound, OpenFailsSound, TcpReadSound, TcpReadEndsSound,
       AccessMessageSound, AccessClosesSound, WrittenSound, WriteFailsSound DEF Transport
  <2>3. CASE Loads \/ Verdict \/ Unanswered
    BY <2>3, LoadsSound, VerdictSound, UnansweredSound
  <2>4. CASE LoadFails
    BY <2>4, Fails DEF LoadFails, Becomes
  <2>5. CASE Ask \/ Answered
    BY <2>5, Untouched DEF Ask, Answered
  <2>6. CASE Sends \/ Leave
    BY <2>6, SendsSound, LeaveSound
  <2> QED BY <1>1, <2>1, <2>2, <2>3, <2>4, <2>5, <2>6 DEF LinkNext, Engine
<1>2. CASE UNCHANGED linkVars
  BY <1>2, Untouched DEF linkVars
<1> QED BY <1>1, <1>2

\* Lemma: the keepalive keeps its count.
LEMMA StepCounts ==
  ASSUME LinkInv, [LinkNext]_linkVars
  PROVE  /\ alive' \in [state : {"off", "waiting", "pending"}, failures : 0..CountMax]
         /\ Counting'
<1>1. /\ alive \in [state : {"off", "waiting", "pending"}, failures : 0..CountMax]
      /\ alive.state # "off" => alive.failures < CountMax
      /\ ~link.up => alive.state = "off" /\ alive.failures = 0
      /\ CountMax \in Nat \ {0} /\ link.up \in BOOLEAN /\ link'.up \in BOOLEAN
      /\ link.up => link'.up
  BY StepSound, Surroundings, LinkAssumption DEF LinkInv, LinkTypeOK, Counting, Sound, Link
<1>2. CASE \E l : Becomes(l)
  <2>1. alive' = IF link'.up /\ ~link.up THEN [alive EXCEPT !.state = "waiting"] ELSE alive
    BY <1>2 DEF Becomes
  <2> QED BY <1>1, <2>1 DEF Counting
<1>3. CASE UNCHANGED <<link, alive>>
  BY <1>1, <1>3 DEF Counting
<1>4. CASE Leave
  <2>1. alive' = [alive EXCEPT !.state = "off"]
    BY <1>4 DEF Leave
  <2> QED BY <1>1, <2>1 DEF Counting
<1>5. CASE Ask
  <2>1. alive' = [alive EXCEPT !.state = "pending"] /\ alive.state = "waiting" /\ link' = link
    BY <1>5 DEF Ask
  <2> QED BY <1>1, <2>1 DEF Counting
<1>6. CASE Answered
  <2>1. alive' = [state |-> "waiting", failures |-> 0] /\ alive.state = "pending"
        /\ link' = link
    BY <1>6 DEF Answered
  <2> QED BY <1>1, <2>1 DEF Counting
<1>7. CASE Unanswered
  <2>1. /\ alive' = [state |-> IF alive.failures + 1 >= CountMax THEN "off" ELSE "waiting",
                     failures |-> alive.failures + 1]
        /\ alive.state # "off"
    BY <1>7 DEF Unanswered
  <2> QED BY <1>1, <2>1 DEF Counting
<1>8. \/ \E l : Becomes(l)
      \/ UNCHANGED <<link, alive>> \/ Leave \/ Ask \/ Answered \/ Unanswered
  BY DEF LinkNext, Network, Transport, Engine, ServerSends, ServerEnds, ServerSilent, Opens,
         OpenFails, TcpRead, TcpReadEnds, AccessMessage, AccessCloses, Written,
         WriteFails, Loads, LoadFails, Verdict, Sends, linkVars
<1> QED BY <1>2, <1>3, <1>4, <1>5, <1>6, <1>7, <1>8

\* Lemma: LinkInv is inductive.
LEMMA StepKeeps ==
  ASSUME LinkInv, [LinkNext]_linkVars
  PROVE  LinkInv'
<1>1. /\ server' \in [sent : 0..MaxChunks, end : {"open", "clean", "broken"},
                      silent : BOOLEAN]
      /\ left' \in BOOLEAN /\ writes' \in 0..MaxWrites
  <2>1. /\ server \in [sent : 0..MaxChunks, end : {"open", "clean", "broken"},
                       silent : BOOLEAN]
        /\ left \in BOOLEAN /\ writes \in 0..MaxWrites
    BY DEF LinkInv, LinkTypeOK
  <2>2. CASE ServerSends \/ ServerEnds \/ ServerSilent \/ OpenFails
    <3>1. \/ server' = [server EXCEPT !.sent = @ + 1] /\ server.sent < MaxChunks
          \/ \E e \in {"clean", "broken"} : server' = [server EXCEPT !.end = e]
          \/ server' = [server EXCEPT !.silent = TRUE]
      BY <2>2 DEF ServerSends, ServerEnds, ServerSilent, OpenFails
    <3>2. left' = left /\ writes' = writes
      BY <2>2 DEF ServerSends, ServerEnds, ServerSilent, OpenFails
    <3>3. server' \in [sent : 0..MaxChunks, end : {"open", "clean", "broken"},
                       silent : BOOLEAN]
      <4>1. CASE server' = [server EXCEPT !.sent = @ + 1] /\ server.sent < MaxChunks
        <5>1. server.sent + 1 \in 0..MaxChunks
          BY <2>1, <4>1, LinkAssumption
        <5> QED BY <2>1, <4>1, <5>1
      <4>2. CASE \E e \in {"clean", "broken"} : server' = [server EXCEPT !.end = e]
        BY <2>1, <4>2
      <4>3. CASE server' = [server EXCEPT !.silent = TRUE]
        BY <2>1, <4>3
      <4> QED BY <3>1, <4>1, <4>2, <4>3
    <3> QED BY <2>1, <3>2, <3>3
  <2>3. CASE Sends
    BY <2>1, <2>3, LinkAssumption DEF Sends
  <2>4. CASE LoadFails \/ Leave
    BY <2>1, <2>4 DEF LoadFails, Leave
  <2>5. CASE UNCHANGED <<server, left, writes>>
    BY <2>1, <2>5
  <2>6. \/ ServerSends \/ ServerEnds \/ ServerSilent \/ OpenFails \/ Sends
        \/ LoadFails \/ Leave \/ UNCHANGED <<server, left, writes>>
    BY DEF LinkNext, Network, Transport, Engine, Opens, TcpRead, TcpReadEnds, AccessMessage,
           AccessCloses, Written, WriteFails, Loads, Verdict, Ask, Answered, Unanswered,
           linkVars
  <2> QED BY <2>2, <2>3, <2>4, <2>5, <2>6
<1>2. Sound
  BY StepSound
<1>3. LinkTypeOK'
  <2>1. link' \in Link
    BY <1>2 DEF Sound
  <2> QED BY <1>1, <2>1, StepCounts DEF LinkTypeOK, Link, Chunk
<1> QED BY <1>2, <1>3, StepCounts DEF LinkInv, Sound, Half, Settled, Flow, Ends, Order, Closed

\* Lemma: LinkInv holds at the start.
LEMMA InitSound == LinkInit => LinkInv
<1> SUFFICES ASSUME LinkInit PROVE LinkInv
  OBVIOUS
<1>1. <<>> \in Seq(Chunk) /\ Len(<<>>) = 0
  BY EmptySeq
<1>2. PICK k \in {"tcp", "access"} :
        link = [kind |-> k, opened |-> FALSE, why |-> "", disposed |-> FALSE,
                loop |-> k = "tcp", taken |-> 0, buffer |-> <<>>, queue |-> 0,
                flying |-> 0, bytes |-> 0, made |-> FALSE, inbox |-> <<>>,
                failed |-> FALSE, released |-> FALSE, reader |-> "none", up |-> FALSE,
                got |-> <<>>, late |-> FALSE]
  BY DEF LinkInit
<1>3. ~link.made /\ ~link.disposed /\ ~link.failed /\ ~link.released /\ ~link.late /\ ~link.up
  BY <1>2
<1>4. link.why = "" /\ link.reader = "none"
  BY <1>2
<1>5. link.taken = 0 /\ link.queue = 0 /\ link.flying = 0 /\ link.bytes = 0
  BY <1>2
<1>6. link.buffer = <<>> /\ link.inbox = <<>> /\ link.got = <<>>
  BY <1>2
<1>7. link \in Link
  <2>1. /\ (k = "tcp") \in BOOLEAN /\ 0 \in Nat /\ 0 \in Int /\ 0 \in 0..1
        /\ 0 \in 0..MaxChunks
    BY LinkAssumption
  <2> QED BY <1>1, <1>2, <2>1 DEF Link
<1>8. LinkTypeOK
  <2>1. /\ 0 \in 0..MaxChunks /\ 0 \in 0..MaxWrites /\ 0 \in 0..CountMax
    BY LinkAssumption
  <2> QED BY <1>7, <2>1 DEF LinkInit, LinkTypeOK, Link, Chunk
<1>9. Half(link) /\ Settled(link)
  <2>1. Flow(link)
    <3>1. 0 = 0 + 0 /\ 0 <= QueueMax /\ 0 <= ReadMax /\ ~(0 > 0)
      BY LinkAssumption
    <3> QED BY <1>1, <1>5, <1>6, <3>1 DEF Flow
  <2>2. Ends(link) /\ Settled(link)
    <3>1. ~Closed(link) /\ link.reader # "over" /\ link.reader # "reading"
      BY <1>4 DEF Closed
    <3>2. link.flying # 1
      BY <1>5
    <3> QED BY <1>3, <1>4, <3>1, <3>2 DEF Ends, Settled
  <2>3. Order(link)
    <3>1. \A i \in 1..0 : FALSE
      OBVIOUS
    <3>2. Len(link.got) = 0 /\ Len(link.buffer) = 0
      BY <1>1, <1>6
    <3>3. /\ \A i \in 1..Len(link.got) : link.got[i] = i
          /\ \A i \in 1..Len(link.buffer) : link.buffer[i] = i
      BY <3>1, <3>2
    <3>4. Len(link.got) <= link.taken /\ Len(link.buffer) = link.taken
      BY <1>5, <3>2
    <3> QED BY <1>3, <1>6, <3>3, <3>4 DEF Order
  <2> QED BY <2>1, <2>2, <2>3 DEF Half
<1>10. Counting /\ link.taken <= server.sent
  <2>1. server.sent = 0 /\ alive.state = "off" /\ alive.failures = 0
    BY DEF LinkInit
  <2>2. link.taken <= server.sent
    BY <1>5, <2>1
  <2> QED BY <1>3, <2>1, <2>2 DEF Counting
<1> QED BY <1>8, <1>9, <1>10 DEF LinkInv

\* Lemma: what a step does to the stream is a step of the stream.
LEMMA StepStreams ==
  ASSUME LinkInv, [LinkNext]_linkVars
  PROVE  [Stream!Next]_(Stream!svars)
<1>1. Sound /\ Moves
  BY StepSound
<1>2. CASE Same(link, link') /\ server'.sent \in {server.sent, server.sent + 1}
  BY <1>2 DEF Same, Stream!Next, Stream!Send
<1>3. CASE Took(link, link') /\ server'.sent = server.sent
  <2>1. PICK n \in Len(link.got)..link'.taken : link'.got = Stream!Chunks(n)
    BY <1>3 DEF Took
  <2>2. link'.taken \in Nat /\ link'.taken <= server.sent
    <3>1. link'.taken \in 0..MaxChunks /\ link'.taken <= server'.sent
      BY <1>1 DEF Sound, Link
    <3> QED BY <1>3, <3>1, LinkAssumption
  <2>3. n \in Len(link.got)..server.sent
    BY <2>1, <2>2, Surroundings
  <2> QED BY <1>3, <2>1, <2>3 DEF Took, Stream!Next, Stream!Take
<1>4. CASE Over(link, link') /\ server'.sent = server.sent
  BY <1>4 DEF Over, Closed, Stream!Next, Stream!Finish
<1>5. CASE /\ server'.sent = server.sent
           /\ \E w \in {"clean", "broken", "own"} :
                /\ Closes(link, link', w)
                /\ w = "clean" /\ link.reader = "reading" => Len(link.got) = server.sent
  BY <1>5 DEF Closes, Closed, Stream!Next, Stream!Close
<1> QED BY <1>1, <1>2, <1>3, <1>4, <1>5 DEF Moves, Calm

-----------------------------------------------------------------------------
(* The link keeps to its types: no more chunks than were sent, one write    *)
(* under way, no more failures than the keepalive allows.                   *)
THEOREM LinkTypes == LinkSpec => []LinkTypeOK
<1>1. LinkInv => LinkTypeOK
  BY DEF LinkInv
<1> QED BY <1>1, InitSound, StepKeeps, PTL DEF LinkSpec

(* The write queue of the transport never stalls and never exceeds its      *)
(* limit, and its count is exact while the transport is open.               *)
THEOREM WritesAlwaysFlow == LinkSpec => []WritesFlow
<1>1. LinkInv => WritesFlow
  BY DEF LinkInv, Half, Flow, WritesFlow
<1> QED BY <1>1, InitSound, StepKeeps, PTL DEF LinkSpec

(* No event of the transport reaches a callback that WsConn.Close released. *)
THEOREM CallbacksInTime == LinkSpec => []NoLateCall
<1>1. LinkInv => NoLateCall
  BY DEF LinkInv, Half, Ends, NoLateCall
<1> QED BY <1>1, InitSound, StepKeeps, PTL DEF LinkSpec

(* The link implements ByteStream: whatever is buffered, registered, queued *)
(* or closed when, the reader takes what the server sent, each chunk once   *)
(* and in order, and a clean end comes after all of it for one that waits.  *)
THEOREM StreamImplemented == LinkSpec => StreamSpec
<1>1. LinkInit => Stream!Init
  <2> SUFFICES ASSUME LinkInit PROVE Stream!Init
    OBVIOUS
  <2>1. server.sent = 0
    BY DEF LinkInit
  <2>2. PICK k \in {"tcp", "access"} :
          link = [kind |-> k, opened |-> FALSE, why |-> "", disposed |-> FALSE,
                  loop |-> k = "tcp", taken |-> 0, buffer |-> <<>>, queue |-> 0,
                  flying |-> 0, bytes |-> 0, made |-> FALSE, inbox |-> <<>>,
                  failed |-> FALSE, released |-> FALSE, reader |-> "none", up |-> FALSE,
                  got |-> <<>>, late |-> FALSE]
    BY DEF LinkInit
  <2>3. link.why = "" /\ link.reader = "none"
    BY <2>2
  <2>4. link.got = <<>>
    BY <2>2
  <2> QED BY <2>1, <2>3, <2>4 DEF Stream!Init
<1> QED BY <1>1, InitSound, StepKeeps, StepStreams, PTL
       DEF LinkSpec, StreamSpec, Stream!StreamSpec
==============================================================================
