------------------------ MODULE SettingsDialogProofs ------------------------
(***************************************************************************)
(* Proofs about the session in the browser and the settings dialog next to *)
(* it, for any number of attempts per outage.                              *)
(***************************************************************************)
EXTENDS SettingsDialog, TLAPS

allVars == <<vars, settings>>

-----------------------------------------------------------------------------
Pc ==
  {"idle", "connect", "detect", "cached", "import", "shell", "charts", "delay", "opening",
   "list", "sample"}

Outcome == {"-", "ok", "fail", "sec"}

Client ==
  [sock: {"none", "open", "failed", "ready"}, explicit: BOOLEAN, secErr: BOOLEAN,
   notified: BOOLEAN, reconnecting: BOOLEAN, attempt: 0..Attempts, feeding: BOOLEAN]

Status == {"connecting", "open", "closed", "error"}

Screen ==
  [cleaned: BOOLEAN, conn: BOOLEAN, subs: BOOLEAN, term: {"none", "shown", "disposed"},
   poller: {"none", "running", "stopped"}, active: BOOLEAN, stdin: BOOLEAN, status: Status]

\* The types of the objects and of the flows.
Shape ==
  /\ client \in Client
  /\ screen \in Screen
  /\ flow \in [Flow -> [pc: Pc, got: Outcome]]

\* Whoever has released the session has disconnected its client.
Parted == screen.cleaned \/ client.notified => client.explicit

\* A refused host key is met by a request or an opening, on a socket that is
\* not being opened, while nothing else of the loop goes on.
Secured ==
  \A f \in {"main", "loop"} : flow[f].got = "sec" =>
    /\ <<f, flow[f].pc>> \in AwaitsReady \cup AwaitsReply
    /\ client.sock # "open"
    /\ flow["loop"].pc = "delay" => flow["loop"].got = "-"

\* What the reconnection loop knows of the socket it waits for.
Dialled ==
  /\ flow["loop"].pc = "delay" => client.sock \in {"none", "failed"}
  /\ flow["loop"].pc = "opening" /\ flow["loop"].got = "-" => client.sock \in {"open", "none"}
  /\ flow["loop"].pc = "opening" /\ flow["loop"].got \in {"fail", "sec"} =>
       client.sock \in {"none", "failed"}

\* The settings that connectTo has handed to its client are kept until it is
\* over, unless a save ends meanwhile.
Handed ==
  /\ screen.active => flow["main"].pc = "idle"
  /\ ~screen.active /\ flow["main"].pc # "idle" /\ ~unheard => enabled = On(saved)

IInv ==
  /\ Shape /\ Parted /\ Secured /\ Dialled /\ Handed
  /\ NoLostRequest /\ PolicySettles

-----------------------------------------------------------------------------
\* Lemma: the inductive invariant holds initially.
LEMMA InitInv == Init => IInv
<1> SUFFICES ASSUME Init PROVE IInv
  OBVIOUS
<1>1. Shape
  BY AttemptsAssumption DEF Init, SessionInit, Shape, Client, Screen, Status, At, Idle,
     Flow, Pc, Outcome
<1>2. Parted /\ Secured /\ Dialled /\ Handed /\ NoLostRequest /\ PolicySettles
  BY DEF Init, SessionInit, Parted, Secured, Dialled, Handed, NoLostRequest,
     PolicySettles, At, Idle, Flow, Waiting, AwaitsReady, AwaitsReply
<1> QED
  BY <1>1, <1>2 DEF IInv

\* Lemma: settling changes the outcome of the flows that wait, and no more.
LEMMA SettleFields ==
  ASSUME Shape, NEW awaits, NEW outcome \in Outcome
  PROVE  /\ Settle(awaits, outcome) \in [Flow -> [pc: Pc, got: Outcome]]
         /\ \A f \in Flow :
              /\ Settle(awaits, outcome)[f].pc = flow[f].pc
              /\ Settle(awaits, outcome)[f].got =
                   IF Waiting(f, awaits) THEN outcome ELSE flow[f].got
BY DEF Shape, Settle

\* Lemma: a socket that is gone leaves nobody waiting for it.
LEMMA DroppedFields ==
  ASSUME Shape, \A f \in Flow : flow[f].got = "-"
  PROVE  /\ Dropped \in [Flow -> [pc: Pc, got: Outcome]]
         /\ \A f \in Flow :
              /\ Dropped[f].pc = flow[f].pc /\ Dropped[f].got \in {"-", "fail"}
              /\ Dropped[f].got = "-" => ~Waiting(f, AwaitsReady) /\ ~Waiting(f, AwaitsReply)
<1> DEFINE A == AwaitsReady \cup AwaitsReply
<1>1. "fail" \in Outcome /\ Dropped = Settle(A, "fail")
  BY DEF Outcome, Dropped
<1>2. \A f \in Flow : ~Waiting(f, A) => ~Waiting(f, AwaitsReady) /\ ~Waiting(f, AwaitsReply)
  BY DEF Waiting
<1> HIDE DEF A
<1>3. /\ Settle(A, "fail") \in [Flow -> [pc: Pc, got: Outcome]]
      /\ \A f \in Flow :
           /\ Settle(A, "fail")[f].pc = flow[f].pc
           /\ Settle(A, "fail")[f].got = IF Waiting(f, A) THEN "fail" ELSE flow[f].got
  BY <1>1, SettleFields
<1> QED
  BY <1>1, <1>2, <1>3

\* Lemma: what locking the terminal leaves alone.
LEMMA LockedFields ==
  ASSUME NEW s \in Screen, NEW status \in Status
  PROVE  /\ Locked(s, status) \in Screen
         /\ Locked(s, status).cleaned = s.cleaned /\ Locked(s, status).active = s.active
BY DEF Locked, Screen, Status

\* Lemma: the client is disconnected when the end of the session is reported.
LEMMA NotifiedFields ==
  ASSUME NEW c \in Client, NEW s \in Screen, s.cleaned \/ c.notified => c.explicit
  PROVE  /\ Notified(c, s) \in Client /\ Notified(c, s).explicit
         /\ Notified(c, s).sock \in {c.sock, "none"}
         /\ ScreenNotified(c, s) \in Screen
         /\ ScreenNotified(c, s).active => s.active
<1>1. /\ LetGo(c, s) \in Client /\ LetGo(c, s).sock \in {c.sock, "none"}
      /\ ~c.notified => LetGo(c, s).explicit
  BY DEF LetGo, Disconnected, Client
<1>2. Released(s) \in Screen
  BY DEF Released, Screen
<1>3. /\ ~c.notified => Notified(c, s) = [LetGo(c, s) EXCEPT !.notified = TRUE]
      /\ c.notified => Notified(c, s) = c
      /\ ~c.notified => ScreenNotified(c, s) =
           [Released(s) EXCEPT !.active = FALSE, !.status = "closed"]
      /\ c.notified => ScreenNotified(c, s) = s
  BY DEF Notified, ScreenNotified
<1>4. ASSUME ~c.notified
      PROVE  /\ Notified(c, s) \in Client /\ Notified(c, s).explicit
             /\ Notified(c, s).sock \in {c.sock, "none"}
  BY <1>1, <1>3, <1>4 DEF Client
<1>5. ASSUME ~c.notified
      PROVE  ScreenNotified(c, s) \in Screen /\ ~ScreenNotified(c, s).active
  BY <1>2, <1>3, <1>5 DEF Screen, Status
<1> QED
  BY <1>3, <1>4, <1>5

\* Lemma: an event of the socket, a reply, a timer or the user.
LEMMA EventStep ==
  ASSUME IInv, UNCHANGED settings,
         \/ HostKeyBlocked \/ Ready \/ StateError \/ SocketError \/ ClosedUnexpectedly
         \/ \E normal \in BOOLEAN : ClosedForGood(normal)
         \/ \E f \in Flow, ok \in BOOLEAN : Reply(f, ok) \/ Other(f, ok)
         \/ PollTimer \/ Leave
  PROVE  IInv'
<1>1. CASE HostKeyBlocked
  <2>1. Shape'
    BY <1>1, AttemptsAssumption DEF HostKeyBlocked, Quiet, IInv, Shape, Flow, Pc,
       Outcome, Client, Screen, Status
  <2>2. Parted' /\ Handed' /\ PolicySettles'
    BY <1>1, <2>1 DEF HostKeyBlocked, Quiet, IInv, Shape, Flow, Pc, Outcome, Client,
       Screen, Status, Parted, Handed, PolicySettles, settings
  <2>3. Secured' /\ Dialled' /\ NoLostRequest'
    BY <1>1, <2>1 DEF HostKeyBlocked, Quiet, IInv, Shape, Flow, Pc, Outcome, Client,
       Screen, Status, Secured, Dialled, NoLostRequest, Waiting, AwaitsReady,
       AwaitsReply, AwaitsOther
  <2> QED
    BY <2>1, <2>2, <2>3 DEF IInv
<1>2. CASE Ready
  <2>1. Shape'
    BY <1>2, SettleFields, AttemptsAssumption DEF Ready, Quiet, IInv, Shape, Flow, Pc,
       Outcome, Client, Screen, Status
  <2>2. Parted' /\ Handed' /\ PolicySettles'
    BY <1>2, SettleFields, <2>1 DEF Ready, Quiet, IInv, Shape, Flow, Pc, Outcome,
       Client, Screen, Status, Parted, Handed, PolicySettles, settings
  <2>3. Secured' /\ Dialled' /\ NoLostRequest'
    BY <1>2, SettleFields, <2>1 DEF Ready, Quiet, IInv, Shape, Flow, Pc, Outcome,
       Client, Screen, Status, Secured, Dialled, NoLostRequest, Waiting, AwaitsReady,
       AwaitsReply, AwaitsOther
  <2> QED
    BY <2>1, <2>2, <2>3 DEF IInv
<1>3. CASE StateError
  <2>1. Shape'
    BY <1>3, SettleFields, AttemptsAssumption DEF StateError, Quiet, IInv, Shape, Flow,
       Pc, Outcome, Client, Screen, Status
  <2>2. Parted' /\ Handed' /\ PolicySettles'
    BY <1>3, SettleFields, <2>1 DEF StateError, Quiet, IInv, Shape, Flow, Pc, Outcome,
       Client, Screen, Status, Parted, Handed, PolicySettles, settings
  <2>3. Secured' /\ Dialled' /\ NoLostRequest'
    BY <1>3, SettleFields, <2>1 DEF StateError, Quiet, IInv, Shape, Flow, Pc, Outcome,
       Client, Screen, Status, Secured, Dialled, NoLostRequest, Waiting, AwaitsReady,
       AwaitsReply, AwaitsOther
  <2> QED
    BY <2>1, <2>2, <2>3 DEF IInv
<1>4. CASE SocketError
  <2>1. Shape'
    BY <1>4, SettleFields, AttemptsAssumption DEF SocketError, Quiet, IInv, Shape, Flow,
       Pc, Outcome, Client, Screen, Status
  <2>2. Parted' /\ Handed' /\ PolicySettles'
    BY <1>4, SettleFields, <2>1 DEF SocketError, Quiet, IInv, Shape, Flow, Pc, Outcome,
       Client, Screen, Status, Parted, Handed, PolicySettles, settings
  <2>3. Secured' /\ Dialled' /\ NoLostRequest'
    BY <1>4, SettleFields, <2>1 DEF SocketError, Quiet, IInv, Shape, Flow, Pc, Outcome,
       Client, Screen, Status, Secured, Dialled, NoLostRequest, Waiting, AwaitsReady,
       AwaitsReply, AwaitsOther
  <2> QED
    BY <2>1, <2>2, <2>3 DEF IInv
<1>5. CASE ClosedUnexpectedly
  <2>1. /\ client'.sock = "none" /\ client'.explicit = client.explicit
        /\ client'.notified = client.notified /\ client' \in Client
    <3> DEFINE a == IF client.reconnecting THEN client.attempt ELSE 1
               b == client.feeding /\ client.reconnecting
    <3>1. client \in Client /\ a \in 0..Attempts /\ b \in BOOLEAN
      BY AttemptsAssumption DEF IInv, Shape, Client
    <3>2. client' = [client EXCEPT !.sock = "none", !.reconnecting = TRUE, !.attempt = a,
                       !.feeding = b]
      BY <1>5 DEF ClosedUnexpectedly
    <3> HIDE DEF a, b
    <3> QED
      BY <3>1, <3>2 DEF Client
  <2>2. /\ screen' \in Screen /\ screen'.cleaned = screen.cleaned
        /\ screen'.active = screen.active /\ enabled' = enabled
    BY <1>5, LockedFields DEF ClosedUnexpectedly, IInv, Shape, Status
  <2>3. flow["loop"].got = "-" /\ \A f \in Flow : flow[f].got = "-"
    BY <1>5 DEF ClosedUnexpectedly, Quiet, Flow
  <2>4. /\ flow' \in [Flow -> [pc: Pc, got: Outcome]]
        /\ \A f \in Flow : f # "loop" => flow'[f].pc = flow[f].pc
        /\ \A f \in Flow : flow'[f].got \in {"-", "fail"}
        /\ \A f \in Flow : flow'[f].got = "-" =>
             flow'[f].pc = "delay" \/ (flow'[f].pc = flow[f].pc /\ ~Waiting(f, AwaitsReply))
    <3>1. /\ Dropped \in [Flow -> [pc: Pc, got: Outcome]]
          /\ \A f \in Flow : Dropped[f].pc = flow[f].pc /\ Dropped[f].got \in {"-", "fail"}
          /\ \A f \in Flow : Dropped[f].got = "-" => ~Waiting(f, AwaitsReply)
      BY <2>3, DroppedFields DEF IInv
    <3>2. flow' \in {Dropped, [Dropped EXCEPT !["loop"] = At("delay")]}
      BY <1>5 DEF ClosedUnexpectedly
    <3> QED
      BY <3>1, <3>2 DEF At, Flow, Pc, Outcome
  <2>5. Shape'
    BY <2>1, <2>2, <2>4 DEF Shape
  <2>6. flow'["main"].pc = flow["main"].pc
    BY <2>4 DEF Flow
  <2>7. Parted' /\ Handed' /\ PolicySettles'
    BY <2>1, <2>2, <2>6 DEF Parted, Handed, PolicySettles, IInv, settings
  <2>8. Secured' /\ Dialled' /\ NoLostRequest'
    BY <2>1, <2>3, <2>4 DEF Secured, Dialled, NoLostRequest, IInv, Flow, Waiting,
       AwaitsReady, AwaitsReply
  <2> QED
    BY <2>5, <2>7, <2>8 DEF IInv
<1>6. CASE PollTimer
  <2>1. Shape'
    BY <1>6, AttemptsAssumption DEF PollTimer, Quiet, Request, Idle, IInv, Shape, Flow,
       Pc, Outcome, Client, Screen, Status
  <2>2. Parted' /\ Handed' /\ PolicySettles'
    BY <1>6, <2>1 DEF PollTimer, Quiet, Request, Idle, IInv, Shape, Flow, Pc, Outcome,
       Client, Screen, Status, Parted, Handed, PolicySettles, settings
  <2>3. Secured' /\ Dialled' /\ NoLostRequest'
    BY <1>6, <2>1 DEF PollTimer, Quiet, Request, Idle, IInv, Shape, Flow, Pc, Outcome,
       Client, Screen, Status, Secured, Dialled, NoLostRequest, Waiting, AwaitsReady,
       AwaitsReply, AwaitsOther
  <2> QED
    BY <2>1, <2>2, <2>3 DEF IInv
<1>7. CASE Leave
  <2>1. Shape'
    BY <1>7, AttemptsAssumption DEF Leave, Quiet, LetGo, Disconnected, Released, IInv,
       Shape, Flow, Pc, Outcome, Client, Screen, Status
  <2>2. Parted' /\ Handed' /\ PolicySettles'
    BY <1>7, <2>1 DEF Leave, Quiet, LetGo, Disconnected, Released, IInv, Shape, Flow,
       Pc, Outcome, Client, Screen, Status, Parted, Handed, PolicySettles, settings
  <2>3. Secured' /\ Dialled' /\ NoLostRequest'
    BY <1>7, <2>1 DEF Leave, Quiet, LetGo, Disconnected, Released, IInv, Shape, Flow,
       Pc, Outcome, Client, Screen, Status, Secured, Dialled, NoLostRequest, Waiting,
       AwaitsReady, AwaitsReply, AwaitsOther
  <2> QED
    BY <2>1, <2>2, <2>3 DEF IInv
<1>8. CASE \E normal \in BOOLEAN : ClosedForGood(normal)
  <2> DEFINE c == [client EXCEPT !.sock = "none"]
  <2>1. /\ c \in Client /\ c.sock = "none" /\ c.explicit = client.explicit
        /\ c.notified = client.notified
    BY DEF IInv, Shape, Client
  <2>2. \/ client' = c /\ screen' = screen
        \/ client' = Notified(c, screen) /\ screen' = ScreenNotified(c, screen)
    BY <1>8 DEF ClosedForGood
  <2>3. /\ flow' = Dropped /\ enabled' = enabled
        /\ \A f \in Flow : flow[f].got = "-"
    BY <1>8 DEF ClosedForGood, Quiet
  <2> HIDE DEF c
  <2>4. /\ client' \in Client /\ client'.sock = "none" /\ screen' \in Screen
        /\ screen'.cleaned \/ client'.notified => client'.explicit
        /\ client.explicit => client'.explicit
        /\ screen'.active => screen.active
    <3>1. client \in Client /\ screen \in Screen
      BY DEF IInv, Shape
    <3>2. screen.cleaned \/ c.notified => c.explicit
      BY <2>1 DEF IInv, Parted
    <3>3. /\ Notified(c, screen) \in Client /\ Notified(c, screen).explicit
          /\ Notified(c, screen).sock \in {c.sock, "none"}
          /\ ScreenNotified(c, screen) \in Screen
          /\ ScreenNotified(c, screen).active => screen.active
      BY <2>1, <3>1, <3>2, NotifiedFields
    <3>4. CASE client' = c /\ screen' = screen
      BY <2>1, <3>1, <3>2, <3>4
    <3>5. CASE client' = Notified(c, screen) /\ screen' = ScreenNotified(c, screen)
      BY <2>1, <3>3, <3>5
    <3> QED
      BY <2>2, <3>4, <3>5
  <2>5. /\ flow' \in [Flow -> [pc: Pc, got: Outcome]]
        /\ \A f \in Flow :
             /\ flow'[f].pc = flow[f].pc /\ flow'[f].got \in {"-", "fail"}
             /\ flow'[f].got = "-" => ~Waiting(f, AwaitsReady) /\ ~Waiting(f, AwaitsReply)
    BY <2>3, DroppedFields DEF IInv
  <2>6. Parted' /\ Handed' /\ PolicySettles'
    BY <2>3, <2>4, <2>5 DEF Parted, Handed, PolicySettles, IInv, settings, Flow
  <2>7. Secured' /\ Dialled' /\ NoLostRequest'
    BY <2>3, <2>4, <2>5 DEF Secured, Dialled, NoLostRequest, IInv, Flow, Waiting,
       AwaitsReady, AwaitsReply
  <2> QED
    BY <2>4, <2>5, <2>6, <2>7 DEF IInv, Shape
<1>9. CASE \E f \in Flow, ok \in BOOLEAN : Reply(f, ok) \/ Other(f, ok)
  <2>1. Shape'
    BY <1>9, AttemptsAssumption DEF Reply, Other, Quiet, IInv, Shape, Flow, Pc, Outcome,
       Client, Screen, Status
  <2>2. Parted' /\ Handed' /\ PolicySettles'
    BY <1>9, <2>1 DEF Reply, Other, Quiet, IInv, Shape, Flow, Pc, Outcome, Client,
       Screen, Status, Parted, Handed, PolicySettles, settings
  <2>3. Secured' /\ Dialled' /\ NoLostRequest'
    BY <1>9, <2>1 DEF Reply, Other, Quiet, IInv, Shape, Flow, Pc, Outcome, Client,
       Screen, Status, Secured, Dialled, NoLostRequest, Waiting, AwaitsReady,
       AwaitsReply, AwaitsOther
  <2> QED
    BY <2>1, <2>2, <2>3 DEF IInv
<1> QED
  BY <1>1, <1>2, <1>3, <1>4, <1>5, <1>6, <1>7, <1>8, <1>9

\* Lemma: a continuation.
LEMMA ContinueStep ==
  ASSUME IInv, UNCHANGED settings, Continue
  PROVE  IInv'
<1>1. CASE MainFails
  <2>1. Shape'
    BY <1>1, AttemptsAssumption DEF MainFails, Got, Ok, LetGo, Disconnected, Released,
       Idle, IInv, Shape, Flow, Pc, Outcome, Client, Screen, Status
  <2>2. Parted' /\ Handed' /\ PolicySettles'
    BY <1>1, <2>1 DEF MainFails, Got, Ok, LetGo, Disconnected, Released, Idle, IInv,
       Shape, Flow, Pc, Outcome, Client, Screen, Status, Parted, Handed, PolicySettles,
       settings
  <2>3. Secured' /\ Dialled' /\ NoLostRequest'
    BY <1>1, <2>1 DEF MainFails, Got, Ok, LetGo, Disconnected, Released, Idle, IInv,
       Shape, Flow, Pc, Outcome, Client, Screen, Status, Secured, Dialled,
       NoLostRequest, Waiting, AwaitsReady, AwaitsReply, AwaitsOther
  <2> QED
    BY <2>1, <2>2, <2>3 DEF IInv
<1>2. CASE MainConnected
  <2>1. Shape'
    <3>1. screen' \in Screen /\ client' = client
      BY <1>2 DEF MainConnected, IInv, Shape, Screen
    <3>2. PICK next \in {At("cached"), Request(client, "detect")} :
            flow' = [flow EXCEPT !["main"] = next]
      BY <1>2 DEF MainConnected
    <3>3. next \in [pc: Pc, got: Outcome]
      BY <3>2 DEF At, Request, Pc, Outcome
    <3> QED
      BY <3>1, <3>2, <3>3 DEF IInv, Shape
  <2>2. Parted' /\ Handed' /\ PolicySettles'
    BY <1>2, <2>1 DEF MainConnected, Got, Ok, At, Request, IInv, Shape, Flow, Pc,
       Outcome, Client, Screen, Status, Parted, Handed, PolicySettles, settings
  <2>3. Secured' /\ Dialled' /\ NoLostRequest'
    BY <1>2, <2>1 DEF MainConnected, Got, Ok, At, Request, IInv, Shape, Flow, Pc,
       Outcome, Client, Screen, Status, Secured, Dialled, NoLostRequest, Waiting,
       AwaitsReady, AwaitsReply, AwaitsOther
  <2> QED
    BY <2>1, <2>2, <2>3 DEF IInv
<1>3. CASE MainDetected
  <2>1. Shape'
    BY <1>3, AttemptsAssumption DEF MainDetected, Got, Ok, At, IInv, Shape, Flow, Pc,
       Outcome, Client, Screen, Status
  <2>2. Parted' /\ Handed' /\ PolicySettles'
    BY <1>3, <2>1 DEF MainDetected, Got, Ok, At, IInv, Shape, Flow, Pc, Outcome, Client,
       Screen, Status, Parted, Handed, PolicySettles, settings
  <2>3. Secured' /\ Dialled' /\ NoLostRequest'
    BY <1>3, <2>1 DEF MainDetected, Got, Ok, At, IInv, Shape, Flow, Pc, Outcome, Client,
       Screen, Status, Secured, Dialled, NoLostRequest, Waiting, AwaitsReady,
       AwaitsReply, AwaitsOther
  <2> QED
    BY <2>1, <2>2, <2>3 DEF IInv
<1>4. CASE MainTerminal
  <2>1. Shape'
    BY <1>4, AttemptsAssumption DEF MainTerminal, Got, Ok, Request, IInv, Shape, Flow,
       Pc, Outcome, Client, Screen, Status
  <2>2. Parted' /\ Handed' /\ PolicySettles'
    BY <1>4, <2>1 DEF MainTerminal, Got, Ok, Request, IInv, Shape, Flow, Pc, Outcome,
       Client, Screen, Status, Parted, Handed, PolicySettles, settings
  <2>3. Secured' /\ Dialled' /\ NoLostRequest'
    BY <1>4, <2>1 DEF MainTerminal, Got, Ok, Request, IInv, Shape, Flow, Pc, Outcome,
       Client, Screen, Status, Secured, Dialled, NoLostRequest, Waiting, AwaitsReady,
       AwaitsReply, AwaitsOther
  <2> QED
    BY <2>1, <2>2, <2>3 DEF IInv
<1>5. CASE MainShell
  <2>1. Shape'
    BY <1>5, AttemptsAssumption DEF MainShell, Got, Ok, At, IInv, Shape, Flow, Pc,
       Outcome, Client, Screen, Status
  <2>2. Parted' /\ Handed' /\ PolicySettles'
    BY <1>5, <2>1 DEF MainShell, Got, Ok, At, IInv, Shape, Flow, Pc, Outcome, Client,
       Screen, Status, Parted, Handed, PolicySettles, settings
  <2>3. Secured' /\ Dialled' /\ NoLostRequest'
    BY <1>5, <2>1 DEF MainShell, Got, Ok, At, IInv, Shape, Flow, Pc, Outcome, Client,
       Screen, Status, Secured, Dialled, NoLostRequest, Waiting, AwaitsReady,
       AwaitsReply, AwaitsOther
  <2> QED
    BY <2>1, <2>2, <2>3 DEF IInv
<1>6. CASE MainDone
  <2>1. Shape'
    BY <1>6, AttemptsAssumption DEF MainDone, Got, Idle, Ticking, Request, IInv, Shape,
       Flow, Pc, Outcome, Client, Screen, Status
  <2>2. Parted' /\ Handed' /\ PolicySettles'
    BY <1>6, <2>1 DEF MainDone, Got, Idle, Ticking, Request, IInv, Shape, Flow, Pc,
       Outcome, Client, Screen, Status, Parted, Handed, PolicySettles, settings
  <2>3. Secured' /\ Dialled' /\ NoLostRequest'
    BY <1>6, <2>1 DEF MainDone, Got, Idle, Ticking, Request, IInv, Shape, Flow, Pc,
       Outcome, Client, Screen, Status, Secured, Dialled, NoLostRequest, Waiting,
       AwaitsReady, AwaitsReply, AwaitsOther
  <2> QED
    BY <2>1, <2>2, <2>3 DEF IInv
<1>7. CASE LoopDelayed
  <2>1. /\ client' \in Client /\ screen' = screen /\ enabled' = enabled
        /\ client'.explicit = client.explicit /\ client'.notified = client.notified
        /\ client.explicit => client'.sock = client.sock /\ flow'["loop"].pc = "idle"
        /\ ~client.explicit => client'.sock = "open" /\ flow'["loop"].pc = "opening"
    <3>1. client \in Client /\ flow \in [Flow -> [pc: Pc, got: Outcome]] /\ "loop" \in Flow
      BY DEF IInv, Shape, Flow
    <3>2. CASE client.explicit
      <4>1. client' = [client EXCEPT !.reconnecting = FALSE] /\ flow' = [flow EXCEPT !["loop"] = Idle]
        BY <1>7, <3>2 DEF LoopDelayed
      <4> QED
        BY <1>7, <3>1, <3>2, <4>1 DEF LoopDelayed, Client, Idle
    <3>3. CASE ~client.explicit
      <4>1. /\ client' = [client EXCEPT !.secErr = FALSE, !.sock = "open"]
            /\ flow' = [flow EXCEPT !["loop"] = At("opening")]
        BY <1>7, <3>3 DEF LoopDelayed
      <4> QED
        BY <1>7, <3>1, <3>3, <4>1 DEF LoopDelayed, Client, At
    <3> QED
      BY <3>2, <3>3
  <2>2. /\ flow' \in [Flow -> [pc: Pc, got: Outcome]]
        /\ \A f \in Flow : f # "loop" => flow'[f] = flow[f]
        /\ flow'["loop"].pc \in {"idle", "opening"} /\ flow'["loop"].got = "-"
        /\ flow["loop"].pc = "delay" /\ flow["loop"].got # "-"
    BY <1>7 DEF LoopDelayed, Got, IInv, Shape, Idle, At, Flow, Pc, Outcome
  <2>3. flow'["main"] = flow["main"] /\ flow["main"].got # "sec"
    BY <2>2 DEF IInv, Secured, Flow
  <2>4. Parted' /\ Handed' /\ PolicySettles'
    BY <2>1, <2>3 DEF Parted, Handed, PolicySettles, IInv, settings
  <2>5. Secured'
    BY <2>2, <2>3 DEF Secured
  <2>6. Dialled' /\ NoLostRequest'
    <3>1. client.sock # "ready"
      BY <2>2 DEF IInv, Dialled
    <3> QED
      BY <2>1, <2>2, <3>1 DEF NoLostRequest, Dialled, IInv, Flow, Waiting, AwaitsReply
  <2> QED
    BY <2>1, <2>2, <2>4, <2>5, <2>6 DEF IInv, Shape
<1>8. CASE LoopReady
  <2>1. Shape'
    <3>1. client' \in Client /\ screen' = screen
      BY <1>8 DEF LoopReady, IInv, Shape, Client, Screen
    <3>2. Request(client, "shell") \in [pc: Pc, got: Outcome] /\ Idle \in [pc: Pc, got: Outcome]
      BY DEF Request, Idle, Pc, Outcome
    <3>3. flow' \in [Flow -> [pc: Pc, got: Outcome]]
      BY <1>8, <3>2 DEF LoopReady, IInv, Shape
    <3> QED
      BY <3>1, <3>3 DEF IInv, Shape
  <2>2. Parted' /\ Handed' /\ PolicySettles'
    BY <1>8, <2>1 DEF LoopReady, Got, Ok, Idle, Request, IInv, Shape, Flow, Pc, Outcome,
       Client, Screen, Status, Parted, Handed, PolicySettles, settings
  <2>3. Secured' /\ Dialled' /\ NoLostRequest'
    BY <1>8, <2>1 DEF LoopReady, Got, Ok, Idle, Request, IInv, Shape, Flow, Pc, Outcome,
       Client, Screen, Status, Secured, Dialled, NoLostRequest, Waiting, AwaitsReady,
       AwaitsReply, AwaitsOther
  <2> QED
    BY <2>1, <2>2, <2>3 DEF IInv
<1>9. CASE LoopAgain
  <2>1. Shape'
    <3>1. client' \in Client
      <4>1. client.attempt + 1 \in 0..Attempts
        BY <1>9, AttemptsAssumption DEF LoopAgain, Exhausted, IInv, Shape, Client
      <4> QED
        BY <1>9, <4>1 DEF LoopAgain, IInv, Shape, Client
    <3>2. screen' \in Screen
      BY <1>9, LockedFields DEF LoopAgain, IInv, Shape, Status
    <3>3. flow' \in [Flow -> [pc: Pc, got: Outcome]]
      BY <1>9 DEF LoopAgain, At, IInv, Shape, Pc, Outcome
    <3> QED
      BY <3>1, <3>2, <3>3 DEF Shape
  <2>2. Parted' /\ Handed' /\ PolicySettles'
    BY <1>9, <2>1 DEF LoopAgain, Got, Ok, At, Locked, Exhausted, IInv, Shape, Flow, Pc,
       Outcome, Client, Screen, Status, Parted, Handed, PolicySettles, settings
  <2>3. Secured' /\ Dialled' /\ NoLostRequest'
    BY <1>9, <2>1 DEF LoopAgain, Got, Ok, At, Locked, Exhausted, IInv, Shape, Flow, Pc,
       Outcome, Client, Screen, Status, Secured, Dialled, NoLostRequest, Waiting,
       AwaitsReady, AwaitsReply, AwaitsOther
  <2> QED
    BY <2>1, <2>2, <2>3 DEF IInv
<1>10. CASE LoopFails
  <2>1. Shape'
    <3>1. client \in Client /\ screen \in Screen
      BY DEF IInv, Shape
    <3> DEFINE l == Locked(screen, "error")
    <3>2. l \in Screen /\ l.cleaned = screen.cleaned /\ l.active = screen.active
      BY <3>1, LockedFields DEF Status
    <3>3. /\ client' = [Notified(client, l) EXCEPT !.reconnecting = FALSE]
          /\ screen' = ScreenNotified(client, l) /\ flow' = [flow EXCEPT !["loop"] = Idle]
      BY <1>10 DEF LoopFails
    <3> HIDE DEF l
    <3>4. l.cleaned \/ client.notified => client.explicit
      BY <3>2 DEF IInv, Parted
    <3>5. Notified(client, l) \in Client /\ ScreenNotified(client, l) \in Screen
      BY <3>1, <3>2, <3>4, NotifiedFields
    <3> QED
      BY <3>3, <3>5 DEF IInv, Shape, Client, Idle, Pc, Outcome
  <2>2. Parted' /\ Handed' /\ PolicySettles'
    BY <1>10, <2>1 DEF LoopFails, Got, Ok, Idle, Locked, Notified, ScreenNotified,
       LetGo, Disconnected, Released, IInv, Shape, Flow, Pc, Outcome, Client, Screen,
       Status, Parted, Handed, PolicySettles, settings
  <2>3. Secured' /\ Dialled' /\ NoLostRequest'
    BY <1>10, <2>1 DEF LoopFails, Got, Ok, Idle, Locked, Notified, ScreenNotified,
       LetGo, Disconnected, Released, IInv, Shape, Flow, Pc, Outcome, Client, Screen,
       Status, Secured, Dialled, NoLostRequest, Waiting, AwaitsReady, AwaitsReply,
       AwaitsOther
  <2> QED
    BY <2>1, <2>2, <2>3 DEF IInv
<1>11. CASE RecoveryShell
  <2>1. Shape'
    BY <1>11, AttemptsAssumption DEF RecoveryShell, Got, Ok, Request, IInv, Shape, Flow,
       Pc, Outcome, Client, Screen, Status
  <2>2. Parted' /\ Handed' /\ PolicySettles'
    BY <1>11, <2>1 DEF RecoveryShell, Got, Ok, Request, IInv, Shape, Flow, Pc, Outcome,
       Client, Screen, Status, Parted, Handed, PolicySettles, settings
  <2>3. Secured' /\ Dialled' /\ NoLostRequest'
    BY <1>11, <2>1 DEF RecoveryShell, Got, Ok, Request, IInv, Shape, Flow, Pc, Outcome,
       Client, Screen, Status, Secured, Dialled, NoLostRequest, Waiting, AwaitsReady,
       AwaitsReply, AwaitsOther
  <2> QED
    BY <2>1, <2>2, <2>3 DEF IInv
<1>12. CASE RecoveryFails
  <2>1. Shape'
    BY <1>12, AttemptsAssumption DEF RecoveryFails, Got, Ok, Idle, IInv, Shape, Flow,
       Pc, Outcome, Client, Screen, Status
  <2>2. Parted' /\ Handed' /\ PolicySettles'
    BY <1>12, <2>1 DEF RecoveryFails, Got, Ok, Idle, IInv, Shape, Flow, Pc, Outcome,
       Client, Screen, Status, Parted, Handed, PolicySettles, settings
  <2>3. Secured' /\ Dialled' /\ NoLostRequest'
    BY <1>12, <2>1 DEF RecoveryFails, Got, Ok, Idle, IInv, Shape, Flow, Pc, Outcome,
       Client, Screen, Status, Secured, Dialled, NoLostRequest, Waiting, AwaitsReady,
       AwaitsReply, AwaitsOther
  <2> QED
    BY <2>1, <2>2, <2>3 DEF IInv
<1>13. CASE RecoveryDone
  <2>1. Shape'
    BY <1>13, AttemptsAssumption DEF RecoveryDone, Got, Idle, Ticking, Request, IInv,
       Shape, Flow, Pc, Outcome, Client, Screen, Status
  <2>2. Parted' /\ Handed' /\ PolicySettles'
    BY <1>13, <2>1 DEF RecoveryDone, Got, Idle, Ticking, Request, IInv, Shape, Flow, Pc,
       Outcome, Client, Screen, Status, Parted, Handed, PolicySettles, settings
  <2>3. Secured' /\ Dialled' /\ NoLostRequest'
    BY <1>13, <2>1 DEF RecoveryDone, Got, Idle, Ticking, Request, IInv, Shape, Flow, Pc,
       Outcome, Client, Screen, Status, Secured, Dialled, NoLostRequest, Waiting,
       AwaitsReady, AwaitsReply, AwaitsOther
  <2> QED
    BY <2>1, <2>2, <2>3 DEF IInv
<1>14. CASE PollDone
  <2>1. Shape'
    BY <1>14, AttemptsAssumption DEF PollDone, Got, Ok, Idle, IInv, Shape, Flow, Pc,
       Outcome, Client, Screen, Status
  <2>2. Parted' /\ Handed' /\ PolicySettles'
    BY <1>14, <2>1 DEF PollDone, Got, Ok, Idle, IInv, Shape, Flow, Pc, Outcome, Client,
       Screen, Status, Parted, Handed, PolicySettles, settings
  <2>3. Secured' /\ Dialled' /\ NoLostRequest'
    BY <1>14, <2>1 DEF PollDone, Got, Ok, Idle, IInv, Shape, Flow, Pc, Outcome, Client,
       Screen, Status, Secured, Dialled, NoLostRequest, Waiting, AwaitsReady,
       AwaitsReply, AwaitsOther
  <2> QED
    BY <2>1, <2>2, <2>3 DEF IInv
<1>15. CASE MainCached
  <2>1. Shape'
    <3>1. screen' = screen /\ client' = client
      BY <1>15 DEF MainCached
    <3>2. PICK next \in {At("import"), Request(client, "detect")} :
            flow' = [flow EXCEPT !["main"] = next]
      BY <1>15 DEF MainCached
    <3>3. next \in [pc: Pc, got: Outcome]
      BY <3>2 DEF At, Request, Pc, Outcome
    <3> QED
      BY <3>1, <3>2, <3>3 DEF IInv, Shape
  <2>2. Parted' /\ Handed' /\ PolicySettles'
    BY <1>15, <2>1 DEF MainCached, Got, Ok, At, Request, IInv, Shape, Flow, Pc,
       Outcome, Client, Screen, Status, Parted, Handed, PolicySettles, settings
  <2>3. Secured' /\ Dialled' /\ NoLostRequest'
    BY <1>15, <2>1 DEF MainCached, Got, Ok, At, Request, IInv, Shape, Flow, Pc,
       Outcome, Client, Screen, Status, Secured, Dialled, NoLostRequest, Waiting,
       AwaitsReady, AwaitsReply, AwaitsOther
  <2> QED
    BY <2>1, <2>2, <2>3 DEF IInv
<1> QED
  BY <1>1, <1>2, <1>3, <1>4, <1>5, <1>6, <1>7, <1>8, <1>9, <1>10, <1>11, <1>12, <1>13,
     <1>14, <1>15 DEF Continue

\* Lemma: a step of the settings dialog.
LEMMA SettingsStep == IInv /\ SettingsNext => IInv'
<1> SUFFICES ASSUME IInv, SettingsNext PROVE IInv'
  OBVIOUS
<1>1. CASE OpenSettings
  <2>1. Shape'
    BY <1>1, AttemptsAssumption DEF OpenSettings, vars, IInv, Shape, Flow, Pc, Outcome,
       Client, Screen, Status
  <2>2. Parted' /\ Handed' /\ PolicySettles'
    BY <1>1, <2>1 DEF OpenSettings, vars, IInv, Shape, Flow, Pc, Outcome, Client,
       Screen, Status, Parted, Handed, PolicySettles, settings
  <2>3. Secured' /\ Dialled' /\ NoLostRequest'
    BY <1>1, <2>1 DEF OpenSettings, vars, IInv, Shape, Flow, Pc, Outcome, Client,
       Screen, Status, Secured, Dialled, NoLostRequest, Waiting, AwaitsReady,
       AwaitsReply, AwaitsOther
  <2> QED
    BY <2>1, <2>2, <2>3 DEF IInv
<1>2. CASE \E policy \in Policy : Change(policy)
  <2>1. Shape'
    BY <1>2, AttemptsAssumption DEF Change, Applies, Rescheduled, Ticking, Request,
       Quiet, IInv, Shape, Flow, Pc, Outcome, Client, Screen, Status
  <2>2. Parted' /\ Handed' /\ PolicySettles'
    <3>1. flow'["main"] = flow["main"] /\ UNCHANGED <<client, screen>>
      BY <1>2 DEF Change, Applies, Rescheduled, IInv, Shape, Flow
    <3>2. ~screen.active => enabled' = enabled
      BY <1>2 DEF Change, Applies
    <3>3. draft' # None /\ saved' = saved /\ unheard' = unheard
      BY <1>2 DEF Change, Policy, None
    <3> QED
      BY <3>1, <3>2, <3>3 DEF Parted, Handed, PolicySettles, IInv
  <2>3. Secured' /\ Dialled' /\ NoLostRequest'
    BY <1>2, <2>1 DEF Change, Applies, Rescheduled, Ticking, Request, Quiet, IInv,
       Shape, Flow, Pc, Outcome, Client, Screen, Status, Secured, Dialled,
       NoLostRequest, Waiting, AwaitsReady, AwaitsReply, AwaitsOther
  <2> QED
    BY <2>1, <2>2, <2>3 DEF IInv
<1>3. CASE CancelSettings
  <2>1. Shape'
    BY <1>3, AttemptsAssumption DEF CancelSettings, Applies, Rescheduled, Ticking,
       Request, Quiet, IInv, Shape, Flow, Pc, Outcome, Client, Screen, Status
  <2>2. Parted' /\ Handed' /\ PolicySettles'
    BY <1>3, <2>1 DEF CancelSettings, Applies, Rescheduled, Ticking, Request, Quiet,
       IInv, Shape, Flow, Pc, Outcome, Client, Screen, Status, Parted, Handed,
       PolicySettles, settings
  <2>3. Secured' /\ Dialled' /\ NoLostRequest'
    BY <1>3, <2>1 DEF CancelSettings, Applies, Rescheduled, Ticking, Request, Quiet,
       IInv, Shape, Flow, Pc, Outcome, Client, Screen, Status, Secured, Dialled,
       NoLostRequest, Waiting, AwaitsReady, AwaitsReply, AwaitsOther
  <2> QED
    BY <2>1, <2>2, <2>3 DEF IInv
<1>4. CASE SaveSettings
  <2>1. Shape'
    BY <1>4, AttemptsAssumption DEF SaveSettings, vars, IInv, Shape, Flow, Pc, Outcome,
       Client, Screen, Status
  <2>2. Parted' /\ Handed' /\ PolicySettles'
    BY <1>4, <2>1 DEF SaveSettings, vars, IInv, Shape, Flow, Pc, Outcome, Client,
       Screen, Status, Parted, Handed, PolicySettles, settings
  <2>3. Secured' /\ Dialled' /\ NoLostRequest'
    BY <1>4, <2>1 DEF SaveSettings, vars, IInv, Shape, Flow, Pc, Outcome, Client,
       Screen, Status, Secured, Dialled, NoLostRequest, Waiting, AwaitsReady,
       AwaitsReply, AwaitsOther
  <2> QED
    BY <2>1, <2>2, <2>3 DEF IInv
<1>5. CASE SettingsSaved
  <2>1. Shape'
    BY <1>5, AttemptsAssumption DEF SettingsSaved, Applies, Rescheduled, Ticking,
       Request, Quiet, Idle, IInv, Shape, Flow, Pc, Outcome, Client, Screen, Status
  <2>2. Parted' /\ Handed' /\ PolicySettles'
    <3>1. flow'["main"] = flow["main"] /\ UNCHANGED <<client, screen>>
      BY <1>5 DEF SettingsSaved, Applies, Rescheduled, IInv, Shape, Flow
    <3>2. screen.active => enabled' = On(saved')
      BY <1>5 DEF SettingsSaved, Applies
    <3>3. flow["main"].pc # "idle" => unheard'
      <4>1. flow["main"].pc # "idle" => flow["main"] # Idle
        BY DEF Idle
      <4>2. unheard' = (unheard \/ flow["main"] # Idle)
        BY <1>5 DEF SettingsSaved
      <4> QED
        BY <4>1, <4>2
    <3> QED
      BY <3>1, <3>2, <3>3 DEF Parted, Handed, PolicySettles, IInv
  <2>3. Secured' /\ Dialled' /\ NoLostRequest'
    BY <1>5, <2>1 DEF SettingsSaved, Applies, Rescheduled, Ticking, Request, Quiet,
       Idle, IInv, Shape, Flow, Pc, Outcome, Client, Screen, Status, Secured, Dialled,
       NoLostRequest, Waiting, AwaitsReady, AwaitsReply, AwaitsOther
  <2> QED
    BY <2>1, <2>2, <2>3 DEF IInv
<1>6. CASE SaveFails
  <2>1. Shape'
    BY <1>6, AttemptsAssumption DEF SaveFails, vars, IInv, Shape, Flow, Pc, Outcome,
       Client, Screen, Status
  <2>2. Parted' /\ Handed' /\ PolicySettles'
    BY <1>6, <2>1 DEF SaveFails, vars, IInv, Shape, Flow, Pc, Outcome, Client, Screen,
       Status, Parted, Handed, PolicySettles, settings
  <2>3. Secured' /\ Dialled' /\ NoLostRequest'
    BY <1>6, <2>1 DEF SaveFails, vars, IInv, Shape, Flow, Pc, Outcome, Client, Screen,
       Status, Secured, Dialled, NoLostRequest, Waiting, AwaitsReady, AwaitsReply,
       AwaitsOther
  <2> QED
    BY <2>1, <2>2, <2>3 DEF IInv
<1> QED
  BY <1>1, <1>2, <1>3, <1>4, <1>5, <1>6 DEF SettingsNext

\* Lemma: no step breaks the inductive invariant.
LEMMA NextInv == IInv /\ [Next]_allVars => IInv'
<1> SUFFICES ASSUME IInv, [Next]_allVars PROVE IInv'
  OBVIOUS
<1>1. CASE SessionNext /\ UNCHANGED settings
  BY <1>1, EventStep, ContinueStep DEF SessionNext, SocketEvent
<1>2. CASE SettingsNext
  BY <1>2, SettingsStep
<1>3. CASE UNCHANGED allVars
  BY <1>3 DEF allVars, vars, settings, IInv, Shape, Parted, Secured, Dialled, Handed,
     NoLostRequest, PolicySettles, Waiting
<1> QED
  BY <1>1, <1>2, <1>3 DEF Next

\* Lemma: the inductive invariant holds in every reachable state.
LEMMA SpecInv == Spec => []IInv
BY InitInv, NextInv, PTL DEF Spec, allVars

-----------------------------------------------------------------------------
\* Theorem: nobody is left waiting for the answer of a socket that is gone,
\* unless the user has left, across any number of reconnections.
THEOREM NothingLost == Spec => []NoLostRequest
<1>1. IInv => NoLostRequest
  BY DEF IInv
<1> QED
  BY <1>1, SpecInv, PTL

\* Theorem: once no dialog is open the session reconnects as the settings
\* say, unless a save has ended while connectTo was under way.
THEOREM SettingsSettle == Spec => []PolicySettles
<1>1. IInv => PolicySettles
  BY DEF IInv
<1> QED
  BY <1>1, SpecInv, PTL

-----------------------------------------------------------------------------
\* A host key was refused: the session is over, or about to be.
Refused == flow["main"].got = "sec" \/ flow["loop"].got = "sec"

Over == Refused \/ (client.explicit /\ client.sock # "open")

\* Lemma: what a continuation does to the socket.
LEMMA ContinueSocket ==
  ASSUME IInv, Continue
  PROVE  /\ client.explicit => client'.explicit
         /\ client.sock # "open" /\ client'.sock = "open" =>
              ~client.explicit /\ flow["loop"].pc = "delay" /\ flow["loop"].got # "-"
         /\ MainFails \/ LoopFails => client'.explicit /\ client'.sock \in {client.sock, "none"}
<1>1. client \in Client /\ screen \in Screen
  BY DEF IInv, Shape
<1>2. CASE MainFails
  BY <1>1, <1>2 DEF MainFails, LetGo, Disconnected, Client, IInv, Parted
<1>3. CASE LoopFails
  <2> DEFINE l == Locked(screen, "error")
  <2>1. l \in Screen /\ l.cleaned = screen.cleaned
    BY <1>1, LockedFields DEF Status
  <2>2. client' = [Notified(client, l) EXCEPT !.reconnecting = FALSE]
    BY <1>3 DEF LoopFails
  <2> HIDE DEF l
  <2>3. l.cleaned \/ client.notified => client.explicit
    BY <2>1 DEF IInv, Parted
  <2>4. /\ Notified(client, l) \in Client /\ Notified(client, l).explicit
        /\ Notified(client, l).sock \in {client.sock, "none"}
    BY <1>1, <2>1, <2>3, NotifiedFields
  <2> QED
    BY <2>2, <2>4 DEF Client
<1>4. CASE LoopDelayed /\ ~MainFails /\ ~LoopFails
  BY <1>1, <1>4 DEF LoopDelayed, Got, Client
<1>5. CASE (MainTerminal \/ LoopReady \/ LoopAgain) /\ ~MainFails /\ ~LoopFails
  BY <1>1, <1>5 DEF MainTerminal, LoopReady, LoopAgain, Client
<1>6. CASE client' = client /\ ~MainFails /\ ~LoopFails
  BY <1>6
<1>7. client' = client \/ MainTerminal \/ LoopReady \/ LoopAgain \/ LoopDelayed \/ MainFails
        \/ LoopFails
  BY DEF Continue, MainConnected, MainCached, MainDetected, MainShell, MainDone,
     RecoveryShell, RecoveryFails, RecoveryDone, PollDone
<1> QED
  BY <1>2, <1>3, <1>4, <1>5, <1>6, <1>7

\* Lemma: a disconnect is for good, and only the loop opens a socket.
LEMMA OpensOnce ==
  ASSUME IInv, [Next]_allVars
  PROVE  /\ client.explicit => client'.explicit
         /\ client.sock # "open" /\ client'.sock = "open" =>
              ~client.explicit /\ flow["loop"].pc = "delay" /\ flow["loop"].got # "-"
<1>1. client \in Client /\ screen \in Screen
  BY DEF IInv, Shape
<1>2. CASE client' = client
  BY <1>2
<1>3. CASE Continue
  BY <1>3, ContinueSocket
<1>4. CASE HostKeyBlocked \/ Ready \/ StateError \/ SocketError
  BY <1>1, <1>4 DEF HostKeyBlocked, Ready, StateError, SocketError, Client
<1>5. CASE ClosedUnexpectedly
  <2>1. ~client.explicit /\ client'.sock = "none"
    BY <1>1, <1>5 DEF ClosedUnexpectedly, Client
  <2> QED
    BY <2>1
<1>6. CASE \E normal \in BOOLEAN : ClosedForGood(normal)
  <2> DEFINE c == [client EXCEPT !.sock = "none"]
  <2>1. c \in Client /\ c.sock = "none" /\ c.explicit = client.explicit
          /\ c.notified = client.notified
    BY <1>1 DEF Client
  <2>2. client' = c \/ client' = Notified(c, screen)
    BY <1>6 DEF ClosedForGood
  <2> HIDE DEF c
  <2>3. screen.cleaned \/ c.notified => c.explicit
    BY <2>1 DEF IInv, Parted
  <2>4. Notified(c, screen).explicit /\ Notified(c, screen).sock \in {c.sock, "none"}
    BY <1>1, <2>1, <2>3, NotifiedFields
  <2> QED
    BY <2>1, <2>2, <2>4
<1>7. CASE Leave
  BY <1>1, <1>7 DEF Leave, LetGo, Disconnected, Client
<1>8. \/ client' = client \/ Continue \/ HostKeyBlocked \/ Ready \/ StateError \/ SocketError
      \/ ClosedUnexpectedly \/ (\E normal \in BOOLEAN : ClosedForGood(normal)) \/ Leave
  BY DEF Next, SessionNext, SocketEvent, SettingsNext, Reply, Other, PollTimer,
     OpenSettings, Change, CancelSettings, SaveSettings, SettingsSaved, SaveFails,
     Applies, vars, allVars
<1> QED
  BY <1>2, <1>3, <1>4, <1>5, <1>6, <1>7, <1>8

\* Theorem: once the user has left, or the session was given up, no socket is
\* opened any more.
THEOREM NeverReopened == Spec => NoReopen
<1>1. IInv /\ [Next]_allVars =>
        [client.sock # "open" /\ client'.sock = "open" => ~client.explicit]_vars
  BY OpensOnce
<1> QED
  BY <1>1, SpecInv, PTL DEF Spec, NoReopen, allVars

\* Lemma: a refused host key leads to the end, and the end is for good.
LEMMA OverStays == IInv /\ Over /\ [Next]_allVars => Over'
<1> SUFFICES ASSUME IInv, Over, [Next]_allVars PROVE Over'
  OBVIOUS
<1>1. CASE client.explicit /\ client.sock # "open"
  BY <1>1, OpensOnce DEF Over
<1>2. CASE Refused
  <2>1. client.sock # "open" /\ ~(flow["loop"].pc = "delay" /\ flow["loop"].got # "-")
    BY <1>2 DEF Refused, IInv, Secured
  <2>2. flow["main"].got = "sec" => flow["main"].pc \notin {"charts", "cached"}
    BY DEF IInv, Secured, AwaitsReady, AwaitsReply
  <2>3. CASE MainFails \/ LoopFails
    <3>1. Continue
      BY <2>3 DEF Continue
    <3> QED
      BY <2>1, <2>3, <3>1, ContinueSocket DEF Over, IInv, Shape, Client
  <2>4. CASE UNCHANGED allVars
    BY <1>2, <2>4 DEF allVars, vars, Over, Refused
  <2>5. CASE MainConnected \/ MainCached \/ MainDetected \/ MainTerminal \/ MainShell \/ MainDone
    <3>1. flow["loop"].got = "sec"
      BY <1>2, <2>2, <2>5 DEF Refused, MainConnected, MainCached, MainDetected,
         MainTerminal, MainShell, MainDone, Got, Ok
    <3>2. flow'["loop"] = flow["loop"]
      BY <2>5 DEF MainConnected, MainCached, MainDetected, MainTerminal, MainShell,
         MainDone, IInv, Shape, Flow
    <3> QED
      BY <3>1, <3>2 DEF Over, Refused
  <2>6. CASE LoopDelayed \/ LoopReady \/ LoopAgain
    <3>1. flow["main"].got = "sec"
      BY <1>2, <2>1, <2>6 DEF Refused, LoopDelayed, LoopReady, LoopAgain, Got, Ok,
         Exhausted
    <3>2. flow'["main"] = flow["main"]
      BY <2>6 DEF LoopDelayed, LoopReady, LoopAgain, IInv, Shape, Flow
    <3> QED
      BY <3>1, <3>2 DEF Over, Refused
  <2>7. CASE RecoveryShell \/ RecoveryFails \/ RecoveryDone \/ PollDone
    <3>1. flow'["main"] = flow["main"] /\ flow'["loop"] = flow["loop"]
      BY <2>7 DEF RecoveryShell, RecoveryFails, RecoveryDone, PollDone, IInv, Shape,
         Flow
    <3> QED
      BY <1>2, <3>1 DEF Over, Refused
  <2>8. ~Quiet
    BY <1>2 DEF Refused, Quiet, Flow
  <2>9. Continue \/ UNCHANGED allVars
    BY <2>8 DEF Next, SessionNext, SocketEvent, SettingsNext, HostKeyBlocked, Ready,
       StateError, SocketError, ClosedUnexpectedly, ClosedForGood, Leave, Reply, Other,
       PollTimer, OpenSettings, Change, CancelSettings, SaveSettings, SettingsSaved,
       SaveFails, Applies
  <2> QED
    BY <2>3, <2>4, <2>5, <2>6, <2>7, <2>9 DEF Continue
<1> QED
  BY <1>1, <1>2 DEF Over

\* Theorem: when a refused or changed host key has rejected what connectTo or the
\* reconnection loop waits for, no socket is opened any more.
THEOREM NeverRetried == Spec => NoRetryAfterBlock
<1>1. IInv /\ Refused => Over
  BY DEF Over
<1>2. IInv /\ Over => client.sock # "open"
  BY DEF Over, Refused, IInv, Secured
<1> QED
  BY <1>1, <1>2, OverStays, SpecInv, PTL DEF Spec, NoRetryAfterBlock, Refused, allVars
=============================================================================
