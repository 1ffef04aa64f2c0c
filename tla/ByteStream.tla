----------------------------- MODULE ByteStream -----------------------------
(***************************************************************************)
(* What the transports under the SSH engine promise its reader: the chunks *)
(* the server sent, each once and in order, then the end.  A reader that   *)
(* is waiting for data when the server closes cleanly has had everything;  *)
(* one that is not (the connection is not registered yet, or a host key is *)
(* being verified) may lose what it has not taken.                         *)
(***************************************************************************)
EXTENDS Naturals, Sequences

VARIABLES
  sent,      \* chunks the server has sent
  why,       \* what closed the stream: "" while it is open
  waiting,   \* the reader waits for data
  got,       \* the chunks the reader has taken
  over       \* the reader has seen the end

svars == <<sent, why, waiting, got, over>>

Chunks(n) == [i \in 1..n |-> i]

Init == sent = 0 /\ why = "" /\ ~waiting /\ got = <<>> /\ ~over

Send == sent' \in {sent, sent + 1} /\ UNCHANGED <<why, waiting, got, over>>

Close ==
  /\ why = "" /\ why' \in {"clean", "broken", "own"}
  /\ waiting /\ why' = "clean" => Len(got) = sent
  /\ UNCHANGED <<sent, got>>
  /\ (over' /\ ~waiting') \/ (over' = over /\ waiting' = waiting)

Take ==
  /\ ~over /\ \E n \in Len(got)..sent : got' = Chunks(n)
  /\ waiting' \in BOOLEAN
  /\ UNCHANGED <<sent, why, over>>

\* Before the stream closes nothing ends the reader; its last step takes nothing.
Finish == ~over /\ why # "" /\ over' /\ ~waiting' /\ UNCHANGED <<sent, why, got>>

Next == Send \/ Close \/ Take \/ Finish

StreamSpec == Init /\ [][Next]_svars
=============================================================================
