------------------------------ MODULE Connection ------------------------------
(***************************************************************************)
(* What a TCPConn promises its user: the connection is announced, carries  *)
(* a stream of bytes in order, and is reported as lost once.               *)
(***************************************************************************)
EXTENDS Naturals, Sequences

CONSTANTS Messages, MsgLen

VARIABLES
  phase,     \* "new", "up", "down" (the loss is being reported) or "gone"
  stream,    \* the bytes taken over from the user
  delivered  \* how many of them the network has taken

vars == <<phase, stream, delivered>>

Init == phase = "new" /\ stream = <<>> /\ delivered = 0

Up == phase = "new" /\ phase' = "up" /\ UNCHANGED <<stream, delivered>>

\* A message is taken over, and as much of the stream as the network takes
\* at once is delivered.
Take(m) ==
  /\ phase \in {"up", "down"}
  /\ stream' = stream \o [i \in 1..MsgLen |-> <<m, i>>]
  /\ delivered' \in delivered..Len(stream')
  /\ UNCHANGED phase

Deliver ==
  /\ phase = "up"
  /\ delivered' \in (delivered + 1)..Len(stream)
  /\ UNCHANGED <<phase, stream>>

Down == phase = "up" /\ phase' = "down" /\ UNCHANGED <<stream, delivered>>

Gone == phase = "down" /\ phase' = "gone" /\ UNCHANGED <<stream, delivered>>

Next == Up \/ (\E m \in Messages : Take(m)) \/ Deliver \/ Down \/ Gone

\* Unless the connection is lost, what was taken over is delivered; and once
\* the loss is being reported the connection goes away.
Fairness == WF_vars(Deliver) /\ WF_vars(Gone)
Spec == Init /\ [][Next]_vars
FairSpec == Spec /\ Fairness
=============================================================================
