------------------------------ MODULE TaskQueue ------------------------------
(***************************************************************************)
(* What an EventLoop promises the code that posts functors to it, with no  *)
(* flag, pipe, batch or thread in sight.                                   *)
(*                                                                         *)
(* A functor runs at most once, and in the order of the posts until a stop *)
(* functor begins.  From then on functors may overtake each other.  When   *)
(* the drain ends the functors still queued are promised; the queue closes *)
(* only after all of them have run, and nothing runs afterwards.           *)
(***************************************************************************)
EXTENDS Naturals, Sequences, SequencesExt

CONSTANTS Tasks, Stops

VARIABLES queue, ran, phase, promised

vars == <<queue, ran, phase, promised>>

Init == queue = <<>> /\ ran = <<>> /\ phase = "fifo" /\ promised = {}

Fresh(f) == f \notin ToSet(queue) /\ f \notin ToSet(ran)

Post(f) ==
  /\ Fresh(f)
  /\ queue' = Append(queue, f)
  /\ UNCHANGED <<ran, phase, promised>>

\* RunInLoop on the loop's own thread.
RunDirect(f) ==
  /\ phase = "fifo" /\ Fresh(f)
  /\ ran' = Append(ran, f)
  /\ UNCHANGED <<queue, phase, promised>>

Run(i) ==
  /\ phase = "fifo" => i = 1
  /\ phase # "closed"
  /\ ran' = Append(ran, queue[i])
  /\ queue' = RemoveAt(queue, i)
  /\ phase' = IF queue[i] \in Stops THEN "draining" ELSE phase
  /\ promised' = promised \ {queue[i]}

\* The end of a StopInLoop: everything that is in the queue will still run.
Promise ==
  /\ phase = "draining"
  /\ promised' = ToSet(queue)
  /\ UNCHANGED <<queue, ran, phase>>

Close ==
  /\ phase = "draining"
  /\ promised = {}
  /\ phase' = "closed"
  /\ UNCHANGED <<queue, ran, promised>>

Next ==
  \/ \E f \in Tasks \cup Stops : Post(f)
  \/ \E f \in Tasks : RunDirect(f)
  \/ \E i \in DOMAIN queue : Run(i)
  \/ Promise \/ Close

\* A queue that stays open runs what is in it.
Fairness == WF_vars((\E i \in DOMAIN queue : Run(i)) \/ Close)

Spec == Init /\ [][Next]_vars
FairSpec == Spec /\ Fairness
=============================================================================
