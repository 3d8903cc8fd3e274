--------------------------- MODULE TCPServerProofs ---------------------------
(***************************************************************************)
(* That a TCPServer holds its live connections and is clean when it says   *)
(* kStopped, for any number of connections.                                *)
(***************************************************************************)
EXTENDS TCPServerProps, WellFoundedInduction, TLAPS

Functors == {Functor("accept"), Functor("stop")} \cup {RemoveFunctor(c) : c \in Conns}

\* A functor of kind k is pending in the listening loop.
Queued(k) == \E i \in 1..Len(queue) : queue[i].k = k
RemoveQueued(c) == \E i \in 1..Len(queue) : queue[i] = RemoveFunctor(c)

\* The connection that HandleNewConn has made and not entered yet.
Entering == IF lpc = "insert" THEN {accepted} ELSE {}

\* Only connections that were accepted have any state.
OnlyAccepted ==
  /\ connections \subseteq 1..accepted /\ ended \subseteq 1..accepted
  /\ rest \subseteq 1..accepted /\ (lpc = "insert" => accepted > 0)
  /\ \A c \in Conns : cstatus[c] # "kDisconnected" \/ cqueue[c] # <<>> => c <= accepted

\* Every accepted connection is held or has ended, and those that have ended are
\* about to be removed.
HeldInv ==
  /\ \A c \in 1..accepted : c \in connections \cup ended \cup Entering
  /\ \A c \in Conns : cpc[c] # "idle" \/ RemoveQueued(c) => c \in ended
  /\ ~inline => \A c \in ended \cap (connections \cup Entering) :
                  cpc[c] = "down" \/ RemoveQueued(c)

\* The listener comes and goes with the functors of Accept and Stop: the one is run
\* before the other, and each of them once.
Early == mpc \in {"new", "inited", "pooled", "running"}
Posted == mpc \in {"locked", "waiting", "done"}

QueueOrder ==
  \A i, j \in 1..Len(queue) :
    /\ queue[i].k = queue[j].k /\ queue[i].k \in {"accept", "stop"} => i = j
    /\ queue[i].k = "accept" /\ queue[j].k = "stop" => i < j

ListenInv ==
  /\ Early => /\ queue = <<>> /\ lpc = "idle" /\ connections = {} /\ accepted = 0
              /\ listener = IF mpc = "new" THEN "null" ELSE "listening"
              /\ mpc = "running" => status = "kRunning"
  /\ mpc = "started" => status = "kRunning"
  /\ listener = "null" <=> mpc = "new" \/ (Posted /\ ~Queued("stop") /\ lpc # "stop")
  /\ Queued("accept") => listener = "listening" /\ lpc # "stop"
  /\ lpc = "insert" => listener = "accepting"
  /\ Queued("stop") => /\ Posted /\ caller # "loop"
                       /\ lpc \in {"idle", "insert", "removepool"}
  /\ QueueOrder
  /\ lpc \in {"stop", "stoppool", "visit", "close", "closepost", "notify", "crashed"}
       => Posted
  /\ caller = "loop" => mpc \notin {"post", "locked", "waiting"}

\* The end of the server: the pool is stopped when no connection is left, and the
\* callback is called then if it was there.
StopInv ==
  /\ status \in {"kStopping", "kStopped"} <=> Posted \/ mpc = "post"
  /\ status = "kStopped" <=> pool = "stopped"
  /\ lpc = "removepool" => status = "kStopping" /\ connections = {}
  /\ lpc = "stoppool" => connections = {}
  /\ lpc \in {"close", "closepost"} => rest # {}
  /\ stoppedCb =>
       Posted /\ listener = "null" /\ lpc \in {"idle", "notify", "removepool"}
  /\ cbCalls \in {0, 1}
  /\ cbCalls = 1 => /\ status = "kStopped" /\ connections = {} /\ listener = "null"
                    /\ lpc \in {"idle", "notify"}
  /\ caller = "loop" /\ status = "kStopped" =>
       connections = {} /\ lpc # "stop" /\ (~inline => cbCalls = 1)
  /\ caller = "loop" /\ status = "kStopping" /\ lpc \in {"idle", "notify", "removepool"}
       => stoppedCb

IInv == TypeOK /\ OnlyAccepted /\ HeldInv /\ ListenInv /\ StopInv

-----------------------------------------------------------------------------
(* The queue of the listening loop and the entries it visits.              *)

\* The entry that StopInLoop visits is one of those that are left.
LEMMA FirstIn ==
  ASSUME rest \subseteq Conns, rest # {}
  PROVE  First \in rest
<1>1. rest \subseteq Nat
  BY ServerAssumption DEF Conns
<1> DEFINE R == {ss \in Nat \X Nat : ss[1] < ss[2]}
<1>2. IsWellFoundedOn(R, Nat)
  BY NatLessThanWellFounded, Zenon DEF OpToRel
<1>3. \A c, d \in Nat : <<d, c>> \notin R => c <= d
  OBVIOUS
<1> HIDE DEF R
<1>4. \E c \in rest : \A d \in rest : ~(<<d, c>> \in R)
  BY <1>1, <1>2, WFMin, Zenon
<1>5. \E c \in rest : \A d \in rest : c <= d
  BY <1>1, <1>3, <1>4, Zenon
<1> QED  BY <1>5, Zenon DEF First

\* The functors and their kinds.
LEMMA FunctorTypes ==
  /\ \A k \in {"accept", "stop"} : Functor(k) \in Functors /\ Functor(k).k = k
  /\ \A c \in Conns : /\ RemoveFunctor(c) \in Functors /\ RemoveFunctor(c).k = "remove"
                      /\ RemoveFunctor(c).c = c
  /\ \A f \in Functors : f.k = "remove" => f.c \in Conns /\ f = RemoveFunctor(f.c)
  /\ \A k \in {"accept", "stop"}, c \in Conns : Functor(k) # RemoveFunctor(c)
<1>1. \A k : Functor(k).k = k  BY Zenon DEF Functor
<1>2. \A c : RemoveFunctor(c).k = "remove" /\ RemoveFunctor(c).c = c  BY Zenon DEF RemoveFunctor
<1> QED  BY <1>1, <1>2 DEF Functors

\* A functor is posted.
LEMMA Appended ==
  ASSUME queue \in Seq(Functors), NEW f \in Functors, queue' = Append(queue, f)
  PROVE  /\ queue' \in Seq(Functors)
         /\ \A k : Queued(k)' <=> Queued(k) \/ f.k = k
         /\ \A c : RemoveQueued(c)' <=> RemoveQueued(c) \/ f = RemoveFunctor(c)
         /\ QueueOrder /\ f.k = "remove" => QueueOrder'
         /\ QueueOrder /\ f.k = "stop" /\ ~Queued("stop") => QueueOrder'
         /\ queue = <<>> => QueueOrder'
<1>1. /\ queue' \in Seq(Functors) /\ Len(queue) \in Nat /\ Len(queue') = Len(queue) + 1
      /\ queue'[Len(queue) + 1] = f /\ \A i \in 1..Len(queue) : queue'[i] = queue[i]
  OBVIOUS
<1>2. 1..Len(queue') = (1..Len(queue)) \cup {Len(queue) + 1}
  BY <1>1
<1>3. \A k : Queued(k)' <=> Queued(k) \/ f.k = k
  BY <1>1, <1>2, Zenon DEF Queued
<1>4. \A c : RemoveQueued(c)' <=> RemoveQueued(c) \/ f = RemoveFunctor(c)
  BY <1>1, <1>2, Zenon DEF RemoveQueued
<1>5. QueueOrder /\ f.k = "remove" => QueueOrder'
  BY <1>1, <1>2 DEF QueueOrder
<1>6. QueueOrder /\ f.k = "stop" /\ ~Queued("stop") => QueueOrder'
  BY <1>1, <1>2 DEF QueueOrder, Queued
<1>7. queue = <<>> => QueueOrder'
  BY <1>1, <1>2 DEF QueueOrder
<1> QED  BY <1>1, <1>3, <1>4, <1>5, <1>6, <1>7, Zenon

\* The functor at the head is taken out.
LEMMA Popped ==
  ASSUME queue \in Seq(Functors), queue # <<>>, queue' = Tail(queue)
  PROVE  /\ queue' \in Seq(Functors) /\ Head(queue) \in Functors
         /\ \A k : Queued(k) <=> Queued(k)' \/ Head(queue).k = k
         /\ \A c : RemoveQueued(c) <=> RemoveQueued(c)' \/ Head(queue) = RemoveFunctor(c)
         /\ QueueOrder => QueueOrder'
         /\ \A k \in {"accept", "stop"} :
              QueueOrder /\ Head(queue).k = k => ~Queued(k)'
         /\ QueueOrder /\ Head(queue).k = "stop" => ~Queued("accept")'
<1>1. /\ queue' \in Seq(Functors) /\ Len(queue) \in Nat \ {0}
      /\ Len(queue') = Len(queue) - 1 /\ Head(queue) = queue[1] /\ Head(queue) \in Functors
      /\ \A i \in 1..Len(queue') : queue'[i] = queue[i + 1] /\ i + 1 \in 1..Len(queue)
  OBVIOUS
<1>2. \A j \in 1..Len(queue) : j = 1 \/ (j - 1 \in 1..Len(queue') /\ queue'[j - 1] = queue[j])
  BY <1>1
<1>3. \A k : Queued(k) <=> Queued(k)' \/ Head(queue).k = k
  BY <1>1, <1>2 DEF Queued
<1>4. \A c : RemoveQueued(c) <=> RemoveQueued(c)' \/ Head(queue) = RemoveFunctor(c)
  BY <1>1, <1>2 DEF RemoveQueued
<1>5. QueueOrder => QueueOrder'
  BY <1>1 DEF QueueOrder
<1>6. \A k \in {"accept", "stop"} : QueueOrder /\ Head(queue).k = k => ~Queued(k)'
  BY <1>1 DEF QueueOrder, Queued
<1>7. QueueOrder /\ Head(queue).k = "stop" => ~Queued("accept")'
  BY <1>1 DEF QueueOrder, Queued
<1> QED  BY <1>1, <1>3, <1>4, <1>5, <1>6, <1>7, Zenon

-----------------------------------------------------------------------------
(* The parts of the invariant that a step may leave alone.                 *)

\* The queue is not touched.
LEMMA QueueFrame ==
  ASSUME UNCHANGED queue
  PROVE  /\ \A c : RemoveQueued(c)' <=> RemoveQueued(c)
         /\ \A k : Queued(k)' <=> Queued(k)
         /\ QueueOrder' <=> QueueOrder
BY DEF RemoveQueued, Queued, QueueOrder

\* No connection is accepted or changes, and StopInLoop does not begin.
LEMMA OnlyFrame ==
  ASSUME OnlyAccepted, UNCHANGED <<connections, accepted, ended, cstatus, cqueue>>,
         rest' \subseteq rest, lpc' = "insert" => lpc = "insert"
  PROVE  OnlyAccepted'
BY Zenon DEF OnlyAccepted

\* No connection is entered, removed or closed.
LEMMA HeldFrame ==
  ASSUME HeldInv, UNCHANGED <<connections, accepted, ended, cpc, inline>>,
         lpc' = "insert" <=> lpc = "insert",
         \A c : RemoveQueued(c)' <=> RemoveQueued(c)
  PROVE  HeldInv'
BY Zenon DEF HeldInv, Entering

\* No connection is accepted, entered, removed or changed.
LEMMA ConnFrame ==
  ASSUME IInv, UNCHANGED <<connections, accepted, connVars, inline>>,
         rest' \subseteq rest, lpc' = "insert" <=> lpc = "insert",
         \A c : RemoveQueued(c)' <=> RemoveQueued(c)
  PROVE  OnlyAccepted' /\ HeldInv'
<1>1. OnlyAccepted'
  BY OnlyFrame, Zenon DEF IInv, connVars
<1>2. HeldInv'
  BY HeldFrame, Zenon DEF IInv, connVars
<1> QED  BY <1>1, <1>2, Zenon

-----------------------------------------------------------------------------
(* The thread that starts and stops the server.                            *)

\* Init and Start.
LEMMA StartKeeps ==
  ASSUME IInv, ServerInit \/ StartPool \/ StartRunning
  PROVE  IInv'
<1>1. /\ UNCHANGED <<connections, accepted, stoppedCb, loopVars, caller, inline, connVars,
                     skipped, cbCalls>>
      /\ UNCHANGED queue /\ UNCHANGED lpc /\ UNCHANGED rest
  BY Zenon DEF ServerInit, StartPool, StartRunning, loopVars
<1>2. /\ \A c : RemoveQueued(c)' <=> RemoveQueued(c)
      /\ \A k : Queued(k)' <=> Queued(k)
      /\ QueueOrder' <=> QueueOrder
  BY <1>1, QueueFrame, Zenon
<1>3. TypeOK'
  BY <1>1 DEF ServerInit, StartPool, StartRunning, IInv, TypeOK, connVars
<1>4. OnlyAccepted' /\ HeldInv'
  BY <1>1, <1>2, ConnFrame, Zenon
<1>5. ListenInv'
  BY <1>1, <1>2, Zenon DEF ServerInit, StartPool, StartRunning, IInv, ListenInv, Early, Posted
<1>6. StopInv'
  BY <1>1, Zenon DEF ServerInit, StartPool, StartRunning, IInv, StopInv, ListenInv, Early, Posted
<1> QED  BY <1>3, <1>4, <1>5, <1>6, Zenon DEF IInv

\* Accept posts AttachListener.
LEMMA AcceptKeeps ==
  ASSUME IInv, Accept
  PROVE  IInv'
<1>1. /\ mpc = "running" /\ mpc' = "started" /\ queue' = Append(queue, Functor("accept"))
      /\ UNCHANGED <<serverVars, lpc, rest, caller, inline, connVars, skipped, cbCalls>>
  BY Zenon DEF Accept
<1>2. queue \in Seq(Functors) /\ queue = <<>> /\ listener = "listening" /\ lpc = "idle"
      /\ status = "kRunning"
  BY <1>1, Zenon DEF IInv, TypeOK, Functors, ListenInv, Early
<1>3. Functor("accept") \in Functors /\ Functor("accept").k = "accept"
      /\ \A c \in Conns : Functor("accept") # RemoveFunctor(c)
  BY FunctorTypes, Zenon
<1>4. /\ queue' \in Seq(Functors) /\ QueueOrder'
      /\ \A k : Queued(k)' <=> Queued(k) \/ k = "accept"
      /\ \A c : RemoveQueued(c)' <=> RemoveQueued(c)
  <2>1. \A c : RemoveFunctor(c).k = "remove"
    BY Zenon DEF RemoveFunctor
  <2> QED  BY <1>1, <1>2, <1>3, <2>1, Appended, Zenon
<1>5. ~Queued("stop") /\ ~Queued("accept")
  BY <1>2 DEF Queued
<1>6. TypeOK'
  BY <1>1, <1>4 DEF IInv, TypeOK, Functors, serverVars, connVars
<1>7. OnlyAccepted' /\ HeldInv'
  BY <1>1, <1>4, ConnFrame, Zenon DEF serverVars
<1>8. ListenInv'
  BY <1>1, <1>2, <1>4, <1>5, Zenon DEF IInv, ListenInv, Early, Posted, serverVars
<1>9. StopInv'
  BY <1>1, Zenon DEF IInv, StopInv, Posted, serverVars
<1> QED  BY <1>6, <1>7, <1>8, <1>9, Zenon DEF IInv

\* Stop stores kStopping.
LEMMA StopKeeps ==
  ASSUME IInv, Stop
  PROVE  IInv'
<1>1. /\ mpc = "started" /\ status = "kRunning" /\ status' = "kStopping"
      /\ IF caller = "loop" THEN /\ lpc = "idle" /\ listener = "accepting"
                                 /\ lpc' = "stop" /\ mpc' = "done"
                            ELSE mpc' = "post" /\ UNCHANGED lpc
      /\ UNCHANGED <<listener, pool, connections, accepted, stoppedCb, rest, caller,
                     inline, connVars, skipped, cbCalls>>
      /\ UNCHANGED queue
  BY Zenon DEF Stop
<1>2. /\ \A c : RemoveQueued(c)' <=> RemoveQueued(c)
      /\ \A k : Queued(k)' <=> Queued(k)
      /\ QueueOrder' <=> QueueOrder
  BY <1>1, QueueFrame, Zenon
<1>3. TypeOK'
  BY <1>1 DEF IInv, TypeOK, connVars
<1>4. OnlyAccepted' /\ HeldInv'
  BY <1>1, <1>2, ConnFrame, Zenon
<1>5. ListenInv'
  BY <1>1, <1>2, Zenon DEF IInv, ListenInv, Early, Posted
<1>6. StopInv'
  BY <1>1, Zenon DEF IInv, StopInv, ListenInv, Early, Posted
<1> QED  BY <1>3, <1>4, <1>5, <1>6, Zenon DEF IInv

\* Stop posts StopInLoop.
LEMMA PostStopKeeps ==
  ASSUME IInv, PostStop
  PROVE  IInv'
<1>1. /\ mpc = "post" /\ mpc' = (IF caller = "waiting" THEN "locked" ELSE "done")
      /\ queue' = Append(queue, Functor("stop"))
      /\ UNCHANGED <<serverVars, lpc, rest, caller, inline, connVars, skipped, cbCalls>>
  BY Zenon DEF PostStop
<1>2. queue \in Seq(Functors) /\ QueueOrder /\ ~Queued("stop") /\ lpc # "stop"
  BY <1>1, Zenon DEF IInv, TypeOK, Functors, ListenInv, Posted
<1>3. Functor("stop") \in Functors /\ Functor("stop").k = "stop"
  BY FunctorTypes, Zenon
<1>4. /\ queue' \in Seq(Functors) /\ QueueOrder'
      /\ \A k : Queued(k)' <=> Queued(k) \/ k = "stop"
      /\ \A c : RemoveQueued(c)' <=> RemoveQueued(c)
  <2>1. \A c : RemoveFunctor(c).k = "remove"
    BY Zenon DEF RemoveFunctor
  <2> QED  BY <1>1, <1>2, <1>3, <2>1, Appended, Zenon
<1>5. TypeOK'
  BY <1>1, <1>4 DEF IInv, TypeOK, Functors, serverVars, connVars
<1>6. OnlyAccepted' /\ HeldInv'
  BY <1>1, <1>4, ConnFrame, Zenon DEF serverVars
<1>7. ListenInv'
  BY <1>1, <1>2, <1>4, Zenon DEF IInv, TypeOK, ListenInv, Early, Posted, serverVars
<1>8. StopInv'
  BY <1>1, Zenon DEF IInv, StopInv, Posted, serverVars
<1> QED  BY <1>5, <1>6, <1>7, <1>8, Zenon DEF IInv

\* The caller waits.
LEMMA CondWaitKeeps ==
  ASSUME IInv, CondWait
  PROVE  IInv'
<1>1. /\ mpc = "locked" /\ mpc' = "waiting"
      /\ UNCHANGED <<serverVars, lpc, rest, caller, inline, connVars, skipped, cbCalls>>
      /\ UNCHANGED queue
  BY Zenon DEF CondWait, loopVars
<1>2. /\ \A c : RemoveQueued(c)' <=> RemoveQueued(c)
      /\ \A k : Queued(k)' <=> Queued(k)
      /\ QueueOrder' <=> QueueOrder
  BY <1>1, QueueFrame, Zenon
<1>3. TypeOK'
  BY <1>1 DEF IInv, TypeOK, serverVars, connVars
<1>4. OnlyAccepted' /\ HeldInv'
  BY <1>1, <1>2, ConnFrame, Zenon DEF serverVars
<1>5. ListenInv'
  BY <1>1, <1>2, Zenon DEF IInv, ListenInv, Early, Posted, serverVars
<1>6. StopInv'
  BY <1>1, Zenon DEF IInv, StopInv, Posted, serverVars
<1> QED  BY <1>3, <1>4, <1>5, <1>6, Zenon DEF IInv

-----------------------------------------------------------------------------
(* The listening loop.                                                     *)

\* A functor is at the head of the queue, and is taken out.
LEMMA ReadyFacts ==
  ASSUME IInv, NEW k \in {"accept", "stop", "remove"}, Ready(k), queue' = Tail(queue)
  PROVE  /\ lpc = "idle" /\ queue' \in Seq(Functors) /\ QueueOrder' /\ Queued(k)
         /\ Head(queue) \in Functors /\ Head(queue).k = k
         /\ \A j \in {"accept", "stop"} : Queued(j)' <=> Queued(j) /\ j # k
         /\ k = "stop" => ~Queued("accept")
         /\ k # "remove" => \A c : RemoveQueued(c)' <=> RemoveQueued(c)
         /\ \A c : RemoveQueued(c) => RemoveQueued(c)' \/ c = Head(queue).c
         /\ \A c : RemoveQueued(c)' => RemoveQueued(c)
<1>1. /\ lpc = "idle" /\ queue \in Seq(Functors) /\ queue # <<>> /\ Head(queue).k = k
      /\ QueueOrder
  BY Zenon DEF Ready, IInv, TypeOK, Functors, ListenInv
<1>2. /\ queue' \in Seq(Functors) /\ Head(queue) \in Functors
      /\ \A j : Queued(j) <=> Queued(j)' \/ Head(queue).k = j
      /\ \A c : RemoveQueued(c) <=> RemoveQueued(c)' \/ Head(queue) = RemoveFunctor(c)
      /\ QueueOrder'
      /\ \A j \in {"accept", "stop"} : Head(queue).k = j => ~Queued(j)'
      /\ Head(queue).k = "stop" => ~Queued("accept")'
  BY <1>1, Popped, Zenon
<1>3. \A c : RemoveFunctor(c).k = "remove" /\ RemoveFunctor(c).c = c
  BY Zenon DEF RemoveFunctor
<1>4. \A j \in {"accept", "stop"} : Queued(j)' <=> Queued(j) /\ j # k
  BY <1>1, <1>2, Zenon
<1>5. Queued(k) /\ (k = "stop" => ~Queued("accept"))
  BY <1>1, <1>2, Zenon
<1>6. \A c : RemoveQueued(c) => RemoveQueued(c)' \/ (k = "remove" /\ c = Head(queue).c)
  BY <1>1, <1>2, <1>3, Zenon
<1>7. \A c : RemoveQueued(c)' => RemoveQueued(c)
  BY <1>2, Zenon
<1> QED  BY <1>1, <1>2, <1>4, <1>5, <1>6, <1>7, Zenon

\* The listening socket is attached.
LEMMA AttachKeeps ==
  ASSUME IInv, AttachListener
  PROVE  IInv'
<1>1. /\ Ready("accept") /\ queue' = Tail(queue) /\ listener' = "accepting"
      /\ UNCHANGED <<status, pool, connections, accepted, stoppedCb, lpc, rest, mpc,
                     caller, inline, connVars, skipped, cbCalls>>
  BY Zenon DEF AttachListener, callVars
<1>2. /\ lpc = "idle" /\ queue' \in Seq(Functors) /\ QueueOrder' /\ Queued("accept")
      /\ \A c : RemoveQueued(c)' <=> RemoveQueued(c)
      /\ ~Queued("accept")' /\ (Queued("stop")' <=> Queued("stop"))
  BY <1>1, ReadyFacts, Zenon
<1>3. listener = "listening" /\ ~Early
  BY <1>2 DEF IInv, ListenInv, Queued
<1>4. TypeOK'
  BY <1>1, <1>2 DEF IInv, TypeOK, Functors, connVars
<1>5. OnlyAccepted' /\ HeldInv'
  BY <1>1, <1>2, ConnFrame, Zenon
<1>6. ListenInv'
  BY <1>1, <1>2, <1>3, Zenon DEF IInv, ListenInv, Early, Posted
<1>7. StopInv'
  BY <1>1, <1>3, Zenon DEF IInv, StopInv, Posted
<1> QED  BY <1>4, <1>5, <1>6, <1>7, Zenon DEF IInv

\* What holds while connections are accepted.
LEMMA AcceptingFacts ==
  ASSUME IInv, lpc = "idle", listener = "accepting", accepted < MaxConns
  PROVE  /\ accepted + 1 \in Conns /\ accepted + 1 \in 1..(accepted + 1)
         /\ accepted \in Nat /\ ~Early /\ ~stoppedCb /\ cbCalls = 0
         /\ caller = "loop" => status \notin {"kStopping", "kStopped"}
         /\ cqueue[accepted + 1] = <<>> /\ cstatus[accepted + 1] = "kDisconnected"
         /\ accepted + 1 \notin ended
<1>1. accepted \in Nat /\ accepted + 1 \in Conns
  BY ServerAssumption DEF IInv, TypeOK, Conns
<1>2. ~Early /\ ~stoppedCb /\ cbCalls = 0
  BY Zenon DEF IInv, ListenInv, StopInv, Early
<1>3. caller = "loop" => status \notin {"kStopping", "kStopped"}
  BY Zenon DEF IInv, ListenInv, StopInv, Posted
<1>4. /\ cqueue[accepted + 1] = <<>> /\ cstatus[accepted + 1] = "kDisconnected"
      /\ accepted + 1 \notin ended
  BY <1>1 DEF IInv, OnlyAccepted, TypeOK
<1> QED  BY <1>1, <1>2, <1>3, <1>4

\* A connection is accepted, in either way.
LEMMA NewConnKeeps ==
  ASSUME IInv, HandleNewConn \/ HandleNewConnInline
  PROVE  IInv'
<1>1. /\ lpc = "idle" /\ listener = "accepting" /\ accepted < MaxConns
      /\ status # "kStopping" /\ accepted' = accepted + 1 /\ lpc' = "insert"
      /\ UNCHANGED <<status, listener, pool, connections, stoppedCb, rest, mpc, caller,
                     inline, cpc, skipped, cbCalls>>
      /\ UNCHANGED queue
  BY Zenon DEF HandleNewConn, HandleNewConnInline, callVars
<1>2. /\ accepted + 1 \in Conns /\ accepted + 1 \in 1..(accepted + 1)
      /\ accepted \in Nat /\ ~Early /\ ~stoppedCb /\ cbCalls = 0
      /\ caller = "loop" => status \notin {"kStopping", "kStopped"}
      /\ accepted + 1 \notin ended
  BY <1>1, AcceptingFacts, Zenon
<1>3. /\ \A c : RemoveQueued(c)' <=> RemoveQueued(c)
      /\ \A k : Queued(k)' <=> Queued(k)
      /\ QueueOrder' <=> QueueOrder
  BY <1>1, QueueFrame, Zenon
<1>4. /\ cstatus' \in [Conns -> {"kDisconnected", "kConnected", "kDisconnecting"}]
      /\ cqueue' \in [Conns -> Seq({"attach", "close"})]
      /\ \A c \in Conns : c # accepted + 1 => cstatus'[c] = cstatus[c] /\ cqueue'[c] = cqueue[c]
      /\ ended' = ended \/ (inline /\ ended' = ended \cup {accepted + 1})
  <2>1. <<"attach">> \in Seq({"attach", "close"})
    OBVIOUS
  <2>2. CASE HandleNewConn
    BY <1>1, <1>2, <2>1, <2>2, Zenon DEF HandleNewConn, IInv, TypeOK
  <2>3. CASE HandleNewConnInline
    BY <1>1, <1>2, <2>3, Zenon DEF HandleNewConnInline, IInv, TypeOK
  <2> QED  BY <2>2, <2>3, Zenon
<1>5. accepted' \in 0..MaxConns /\ ended' \subseteq Conns
  BY <1>1, <1>2, <1>4, ServerAssumption DEF IInv, TypeOK
<1>6. TypeOK'
  BY <1>1, <1>4, <1>5 DEF IInv, TypeOK
<1>7. OnlyAccepted'
  <2>1. \A S : S \subseteq 1..accepted => S \subseteq 1..(accepted + 1)
    BY <1>2
  <2>2. connections' \subseteq 1..accepted' /\ rest' \subseteq 1..accepted' /\ accepted' > 0
    BY <1>1, <1>2, <2>1 DEF IInv, OnlyAccepted
  <2>3. ended' \subseteq 1..accepted'
    BY <1>1, <1>2, <1>4, <2>1, Zenon DEF IInv, OnlyAccepted
  <2>4. \A c \in Conns : c <= accepted \/ c = accepted + 1 => c <= accepted + 1
    BY <1>2 DEF Conns
  <2>5. \A c \in Conns :
          cstatus'[c] # "kDisconnected" \/ cqueue'[c] # <<>> => c <= accepted'
    BY <1>1, <1>4, <2>4, Zenon DEF IInv, OnlyAccepted
  <2> QED  BY <2>2, <2>3, <2>5, Zenon DEF OnlyAccepted
<1>8. HeldInv'
  <2>1. \A c \in 1..(accepted + 1) : c \in 1..accepted \/ c = accepted + 1
    BY <1>2
  <2>2. Entering = {} /\ Entering' = {accepted + 1}
    BY <1>1, Zenon DEF Entering
  <2> QED  BY <1>1, <1>2, <1>3, <1>4, <2>1, <2>2, Zenon DEF IInv, HeldInv
<1>9. ListenInv'
  BY <1>1, <1>2, <1>3, Zenon DEF IInv, ListenInv, Early, Posted
<1>10. StopInv'
  BY <1>1, <1>2, Zenon DEF IInv, StopInv, Posted
<1> QED  BY <1>6, <1>7, <1>8, <1>9, <1>10, Zenon DEF IInv

\* The accepted connection is entered.
LEMMA InsertKeeps ==
  ASSUME IInv, InsertConn
  PROVE  IInv'
<1>1. /\ lpc = "insert" /\ lpc' = "idle" /\ connections' = connections \cup {accepted}
      /\ UNCHANGED <<status, listener, pool, accepted, stoppedCb, rest, mpc, caller,
                     inline, connVars, skipped, cbCalls>>
      /\ UNCHANGED queue
  BY Zenon DEF InsertConn, callVars
<1>2. /\ \A c : RemoveQueued(c)' <=> RemoveQueued(c)
      /\ \A k : Queued(k)' <=> Queued(k)
      /\ QueueOrder' <=> QueueOrder
  BY <1>1, QueueFrame, Zenon
<1>3. accepted \in 1..accepted /\ accepted \in Conns /\ listener = "accepting"
  BY <1>1, ServerAssumption DEF IInv, OnlyAccepted, TypeOK, Conns, ListenInv
<1>4. ~Early /\ ~stoppedCb /\ cbCalls = 0
      /\ (caller = "loop" => status \notin {"kStopping", "kStopped"})
  BY <1>1, <1>3, Zenon DEF IInv, ListenInv, StopInv, Early, Posted
<1>5. TypeOK'
  BY <1>1, <1>3 DEF IInv, TypeOK, connVars
<1>6. OnlyAccepted'
  BY <1>1, <1>3, Zenon DEF IInv, OnlyAccepted, connVars
<1>7. HeldInv'
  <2>1. Entering = {accepted} /\ Entering' = {}
    BY <1>1, Zenon DEF Entering
  <2> QED  BY <1>1, <1>2, <2>1, Zenon DEF IInv, HeldInv, connVars
<1>8. ListenInv'
  BY <1>1, <1>2, <1>4, Zenon DEF IInv, ListenInv, Early, Posted
<1>9. StopInv'
  BY <1>1, <1>4, Zenon DEF IInv, StopInv, Posted
<1> QED  BY <1>5, <1>6, <1>7, <1>8, <1>9, Zenon DEF IInv

\* The functor of Stop begins.
LEMMA BeginStopKeeps ==
  ASSUME IInv, BeginStop
  PROVE  IInv'
<1>1. /\ Ready("stop") /\ queue' = Tail(queue) /\ lpc' = "stop"
      /\ UNCHANGED <<serverVars, rest, mpc, caller, inline, connVars, skipped, cbCalls>>
  BY Zenon DEF BeginStop, callVars
<1>2. /\ lpc = "idle" /\ queue' \in Seq(Functors) /\ QueueOrder' /\ Queued("stop")
      /\ \A c : RemoveQueued(c)' <=> RemoveQueued(c)
      /\ ~Queued("stop")' /\ ~Queued("accept")'
  BY <1>1, ReadyFacts, Zenon
<1>3. Posted /\ caller # "loop" /\ listener # "null"
  BY <1>2, Zenon DEF IInv, ListenInv, Posted
<1>4. TypeOK'
  BY <1>1, <1>2 DEF IInv, TypeOK, Functors, serverVars, connVars
<1>5. OnlyAccepted' /\ HeldInv'
  BY <1>1, <1>2, ConnFrame, Zenon DEF serverVars
<1>6. ListenInv'
  BY <1>1, <1>2, <1>3, Zenon DEF IInv, ListenInv, Early, Posted, serverVars
<1>7. StopInv'
  BY <1>1, <1>3, Zenon DEF IInv, StopInv, Posted, serverVars
<1> QED  BY <1>4, <1>5, <1>6, <1>7, Zenon DEF IInv

\* StopInLoop closes the listener.
LEMMA StopInLoopKeeps ==
  ASSUME IInv, StopInLoop
  PROVE  IInv'
<1>1. /\ lpc = "stop" /\ listener' = "null" /\ rest' = connections
      /\ lpc' = (IF connections = {} THEN "stoppool" ELSE "visit")
      /\ UNCHANGED <<status, pool, connections, accepted, stoppedCb, mpc, caller, inline,
                     connVars, skipped, cbCalls>>
      /\ UNCHANGED queue
  BY Zenon DEF StopInLoop, callVars
<1>2. /\ \A c : RemoveQueued(c)' <=> RemoveQueued(c)
      /\ \A k : Queued(k)' <=> Queued(k)
      /\ QueueOrder' <=> QueueOrder
  BY <1>1, QueueFrame, Zenon
<1>3. Posted /\ ~Queued("stop") /\ ~Queued("accept") /\ ~Early
  BY <1>1, Zenon DEF IInv, ListenInv, Posted, Early
<1>4. TypeOK'
  BY <1>1 DEF IInv, TypeOK, connVars
<1>5. OnlyAccepted'
  BY <1>1, Zenon DEF IInv, OnlyAccepted, connVars
<1>6. HeldInv'
  BY <1>1, <1>2, HeldFrame, Zenon DEF IInv, connVars
<1>7. ListenInv'
  BY <1>1, <1>2, <1>3, Zenon DEF IInv, ListenInv, Early, Posted
<1>8. StopInv'
  BY <1>1, <1>3, Zenon DEF IInv, StopInv, Posted
<1> QED  BY <1>4, <1>5, <1>6, <1>7, <1>8, Zenon DEF IInv

\* The steps of StopInLoop that visit an entry, after the listener was closed.
LEMMA VisitKeeps ==
  ASSUME IInv, Visit
  PROVE  IInv'
<1>1. /\ lpc = "visit" /\ rest # {} /\ rest' \subseteq rest
      /\ lpc' \in {"visit", "close"} /\ (lpc' = "close" => rest' = rest)
      /\ UNCHANGED <<serverVars, mpc, caller, inline, connVars, cbCalls>>
      /\ UNCHANGED queue
  BY Zenon DEF Visit, callVars
<1>2. /\ \A c : RemoveQueued(c)' <=> RemoveQueued(c)
      /\ \A k : Queued(k)' <=> Queued(k)
      /\ QueueOrder' <=> QueueOrder
  BY <1>1, QueueFrame, Zenon
<1>3. skipped' \subseteq Conns
  <2>1. First \in Conns
    BY <1>1, FirstIn, Zenon DEF IInv, TypeOK
  <2> QED  BY <2>1, Zenon DEF Visit, IInv, TypeOK
<1>4. TypeOK'
  BY <1>1, <1>3 DEF IInv, TypeOK, serverVars, connVars
<1>5. OnlyAccepted' /\ HeldInv'
  BY <1>1, <1>2, ConnFrame, Zenon DEF serverVars
<1>6. ListenInv'
  BY <1>1, <1>2, Zenon DEF IInv, ListenInv, Early, Posted, serverVars
<1>7. StopInv'
  BY <1>1, Zenon DEF IInv, StopInv, Posted, serverVars
<1> QED  BY <1>4, <1>5, <1>6, <1>7, Zenon DEF IInv

\* Close stores kDisconnecting and posts its functor to the I/O loop.
LEMMA ClosePostKeeps ==
  ASSUME IInv, CloseStore \/ ClosePost
  PROVE  IInv'
<1>1. /\ lpc \in {"close", "closepost"} /\ rest' \subseteq rest
      /\ lpc' \in {"visit", "closepost"} /\ (lpc' = "closepost" => rest' = rest)
      /\ UNCHANGED <<serverVars, mpc, caller, inline, cpc, ended, skipped, cbCalls>>
      /\ UNCHANGED queue
  BY Zenon DEF CloseStore, ClosePost, callVars
<1>2. /\ \A c : RemoveQueued(c)' <=> RemoveQueued(c)
      /\ \A k : Queued(k)' <=> Queued(k)
      /\ QueueOrder' <=> QueueOrder
  BY <1>1, QueueFrame, Zenon
<1>3. First \in rest /\ First \in Conns /\ First <= accepted /\ rest # {}
  <2>1. rest # {} /\ rest \subseteq Conns /\ rest \subseteq 1..accepted /\ accepted \in Nat
    BY <1>1 DEF IInv, StopInv, TypeOK, OnlyAccepted
  <2>2. First \in rest
    BY <2>1, FirstIn, Zenon
  <2> QED  BY <2>1, <2>2
<1>4. /\ cstatus' \in [Conns -> {"kDisconnected", "kConnected", "kDisconnecting"}]
      /\ cqueue' \in [Conns -> Seq({"attach", "close"})]
      /\ \A c \in Conns : c # First => cstatus'[c] = cstatus[c] /\ cqueue'[c] = cqueue[c]
  <2>1. CASE CloseStore
    BY <1>3, <2>1, Zenon DEF CloseStore, IInv, TypeOK
  <2>2. CASE ClosePost
    <3>1. Append(cqueue[First], "close") \in Seq({"attach", "close"})
      BY <1>3 DEF IInv, TypeOK
    <3> QED  BY <1>3, <2>2, <3>1, Zenon DEF ClosePost, IInv, TypeOK
  <2> QED  BY <2>1, <2>2, Zenon
<1>5. TypeOK'
  BY <1>1, <1>4 DEF IInv, TypeOK, serverVars
<1>6. OnlyAccepted'
  BY <1>1, <1>3, <1>4, Zenon DEF IInv, OnlyAccepted, serverVars
<1>7. HeldInv'
  BY <1>1, <1>2, HeldFrame, Zenon DEF IInv, serverVars
<1>8. ListenInv'
  BY <1>1, <1>2, Zenon DEF IInv, ListenInv, Early, Posted, serverVars
<1>9. StopInv'
  BY <1>1, <1>3, Zenon DEF IInv, StopInv, Posted, serverVars
<1> QED  BY <1>5, <1>6, <1>7, <1>8, <1>9, Zenon DEF IInv

\* Close in the listening loop itself, which erases the entry.
LEMMA CloseInlineKeeps ==
  ASSUME IInv, CloseInline
  PROVE  IInv'
<1>1. /\ inline /\ lpc = "close" /\ connections' = connections \ {First}
      /\ cstatus' = [cstatus EXCEPT ![First] = "kDisconnected"]
      /\ ended' = ended \cup {First} /\ rest' \subseteq rest
      /\ lpc' \in {"visit", "crashed"}
      /\ UNCHANGED <<listener, accepted, mpc, caller, inline, cpc, cqueue, skipped>>
      /\ UNCHANGED queue
  BY Zenon DEF CloseInline, callVars
<1>2. /\ \A c : RemoveQueued(c)' <=> RemoveQueued(c)
      /\ \A k : Queued(k)' <=> Queued(k)
      /\ QueueOrder' <=> QueueOrder
  BY <1>1, QueueFrame, Zenon
<1>3. First \in Conns /\ First \in 1..accepted
  <2>1. rest # {} /\ rest \subseteq Conns /\ rest \subseteq 1..accepted
    BY <1>1, Zenon DEF IInv, StopInv, TypeOK, OnlyAccepted
  <2> QED  BY <2>1, FirstIn, Zenon
<1>4. Posted /\ ~stoppedCb /\ cbCalls = 0
  BY <1>1, Zenon DEF IInv, ListenInv, StopInv
<1>5. /\ UNCHANGED <<cbCalls, stoppedCb>>
      /\ \/ connections' = {} /\ pool' = "stopped" /\ status' = "kStopped"
         \/ connections' # {} /\ UNCHANGED <<pool, status>>
  BY <1>4, Zenon DEF CloseInline, Finish, IInv, TypeOK
<1>6. cstatus' \in [Conns -> {"kDisconnected", "kConnected", "kDisconnecting"}]
      /\ \A c \in Conns : c # First => cstatus'[c] = cstatus[c]
      /\ cstatus'[First] = "kDisconnected"
  BY <1>1, <1>3, Zenon DEF IInv, TypeOK
<1>7. TypeOK'
  BY <1>1, <1>3, <1>5, <1>6 DEF IInv, TypeOK
<1>8. OnlyAccepted'
  BY <1>1, <1>3, <1>6, Zenon DEF IInv, OnlyAccepted
<1>9. HeldInv'
  BY <1>1, <1>2, <1>3, Zenon DEF IInv, HeldInv, Entering
<1>10. ListenInv'
  BY <1>1, <1>2, <1>4, Zenon DEF IInv, ListenInv, Early, Posted
<1>11. StopInv'
  BY <1>1, <1>4, <1>5, Zenon DEF IInv, StopInv, Posted
<1> QED  BY <1>7, <1>8, <1>9, <1>10, <1>11, Zenon DEF IInv

\* The callback is kept for RemoveConnection.
LEMMA VisitedKeeps ==
  ASSUME IInv, Visited
  PROVE  IInv'
<1>1. /\ lpc = "visit" /\ lpc' = "notify" /\ stoppedCb' = TRUE
      /\ UNCHANGED <<status, listener, pool, connections, accepted, rest, mpc, caller,
                     inline, connVars, skipped, cbCalls>>
      /\ UNCHANGED queue
  BY Zenon DEF Visited, callVars
<1>2. /\ \A c : RemoveQueued(c)' <=> RemoveQueued(c)
      /\ \A k : Queued(k)' <=> Queued(k)
      /\ QueueOrder' <=> QueueOrder
  BY <1>1, QueueFrame, Zenon
<1>3. Posted /\ listener = "null"
  BY <1>1, Zenon DEF IInv, ListenInv
<1>4. TypeOK'
  BY <1>1 DEF IInv, TypeOK, connVars
<1>5. OnlyAccepted' /\ HeldInv'
  BY <1>1, <1>2, ConnFrame, Zenon
<1>6. ListenInv'
  BY <1>1, <1>2, Zenon DEF IInv, ListenInv, Early, Posted
<1>7. StopInv'
  BY <1>1, <1>3, Zenon DEF IInv, StopInv, Posted
<1> QED  BY <1>4, <1>5, <1>6, <1>7, Zenon DEF IInv

\* The pool is stopped, by StopInLoop or by the last RemoveConnection.
LEMMA StopPoolKeeps ==
  ASSUME IInv, StopPoolInStop \/ StopPoolInRemove
  PROVE  IInv'
<1>1. /\ pool' = "stopped" /\ status' = "kStopped"
      /\ UNCHANGED <<listener, connections, accepted, rest, mpc, caller, inline, connVars,
                     skipped>>
      /\ UNCHANGED queue
  BY Zenon DEF StopPoolInStop, StopPoolInRemove, Finish, callVars
<1>2. \/ /\ lpc = "stoppool" /\ pool # "stopped" /\ lpc' = "notify"
         /\ cbCalls' = cbCalls + 1 /\ UNCHANGED stoppedCb
      \/ /\ lpc = "removepool" /\ lpc' = "idle" /\ stoppedCb' = FALSE
         /\ cbCalls' = IF stoppedCb THEN cbCalls + 1 ELSE cbCalls
  BY Zenon DEF StopPoolInStop, StopPoolInRemove, Finish
<1>3. /\ \A c : RemoveQueued(c)' <=> RemoveQueued(c)
      /\ \A k : Queued(k)' <=> Queued(k)
      /\ QueueOrder' <=> QueueOrder
  BY <1>1, QueueFrame, Zenon
<1>4. connections = {} /\ cbCalls = 0 /\ (Posted \/ mpc = "post")
  BY <1>2, Zenon DEF IInv, StopInv, ListenInv
<1>5. cbCalls' \in {0, 1} /\ stoppedCb' \in BOOLEAN
  <2>1. cbCalls' \in {0, 1}
    BY <1>2, <1>4
  <2>2. stoppedCb' \in BOOLEAN
    BY <1>2, Zenon DEF IInv, TypeOK
  <2> QED  BY <2>1, <2>2, Zenon
<1>6. TypeOK'
  BY <1>1, <1>2, <1>5 DEF IInv, TypeOK, connVars
<1>7. OnlyAccepted' /\ HeldInv'
  BY <1>1, <1>2, <1>3, ConnFrame, Zenon
<1>8. ListenInv'
  BY <1>1, <1>2, <1>3, <1>4, Zenon DEF IInv, ListenInv, Early, Posted
<1>9. StopInv'
  <2>1. cbCalls' = 1 => listener = "null"
    BY <1>2, <1>4, Zenon DEF IInv, StopInv, ListenInv
  <2>2. caller = "loop" => cbCalls' = 1
    BY <1>2, <1>4 DEF IInv, StopInv
  <2>3. stoppedCb' => FALSE
    BY <1>2, Zenon DEF IInv, StopInv
  <2> QED  BY <1>1, <1>2, <1>4, <1>5, <2>1, <2>2, <2>3, Zenon DEF IInv, StopInv, Posted
<1> QED  BY <1>6, <1>7, <1>8, <1>9, Zenon DEF IInv

\* The pool is gone already.
LEMMA StopPoolAgainKeeps ==
  ASSUME IInv, StopPoolAgain
  PROVE  IInv'
<1>1. /\ lpc = "stoppool" /\ lpc' = "crashed"
      /\ UNCHANGED <<serverVars, rest, mpc, caller, inline, connVars, skipped, cbCalls>>
      /\ UNCHANGED queue
  BY Zenon DEF StopPoolAgain, callVars
<1>2. /\ \A c : RemoveQueued(c)' <=> RemoveQueued(c)
      /\ \A k : Queued(k)' <=> Queued(k)
      /\ QueueOrder' <=> QueueOrder
  BY <1>1, QueueFrame, Zenon
<1>3. TypeOK'
  BY <1>1 DEF IInv, TypeOK, serverVars, connVars
<1>4. OnlyAccepted' /\ HeldInv'
  BY <1>1, <1>2, ConnFrame, Zenon DEF serverVars
<1>5. ListenInv'
  BY <1>1, <1>2, Zenon DEF IInv, ListenInv, Early, Posted, serverVars
<1>6. StopInv'
  BY <1>1, Zenon DEF IInv, StopInv, Posted, serverVars
<1> QED  BY <1>3, <1>4, <1>5, <1>6, Zenon DEF IInv

\* The caller of Stop is woken up.
LEMMA NotifyKeeps ==
  ASSUME IInv, NotifyCaller
  PROVE  IInv'
<1>1. /\ lpc = "notify" /\ lpc' = "idle"
      /\ mpc' = IF mpc = "waiting" THEN "done" ELSE mpc
      /\ UNCHANGED <<serverVars, rest, caller, inline, connVars, skipped, cbCalls>>
      /\ UNCHANGED queue
  BY Zenon DEF NotifyCaller
<1>2. /\ \A c : RemoveQueued(c)' <=> RemoveQueued(c)
      /\ \A k : Queued(k)' <=> Queued(k)
      /\ QueueOrder' <=> QueueOrder
  BY <1>1, QueueFrame, Zenon
<1>3. Posted /\ Posted' /\ ~Early'
  BY <1>1, Zenon DEF IInv, ListenInv, Posted, Early
<1>4. TypeOK'
  BY <1>1 DEF IInv, TypeOK, serverVars, connVars
<1>5. OnlyAccepted' /\ HeldInv'
  BY <1>1, <1>2, ConnFrame, Zenon DEF serverVars
<1>6. ListenInv'
  BY <1>1, <1>2, <1>3, Zenon DEF IInv, ListenInv, Early, Posted, serverVars
<1>7. StopInv'
  BY <1>1, <1>3, Zenon DEF IInv, StopInv, serverVars
<1> QED  BY <1>4, <1>5, <1>6, <1>7, Zenon DEF IInv

\* What erasing an entry does to the listening loop and to the end of the server.
LEMMA RemoveEntryKeeps ==
  ASSUME IInv, NEW c \in Conns, RemoveEntry(c), lpc = "idle", ~Early,
         UNCHANGED <<status, listener, pool, accepted, stoppedCb, mpc, caller, inline,
                     cbCalls>>,
         QueueOrder', \A k \in {"accept", "stop"} : Queued(k)' <=> Queued(k)
  PROVE  ListenInv' /\ StopInv'
<1>1. /\ connections' = connections \ {c}
      /\ \/ lpc' = "idle"
         \/ lpc' = "removepool" /\ status = "kStopping" /\ connections' = {}
  BY Zenon DEF RemoveEntry
<1>2. ListenInv'
  BY <1>1, Zenon DEF IInv, ListenInv, Early, Posted
<1>3. connections = {} => connections' = {}
  BY <1>1, Zenon
<1>4. StopInv'
  BY <1>1, <1>3, Zenon DEF IInv, StopInv, Posted
<1> QED  BY <1>2, <1>4, Zenon

\* The functor of RemoveConnection.
LEMMA RemoveKeeps ==
  ASSUME IInv, RemoveConnection
  PROVE  IInv'
<1> DEFINE c == Head(queue).c
<1>1. /\ Ready("remove") /\ queue' = Tail(queue) /\ RemoveEntry(c)
      /\ UNCHANGED <<status, listener, pool, accepted, stoppedCb, rest, mpc, caller,
                     inline, connVars, skipped, cbCalls>>
  BY Zenon DEF RemoveConnection, callVars
<1>2. /\ lpc = "idle" /\ queue' \in Seq(Functors) /\ QueueOrder' /\ Queued("remove")
      /\ Head(queue) \in Functors /\ Head(queue).k = "remove"
      /\ \A j \in {"accept", "stop"} : Queued(j)' <=> Queued(j)
      /\ \A d : RemoveQueued(d) => RemoveQueued(d)' \/ d = c
      /\ \A d : RemoveQueued(d)' => RemoveQueued(d)
  BY <1>1, ReadyFacts, Zenon
<1>3. c \in Conns /\ RemoveQueued(c) /\ ~Early
  <2>1. c \in Conns /\ Head(queue) = RemoveFunctor(c)
    BY <1>2, FunctorTypes, Zenon
  <2>2. queue # <<>> /\ queue \in Seq(Functors)
    BY <1>1, Zenon DEF Ready, IInv, TypeOK, Functors
  <2>3. Head(queue) = queue[1] /\ 1 \in 1..Len(queue)
    BY <2>2
  <2> QED  BY <2>1, <2>2, <2>3, Zenon DEF RemoveQueued, IInv, ListenInv
<1> HIDE DEF c
<1>4. c \in ended
  BY <1>3, Zenon DEF IInv, HeldInv
<1>5. /\ connections' = connections \ {c} /\ lpc' \in {"idle", "removepool"}
  BY <1>1, <1>2, Zenon DEF RemoveEntry
<1>6. TypeOK'
  BY <1>1, <1>2, <1>5 DEF IInv, TypeOK, Functors, connVars
<1>7. OnlyAccepted'
  BY <1>1, <1>5, Zenon DEF IInv, OnlyAccepted, connVars
<1>8. HeldInv'
  BY <1>1, <1>2, <1>4, <1>5, Zenon DEF IInv, HeldInv, Entering, connVars
<1>9. ListenInv' /\ StopInv'
  BY <1>1, <1>2, <1>3, RemoveEntryKeeps, Zenon
<1> QED  BY <1>6, <1>7, <1>8, <1>9, Zenon DEF IInv

-----------------------------------------------------------------------------
(* The I/O loops.                                                          *)

\* A step of an I/O loop touches nothing of the listening loop but its queue.
LEMMA IOFrame ==
  ASSUME IInv, UNCHANGED <<serverVars, lpc, rest, callVars, skipped, cbCalls>>,
         QueueOrder', \A k \in {"accept", "stop"} : Queued(k)' <=> Queued(k),
         Early => UNCHANGED queue
  PROVE  ListenInv' /\ StopInv'
<1>1. ListenInv'
  BY Zenon DEF IInv, ListenInv, Early, Posted, serverVars, callVars
<1>2. StopInv'
  BY Zenon DEF IInv, StopInv, Posted, serverVars, callVars
<1> QED  BY <1>1, <1>2, Zenon

\* OnAttachedToLoop, and the functors of an I/O loop.
LEMMA FunctorKeeps ==
  ASSUME IInv, NEW c \in Conns, OnAttachedToLoop(c) \/ CloseFunctor(c)
  PROVE  IInv'
<1>1. /\ cqueue[c] # <<>> /\ cqueue' = [cqueue EXCEPT ![c] = Tail(@)]
      /\ UNCHANGED <<serverVars, lpc, rest, callVars, skipped, cbCalls>> /\ UNCHANGED queue
  BY Zenon DEF OnAttachedToLoop, CloseFunctor, loopVars
<1>2. /\ \A d : RemoveQueued(d)' <=> RemoveQueued(d)
      /\ \A k : Queued(k)' <=> Queued(k)
      /\ QueueOrder' <=> QueueOrder
  BY <1>1, QueueFrame, Zenon
<1>3. Tail(cqueue[c]) \in Seq({"attach", "close"})
  BY <1>1 DEF IInv, TypeOK
<1>4. /\ cqueue' \in [Conns -> Seq({"attach", "close"})]
      /\ \A d \in Conns : d # c => cqueue'[d] = cqueue[d]
  BY <1>1, <1>3, Zenon DEF IInv, TypeOK
<1>5. /\ cstatus' \in [Conns -> {"kDisconnected", "kConnected", "kDisconnecting"}]
      /\ \A d \in Conns : d # c => cstatus'[d] = cstatus[d]
      /\ cpc' \in [Conns -> {"idle", "down", "removed"}]
      /\ \A d \in Conns : d # c => cpc'[d] = cpc[d]
      /\ \/ ended' = ended /\ cpc' = cpc
         \/ ended' = ended \cup {c} /\ cpc'[c] = "down"
  BY Zenon DEF OnAttachedToLoop, CloseFunctor, IInv, TypeOK
<1>6. c <= accepted /\ c \in 1..accepted
  BY <1>1, ServerAssumption DEF IInv, OnlyAccepted, TypeOK, Conns
<1>7. TypeOK'
  BY <1>1, <1>4, <1>5 DEF IInv, TypeOK, serverVars, callVars
<1>8. OnlyAccepted'
  BY <1>1, <1>4, <1>5, <1>6, Zenon DEF IInv, OnlyAccepted, serverVars
<1>9. HeldInv'
  BY <1>1, <1>2, <1>5, Zenon DEF IInv, HeldInv, Entering, serverVars, callVars, TypeOK
<1>10. ListenInv' /\ StopInv'
  BY <1>1, <1>2, IOFrame, Zenon DEF IInv, ListenInv
<1> QED  BY <1>7, <1>8, <1>9, <1>10, Zenon DEF IInv

\* The peer is gone, or a callback closes the connection.
LEMMA LostKeeps ==
  ASSUME IInv, NEW c \in Conns, ConnLost(c)
  PROVE  IInv'
<1>1. /\ cstatus[c] = "kConnected" /\ ended' = ended \cup {c}
      /\ cstatus' = [cstatus EXCEPT ![c] = "kDisconnecting"]
      /\ cpc' = [cpc EXCEPT ![c] = "down"] /\ cqueue' = cqueue
      /\ UNCHANGED <<serverVars, lpc, rest, callVars, skipped, cbCalls>> /\ UNCHANGED queue
  BY Zenon DEF ConnLost, loopVars
<1>2. /\ \A d : RemoveQueued(d)' <=> RemoveQueued(d)
      /\ \A k : Queued(k)' <=> Queued(k)
      /\ QueueOrder' <=> QueueOrder
  BY <1>1, QueueFrame, Zenon
<1>3. /\ cstatus' \in [Conns -> {"kDisconnected", "kConnected", "kDisconnecting"}]
      /\ \A d \in Conns : d # c => cstatus'[d] = cstatus[d]
      /\ cpc' \in [Conns -> {"idle", "down", "removed"}] /\ cpc'[c] = "down"
      /\ \A d \in Conns : d # c => cpc'[d] = cpc[d]
  BY <1>1, Zenon DEF IInv, TypeOK
<1>4. c <= accepted /\ c \in 1..accepted
  BY <1>1, ServerAssumption DEF IInv, OnlyAccepted, TypeOK, Conns
<1>5. TypeOK'
  BY <1>1, <1>3 DEF IInv, TypeOK, serverVars, callVars
<1>6. OnlyAccepted'
  BY <1>1, <1>3, <1>4, Zenon DEF IInv, OnlyAccepted, serverVars
<1>7. HeldInv'
  BY <1>1, <1>2, <1>3, Zenon DEF IInv, HeldInv, Entering, serverVars, callVars, TypeOK
<1>8. ListenInv' /\ StopInv'
  BY <1>1, <1>2, IOFrame, Zenon DEF IInv, ListenInv
<1> QED  BY <1>5, <1>6, <1>7, <1>8, Zenon DEF IInv

\* close_fn_ posts RemoveConnection.
LEMMA CloseFnKeeps ==
  ASSUME IInv, NEW c \in Conns, CallCloseFn(c)
  PROVE  IInv'
<1>1. /\ cpc[c] = "down" /\ cpc' = [cpc EXCEPT ![c] = "removed"]
      /\ queue' = Append(queue, RemoveFunctor(c))
      /\ UNCHANGED <<serverVars, lpc, rest, callVars, skipped, cbCalls>>
      /\ UNCHANGED <<cstatus, cqueue, ended>>
  BY Zenon DEF CallCloseFn
<1>2. c \in ended /\ ~Early
  <2>1. c \in ended /\ c \in 1..accepted
    BY <1>1, Zenon DEF IInv, HeldInv, OnlyAccepted
  <2>2. accepted # 0
    BY <2>1
  <2> QED  BY <2>1, <2>2, Zenon DEF IInv, ListenInv
<1>3. /\ RemoveFunctor(c) \in Functors /\ RemoveFunctor(c).k = "remove"
      /\ \A d : RemoveFunctor(c) = RemoveFunctor(d) <=> c = d
  <2>1. \A d : RemoveFunctor(d).c = d
    BY Zenon DEF RemoveFunctor
  <2> QED  BY <2>1, FunctorTypes
<1>4. queue \in Seq(Functors) /\ QueueOrder
  BY Zenon DEF IInv, TypeOK, Functors, ListenInv
<1>5. /\ queue' \in Seq(Functors) /\ QueueOrder'
      /\ \A k : Queued(k)' <=> Queued(k) \/ k = "remove"
      /\ \A d : RemoveQueued(d)' <=> RemoveQueued(d) \/ d = c
  BY <1>1, <1>3, <1>4, Appended, Zenon
<1>6. /\ cpc' \in [Conns -> {"idle", "down", "removed"}]
      /\ \A d \in Conns : d # c => cpc'[d] = cpc[d]
  BY <1>1, Zenon DEF IInv, TypeOK
<1>7. TypeOK'
  BY <1>1, <1>5, <1>6 DEF IInv, TypeOK, Functors, serverVars, callVars
<1>8. OnlyAccepted'
  BY <1>1, OnlyFrame, Zenon DEF IInv, serverVars
<1>9. HeldInv'
  BY <1>1, <1>2, <1>5, <1>6, Zenon DEF IInv, HeldInv, Entering, serverVars, callVars, TypeOK
<1>10. ListenInv' /\ StopInv'
  BY <1>1, <1>2, <1>5, IOFrame, Zenon
<1> QED  BY <1>7, <1>8, <1>9, <1>10, Zenon DEF IInv

\* HandleClose is over.
LEMMA StoreDisconnectedKeeps ==
  ASSUME IInv, NEW c \in Conns, StoreDisconnected(c)
  PROVE  IInv'
<1>1. /\ cpc[c] = "removed" /\ cpc' = [cpc EXCEPT ![c] = "idle"]
      /\ cstatus' = [cstatus EXCEPT ![c] = "kDisconnected"]
      /\ UNCHANGED <<serverVars, lpc, rest, callVars, skipped, cbCalls>>
      /\ UNCHANGED <<cqueue, ended>> /\ UNCHANGED queue
  BY Zenon DEF StoreDisconnected, loopVars
<1>2. /\ \A d : RemoveQueued(d)' <=> RemoveQueued(d)
      /\ \A k : Queued(k)' <=> Queued(k)
      /\ QueueOrder' <=> QueueOrder
  BY <1>1, QueueFrame, Zenon
<1>3. /\ cstatus' \in [Conns -> {"kDisconnected", "kConnected", "kDisconnecting"}]
      /\ cstatus'[c] = "kDisconnected" /\ cpc'[c] = "idle"
      /\ \A d \in Conns : d # c => cstatus'[d] = cstatus[d] /\ cpc'[d] = cpc[d]
      /\ cpc' \in [Conns -> {"idle", "down", "removed"}]
  BY <1>1, Zenon DEF IInv, TypeOK
<1>4. TypeOK'
  BY <1>1, <1>3 DEF IInv, TypeOK, serverVars, callVars
<1>5. OnlyAccepted'
  BY <1>1, <1>3, Zenon DEF IInv, OnlyAccepted, serverVars
<1>6. HeldInv'
  BY <1>1, <1>2, <1>3, Zenon DEF IInv, HeldInv, Entering, serverVars, callVars, TypeOK
<1>7. ListenInv' /\ StopInv'
  BY <1>1, <1>2, IOFrame, Zenon DEF IInv, ListenInv
<1> QED  BY <1>4, <1>5, <1>6, <1>7, Zenon DEF IInv

\* A connection ends in the listening loop.
LEMMA LostInlineKeeps ==
  ASSUME IInv, NEW c \in Conns, ConnLostInline(c)
  PROVE  IInv'
<1>1. /\ inline /\ lpc = "idle" /\ cstatus[c] = "kConnected" /\ RemoveEntry(c)
      /\ cstatus' = [cstatus EXCEPT ![c] = "kDisconnected"] /\ ended' = ended \cup {c}
      /\ UNCHANGED <<status, listener, pool, accepted, stoppedCb, rest, mpc, caller,
                     inline, cpc, cqueue, skipped, cbCalls>>
      /\ UNCHANGED queue
  BY Zenon DEF ConnLostInline, callVars
<1>2. /\ \A d : RemoveQueued(d)' <=> RemoveQueued(d)
      /\ \A k : Queued(k)' <=> Queued(k)
      /\ QueueOrder' <=> QueueOrder
  BY <1>1, QueueFrame, Zenon
<1>3. c \in 1..accepted /\ ~Early
  BY <1>1, ServerAssumption DEF IInv, OnlyAccepted, TypeOK, Conns, ListenInv
<1>4. connections' = connections \ {c} /\ lpc' \in {"idle", "removepool"}
  BY <1>1, Zenon DEF RemoveEntry
<1>5. /\ cstatus' \in [Conns -> {"kDisconnected", "kConnected", "kDisconnecting"}]
      /\ cstatus'[c] = "kDisconnected" /\ \A d \in Conns : d # c => cstatus'[d] = cstatus[d]
  BY <1>1, Zenon DEF IInv, TypeOK
<1>6. TypeOK'
  BY <1>1, <1>4, <1>5 DEF IInv, TypeOK
<1>7. OnlyAccepted'
  BY <1>1, <1>3, <1>4, <1>5, Zenon DEF IInv, OnlyAccepted
<1>8. HeldInv'
  BY <1>1, <1>2, <1>4, Zenon DEF IInv, HeldInv, Entering
<1>9. ListenInv' /\ StopInv'
  BY <1>1, <1>2, <1>3, RemoveEntryKeeps, Zenon DEF IInv, ListenInv
<1> QED  BY <1>6, <1>7, <1>8, <1>9, Zenon DEF IInv

-----------------------------------------------------------------------------
(* The invariant and what follows from it.                                 *)

\* The invariant holds at first.
LEMMA Starts == Init => IInv
<1> SUFFICES ASSUME Init PROVE IInv
  BY Zenon
<1>1. <<>> \in Seq(Functors) /\ <<>> \in Seq({"attach", "close"}) /\ 0 \in 0..MaxConns
  BY ServerAssumption
<1>2. TypeOK
  BY <1>1, Zenon DEF Init, TypeOK, Functors
<1>3. OnlyAccepted
  BY Zenon DEF Init, OnlyAccepted
<1>4. HeldInv
  BY DEF Init, HeldInv, RemoveQueued, Entering
<1>5. ListenInv
  BY DEF Init, ListenInv, Early, Posted, Queued, QueueOrder
<1>6. StopInv
  BY DEF Init, StopInv, Posted
<1> QED  BY <1>2, <1>3, <1>4, <1>5, <1>6, Zenon DEF IInv

\* Every step keeps the invariant.
LEMMA Keeps == IInv /\ [Next]_vars => IInv'
<1> SUFFICES ASSUME IInv, [Next]_vars PROVE IInv'
  BY Zenon
<1>1. CASE MainStep \/ Stop
  BY <1>1, StartKeeps, AcceptKeeps, PostStopKeeps, CondWaitKeeps, StopKeeps, Zenon DEF MainStep
<1>2. CASE ListenStep
  BY <1>2, AttachKeeps, InsertKeeps, BeginStopKeeps, StopInLoopKeeps, VisitKeeps,
     ClosePostKeeps, CloseInlineKeeps, VisitedKeeps, StopPoolKeeps, StopPoolAgainKeeps,
     NotifyKeeps, RemoveKeeps, Zenon
  DEF ListenStep
<1>3. CASE HandleNewConn \/ HandleNewConnInline
  BY <1>3, NewConnKeeps, Zenon
<1>4. ASSUME NEW c \in Conns, ConnStep(c) \/ ConnLost(c) \/ ConnLostInline(c)
      PROVE  IInv'
  BY <1>4, FunctorKeeps, CloseFnKeeps, StoreDisconnectedKeeps, LostKeeps, LostInlineKeeps, Zenon
  DEF ConnStep
<1>5. CASE UNCHANGED vars
  <2>1. /\ UNCHANGED <<serverVars, lpc, rest, callVars, skipped, cbCalls, connVars>>
        /\ UNCHANGED queue /\ inline' = inline
    BY <1>5, Zenon DEF vars, loopVars, callVars
  <2>2. /\ \A c : RemoveQueued(c)' <=> RemoveQueued(c)
        /\ \A k : Queued(k)' <=> Queued(k)
        /\ QueueOrder' <=> QueueOrder
    BY <2>1, QueueFrame, Zenon
  <2>3. TypeOK'
    BY <2>1 DEF IInv, TypeOK, serverVars, callVars, connVars
  <2>4. OnlyAccepted' /\ HeldInv'
    BY <2>1, <2>2, ConnFrame, Zenon DEF serverVars
  <2>5. ListenInv' /\ StopInv'
    BY <2>1, <2>2, IOFrame, Zenon DEF IInv, ListenInv
  <2> QED  BY <2>3, <2>4, <2>5, Zenon DEF IInv
<1> QED  BY <1>1, <1>2, <1>3, <1>4, <1>5, Zenon DEF Next

\* The inductive invariant holds in every state that is reached.
LEMMA Inductive == Spec => []IInv
BY Starts, Keeps, PTL DEF Spec

\* connections_ holds the connections that live and none that nobody will remove: every
\* connection that HandleNewConn (tcp_server.cc:170-197) has accepted is held or
\* has ended, and with I/O threads one that is held and has ended has its
\* RemoveConnection ahead, for any number of connections.
THEOREM LiveAlwaysHeld == Spec => []LiveIsHeld
<1>1. IInv => LiveIsHeld
  <2> SUFFICES ASSUME IInv PROVE LiveIsHeld
    BY Zenon
  <2>1. \A c : RemoveQueued(c) => RemoveFunctor(c) \in Range(queue)
    <3>1. queue \in Seq(Functors)
      BY Zenon DEF IInv, TypeOK, Functors
    <3>2. DOMAIN queue = 1..Len(queue)
      BY <3>1
    <3> QED  BY <3>2, Zenon DEF RemoveQueued, Range
  <2> QED  BY <2>1, Zenon DEF IInv, LiveIsHeld, HeldInv, Entering
<1> QED  BY <1>1, Inductive, PTL

\* The assertions of ~TCPServer hold when a server stopped from its own loop says
\* kStopped, the callback given to Stop (tcp_server.cc:86-154) is called at most once,
\* and it is called only when every connection has ended, for any number of connections.
THEOREM StoppedAlwaysClean == Spec => []StoppedIsClean
<1>1. IInv => StoppedIsClean
  <2> SUFFICES ASSUME IInv PROVE StoppedIsClean
    BY Zenon
  <2>1. ASSUME cbCalls = 1 PROVE ended = 1..accepted
    BY <2>1, Zenon DEF IInv, StopInv, HeldInv, OnlyAccepted, Entering
  <2>2. ASSUME status = "kStopped", caller = "loop" PROVE listener = "null"
    BY <2>2, Zenon DEF IInv, StopInv, ListenInv, Posted
  <2> QED  BY <2>1, <2>2 DEF IInv, StopInv, StoppedIsClean
<1> QED  BY <1>1, Inductive, PTL
=============================================================================
