-------------------------- MODULE HTTPServerProofs --------------------------
(***************************************************************************)
(* Two invariants of the HTTP server and the thread pool below it, for any *)
(* number of threads, of listening threads and of requests: the status of  *)
(* the pool tells what its threads do (StatusTellsThreads, from IInv), and *)
(* the fate of a request tells where the server was (RequestFate, from     *)
(* IInv and ServerInv).                                                    *)
(***************************************************************************)
EXTENDS HTTPServer, FiniteSetTheorems, TLAPS

-----------------------------------------------------------------------------
(* The queue of a loop: what it holds, not in which order.                 *)

Functors ==
  [f : {"fn", "stop", "pause", "continue", "stoppause"}]
    \cup [f : {"request", "reply"}, r : Requests]

Has(q, f) == \E i \in 1..Len(q) : q[i].f = f
Once(q, f) == \A i, j \in 1..Len(q) : q[i].f = f /\ q[j].f = f => i = j
Asks(q, r) == \E i \in 1..Len(q) : q[i] = [f |-> "request", r |-> r]
\* A functor x is about the request r, in some way.
About(x, r) == x.f \in {"request", "reply"} /\ x.r = r
Names(q, r) == \E i \in 1..Len(q) : About(q[i], r)

\* A functor x is posted.
LEMMA Posts ==
  ASSUME NEW q \in Seq(Functors), NEW x \in Functors
  PROVE  /\ Append(q, x) \in Seq(Functors)
         /\ \A f : Has(Append(q, x), f) <=> Has(q, f) \/ x.f = f
         /\ \A f : Once(q, f) /\ (Has(q, f) => x.f # f) => Once(Append(q, x), f)
         /\ \A r : Asks(Append(q, x), r) <=> Asks(q, r) \/ x = [f |-> "request", r |-> r]
         /\ \A r : Names(Append(q, x), r) <=> Names(q, r) \/ About(x, r)
<1> DEFINE t == Append(q, x)
<1>1. t \in Seq(Functors)
  OBVIOUS
<1>2. /\ Len(q) \in Nat /\ Len(t) = Len(q) + 1 /\ t[Len(t)] = x
      /\ \A i \in 1..Len(q) : i \in 1..Len(t) /\ t[i] = q[i]
      /\ \A i \in 1..Len(t) : i # Len(t) => i \in 1..Len(q) /\ t[i] = q[i]
  OBVIOUS
<1> HIDE DEF t
<1>3. Len(t) \in 1..Len(t)
  BY <1>2
<1>4. ASSUME NEW f
      PROVE  Has(t, f) <=> Has(q, f) \/ x.f = f
  BY <1>2, <1>3, Zenon DEF Has
<1>5. ASSUME NEW f, Once(q, f), Has(q, f) => x.f # f
      PROVE  Once(t, f)
  <2>1. ASSUME NEW i \in 1..Len(t), NEW j \in 1..Len(t), t[i].f = f, t[j].f = f
        PROVE  i = j
    <3>1. CASE x.f = f
      BY <1>2, <1>5, <2>1, <3>1, Zenon DEF Has
    <3>2. CASE x.f # f
      BY <1>2, <1>5, <2>1, <3>2, Zenon DEF Once
    <3> QED  BY <3>1, <3>2, Zenon
  <2> QED  BY <2>1, Zenon DEF Once
<1>6. ASSUME NEW r
      PROVE  Asks(t, r) <=> Asks(q, r) \/ x = [f |-> "request", r |-> r]
  BY <1>2, <1>3, Zenon DEF Asks
<1>7. ASSUME NEW r
      PROVE  Names(t, r) <=> Names(q, r) \/ About(x, r)
  BY <1>2, <1>3, Zenon DEF Names
<1> QED  BY <1>1, <1>4, <1>5, <1>6, <1>7, Zenon DEF t

\* The functor at the head is run.
LEMMA Pops ==
  ASSUME NEW q \in Seq(Functors), q # <<>>
  PROVE  /\ Tail(q) \in Seq(Functors) /\ Head(q) \in Functors
         /\ \A f : Has(q, f) <=> Head(q).f = f \/ Has(Tail(q), f)
         /\ \A f : Once(q, f) => Once(Tail(q), f) /\ (Head(q).f = f => ~Has(Tail(q), f))
         /\ \A r : Asks(q, r) <=> Head(q) = [f |-> "request", r |-> r] \/ Asks(Tail(q), r)
         /\ \A r : Names(q, r) <=> About(Head(q), r) \/ Names(Tail(q), r)
<1> DEFINE t == Tail(q)
<1>1. t \in Seq(Functors) /\ Head(q) \in Functors
  OBVIOUS
<1>2. Len(q) \in Nat \ {0} /\ Len(t) = Len(q) - 1 /\ Head(q) = q[1] /\ 1 \in 1..Len(q)
  OBVIOUS
<1>3. \A i \in 1..Len(t) : i + 1 \in 1..Len(q) /\ i + 1 # 1 /\ t[i] = q[i + 1]
  BY <1>2
<1>4. \A i \in 1..Len(q) : i # 1 => i - 1 \in 1..Len(t) /\ t[i - 1] = q[i]
  BY <1>2
<1> HIDE DEF t
<1>5. ASSUME NEW f
      PROVE  Has(q, f) <=> Head(q).f = f \/ Has(t, f)
  BY <1>2, <1>3, <1>4 DEF Has
<1>6. ASSUME NEW f, Once(q, f)
      PROVE  Once(t, f) /\ (Head(q).f = f => ~Has(t, f))
  <2>1. ASSUME NEW i \in 1..Len(t), NEW j \in 1..Len(t), t[i].f = f, t[j].f = f
        PROVE  i = j
    <3>1. i + 1 = j + 1
      BY <1>3, <1>6, <2>1, Zenon DEF Once
    <3>2. i \in Nat /\ j \in Nat
      BY <1>2
    <3> QED  BY <3>1, <3>2
  <2>2. ASSUME Head(q).f = f, NEW i \in 1..Len(t), t[i].f = f
        PROVE  FALSE
    BY <1>2, <1>3, <1>6, <2>2, Zenon DEF Once
  <2> QED  BY <2>1, <2>2, Zenon DEF Once, Has
<1>7. ASSUME NEW r
      PROVE  Asks(q, r) <=> Head(q) = [f |-> "request", r |-> r] \/ Asks(t, r)
  BY <1>2, <1>3, <1>4 DEF Asks
<1>8. ASSUME NEW r
      PROVE  Names(q, r) <=> About(Head(q), r) \/ Names(t, r)
  BY <1>2, <1>3, <1>4, Zenon DEF Names
<1> QED  BY <1>1, <1>5, <1>6, <1>7, <1>8, Zenon DEF t

\* An empty queue holds nothing.
LEMMA Empties ==
  /\ <<>> \in Seq(Functors)
  /\ \A f : ~Has(<<>>, f) /\ Once(<<>>, f)
  /\ \A r : ~Asks(<<>>, r) /\ ~Names(<<>>, r)
  BY DEF Has, Once, Asks, Names

\* The functors that are posted.
LEMMA FunctorTypes ==
  /\ \A f \in {"fn", "stop", "pause", "continue", "stoppause"} :
       [f |-> f] \in Functors
  /\ \A r \in Requests :
       [f |-> "request", r |-> r] \in Functors /\ [f |-> "reply", r |-> r] \in Functors
  BY Zenon DEF Functors

-----------------------------------------------------------------------------
(* One EventLoopThread: its owner (opc), the thread (wpc), the two stati.  *)

ThreadTypes ==
  /\ tstatus \in [Workers -> ThreadStatus] /\ lstatus \in [Workers -> LoopStatus]
  /\ queue \in [Workers -> Seq(Functors)]
  /\ wpc \in [Workers -> WorkerPCs] /\ opc \in [Workers -> OwnerPCs]
  /\ failed \in [Workers -> BOOLEAN]

\* The start functor of EventLoopThread::Run has not run.
Early(w) ==
  \/ wpc[w] \in {"none", "spawned", "torun", "starting"}
  \/ wpc[w] = "dispatch" /\ Has(queue[w], "fn")
\* It has, and pre has returned.
Past(w) == ~Early(w) /\ wpc[w] # "pre"
\* The post functor has run.
Gone(w) == wpc[w] \in {"posted", "finished"}

\* Where the thread is tells what the owner and the stati may say.  The part on
\* a thread that is past its start is about one whose pre functor did not fail.
ThreadInv(w) ==
  /\ Once(queue[w], "fn")
  /\ wpc[w] = "none" <=> opc[w] \in {"new", "spawning"}
  /\ Has(queue[w], "fn") => wpc[w] \in {"torun", "starting", "dispatch"}
  /\ wpc[w] \in {"torun", "starting"} => Has(queue[w], "fn")
  /\ Early(w) =>
       /\ opc[w] \in {"new", "spawning", "spawned", "started"} /\ ~failed[w]
       /\ waitStart => opc[w] # "started"
       /\ tstatus[w] \in {"kNull", "kStarting"} /\ ~Has(queue[w], "stop")
       /\ wpc[w] = "dispatch" => lstatus[w] = "kRunning"
  /\ ~Early(w) /\ ~failed[w] =>
       /\ opc[w] \in {"spawned", "started", "stopping", "loopstop", "queuestop"} =>
            wpc[w] \in {"pre", "dispatch"} /\ ~Has(queue[w], "stop")
       /\ opc[w] \in {"spawned", "started", "stopping", "loopstop"} =>
            lstatus[w] = "kRunning"
       /\ opc[w] \in {"spawned", "started", "stopping"} => tstatus[w] = "kRunning"
       /\ wpc[w] \in {"returned", "posted"} => lstatus[w] = "kStopped"
  /\ tstatus[w] = "kStopped" => wpc[w] = "finished"
  /\ opc[w] = "joined" => wpc[w] = "finished"

Threads == ThreadTypes /\ \A w \in Workers : ThreadInv(w)

-----------------------------------------------------------------------------
(* The pool.                                                               *)

Begun == {"start", "startwait", "started"}
Ended == {"stop", "stopwait", "stopped", "join", "joined"}
PastSet == {w \in 1..num : Past(w)}
GoneSet == {w \in 1..num : Gone(w)}

PoolTypes ==
  /\ num \in 0..MaxThreads /\ threads \in 0..num /\ ppc \in PoolPCs
  /\ pstatus \in ThreadStatus /\ waitStart \in BOOLEAN /\ mode \in Modes
  /\ cb \in BOOLEAN /\ cbCalls \in {0, 1}
  /\ rpc \in {"idle", "reading"} /\ next \in 0..MaxPicks /\ picked \in 0..num

\* The owner of the pool starts, stops and joins the threads one by one.
OwnerInv ==
  /\ \A w \in (num + 1)..MaxThreads : opc[w] = "new"
  /\ ppc = "new" => threads = 0 /\ \A w \in 1..num : opc[w] = "new"
  /\ ppc = "start" =>
       /\ threads < num
       /\ \A w \in 1..num :
            /\ w <= threads => opc[w] = "started"
            /\ w = threads + 1 => opc[w] \in {"new", "spawning", "spawned", "started"}
            /\ w > threads + 1 => opc[w] = "new"
  /\ ppc \in {"startwait", "started"} => \A w \in 1..num : opc[w] = "started"
  /\ ppc = "stop" =>
       \A w \in 1..num :
         opc[w] \in {"started", "stopping", "loopstop", "queuestop", "stopcalled"}
  /\ ppc \in {"stopwait", "stopped"} => \A w \in 1..num : opc[w] = "stopcalled"
  /\ ppc = "join" => \A w \in 1..num : opc[w] \in {"stopcalled", "joined"}
  /\ ppc \in {"startwait", "started", "stop", "stopwait", "stopped", "join"} =>
       threads = num

\* The counters count, and the status follows the counters and the owner.
StatusInv ==
  /\ started = Cardinality(PastSet) /\ exited = Cardinality(GoneSet)
  /\ ppc = "none" =>
       num = 0 /\ pstatus = "kNull" /\ cbCalls = 0 /\ picked = 0 /\ rpc = "idle"
       /\ waitStart /\ mode = "wait"
  /\ ppc = "new" => pstatus = "kNull" /\ picked = 0 /\ rpc = "idle"
  /\ ppc \in Begun => pstatus \in {"kStarting", "kRunning"}
  /\ ppc \in Begun \cup {"new"} => ~cb /\ cbCalls = 0
  /\ ppc = "started" /\ waitStart => pstatus = "kRunning"
  /\ pstatus = "kRunning" => ppc \in Begun /\ PastSet = 1..num
  /\ ppc \in Ended => pstatus \in {"kStopping", "kStopped"} /\ PastSet = 1..num
  /\ ppc \in Begun /\ (rpc = "reading" \/ picked # 0) => pstatus = "kRunning"
  /\ mode = "wait" /\ pstatus = "kStopped" => GoneSet = 1..num
  /\ mode = "wait" /\ ppc \in {"stopped", "join", "joined"} =>
       \A w \in 1..num : wpc[w] = "finished"
  /\ cb => cbCalls = 0
  /\ cbCalls = 1 => GoneSet = 1..num

PoolInv ==
  /\ PoolTypes /\ StatusInv
  /\ ppc # "none" => OwnerInv /\ \A w \in Workers : ~failed[w]

\* The entries of listen_threads_, and the pool of a server.
PortInv ==
  /\ spc # "off" =>
       /\ ports \subseteq Listeners /\ lt \in ports /\ FirstListener \in ports
       /\ waitStart /\ mode = "wait" /\ ppc # "none"
  /\ spc = "off" => ports = {} /\ lt = FirstListener

ServerPCs == {"off", "new", "failed", "inited", "startpool", "startlisten", "startwait",
              "running", "pausing", "paused", "stoppool", "stoplisten", "joinpool",
              "stopped"}
RequestStates ==
  Fates \cup {"none", "open", "queued", "working", "sending", "replying", "dispatch"}
Dispatches ==
  {NoDispatch} \cup [at : {"pick", "forward"}, r : Requests, loop : Workers \cup {0}]

ServerTypes ==
  /\ spc \in ServerPCs
  /\ sstatus \in {"kNull", "kInitializing", "kInitialized", "kStarting",
                  "kRunning", "kStopping", "kStopped"}
  /\ evhttp \in [Listeners -> BOOLEAN] /\ enabled \in [Listeners -> BOOLEAN]
  /\ handlers \in [Listeners -> {"none", "writing", "set"}]
  /\ lpc \in [Listeners -> Dispatches]
  /\ count \in Nat /\ toggles \in 0..MaxToggles
  /\ req \in [Requests -> [at : RequestStates, l : Listeners \cup {0}]]

IInv == Threads /\ PoolInv /\ PortInv /\ ServerTypes

-----------------------------------------------------------------------------
(* The steps of one thread object: its owner's and its own.                *)

Same(v) ==
  /\ tstatus'[v] = tstatus[v] /\ lstatus'[v] = lstatus[v] /\ queue'[v] = queue[v]
  /\ wpc'[v] = wpc[v] /\ opc'[v] = opc[v] /\ failed'[v] = failed[v]

\* The thread is as far as it was, as its pool counts.
Stays(w) ==
  /\ (Past(w)' <=> Past(w)) /\ (Gone(w)' <=> Gone(w))
  /\ wpc[w] = "finished" => wpc'[w] = "finished"

OwnerActs(w) ==
  \/ StartStatus(w) \/ SpawnThread(w) \/ StartReturns(w, waitStart)
  \/ CallStop(w) \/ StopStatus(w) \/ StopLoopStatus(w) \/ StopQueue(w)
  \/ StopReturns(w) \/ Join(w)

ThreadActs(w) == WorkerStep(w) \/ PreSucceeds(w) \/ PreFails(w) \/ RunPost(w)

\* A thread that nothing is done to.
LEMMA SameThread ==
  ASSUME NEW v, ThreadInv(v), Same(v), waitStart' = waitStart
  PROVE  ThreadInv(v)' /\ Stays(v)
  BY DEF ThreadInv, Early, Past, Gone, Stays, Same

\* What the owner of a thread does is to that thread.
LEMMA OwnerTypes ==
  ASSUME ThreadTypes, NEW w \in Workers, OwnerActs(w)
  PROVE  /\ ThreadTypes' /\ failed' = failed
         /\ \A v \in Workers : v # w => Same(v)
<1>1. CASE StartStatus(w)
  BY <1>1, Zenon DEF StartStatus, Owner, ThreadTypes, Same, ThreadStatus, OwnerPCs
<1>2. CASE SpawnThread(w)
  BY <1>2, Zenon DEF SpawnThread, Owner, ThreadTypes, Same, WorkerPCs, OwnerPCs
<1>3. CASE StartReturns(w, waitStart)
  BY <1>3, Zenon DEF StartReturns, Owner, ThreadTypes, Same, OwnerPCs
<1>4. CASE CallStop(w)
  BY <1>4, Zenon DEF CallStop, Owner, ThreadTypes, Same, OwnerPCs
<1>5. CASE StopStatus(w)
  BY <1>5, Zenon DEF StopStatus, Owner, ThreadTypes, Same, ThreadStatus, OwnerPCs
<1>6. CASE StopLoopStatus(w)
  BY <1>6, Zenon DEF StopLoopStatus, Owner, ThreadTypes, Same, LoopStatus, OwnerPCs
<1>7. CASE StopQueue(w)
  <2>1. Append(queue[w], [f |-> "stop"]) \in Seq(Functors)
    BY Posts, FunctorTypes, Zenon DEF ThreadTypes
  <2> QED  BY <1>7, <2>1, Zenon DEF StopQueue, Owner, ThreadTypes, Same, OwnerPCs
<1>8. CASE StopReturns(w)
  BY <1>8, Zenon DEF StopReturns, Owner, ThreadTypes, Same, OwnerPCs
<1>9. CASE Join(w)
  BY <1>9, Zenon DEF Join, ThreadTypes, Same, OwnerPCs
<1> QED  BY <1>1, <1>2, <1>3, <1>4, <1>5, <1>6, <1>7, <1>8, <1>9, Zenon DEF OwnerActs

\* The owner keeps the invariant of the thread, if Stop is called only of a
\* thread that has started.
LEMMA OwnerKeeps ==
  ASSUME ThreadTypes, NEW w \in Workers, ThreadInv(w), OwnerActs(w),
         CallStop(w) => ~Early(w), waitStart' = waitStart
  PROVE  ThreadInv(w)' /\ Stays(w)
<1>1. CASE StartStatus(w)
  <2>1. opc[w] = "new"
    BY <1>1, Zenon DEF StartStatus, Owner
  <2>2. /\ tstatus'[w] = "kStarting" /\ opc'[w] = "spawning"
        /\ lstatus'[w] = lstatus[w] /\ queue'[w] = queue[w]
        /\ wpc'[w] = wpc[w] /\ failed'[w] = failed[w]
    BY <1>1, Zenon DEF StartStatus, Owner, ThreadTypes
  <2> QED  BY <2>1, <2>2, Zenon DEF ThreadInv, Early, Past, Gone, Stays
<1>2. CASE SpawnThread(w)
  <2>1. opc[w] = "spawning"
    BY <1>2, Zenon DEF SpawnThread, Owner
  <2>2. /\ wpc'[w] = "spawned" /\ opc'[w] = "spawned"
        /\ tstatus'[w] = tstatus[w] /\ lstatus'[w] = lstatus[w]
        /\ queue'[w] = queue[w] /\ failed'[w] = failed[w]
    BY <1>2, Zenon DEF SpawnThread, Owner, ThreadTypes
  <2> QED  BY <2>1, <2>2, Zenon DEF ThreadInv, Early, Past, Gone, Stays
<1>3. CASE StartReturns(w, waitStart)
  <2>1. opc[w] = "spawned" /\ (waitStart => tstatus[w] \in {"kRunning", "kStopping", "kStopped"})
    BY <1>3, Zenon DEF StartReturns, Owner
  <2>2. /\ opc'[w] = "started"
        /\ tstatus'[w] = tstatus[w] /\ lstatus'[w] = lstatus[w] /\ queue'[w] = queue[w]
        /\ wpc'[w] = wpc[w] /\ failed'[w] = failed[w]
    BY <1>3, Zenon DEF StartReturns, Owner, ThreadTypes
  <2> QED  BY <2>1, <2>2, Zenon DEF ThreadInv, Early, Past, Gone, Stays
<1>4. CASE CallStop(w)
  <2>1. opc[w] = "started"
    BY <1>4, Zenon DEF CallStop, Owner
  <2>2. /\ opc'[w] = "stopping"
        /\ tstatus'[w] = tstatus[w] /\ lstatus'[w] = lstatus[w] /\ queue'[w] = queue[w]
        /\ wpc'[w] = wpc[w] /\ failed'[w] = failed[w]
    BY <1>4, Zenon DEF CallStop, Owner, ThreadTypes
  <2> QED  BY <2>1, <2>2, <1>4, Zenon DEF ThreadInv, Early, Past, Gone, Stays
<1>5. CASE StopStatus(w)
  <2>1. opc[w] = "stopping"
    BY <1>5, Zenon DEF StopStatus, Owner
  <2>2. /\ tstatus'[w] = "kStopping" /\ opc'[w] = "loopstop"
        /\ lstatus'[w] = lstatus[w] /\ queue'[w] = queue[w]
        /\ wpc'[w] = wpc[w] /\ failed'[w] = failed[w]
    BY <1>5, Zenon DEF StopStatus, Owner, ThreadTypes
  <2> QED  BY <2>1, <2>2, Zenon DEF ThreadInv, Early, Past, Gone, Stays
<1>6. CASE StopLoopStatus(w)
  <2>1. opc[w] = "loopstop"
    BY <1>6, Zenon DEF StopLoopStatus, Owner
  <2>2. /\ lstatus'[w] = "kStopping" /\ opc'[w] = "queuestop"
        /\ tstatus'[w] = tstatus[w] /\ queue'[w] = queue[w]
        /\ wpc'[w] = wpc[w] /\ failed'[w] = failed[w]
    BY <1>6, Zenon DEF StopLoopStatus, Owner, ThreadTypes
  <2> QED  BY <2>1, <2>2, Zenon DEF ThreadInv, Early, Past, Gone, Stays
<1>7. CASE StopQueue(w)
  <2>1. opc[w] = "queuestop"
    BY <1>7, Zenon DEF StopQueue, Owner
  <2>2. /\ queue'[w] = Append(queue[w], [f |-> "stop"]) /\ opc'[w] = "stopcalled"
        /\ tstatus'[w] = tstatus[w] /\ lstatus'[w] = lstatus[w]
        /\ wpc'[w] = wpc[w] /\ failed'[w] = failed[w]
    BY <1>7, Zenon DEF StopQueue, Owner, ThreadTypes
  <2>3. /\ Has(queue'[w], "fn") <=> Has(queue[w], "fn")
        /\ Once(queue[w], "fn") => Once(queue'[w], "fn")
    BY <2>2, Posts, FunctorTypes DEF ThreadTypes
  <2> QED  BY <2>1, <2>2, <2>3, Zenon DEF ThreadInv, Early, Past, Gone, Stays
<1>8. CASE StopReturns(w)
  <2>1. opc[w] = "stopcalled" /\ tstatus[w] = "kStopped"
    BY <1>8, Zenon DEF StopReturns, Owner
  <2>2. /\ opc'[w] = "joining"
        /\ tstatus'[w] = tstatus[w] /\ lstatus'[w] = lstatus[w] /\ queue'[w] = queue[w]
        /\ wpc'[w] = wpc[w] /\ failed'[w] = failed[w]
    BY <1>8, Zenon DEF StopReturns, Owner, ThreadTypes
  <2> QED  BY <2>1, <2>2, Zenon DEF ThreadInv, Early, Past, Gone, Stays
<1>9. CASE Join(w)
  <2>1. opc[w] \in {"started", "stopcalled", "joining"} /\ wpc[w] = "finished"
    BY <1>9, Zenon DEF Join
  <2>2. /\ opc'[w] = "joined"
        /\ tstatus'[w] = tstatus[w] /\ lstatus'[w] = lstatus[w] /\ queue'[w] = queue[w]
        /\ wpc'[w] = wpc[w] /\ failed'[w] = failed[w]
    BY <1>9, Zenon DEF Join, ThreadTypes
  <2> QED  BY <2>1, <2>2, Zenon DEF ThreadInv, Early, Past, Gone, Stays
<1> QED  BY <1>1, <1>2, <1>3, <1>4, <1>5, <1>6, <1>7, <1>8, <1>9, Zenon DEF OwnerActs

\* What a thread does is to itself, and not to what its owner is doing.
LEMMA ThreadStepTypes ==
  ASSUME ThreadTypes, NEW w \in Workers, ThreadActs(w)
  PROVE  /\ ThreadTypes' /\ opc' = opc
         /\ \A v \in Workers : v # w => Same(v)
<1>1. CASE QueueStartFunctor(w)
  <2>1. Append(queue[w], [f |-> "fn"]) \in Seq(Functors)
    BY Posts, FunctorTypes, Zenon DEF ThreadTypes
  <2> QED  BY <1>1, <2>1, Zenon DEF QueueStartFunctor, Worker, ThreadTypes, Same, WorkerPCs
<1>2. CASE LoopStarting(w)
  BY <1>2, Zenon DEF LoopStarting, Worker, LoopStatus, ThreadTypes, Same, WorkerPCs
<1>3. CASE LoopRunning(w)
  BY <1>3, Zenon DEF LoopRunning, Worker, LoopStatus, ThreadTypes, Same, WorkerPCs
<1>4. CASE RunStartFunctor(w)
  <2>1. Tail(queue[w]) \in Seq(Functors)
    BY <1>4, Pops, Zenon DEF ThreadTypes, RunStartFunctor
  <2> QED  BY <1>4, <2>1, Zenon DEF RunStartFunctor, ThreadStatus, ThreadTypes, Same, WorkerPCs
<1>5. CASE RunStopInLoop(w)
  <2>1. Tail(queue[w]) \in Seq(Functors)
    BY <1>5, Pops, Zenon DEF ThreadTypes, RunStopInLoop
  <2> QED  BY <1>5, <2>1, Zenon DEF RunStopInLoop, Worker, ThreadTypes, Same, WorkerPCs
<1>6. CASE DrainStop(w)
  <2>1. Tail(queue[w]) \in Seq(Functors)
    BY <1>6, Pops, Zenon DEF ThreadTypes, DrainStop
  <2> QED  BY <1>6, <2>1, Zenon DEF DrainStop, ThreadTypes, Same
<1>7. CASE LoopLeaves(w)
  BY <1>7, Zenon DEF LoopLeaves, Worker, ThreadTypes, Same, WorkerPCs
<1>8. CASE LoopStopped(w)
  BY <1>8, Zenon DEF LoopStopped, Worker, LoopStatus, ThreadTypes, Same, WorkerPCs
<1>9. CASE ThreadStopped(w)
  BY <1>9, Zenon DEF ThreadStopped, Worker, ThreadStatus, ThreadTypes, Same, WorkerPCs
<1>10. CASE PreSucceeds(w)
  BY <1>10, Zenon DEF PreSucceeds, Worker, ThreadTypes, Same, WorkerPCs
<1>11. CASE PreFails(w)
  <2>1. Append(queue[w], [f |-> "stop"]) \in Seq(Functors)
    BY Posts, FunctorTypes, Zenon DEF ThreadTypes
  <2> QED  BY <1>11, <2>1, Zenon DEF PreFails, Worker, LoopStatus, ThreadTypes, Same, WorkerPCs
<1>12. CASE RunPost(w)
  BY <1>12, Zenon DEF RunPost, Worker, ThreadTypes, Same, WorkerPCs
<1> QED  BY <1>1, <1>2, <1>3, <1>4, <1>5, <1>6, <1>7, <1>8, <1>9,
            <1>10, <1>11, <1>12, Zenon DEF ThreadActs, WorkerStep

\* A step of the thread in its loop keeps the invariant.
LEMMA WorkerKeeps ==
  ASSUME ThreadTypes, NEW w \in Workers, ThreadInv(w), WorkerStep(w), waitStart' = waitStart
  PROVE  ThreadInv(w)' /\ Stays(w) /\ failed' = failed
<1> SUFFICES ThreadInv(w)' /\ Stays(w)
  BY Zenon DEF WorkerStep, QueueStartFunctor, LoopStarting, LoopRunning, RunStartFunctor,
         RunStopInLoop, DrainStop, LoopLeaves, LoopStopped, ThreadStopped
<1>1. CASE QueueStartFunctor(w)
  <2>1. wpc[w] = "spawned"
    BY <1>1, Zenon DEF QueueStartFunctor, Worker
  <2>2. /\ queue'[w] = Append(queue[w], [f |-> "fn"]) /\ wpc'[w] = "torun"
        /\ tstatus'[w] = tstatus[w] /\ lstatus'[w] = lstatus[w]
        /\ opc'[w] = opc[w] /\ failed'[w] = failed[w]
    BY <1>1, Zenon DEF QueueStartFunctor, Worker, ThreadTypes
  <2>3. /\ Has(queue'[w], "fn") /\ (Has(queue'[w], "stop") <=> Has(queue[w], "stop"))
        /\ Once(queue[w], "fn") /\ ~Has(queue[w], "fn") => Once(queue'[w], "fn")
    BY <2>2, Posts, FunctorTypes DEF ThreadTypes
  <2> QED  BY <2>1, <2>2, <2>3, Zenon DEF ThreadInv, Early, Past, Gone, Stays
<1>2. CASE LoopStarting(w)
  <2>1. wpc[w] = "torun"
    BY <1>2, Zenon DEF LoopStarting, Worker
  <2>2. /\ lstatus'[w] = "kStarting" /\ wpc'[w] = "starting"
        /\ tstatus'[w] = tstatus[w] /\ queue'[w] = queue[w]
        /\ opc'[w] = opc[w] /\ failed'[w] = failed[w]
    BY <1>2, Zenon DEF LoopStarting, Worker, ThreadTypes
  <2> QED  BY <2>1, <2>2, Zenon DEF ThreadInv, Early, Past, Gone, Stays
<1>3. CASE LoopRunning(w)
  <2>1. wpc[w] = "starting"
    BY <1>3, Zenon DEF LoopRunning, Worker
  <2>2. /\ lstatus'[w] = "kRunning" /\ wpc'[w] = "dispatch"
        /\ tstatus'[w] = tstatus[w] /\ queue'[w] = queue[w]
        /\ opc'[w] = opc[w] /\ failed'[w] = failed[w]
    BY <1>3, Zenon DEF LoopRunning, Worker, ThreadTypes
  <2> QED  BY <2>1, <2>2, Zenon DEF ThreadInv, Early, Past, Gone, Stays
<1>4. CASE RunStartFunctor(w)
  <2>1. wpc[w] = "dispatch" /\ queue[w] # <<>> /\ Head(queue[w]).f = "fn"
    BY <1>4, Zenon DEF RunStartFunctor
  <2>2. /\ tstatus'[w] = "kRunning" /\ queue'[w] = Tail(queue[w]) /\ wpc'[w] = "pre"
        /\ lstatus'[w] = lstatus[w] /\ opc'[w] = opc[w]
        /\ failed'[w] = failed[w]
    BY <1>4, Zenon DEF RunStartFunctor, ThreadTypes
  <2>3. /\ Has(queue[w], "fn") /\ (Has(queue'[w], "stop") => Has(queue[w], "stop"))
        /\ Once(queue[w], "fn") => ~Has(queue'[w], "fn") /\ Once(queue'[w], "fn")
    BY <2>1, <2>2, Pops DEF ThreadTypes
  <2> QED  BY <2>1, <2>2, <2>3, Zenon DEF ThreadInv, Early, Past, Gone, Stays
<1>5. CASE RunStopInLoop(w)
  <2>1. wpc[w] = "dispatch" /\ queue[w] # <<>> /\ Head(queue[w]).f = "stop"
    BY <1>5, Zenon DEF RunStopInLoop, Worker
  <2>2. /\ queue'[w] = Tail(queue[w]) /\ wpc'[w] = "draining"
        /\ tstatus'[w] = tstatus[w] /\ lstatus'[w] = lstatus[w]
        /\ opc'[w] = opc[w] /\ failed'[w] = failed[w]
    BY <1>5, Zenon DEF RunStopInLoop, Worker, ThreadTypes
  <2>3. /\ Has(queue[w], "stop") /\ (Has(queue'[w], "fn") <=> Has(queue[w], "fn"))
        /\ Once(queue[w], "fn") => Once(queue'[w], "fn")
    BY <2>1, <2>2, Pops DEF ThreadTypes
  <2> QED  BY <2>1, <2>2, <2>3, Zenon DEF ThreadInv, Early, Past, Gone, Stays
<1>6. CASE DrainStop(w)
  <2>1. wpc[w] = "draining" /\ queue[w] # <<>>
    BY <1>6, Zenon DEF DrainStop
  <2>2. /\ queue'[w] = Tail(queue[w])
        /\ tstatus'[w] = tstatus[w] /\ lstatus'[w] = lstatus[w] /\ wpc'[w] = wpc[w]
        /\ opc'[w] = opc[w] /\ failed'[w] = failed[w]
    BY <1>6, Zenon DEF DrainStop, ThreadTypes
  <2>3. /\ Has(queue'[w], "fn") => Has(queue[w], "fn")
        /\ Once(queue[w], "fn") => Once(queue'[w], "fn")
    BY <2>1, <2>2, Pops DEF ThreadTypes
  <2> QED  BY <2>1, <2>2, <2>3, Zenon DEF ThreadInv, Early, Past, Gone, Stays
<1>7. CASE LoopLeaves(w)
  <2>1. wpc[w] = "draining"
    BY <1>7, Zenon DEF LoopLeaves, Worker
  <2>2. /\ wpc'[w] = "leaving"
        /\ tstatus'[w] = tstatus[w] /\ lstatus'[w] = lstatus[w] /\ queue'[w] = queue[w]
        /\ opc'[w] = opc[w] /\ failed'[w] = failed[w]
    BY <1>7, Zenon DEF LoopLeaves, Worker, ThreadTypes
  <2> QED  BY <2>1, <2>2, Zenon DEF ThreadInv, Early, Past, Gone, Stays
<1>8. CASE LoopStopped(w)
  <2>1. wpc[w] = "leaving"
    BY <1>8, Zenon DEF LoopStopped, Worker
  <2>2. /\ lstatus'[w] = "kStopped" /\ wpc'[w] = "returned"
        /\ tstatus'[w] = tstatus[w] /\ queue'[w] = queue[w]
        /\ opc'[w] = opc[w] /\ failed'[w] = failed[w]
    BY <1>8, Zenon DEF LoopStopped, Worker, ThreadTypes
  <2> QED  BY <2>1, <2>2, Zenon DEF ThreadInv, Early, Past, Gone, Stays
<1>9. CASE ThreadStopped(w)
  <2>1. wpc[w] = "posted"
    BY <1>9, Zenon DEF ThreadStopped, Worker
  <2>2. /\ tstatus'[w] = "kStopped" /\ wpc'[w] = "finished"
        /\ lstatus'[w] = lstatus[w] /\ queue'[w] = queue[w]
        /\ opc'[w] = opc[w] /\ failed'[w] = failed[w]
    BY <1>9, Zenon DEF ThreadStopped, Worker, ThreadTypes
  <2> QED  BY <2>1, <2>2, Zenon DEF ThreadInv, Early, Past, Gone, Stays
<1> QED  BY <1>1, <1>2, <1>3, <1>4, <1>5, <1>6, <1>7, <1>8, <1>9, Zenon DEF WorkerStep

\* The pre functor returns: the thread is past its start.
LEMMA PreKeeps ==
  ASSUME ThreadTypes, NEW w \in Workers, ThreadInv(w), PreSucceeds(w), waitStart' = waitStart
  PROVE  /\ ThreadInv(w)' /\ failed' = failed
         /\ ~Past(w) /\ Past(w)' /\ ~Gone(w) /\ ~Gone(w)'
<1>1. wpc[w] = "pre"
  BY Zenon DEF PreSucceeds, Worker
<1>2. /\ wpc'[w] = "dispatch"
      /\ tstatus'[w] = tstatus[w] /\ lstatus'[w] = lstatus[w] /\ queue'[w] = queue[w]
      /\ opc'[w] = opc[w] /\ failed'[w] = failed[w]
  BY Zenon DEF PreSucceeds, Worker, ThreadTypes
<1> QED  BY <1>1, <1>2, Zenon DEF PreSucceeds, ThreadInv, Early, Past, Gone

\* The pre functor fails.
LEMMA PreFailsKeeps ==
  ASSUME ThreadTypes, NEW w \in Workers, ThreadInv(w), PreFails(w), waitStart' = waitStart
  PROVE  ThreadInv(w)'
<1>1. wpc[w] = "pre"
  BY Zenon DEF PreFails, Worker
<1>2. /\ lstatus'[w] = "kStopping" /\ queue'[w] = Append(queue[w], [f |-> "stop"])
      /\ wpc'[w] = "dispatch" /\ failed'[w] = TRUE
      /\ tstatus'[w] = tstatus[w]
      /\ opc'[w] = opc[w]
  BY Zenon DEF PreFails, Worker, ThreadTypes
<1>3. /\ Has(queue'[w], "fn") <=> Has(queue[w], "fn")
      /\ Once(queue[w], "fn") => Once(queue'[w], "fn")
  BY <1>2, Posts, FunctorTypes DEF ThreadTypes
<1> QED  BY <1>1, <1>2, <1>3, Zenon DEF PreFails, ThreadInv, Early, Past, Gone

\* The post functor has run: the thread is gone.
LEMMA PostKeeps ==
  ASSUME ThreadTypes, NEW w \in Workers, ThreadInv(w), RunPost(w), waitStart' = waitStart
  PROVE  /\ ThreadInv(w)' /\ failed' = failed
         /\ Past(w) /\ Past(w)' /\ ~Gone(w) /\ Gone(w)'
         /\ ~failed[w] => opc[w] \notin {"new", "spawning", "spawned", "started", "stopping"}
<1>1. wpc[w] = "returned"
  BY Zenon DEF RunPost, Worker
<1>2. /\ wpc'[w] = "posted"
      /\ tstatus'[w] = tstatus[w] /\ lstatus'[w] = lstatus[w] /\ queue'[w] = queue[w]
      /\ opc'[w] = opc[w] /\ failed'[w] = failed[w]
  BY Zenon DEF RunPost, Worker, ThreadTypes
<1> QED  BY <1>1, <1>2, Zenon DEF RunPost, ThreadInv, Early, Past, Gone

\* A step of one thread or of its owner keeps the invariants of all threads.
LEMMA ThreadsKeep ==
  ASSUME Threads, NEW w \in Workers, waitStart' = waitStart,
         ThreadTypes', \A v \in Workers : v # w => Same(v), ThreadInv(w)'
  PROVE  /\ Threads'
         /\ \A v \in Workers : v # w => Stays(v)
<1>1. ASSUME NEW v \in Workers, v # w
      PROVE  ThreadInv(v)' /\ Stays(v)
  BY <1>1, SameThread, Zenon DEF Threads
<1>2. ASSUME NEW v \in Workers
      PROVE  ThreadInv(v)'
  BY <1>1, <1>2, Zenon
<1>3. (\A v \in Workers : ThreadInv(v))'
  BY <1>2, Zenon
<1> QED  BY <1>1, <1>3, Zenon DEF Threads

\* A step that leaves the threads alone.
LEMMA ThreadsSame ==
  ASSUME Threads, UNCHANGED threadVars, waitStart' = waitStart
  PROVE  Threads' /\ \A v \in Workers : Stays(v)
<1>1. ThreadTypes'
  BY Zenon DEF Threads, ThreadTypes, threadVars
<1>2. ASSUME NEW v \in Workers
      PROVE  ThreadInv(v)' /\ Stays(v)
  <2>1. Same(v)
    BY Zenon DEF Same, threadVars
  <2> QED  BY <2>1, SameThread, Zenon DEF Threads
<1>3. (\A v \in Workers : ThreadInv(v))'
  BY <1>2, Zenon
<1> QED  BY <1>1, <1>2, <1>3, Zenon DEF Threads

\* A step that posts or runs a functor other than the two of EventLoopThread.
LEMMA QueuesKeep ==
  ASSUME Threads, UNCHANGED <<tstatus, lstatus, wpc, opc, failed, waitStart>>,
         queue' \in [Workers -> Seq(Functors)],
         \A v \in Workers :
           /\ Has(queue'[v], "fn") <=> Has(queue[v], "fn")
           /\ Has(queue'[v], "stop") <=> Has(queue[v], "stop")
           /\ Once(queue[v], "fn") => Once(queue'[v], "fn")
  PROVE  Threads' /\ \A v \in Workers : Stays(v)
<1>1. ThreadTypes'
  BY Zenon DEF Threads, ThreadTypes
<1>2. ASSUME NEW v \in Workers
      PROVE  ThreadInv(v)' /\ Stays(v)
  <2>1. ThreadInv(v)
    BY Zenon DEF Threads
  <2> QED  BY <2>1, Zenon DEF ThreadInv, Early, Past, Gone, Stays
<1>3. (\A v \in Workers : ThreadInv(v))'
  BY <1>2, Zenon
<1> QED  BY <1>1, <1>2, <1>3, Zenon DEF Threads

-----------------------------------------------------------------------------
(* The steps of the pool.                                                  *)

\* Sets of pool threads and how many there are in them.
LEMMA Counts ==
  ASSUME NEW n \in Nat, NEW S \in SUBSET (1..n)
  PROVE  /\ IsFiniteSet(S) /\ Cardinality(S) \in 0..n
         /\ Cardinality(S) = n <=> S = 1..n
<1>1. IsFiniteSet(1..n) /\ Cardinality(1..n) = n
  BY FS_Interval
<1>2. IsFiniteSet(S) /\ Cardinality(S) <= n /\ (Cardinality(S) = n => S = 1..n)
  BY <1>1, FS_Subset, Zenon
<1>3. Cardinality(S) \in Nat
  BY <1>2, FS_CardinalityType, Zenon
<1> QED  BY <1>1, <1>2, <1>3

\* One more thread is in such a set.
LEMMA CountsOneMore ==
  ASSUME NEW n \in Nat, NEW S \in SUBSET (1..n), NEW w, w \notin S
  PROVE  Cardinality(S \cup {w}) = Cardinality(S) + 1
  BY Counts, FS_AddElement, Zenon

\* The threads of the pool are thread objects.
LEMMA PoolWorkers ==
  ASSUME PoolTypes
  PROVE  \A w \in 1..num : w \in Workers /\ w \in 1..MaxThreads
  BY PoolAssumption DEF PoolTypes

\* No thread is further than it was.
LEMMA SetsSame ==
  ASSUME num' = num, \A w \in 1..num : Stays(w)
  PROVE  PastSet' = PastSet /\ GoneSet' = GoneSet
  BY Zenon DEF PastSet, GoneSet, Stays

\* The owner of the pool does nothing.
LEMMA OwnerFrame ==
  ASSUME PoolTypes, OwnerInv, UNCHANGED <<num, threads, ppc>>,
         \A w \in 1..MaxThreads : opc'[w] = opc[w]
  PROVE  OwnerInv'
<1>1. /\ \A w \in 1..num : opc'[w] = opc[w]
      /\ \A w \in (num + 1)..MaxThreads : opc'[w] = opc[w]
  BY PoolAssumption DEF PoolTypes
<1> QED  BY <1>1 DEF OwnerInv

\* Only the threads take a step, and none that the pool counts.
LEMMA PoolFrame ==
  ASSUME PoolInv, UNCHANGED poolVars, \A w \in 1..num : Stays(w),
         ppc # "none" => OwnerInv' /\ failed' = failed
  PROVE  PoolInv'
<1>1. PoolTypes'
  BY Zenon DEF PoolInv, PoolTypes, poolVars
<1>2. PastSet' = PastSet /\ GoneSet' = GoneSet
  BY SetsSame, Zenon DEF poolVars
<1>3. \A w \in 1..num : wpc[w] = "finished" => wpc'[w] = "finished"
  BY Zenon DEF Stays
<1>4. StatusInv'
  BY <1>2, <1>3, Zenon DEF PoolInv, StatusInv, poolVars
<1> QED  BY <1>1, <1>4, Zenon DEF PoolInv, poolVars

\* Start of the pool is called.
LEMMA StartKeeps ==
  ASSUME Threads, PoolInv, Start
  PROVE  Threads' /\ PoolInv'
<1>1. Threads' /\ \A w \in Workers : Stays(w)
  BY ThreadsSame, Zenon DEF Start
<1>2. PastSet' = PastSet /\ GoneSet' = GoneSet
  BY <1>1, SetsSame, PoolWorkers, Zenon DEF PoolInv, Start
<1>3. num = 0 => PastSet = 1..num
  BY DEF PastSet
<1>4. PoolTypes'
  BY Zenon DEF Start, PoolInv, PoolTypes, PoolPCs, ThreadStatus
<1>5. StatusInv'
  BY <1>2, <1>3, Zenon DEF Start, PoolInv, PoolTypes, StatusInv, Begun, Ended
<1>6. OwnerInv'
  BY DEF Start, PoolInv, PoolTypes, OwnerInv, threadVars
<1>7. failed' = failed
  BY Zenon DEF Start, threadVars
<1> QED  BY <1>1, <1>4, <1>5, <1>6, <1>7, Zenon DEF PoolInv, Start

\* A step of the pool's owner in the methods of one thread.
LEMMA PoolOwnerActs ==
  ASSUME Threads, PoolInv, UNCHANGED poolVars, ppc # "none",
         NEW w \in 1..num, OwnerActs(w), CallStop(w) => ~Early(w), OwnerInv'
  PROVE  Threads' /\ PoolInv'
<1>1. w \in Workers
  BY PoolWorkers, Zenon DEF PoolInv
<1>2. ThreadInv(w)' /\ Stays(w)
  BY <1>1, OwnerKeeps, Zenon DEF Threads, poolVars
<1>3. ThreadTypes' /\ failed' = failed /\ \A v \in Workers : v # w => Same(v)
  BY <1>1, OwnerTypes, Zenon DEF Threads
<1>4. Threads' /\ \A v \in Workers : v # w => Stays(v)
  BY <1>1, <1>2, <1>3, ThreadsKeep, Zenon DEF poolVars
<1>5. \A v \in 1..num : Stays(v)
  BY <1>2, <1>4, PoolWorkers, Zenon DEF PoolInv
<1> QED  BY <1>3, <1>4, <1>5, PoolFrame, Zenon

\* The owner of the pool starts the next thread.
LEMMA StartThreadKeeps ==
  ASSUME Threads, PoolInv, StartThread
  PROVE  Threads' /\ PoolInv'
<1> DEFINE w == threads + 1
<1>1. w \in 1..num /\ w \in Workers /\ UNCHANGED poolVars
  BY PoolAssumption DEF StartThread, PoolInv, PoolTypes
<1>2. OwnerActs(w)
  BY Zenon DEF StartThread, OwnerActs
<1>3. ~CallStop(w) /\ opc'[w] \in {"spawning", "spawned", "started"}
  BY <1>1, Zenon DEF StartThread, StartStatus, SpawnThread, StartReturns, CallStop, Owner,
              Threads, ThreadTypes
<1>4. \A v \in Workers : v # w => opc'[v] = opc[v]
  BY <1>1, <1>2, OwnerTypes, Zenon DEF Threads, Same
<1>5. OwnerInv'
  BY <1>1, <1>3, <1>4, PoolAssumption
  DEF StartThread, PoolInv, PoolTypes, OwnerInv, poolVars
<1> QED  BY <1>1, <1>2, <1>3, <1>5, PoolOwnerActs, Zenon DEF StartThread

\* The thread is put into threads_.
LEMMA PushBackKeeps ==
  ASSUME Threads, PoolInv, PushBack
  PROVE  Threads' /\ PoolInv'
<1>1. Threads' /\ \A w \in Workers : Stays(w)
  BY ThreadsSame, Zenon DEF PushBack
<1>2. PastSet' = PastSet /\ GoneSet' = GoneSet
  BY <1>1, SetsSame, PoolWorkers, Zenon DEF PoolInv, PushBack
<1>3. PoolTypes'
  BY DEF PushBack, PoolInv, PoolTypes, PoolPCs
<1>4. StatusInv'
  BY <1>2, Zenon DEF PushBack, PoolInv, PoolTypes, StatusInv, Begun, Ended
<1>5. OwnerInv'
  BY DEF PushBack, PoolInv, PoolTypes, OwnerInv, threadVars
<1> QED  BY <1>1, <1>3, <1>4, <1>5, Zenon DEF PoolInv, PushBack, threadVars

\* Start of the pool returns.
LEMMA StartDoneKeeps ==
  ASSUME Threads, PoolInv, StartDone
  PROVE  Threads' /\ PoolInv'
<1>1. Threads' /\ \A w \in Workers : Stays(w)
  BY ThreadsSame, Zenon DEF StartDone
<1>2. PastSet' = PastSet /\ GoneSet' = GoneSet
  BY <1>1, SetsSame, PoolWorkers, Zenon DEF PoolInv, StartDone
<1>3. PoolTypes'
  BY Zenon DEF StartDone, Pool, PoolInv, PoolTypes, PoolPCs
<1>4. StatusInv'
  BY <1>2, Zenon DEF StartDone, Pool, PoolInv, PoolTypes, StatusInv, Begun, Ended
<1>5. OwnerInv'
  BY Zenon DEF StartDone, Pool, PoolInv, PoolTypes, OwnerInv, threadVars
<1> QED  BY <1>1, <1>3, <1>4, <1>5, Zenon DEF PoolInv, StartDone, Pool, threadVars

\* Stop of the pool is called.
LEMMA StopKeeps ==
  ASSUME Threads, PoolInv, Stop
  PROVE  Threads' /\ PoolInv'
<1>1. Threads' /\ \A w \in Workers : Stays(w)
  BY ThreadsSame, Zenon DEF Stop
<1>2. PastSet' = PastSet /\ GoneSet' = GoneSet
  BY <1>1, SetsSame, PoolWorkers, Zenon DEF PoolInv, Stop
<1>3. num = 0 => GoneSet = 1..num
  BY DEF GoneSet
<1>4. PoolTypes'
  BY Zenon DEF Stop, PoolInv, PoolTypes, PoolPCs, ThreadStatus
<1>5. StatusInv'
  BY <1>2, <1>3 DEF Stop, PoolInv, PoolTypes, StatusInv, Begun, Ended
<1>6. OwnerInv'
  BY DEF Stop, PoolInv, PoolTypes, OwnerInv, threadVars
<1> QED  BY <1>1, <1>4, <1>5, <1>6, Zenon DEF PoolInv, Stop, threadVars

\* The owner of the pool stops the threads.
LEMMA StopThreadKeeps ==
  ASSUME Threads, PoolInv, StopThread
  PROVE  Threads' /\ PoolInv'
<1>1. PICK w \in 1..num : CallStop(w) \/ StopStatus(w) \/ StopLoopStatus(w) \/ StopQueue(w)
  BY Zenon DEF StopThread
<1>2. w \in Workers /\ UNCHANGED poolVars /\ ppc = "stop"
  BY PoolWorkers, Zenon DEF StopThread, PoolInv
<1>3. OwnerActs(w)
  BY <1>1, Zenon DEF OwnerActs
<1>4. opc'[w] \in {"stopping", "loopstop", "queuestop", "stopcalled"}
  BY <1>1, <1>2, Zenon DEF CallStop, StopStatus, StopLoopStatus, StopQueue, Owner,
                    Threads, ThreadTypes
<1>5. \A v \in Workers : v # w => opc'[v] = opc[v]
  BY <1>2, <1>3, OwnerTypes, Zenon DEF Threads, Same
<1>6. OwnerInv'
  BY <1>1, <1>2, <1>4, <1>5, PoolAssumption DEF PoolInv, PoolTypes, OwnerInv, poolVars
<1>7. ~Early(w)
  BY <1>1, <1>2, Zenon DEF PoolInv, StatusInv, Ended, PastSet, Past
<1> QED  BY <1>1, <1>2, <1>3, <1>6, <1>7, PoolOwnerActs, Zenon

\* Every thread of the pool was told to stop.
LEMMA StopThreadsDoneKeeps ==
  ASSUME Threads, PoolInv, StopThreadsDone
  PROVE  Threads' /\ PoolInv'
<1>1. Threads' /\ \A w \in Workers : Stays(w)
  BY ThreadsSame, Zenon DEF StopThreadsDone
<1>2. PastSet' = PastSet /\ GoneSet' = GoneSet
  BY <1>1, SetsSame, PoolWorkers, Zenon DEF PoolInv, StopThreadsDone
<1>3. PoolTypes'
  BY Zenon DEF StopThreadsDone, Pool, PoolInv, PoolTypes, PoolPCs
<1>4. StatusInv'
  BY <1>2, Zenon DEF StopThreadsDone, Pool, PoolInv, PoolTypes, StatusInv, Begun, Ended
<1>5. OwnerInv'
  BY Zenon DEF StopThreadsDone, Pool, PoolInv, PoolTypes, OwnerInv, threadVars
<1> QED  BY <1>1, <1>3, <1>4, <1>5, Zenon DEF PoolInv, StopThreadsDone, Pool, threadVars

\* Stop of the pool returns: Stop(true) has seen every thread stopped.
LEMMA StopDoneKeeps ==
  ASSUME Threads, PoolInv, StopDone
  PROVE  Threads' /\ PoolInv'
<1>1. Threads' /\ \A w \in Workers : Stays(w)
  BY ThreadsSame, Zenon DEF StopDone
<1>2. PastSet' = PastSet /\ GoneSet' = GoneSet
  BY <1>1, SetsSame, PoolWorkers, Zenon DEF PoolInv, StopDone
<1>3. mode = "wait" => \A w \in 1..num : wpc[w] = "finished"
  BY PoolAssumption DEF StopDone, Threads, ThreadInv, PoolInv, PoolTypes
<1>4. mode = "wait" => GoneSet = 1..num
  BY <1>3, Zenon DEF GoneSet, Gone
<1>5. PoolTypes'
  BY Zenon DEF StopDone, Pool, PoolInv, PoolTypes, PoolPCs, ThreadStatus
<1>6. StatusInv'
  BY <1>2, <1>3, <1>4, Zenon
  DEF StopDone, Pool, PoolInv, PoolTypes, StatusInv, Begun, Ended, threadVars
<1>7. OwnerInv'
  BY Zenon DEF StopDone, Pool, PoolInv, PoolTypes, OwnerInv, threadVars
<1> QED  BY <1>1, <1>5, <1>6, <1>7, Zenon DEF PoolInv, StopDone, Pool, threadVars

\* Join of the pool is called.
LEMMA CallJoinKeeps ==
  ASSUME Threads, PoolInv, CallJoin
  PROVE  Threads' /\ PoolInv'
<1>1. Threads' /\ \A w \in Workers : Stays(w)
  BY ThreadsSame, Zenon DEF CallJoin
<1>2. PastSet' = PastSet /\ GoneSet' = GoneSet
  BY <1>1, SetsSame, PoolWorkers, Zenon DEF PoolInv, CallJoin
<1>3. PoolTypes'
  BY Zenon DEF CallJoin, Pool, PoolInv, PoolTypes, PoolPCs
<1>4. StatusInv'
  BY <1>2, Zenon DEF CallJoin, Pool, PoolInv, PoolTypes, StatusInv, Begun, Ended, threadVars
<1>5. OwnerInv'
  BY Zenon DEF CallJoin, Pool, PoolInv, PoolTypes, OwnerInv, threadVars
<1> QED  BY <1>1, <1>3, <1>4, <1>5, Zenon DEF PoolInv, CallJoin, Pool, threadVars

\* The owner of the pool joins the threads.
LEMMA JoinThreadKeeps ==
  ASSUME Threads, PoolInv, JoinThread
  PROVE  Threads' /\ PoolInv'
<1>1. PICK w \in 1..num : Join(w)
  BY Zenon DEF JoinThread
<1>2. w \in Workers /\ UNCHANGED poolVars /\ ppc = "join"
  BY PoolWorkers, Zenon DEF JoinThread, PoolInv
<1>3. OwnerActs(w)
  BY <1>1, Zenon DEF OwnerActs
<1>4. ~CallStop(w) /\ opc'[w] = "joined"
  BY <1>1, <1>2, Zenon DEF Join, CallStop, Owner, Threads, ThreadTypes
<1>5. \A v \in Workers : v # w => opc'[v] = opc[v]
  BY <1>2, <1>3, OwnerTypes, Zenon DEF Threads, Same
<1>6. OwnerInv'
  BY <1>1, <1>2, <1>4, <1>5, PoolAssumption DEF PoolInv, PoolTypes, OwnerInv, poolVars
<1> QED  BY <1>1, <1>2, <1>3, <1>4, <1>6, PoolOwnerActs, Zenon

\* threads_ is cleared.
LEMMA JoinDoneKeeps ==
  ASSUME Threads, PoolInv, JoinDone
  PROVE  Threads' /\ PoolInv'
<1>1. Threads' /\ \A w \in Workers : Stays(w)
  BY ThreadsSame, Zenon DEF JoinDone
<1>2. PastSet' = PastSet /\ GoneSet' = GoneSet
  BY <1>1, SetsSame, PoolWorkers, Zenon DEF PoolInv, JoinDone
<1>3. PoolTypes'
  BY DEF JoinDone, Pool, PoolInv, PoolTypes, PoolPCs
<1>4. StatusInv'
  BY <1>2, Zenon DEF JoinDone, Pool, PoolInv, PoolTypes, StatusInv, Begun, Ended, threadVars
<1>5. OwnerInv'
  BY Zenon DEF JoinDone, Pool, PoolInv, PoolTypes, OwnerInv, threadVars
<1> QED  BY <1>1, <1>3, <1>4, <1>5, Zenon DEF PoolInv, JoinDone, Pool, threadVars

\* The owner of the pool.
LEMMA OwnerNextKeeps ==
  ASSUME Threads, PoolInv, OwnerNext
  PROVE  Threads' /\ PoolInv'
  BY StartKeeps, StartThreadKeeps, PushBackKeeps, StartDoneKeeps, StopThreadKeeps,
     StopThreadsDoneKeeps, StopDoneKeeps, CallJoinKeeps, JoinThreadKeeps, JoinDoneKeeps, Zenon
  DEF OwnerNext

\* A worker of the pool has run its start functor and the pre functor of the pool.
LEMMA OnThreadStartedKeeps ==
  ASSUME Threads, PoolInv, ppc # "none", NEW w \in 1..MaxThreads, OnThreadStarted(w)
  PROVE  Threads' /\ PoolInv'
<1>1. w \in Workers /\ PreSucceeds(w) /\ wpc[w] = "pre" /\ waitStart' = waitStart
  BY PoolAssumption, Zenon DEF OnThreadStarted, PreSucceeds, Worker
<1>2. /\ ThreadInv(w)' /\ failed' = failed
      /\ ~Past(w) /\ Past(w)' /\ ~Gone(w) /\ ~Gone(w)'
  BY <1>1, PreKeeps, Zenon DEF Threads
<1>3. ThreadTypes' /\ opc' = opc /\ \A v \in Workers : v # w => Same(v)
  BY <1>1, ThreadStepTypes, Zenon DEF Threads, ThreadActs
<1>4. Threads' /\ \A v \in Workers : v # w => Stays(v)
  BY <1>1, <1>2, <1>3, ThreadsKeep, Zenon
<1>5. opc[w] \notin {"new", "spawning"}
  BY <1>1, Zenon DEF Threads, ThreadInv
<1>6. w \in 1..num
  BY <1>5 DEF PoolInv, PoolTypes, OwnerInv
<1>7. PastSet' = PastSet \cup {w} /\ w \notin PastSet
  <2>1. \A v \in 1..num : v # w => (Past(v)' <=> Past(v))
    BY <1>4, PoolWorkers, Zenon DEF PoolInv, Stays
  <2> QED  BY <1>2, <1>6, <2>1, Zenon DEF PastSet, OnThreadStarted
<1>8. GoneSet' = GoneSet
  <2>1. \A v \in 1..num : (Gone(v)' <=> Gone(v))
    BY <1>2, <1>4, PoolWorkers, Zenon DEF PoolInv, Stays
  <2> QED  BY <2>1, Zenon DEF GoneSet, OnThreadStarted
<1>9. PastSet # 1..num /\ PastSet \in SUBSET (1..num) /\ PastSet' \in SUBSET (1..num)
      /\ num \in Nat
  BY <1>6, <1>7 DEF PastSet, PoolInv, PoolTypes
<1>10. started' = Cardinality(PastSet') /\ (started' = num => PastSet' = 1..num)
  BY <1>7, <1>9, Counts, CountsOneMore, Zenon DEF OnThreadStarted, PoolInv, StatusInv
<1>11. ppc \in Begun /\ pstatus = "kStarting"
  BY <1>5, <1>6, <1>9, Zenon
  DEF PoolInv, PoolTypes, PoolPCs, OwnerInv, StatusInv, Begun, Ended
<1>12. PoolTypes'
  BY Zenon DEF OnThreadStarted, PoolInv, PoolTypes, ThreadStatus
<1>13. StatusInv'
  BY <1>8, <1>10, <1>11, Zenon
  DEF OnThreadStarted, PoolInv, PoolTypes, StatusInv, Begun, Ended
<1>14. OwnerInv'
  BY <1>3, OwnerFrame, Zenon DEF OnThreadStarted, PoolInv
<1> QED  BY <1>2, <1>4, <1>12, <1>13, <1>14, Zenon DEF PoolInv, OnThreadStarted

\* A worker of the pool has left its loop and run the post functor of the pool.
LEMMA OnThreadExitedKeeps ==
  ASSUME Threads, PoolInv, ppc # "none", NEW w \in 1..MaxThreads, OnThreadExited(w)
  PROVE  Threads' /\ PoolInv'
<1>1. w \in Workers /\ RunPost(w) /\ wpc[w] = "returned" /\ waitStart' = waitStart
  BY PoolAssumption, Zenon DEF OnThreadExited, RunPost, Worker
<1>2. /\ ThreadInv(w)' /\ failed' = failed
      /\ Past(w) /\ Past(w)' /\ ~Gone(w) /\ Gone(w)'
      /\ opc[w] \notin {"new", "spawning", "spawned", "started", "stopping"}
  BY <1>1, PostKeeps, Zenon DEF Threads, PoolInv
<1>3. ThreadTypes' /\ opc' = opc /\ \A v \in Workers : v # w => Same(v)
  BY <1>1, ThreadStepTypes, Zenon DEF Threads, ThreadActs
<1>4. Threads' /\ \A v \in Workers : v # w => Stays(v)
  BY <1>1, <1>2, <1>3, ThreadsKeep, Zenon
<1>5. w \in 1..num
  BY <1>2 DEF PoolInv, PoolTypes, OwnerInv
<1>6. PastSet' = PastSet
  <2>1. \A v \in 1..num : (Past(v)' <=> Past(v))
    BY <1>2, <1>4, PoolWorkers, Zenon DEF PoolInv, Stays
  <2> QED  BY <2>1, Zenon DEF PastSet, OnThreadExited
<1>7. GoneSet' = GoneSet \cup {w} /\ w \notin GoneSet
  <2>1. \A v \in 1..num : v # w => (Gone(v)' <=> Gone(v))
    BY <1>4, PoolWorkers, Zenon DEF PoolInv, Stays
  <2> QED  BY <1>2, <1>5, <2>1, Zenon DEF GoneSet, OnThreadExited
<1>8. GoneSet # 1..num /\ GoneSet \in SUBSET (1..num) /\ GoneSet' \in SUBSET (1..num)
      /\ num \in Nat
  BY <1>5, <1>7 DEF GoneSet, PoolInv, PoolTypes
<1>9. exited' = Cardinality(GoneSet') /\ (exited' = num => GoneSet' = 1..num)
  BY <1>7, <1>8, Counts, CountsOneMore, Zenon DEF OnThreadExited, PoolInv, StatusInv
<1>10. ppc \in Ended
  BY <1>2, <1>5 DEF PoolInv, PoolTypes, PoolPCs, OwnerInv, Ended
<1>11. cbCalls = 0 /\ (mode = "wait" => pstatus # "kStopped")
       /\ (mode = "wait" => ppc \notin {"stopped", "join", "joined"})
  BY <1>1, <1>5, <1>8, Zenon DEF PoolInv, PoolTypes, StatusInv
<1>12. PoolTypes'
  BY <1>11 DEF OnThreadExited, PoolInv, PoolTypes, ThreadStatus
<1>13. StatusInv'
  <2>1. /\ UNCHANGED <<num, started, ppc, waitStart, mode, rpc, picked>>
        /\ ppc \notin Begun \cup {"none", "new"}
    BY <1>10, Zenon DEF OnThreadExited, Begun, Ended
  <2>2. started = Cardinality(PastSet) /\ PastSet = 1..num
    BY <1>10, Zenon DEF PoolInv, StatusInv
  <2>3. pstatus' \in {"kStopping", "kStopped"}
    BY <1>10, Zenon DEF OnThreadExited, PoolInv, StatusInv
  <2>4. mode = "wait" /\ pstatus' = "kStopped" => GoneSet' = 1..num
    BY <1>9, <1>11, Zenon DEF OnThreadExited
  <2>5. cbCalls' = 0 \/ (~cb' /\ GoneSet' = 1..num)
    BY <1>9, <1>11, Zenon DEF OnThreadExited
  <2>6. (cb' => cbCalls' = 0) /\ (cbCalls' = 1 => GoneSet' = 1..num)
    BY <2>5
  <2>7. pstatus' # "kRunning" /\ ppc' \notin Begun \cup {"none", "new", "started"}
    BY <2>1, <2>3, Zenon DEF Begun
  <2> QED  BY <1>6, <1>9, <1>11, <2>1, <2>2, <2>3, <2>4, <2>6, <2>7, Zenon DEF StatusInv
<1>14. OwnerInv'
  BY <1>3, OwnerFrame, Zenon DEF OnThreadExited, PoolInv
<1> QED  BY <1>2, <1>4, <1>12, <1>13, <1>14, Zenon DEF PoolInv, OnThreadExited

\* A step of a thread that has no pool, or of its owner.
LEMMA AloneKeeps ==
  ASSUME Threads, PoolInv, ppc = "none", UNCHANGED poolVars, NEW w \in Workers,
         ThreadTypes', \A v \in Workers : v # w => Same(v), ThreadInv(w)'
  PROVE  Threads' /\ PoolInv'
<1>1. Threads'
  BY ThreadsKeep, Zenon DEF poolVars
<1>2. num = 0
  BY Zenon DEF PoolInv, StatusInv
<1> QED  BY <1>1, <1>2, PoolFrame

\* A worker.
LEMMA WorkerNextKeeps ==
  ASSUME Threads, PoolInv, NEW w \in 1..MaxThreads, WorkerNext(w)
  PROVE  Threads' /\ PoolInv'
<1>1. w \in Workers /\ ThreadInv(w) /\ ThreadTypes
  BY PoolAssumption, Zenon DEF Threads
<1>2. ASSUME ThreadActs(w)
      PROVE  ThreadTypes' /\ opc' = opc /\ \A v \in Workers : v # w => Same(v)
  BY <1>1, <1>2, ThreadStepTypes, Zenon
<1>3. CASE WorkerStep(w) /\ UNCHANGED poolVars
  <2>1. ThreadInv(w)' /\ Stays(w) /\ failed' = failed
    BY <1>1, <1>3, WorkerKeeps, Zenon DEF poolVars
  <2>2. ThreadTypes' /\ opc' = opc /\ \A v \in Workers : v # w => Same(v)
    BY <1>2, <1>3, Zenon DEF ThreadActs
  <2>3. Threads' /\ \A v \in Workers : v # w => Stays(v)
    BY <1>1, <1>3, <2>1, <2>2, ThreadsKeep, Zenon DEF poolVars
  <2>4. \A v \in 1..num : Stays(v)
    BY <2>1, <2>3, PoolWorkers, Zenon DEF PoolInv
  <2>5. ppc # "none" => OwnerInv'
    BY <1>3, <2>2, OwnerFrame, Zenon DEF PoolInv, poolVars
  <2> QED  BY <1>3, <2>1, <2>3, <2>4, <2>5, PoolFrame, Zenon
<1>4. CASE ppc # "none" /\ (OnThreadStarted(w) \/ OnThreadExited(w))
  BY <1>4, OnThreadStartedKeeps, OnThreadExitedKeeps, Zenon
<1>5. CASE ppc = "none" /\ (PreSucceeds(w) \/ PreFails(w) \/ RunPost(w)) /\ UNCHANGED poolVars
  <2>1. ThreadTypes' /\ \A v \in Workers : v # w => Same(v)
    BY <1>2, <1>5, Zenon DEF ThreadActs
  <2>2. ThreadInv(w)'
    BY <1>1, <1>5, PreKeeps, PreFailsKeeps, PostKeeps, Zenon DEF poolVars
  <2> QED  BY <1>1, <1>5, <2>1, <2>2, AloneKeeps, Zenon
<1> QED  BY <1>3, <1>4, <1>5, Zenon DEF WorkerNext

\* The owner of a thread that has no pool.
LEMMA AloneStepKeeps ==
  ASSUME Threads, PoolInv, NEW w \in 1..MaxThreads, AloneStep(w) \/ AloneMayStep(w)
  PROVE  Threads' /\ PoolInv'
<1>1. w \in Workers /\ ThreadInv(w) /\ ThreadTypes
  BY PoolAssumption, Zenon DEF Threads
<1>2. ppc = "none" /\ UNCHANGED poolVars /\ waitStart = TRUE
  BY Zenon DEF AloneStep, AloneMayStep, PoolInv, StatusInv, PoolTypes
<1>3. OwnerActs(w) /\ (CallStop(w) => ~Early(w))
  <2>1. CASE OwnerStep(w)
    <3>1. OwnerActs(w)
      BY <1>2, <2>1, Zenon DEF OwnerStep, OwnerActs
    <3>2. ~CallStop(w)
      BY <2>1, Zenon DEF OwnerStep, CallStop, Owner, StartStatus, SpawnThread, StartReturns,
                  StopStatus, StopLoopStatus, StopQueue, StopReturns
    <3> QED  BY <3>1, <3>2, Zenon
  <2>2. CASE CanStop(w) /\ CallStop(w)
    BY <1>1, <2>2, Zenon DEF OwnerActs, CanStop, ThreadInv
  <2>3. CASE opc[w] \in {"started", "stopcalled"} /\ Join(w)
    BY <1>1, <2>3, Zenon DEF OwnerActs, Join, Early
  <2> QED  BY <2>1, <2>2, <2>3, Zenon DEF AloneStep, AloneMayStep, OwnerMayStep
<1>4. ThreadInv(w)'
  BY <1>1, <1>2, <1>3, OwnerKeeps, Zenon DEF poolVars
<1>5. ThreadTypes' /\ \A v \in Workers : v # w => Same(v)
  BY <1>1, <1>3, OwnerTypes, Zenon
<1> QED  BY <1>1, <1>2, <1>4, <1>5, AloneKeeps, Zenon

\* A remainder is below the divisor.
LEMMA Remainder ==
  ASSUME NEW a \in Nat, NEW b \in Nat, b > 0
  PROVE  (a % b) + 1 \in 1..b
  OBVIOUS

\* GetNextLoop and GetNextLoopWithHash.
LEMMA PickKeeps ==
  ASSUME Threads, PoolInv,
         GetNextLoopTest \/ GetNextLoopPick
           \/ \E hash \in 1..MaxThreads : GetNextLoopWithHashPick(hash)
  PROVE  Threads' /\ PoolInv'
<1>1. UNCHANGED <<threadVars, num, pstatus, started, exited, threads, ppc, waitStart,
                  mode, cb, cbCalls>>
  BY Zenon DEF GetNextLoopTest, GetNextLoopPick, GetNextLoopWithHashPick
<1>2. Threads' /\ \A w \in Workers : Stays(w)
  BY <1>1, ThreadsSame, Zenon
<1>3. PastSet' = PastSet /\ GoneSet' = GoneSet
  BY <1>1, <1>2, SetsSame, PoolWorkers, Zenon DEF PoolInv
<1>4. /\ picked' \in 0..num /\ rpc' \in {"idle", "reading"} /\ next' \in 0..MaxPicks
      /\ rpc' = "reading" => rpc = "reading" \/ pstatus = "kRunning"
      /\ picked' # 0 => picked' = picked \/ rpc = "reading"
      /\ ppc # "none" /\ (ppc = "new" => picked' = 0 /\ rpc' = "idle")
  <2>1. CASE GetNextLoopTest
    BY <2>1 DEF GetNextLoopTest, PoolInv, PoolTypes, StatusInv, Begun
  <2>2. CASE GetNextLoopPick
    <3>1. (next % threads) + 1 \in 1..threads
      BY <2>2, Remainder, PoolAssumption DEF GetNextLoopPick, PoolInv, PoolTypes
    <3> QED  BY <2>2, <3>1, PoolAssumption
             DEF GetNextLoopPick, PoolInv, PoolTypes, StatusInv
  <2>3. ASSUME NEW hash \in 1..MaxThreads, GetNextLoopWithHashPick(hash)
        PROVE  /\ picked' \in 0..num /\ rpc' \in {"idle", "reading"} /\ next' \in 0..MaxPicks
               /\ rpc' = "reading" => rpc = "reading" \/ pstatus = "kRunning"
               /\ picked' # 0 => picked' = picked \/ rpc = "reading"
               /\ ppc # "none" /\ (ppc = "new" => picked' = 0 /\ rpc' = "idle")
    <3>1. (hash % threads) + 1 \in 1..threads
      BY <2>3, Remainder, PoolAssumption DEF GetNextLoopWithHashPick, PoolInv, PoolTypes
    <3> QED  BY <2>3, <3>1 DEF GetNextLoopWithHashPick, PoolInv, PoolTypes, StatusInv
  <2> QED  BY <2>1, <2>2, <2>3, Zenon
<1>5. PoolTypes'
  BY <1>1, <1>4, Zenon DEF PoolInv, PoolTypes
<1>6. StatusInv'
  BY <1>1, <1>3, <1>4, Zenon DEF PoolInv, PoolTypes, StatusInv, Begun, Ended, threadVars
<1>7. OwnerInv'
  BY <1>1, <1>4, OwnerFrame, Zenon DEF PoolInv, threadVars
<1> QED  BY <1>1, <1>2, <1>5, <1>6, <1>7, Zenon DEF PoolInv, threadVars

-----------------------------------------------------------------------------
(* The steps of the server, as its threads and its pool see them.          *)

\* The listening threads are thread objects, and none of the pool.
LEMMA ListenerWorkers ==
  /\ Cardinality(Listeners) \in Nat
  /\ \A l \in Listeners : l \in Workers /\ l \in Nat /\ l > MaxThreads
<1>1. Cardinality(Listeners) \in Nat
  BY ServerAssumption, FS_CardinalityType, Zenon
<1> QED  BY <1>1, ServerAssumption, PoolAssumption

\* A step of the server alone.
LEMMA VarsSame ==
  ASSUME Threads, PoolInv, UNCHANGED vars
  PROVE  Threads' /\ PoolInv'
<1>1. UNCHANGED threadVars /\ UNCHANGED poolVars /\ waitStart' = waitStart
  BY Zenon DEF vars, poolVars
<1>2. Threads' /\ \A w \in Workers : Stays(w)
  BY <1>1, ThreadsSame, Zenon
<1>3. ppc # "none" => OwnerInv'
  BY <1>1, OwnerFrame, Zenon DEF PoolInv, poolVars, threadVars
<1> QED  BY <1>1, <1>2, <1>3, PoolFrame, PoolWorkers, Zenon DEF PoolInv, threadVars

\* A step that posts or runs functors of the server.
LEMMA QueueStep ==
  ASSUME Threads, PoolInv, UNCHANGED <<tstatus, lstatus, wpc, opc, failed, poolVars>>,
         queue' \in [Workers -> Seq(Functors)],
         \A v \in Workers :
           /\ Has(queue'[v], "fn") <=> Has(queue[v], "fn")
           /\ Has(queue'[v], "stop") <=> Has(queue[v], "stop")
           /\ Once(queue[v], "fn") => Once(queue'[v], "fn")
  PROVE  Threads' /\ PoolInv'
<1>1. waitStart' = waitStart
  BY Zenon DEF poolVars
<1>2. Threads' /\ \A w \in Workers : Stays(w)
  BY <1>1, QueuesKeep, Zenon
<1>3. ppc # "none" => OwnerInv'
  BY OwnerFrame, Zenon DEF PoolInv, poolVars
<1> QED  BY <1>2, <1>3, PoolFrame, PoolWorkers, Zenon DEF PoolInv

\* A functor x of the server is posted to the loops in S.
LEMMA PostStep ==
  ASSUME Threads, PoolInv, UNCHANGED <<tstatus, lstatus, wpc, opc, failed, poolVars>>,
         NEW x \in Functors, x.f # "fn", x.f # "stop", NEW S,
         queue' = [w \in Workers |-> IF w \in S THEN Append(queue[w], x) ELSE queue[w]]
  PROVE  Threads' /\ PoolInv'
<1>1. ASSUME NEW v \in Workers
      PROVE  /\ queue'[v] \in Seq(Functors)
             /\ Has(queue'[v], "fn") <=> Has(queue[v], "fn")
             /\ Has(queue'[v], "stop") <=> Has(queue[v], "stop")
             /\ Once(queue[v], "fn") => Once(queue'[v], "fn")
  <2>1. queue[v] \in Seq(Functors)
    BY Zenon DEF Threads, ThreadTypes
  <2>2. CASE v \in S
    <3>1. queue'[v] = Append(queue[v], x)
      BY <2>2, Zenon
    <3> QED  BY <2>1, <3>1, Posts, Zenon
  <2>3. CASE v \notin S
    <3>1. queue'[v] = queue[v]
      BY <2>3, Zenon
    <3> QED  BY <2>1, <3>1, Zenon
  <2> QED  BY <2>2, <2>3, Zenon
<1>2. queue' \in [Workers -> Seq(Functors)]
  BY <1>1, Zenon
<1> QED  BY <1>1, <1>2, QueueStep, Zenon

\* It is posted to one loop.
LEMMA PostOne ==
  ASSUME Threads, PoolInv, UNCHANGED <<tstatus, lstatus, wpc, opc, failed, poolVars>>,
         NEW x \in Functors, x.f # "fn", x.f # "stop", NEW i,
         queue' = [queue EXCEPT ![i] = Append(@, x)]
  PROVE  Threads' /\ PoolInv'
<1>1. queue' = [w \in Workers |-> IF w \in {i} THEN Append(queue[w], x) ELSE queue[w]]
  BY Zenon DEF Threads, ThreadTypes
<1> QED  BY <1>1, PostStep, Zenon

\* A functor of the server runs in the loop of w.
LEMMA RunStep ==
  ASSUME Threads, PoolInv, NEW w \in Workers, NEW f, Runs(w, f), f # "fn", f # "stop"
  PROVE  Threads' /\ PoolInv'
<1>1. queue[w] \in Seq(Functors) /\ queue[w] # <<>> /\ Head(queue[w]).f = f
  BY Zenon DEF Threads, ThreadTypes, Runs
<1>2. queue'[w] = Tail(queue[w]) /\ \A v \in Workers : v # w => queue'[v] = queue[v]
  BY Zenon DEF Threads, ThreadTypes, Runs
<1>3. /\ queue'[w] \in Seq(Functors)
      /\ Has(queue'[w], "fn") <=> Has(queue[w], "fn")
      /\ Has(queue'[w], "stop") <=> Has(queue[w], "stop")
      /\ Once(queue[w], "fn") => Once(queue'[w], "fn")
  BY <1>1, <1>2, Pops
<1>4. queue' \in [Workers -> Seq(Functors)]
  BY <1>3, Zenon DEF Threads, ThreadTypes, Runs
<1>5. \A v \in Workers :
        /\ Has(queue'[v], "fn") <=> Has(queue[v], "fn")
        /\ Has(queue'[v], "stop") <=> Has(queue[v], "stop")
        /\ Once(queue[v], "fn") => Once(queue'[v], "fn")
  BY <1>2, <1>3, Zenon
<1>6. UNCHANGED <<tstatus, lstatus, wpc, opc, failed, poolVars>>
  BY Zenon DEF Runs
<1> QED  BY <1>4, <1>5, <1>6, QueueStep, Zenon

\* A step of a listening thread or of its owner.
LEMMA ListenerStep ==
  ASSUME Threads, PoolInv, UNCHANGED poolVars, NEW l \in Listeners,
         ThreadTypes', failed' = failed, \A v \in Workers : v # l => Same(v), ThreadInv(l)'
  PROVE  Threads' /\ PoolInv'
<1>1. l \in Workers /\ \A w \in 1..MaxThreads : w \in Workers /\ w # l
  BY ListenerWorkers, PoolAssumption
<1>2. Threads' /\ \A v \in Workers : v # l => Stays(v)
  BY <1>1, ThreadsKeep, Zenon DEF poolVars
<1>3. \A v \in 1..num : Stays(v)
  BY <1>1, <1>2, PoolWorkers, Zenon DEF PoolInv
<1>4. \A w \in 1..MaxThreads : opc'[w] = opc[w]
  BY <1>1, Zenon DEF Same
<1>5. ppc # "none" => OwnerInv'
  BY <1>4, OwnerFrame, Zenon DEF PoolInv, poolVars
<1> QED  BY <1>2, <1>3, <1>5, PoolFrame, Zenon

\* Start and Stop of a listening thread.
LEMMA ListenerOwner ==
  ASSUME Threads, PoolInv, UNCHANGED poolVars, NEW l \in Listeners, OwnerActs(l),
         CallStop(l) => ~Early(l)
  PROVE  Threads' /\ PoolInv'
<1>1. l \in Workers
  BY ListenerWorkers, Zenon
<1>2. ThreadTypes' /\ failed' = failed /\ \A v \in Workers : v # l => Same(v)
  BY <1>1, OwnerTypes, Zenon DEF Threads
<1>3. ThreadInv(l)'
  BY <1>1, OwnerKeeps, Zenon DEF Threads, poolVars
<1> QED  BY <1>2, <1>3, ListenerStep, Zenon

\* The listening thread itself.
LEMMA ListenerThread ==
  ASSUME Threads, PoolInv, UNCHANGED poolVars, NEW l \in Listeners,
         WorkerStep(l) \/ PreSucceeds(l) \/ RunPost(l)
  PROVE  Threads' /\ PoolInv'
<1>1. l \in Workers
  BY ListenerWorkers, Zenon
<1>2. ThreadTypes' /\ \A v \in Workers : v # l => Same(v)
  BY <1>1, ThreadStepTypes, Zenon DEF Threads, ThreadActs
<1>3. ThreadInv(l)' /\ failed' = failed
  BY <1>1, WorkerKeeps, PreKeeps, PostKeeps, Zenon DEF Threads, poolVars
<1> QED  BY <1>2, <1>3, ListenerStep, Zenon

\* The owner of the server.
LEMMA ServerOwnerKeeps ==
  ASSUME IInv, ServerOwner
  PROVE  Threads' /\ PoolInv'
<1> USE DEF IInv
<1>1. CASE InitPort \/ InitFails \/ StartServer \/ PoolStarted \/ RegisterBegin
           \/ RegisterHandlers \/ ServerStarted \/ PoolStopped \/ StopNextListener
           \/ ServerStopped
  BY <1>1, VarsSame, Zenon DEF InitPort, InitFails, StartServer, PoolStarted, RegisterBegin,
     RegisterHandlers, ServerStarted, PoolStopped, StopNextListener, ServerStopped
<1>2. CASE StartListener
  <2>1. lt \in Listeners /\ waitStart = TRUE /\ UNCHANGED poolVars
    BY <1>2, Zenon DEF StartListener, PortInv, PoolInv, PoolTypes
  <2>2. OwnerActs(lt) /\ ~CallStop(lt)
    BY <1>2, <2>1, Zenon DEF StartListener, OwnerActs, StartStatus, SpawnThread, StartReturns,
                      CallStop, Owner
  <2> QED  BY <2>1, <2>2, ListenerOwner, Zenon
<1>3. CASE PostPause
  <2>1. [f |-> "stoppause"] \in Functors
    BY FunctorTypes, Zenon
  <2> QED  BY <1>3, <2>1, PostOne, Zenon DEF PostPause
<1>4. CASE StopPool
  BY <1>4, StopKeeps, Zenon DEF StopPool
<1>5. CASE StopListener
  <2>1. lt \in Listeners /\ waitStart = TRUE /\ UNCHANGED poolVars /\ lt \in Workers
    BY <1>5, ListenerWorkers, Zenon DEF StopListener, PortInv, PoolInv, PoolTypes
  <2>2. OwnerActs(lt)
    BY <1>5, Zenon DEF StopListener, OwnerActs
  <2>3. CallStop(lt) => ~Early(lt)
    BY <2>1, Zenon DEF CallStop, Owner, Threads, ThreadInv
  <2> QED  BY <2>1, <2>2, <2>3, ListenerOwner, Zenon
<1> QED  BY <1>1, <1>2, <1>3, <1>4, <1>5, Zenon DEF ServerOwner

\* A listening thread.
LEMMA ListenerNextKeeps ==
  ASSUME IInv, NEW l \in Listeners, ListenerNext(l)
  PROVE  Threads' /\ PoolInv'
<1> USE DEF IInv
<1>1. CASE (Free(l) /\ WorkerStep(l) /\ UNCHANGED <<poolVars, serverVars>>)
           \/ ListenerPre(l) \/ ListenerPost(l)
  BY <1>1, ListenerThread, Zenon DEF ListenerPre, ListenerPost
<1>2. CASE ServerGetNextLoop(l)
           \/ \E r \in Requests : DefaultHandleRequest(l, r) \/ HandleRequest(l, r)
  BY <1>2, VarsSame, Zenon DEF ServerGetNextLoop, DefaultHandleRequest, HandleRequest
<1>3. CASE Forward(l)
  <2>1. lpc[l].r \in Requests
    <3>1. lpc[l] \in Dispatches /\ lpc[l].at = "forward"
      BY <1>3, Zenon DEF Forward, ServerTypes
    <3> QED  BY <3>1 DEF Dispatches, NoDispatch
  <2>2. CASE UNCHANGED queue
    <3>1. UNCHANGED vars
      BY <1>3, <2>2, Zenon DEF Forward, vars, threadVars
    <3> QED  BY <3>1, VarsSame, Zenon
  <2>3. CASE ~UNCHANGED queue
    <3> DEFINE x == [f |-> "request", r |-> lpc[l].r]
    <3>1. x \in Functors /\ x.f = "request"
      BY <2>1, FunctorTypes, Zenon
    <3>2. /\ queue' = [queue EXCEPT ![lpc[l].loop] = Append(@, x)]
          /\ UNCHANGED <<tstatus, lstatus, wpc, opc, failed, poolVars>>
      BY <1>3, <2>3, Zenon DEF Forward
    <3> HIDE DEF x
    <3> QED  BY <3>1, <3>2, PostOne, Zenon
  <2> QED  BY <2>2, <2>3, Zenon
<1>4. CASE RunPause(l)
  BY <1>4, RunStep, ListenerWorkers, Zenon DEF RunPause
<1>5. CASE RunReply(l)
  BY <1>5, RunStep, ListenerWorkers, Zenon DEF RunReply
<1> QED  BY <1>1, <1>2, <1>3, <1>4, <1>5, Zenon DEF ListenerNext

\* A reply.
LEMMA UserNextKeeps ==
  ASSUME IInv, NEW r \in Requests, UserNext(r)
  PROVE  Threads' /\ PoolInv'
<1> USE DEF IInv
<1>1. CASE SendReplyTest(r) \/ SendReplyInPlace(r)
  BY <1>1, VarsSame, Zenon DEF SendReplyTest, SendReplyInPlace
<1>2. CASE SendReplyPost(r)
  <2>1. [f |-> "reply", r |-> r] \in Functors
    BY FunctorTypes, Zenon
  <2> QED  BY <1>2, <2>1, PostOne, Zenon DEF SendReplyPost
<1> QED  BY <1>1, <1>2, Zenon DEF UserNext

\* The threads and the pool keep their invariants in every step.
LEMMA ThreadsAndPoolKeep ==
  ASSUME IInv, ServerNext
  PROVE  Threads' /\ PoolInv'
<1>1. CASE PoolStep
  BY <1>1, OwnerNextKeeps, Zenon DEF PoolStep, IInv
<1>2. CASE ServerOwner
  BY <1>2, ServerOwnerKeeps, Zenon
<1>3. CASE StopServer
  BY <1>3, VarsSame, Zenon DEF StopServer, IInv
<1>4. ASSUME NEW f \in {"pause", "continue"}, Toggle(f)
      PROVE  Threads' /\ PoolInv'
  <2>1. [f |-> f] \in Functors /\ [f |-> f].f # "fn" /\ [f |-> f].f # "stop"
    BY FunctorTypes, Zenon
  <2> QED  BY <1>4, <2>1, PostStep, Zenon DEF Toggle, IInv
<1>5. ASSUME NEW l \in Listeners, ListenerNext(l) \/ \E r \in Requests : Accept(l, r)
      PROVE  Threads' /\ PoolInv'
  BY <1>5, ListenerNextKeeps, VarsSame, Zenon DEF Accept, IInv
<1>6. ASSUME NEW w \in 1..MaxThreads, PoolWorkerNext(w)
      PROVE  Threads' /\ PoolInv'
  <2>1. CASE WorkerNext(w)
    BY <2>1, WorkerNextKeeps, Zenon DEF IInv
  <2>2. CASE RunRequest(w)
    BY <2>2, RunStep, PoolAssumption, Zenon DEF RunRequest, IInv
  <2> QED  BY <1>6, <2>1, <2>2, Zenon DEF PoolWorkerNext
<1>7. ASSUME NEW r \in Requests, UserNext(r)
      PROVE  Threads' /\ PoolInv'
  BY <1>7, UserNextKeeps, Zenon
<1>8. CASE /\ \/ Stop \/ GetNextLoopTest \/ GetNextLoopPick
              \/ \E hash \in 1..MaxThreads : GetNextLoopWithHashPick(hash)
              \/ \E w \in 1..MaxThreads : AloneStep(w) \/ AloneMayStep(w)
           /\ UNCHANGED serverVars
  BY <1>8, StopKeeps, PickKeeps, AloneStepKeeps, Zenon DEF IInv
<1> QED  BY <1>1, <1>2, <1>3, <1>4, <1>5, <1>6, <1>7, <1>8 DEF ServerNext

\* What a step of the pool's owner leaves alone.
LEMMA OwnerNextEffect ==
  ASSUME OwnerNext \/ Stop
  PROVE  waitStart' = waitStart /\ mode' = mode /\ num' = num /\ ppc' # "none"
<1>1. CASE Start \/ PushBack
  BY <1>1, Zenon DEF Start, PushBack
<1>2. CASE StartThread \/ StopThread \/ JoinThread
  BY <1>2, Zenon DEF StartThread, StopThread, JoinThread, poolVars
<1>3. CASE StartDone \/ StopThreadsDone \/ StopDone \/ CallJoin \/ JoinDone
  BY <1>3, Zenon DEF StartDone, StopThreadsDone, StopDone, CallJoin, JoinDone, Pool
<1>4. CASE Stop
  BY <1>4, Zenon DEF Stop
<1> QED  BY <1>1, <1>2, <1>3, <1>4, Zenon DEF OwnerNext

\* What a step of a worker leaves alone.
LEMMA WorkerNextEffect ==
  ASSUME NEW w, WorkerNext(w)
  PROVE  UNCHANGED <<num, threads, ppc, waitStart, mode>>
  BY Zenon DEF WorkerNext, OnThreadStarted, OnThreadExited, poolVars

\* The owner of the server goes on to the next entry of listen_threads_.
LEMMA NextPortEffect ==
  ASSUME PortInv, NEW at, NEW to, at # "off", to # "off", NextPort(at, to)
  PROVE  spc = at /\ spc' \in {at, to} /\ spc' # "off" /\ lt' \in ports
  BY Zenon DEF NextPort, PortInv

\* The listening threads stay as they are told.
LEMMA PortKeeps ==
  ASSUME IInv, ServerNext
  PROVE  PortInv'
<1> USE DEF IInv
<1>1. ASSUME UNCHANGED <<ports, lt, spc, waitStart, mode>>, ppc # "none" => ppc' # "none"
      PROVE  PortInv'
  BY <1>1, Zenon DEF PortInv
<1>2. ASSUME spc # "off", spc' # "off", lt' \in ports, UNCHANGED <<ports, poolVars>>
      PROVE  PortInv'
  BY <1>2, Zenon DEF PortInv, poolVars
<1>3. CASE PoolStep
  BY <1>1, <1>3, OwnerNextEffect, Zenon DEF PoolStep, serverVars
<1>4. CASE InitPort \/ RegisterHandlers \/ PostPause \/ StopNextListener
  <2>1. \E at, to : at # "off" /\ to # "off" /\ NextPort(at, to)
    BY <1>4, Zenon DEF InitPort, RegisterHandlers, PostPause, StopNextListener
  <2>2. UNCHANGED <<ports, poolVars>>
    BY <1>4, Zenon DEF InitPort, RegisterHandlers, PostPause, StopNextListener, vars
  <2> QED  BY <1>2, <2>1, <2>2, NextPortEffect, Zenon
<1>5. CASE InitFails \/ StartServer \/ PoolStarted \/ ServerStarted \/ PoolStopped
           \/ ServerStopped \/ StopServer
  <2>1. spc # "off" /\ spc' # "off" /\ UNCHANGED <<ports, lt, poolVars>>
    BY <1>5, Zenon DEF InitFails, StartServer, PoolStarted, ServerStarted, PoolStopped,
                ServerStopped, StopServer, Server, vars
  <2> QED  BY <1>2, <2>1, Zenon DEF PortInv
<1>6. CASE StartListener \/ StopListener
  BY <1>1, <1>6, Zenon DEF StartListener, StopListener, poolVars, serverVars
<1>7. CASE RegisterBegin
  BY <1>1, <1>7, Zenon DEF RegisterBegin, vars, poolVars
<1>8. CASE StopPool
  <2>1. /\ spc # "off" /\ spc' # "off" /\ UNCHANGED <<ports, lt, waitStart, mode>>
        /\ ppc' # "none"
    BY <1>8, OwnerNextEffect, Zenon DEF StopPool, Server
  <2> QED  BY <2>1, Zenon DEF PortInv
<1>9. ASSUME NEW f, Toggle(f)
      PROVE  PortInv'
  BY <1>1, <1>9, Zenon DEF Toggle, poolVars
<1>10. ASSUME NEW l, ListenerNext(l) \/ \E r \in Requests : Accept(l, r)
       PROVE  PortInv'
  <2>1. UNCHANGED <<ports, lt, spc, poolVars>>
    BY <1>10, Zenon DEF ListenerNext, Accept, ListenerPre, ListenerPost, ServerGetNextLoop, Forward,
                 RunPause, RunReply, Runs, DefaultHandleRequest, HandleRequest, serverVars,
                 vars
  <2> QED  BY <1>1, <2>1, Zenon DEF poolVars
<1>11. ASSUME NEW w, PoolWorkerNext(w)
       PROVE  PortInv'
  <2>1. CASE WorkerNext(w) /\ UNCHANGED serverVars
    BY <1>1, <2>1, WorkerNextEffect, Zenon DEF serverVars
  <2>2. CASE RunRequest(w)
    BY <1>1, <2>2, Zenon DEF RunRequest, Runs, poolVars
  <2> QED  BY <1>11, <2>1, <2>2, Zenon DEF PoolWorkerNext
<1>12. ASSUME NEW r, UserNext(r)
       PROVE  PortInv'
  <2>1. UNCHANGED <<ports, lt, spc, poolVars>>
    BY <1>12, Zenon DEF UserNext, SendReplyTest, SendReplyPost, SendReplyInPlace, vars
  <2> QED  BY <1>1, <2>1, Zenon DEF poolVars
<1>13. CASE /\ \/ Stop \/ GetNextLoopTest \/ GetNextLoopPick
               \/ \E hash \in 1..MaxThreads : GetNextLoopWithHashPick(hash)
               \/ \E w \in 1..MaxThreads : AloneStep(w) \/ AloneMayStep(w)
            /\ UNCHANGED serverVars
  <2>1. UNCHANGED <<waitStart, mode>> /\ (ppc # "none" => ppc' # "none")
    BY <1>13, OwnerNextEffect, Zenon DEF GetNextLoopTest, GetNextLoopPick,
       GetNextLoopWithHashPick, AloneStep, AloneMayStep, poolVars
  <2> QED  BY <1>1, <1>13, <2>1, Zenon DEF serverVars
<1> QED  BY <1>3, <1>4, <1>5, <1>6, <1>7, <1>8, <1>9, <1>10, <1>11, <1>12, <1>13
         DEF ServerNext, ServerOwner

\* The owner of the server keeps the types.
LEMMA ServerOwnerTypes ==
  ASSUME PortInv, ServerTypes, ServerOwner \/ StopServer
  PROVE  ServerTypes'
<1>1. CASE InitPort
  BY <1>1, Zenon DEF InitPort, NextPort, ServerTypes, ServerPCs
<1>2. CASE InitFails \/ StartServer \/ PoolStarted \/ ServerStarted \/ PoolStopped
           \/ ServerStopped \/ StopServer
  BY <1>2, Zenon DEF InitFails, StartServer, PoolStarted, ServerStarted, PoolStopped,
              ServerStopped, StopServer, Server, ServerTypes, ServerPCs
<1>3. CASE StartListener \/ StopListener
  BY <1>3, Zenon DEF StartListener, StopListener, serverVars, ServerTypes
<1>4. CASE RegisterBegin
  BY <1>4, Zenon DEF RegisterBegin, ServerTypes
<1>5. CASE RegisterHandlers
  BY <1>5, Zenon DEF RegisterHandlers, NextPort, ServerTypes, ServerPCs
<1>6. CASE PostPause
  BY <1>6, Zenon DEF PostPause, NextPort, ServerTypes, ServerPCs
<1>7. CASE StopPool
  BY <1>7, Zenon DEF StopPool, Server, ServerTypes, ServerPCs
<1>8. CASE StopNextListener
  BY <1>8, Zenon DEF StopNextListener, NextPort, ServerTypes, ServerPCs
<1> QED  BY <1>1, <1>2, <1>3, <1>4, <1>5, <1>6, <1>7, <1>8 DEF ServerOwner

\* A request gets somewhere.
LEMMA BecomesType ==
  ASSUME req \in [Requests -> [at : RequestStates, l : Listeners \cup {0}]],
         NEW r, NEW at \in RequestStates, Becomes(r, at)
  PROVE  /\ req' \in [Requests -> [at : RequestStates, l : Listeners \cup {0}]]
         /\ \A q \in Requests : req'[q].l = req[q].l /\ (q # r => req'[q] = req[q])
         /\ r \in Requests => req'[r].at = at
  BY Zenon DEF Becomes

\* A listening thread keeps the types.
LEMMA ListenerTypes ==
  ASSUME Threads, PoolInv, ServerTypes, NEW l \in Listeners,
         ListenerNext(l) \/ \E r \in Requests : Accept(l, r)
  PROVE  ServerTypes'
<1>1. CASE (Free(l) /\ WorkerStep(l) /\ UNCHANGED <<poolVars, serverVars>>) \/ ListenerPre(l)
  BY <1>1, Zenon DEF ListenerPre, serverVars, ServerTypes
<1>2. CASE ListenerPost(l)
  BY <1>2, Zenon DEF ListenerPost, ServerTypes
<1>3. CASE ServerGetNextLoop(l)
  <2>1. lpc[l] \in [at : {"pick", "forward"}, r : Requests, loop : Workers \cup {0}]
    BY <1>3 DEF ServerGetNextLoop, ServerTypes, Dispatches, NoDispatch
  <2>2. PICK i \in Workers \cup {0} :
          lpc' = [lpc EXCEPT ![l] = [@ EXCEPT !.at = "forward", !.loop = i]]
    <3>1. \A w \in 1..threads : w \in Workers
      <4>1. threads \in 0..num /\ num \in 0..MaxThreads
        BY Zenon DEF PoolInv, PoolTypes
      <4>2. \A w \in 1..threads : w \in 1..num
        BY <4>1, PoolAssumption
      <4> QED  BY <4>2, PoolWorkers, Zenon DEF PoolInv
    <3> QED  BY <1>3, <3>1, ListenerWorkers, Zenon DEF ServerGetNextLoop
  <2>3. lpc' \in [Listeners -> Dispatches]
    BY <2>1, <2>2, Zenon DEF ServerTypes, Dispatches
  <2> QED  BY <1>3, <2>3, Zenon DEF ServerGetNextLoop, ServerTypes
<1>4. CASE Forward(l)
  <2>1. lpc' \in [Listeners -> Dispatches]
    BY <1>4, Zenon DEF Forward, ServerTypes, Dispatches
  <2>2. \E at \in RequestStates : Becomes(lpc[l].r, at)
    BY <1>4, Zenon DEF Forward, RequestStates, Fates
  <2>3. req' \in [Requests -> [at : RequestStates, l : Listeners \cup {0}]]
    BY <2>2, BecomesType, Zenon DEF ServerTypes
  <2> QED  BY <1>4, <2>1, <2>3, Zenon DEF Forward, ServerTypes
<1>5. CASE RunPause(l)
  <2>1. count' \in Nat
    <3>1. count' = count \/ count' = count + 1
      BY <1>5, Zenon DEF RunPause
    <3> QED  BY <3>1 DEF ServerTypes
  <2>2. enabled' \in [Listeners -> BOOLEAN]
    BY <1>5, Zenon DEF RunPause, ServerTypes
  <2> QED  BY <1>5, <2>1, <2>2, Zenon DEF RunPause, Runs, ServerTypes
<1>6. CASE RunReply(l)
  <2>1. \E at \in RequestStates : Becomes(Head(queue[l]).r, at)
    BY <1>6, Zenon DEF RunReply, RequestStates, Fates
  <2>2. req' \in [Requests -> [at : RequestStates, l : Listeners \cup {0}]]
    BY <2>1, BecomesType, Zenon DEF ServerTypes
  <2> QED  BY <1>6, <2>2, Zenon DEF RunReply, Runs, ServerTypes
<1>7. ASSUME NEW r \in Requests, DefaultHandleRequest(l, r)
      PROVE  ServerTypes'
  <2>1. req' \in [Requests -> [at : RequestStates, l : Listeners \cup {0}]]
    BY <1>7, BecomesType, Zenon DEF DefaultHandleRequest, ServerTypes, RequestStates, Fates
  <2> QED  BY <1>7, <2>1, Zenon DEF DefaultHandleRequest, ServerTypes
<1>8. ASSUME NEW r \in Requests, HandleRequest(l, r)
      PROVE  ServerTypes'
  <2>1. \E at \in RequestStates : Becomes(r, at)
    BY <1>8, Zenon DEF HandleRequest, RequestStates, Fates
  <2>2. req' \in [Requests -> [at : RequestStates, l : Listeners \cup {0}]]
    BY <2>1, BecomesType, Zenon DEF ServerTypes
  <2>3. lpc' \in [Listeners -> Dispatches]
    BY <1>8 DEF HandleRequest, ServerTypes, Dispatches
  <2> QED  BY <1>8, <2>2, <2>3, Zenon DEF HandleRequest, ServerTypes
<1>9. ASSUME NEW r \in Requests, Accept(l, r)
      PROVE  ServerTypes'
  <2>1. [at |-> "open", l |-> l] \in [at : RequestStates, l : Listeners \cup {0}]
    BY Zenon DEF RequestStates
  <2> QED  BY <1>9, <2>1, Zenon DEF Accept, ServerTypes
<1> QED  BY <1>1, <1>2, <1>3, <1>4, <1>5, <1>6, <1>7, <1>8, <1>9, Zenon DEF ListenerNext

\* The server keeps the types.
LEMMA ServerTypesKeep ==
  ASSUME IInv, ServerNext
  PROVE  ServerTypes'
<1> USE DEF IInv
<1>1. CASE UNCHANGED serverVars
  BY <1>1, Zenon DEF serverVars, ServerTypes
<1>2. CASE ServerOwner \/ StopServer
  BY <1>2, ServerOwnerTypes, Zenon
<1>3. ASSUME NEW f, Toggle(f)
      PROVE  ServerTypes'
  BY <1>3, ServerAssumption DEF Toggle, ServerTypes
<1>4. ASSUME NEW l \in Listeners, ListenerNext(l) \/ \E r \in Requests : Accept(l, r)
      PROVE  ServerTypes'
  BY <1>4, ListenerTypes, Zenon
<1>5. ASSUME NEW w, RunRequest(w)
      PROVE  ServerTypes'
  <2>1. \E at \in RequestStates : Becomes(Head(queue[w]).r, at)
    BY <1>5, Zenon DEF RunRequest, RequestStates, Fates
  <2>2. req' \in [Requests -> [at : RequestStates, l : Listeners \cup {0}]]
    BY <2>1, BecomesType, Zenon DEF ServerTypes
  <2> QED  BY <1>5, <2>2, Zenon DEF RunRequest, Runs, ServerTypes
<1>6. ASSUME NEW r, UserNext(r)
      PROVE  ServerTypes'
  <2>1. \E at \in RequestStates : Becomes(r, at)
    BY <1>6, Zenon DEF UserNext, SendReplyTest, SendReplyPost, SendReplyInPlace,
       RequestStates, Fates
  <2>2. req' \in [Requests -> [at : RequestStates, l : Listeners \cup {0}]]
    BY <2>1, BecomesType, Zenon DEF ServerTypes
  <2> QED  BY <1>6, <2>2, Zenon DEF UserNext, SendReplyTest, SendReplyPost, SendReplyInPlace,
                             ServerTypes
<1> QED  BY <1>1, <1>2, <1>3, <1>4, <1>5, <1>6, Zenon DEF ServerNext, PoolStep, PoolWorkerNext

\* The inductive invariant holds at first.
LEMMA InitIInv ==
  ASSUME ServerInit
  PROVE  IInv
<1> USE DEF ServerInit, Init
<1>1. ThreadTypes
  BY Empties, Zenon DEF ThreadInit, ThreadTypes, ThreadStatus, LoopStatus, WorkerPCs, OwnerPCs
<1>2. ASSUME NEW w \in Workers
      PROVE  ThreadInv(w)
  <2>1. tstatus[w] = "kNull" /\ queue[w] = <<>> /\ wpc[w] = "none" /\ opc[w] = "new"
        /\ failed[w] = FALSE
    BY Zenon DEF ThreadInit
  <2> QED  BY <2>1, Empties, Zenon DEF ThreadInv, Early
<1>3. PoolTypes
  <2>1. /\ num = 0 \/ num \in 0..MaxThreads
        /\ threads = 0 /\ next = 0 /\ picked = 0 /\ cbCalls = 0
    BY Zenon
  <2>2. /\ num \in 0..MaxThreads /\ threads \in 0..num
        /\ next \in 0..MaxPicks /\ picked \in 0..num /\ cbCalls \in {0, 1}
    BY <2>1, PoolAssumption
  <2>3. ppc \in PoolPCs /\ waitStart \in BOOLEAN /\ mode \in Modes
    BY Zenon DEF PoolPCs, Modes
  <2> QED  BY <2>2, <2>3, Zenon DEF PoolTypes, ThreadStatus
<1>4. PastSet = {} /\ GoneSet = {}
  <2>1. \A w \in 1..num : wpc[w] = "none"
    BY <1>3, PoolWorkers, Zenon DEF ThreadInit
  <2> QED  BY <2>1, Zenon DEF PastSet, GoneSet, Past, Gone, Early
<1>5. Cardinality(PastSet) = 0 /\ Cardinality(GoneSet) = 0
  BY <1>4, FS_EmptySet, Zenon
<1>6. StatusInv
  BY <1>5 DEF StatusInv, Begun, Ended
<1>7. ppc # "none" => OwnerInv
  <2>1. \A w \in 1..MaxThreads : opc[w] = "new"
    BY PoolAssumption, Zenon DEF ThreadInit
  <2> QED  BY <1>3, <2>1, PoolAssumption DEF OwnerInv, PoolTypes
<1>8. \A w \in Workers : ~failed[w]
  BY Zenon DEF ThreadInit
<1>9. PortInv
  <2>1. CASE spc = "off" /\ ports = {}
    BY <2>1, Zenon DEF PortInv
  <2>2. ASSUME NEW last \in Listeners, ports = FirstListener..last, spc = "new",
               ppc = "new", waitStart = TRUE, mode = "wait"
        PROVE  PortInv
    <3>1. FirstListener \in Nat /\ last \in Nat /\ FirstListener <= last
      BY ListenerWorkers, PoolAssumption DEF FirstListener
    <3>2. ports \subseteq Listeners
      BY <2>2, <3>1, ServerAssumption, ListenerWorkers, PoolAssumption DEF FirstListener
    <3> QED  BY <2>2, <3>1, <3>2 DEF PortInv
  <2> QED  BY <2>1, <2>2, Zenon
<1>10. ServerTypes
  BY ServerAssumption DEF ServerTypes, ServerPCs, Dispatches, RequestStates
<1> QED  BY <1>1, <1>2, <1>3, <1>6, <1>7, <1>8, <1>9, <1>10 DEF IInv, Threads, PoolInv

\* Every step keeps it.
LEMMA NextIInv ==
  ASSUME IInv, [ServerNext]_allVars
  PROVE  IInv'
<1>1. CASE ServerNext
  BY <1>1, ThreadsAndPoolKeep, PortKeeps, ServerTypesKeep, Zenon DEF IInv
<1>2. CASE UNCHANGED allVars
  <2>1. UNCHANGED vars /\ UNCHANGED serverVars
    BY <1>2, Zenon DEF allVars
  <2>2. Threads' /\ PoolInv'
    BY <2>1, VarsSame, Zenon DEF IInv
  <2>3. PortInv' /\ ServerTypes'
    BY <2>1, Zenon DEF IInv, PortInv, ServerTypes, vars, poolVars, serverVars
  <2> QED  BY <2>2, <2>3, Zenon DEF IInv
<1> QED  BY <1>1, <1>2, Zenon

\* The inductive invariant says what the status tells.
LEMMA IInvTells ==
  ASSUME IInv
  PROVE  StatusTellsThreads
<1> USE DEF IInv
<1>1. ASSUME NEW w \in Workers, ~Early(w), ~failed[w],
             opc[w] \in {"spawned", "started", "stopping"}
      PROVE  CanStop(w)
  BY <1>1, Zenon DEF Threads, ThreadInv, CanStop
<1>2. ASSUME pstatus = "kRunning", NEW w \in 1..num
      PROVE  CanStop(w)
  <2>1. w \in Workers /\ w \in 1..MaxThreads
    BY PoolWorkers, Zenon DEF PoolInv
  <2>2. ppc \in Begun /\ ~Early(w) /\ wpc[w] # "none"
    BY <1>2, Zenon DEF PoolInv, StatusInv, PastSet, Past, Early
  <2>3. OwnerInv /\ ~failed[w] /\ opc[w] \notin {"new", "spawning"}
    BY <2>1, <2>2, Zenon DEF PoolInv, Begun, Threads, ThreadInv
  <2>4. opc[w] \in {"spawned", "started"}
    BY <1>2, <2>2, <2>3 DEF OwnerInv, Begun, PoolInv, PoolTypes
  <2> QED  BY <1>1, <2>1, <2>2, <2>3, <2>4, Zenon
<1>3. ASSUME picked # 0, ppc \in {"start", "startwait", "started"}
      PROVE  CanStop(picked)
  <2>1. picked \in 1..num /\ pstatus = "kRunning"
    BY <1>3 DEF PoolInv, PoolTypes, StatusInv, Begun
  <2> QED  BY <1>2, <2>1, Zenon
<1>4. ASSUME ppc = "stop", NEW w \in Workers, opc[w] = "stopping"
      PROVE  CanStop(w)
  <2>1. ~Early(w) /\ ~failed[w]
    BY <1>4, Zenon DEF Threads, ThreadInv, PoolInv
  <2> QED  BY <1>1, <1>4, <2>1, Zenon
<1>5. StartedCanStop(waitStart)
  BY <1>1, Zenon DEF StartedCanStop, Threads, ThreadInv
<1>6. mode = "wait" /\ pstatus = "kStopped" => exited = num
  <2>1. ASSUME GoneSet = 1..num
        PROVE  exited = num
    BY <2>1, Counts DEF PoolInv, PoolTypes, StatusInv
  <2> QED  BY <2>1, Zenon DEF PoolInv, StatusInv
<1>7. cbCalls <= 1 /\ (cbCalls = 1 => \A w \in 1..num : wpc[w] \in {"posted", "finished"})
  BY DEF PoolInv, PoolTypes, StatusInv, GoneSet, Gone
<1>8. LoopStoppedAtExit
  BY Zenon DEF LoopStoppedAtExit, Threads, ThreadInv, Early
<1> QED  BY <1>2, <1>3, <1>4, <1>5, <1>6, <1>7, <1>8 DEF StatusTellsThreads

\* For any number of threads, of listening threads and of requests: the status of a
\* pool and of a thread tells what the threads do.
THEOREM StatusTellsThreadsTheorem == ServerSpec => []StatusTellsThreads
<1>1. ServerInit => IInv
  BY InitIInv, Zenon
<1>2. IInv /\ [ServerNext]_allVars => IInv'
  BY NextIInv, Zenon
<1>3. IInv => StatusTellsThreads
  BY IInvTells, Zenon
<1> QED  BY <1>1, <1>2, <1>3, PTL DEF ServerSpec

-----------------------------------------------------------------------------
(* The server: what its owner, its listening threads and the requests do.  *)

Before == {"new", "failed", "inited", "startpool"}
Open == {"startlisten", "startwait", "running", "pausing", "paused"}
Stopping == {"stoppool", "stoplisten", "joinpool", "stopped"}

\* Where the owner is tells the status of the server and where its pool is.
PhaseInv ==
  /\ spc # "off" => \E last \in Listeners : ports = FirstListener..last
  /\ spc \in {"off", "new", "failed", "inited"} =>
       sstatus \in {"kNull", "kInitializing", "kInitialized"}
  /\ spc \in {"startpool", "startlisten", "startwait"} => sstatus = "kStarting"
  /\ spc = "running" => sstatus = "kRunning"
  /\ spc \in {"pausing", "paused", "stoppool", "stoplisten"} => sstatus = "kStopping"
  /\ spc \in {"joinpool", "stopped"} => sstatus = "kStopped"
  /\ spc \in {"new", "failed", "inited"} => ppc = "new"
  /\ spc = "startpool" => ppc \in {"new"} \cup Begun
  /\ spc \in Open => ppc = "started"
  /\ spc = "stoppool" => ppc \in {"stop", "stopwait", "stopped"}
  /\ spc = "stoplisten" => ppc = "stopped"
  /\ spc = "joinpool" => ppc \in {"stopped", "join", "joined"}
  /\ spc = "stopped" => ppc = "joined"
  /\ spc \in {"inited", "startpool", "startwait", "running", "paused", "stoppool"} =>
       lt = FirstListener

\* The owner starts, stops and joins the listening threads one by one; a Service has
\* its evhttp_ from Init until its thread has run the post functor.
ListenInv ==
  /\ \A l \in Listeners : l \notin ports => opc[l] = "new"
  /\ \A l \in ports :
       /\ spc \in Before => opc[l] = "new"
       /\ spc = "startlisten" =>
            /\ l < lt => opc[l] = "started"
            /\ l = lt => opc[l] \in {"new", "spawning", "spawned", "started"}
            /\ l > lt => opc[l] = "new"
       /\ spc \in {"startwait", "running", "pausing", "paused", "stoppool"} =>
            opc[l] = "started"
       /\ spc = "stoplisten" => (l < lt => opc[l] = "joined") /\ (l > lt => opc[l] = "started")
       /\ spc \in {"joinpool", "stopped"} => opc[l] = "joined"
       /\ spc = "new" /\ l < lt => evhttp[l]
       /\ spc \notin {"off", "new", "failed"} => (evhttp[l] <=> ~Gone(l))
  /\ \A l \in Listeners :
       handlers[l] = "writing" => spc = "startlisten" /\ l = lt /\ opc[l] = "started"

\* Stop has posted its functor to the loop of l.
Told(l) == (spc = "pausing" /\ l < lt) \/ spc \in {"paused"} \cup Stopping
PausedSet == {l \in ports : Told(l) /\ ~Has(queue[l], "stoppause")}

\* Stop counts the listening threads that have run it; one that is in Dispatch has not.
PauseInv ==
  /\ count = Cardinality(PausedSet)
  /\ \A l \in Listeners :
       /\ Once(queue[l], "stoppause")
       /\ Has(queue[l], "stoppause") => l \in ports /\ Told(l)
       /\ ~Free(l) =>
            /\ l \in ports /\ spc \in {"running", "pausing", "paused"}
            /\ Told(l) => Has(queue[l], "stoppause")

Live(w) == wpc[w] \in {"pre", "dispatch", "draining"}

\* A request is in one place, and where it is tells how far the server is.
RequestInv ==
  /\ \A l \in Listeners :
       /\ ~Free(l) => req[lpc[l].r].at # "none"
       /\ lpc[l].at = "forward" => lpc[l].loop \in IF num = 0 THEN {l} ELSE 1..num
  /\ \A r \in Requests :
       /\ req[r].at # "none" => req[r].l \in ports
       /\ \A w \in Workers :
            Names(queue[w], r) => /\ req[r].at # "none"
                                  /\ sstatus \in {"kRunning", "kStopping", "kStopped"}
       /\ req[r].at \in {"dispatch", "discarded", "queued", "working", "sending", "replying"} =>
            sstatus \in {"kRunning", "kStopping", "kStopped"}
       /\ req[r].at = "discarded" => sstatus # "kRunning"
       /\ req[r].at # "unsent"
       /\ req[r].at = "dispatch" => ~Free(req[r].l) /\ lpc[req[r].l].r = r
       /\ req[r].at = "queued" => \E w \in 1..num : Asks(queue[w], r) /\ Live(w)

ServerInv == PhaseInv /\ ListenInv /\ PauseInv /\ RequestInv

-----------------------------------------------------------------------------
(* What a step does to the functors of the server that a queue q holds, which   *)
(* is p after it.                                                               *)

RequestsKept(q, p) ==
  \A r : (Names(p, r) => Names(q, r)) /\ (Asks(q, r) => Asks(p, r))
PausesKept(q, p) ==
  /\ Has(p, "stoppause") <=> Has(q, "stoppause")
  /\ Once(q, "stoppause") => Once(p, "stoppause")

\* The loop of w still has, and will run, the functors that were posted to it.
Carries(w) ==
  /\ RequestsKept(queue[w], queue'[w]) /\ PausesKept(queue[w], queue'[w])
  /\ Live(w) => Live(w)' \/ queue[w] = <<>>

\* A functor without a request is posted.
LEMMA PostedKept ==
  ASSUME NEW q \in Seq(Functors), NEW f \in {"fn", "stop", "pause", "continue", "stoppause"}
  PROVE  /\ RequestsKept(q, Append(q, [f |-> f]))
         /\ f # "stoppause" => PausesKept(q, Append(q, [f |-> f]))
<1> DEFINE x == [f |-> f]
<1>1. x \in Functors /\ x.f = f
  BY FunctorTypes, Zenon
<1>2. \A r : ~About(x, r)
  BY <1>1, Zenon DEF About
<1> HIDE DEF x
<1>3. RequestsKept(q, Append(q, x)) /\ (f # "stoppause" => PausesKept(q, Append(q, x)))
  BY <1>1, <1>2, Posts, Zenon DEF RequestsKept, PausesKept
<1> QED  BY <1>3, Zenon DEF x

\* A functor is run that is neither Stop's nor a request.
LEMMA RunKept ==
  ASSUME NEW q \in Seq(Functors), q # <<>>, Head(q).f \notin {"stoppause", "request"}
  PROVE  RequestsKept(q, Tail(q)) /\ PausesKept(q, Tail(q))
<1>1. \A r : Head(q) # [f |-> "request", r |-> r]
  OBVIOUS
<1> QED  BY <1>1, Pops, Zenon DEF RequestsKept, PausesKept

\* Nothing is done to the loop of w.
LEMMA SameCarries ==
  ASSUME NEW w, queue'[w] = queue[w], wpc'[w] = wpc[w]
  PROVE  Carries(w)
  BY Zenon DEF Carries, RequestsKept, PausesKept, Live

\* The steps of EventLoopThread are about its own functors.
LEMMA ThreadCarries ==
  ASSUME Threads, NEW w \in Workers, OwnerActs(w) \/ ThreadActs(w)
  PROVE  Carries(w) /\ \A v \in Workers : v # w => Same(v) /\ Carries(v)
<1>1. ThreadTypes /\ queue[w] \in Seq(Functors) /\ ThreadInv(w)
  BY Zenon DEF Threads, ThreadTypes
<1>2. \A v \in Workers : v # w => Same(v) /\ Carries(v)
  <2>1. \A v \in Workers : v # w => Same(v)
    BY <1>1, OwnerTypes, ThreadStepTypes, Zenon
  <2> QED  BY <2>1, SameCarries, Zenon DEF Same
<1> SUFFICES Carries(w)
  BY <1>2, Zenon
<1>3. ASSUME queue'[w] = queue[w], Live(w) => Live(w)' \/ queue[w] = <<>>
      PROVE  Carries(w)
  BY <1>3, Zenon DEF Carries, RequestsKept, PausesKept
<1>4. ASSUME NEW f \in {"fn", "stop"}, queue'[w] = Append(queue[w], [f |-> f]),
             Live(w) => Live(w)'
      PROVE  Carries(w)
  BY <1>1, <1>4, PostedKept, Zenon DEF Carries
<1>5. ASSUME queue[w] # <<>>, Head(queue[w]).f \in {"fn", "stop"},
             queue'[w] = Tail(queue[w]), Live(w) => Live(w)'
      PROVE  Carries(w)
  BY <1>1, <1>5, RunKept, Zenon DEF Carries
<1>6. CASE StartStatus(w) \/ StartReturns(w, waitStart) \/ CallStop(w) \/ StopStatus(w)
           \/ StopLoopStatus(w) \/ StopReturns(w) \/ Join(w)
  BY <1>3, <1>6, Zenon DEF StartStatus, StartReturns, CallStop, StopStatus, StopLoopStatus,
     StopReturns, Join, Live
<1>7. CASE SpawnThread(w)
  <2>1. wpc[w] = "none" /\ queue'[w] = queue[w]
    BY <1>1, <1>7, Zenon DEF SpawnThread, Owner, ThreadInv
  <2> QED  BY <1>3, <2>1, Zenon DEF Live
<1>8. CASE StopQueue(w)
  BY <1>1, <1>4, <1>8, Zenon DEF StopQueue, ThreadTypes, Live
<1>9. CASE QueueStartFunctor(w)
  BY <1>1, <1>4, <1>9, Zenon DEF QueueStartFunctor, Worker, ThreadTypes, Live
<1>10. CASE PreFails(w)
  BY <1>1, <1>4, <1>10, Zenon DEF PreFails, Worker, ThreadTypes, Live
<1>11. CASE LoopStarting(w) \/ LoopRunning(w) \/ LoopLeaves(w) \/ LoopStopped(w)
            \/ ThreadStopped(w) \/ PreSucceeds(w) \/ RunPost(w)
  BY <1>1, <1>3, <1>11, Zenon DEF LoopStarting, LoopRunning, LoopLeaves, LoopStopped,
     ThreadStopped, PreSucceeds, RunPost, Worker, ThreadTypes, Live
<1>12. CASE RunStartFunctor(w)
  BY <1>1, <1>5, <1>12, Zenon DEF RunStartFunctor, ThreadTypes, Live
<1>13. CASE RunStopInLoop(w)
  BY <1>1, <1>5, <1>13, Zenon DEF RunStopInLoop, Worker, ThreadTypes, Live
<1>14. CASE DrainStop(w)
  BY <1>1, <1>5, <1>14, Zenon DEF DrainStop, ThreadTypes, Live
<1>15. OwnerActs(w) => Carries(w)
  BY <1>6, <1>7, <1>8, Zenon DEF OwnerActs
<1>16. ThreadActs(w) => Carries(w)
  BY <1>9, <1>10, <1>11, <1>12, <1>13, <1>14, Zenon DEF ThreadActs, WorkerStep
<1> QED  BY <1>15, <1>16, Zenon

\* A step of the pool, of its threads or of a thread alone: the server and the
\* listening threads are not touched, and no functor of theirs is lost.
Below ==
  /\ UNCHANGED serverVars /\ num' = num
  /\ \A w \in Workers : Carries(w)
  /\ \A l \in Listeners : Same(l)

LEMMA BelowTheServer ==
  ASSUME IInv, UNCHANGED serverVars, num' = num,
         \/ UNCHANGED threadVars
         \/ \E w \in 1..MaxThreads : OwnerActs(w) \/ ThreadActs(w)
  PROVE  Below
<1>1. CASE UNCHANGED threadVars
  <2>1. \A w \in Workers : Carries(w)
    BY <1>1, SameCarries, Zenon DEF threadVars
  <2>2. \A l \in Listeners : Same(l)
    BY <1>1, Zenon DEF threadVars, Same
  <2> QED  BY <2>1, <2>2, Zenon DEF Below
<1>2. ASSUME NEW w \in 1..MaxThreads, OwnerActs(w) \/ ThreadActs(w)
      PROVE  Below
  <2>1. w \in Workers
    BY PoolAssumption, Zenon
  <2>2. \A l \in Listeners : l \in Workers /\ l # w
    BY ListenerWorkers, PoolAssumption
  <2>3. Carries(w) /\ \A v \in Workers : v # w => Same(v) /\ Carries(v)
    BY <1>2, <2>1, ThreadCarries, Zenon DEF IInv
  <2> QED  BY <2>2, <2>3, Zenon DEF Below
<1> QED  BY <1>1, <1>2, Zenon

\* The steps of this kind.
LEMMA StepsBelow ==
  ASSUME IInv, UNCHANGED serverVars,
         \/ OwnerNext \/ Stop \/ GetNextLoopTest \/ GetNextLoopPick
         \/ \E hash \in 1..MaxThreads : GetNextLoopWithHashPick(hash)
         \/ \E w \in 1..MaxThreads : WorkerNext(w) \/ AloneStep(w) \/ AloneMayStep(w)
  PROVE  Below
<1>1. CASE Start \/ PushBack \/ StartDone \/ StopThreadsDone \/ StopDone \/ CallJoin
           \/ JoinDone \/ Stop
  <2>1. UNCHANGED <<threadVars, num>>
    BY <1>1, Zenon DEF Start, PushBack, StartDone, StopThreadsDone, StopDone, CallJoin,
       JoinDone, Stop
  <2> QED  BY <2>1, BelowTheServer, Zenon
<1>2. CASE StartThread
  <2>1. threads + 1 \in 1..MaxThreads
    BY <1>2, PoolAssumption DEF StartThread, IInv, PoolInv, PoolTypes
  <2>2. OwnerActs(threads + 1) /\ num' = num
    BY <1>2, Zenon DEF StartThread, OwnerActs, poolVars
  <2> QED  BY <2>1, <2>2, BelowTheServer, Zenon
<1>3. CASE StopThread \/ JoinThread
  <2>1. PICK w \in 1..num : OwnerActs(w)
    BY <1>3, Zenon DEF StopThread, JoinThread, OwnerActs
  <2>2. w \in 1..MaxThreads
    BY PoolWorkers, Zenon DEF IInv, PoolInv
  <2>3. num' = num
    BY <1>3, Zenon DEF StopThread, JoinThread, poolVars
  <2> QED  BY <2>1, <2>2, <2>3, BelowTheServer, Zenon
<1>4. CASE \/ GetNextLoopTest \/ GetNextLoopPick
           \/ \E hash \in 1..MaxThreads : GetNextLoopWithHashPick(hash)
  <2>1. UNCHANGED <<threadVars, num>>
    BY <1>4, Zenon DEF GetNextLoopTest, GetNextLoopPick, GetNextLoopWithHashPick
  <2> QED  BY <2>1, BelowTheServer, Zenon
<1>5. ASSUME NEW w \in 1..MaxThreads, WorkerNext(w)
      PROVE  Below
  <2>1. ThreadActs(w)
    BY <1>5, Zenon DEF WorkerNext, OnThreadStarted, OnThreadExited, ThreadActs
  <2> QED  BY <1>5, <2>1, WorkerNextEffect, BelowTheServer, Zenon
<1>6. ASSUME NEW w \in 1..MaxThreads, AloneStep(w) \/ AloneMayStep(w)
      PROVE  Below
  <2>1. waitStart = TRUE /\ num' = num
    BY <1>6, Zenon DEF AloneStep, AloneMayStep, IInv, PoolInv, StatusInv, PoolTypes, poolVars
  <2>2. OwnerActs(w)
    BY <1>6, <2>1, Zenon DEF AloneStep, AloneMayStep, OwnerStep, OwnerMayStep, OwnerActs
  <2> QED  BY <2>1, <2>2, BelowTheServer, Zenon
<1> QED  BY <1>1, <1>2, <1>3, <1>4, <1>5, <1>6, Zenon DEF OwnerNext

-----------------------------------------------------------------------------
(* The owner of the server and its pool.                                   *)

\* Where the owner of the pool goes on its own.
LEMMA PoolMoves ==
  ASSUME OwnerNext
  PROVE  \/ ppc = "new" /\ ppc' \in Begun
         \/ ppc \in {"start", "startwait"} /\ ppc' \in Begun
         \/ ppc \in {"stop", "stopwait"} /\ ppc' \in {"stop", "stopwait", "stopped"}
         \/ ppc = "stopped" /\ ppc' = "join"
         \/ ppc = "join" /\ ppc' \in {"join", "joined"}
<1>1. CASE Start
  BY <1>1, Zenon DEF Start, Begun
<1>2. CASE StartThread \/ StopThread \/ JoinThread
  BY <1>2, Zenon DEF StartThread, StopThread, JoinThread, poolVars, Begun
<1>3. CASE PushBack
  BY <1>3, Zenon DEF PushBack, Begun
<1>4. CASE StartDone \/ StopThreadsDone \/ StopDone \/ CallJoin \/ JoinDone
  BY <1>4, Zenon DEF StartDone, StopThreadsDone, StopDone, CallJoin, JoinDone, Pool, Begun
<1> QED  BY <1>1, <1>2, <1>3, <1>4, Zenon DEF OwnerNext

\* The steps of the owner that only move it on.
Moves(at, to) == spc = at /\ spc' = to /\ UNCHANGED <<ports, lt, evhttp, handlers>>

LEMMA OwnerMoves ==
  /\ InitFails => Moves("new", "failed") /\ sstatus' = "kInitializing" /\ UNCHANGED vars
  /\ StartServer => Moves("inited", "startpool") /\ sstatus' = "kStarting" /\ UNCHANGED vars
  /\ PoolStarted => /\ Moves("startpool", "startlisten") /\ ppc = "started"
                    /\ UNCHANGED sstatus /\ UNCHANGED vars
  /\ ServerStarted => Moves("startwait", "running") /\ sstatus' = "kRunning" /\ UNCHANGED vars
  /\ StopServer => Moves("running", "pausing") /\ sstatus' = "kStopping" /\ UNCHANGED vars
  /\ StopPool => /\ Moves("paused", "stoppool") /\ UNCHANGED sstatus
                 /\ UNCHANGED threadVars /\ ppc' \in {"stop", "stopped"}
  /\ PoolStopped => /\ Moves("stoppool", "stoplisten") /\ ppc = "stopped"
                    /\ UNCHANGED sstatus /\ UNCHANGED vars
  /\ ServerStopped => /\ Moves("joinpool", "stopped") /\ ppc = "joined"
                      /\ UNCHANGED sstatus /\ UNCHANGED vars
<1>1. InitFails => Moves("new", "failed") /\ sstatus' = "kInitializing" /\ UNCHANGED vars
  BY Zenon DEF InitFails, Server, Moves
<1>2. StartServer => Moves("inited", "startpool") /\ sstatus' = "kStarting" /\ UNCHANGED vars
  BY Zenon DEF StartServer, Server, Moves
<1>3. PoolStarted => /\ Moves("startpool", "startlisten") /\ ppc = "started"
                     /\ UNCHANGED sstatus /\ UNCHANGED vars
  BY Zenon DEF PoolStarted, Server, Moves
<1>4. ServerStarted => Moves("startwait", "running") /\ sstatus' = "kRunning" /\ UNCHANGED vars
  BY Zenon DEF ServerStarted, Server, Moves
<1>5. StopServer => Moves("running", "pausing") /\ sstatus' = "kStopping" /\ UNCHANGED vars
  BY Zenon DEF StopServer, Server, Moves
<1>6. StopPool => /\ Moves("paused", "stoppool") /\ UNCHANGED sstatus
                  /\ UNCHANGED threadVars /\ ppc' \in {"stop", "stopped"}
  BY Zenon DEF StopPool, Stop, Server, Moves
<1>7. PoolStopped => /\ Moves("stoppool", "stoplisten") /\ ppc = "stopped"
                     /\ UNCHANGED sstatus /\ UNCHANGED vars
  BY Zenon DEF PoolStopped, Server, Moves
<1>8. ServerStopped => /\ Moves("joinpool", "stopped") /\ ppc = "joined"
                       /\ UNCHANGED sstatus /\ UNCHANGED vars
  BY Zenon DEF ServerStopped, Server, Moves
<1> QED  BY <1>1, <1>2, <1>3, <1>4, <1>5, <1>6, <1>7, <1>8, Zenon

\* The steps of the listening threads, of the requests and of the server's users
\* leave the owner of the server alone.
LEMMA OwnerLeftAlone ==
  ASSUME \/ \E f : Toggle(f)
         \/ \E l : ListenerNext(l) \/ \E r \in Requests : Accept(l, r)
         \/ \E w : RunRequest(w)
         \/ \E r : UserNext(r)
  PROVE  UNCHANGED <<spc, sstatus, ports, lt, poolVars>>
<1>1. ASSUME NEW f, Toggle(f)
      PROVE  UNCHANGED <<spc, sstatus, ports, lt, poolVars>>
  BY <1>1, Zenon DEF Toggle
<1>2. ASSUME NEW l, ListenerNext(l) \/ \E r \in Requests : Accept(l, r)
      PROVE  UNCHANGED <<spc, sstatus, ports, lt, poolVars>>
  BY <1>2, Zenon DEF ListenerNext, Accept, ListenerPre, ListenerPost, ServerGetNextLoop,
     Forward, RunPause, RunReply, Runs, DefaultHandleRequest, HandleRequest, serverVars, vars
<1>3. ASSUME NEW w, RunRequest(w)
      PROVE  UNCHANGED <<spc, sstatus, ports, lt, poolVars>>
  BY <1>3, Zenon DEF RunRequest, Runs
<1>4. ASSUME NEW r, UserNext(r)
      PROVE  UNCHANGED <<spc, sstatus, ports, lt, poolVars>>
  BY <1>4, Zenon DEF UserNext, SendReplyTest, SendReplyPost, SendReplyInPlace, vars
<1> QED  BY <1>1, <1>2, <1>3, <1>4, Zenon

\* The owner, the status of the server and the pool stay together.
LEMMA PhaseKeeps ==
  ASSUME IInv, PhaseInv, ServerNext
  PROVE  PhaseInv'
<1>1. ASSUME UNCHANGED <<spc, sstatus, ports, lt, ppc>>
      PROVE  PhaseInv'
  BY <1>1, Zenon DEF PhaseInv
<1>2. CASE PoolStep
  <2>1. UNCHANGED <<spc, sstatus, ports, lt>>
    BY <1>2, Zenon DEF PoolStep, serverVars
  <2>2. /\ spc \in {"off", "startpool"} \/ ppc # "new"
        /\ spc \in {"off", "joinpool"} \/ ppc # "stopped"
    BY <1>2, Zenon DEF PoolStep
  <2>3. \/ ppc = "new" /\ ppc' \in Begun
        \/ ppc \in {"start", "startwait"} /\ ppc' \in Begun
        \/ ppc \in {"stop", "stopwait"} /\ ppc' \in {"stop", "stopwait", "stopped"}
        \/ ppc = "stopped" /\ ppc' = "join"
        \/ ppc = "join" /\ ppc' \in {"join", "joined"}
    BY <1>2, PoolMoves, Zenon DEF PoolStep
  <2> QED  BY <2>1, <2>2, <2>3 DEF PhaseInv, Begun, Open
<1>3. CASE InitPort
  <2>1. /\ spc = "new" /\ spc' \in {"new", "inited"} /\ sstatus' = "kInitialized"
        /\ UNCHANGED <<ppc, ports>> /\ (spc' = "inited" => lt' = FirstListener)
    BY <1>3, Zenon DEF InitPort, NextPort, vars, poolVars
  <2> QED  BY <2>1, Zenon DEF PhaseInv, Open
<1>4. CASE RegisterHandlers
  <2>1. /\ spc = "startlisten" /\ spc' \in {"startlisten", "startwait"}
        /\ UNCHANGED <<ppc, ports, sstatus>> /\ (spc' = "startwait" => lt' = FirstListener)
    BY <1>4, Zenon DEF RegisterHandlers, NextPort, vars, poolVars
  <2> QED  BY <2>1, Zenon DEF PhaseInv, Open
<1>5. CASE PostPause
  <2>1. /\ spc = "pausing" /\ spc' \in {"pausing", "paused"}
        /\ UNCHANGED <<ppc, ports, sstatus>> /\ (spc' = "paused" => lt' = FirstListener)
    BY <1>5, Zenon DEF PostPause, NextPort, poolVars
  <2> QED  BY <2>1, Zenon DEF PhaseInv, Open
<1>6. CASE StopNextListener
  <2>1. /\ spc = "stoplisten" /\ spc' \in {"stoplisten", "joinpool"} /\ UNCHANGED <<ppc, ports>>
        /\ sstatus' = IF spc' = "joinpool" THEN "kStopped" ELSE sstatus
    BY <1>6, Zenon DEF StopNextListener, NextPort, vars, poolVars
  <2> QED  BY <2>1, Zenon DEF PhaseInv, Open
<1>7. CASE InitFails \/ StartServer \/ PoolStarted \/ ServerStarted
  <2>1. UNCHANGED <<ppc, ports, lt>>
    BY <1>7, OwnerMoves, Zenon DEF Moves, vars, poolVars
  <2> QED  BY <1>7, <2>1, OwnerMoves DEF Moves, PhaseInv, Open, Begun
<1>8. CASE StopServer \/ PoolStopped \/ ServerStopped
  <2>1. UNCHANGED <<ppc, ports, lt>>
    BY <1>8, OwnerMoves, Zenon DEF Moves, vars, poolVars
  <2> QED  BY <1>8, <2>1, OwnerMoves DEF Moves, PhaseInv, Open, Begun
<1>9. CASE StopPool
  BY <1>9, OwnerMoves DEF Moves, PhaseInv, Open
<1>10. CASE StartListener \/ StopListener \/ RegisterBegin
  BY <1>1, <1>10, Zenon DEF StartListener, StopListener, RegisterBegin, vars, poolVars,
     serverVars
<1>11. CASE \/ \E f : Toggle(f)
            \/ \E l : ListenerNext(l) \/ \E r \in Requests : Accept(l, r)
            \/ \E w : RunRequest(w)
            \/ \E r : UserNext(r)
  BY <1>1, <1>11, OwnerLeftAlone, Zenon DEF poolVars
<1>12. ASSUME NEW w, WorkerNext(w) /\ UNCHANGED serverVars
       PROVE  PhaseInv'
  BY <1>1, <1>12, WorkerNextEffect, Zenon DEF serverVars
<1>13. CASE spc = "off" /\ UNCHANGED serverVars
  BY <1>13, Zenon DEF PhaseInv, serverVars, Open
<1> QED  BY <1>2, <1>3, <1>4, <1>5, <1>6, <1>7, <1>8, <1>9, <1>10, <1>11, <1>12, <1>13, Zenon
         DEF ServerNext, ServerOwner, PoolWorkerNext

-----------------------------------------------------------------------------
(* The owner of the server and the listening threads.                      *)

\* The entries of listen_threads_ are in order.
LEMMA PortOrder ==
  ASSUME IInv, PhaseInv, spc # "off"
  PROVE  /\ ports \subseteq Listeners /\ lt \in ports
         /\ \A l \in ports :
              /\ ~(l < FirstListener) /\ (l < lt \/ l = lt \/ l > lt)
              /\ (l < lt => l # lt) /\ (l > lt => l # lt /\ ~(l < lt))
              /\ l < lt + 1 <=> l < lt \/ l = lt
              /\ l = lt + 1 \/ l > lt + 1 => l > lt
         /\ lt + 1 \notin ports => \A l \in ports : l < lt \/ l = lt
<1>1. PICK last \in Listeners : ports = FirstListener..last
  BY Zenon DEF PhaseInv
<1>2. lt \in ports /\ ports \subseteq Listeners
  BY Zenon DEF IInv, PortInv
<1>3. FirstListener \in Nat /\ last \in Nat
  BY ListenerWorkers, PoolAssumption DEF FirstListener
<1>4. /\ \A l \in ports : l \in Nat /\ FirstListener <= l /\ l <= last
      /\ \A l \in Nat : FirstListener <= l /\ l <= last => l \in ports
  BY <1>1, <1>3
<1>5. lt + 1 \notin ports => lt = last
  BY <1>2, <1>3, <1>4
<1>6. \A l \in ports :
        /\ ~(l < FirstListener) /\ (l < lt \/ l = lt \/ l > lt)
        /\ (l < lt => l # lt) /\ (l > lt => l # lt /\ ~(l < lt))
        /\ l < lt + 1 <=> l < lt \/ l = lt
        /\ l = lt + 1 \/ l > lt + 1 => l > lt
  BY <1>2, <1>3, <1>4
<1>7. lt = last => \A l \in ports : l < lt \/ l = lt
  BY <1>2, <1>3, <1>4
<1> QED  BY <1>2, <1>5, <1>6, <1>7, Zenon

\* A thread whose owner has not started it has done nothing.
LEMMA NotStarted ==
  ASSUME Threads, NEW w \in Workers, opc[w] = "new"
  PROVE  wpc[w] = "none" /\ ~Gone(w)
  BY Zenon DEF Threads, ThreadInv, Gone

\* The owner moves on between two methods of a listening thread.
LEMMA MovesListen ==
  ASSUME IInv, PhaseInv, ListenInv, NEW at, NEW to, Moves(at, to), UNCHANGED threadVars,
         \/ at = "new" /\ to = "failed"
         \/ at = "inited" /\ to = "startpool"
         \/ at = "startpool" /\ to = "startlisten"
         \/ at = "startwait" /\ to = "running"
         \/ at = "running" /\ to = "pausing"
         \/ at = "paused" /\ to = "stoppool"
         \/ at = "stoppool" /\ to = "stoplisten"
         \/ at = "joinpool" /\ to = "stopped"
  PROVE  ListenInv'
<1>1. UNCHANGED <<opc, wpc, ports, lt, evhttp, handlers>> /\ \A l : Gone(l)' <=> Gone(l)
  BY Zenon DEF Moves, threadVars, Gone
<1>2. spc = at /\ spc' = to /\ spc # "off"
  BY Zenon DEF Moves
<1>3. lt \in ports /\ \A l \in ports : ~(l < FirstListener)
  BY <1>2, PortOrder, Zenon
<1>4. spc \in {"startpool", "stoppool"} => lt = FirstListener
  BY Zenon DEF PhaseInv
<1>5. \A l \in Listeners : handlers[l] # "writing"
  BY <1>2, Zenon DEF ListenInv
<1>6. ASSUME NEW l \in ports
      PROVE  /\ to \in Before => opc[l] = "new"
             /\ to = "startlisten" => ~(l < lt) /\ opc[l] = "new"
             /\ to \in {"startwait", "running", "pausing", "paused", "stoppool"} =>
                  opc[l] = "started"
             /\ to = "stoplisten" => ~(l < lt) /\ opc[l] = "started"
             /\ to \in {"joinpool", "stopped"} => opc[l] = "joined"
             /\ to # "new"
             /\ to \notin {"off", "new", "failed"} => (evhttp[l] <=> ~Gone(l))
  BY <1>2, <1>3, <1>4, <1>6 DEF ListenInv, Before
<1> QED  BY <1>1, <1>2, <1>5, <1>6, Zenon DEF ListenInv

\* A step that does not touch what ListenInv is about.
LEMMA ListenFrame ==
  ASSUME ListenInv, ports \subseteq Listeners, UNCHANGED <<spc, ports, lt, evhttp, handlers>>,
         \A l \in Listeners : opc'[l] = opc[l] /\ (Gone(l)' <=> Gone(l))
  PROVE  ListenInv'
  BY Zenon DEF ListenInv

\* Init of one port.
LEMMA InitPortListen ==
  ASSUME IInv, PhaseInv, ListenInv, InitPort
  PROVE  ListenInv'
<1>1. /\ spc = "new" /\ UNCHANGED <<vars, ports, handlers>>
      /\ evhttp' = [evhttp EXCEPT ![lt] = TRUE]
      /\ \/ lt + 1 \in ports /\ lt' = lt + 1 /\ spc' = "new"
         \/ lt + 1 \notin ports /\ spc' = "inited"
  BY Zenon DEF InitPort, NextPort
<1>2. UNCHANGED <<opc, wpc>> /\ \A l : Gone(l)' <=> Gone(l)
  BY <1>1, Zenon DEF vars, threadVars, Gone
<1>3. /\ ports \subseteq Listeners /\ lt \in ports
      /\ \A l \in ports : l < lt + 1 <=> l < lt \/ l = lt
      /\ lt + 1 \notin ports => \A l \in ports : l < lt \/ l = lt
  BY <1>1, PortOrder, Zenon
<1>4. ASSUME NEW l \in ports
      PROVE  opc[l] = "new" /\ ~Gone(l) /\ (l < lt \/ l = lt => evhttp'[l])
  <2>1. l \in Workers /\ l \in Listeners /\ opc[l] = "new"
    BY <1>1, <1>3, ListenerWorkers, Zenon DEF ListenInv, Before
  <2>2. ~Gone(l)
    BY <2>1, NotStarted, Zenon DEF IInv
  <2>3. l < lt \/ l = lt => evhttp'[l]
    BY <1>1, <2>1, Zenon DEF ListenInv, IInv, ServerTypes
  <2> QED  BY <2>1, <2>2, <2>3, Zenon
<1>5. \A l \in Listeners : handlers[l] # "writing"
  BY <1>1, Zenon DEF ListenInv
<1>6. \A l \in Listeners : l \notin ports => opc[l] = "new"
  BY Zenon DEF ListenInv
<1>7. CASE lt + 1 \in ports /\ lt' = lt + 1 /\ spc' = "new"
  BY <1>1, <1>2, <1>3, <1>4, <1>5, <1>6, <1>7, Zenon DEF ListenInv, Before
<1>8. CASE lt + 1 \notin ports /\ spc' = "inited"
  BY <1>1, <1>2, <1>3, <1>4, <1>5, <1>6, <1>8, Zenon DEF ListenInv, Before
<1> QED  BY <1>1, <1>7, <1>8, Zenon

\* Start or Stop of the listening thread lt.
LEMMA OwnerActsListen ==
  ASSUME IInv, PhaseInv, ListenInv, spc # "off", OwnerActs(lt), UNCHANGED <<poolVars, serverVars>>,
         handlers[lt] # "writing", spc \in {"startlisten", "stoplisten"},
         spc = "startlisten" => opc'[lt] \in {"spawning", "spawned", "started"}
  PROVE  ListenInv'
<1>1. /\ ports \subseteq Listeners /\ lt \in ports
      /\ \A l \in ports : (l < lt => l # lt) /\ (l > lt => l # lt)
  BY PortOrder, Zenon
<1>2. lt \in Workers /\ \A l \in Listeners : l \in Workers
  BY <1>1, ListenerWorkers, Zenon
<1>3. \A l \in Listeners : l # lt => opc'[l] = opc[l] /\ (Gone(l)' <=> Gone(l))
  <2>1. \A l \in Listeners : l # lt => Same(l)
    BY <1>2, OwnerTypes, Zenon DEF IInv, Threads
  <2> QED  BY <2>1, Zenon DEF Same, Gone
<1>4. UNCHANGED <<spc, ports, lt, evhttp, handlers>>
  BY Zenon DEF serverVars
<1>5. Gone(lt)' <=> Gone(lt)
  <2>1. wpc'[lt] = wpc[lt] \/ (wpc[lt] = "none" /\ wpc'[lt] = "spawned")
    BY <1>2, Zenon DEF OwnerActs, StartStatus, SpawnThread, StartReturns, CallStop, StopStatus,
       StopLoopStatus, StopQueue, StopReturns, Join, Owner, IInv, Threads, ThreadTypes, ThreadInv
  <2> QED  BY <1>4, <2>1, Zenon DEF Gone
<1>6. \A l \in Listeners : l \notin ports => opc'[l] = "new"
  BY <1>1, <1>3, Zenon DEF ListenInv
<1>7. \A l \in Listeners : handlers[l] = "writing" =>
                             spc = "startlisten" /\ l = lt /\ opc[l] = "started"
  BY Zenon DEF ListenInv
<1>8. ASSUME NEW l \in ports
      PROVE  /\ spc = "startlisten" =>
                  /\ l < lt => opc'[l] = "started"
                  /\ l = lt => opc'[l] \in {"new", "spawning", "spawned", "started"}
                  /\ l > lt => opc'[l] = "new"
             /\ spc = "stoplisten" =>
                  (l < lt => opc'[l] = "joined") /\ (l > lt => opc'[l] = "started")
             /\ evhttp[l] <=> ~Gone(l)'
  <2>1. (evhttp[l] <=> ~Gone(l)) /\ l \in Listeners
    BY <1>1, Zenon DEF ListenInv
  <2>2. CASE l = lt
    BY <1>1, <1>4, <1>5, <2>1, <2>2, Zenon
  <2>3. CASE l # lt
    BY <1>3, <2>1, <2>3, Zenon DEF ListenInv
  <2> QED  BY <2>2, <2>3, Zenon
<1> QED  BY <1>4, <1>6, <1>7, <1>8, Zenon DEF ListenInv, Before

\* The handlers of the Service of lt are stored, in two steps.
LEMMA RegisterListen ==
  ASSUME IInv, PhaseInv, ListenInv, RegisterBegin \/ RegisterHandlers
  PROVE  ListenInv'
<1>1. /\ spc = "startlisten" /\ UNCHANGED <<vars, ports, evhttp>>
      /\ \A l \in Listeners : l # lt => handlers'[l] = handlers[l]
  BY Zenon DEF RegisterBegin, RegisterHandlers, NextPort, IInv, ServerTypes
<1>2. UNCHANGED <<opc, wpc>> /\ \A l : Gone(l)' <=> Gone(l)
  BY <1>1, Zenon DEF vars, threadVars, Gone
<1>3. /\ ports \subseteq Listeners /\ lt \in ports
      /\ \A l \in ports :
           /\ l < lt + 1 <=> l < lt \/ l = lt
           /\ l = lt + 1 \/ l > lt + 1 => l > lt
      /\ lt + 1 \notin ports => \A l \in ports : l < lt \/ l = lt
  BY <1>1, PortOrder, Zenon
<1>4. \A l \in Listeners : handlers[l] = "writing" => l = lt /\ opc[l] = "started"
  BY Zenon DEF ListenInv
<1>5. ASSUME NEW l \in ports
      PROVE  /\ l < lt => opc[l] = "started"
             /\ l = lt => opc[l] \in {"new", "spawning", "spawned", "started"}
             /\ l > lt => opc[l] = "new"
             /\ evhttp[l] <=> ~Gone(l)
  BY <1>1, Zenon DEF ListenInv
<1>6. \A l \in Listeners : l \notin ports => opc[l] = "new"
  BY Zenon DEF ListenInv
<1>7. CASE RegisterBegin
  <2>1. spc' = spc /\ lt' = lt /\ opc[lt] = "started"
    BY <1>7, Zenon DEF RegisterBegin
  <2>2. \A l \in Listeners : handlers'[l] = "writing" => l = lt /\ opc[l] = "started"
    BY <1>1, <1>4, <2>1, Zenon
  <2> QED  BY <1>1, <1>2, <1>5, <1>6, <2>1, <2>2, Zenon DEF ListenInv, Before
<1>8. CASE RegisterHandlers
  <2>1. opc[lt] = "started" /\ handlers'[lt] = "set"
    BY <1>3, <1>4, <1>8, Zenon DEF RegisterHandlers, IInv, ServerTypes
  <2>2. \A l \in Listeners : handlers'[l] # "writing"
    BY <1>1, <1>4, <2>1, Zenon
  <2>3. CASE lt + 1 \in ports /\ lt' = lt + 1 /\ spc' = "startlisten"
    <3>1. ASSUME NEW l \in ports
          PROVE  /\ l < lt' => opc[l] = "started"
                 /\ l = lt' \/ l > lt' => opc[l] = "new"
      BY <1>3, <1>5, <2>1, <2>3, Zenon
    <3> QED  BY <1>1, <1>2, <1>5, <1>6, <2>2, <2>3, <3>1, Zenon DEF ListenInv, Before
  <2>4. CASE lt + 1 \notin ports /\ spc' = "startwait"
    <3>1. \A l \in ports : opc[l] = "started"
      BY <1>3, <1>5, <2>1, <2>4, Zenon
    <3> QED  BY <1>1, <1>2, <1>5, <1>6, <2>2, <2>4, <3>1, Zenon DEF ListenInv, Before
  <2> QED  BY <1>8, <2>3, <2>4, Zenon DEF RegisterHandlers, NextPort
<1> QED  BY <1>7, <1>8, Zenon

\* Stop goes on to the next listening thread.
LEMMA StopNextListen ==
  ASSUME IInv, PhaseInv, ListenInv, StopNextListener
  PROVE  ListenInv'
<1>1. /\ spc = "stoplisten" /\ UNCHANGED <<vars, ports, evhttp, handlers>> /\ opc[lt] = "joined"
      /\ \/ lt + 1 \in ports /\ lt' = lt + 1 /\ spc' = "stoplisten"
         \/ lt + 1 \notin ports /\ spc' = "joinpool"
  BY Zenon DEF StopNextListener, NextPort
<1>2. UNCHANGED <<opc, wpc>> /\ \A l : Gone(l)' <=> Gone(l)
  BY <1>1, Zenon DEF vars, threadVars, Gone
<1>3. /\ ports \subseteq Listeners /\ lt \in ports
      /\ \A l \in ports :
           /\ l < lt + 1 <=> l < lt \/ l = lt
           /\ l = lt + 1 \/ l > lt + 1 => l > lt
      /\ lt + 1 \notin ports => \A l \in ports : l < lt \/ l = lt
  BY <1>1, PortOrder, Zenon
<1>4. \A l \in Listeners : handlers[l] # "writing" /\ (l \notin ports => opc[l] = "new")
  BY <1>1, Zenon DEF ListenInv
<1>5. ASSUME NEW l \in ports
      PROVE  /\ l < lt \/ l = lt => opc[l] = "joined"
             /\ l > lt => opc[l] = "started"
             /\ evhttp[l] <=> ~Gone(l)
  BY <1>1, Zenon DEF ListenInv
<1>6. CASE lt + 1 \in ports /\ lt' = lt + 1 /\ spc' = "stoplisten"
  <2>1. ASSUME NEW l \in ports
        PROVE  (l < lt' => opc[l] = "joined") /\ (l > lt' => opc[l] = "started")
    BY <1>3, <1>5, <1>6, Zenon
  <2> QED  BY <1>1, <1>2, <1>4, <1>5, <1>6, <2>1, Zenon DEF ListenInv, Before
<1>7. CASE lt + 1 \notin ports /\ spc' = "joinpool"
  <2>1. \A l \in ports : opc[l] = "joined"
    BY <1>3, <1>5, <1>7, Zenon
  <2> QED  BY <1>1, <1>2, <1>4, <1>5, <1>7, <2>1, Zenon DEF ListenInv, Before
<1> QED  BY <1>1, <1>6, <1>7, Zenon

\* The post functor of a listening thread frees its evhttp_.
LEMMA PostListen ==
  ASSUME IInv, ListenInv, NEW l \in Listeners, ListenerPost(l)
  PROVE  ListenInv'
<1>1. /\ UNCHANGED <<spc, ports, lt>> /\ RunPost(l) /\ waitStart' = waitStart /\ opc' = opc
      /\ evhttp' = [evhttp EXCEPT ![l] = FALSE] /\ handlers' = [handlers EXCEPT ![l] = "none"]
  BY Zenon DEF ListenerPost, RunPost, poolVars
<1>2. l \in Workers /\ \A k \in Listeners : k \in Workers
  BY ListenerWorkers, Zenon
<1>3. Gone(l)' /\ wpc[l] = "returned"
  BY <1>1, <1>2, PostKeeps, Zenon DEF IInv, Threads, RunPost, Worker
<1>4. \A k \in Listeners : k # l => (Gone(k)' <=> Gone(k))
  BY <1>1, <1>2, Zenon DEF RunPost, Worker, IInv, Threads, ThreadTypes, Gone
<1>5. /\ evhttp'[l] = FALSE /\ \A k \in Listeners : k # l => evhttp'[k] = evhttp[k]
      /\ handlers'[l] = "none" /\ \A k \in Listeners : k # l => handlers'[k] = handlers[k]
  BY <1>1, Zenon DEF IInv, ServerTypes
<1>6. ports \subseteq Listeners
  BY Zenon DEF IInv, PortInv
<1>7. opc[l] # "new"
  BY <1>2, <1>3, NotStarted, Zenon DEF IInv
<1>8. ASSUME NEW k \in ports
      PROVE  /\ spc = "new" /\ k < lt => evhttp'[k]
             /\ spc \notin {"off", "new", "failed"} => (evhttp'[k] <=> ~Gone(k)')
  <2>1. CASE k = l
    BY <1>3, <1>5, <1>7, <2>1, Zenon DEF ListenInv, Before
  <2>2. CASE k # l
    BY <1>4, <1>5, <1>6, <2>2, Zenon DEF ListenInv
  <2> QED  BY <2>1, <2>2, Zenon
<1>9. \A k \in Listeners : handlers'[k] = "writing" =>
                             spc = "startlisten" /\ k = lt /\ opc[k] = "started"
  BY <1>5, Zenon DEF ListenInv
<1> QED  BY <1>1, <1>8, <1>9, Zenon DEF ListenInv

\* The owner and the listening threads stay together.
LEMMA ListenKeeps ==
  ASSUME IInv, PhaseInv, ListenInv, ServerNext
  PROVE  ListenInv'
<1>1. ports \subseteq Listeners /\ \A l \in Listeners : l \in Workers
  BY ListenerWorkers, Zenon DEF IInv, PortInv
<1>2. CASE Below
  <2>1. \A l \in Listeners : opc'[l] = opc[l] /\ (Gone(l)' <=> Gone(l))
    BY <1>2, Zenon DEF Below, Same, Gone
  <2> QED  BY <1>1, <1>2, <2>1, ListenFrame, Zenon DEF Below, serverVars
<1>3. ASSUME UNCHANGED <<spc, ports, lt, evhttp, handlers, opc, wpc>>
      PROVE  ListenInv'
  BY <1>1, <1>3, ListenFrame, Zenon DEF Gone
<1>4. CASE InitFails \/ StartServer \/ PoolStarted \/ ServerStarted \/ StopServer \/ StopPool
           \/ PoolStopped \/ ServerStopped
  <2>1. UNCHANGED vars => UNCHANGED threadVars
    BY Zenon DEF vars
  <2> QED  BY <1>4, <2>1, OwnerMoves, MovesListen, Zenon
<1>5. CASE PostPause
  <2>1. /\ spc = "pausing" /\ spc' \in {"pausing", "paused"}
        /\ UNCHANGED <<ports, evhttp, handlers, opc, wpc>>
    BY <1>5, Zenon DEF PostPause, NextPort
  <2>2. \A l : Gone(l)' <=> Gone(l)
    BY <2>1, Zenon DEF Gone
  <2> QED  BY <2>1, <2>2, Zenon DEF ListenInv, Before
<1>6. CASE StartListener
  <2>1. /\ spc = "startlisten" /\ UNCHANGED <<poolVars, serverVars>> /\ waitStart = TRUE
        /\ lt \in Listeners /\ lt \in Workers
    BY <1>1, <1>6, Zenon DEF StartListener, IInv, PortInv, PoolInv, PoolTypes
  <2>2. OwnerActs(lt) /\ opc[lt] # "started" /\ opc'[lt] \in {"spawning", "spawned", "started"}
    BY <1>6, <2>1, Zenon DEF StartListener, OwnerActs, StartStatus, SpawnThread, StartReturns,
       Owner, IInv, Threads, ThreadTypes
  <2>3. handlers[lt] # "writing"
    BY <2>1, <2>2, Zenon DEF ListenInv
  <2> QED  BY <2>1, <2>2, <2>3, OwnerActsListen, Zenon
<1>7. CASE StopListener
  <2>1. spc = "stoplisten" /\ UNCHANGED <<poolVars, serverVars>> /\ OwnerActs(lt)
    BY <1>7, Zenon DEF StopListener, OwnerActs
  <2>2. lt \in Listeners
    BY <1>1, <2>1, Zenon DEF IInv, PortInv
  <2>3. handlers[lt] # "writing"
    BY <2>1, <2>2, Zenon DEF ListenInv
  <2> QED  BY <2>1, <2>3, OwnerActsListen, Zenon
<1>8. ASSUME NEW l \in Listeners, WorkerStep(l) \/ PreSucceeds(l),
             UNCHANGED <<poolVars, serverVars>>
      PROVE  ListenInv'
  <2>1. opc' = opc /\ \A v \in Workers : v # l => Same(v)
    BY <1>1, <1>8, ThreadStepTypes, Zenon DEF IInv, Threads, ThreadActs
  <2>2. Gone(l)' <=> Gone(l)
    BY <1>1, <1>8, WorkerKeeps, PreKeeps, Zenon DEF IInv, Threads, Stays, poolVars
  <2>3. \A k \in Listeners : opc'[k] = opc[k] /\ (Gone(k)' <=> Gone(k))
    BY <1>1, <2>1, <2>2, Zenon DEF Same, Gone
  <2> QED  BY <1>1, <1>8, <2>3, ListenFrame, Zenon DEF serverVars
<1>9. ASSUME NEW l \in Listeners,
             \/ ServerGetNextLoop(l) \/ Forward(l) \/ RunPause(l) \/ RunReply(l)
             \/ \E r \in Requests : DefaultHandleRequest(l, r) \/ HandleRequest(l, r)
             \/ \E r \in Requests : Accept(l, r)
      PROVE  ListenInv'
  BY <1>3, <1>9, Zenon DEF ServerGetNextLoop, Forward, RunPause, RunReply, Runs,
     DefaultHandleRequest, HandleRequest, Accept, vars, threadVars
<1>10. ASSUME NEW l \in Listeners, ListenerNext(l) \/ \E r \in Requests : Accept(l, r)
       PROVE  ListenInv'
  BY <1>8, <1>9, <1>10, PostListen, Zenon DEF ListenerNext, ListenerPre
<1>11. CASE \/ \E f : Toggle(f)
            \/ \E w : RunRequest(w)
            \/ \E r : UserNext(r)
  BY <1>3, <1>11, Zenon DEF Toggle, RunRequest, Runs, UserNext, SendReplyTest, SendReplyPost,
     SendReplyInPlace, vars, threadVars
<1>12. CASE ServerOwner \/ StopServer
  BY <1>4, <1>5, <1>6, <1>7, <1>12, InitPortListen, RegisterListen, StopNextListen, Zenon
  DEF ServerOwner
<1> QED  BY <1>2, <1>10, <1>11, <1>12, StepsBelow, Zenon DEF ServerNext, PoolStep, PoolWorkerNext

-----------------------------------------------------------------------------
(* Stop waits for the listening loops.                                     *)

\* Sets of listening threads are finite.
LEMMA ListenerCounts ==
  ASSUME ports \subseteq Listeners, NEW S \in SUBSET ports
  PROVE  /\ IsFiniteSet(S) /\ Cardinality(S) \in 0..Cardinality(Listeners)
         /\ Cardinality(S) = Cardinality(ports) => S = ports
         /\ \A l : l \notin S => Cardinality(S \cup {l}) = Cardinality(S) + 1
<1>1. IsFiniteSet(Listeners) /\ Cardinality(Listeners) \in Nat
  BY ServerAssumption, ListenerWorkers, Zenon
<1>2. IsFiniteSet(ports) /\ S \in SUBSET Listeners
  BY <1>1, FS_Subset, Zenon
<1>3. IsFiniteSet(S) /\ Cardinality(S) <= Cardinality(Listeners)
  BY <1>1, <1>2, FS_Subset, Zenon
<1>4. Cardinality(S) = Cardinality(ports) => S = ports
  BY <1>2, FS_Subset, Zenon
<1>5. Cardinality(S) \in Nat
  BY <1>3, FS_CardinalityType, Zenon
<1>6. \A l : l \notin S => Cardinality(S \cup {l}) = Cardinality(S) + 1
  BY <1>3, FS_AddElement, Zenon
<1>7. Cardinality(S) \in 0..Cardinality(Listeners)
  BY <1>1, <1>3, <1>5
<1> QED  BY <1>3, <1>4, <1>6, <1>7, Zenon

\* A step that neither tells a listening thread to pause nor pauses it.
LEMMA PauseFrame ==
  ASSUME PauseInv, ports \subseteq Listeners, UNCHANGED <<count, ports>>,
         \A l \in Listeners :
           /\ PausesKept(queue[l], queue'[l])
           /\ l \in ports => (Told(l)' <=> Told(l))
           /\ ~Free(l)' => ~Free(l) /\ spc' \in {"running", "pausing", "paused"}
  PROVE  PauseInv'
<1>1. PausedSet' = PausedSet
  BY Zenon DEF PausedSet, PausesKept
<1> QED  BY <1>1, Zenon DEF PauseInv, PausesKept

\* The owner stays where it is.
LEMMA PauseStays ==
  ASSUME PauseInv, ports \subseteq Listeners, UNCHANGED <<count, ports, spc, lt>>,
         \A l \in Listeners : PausesKept(queue[l], queue'[l]) /\ (~Free(l)' => ~Free(l))
  PROVE  PauseInv'
<1>1. \A l : Told(l)' <=> Told(l)
  BY Zenon DEF Told
<1>2. \A l \in Listeners : ~Free(l) => spc \in {"running", "pausing", "paused"}
  BY Zenon DEF PauseInv
<1> QED  BY <1>1, <1>2, PauseFrame, Zenon

\* A queue that is not touched.
LEMMA SamePauses ==
  ASSUME NEW l, queue'[l] = queue[l]
  PROVE  PausesKept(queue[l], queue'[l])
  BY Zenon DEF PausesKept

\* The owner moves on, before Stop or after it has waited.
LEMMA PauseMoves ==
  ASSUME IInv, PhaseInv, PauseInv, UNCHANGED <<count, ports, queue, lpc>>,
         \/ /\ spc \in Before \cup {"startlisten", "startwait"}
            /\ spc' \in Before \cup {"startlisten", "startwait", "running"}
         \/ spc = "running" /\ spc' = "pausing" /\ lt' = lt
         \/ spc \in Stopping /\ spc' \in Stopping
         \/ spc = "paused" /\ spc' \in Stopping /\ count = Cardinality(ports)
  PROVE  PauseInv'
<1>1. /\ ports \subseteq Listeners /\ spc # "off"
      /\ \A l \in ports : ~(l < FirstListener)
  BY PortOrder, Zenon DEF Before, Stopping
<1>2. \A l \in Listeners : PausesKept(queue[l], queue'[l]) /\ (Free(l)' <=> Free(l))
  BY SamePauses, Zenon DEF Free
<1>3. spc = "running" => lt = FirstListener
  BY Zenon DEF PhaseInv
<1>4. \A l \in ports : Told(l)' <=> Told(l)
  BY <1>1, <1>3, Zenon DEF Told, Before, Stopping
<1>5. ASSUME spc = "paused", count = Cardinality(ports), NEW l \in Listeners, ~Free(l)
      PROVE  FALSE
  <2>1. PausedSet \in SUBSET ports
    BY Zenon DEF PausedSet
  <2>2. PausedSet = ports
    BY <1>1, <1>5, <2>1, ListenerCounts, Zenon DEF PauseInv
  <2>3. l \in ports /\ (Told(l) => Has(queue[l], "stoppause"))
    BY <1>5, Zenon DEF PauseInv
  <2> QED  BY <2>2, <2>3, Zenon DEF PausedSet
<1>6. ASSUME NEW l \in Listeners, ~Free(l)
      PROVE  spc' \in {"running", "pausing", "paused"}
  <2>1. spc \in {"running", "pausing", "paused"}
    BY <1>6, Zenon DEF PauseInv
  <2> QED  BY <1>5, <1>6, <2>1, Zenon DEF Before, Stopping
<1> QED  BY <1>1, <1>2, <1>4, <1>6, PauseFrame, Zenon

\* Stop tells the next listening thread.
LEMMA PostPauseKeeps ==
  ASSUME IInv, PhaseInv, PauseInv, PostPause
  PROVE  PauseInv'
<1>1. /\ spc = "pausing" /\ UNCHANGED <<ports, lpc, count>>
      /\ queue' = [queue EXCEPT ![lt] = Append(@, [f |-> "stoppause"])]
      /\ \/ lt + 1 \in ports /\ lt' = lt + 1 /\ spc' = "pausing"
         \/ lt + 1 \notin ports /\ spc' = "paused"
  BY Zenon DEF PostPause, NextPort
<1>2. /\ ports \subseteq Listeners /\ lt \in ports
      /\ \A l \in ports : l < lt + 1 <=> l < lt \/ l = lt
      /\ lt + 1 \notin ports => \A l \in ports : l < lt \/ l = lt
      /\ \A l \in ports : l < lt => l # lt
  BY <1>1, PortOrder, Zenon
<1>3. lt \in Listeners /\ lt \in Workers /\ \A l \in Listeners : l \in Workers
  BY <1>2, ListenerWorkers, Zenon
<1>4. \A l \in ports : (Told(l) <=> l < lt) /\ (Told(l)' <=> l < lt \/ l = lt)
  BY <1>1, <1>2, Zenon DEF Told, Stopping
<1>5. \A l \in Listeners : l # lt => queue'[l] = queue[l]
  BY <1>1, <1>3, Zenon DEF IInv, Threads, ThreadTypes
<1>6. /\ queue'[lt] = Append(queue[lt], [f |-> "stoppause"]) /\ queue[lt] \in Seq(Functors)
      /\ [f |-> "stoppause"] \in Functors /\ [f |-> "stoppause"].f = "stoppause"
  BY <1>1, <1>3, FunctorTypes, Zenon DEF IInv, Threads, ThreadTypes
<1>7. ~Has(queue[lt], "stoppause") /\ Once(queue[lt], "stoppause")
  BY <1>2, <1>3, <1>4, Zenon DEF PauseInv
<1>8. Has(queue'[lt], "stoppause") /\ Once(queue'[lt], "stoppause")
  <2> DEFINE x == [f |-> "stoppause"]
  <2>1. queue'[lt] = Append(queue[lt], x) /\ x \in Functors /\ x.f = "stoppause"
    BY <1>6, Zenon
  <2> HIDE DEF x
  <2>2. queue[lt] \in Seq(Functors)
    BY <1>6, Zenon
  <2>3. /\ Has(Append(queue[lt], x), "stoppause")
        /\ Once(Append(queue[lt], x), "stoppause")
    BY <1>7, <2>1, <2>2, Posts, Zenon
  <2> QED  BY <2>1, <2>3, Zenon
<1>9. PausedSet' = PausedSet
  BY <1>1, <1>2, <1>4, <1>5, <1>8, Zenon DEF PausedSet
<1>10. ASSUME NEW l \in Listeners
       PROVE  /\ Once(queue'[l], "stoppause")
              /\ Has(queue'[l], "stoppause") => l \in ports /\ Told(l)'
              /\ ~Free(l)' => l \in ports /\ (Told(l)' => Has(queue'[l], "stoppause"))
  <2>1. Free(l)' <=> Free(l)
    BY <1>1, Zenon DEF Free
  <2>2. CASE l = lt
    BY <1>2, <1>4, <1>8, <2>2, Zenon
  <2>3. CASE l # lt
    BY <1>4, <1>5, <2>1, <2>3, Zenon DEF PauseInv
  <2> QED  BY <2>2, <2>3, Zenon
<1> QED  BY <1>1, <1>9, <1>10, Zenon DEF PauseInv

\* A listening thread has run the functor of Stop.
LEMMA RunPauseKeeps ==
  ASSUME IInv, PauseInv, NEW l \in Listeners, RunPause(l)
  PROVE  PauseInv'
<1>1. l \in Workers /\ ports \subseteq Listeners /\ \A k \in Listeners : k \in Workers
  BY ListenerWorkers, Zenon DEF IInv, PortInv
<1>2. /\ queue[l] \in Seq(Functors) /\ queue[l] # <<>> /\ queue'[l] = Tail(queue[l])
      /\ \A k \in Listeners : k # l => queue'[k] = queue[k]
      /\ UNCHANGED <<ports, spc, lt, lpc>> /\ Free(l)
  BY <1>1, Zenon DEF RunPause, Runs, IInv, Threads, ThreadTypes
<1>3. \A k : (Told(k)' <=> Told(k)) /\ (Free(k)' <=> Free(k))
  BY <1>2, Zenon DEF Told, Free
<1>4. CASE Head(queue[l]).f \in {"pause", "continue"}
  <2>1. count' = count
    BY <1>4, Zenon DEF RunPause, Runs
  <2>2. PausesKept(queue[l], queue'[l])
    BY <1>2, <1>4, RunKept, Zenon
  <2>3. \A k \in Listeners : PausesKept(queue[k], queue'[k])
    BY <1>2, <2>2, SamePauses, Zenon
  <2> QED  BY <1>1, <1>2, <1>3, <2>1, <2>3, PauseStays, Zenon
<1>5. CASE Head(queue[l]).f = "stoppause"
  <2>1. count' = count + 1
    BY <1>5, Zenon DEF RunPause, Runs
  <2>2. /\ Has(queue[l], "stoppause") /\ ~Has(queue'[l], "stoppause")
        /\ Once(queue'[l], "stoppause")
    <3>1. /\ Has(queue[l], "stoppause") /\ Once(queue[l], "stoppause")
      BY <1>2, <1>5, Pops, Zenon DEF PauseInv
    <3>2. ~Has(Tail(queue[l]), "stoppause") /\ Once(Tail(queue[l]), "stoppause")
      BY <1>2, <1>5, <3>1, Pops, Zenon
    <3> QED  BY <1>2, <3>1, <3>2, Zenon
  <2>3. l \in ports /\ Told(l) /\ l \notin PausedSet
    BY <2>2, Zenon DEF PauseInv, PausedSet
  <2>4. PausedSet' = PausedSet \cup {l}
    BY <1>2, <1>3, <1>1, <2>2, <2>3, Zenon DEF PausedSet
  <2>5. PausedSet \in SUBSET ports
    BY Zenon DEF PausedSet
  <2>6. count' = Cardinality(PausedSet')
    BY <1>1, <2>1, <2>3, <2>4, <2>5, ListenerCounts, Zenon DEF PauseInv
  <2>7. ASSUME NEW k \in Listeners
        PROVE  /\ Once(queue'[k], "stoppause")
               /\ Has(queue'[k], "stoppause") => k \in ports /\ Told(k)
               /\ ~Free(k) =>
                    /\ k \in ports /\ spc \in {"running", "pausing", "paused"}
                    /\ Told(k) => Has(queue'[k], "stoppause")
    <3>1. CASE k = l
      BY <1>2, <2>2, <3>1, Zenon
    <3>2. CASE k # l
      BY <1>2, <3>2, Zenon DEF PauseInv
    <3> QED  BY <3>1, <3>2, Zenon
  <2> QED  BY <1>2, <1>3, <2>6, <2>7, Zenon DEF PauseInv
<1>6. Head(queue[l]).f \in {"pause", "continue", "stoppause"}
  BY Zenon DEF RunPause, Runs
<1> QED  BY <1>4, <1>5, <1>6, Zenon

\* A step that does nothing to the owner, the requests and the functors of the server.
Quiet ==
  /\ \A w \in Workers : Carries(w)
  /\ UNCHANGED <<ports, sstatus, spc, lt, lpc, count, req, num>>

LEMMA QuietSteps ==
  ASSUME IInv,
         \/ Below \/ RegisterBegin \/ StartListener \/ StopListener
         \/ \E l \in Listeners :
              \/ WorkerStep(l) /\ UNCHANGED <<poolVars, serverVars>>
              \/ ListenerPre(l) \/ ListenerPost(l)
  PROVE  Quiet
<1>1. CASE Below
  BY <1>1, Zenon DEF Below, Quiet, serverVars
<1>2. CASE RegisterBegin
  <2>1. UNCHANGED vars /\ UNCHANGED <<ports, sstatus, spc, lt, lpc, count, req>>
    BY <1>2, Zenon DEF RegisterBegin
  <2>2. UNCHANGED threadVars /\ num' = num
    BY <2>1, Zenon DEF vars, poolVars
  <2>3. \A w \in Workers : Carries(w)
    BY <2>2, SameCarries, Zenon DEF threadVars
  <2> QED  BY <2>1, <2>2, <2>3, Zenon DEF Quiet
<1>3. ASSUME NEW w \in Workers, OwnerActs(w) \/ ThreadActs(w)
      PROVE  \A v \in Workers : Carries(v)
  BY <1>3, ThreadCarries, Zenon DEF IInv
<1>4. ports \subseteq Listeners /\ \A l \in Listeners : l \in Workers
  BY ListenerWorkers, Zenon DEF IInv, PortInv
<1>5. CASE StartListener \/ StopListener
  <2>1. lt \in Workers /\ waitStart = TRUE
    BY <1>4, <1>5, Zenon DEF StartListener, StopListener, IInv, PortInv, PoolInv, PoolTypes
  <2>2. OwnerActs(lt) /\ UNCHANGED <<poolVars, serverVars>>
    BY <1>5, <2>1, Zenon DEF StartListener, StopListener, OwnerActs
  <2> QED  BY <1>3, <2>1, <2>2, Zenon DEF Quiet, serverVars, poolVars
<1>6. ASSUME NEW l \in Listeners,
             \/ WorkerStep(l) /\ UNCHANGED <<poolVars, serverVars>>
             \/ ListenerPre(l) \/ ListenerPost(l)
      PROVE  Quiet
  <2>1. /\ ThreadActs(l)
        /\ UNCHANGED <<ports, sstatus, spc, lt, lpc, count, req, num>>
    BY <1>6, Zenon DEF ListenerPre, ListenerPost, ThreadActs, serverVars, poolVars
  <2> QED  BY <1>3, <1>4, <2>1, Zenon DEF Quiet
<1> QED  BY <1>1, <1>2, <1>5, <1>6, Zenon

\* A request or its reply is posted.
LEMMA RequestPosted ==
  ASSUME NEW q \in Seq(Functors), NEW p, NEW r \in Requests,
         \/ p = Append(q, [f |-> "request", r |-> r])
         \/ p = Append(q, [f |-> "reply", r |-> r])
  PROVE  /\ PausesKept(q, p)
         /\ \A s : (Names(p, s) => Names(q, s) \/ s = r) /\ (Asks(q, s) => Asks(p, s))
         /\ p = Append(q, [f |-> "request", r |-> r]) => Asks(p, r)
<1>1. ASSUME NEW x \in Functors, x.f # "stoppause", x.r = r
      PROVE  /\ PausesKept(q, Append(q, x))
             /\ \A s : /\ Names(Append(q, x), s) => Names(q, s) \/ s = r
                       /\ Asks(q, s) => Asks(Append(q, x), s)
             /\ x = [f |-> "request", r |-> r] => Asks(Append(q, x), r)
  <2>1. PausesKept(q, Append(q, x))
    BY <1>1, Posts, Zenon DEF PausesKept
  <2>2. \A s : /\ Names(Append(q, x), s) => Names(q, s) \/ s = r
               /\ Asks(q, s) => Asks(Append(q, x), s)
    BY <1>1, Posts, Zenon DEF About
  <2>3. x = [f |-> "request", r |-> r] => Asks(Append(q, x), r)
    BY <1>1, Posts, Zenon
  <2> QED  BY <2>1, <2>2, <2>3, Zenon
<1>2. ASSUME NEW f \in {"request", "reply"}
      PROVE  /\ [f |-> f, r |-> r] \in Functors /\ [f |-> f, r |-> r].f # "stoppause"
             /\ [f |-> f, r |-> r].r = r
  BY FunctorTypes
<1>3. CASE p = Append(q, [f |-> "request", r |-> r])
  <2> DEFINE x == [f |-> "request", r |-> r]
  <2>1. x \in Functors /\ x.f # "stoppause" /\ x.r = r
    BY <1>2, Zenon
  <2>2. p = Append(q, x) /\ x = [f |-> "request", r |-> r]
    BY <1>3, Zenon
  <2> HIDE DEF x
  <2>3. /\ PausesKept(q, Append(q, x)) /\ Asks(Append(q, x), r)
        /\ \A s : /\ Names(Append(q, x), s) => Names(q, s) \/ s = r
                  /\ Asks(q, s) => Asks(Append(q, x), s)
    BY <1>1, <2>1, <2>2, Zenon
  <2> QED  BY <2>2, <2>3, Zenon
<1>4. CASE p = Append(q, [f |-> "reply", r |-> r])
  <2> DEFINE x == [f |-> "reply", r |-> r]
  <2>1. x \in Functors /\ x.f # "stoppause" /\ x.r = r
    BY <1>2, Zenon
  <2>2. p = Append(q, x)
    BY <1>4, Zenon
  <2> HIDE DEF x
  <2>3. /\ PausesKept(q, Append(q, x))
        /\ \A s : /\ Names(Append(q, x), s) => Names(q, s) \/ s = r
                  /\ Asks(q, s) => Asks(Append(q, x), s)
    BY <1>1, <2>1, Zenon
  <2>4. p = Append(q, [f |-> "request", r |-> r]) => Asks(p, r)
    BY <1>3, Zenon
  <2> QED  BY <2>2, <2>3, <2>4, Zenon
<1> QED  BY <1>3, <1>4, Zenon

\* A request or its reply is run.
LEMMA RequestRun ==
  ASSUME NEW q \in Seq(Functors), q # <<>>, Head(q).f \in {"request", "reply"}
  PROVE  /\ Head(q).r \in Requests /\ Names(q, Head(q).r) /\ PausesKept(q, Tail(q))
         /\ \A s : /\ Names(Tail(q), s) => Names(q, s)
                   /\ s # Head(q).r /\ Asks(q, s) => Asks(Tail(q), s)
<1>1. Head(q) \in Functors
  BY Pops, Zenon
<1>2. Head(q).r \in Requests
  BY <1>1 DEF Functors
<1>3. \A s : Head(q) = [f |-> "request", r |-> s] => s = Head(q).r
  OBVIOUS
<1>4. About(Head(q), Head(q).r)
  BY Zenon DEF About
<1>5. Names(q, Head(q).r) /\ \A s : /\ Names(Tail(q), s) => Names(q, s)
                                    /\ s # Head(q).r /\ Asks(q, s) => Asks(Tail(q), s)
  BY <1>3, <1>4, Pops, Zenon
<1>6. PausesKept(q, Tail(q))
  BY Pops, Zenon DEF PausesKept
<1> QED  BY <1>2, <1>5, <1>6, Zenon

\* Pause and Continue post their functors to the listening loops.
LEMMA ToggleQueues ==
  ASSUME IInv, NEW f \in {"pause", "continue"}, Toggle(f), NEW w \in Workers
  PROVE  RequestsKept(queue[w], queue'[w]) /\ PausesKept(queue[w], queue'[w])
<1>1. queue[w] \in Seq(Functors)
  BY Zenon DEF IInv, Threads, ThreadTypes
<1>2. CASE w \in ports
  <2>1. queue'[w] = Append(queue[w], [f |-> f])
    BY <1>2, Zenon DEF Toggle
  <2> QED  BY <1>1, <2>1, PostedKept, Zenon
<1>3. CASE w \notin ports
  <2>1. queue'[w] = queue[w]
    BY <1>3, Zenon DEF Toggle
  <2> QED  BY <2>1, Zenon DEF RequestsKept, PausesKept
<1> QED  BY <1>2, <1>3, Zenon

\* Dispatch hands a request on, in place or to the loop it has chosen.
LEMMA ForwardQueues ==
  ASSUME IInv, NEW l \in Listeners, Forward(l)
  PROVE  /\ lpc[l].r \in Requests /\ ~Free(l) /\ Free(l)'
         /\ \A k \in Listeners : k # l => lpc'[k] = lpc[k]
         /\ \A w \in Workers :
              /\ PausesKept(queue[w], queue'[w])
              /\ \A s : /\ Names(queue'[w], s) => Names(queue[w], s) \/ s = lpc[l].r
                        /\ Asks(queue[w], s) => Asks(queue'[w], s)
              /\ w = lpc[l].loop /\ w # l => Asks(queue'[w], lpc[l].r)
<1>1. lpc[l].at = "forward" /\ lpc \in [Listeners -> Dispatches]
  BY Zenon DEF Forward, IInv, ServerTypes
<1>2. lpc[l].r \in Requests /\ ~Free(l)
  BY <1>1 DEF Dispatches, NoDispatch, Free
<1>3. Free(l)' /\ \A k \in Listeners : k # l => lpc'[k] = lpc[k]
  BY <1>1, Zenon DEF Forward, Free
<1>4. ASSUME NEW w \in Workers
      PROVE  /\ PausesKept(queue[w], queue'[w])
             /\ \A s : /\ Names(queue'[w], s) => Names(queue[w], s) \/ s = lpc[l].r
                       /\ Asks(queue[w], s) => Asks(queue'[w], s)
             /\ w = lpc[l].loop /\ w # l => Asks(queue'[w], lpc[l].r)
  <2>1. queue[w] \in Seq(Functors)
    BY Zenon DEF IInv, Threads, ThreadTypes
  <2>2. CASE w = lpc[l].loop /\ w # l
    <3>1. queue'[w] = Append(queue[w], [f |-> "request", r |-> lpc[l].r])
      BY <2>2, Zenon DEF Forward, IInv, Threads, ThreadTypes
    <3>2. /\ PausesKept(queue[w], queue'[w]) /\ Asks(queue'[w], lpc[l].r)
          /\ \A s : /\ Names(queue'[w], s) => Names(queue[w], s) \/ s = lpc[l].r
                    /\ Asks(queue[w], s) => Asks(queue'[w], s)
      <4>1. ASSUME NEW r \in Requests,
                   queue'[w] = Append(queue[w], [f |-> "request", r |-> r])
            PROVE  /\ PausesKept(queue[w], queue'[w])
                   /\ \A s : /\ Names(queue'[w], s) => Names(queue[w], s) \/ s = r
                             /\ Asks(queue[w], s) => Asks(queue'[w], s)
                   /\ Asks(queue'[w], r)
        BY <2>1, <4>1, RequestPosted, Zenon
      <4> QED  BY <1>2, <3>1, <4>1, Zenon
    <3> QED  BY <3>2, Zenon
  <2>3. CASE ~(w = lpc[l].loop /\ w # l)
    <3>1. queue'[w] = queue[w]
      BY <2>3, Zenon DEF Forward, IInv, Threads, ThreadTypes
    <3> QED  BY <2>3, <3>1, Zenon DEF PausesKept
  <2> QED  BY <2>2, <2>3, Zenon
<1> QED  BY <1>2, <1>3, <1>4, Zenon

\* A loop runs a request or a reply.
LEMMA RunQueues ==
  ASSUME IInv, NEW w \in Workers, NEW f \in {"request", "reply"}, Runs(w, f)
  PROVE  /\ Head(queue[w]).r \in Requests /\ Names(queue[w], Head(queue[w]).r)
         /\ \A v \in Workers :
              /\ PausesKept(queue[v], queue'[v])
              /\ \A s : /\ Names(queue'[v], s) => Names(queue[v], s)
                        /\ s # Head(queue[w]).r /\ Asks(queue[v], s) => Asks(queue'[v], s)
<1>1. /\ queue[w] \in Seq(Functors) /\ queue[w] # <<>> /\ Head(queue[w]).f = f
      /\ queue'[w] = Tail(queue[w]) /\ \A v \in Workers : v # w => queue'[v] = queue[v]
  BY Zenon DEF IInv, Threads, ThreadTypes, Runs
<1>2. /\ Head(queue[w]).r \in Requests /\ Names(queue[w], Head(queue[w]).r)
      /\ PausesKept(queue[w], queue'[w])
      /\ \A s : /\ Names(queue'[w], s) => Names(queue[w], s)
                /\ s # Head(queue[w]).r /\ Asks(queue[w], s) => Asks(queue'[w], s)
  BY <1>1, RequestRun, Zenon
<1> QED  BY <1>1, <1>2, Zenon DEF PausesKept

\* SendReply posts a reply to the listening loop of its request.
LEMMA ReplyQueues ==
  ASSUME IInv, NEW r \in Requests, SendReplyPost(r), NEW w \in Workers
  PROVE  /\ PausesKept(queue[w], queue'[w])
         /\ \A s : /\ Names(queue'[w], s) => Names(queue[w], s) \/ s = r
                   /\ Asks(queue[w], s) => Asks(queue'[w], s)
<1>1. queue[w] \in Seq(Functors)
  BY Zenon DEF IInv, Threads, ThreadTypes
<1>2. CASE w = req[r].l
  <2>1. queue'[w] = Append(queue[w], [f |-> "reply", r |-> r])
    BY <1>2, Zenon DEF SendReplyPost, IInv, Threads, ThreadTypes
  <2> QED  BY <1>1, <2>1, RequestPosted, Zenon
<1>3. CASE w # req[r].l
  <2>1. queue'[w] = queue[w]
    BY <1>3, Zenon DEF SendReplyPost, IInv, Threads, ThreadTypes
  <2> QED  BY <2>1, Zenon DEF PausesKept
<1> QED  BY <1>2, <1>3, Zenon

\* Stop counts the listening threads that it need not wait for.
LEMMA PauseKeeps ==
  ASSUME IInv, PhaseInv, PauseInv, ServerNext
  PROVE  PauseInv'
<1>1. ports \subseteq Listeners /\ \A l \in Listeners : l \in Workers
  BY ListenerWorkers, Zenon DEF IInv, PortInv
<1>2. CASE Quiet
  <2>1. UNCHANGED <<count, ports, spc, lt>>
    BY <1>2, Zenon DEF Quiet
  <2>2. \A l \in Listeners : PausesKept(queue[l], queue'[l]) /\ (Free(l)' <=> Free(l))
    BY <1>1, <1>2, Zenon DEF Quiet, Carries, Free
  <2> QED  BY <1>1, <2>1, <2>2, PauseStays, Zenon
<1>3. CASE InitPort \/ InitFails \/ StartServer \/ PoolStarted \/ RegisterHandlers \/ ServerStarted
  <2>1. /\ spc \in Before \cup {"startlisten", "startwait"}
        /\ spc' \in Before \cup {"startlisten", "startwait", "running"}
    BY <1>3, Zenon DEF InitPort, NextPort, InitFails, StartServer, PoolStarted, RegisterHandlers,
       ServerStarted, Server, Before
  <2>2. UNCHANGED <<count, ports, queue, lpc>>
    BY <1>3, Zenon DEF InitPort, InitFails, StartServer, PoolStarted, RegisterHandlers,
       ServerStarted, vars, threadVars
  <2> QED  BY <2>1, <2>2, PauseMoves, Zenon
<1>4. CASE StopServer
  BY <1>4, PauseMoves, Zenon DEF StopServer, Server, vars, threadVars
<1>5. CASE StopPool
  BY <1>5, PauseMoves, Zenon DEF StopPool, Stop, Server, threadVars, Stopping
<1>6. CASE PoolStopped \/ StopNextListener \/ ServerStopped
  <2>1. spc \in Stopping /\ spc' \in Stopping
    BY <1>6, Zenon DEF PoolStopped, StopNextListener, NextPort, ServerStopped, Server, Stopping
  <2>2. UNCHANGED <<count, ports, queue, lpc>>
    BY <1>6, Zenon DEF PoolStopped, StopNextListener, ServerStopped, vars, threadVars
  <2> QED  BY <2>1, <2>2, PauseMoves, Zenon
<1>7. CASE ServerOwner \/ StopServer
  BY <1>2, <1>3, <1>4, <1>5, <1>6, <1>7, PostPauseKeeps, QuietSteps, Zenon DEF ServerOwner
<1>8. ASSUME NEW f \in {"pause", "continue"}, Toggle(f)
      PROVE  PauseInv'
  <2>1. UNCHANGED <<count, ports, spc, lt, lpc>>
    BY <1>8, Zenon DEF Toggle
  <2>2. \A l \in Listeners : PausesKept(queue[l], queue'[l]) /\ (Free(l)' <=> Free(l))
    BY <1>1, <1>8, <2>1, ToggleQueues, Zenon DEF Free
  <2> QED  BY <1>1, <2>1, <2>2, PauseStays, Zenon
<1>9. ASSUME UNCHANGED <<count, ports, spc, lt, queue>>,
             \A l \in Listeners : ~Free(l)' => ~Free(l)
      PROVE  PauseInv'
  <2>1. \A l \in Listeners : PausesKept(queue[l], queue'[l])
    BY <1>9, SamePauses, Zenon
  <2> QED  BY <1>1, <1>9, <2>1, PauseStays, Zenon
<1>10. ASSUME NEW l \in Listeners, NEW r \in Requests, DefaultHandleRequest(l, r) \/ Accept(l, r)
       PROVE  PauseInv'
  BY <1>9, <1>10, Zenon DEF DefaultHandleRequest, Accept, vars, threadVars, Free
<1>11. ASSUME NEW l \in Listeners, NEW r \in Requests, HandleRequest(l, r)
       PROVE  PauseInv'
  <2>1. UNCHANGED <<count, ports, spc, lt, queue>> /\ l \in ports
    BY <1>11, Zenon DEF HandleRequest, Serving, vars, threadVars
  <2>2. CASE sstatus = "kRunning"
    <3>1. spc = "running"
      BY <2>2, Zenon DEF PhaseInv, IInv, ServerTypes, ServerPCs
    <3>2. \A k \in Listeners : k # l => (Free(k)' <=> Free(k))
      BY <1>11, <2>2, Zenon DEF HandleRequest, IInv, ServerTypes, Free
    <3>3. \A k : (Told(k)' <=> Told(k)) /\ ~Told(k)
      BY <2>1, <3>1, Zenon DEF Told, Stopping
    <3>4. PausedSet' = PausedSet
      BY <2>1, <3>3, Zenon DEF PausedSet
    <3>5. \A k \in Listeners : ~Free(k)' => k \in ports
      BY <2>1, <3>2, Zenon DEF PauseInv
    <3> QED  BY <2>1, <3>1, <3>3, <3>4, <3>5, Zenon DEF PauseInv
  <2>3. CASE sstatus # "kRunning"
    BY <1>9, <1>11, <2>1, <2>3, Zenon DEF HandleRequest, Free
  <2> QED  BY <2>2, <2>3, Zenon
<1>12. ASSUME NEW l \in Listeners, ServerGetNextLoop(l)
       PROVE  PauseInv'
  <2>1. UNCHANGED <<count, ports, spc, lt, queue>>
    BY <1>12, Zenon DEF ServerGetNextLoop, vars, threadVars
  <2>2. lpc[l].at = "pick" /\ \A k \in Listeners : k # l => lpc'[k] = lpc[k]
    BY <1>12, Zenon DEF ServerGetNextLoop, IInv, ServerTypes
  <2>3. ~Free(l)
    BY <2>2 DEF Free, NoDispatch
  <2>4. \A k \in Listeners : ~Free(k)' => ~Free(k)
    BY <2>2, <2>3, Zenon DEF Free
  <2> QED  BY <1>9, <2>1, <2>4, Zenon
<1>13. ASSUME NEW l \in Listeners, Forward(l)
       PROVE  PauseInv'
  <2>1. UNCHANGED <<count, ports, spc, lt>>
    BY <1>13, Zenon DEF Forward
  <2>2. \A k \in Listeners : PausesKept(queue[k], queue'[k])
    BY <1>1, <1>13, ForwardQueues, Zenon
  <2>3. Free(l)' /\ \A k \in Listeners : k # l => lpc'[k] = lpc[k]
    BY <1>13, ForwardQueues, Zenon
  <2>4. \A k \in Listeners : ~Free(k)' => ~Free(k)
    BY <2>3, Zenon DEF Free
  <2> QED  BY <1>1, <2>1, <2>2, <2>4, PauseStays, Zenon
<1>14. ASSUME NEW w \in Workers, RunReply(w) \/ RunRequest(w)
       PROVE  PauseInv'
  <2>1. PICK f \in {"request", "reply"} : Runs(w, f)
    BY <1>14, Zenon DEF RunReply, RunRequest
  <2>2. UNCHANGED <<count, ports, spc, lt, lpc>>
    BY <1>14, <2>1, Zenon DEF RunReply, RunRequest, Runs
  <2>3. \A l \in Listeners : PausesKept(queue[l], queue'[l]) /\ (Free(l)' <=> Free(l))
    BY <1>1, <2>1, <2>2, RunQueues, Zenon DEF Free
  <2> QED  BY <1>1, <2>2, <2>3, PauseStays, Zenon
<1>15. ASSUME NEW r \in Requests, UserNext(r)
       PROVE  PauseInv'
  <2>1. UNCHANGED <<count, ports, spc, lt, lpc>>
    BY <1>15, Zenon DEF UserNext, SendReplyTest, SendReplyPost, SendReplyInPlace
  <2>2. CASE SendReplyTest(r) \/ SendReplyInPlace(r)
    BY <1>9, <2>1, <2>2, Zenon DEF SendReplyTest, SendReplyInPlace, vars, threadVars, Free
  <2>3. CASE SendReplyPost(r)
    <3>1. \A l \in Listeners : PausesKept(queue[l], queue'[l]) /\ (Free(l)' <=> Free(l))
      BY <1>1, <2>1, <2>3, ReplyQueues, Zenon DEF Free
    <3> QED  BY <1>1, <2>1, <3>1, PauseStays, Zenon
  <2> QED  BY <1>15, <2>2, <2>3, Zenon DEF UserNext
<1>16. ASSUME NEW l \in Listeners, ListenerNext(l) \/ \E r \in Requests : Accept(l, r)
       PROVE  PauseInv'
  BY <1>1, <1>2, <1>10, <1>11, <1>12, <1>13, <1>14, <1>16, RunPauseKeeps, QuietSteps, Zenon
  DEF ListenerNext
<1>17. ASSUME NEW w \in 1..MaxThreads, RunRequest(w)
       PROVE  PauseInv'
  BY <1>14, <1>17, PoolAssumption, Zenon
<1>18. CASE Below
  BY <1>2, <1>18, QuietSteps, Zenon
<1> QED  BY <1>7, <1>8, <1>15, <1>16, <1>17, <1>18, StepsBelow, Zenon
         DEF ServerNext, PoolStep, PoolWorkerNext

-----------------------------------------------------------------------------
(* The requests.                                                           *)

Dispatched == {"kRunning", "kStopping", "kStopped"}

\* A step that does nothing to the requests.
LEMMA RequestFrame ==
  ASSUME IInv, RequestInv, UNCHANGED <<req, lpc, ports, num>>,
         \A w \in Workers : /\ RequestsKept(queue[w], queue'[w])
                            /\ Live(w) => Live(w)' \/ queue[w] = <<>>,
         sstatus \in Dispatched => /\ sstatus' \in Dispatched
                                   /\ sstatus # "kRunning" => sstatus' # "kRunning"
  PROVE  RequestInv'
<1>1. \A l : Free(l)' <=> Free(l)
  BY Zenon DEF Free
<1>2. \A r : ~Asks(<<>>, r)
  BY Empties, Zenon
<1>3. \A w \in 1..num : w \in Workers
  BY PoolWorkers, Zenon DEF IInv, PoolInv
<1>4. ASSUME NEW r \in Requests, NEW w \in 1..num, Asks(queue[w], r), Live(w)
      PROVE  Asks(queue'[w], r) /\ Live(w)'
  BY <1>2, <1>3, <1>4, Zenon DEF RequestsKept
<1>5. ASSUME NEW r \in Requests, req[r].at = "queued"
      PROVE  \E w \in 1..num : Asks(queue'[w], r) /\ Live(w)'
  BY <1>4, <1>5, Zenon DEF RequestInv
<1>6. ASSUME NEW r \in Requests, NEW w \in Workers, Names(queue'[w], r)
      PROVE  req[r].at # "none" /\ sstatus' \in Dispatched
  BY <1>6, Zenon DEF RequestInv, RequestsKept, Dispatched
<1>7. ASSUME NEW r \in Requests
      PROVE  /\ req[r].at \in {"dispatch", "discarded", "queued", "working", "sending", "replying"}
                  => sstatus' \in Dispatched
             /\ req[r].at = "discarded" => sstatus' # "kRunning"
  BY Zenon DEF RequestInv, Dispatched
<1> QED  BY <1>1, <1>5, <1>6, <1>7, Zenon DEF RequestInv, Dispatched

\* A step that moves the request r on; it may end a Dispatch of r.
LEMMA RequestMoves ==
  ASSUME IInv, RequestInv, NEW r \in Requests, req[r].at # "none",
         NEW at \in RequestStates \ {"none", "dispatch", "unsent"}, Becomes(r, at),
         UNCHANGED <<ports, num, sstatus, wpc>>,
         at \in {"discarded", "queued", "working", "sending", "replying"} =>
           sstatus \in Dispatched,
         at = "discarded" => sstatus # "kRunning",
         at = "queued" => \E w \in 1..num : Asks(queue'[w], r) /\ Live(w),
         \A w \in Workers : \A s :
           /\ Names(queue'[w], s) => Names(queue[w], s) \/ s = r
           /\ s # r /\ Asks(queue[w], s) => Asks(queue'[w], s),
         queue' = queue \/ sstatus \in Dispatched,
         \A l \in Listeners :
           lpc'[l] = lpc[l] \/ (lpc'[l] = NoDispatch /\ lpc[l].r = r)
  PROVE  RequestInv'
<1>1. /\ req'[r].at = at
      /\ \A s \in Requests : req'[s].l = req[s].l /\ (s # r => req'[s] = req[s])
  BY BecomesType, Zenon DEF IInv, ServerTypes
<1>2. \A w \in 1..num : w \in Workers
  BY PoolWorkers, Zenon DEF IInv, PoolInv
<1>3. \A w : Live(w)' <=> Live(w)
  BY Zenon DEF Live
<1>4. NoDispatch.at # "forward"
  BY DEF NoDispatch
<1>5. ports \subseteq Listeners
  BY Zenon DEF IInv, PortInv
<1>6. ASSUME NEW l \in Listeners
      PROVE  /\ ~Free(l)' => req'[lpc'[l].r].at # "none"
             /\ lpc'[l].at = "forward" => lpc'[l].loop \in IF num = 0 THEN {l} ELSE 1..num
  <2>1. ~Free(l)' => lpc'[l] = lpc[l] /\ ~Free(l)
    BY Zenon DEF Free
  <2>2. ~Free(l) => lpc[l].r \in Requests
    BY DEF IInv, ServerTypes, Dispatches, Free
  <2>3. ASSUME NEW s \in Requests, req[s].at # "none"
        PROVE  req'[s].at # "none"
    BY <1>1, <2>3, Zenon
  <2>4. ~Free(l) => req[lpc[l].r].at # "none"
    BY Zenon DEF RequestInv
  <2>5. ~Free(l)' => req'[lpc'[l].r].at # "none"
    BY <2>1, <2>2, <2>3, <2>4, Zenon
  <2>6. lpc'[l].at = "forward" => lpc'[l].loop \in IF num = 0 THEN {l} ELSE 1..num
    BY <1>4, Zenon DEF RequestInv
  <2> QED  BY <2>5, <2>6, Zenon
<1>7. ASSUME NEW s \in Requests, s # r, req[s].at = "dispatch"
      PROVE  ~Free(req[s].l)' /\ lpc'[req'[s].l].r = s
  <2>1. req[s].l \in Listeners /\ ~Free(req[s].l) /\ lpc[req[s].l].r = s
    BY <1>5, <1>7, Zenon DEF RequestInv
  <2>2. lpc'[req[s].l] = lpc[req[s].l]
    BY <1>7, <2>1, Zenon
  <2>3. req'[s].l = req[s].l
    BY <1>1, Zenon
  <2> QED  BY <2>1, <2>2, <2>3, Zenon DEF Free
<1>8. ASSUME NEW s \in Requests, req'[s].at = "queued"
      PROVE  \E w \in 1..num : Asks(queue'[w], s) /\ Live(w)
  BY <1>1, <1>2, <1>8, Zenon DEF RequestInv
<1>9. ASSUME NEW s \in Requests, NEW w \in Workers, Names(queue'[w], s)
      PROVE  req'[s].at # "none" /\ sstatus \in Dispatched
  BY <1>1, <1>9, Zenon DEF RequestInv, Dispatched
<1>10. ASSUME NEW s \in Requests
       PROVE  /\ req'[s].at # "none" => req'[s].l \in ports
              /\ req'[s].at \in {"dispatch", "discarded", "queued", "working", "sending",
                                 "replying"} => sstatus \in Dispatched
              /\ req'[s].at = "discarded" => sstatus # "kRunning"
              /\ req'[s].at # "unsent"
              /\ req'[s].at = "dispatch" => ~Free(req[s].l)' /\ lpc'[req'[s].l].r = s
  <2>1. CASE s = r
    BY <1>1, <2>1, Zenon DEF RequestInv
  <2>2. CASE s # r
    <3>1. req'[s] = req[s]
      BY <1>1, <2>2, Zenon
    <3>2. req[s].at = "dispatch" => ~Free(req[s].l)' /\ lpc'[req'[s].l].r = s
      BY <1>7, <2>2, <3>1, Zenon
    <3>3. /\ req[s].at # "none" => req[s].l \in ports
          /\ req[s].at \in {"dispatch", "discarded", "queued", "working", "sending", "replying"}
               => sstatus \in Dispatched
          /\ req[s].at = "discarded" => sstatus # "kRunning"
          /\ req[s].at # "unsent"
      BY Zenon DEF RequestInv, Dispatched
    <3> QED  BY <3>1, <3>2, <3>3, Zenon
  <2> QED  BY <2>1, <2>2, Zenon
<1> QED  BY <1>3, <1>6, <1>8, <1>9, <1>10, Zenon DEF RequestInv, Dispatched

\* While a server is running, so are its listening loops.
LEMMA RunningListens ==
  ASSUME IInv, PhaseInv, ListenInv, sstatus = "kRunning", NEW l \in ports
  PROVE  lstatus[l] = "kRunning"
<1>1. spc = "running"
  BY Zenon DEF PhaseInv, IInv, ServerTypes, ServerPCs
<1>2. opc[l] = "started" /\ l \in Workers /\ waitStart /\ ppc # "none"
  BY <1>1, ListenerWorkers, Zenon DEF ListenInv, IInv, PortInv
<1>3. ThreadInv(l) /\ ~failed[l]
  BY <1>2, Zenon DEF IInv, Threads, PoolInv
<1> QED  BY <1>2, <1>3, Zenon DEF ThreadInv

\* While a listening thread is in Dispatch, the pool runs.
LEMMA PoolRuns ==
  ASSUME IInv, PhaseInv, PauseInv, NEW l \in Listeners, ~Free(l)
  PROVE  /\ sstatus \in Dispatched /\ pstatus = "kRunning" /\ threads = num
         /\ \A w \in 1..num : Live(w)
<1>1. spc \in {"running", "pausing", "paused"}
  BY Zenon DEF PauseInv
<1>2. sstatus \in Dispatched /\ ppc = "started" /\ waitStart
  BY <1>1, Zenon DEF PhaseInv, Open, Dispatched, IInv, PortInv
<1>3. pstatus = "kRunning" /\ threads = num
  BY <1>2, Zenon DEF IInv, PoolInv, StatusInv, OwnerInv
<1>4. ASSUME NEW w \in 1..num
      PROVE  Live(w)
  <2>1. w \in Workers /\ opc[w] = "started" /\ ~failed[w]
    BY <1>2, PoolWorkers, Zenon DEF IInv, PoolInv, OwnerInv
  <2>2. ThreadInv(w)
    BY <2>1, Zenon DEF IInv, Threads
  <2> QED  BY <1>2, <2>1, <2>2, Zenon DEF ThreadInv, Live
<1> QED  BY <1>2, <1>3, <1>4, Zenon

\* A request comes in.
LEMMA AcceptRequest ==
  ASSUME IInv, RequestInv, NEW l \in Listeners, NEW r \in Requests, Accept(l, r)
  PROVE  RequestInv'
<1>1. UNCHANGED <<lpc, ports, num, sstatus, queue, wpc>> /\ l \in ports /\ req[r].at = "none"
  BY Zenon DEF Accept, Serving, vars, poolVars, threadVars
<1>2. req'[r].at = "open" /\ req'[r].l = l /\ \A s \in Requests : s # r => req'[s] = req[s]
  BY DEF Accept, IInv, ServerTypes
<1>3. \A w : Live(w)' <=> Live(w)
  BY <1>1, Zenon DEF Live
<1>4. ASSUME NEW k \in Listeners, ~Free(k)'
      PROVE  req'[lpc'[k].r].at # "none"
  <2>1. lpc'[k] = lpc[k] /\ ~Free(k) /\ req[lpc[k].r].at # "none"
    BY <1>1, <1>4, Zenon DEF Free, RequestInv
  <2>2. lpc[k].r \in Requests
    BY <2>1 DEF IInv, ServerTypes, Dispatches, Free
  <2> QED  BY <1>1, <1>2, <2>1, <2>2, Zenon
<1>5. ASSUME NEW s \in Requests, s # r, req[s].at = "dispatch"
      PROVE  ~Free(req[s].l)' /\ lpc'[req'[s].l].r = s
  BY <1>1, <1>2, <1>5, Zenon DEF RequestInv, Free
<1>6. ASSUME NEW s \in Requests
      PROVE  /\ req'[s].at # "none" => req'[s].l \in ports
             /\ \A w \in Workers :
                  Names(queue[w], s) => /\ req'[s].at # "none"
                                        /\ sstatus \in {"kRunning", "kStopping", "kStopped"}
             /\ req'[s].at \in {"dispatch", "discarded", "queued", "working", "sending",
                                "replying"} => sstatus \in {"kRunning", "kStopping", "kStopped"}
             /\ req'[s].at = "discarded" => sstatus # "kRunning"
             /\ req'[s].at # "unsent"
             /\ req'[s].at = "dispatch" => ~Free(req[s].l)' /\ lpc'[req'[s].l].r = s
             /\ req'[s].at = "queued" => \E w \in 1..num : Asks(queue[w], s) /\ Live(w)
  <2>1. CASE s = r
    BY <1>1, <1>2, <2>1, Zenon DEF RequestInv
  <2>2. CASE s # r
    <3>1. req'[s] = req[s]
      BY <1>2, <2>2, Zenon
    <3> QED  BY <1>5, <2>2, <3>1, Zenon DEF RequestInv
  <2> QED  BY <2>1, <2>2, Zenon
<1>7. \A k \in Listeners :
        lpc'[k].at = "forward" => lpc'[k].loop \in IF num = 0 THEN {k} ELSE 1..num
  BY <1>1, Zenon DEF RequestInv
<1> QED  BY <1>1, <1>3, <1>4, <1>6, <1>7, Zenon DEF RequestInv

\* Dispatch begins.
LEMMA DispatchRequest ==
  ASSUME IInv, RequestInv, NEW l \in Listeners, NEW r \in Requests, HandleRequest(l, r),
         sstatus = "kRunning"
  PROVE  RequestInv'
<1>1. /\ UNCHANGED <<ports, num, sstatus, queue, wpc>> /\ l \in ports /\ Free(l)
      /\ req[r] = [at |-> "open", l |-> l] /\ Becomes(r, "dispatch")
      /\ lpc' = [lpc EXCEPT ![l] = [at |-> "pick", r |-> r, loop |-> 0]]
  BY Zenon DEF HandleRequest, Serving, vars, poolVars, threadVars
<1>2. req'[r].at = "dispatch" /\ req'[r].l = l /\ \A s \in Requests : s # r => req'[s] = req[s]
  <2>1. "dispatch" \in RequestStates
    BY Zenon DEF RequestStates
  <2>2. req[r].l = l
    <3>1. req[r] = [at |-> "open", l |-> l]
      BY <1>1, Zenon
    <3> QED  BY <3>1
  <2>3. /\ req'[r].at = "dispatch"
        /\ \A s \in Requests : req'[s].l = req[s].l /\ (s # r => req'[s] = req[s])
    BY <1>1, <2>1, BecomesType, Zenon DEF IInv, ServerTypes
  <2> QED  BY <2>2, <2>3, Zenon
<1>3. /\ lpc'[l] = [at |-> "pick", r |-> r, loop |-> 0]
      /\ \A k \in Listeners : k # l => lpc'[k] = lpc[k]
  BY <1>1, Zenon DEF IInv, ServerTypes
<1>4. lpc'[l].r = r /\ lpc'[l].at = "pick" /\ lpc'[l] # NoDispatch
  BY <1>3 DEF NoDispatch
<1>5. \A w : Live(w)' <=> Live(w)
  BY <1>1, Zenon DEF Live
<1>6. ports \subseteq Listeners
  BY Zenon DEF IInv, PortInv
<1>7. ASSUME NEW k \in Listeners
      PROVE  /\ ~Free(k)' => req'[lpc'[k].r].at # "none"
             /\ lpc'[k].at = "forward" => lpc'[k].loop \in IF num = 0 THEN {k} ELSE 1..num
  <2>1. CASE k = l
    BY <1>2, <1>4, <2>1, Zenon
  <2>2. CASE k # l
    <3>1. lpc'[k] = lpc[k] /\ (Free(k)' <=> Free(k))
      BY <1>3, <2>2, Zenon DEF Free
    <3>2. ~Free(k) => lpc[k].r \in Requests
      BY DEF IInv, ServerTypes, Dispatches, Free
    <3>3. ~Free(k) => req'[lpc[k].r].at # "none"
      BY <1>2, <3>2, Zenon DEF RequestInv
    <3> QED  BY <3>1, <3>3, Zenon DEF RequestInv
  <2> QED  BY <2>1, <2>2, Zenon
<1>8. ASSUME NEW s \in Requests, s # r, req[s].at = "dispatch"
      PROVE  ~Free(req[s].l)' /\ lpc'[req'[s].l].r = s
  <2>1. req[s].l \in Listeners /\ ~Free(req[s].l) /\ lpc[req[s].l].r = s
    BY <1>6, <1>8, Zenon DEF RequestInv
  <2>2. lpc'[req[s].l] = lpc[req[s].l] /\ req'[s].l = req[s].l
    BY <1>1, <1>2, <1>3, <1>8, <2>1, Zenon
  <2> QED  BY <2>1, <2>2, Zenon DEF Free
<1>9. ASSUME NEW s \in Requests
      PROVE  /\ req'[s].at # "none" => req'[s].l \in ports
             /\ \A w \in Workers :
                  Names(queue[w], s) => /\ req'[s].at # "none"
                                        /\ sstatus \in {"kRunning", "kStopping", "kStopped"}
             /\ req'[s].at \in {"dispatch", "discarded", "queued", "working", "sending",
                                "replying"} => sstatus \in {"kRunning", "kStopping", "kStopped"}
             /\ req'[s].at = "discarded" => sstatus # "kRunning"
             /\ req'[s].at # "unsent"
             /\ req'[s].at = "dispatch" => ~Free(req[s].l)' /\ lpc'[req'[s].l].r = s
             /\ req'[s].at = "queued" => \E w \in 1..num : Asks(queue[w], s) /\ Live(w)
  <2>1. CASE s = r
    BY <1>1, <1>2, <1>4, <2>1, Zenon DEF Free
  <2>2. CASE s # r
    <3>1. req'[s] = req[s]
      BY <1>2, <2>2, Zenon
    <3> QED  BY <1>8, <2>2, <3>1, Zenon DEF RequestInv
  <2> QED  BY <2>1, <2>2, Zenon
<1> QED  BY <1>1, <1>5, <1>7, <1>9, Zenon DEF RequestInv

\* Dispatch has chosen a loop that runs.
LEMMA ChooseLoop ==
  ASSUME IInv, PhaseInv, PauseInv, RequestInv, NEW l \in Listeners, ServerGetNextLoop(l)
  PROVE  RequestInv'
<1>1. UNCHANGED <<ports, num, sstatus, queue, wpc, req>> /\ lpc[l].at = "pick"
  BY Zenon DEF ServerGetNextLoop, vars, poolVars, threadVars
<1>2. ~Free(l)
  BY <1>1 DEF Free, NoDispatch
<1>3. pstatus = "kRunning" /\ threads = num /\ num \in 0..MaxThreads
  BY <1>2, PoolRuns, Zenon DEF IInv, PoolInv, PoolTypes
<1>4. num # 0 => num > 0
  BY <1>3, PoolAssumption
<1>5. PICK i \in IF num = 0 THEN {l} ELSE 1..num :
        lpc' = [lpc EXCEPT ![l] = [@ EXCEPT !.at = "forward", !.loop = i]]
  BY <1>3, <1>4, Zenon DEF ServerGetNextLoop
<1>6. /\ lpc'[l] = [lpc[l] EXCEPT !.at = "forward", !.loop = i]
      /\ \A k \in Listeners : k # l => lpc'[k] = lpc[k]
  BY <1>5, Zenon DEF IInv, ServerTypes
<1>7. lpc[l] \in [at : {"pick", "forward"}, r : Requests, loop : Workers \cup {0}]
  BY <1>2, Zenon DEF IInv, ServerTypes, Dispatches, Free
<1>8. lpc'[l].r = lpc[l].r /\ lpc'[l].loop = i /\ lpc'[l].at = "forward" /\ lpc'[l] # NoDispatch
  <2>1. lpc'[l].r = lpc[l].r /\ lpc'[l].loop = i /\ lpc'[l].at = "forward"
    BY <1>6, <1>7
  <2>2. NoDispatch.at # "forward"
    BY DEF NoDispatch
  <2> QED  BY <2>1, <2>2, Zenon
<1>9. \A w : Live(w)' <=> Live(w)
  BY <1>1, Zenon DEF Live
<1>10. \A k \in Listeners : (Free(k)' <=> Free(k)) /\ lpc'[k].r = lpc[k].r
  BY <1>2, <1>6, <1>8, Zenon DEF Free
<1>11. \A k \in Listeners :
         lpc'[k].at = "forward" => lpc'[k].loop \in IF num = 0 THEN {k} ELSE 1..num
  <2>1. i \in IF num = 0 THEN {l} ELSE 1..num
    BY Zenon
  <2> QED  BY <1>6, <1>8, <2>1, Zenon DEF RequestInv
<1>12. ports \subseteq Listeners
  BY Zenon DEF IInv, PortInv
<1>13. ASSUME NEW s \in Requests, req[s].at = "dispatch"
       PROVE  ~Free(req[s].l)' /\ lpc'[req'[s].l].r = s
  <2>1. req[s].l \in Listeners /\ ~Free(req[s].l) /\ lpc[req[s].l].r = s
    BY <1>12, <1>13, Zenon DEF RequestInv
  <2>2. req'[s].l = req[s].l /\ lpc'[req[s].l] # NoDispatch
    BY <1>1, <1>10, <2>1, Zenon DEF Free
  <2> QED  BY <1>10, <2>1, <2>2, Zenon DEF Free
<1>14. \A k \in Listeners : ~Free(k)' => req'[lpc'[k].r].at # "none"
  BY <1>1, <1>10, Zenon DEF RequestInv
<1> QED  BY <1>1, <1>9, <1>11, <1>13, <1>14, Zenon DEF RequestInv

\* Dispatch hands the request on.
LEMMA ForwardRequest ==
  ASSUME IInv, PhaseInv, PauseInv, RequestInv, NEW l \in Listeners, Forward(l)
  PROVE  RequestInv'
<1> DEFINE r == lpc[l].r
<1>1. r \in Requests /\ ~Free(l) /\ req[r].at # "none"
  BY ForwardQueues, Zenon DEF RequestInv
<1>2. UNCHANGED <<ports, num, sstatus, wpc>> /\ lpc[l].at = "forward"
  BY Zenon DEF Forward, poolVars
<1>3. \A k \in Listeners : lpc'[k] = lpc[k] \/ (lpc'[k] = NoDispatch /\ lpc[k].r = r)
  BY ForwardQueues, Zenon DEF Free
<1>4. \A w \in Workers : \A s : /\ Names(queue'[w], s) => Names(queue[w], s) \/ s = r
                                /\ s # r /\ Asks(queue[w], s) => Asks(queue'[w], s)
  BY ForwardQueues, Zenon
<1>5. sstatus \in Dispatched /\ \A w \in 1..num : Live(w)
  BY <1>1, PoolRuns, Zenon
<1>6. CASE lpc[l].loop = l
  <2>1. PICK at \in {"working", "dropped"} : Becomes(r, at)
    BY <1>6, Zenon DEF Forward
  <2>2. at \in RequestStates \ {"none", "dispatch", "unsent"}
    BY DEF RequestStates, Fates
  <2> HIDE DEF r
  <2> QED  BY <1>1, <1>2, <1>3, <1>4, <1>5, <2>1, <2>2, RequestMoves, Zenon
<1>7. CASE lpc[l].loop # l
  <2>1. Becomes(r, "queued")
    BY <1>7, Zenon DEF Forward
  <2>2. lpc[l].loop \in 1..num
    BY <1>2, <1>7, Zenon DEF RequestInv
  <2>3. Asks(queue'[lpc[l].loop], r)
    BY <1>7, <2>2, ForwardQueues, PoolWorkers, Zenon DEF IInv, PoolInv
  <2>4. "queued" \in RequestStates \ {"none", "dispatch", "unsent"}
    BY DEF RequestStates
  <2>5. \E w \in 1..num : Asks(queue'[w], r) /\ Live(w)
    BY <1>5, <2>2, <2>3, Zenon
  <2> HIDE DEF r
  <2> QED  BY <1>1, <1>2, <1>3, <1>4, <1>5, <2>1, <2>4, <2>5, RequestMoves, Zenon
<1> QED  BY <1>6, <1>7, Zenon

\* A worker runs a request.
LEMMA WorkRequest ==
  ASSUME IInv, RequestInv, NEW w \in Workers, RunRequest(w)
  PROVE  RequestInv'
<1> DEFINE r == Head(queue[w]).r
<1>1. /\ Runs(w, "request") /\ UNCHANGED <<ports, num, sstatus, wpc, lpc>>
      /\ Becomes(r, IF sstatus = "kRunning" THEN "working" ELSE "dropped")
  BY Zenon DEF RunRequest, Runs, poolVars
<1>2. r \in Requests /\ Names(queue[w], r)
  BY <1>1, RunQueues, Zenon
<1>3. req[r].at # "none" /\ sstatus \in Dispatched
  BY <1>2, Zenon DEF RequestInv, Dispatched
<1>4. \A v \in Workers : \A s : /\ Names(queue'[v], s) => Names(queue[v], s) \/ s = r
                                /\ s # r /\ Asks(queue[v], s) => Asks(queue'[v], s)
  BY <1>1, RunQueues, Zenon
<1>5. PICK at \in {"working", "dropped"} :
        Becomes(r, at) /\ (at = "working" => sstatus = "kRunning")
  BY <1>1, Zenon
<1>6. at \in RequestStates \ {"none", "dispatch", "unsent"}
  BY DEF RequestStates, Fates
<1> HIDE DEF r
<1> QED  BY <1>1, <1>2, <1>3, <1>4, <1>5, <1>6, RequestMoves, Zenon DEF Dispatched

\* A listening thread sends a reply; it still has its evhttp_.
LEMMA SendRequest ==
  ASSUME IInv, ListenInv, RequestInv, NEW l \in Listeners, RunReply(l)
  PROVE  RequestInv'
<1> DEFINE r == Head(queue[l]).r
<1>1. /\ Runs(l, "reply") /\ UNCHANGED <<ports, num, sstatus, wpc, lpc>> /\ l \in Workers
      /\ Becomes(r, IF evhttp[l] THEN "answered" ELSE "unsent")
      /\ wpc[l] \in {"dispatch", "draining"}
  BY ListenerWorkers, Zenon DEF RunReply, Runs, poolVars
<1>2. opc[l] # "new" /\ ~Gone(l)
  BY <1>1, NotStarted, Zenon DEF IInv, Gone
<1>3. l \in ports /\ spc \notin {"off", "new", "failed"}
  BY <1>2, Zenon DEF ListenInv, Before, IInv, PortInv
<1>4. Becomes(r, "answered")
  BY <1>1, <1>2, <1>3, Zenon DEF ListenInv
<1>5. r \in Requests /\ Names(queue[l], r)
  BY <1>1, RunQueues, Zenon
<1>6. req[r].at # "none" /\ sstatus \in Dispatched
  BY <1>1, <1>5, Zenon DEF RequestInv, Dispatched
<1>7. \A v \in Workers : \A s : /\ Names(queue'[v], s) => Names(queue[v], s) \/ s = r
                                /\ s # r /\ Asks(queue[v], s) => Asks(queue'[v], s)
  BY <1>1, RunQueues, Zenon
<1>8. "answered" \in RequestStates \ {"none", "dispatch", "unsent"}
  BY DEF RequestStates, Fates
<1> HIDE DEF r
<1> QED  BY <1>1, <1>4, <1>5, <1>6, <1>7, <1>8, RequestMoves, Zenon

\* A user replies.
LEMMA ReplyRequest ==
  ASSUME IInv, PhaseInv, ListenInv, RequestInv, NEW r \in Requests, UserNext(r)
  PROVE  RequestInv'
<1>1. UNCHANGED <<ports, num, sstatus, wpc, lpc>> /\ req[r].at \in {"working", "sending"}
  BY Zenon DEF UserNext, SendReplyTest, SendReplyPost, SendReplyInPlace, vars, poolVars, threadVars
<1>2. sstatus \in Dispatched /\ req[r].at # "none" /\ req[r].l \in ports
  BY <1>1, Zenon DEF RequestInv, Dispatched
<1>3. sstatus = "kRunning" => lstatus[req[r].l] = "kRunning"
  BY <1>2, RunningListens, Zenon
<1>4. PICK at \in {"sending", "discarded", "replying", "answered"} :
        Becomes(r, at) /\ (at = "discarded" => lstatus[req[r].l] # "kRunning")
  BY Zenon DEF UserNext, SendReplyTest, SendReplyPost, SendReplyInPlace
<1>5. \A w \in Workers : \A s : /\ Names(queue'[w], s) => Names(queue[w], s) \/ s = r
                                /\ s # r /\ Asks(queue[w], s) => Asks(queue'[w], s)
  <2>1. CASE SendReplyPost(r)
    BY <2>1, ReplyQueues, Zenon
  <2>2. CASE SendReplyTest(r) \/ SendReplyInPlace(r)
    <3>1. queue' = queue
      BY <2>2, Zenon DEF SendReplyTest, SendReplyInPlace, vars, threadVars
    <3> QED  BY <3>1, Zenon
  <2> QED  BY <2>1, <2>2, Zenon DEF UserNext
<1>6. at \in RequestStates \ {"none", "dispatch", "unsent"} /\ at # "queued"
  BY DEF RequestStates, Fates
<1>7. at = "discarded" => sstatus # "kRunning"
  BY <1>3, <1>4, Zenon
<1>8. \A l \in Listeners : lpc'[l] = lpc[l]
  BY <1>1, Zenon
<1> QED  BY <1>1, <1>2, <1>4, <1>5, <1>6, <1>7, <1>8, RequestMoves, Zenon

\* A request without a handler, or one that came before Start was done.
LEMMA RefuseRequest ==
  ASSUME IInv, RequestInv, NEW l \in Listeners, NEW r \in Requests,
         DefaultHandleRequest(l, r) \/ (HandleRequest(l, r) /\ sstatus # "kRunning")
  PROVE  RequestInv'
<1>1. UNCHANGED <<ports, num, sstatus, wpc, lpc, queue>> /\ req[r] = [at |-> "open", l |-> l]
  BY Zenon DEF DefaultHandleRequest, HandleRequest, vars, poolVars, threadVars
<1>2. req[r].at # "none"
  BY <1>1
<1>3. PICK at \in {"badrequest", "dropped"} : Becomes(r, at)
  BY Zenon DEF DefaultHandleRequest, HandleRequest
<1>4. at \in RequestStates \ {"none", "dispatch", "unsent"}
  BY DEF RequestStates, Fates
<1>5. UNCHANGED <<ports, num, sstatus, wpc, lpc, queue>>
  BY <1>1, Zenon
<1> QED  BY <1>2, <1>3, <1>4, <1>5, RequestMoves, Zenon

\* What became of the requests fits where the server is.
LEMMA RequestKeeps ==
  ASSUME IInv, PhaseInv, ListenInv, PauseInv, RequestInv, ServerNext
  PROVE  RequestInv'
<1>1. CASE Quiet
  <2>1. UNCHANGED <<req, lpc, ports, num, sstatus>>
    BY <1>1, Zenon DEF Quiet
  <2>2. \A w \in Workers : /\ RequestsKept(queue[w], queue'[w])
                           /\ Live(w) => Live(w)' \/ queue[w] = <<>>
    BY <1>1, Zenon DEF Quiet, Carries
  <2> QED  BY <2>1, <2>2, RequestFrame, Zenon
<1>2. ASSUME UNCHANGED <<req, lpc, ports, num, wpc>>,
             \A w \in Workers : RequestsKept(queue[w], queue'[w]),
             \/ sstatus' = sstatus \/ sstatus \notin Dispatched
             \/ sstatus' \in {"kStopping", "kStopped"}
      PROVE  RequestInv'
  <2>1. \A w : Live(w)' <=> Live(w)
    BY <1>2, Zenon DEF Live
  <2>2. sstatus \in Dispatched => /\ sstatus' \in Dispatched
                                  /\ sstatus # "kRunning" => sstatus' # "kRunning"
    BY <1>2, Zenon DEF Dispatched
  <2> QED  BY <1>2, <2>1, <2>2, RequestFrame, Zenon
<1>3. ASSUME UNCHANGED <<req, lpc, ports, num, wpc, queue>>,
             \/ sstatus' = sstatus \/ sstatus \notin Dispatched
             \/ sstatus' \in {"kStopping", "kStopped"}
      PROVE  RequestInv'
  <2>1. \A w \in Workers : RequestsKept(queue[w], queue'[w])
    BY <1>3, Zenon DEF RequestsKept
  <2> QED  BY <1>2, <1>3, <2>1, Zenon
<1>4. CASE InitPort \/ InitFails \/ StartServer \/ ServerStarted
  <2>1. spc \in {"new", "inited", "startwait"} /\ UNCHANGED <<req, lpc, ports, num, wpc, queue>>
    BY <1>4, Zenon DEF InitPort, NextPort, InitFails, StartServer, ServerStarted, Server, vars,
       poolVars, threadVars
  <2>2. sstatus \notin Dispatched
    BY <2>1, Zenon DEF PhaseInv, Dispatched
  <2> QED  BY <1>3, <2>1, <2>2, Zenon
<1>5. CASE PoolStarted \/ RegisterHandlers \/ StopServer \/ PoolStopped \/ StopNextListener
           \/ ServerStopped
  <2>1. UNCHANGED <<req, lpc, ports, num, wpc, queue>>
    BY <1>5, Zenon DEF PoolStarted, RegisterHandlers, StopServer, PoolStopped, StopNextListener,
       ServerStopped, vars, poolVars, threadVars
  <2>2. sstatus' = sstatus \/ sstatus' \in {"kStopping", "kStopped"}
    BY <1>5, Zenon DEF PoolStarted, RegisterHandlers, StopServer, PoolStopped, StopNextListener,
       ServerStopped
  <2> QED  BY <1>3, <2>1, <2>2, Zenon
<1>6. CASE StopPool
  BY <1>3, <1>6, Zenon DEF StopPool, Stop, threadVars
<1>7. CASE PostPause
  <2>1. UNCHANGED <<req, lpc, ports, num, wpc, sstatus>>
    BY <1>7, Zenon DEF PostPause, poolVars
  <2>2. ASSUME NEW w \in Workers
        PROVE  RequestsKept(queue[w], queue'[w])
    <3>1. queue[w] \in Seq(Functors)
      BY Zenon DEF IInv, Threads, ThreadTypes
    <3>2. \/ queue'[w] = queue[w]
          \/ queue'[w] = Append(queue[w], [f |-> "stoppause"])
      BY <1>7, Zenon DEF PostPause, IInv, Threads, ThreadTypes
    <3>3. RequestsKept(queue[w], queue[w])
      BY Zenon DEF RequestsKept
    <3>4. RequestsKept(queue[w], Append(queue[w], [f |-> "stoppause"]))
      BY <3>1, PostedKept, Zenon
    <3> QED  BY <3>2, <3>3, <3>4, Zenon
  <2> QED  BY <1>2, <2>1, <2>2, Zenon
<1>8. CASE ServerOwner \/ StopServer
  BY <1>1, <1>4, <1>5, <1>6, <1>7, <1>8, QuietSteps, Zenon DEF ServerOwner
<1>9. ASSUME NEW f \in {"pause", "continue"}, Toggle(f)
      PROVE  RequestInv'
  <2>1. UNCHANGED <<req, lpc, ports, num, wpc, sstatus>>
    BY <1>9, Zenon DEF Toggle, poolVars
  <2> QED  BY <1>2, <1>9, <2>1, ToggleQueues, Zenon
<1>10. ASSUME NEW l \in Listeners, RunPause(l)
       PROVE  RequestInv'
  <2>1. /\ UNCHANGED <<req, lpc, ports, num, wpc, sstatus>> /\ l \in Workers
        /\ Head(queue[l]).f \in {"pause", "continue", "stoppause"}
    BY <1>10, ListenerWorkers, Zenon DEF RunPause, Runs, poolVars
  <2>2. /\ queue[l] \in Seq(Functors) /\ queue[l] # <<>> /\ queue'[l] = Tail(queue[l])
        /\ \A w \in Workers : w # l => queue'[w] = queue[w]
    <3>1. queue[l] # <<>> /\ queue' = [queue EXCEPT ![l] = Tail(@)]
      BY <1>10, Zenon DEF RunPause, Runs
    <3> QED  BY <2>1, <3>1, Zenon DEF IInv, Threads, ThreadTypes
  <2>3. \A r : Head(queue[l]) # [f |-> "request", r |-> r]
    BY <2>1
  <2>4. RequestsKept(queue[l], queue'[l])
    <3>1. \A r : /\ Names(Tail(queue[l]), r) => Names(queue[l], r)
                 /\ Asks(queue[l], r) => Asks(Tail(queue[l]), r)
      BY <2>2, <2>3, Pops, Zenon
    <3> QED  BY <2>2, <3>1, Zenon DEF RequestsKept
  <2>5. \A w \in Workers : RequestsKept(queue[w], queue'[w])
    BY <2>2, <2>4, Zenon DEF RequestsKept
  <2> QED  BY <1>2, <2>1, <2>5, Zenon
<1>11. ASSUME NEW l \in Listeners, ListenerNext(l) \/ \E r \in Requests : Accept(l, r)
       PROVE  RequestInv'
  BY <1>1, <1>10, <1>11, QuietSteps, AcceptRequest, DispatchRequest, RefuseRequest, ChooseLoop,
     ForwardRequest, SendRequest, Zenon DEF ListenerNext
<1>12. ASSUME NEW w \in 1..MaxThreads, RunRequest(w)
       PROVE  RequestInv'
  BY <1>12, WorkRequest, PoolAssumption, Zenon
<1>13. CASE Below
  BY <1>1, <1>13, QuietSteps, Zenon
<1> QED  BY <1>8, <1>9, <1>11, <1>12, <1>13, ReplyRequest, StepsBelow, Zenon
         DEF ServerNext, PoolStep, PoolWorkerNext

-----------------------------------------------------------------------------
(* The invariant, and what it says of the requests.                        *)

LEMMA InitServerInv ==
  ASSUME ServerInit
  PROVE  ServerInv
<1>1. IInv
  BY InitIInv, Zenon
<1>2. /\ spc \in {"off", "new"} /\ (spc = "new" => ppc = "new") /\ sstatus = "kNull"
      /\ lt = FirstListener /\ count = 0 /\ (spc = "off" => ports = {})
      /\ spc # "off" => \E last \in Listeners : ports = FirstListener..last
  BY Zenon DEF ServerInit
<1>3. /\ \A l \in Listeners : handlers[l] = "none" /\ lpc[l] = NoDispatch
      /\ \A r \in Requests : req[r].at = "none"
  BY DEF ServerInit
<1>4. \A w \in Workers : queue[w] = <<>> /\ opc[w] = "new"
  BY Zenon DEF ServerInit, Init, ThreadInit
<1>5. ports \subseteq Listeners /\ \A l \in Listeners : l \in Workers
  BY <1>1, ListenerWorkers, Zenon DEF IInv, PortInv
<1>6. PhaseInv
  BY <1>2, Zenon DEF PhaseInv, Open
<1>7. ListenInv
  <2>1. \A l \in ports : ~(l < lt)
    BY <1>1, <1>2, <1>6, PortOrder, Zenon
  <2> QED  BY <1>2, <1>3, <1>4, <1>5, <2>1, Zenon DEF ListenInv
<1>8. PauseInv
  <2>1. PausedSet = {}
    BY <1>2, Zenon DEF PausedSet, Told, Stopping
  <2>2. count = Cardinality(PausedSet)
    BY <1>2, <2>1, FS_EmptySet, Zenon
  <2> QED  BY <1>3, <1>4, <1>5, <2>2, Empties, Zenon DEF PauseInv, Free
<1>9. RequestInv
  <2>1. NoDispatch.at # "forward"
    BY DEF NoDispatch
  <2> QED  BY <1>3, <1>4, <2>1, Empties, Zenon DEF RequestInv, Free
<1> QED  BY <1>6, <1>7, <1>8, <1>9, Zenon DEF ServerInv

LEMMA NextServerInv ==
  ASSUME IInv, ServerInv, [ServerNext]_allVars
  PROVE  ServerInv'
<1>1. CASE ServerNext
  BY <1>1, PhaseKeeps, ListenKeeps, PauseKeeps, RequestKeeps, Zenon DEF ServerInv
<1>2. CASE UNCHANGED allVars
  <2>1. UNCHANGED <<ports, sstatus, spc, lt, evhttp, handlers, lpc, count, req>>
    BY <1>2, Zenon DEF allVars, serverVars
  <2>2. UNCHANGED <<queue, wpc, opc, num, ppc>>
    BY <1>2, Zenon DEF allVars, vars, poolVars, threadVars
  <2>3. PhaseInv' /\ ListenInv'
    BY <2>1, <2>2, Zenon DEF ServerInv, PhaseInv, ListenInv, Gone
  <2>4. /\ \A l : (Free(l)' <=> Free(l)) /\ (Told(l)' <=> Told(l)) /\ (Live(l)' <=> Live(l))
    BY <2>1, <2>2, Zenon DEF Free, Told, Live
  <2>5. PausedSet' = PausedSet
    BY <2>1, <2>2, <2>4, Zenon DEF PausedSet
  <2>6. PauseInv'
    BY <2>1, <2>2, <2>4, <2>5, Zenon DEF ServerInv, PauseInv
  <2>7. RequestInv'
    <3>1. \A w : RequestsKept(queue[w], queue'[w])
      BY <2>2, Zenon DEF RequestsKept
    <3> QED  BY <2>1, <2>2, <2>4, <3>1, RequestFrame, Zenon DEF ServerInv
  <2> QED  BY <2>3, <2>6, <2>7, Zenon DEF ServerInv
<1> QED  BY <1>1, <1>2, Zenon

\* The types.
LEMMA ServerInvTypes ==
  ASSUME IInv, ServerInv
  PROVE  ServerTypeOK
<1>1. ThreadTypeOK
  <2>1. ASSUME NEW w \in Workers, NEW i \in 1..Len(queue[w])
        PROVE  queue[w][i].f \in FunctorNames
    <3>1. queue[w] \in Seq(Functors)
      BY Zenon DEF IInv, Threads, ThreadTypes
    <3>2. queue[w][i] \in Functors
      BY <3>1
    <3> QED  BY <3>2 DEF Functors, FunctorNames
  <2> QED  BY <2>1, Zenon DEF IInv, Threads, ThreadTypes, ThreadTypeOK
<1>2. TypeOK
  <2>1. num \in 0..MaxThreads /\ threads \in 0..num /\ picked \in 0..num /\ MaxThreads \in Nat
    BY PoolAssumption, Zenon DEF IInv, PoolInv, PoolTypes
  <2>2. num \in Nat /\ threads \in 0..MaxThreads /\ picked \in 0..MaxThreads
    BY <2>1
  <2>3. started \in 0..num /\ exited \in 0..num
    <3>1. PastSet \in SUBSET (1..num) /\ GoneSet \in SUBSET (1..num)
      BY Zenon DEF PastSet, GoneSet
    <3> QED  BY <2>2, <3>1, Counts, Zenon DEF IInv, PoolInv, StatusInv
  <2>4. started \in 0..MaxThreads /\ exited \in 0..MaxThreads
    BY <2>1, <2>3
  <2>5. cbCalls \in 0..1
    BY DEF IInv, PoolInv, PoolTypes
  <2> QED  BY <1>1, <2>1, <2>2, <2>4, <2>5, Zenon DEF TypeOK, IInv, PoolInv, PoolTypes
<1>3. ports \subseteq Listeners
  BY Zenon DEF IInv, PortInv
<1>4. lt \in Listeners \cup {MaxThreads + Cardinality(Listeners) + 1}
  <2>1. CASE spc # "off"
    BY <1>3, <2>1, Zenon DEF IInv, PortInv
  <2>2. CASE spc = "off"
    <3>1. lt = MaxThreads + 1 /\ MaxThreads \in Nat /\ Cardinality(Listeners) \in Nat
      BY <2>2, ListenerWorkers, PoolAssumption, Zenon DEF IInv, PortInv, FirstListener
    <3>2. CASE Cardinality(Listeners) = 0
      BY <3>1, <3>2
    <3>3. CASE Cardinality(Listeners) # 0
      <4>1. MaxThreads + 1 \in (MaxThreads + 1)..(MaxThreads + Cardinality(Listeners))
        BY <3>1, <3>3
      <4> QED  BY <3>1, <4>1, ServerAssumption, Zenon
    <3> QED  BY <3>2, <3>3, Zenon
  <2> QED  BY <2>1, <2>2, Zenon
<1>5. count \in 0..Cardinality(Listeners)
  <2>1. PausedSet \in SUBSET ports
    BY Zenon DEF PausedSet
  <2> QED  BY <1>3, <2>1, ListenerCounts, Zenon DEF ServerInv, PauseInv
<1>6. \A r \in Requests :
        /\ req[r].l \in Listeners \cup {0}
        /\ req[r].at \in Fates \cup {"none", "open", "queued", "working", "sending",
                                     "replying", "dispatch"}
  <2>1. \A r \in Requests : req[r] \in [at : RequestStates, l : Listeners \cup {0}]
    BY Zenon DEF IInv, ServerTypes
  <2> QED  BY <2>1, Zenon DEF RequestStates
<1> QED  BY <1>2, <1>3, <1>4, <1>5, <1>6, Zenon DEF ServerTypeOK, IInv, ServerTypes

LEMMA ServerInvFate ==
  ASSUME IInv, ServerInv
  PROVE  FateInv
<1>1. ServerTypeOK
  BY ServerInvTypes, Zenon
<1>2. ASSUME NEW l \in Listeners, lpc[l].at = "forward"
      PROVE  lpc[l].loop # 0 /\ CanStop(lpc[l].loop)
  <2>1. ~Free(l)
    BY <1>2 DEF Free, NoDispatch
  <2>2. l \in ports /\ spc \in {"running", "pausing", "paused"} /\ pstatus = "kRunning"
    BY <2>1, PoolRuns, Zenon DEF ServerInv, PauseInv
  <2>3. lpc[l].loop \in IF num = 0 THEN {l} ELSE 1..num
    BY <1>2, Zenon DEF ServerInv, RequestInv
  <2>4. \A w \in 1..num : w # 0 /\ CanStop(w)
    <3>1. \A w \in 1..num : CanStop(w)
      BY <2>2, IInvTells, Zenon DEF StatusTellsThreads
    <3>2. \A w \in 1..num : w # 0
      <4>1. num \in 0..MaxThreads /\ MaxThreads \in Nat
        BY PoolAssumption, Zenon DEF IInv, PoolInv, PoolTypes
      <4> QED  BY <4>1
    <3> QED  BY <3>1, <3>2, Zenon
  <2>5. l # 0 /\ l \in Workers
    BY ListenerWorkers, PoolAssumption
  <2>6. CanStop(l)
    <3>1. opc[l] = "started" /\ waitStart /\ ppc # "none"
      BY <2>2, Zenon DEF ServerInv, ListenInv, IInv, PortInv
    <3>2. ThreadInv(l) /\ ~failed[l]
      BY <2>5, <3>1, Zenon DEF IInv, Threads, PoolInv
    <3> QED  BY <3>1, <3>2, Zenon DEF ThreadInv, CanStop
  <2> QED  BY <2>3, <2>4, <2>5, <2>6, Zenon
<1>3. \A r \in Requests :
        /\ req[r].at \in {"discarded", "queued", "working", "sending", "replying"} =>
             sstatus \in {"kRunning", "kStopping", "kStopped"}
        /\ req[r].at # "unsent"
  BY Zenon DEF ServerInv, RequestInv
<1>4. ASSUME sstatus = "kStopped"
      PROVE  /\ \A l \in ports : wpc[l] = "finished" /\ ~evhttp[l]
             /\ \A w \in 1..num : wpc[w] \in {"posted", "finished"}
             /\ \A r \in Requests : req[r].at \notin {"dispatch", "queued"}
  <2>1. spc \in {"joinpool", "stopped"}
    BY <1>4, Zenon DEF ServerInv, PhaseInv, IInv, ServerTypes, ServerPCs
  <2>2. ppc \in {"stopped", "join", "joined"} /\ mode = "wait" /\ ports \subseteq Listeners
    BY <2>1, Zenon DEF ServerInv, PhaseInv, IInv, PortInv
  <2>3. \A w \in 1..num : wpc[w] = "finished"
    BY <2>2, Zenon DEF IInv, PoolInv, StatusInv
  <2>4. ASSUME NEW l \in ports
        PROVE  wpc[l] = "finished" /\ ~evhttp[l]
    <3>1. opc[l] = "joined" /\ l \in Workers /\ (evhttp[l] <=> ~Gone(l))
      BY <2>1, <2>2, ListenerWorkers, Zenon DEF ServerInv, ListenInv
    <3>2. wpc[l] = "finished"
      BY <3>1, Zenon DEF IInv, Threads, ThreadInv
    <3> QED  BY <3>1, <3>2, Zenon DEF Gone
  <2>5. ASSUME NEW r \in Requests
        PROVE  req[r].at \notin {"dispatch", "queued"}
    <3>1. req[r].at # "queued"
      BY <2>3, Zenon DEF ServerInv, RequestInv, Live
    <3>2. ASSUME req[r].at = "dispatch"
          PROVE  FALSE
      <4>1. req[r].l \in Listeners /\ ~Free(req[r].l)
        BY <2>2, <3>2, Zenon DEF ServerInv, RequestInv
      <4> QED  BY <2>1, <4>1, Zenon DEF ServerInv, PauseInv
    <3> QED  BY <3>1, <3>2, Zenon
  <2> QED  BY <2>3, <2>4, <2>5, Zenon
<1> QED  BY <1>1, <1>2, <1>3, <1>4, Zenon DEF FateInv

\* A step that gives the request r the state at, which is no fate that goes without a
\* reply unless the server allows it.
LEMMA MovesFate ==
  ASSUME IInv, NEW r \in Requests, NEW at \in RequestStates, Becomes(r, at),
         at = "dropped" => IF req[r].at = "open" THEN sstatus # "kRunning" ELSE StopBegun,
         at = "discarded" => StopBegun
  PROVE  FateStep
<1>1. req \in [Requests -> [at : RequestStates, l : Listeners \cup {0}]]
  BY Zenon DEF IInv, ServerTypes
<1>2. req'[r].at = at
  BY <1>1, BecomesType, Zenon
<1>3. \A s \in Requests : s # r => req'[s] = req[s]
  BY <1>1, BecomesType, Zenon
<1> QED  BY <1>2, <1>3, Zenon DEF FateStep, Turns

\* The second test of Dispatch, in place or in the worker's loop: past the first one,
\* the server can only be running or being stopped.
LEMMA SecondTest ==
  ASSUME sstatus \in Dispatched, sstatus # "kRunning"
  PROVE  StopBegun
BY Zenon DEF Dispatched, StopBegun

LEMMA NextFate ==
  ASSUME IInv, ServerInv, ServerNext
  PROVE  FateStep
<1> USE DEF ServerInv
<1>1. CASE UNCHANGED req
  BY <1>1, Zenon DEF FateStep, Turns
<1>2. CASE Quiet
  BY <1>1, <1>2, Zenon DEF Quiet
<1>3. CASE ServerOwner \/ StopServer
  BY <1>1, <1>2, <1>3, QuietSteps, Zenon DEF ServerOwner, StopServer, InitPort, InitFails,
     StartServer, PoolStarted, RegisterHandlers, ServerStarted, PostPause, StopPool,
     PoolStopped, StopNextListener, ServerStopped
<1>4. ASSUME NEW f \in {"pause", "continue"}, Toggle(f)
      PROVE  FateStep
  BY <1>1, <1>4, Zenon DEF Toggle
<1>5. {"open", "badrequest", "dispatch", "dropped", "queued", "working", "sending", "replying",
       "answered", "unsent", "discarded"} \subseteq RequestStates
  BY Zenon DEF RequestStates, Fates
<1>6. ASSUME NEW l \in Listeners, NEW r \in Requests, Accept(l, r)
      PROVE  FateStep
  <2>1. req'[r].at = "open" /\ \A s \in Requests : s # r => req'[s] = req[s]
    BY <1>6 DEF Accept, IInv, ServerTypes
  <2> QED  BY <2>1, Zenon DEF FateStep, Turns
<1>7. ASSUME NEW l \in Listeners, NEW r \in Requests, DefaultHandleRequest(l, r)
      PROVE  FateStep
  BY <1>5, <1>7, MovesFate, Zenon DEF DefaultHandleRequest
<1>8. ASSUME NEW l \in Listeners, NEW r \in Requests, HandleRequest(l, r)
      PROVE  FateStep
  <2>1. req[r].at = "open"
    <3>1. req[r] = [at |-> "open", l |-> l]
      BY <1>8, Zenon DEF HandleRequest
    <3> QED  BY <3>1
  <2>2. CASE sstatus = "kRunning"
    BY <1>5, <1>8, <2>2, MovesFate, Zenon DEF HandleRequest
  <2>3. CASE sstatus # "kRunning"
    BY <1>5, <1>8, <2>1, <2>3, MovesFate, Zenon DEF HandleRequest
  <2> QED  BY <2>2, <2>3, Zenon
<1>9. ASSUME NEW l \in Listeners, Forward(l)
      PROVE  FateStep
  <2>1. lpc[l].r \in Requests /\ ~Free(l)
    BY <1>9, ForwardQueues, Zenon
  <2>2. sstatus \in Dispatched
    BY <2>1, PoolRuns, Zenon
  <2>3. PICK at \in {"working", "queued", "dropped"} :
          Becomes(lpc[l].r, at) /\ (at = "dropped" => sstatus # "kRunning")
    BY <1>9, Zenon DEF Forward
  <2>4. at = "dropped" => sstatus # "kRunning" /\ StopBegun
    BY <2>2, <2>3, SecondTest, Zenon
  <2> QED  BY <1>5, <2>1, <2>3, <2>4, MovesFate, Zenon
<1>10. ASSUME NEW w \in Workers, RunRequest(w)
       PROVE  FateStep
  <2>1. Head(queue[w]).r \in Requests /\ Names(queue[w], Head(queue[w]).r)
    BY <1>10, RunQueues, Zenon DEF RunRequest
  <2>2. sstatus \in Dispatched
    BY <2>1, Zenon DEF RequestInv, Dispatched
  <2>3. PICK at \in {"working", "dropped"} :
          Becomes(Head(queue[w]).r, at) /\ (at = "dropped" => sstatus # "kRunning")
    BY <1>10, Zenon DEF RunRequest
  <2>4. at = "dropped" => sstatus # "kRunning" /\ StopBegun
    BY <2>2, <2>3, SecondTest, Zenon
  <2> QED  BY <1>5, <2>1, <2>3, <2>4, MovesFate, Zenon
<1>11. ASSUME NEW l \in Listeners, RunReply(l)
       PROVE  FateStep
  <2>1. Head(queue[l]).r \in Requests
    BY <1>11, ListenerWorkers, RunQueues, Zenon DEF RunReply
  <2>2. PICK at \in {"answered", "unsent"} : Becomes(Head(queue[l]).r, at)
    BY <1>11, Zenon DEF RunReply
  <2> QED  BY <1>5, <2>1, <2>2, MovesFate, Zenon
<1>12. ASSUME NEW r \in Requests, UserNext(r)
       PROVE  FateStep
  <2>1. req[r].at \in {"working", "sending"}
    BY <1>12, Zenon DEF UserNext, SendReplyTest, SendReplyPost, SendReplyInPlace
  <2>2. sstatus \in Dispatched /\ req[r].l \in ports
    BY <2>1, Zenon DEF RequestInv, Dispatched
  <2>3. sstatus = "kRunning" => lstatus[req[r].l] = "kRunning"
    BY <2>2, RunningListens, Zenon
  <2>4. PICK at \in {"sending", "discarded", "replying", "answered"} :
          Becomes(r, at) /\ (at = "discarded" => lstatus[req[r].l] # "kRunning")
    BY <1>12, Zenon DEF UserNext, SendReplyTest, SendReplyPost, SendReplyInPlace
  <2>5. at = "discarded" => StopBegun
    BY <2>2, <2>3, <2>4, SecondTest, Zenon
  <2> QED  BY <1>5, <2>4, <2>5, MovesFate, Zenon
<1>13. ASSUME NEW l \in Listeners, ListenerNext(l)
       PROVE  FateStep
  <2>1. CASE ServerGetNextLoop(l) \/ RunPause(l)
    BY <1>1, <2>1, Zenon DEF ServerGetNextLoop, RunPause
  <2> QED  BY <1>2, <1>7, <1>8, <1>9, <1>11, <1>13, <2>1, QuietSteps, Zenon DEF ListenerNext
<1>14. ASSUME NEW w \in 1..MaxThreads, RunRequest(w)
       PROVE  FateStep
  BY <1>10, <1>14, PoolAssumption, Zenon
<1>15. CASE Below
  BY <1>2, <1>15, QuietSteps, Zenon
<1> QED  BY <1>3, <1>4, <1>6, <1>12, <1>13, <1>14, <1>15, StepsBelow, Zenon
         DEF ServerNext, PoolStep, PoolWorkerNext

\* For any number of threads, of listening threads and of requests: a request that
\* Dispatch let through goes to a loop that runs, is dropped or discarded only once Stop
\* has begun, its reply never meets a freed evhttp_, and after Stop nothing is left of
\* the threads; and a running server drops no request.
THEOREM RequestFateTheorem == ServerSpec => RequestFate
<1>1. ServerInit => IInv /\ ServerInv
  BY InitIInv, InitServerInv, Zenon
<1>2. IInv /\ ServerInv /\ [ServerNext]_allVars => IInv' /\ ServerInv'
  BY NextIInv, NextServerInv, Zenon
<1>3. IInv /\ ServerInv => FateInv
  BY ServerInvFate, Zenon
<1>4. IInv /\ ServerInv /\ [ServerNext]_allVars => [FateStep]_allVars
  BY NextFate, Zenon
<1> QED  BY <1>1, <1>2, <1>3, <1>4, PTL DEF ServerSpec, RequestFate

=============================================================================
