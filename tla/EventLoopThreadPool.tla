------------------------ MODULE EventLoopThreadPool ------------------------
(***************************************************************************)
(* evpp::EventLoopThreadPool (evpp/event_loop_thread_pool.cc), composed of *)
(* the EventLoopThread objects 1, 2, ...  One owner calls Start, Stop and  *)
(* Join; another thread picks loops with GetNextLoop.  Or there is no pool *)
(* and each EventLoopThread object is used by an owner of its own.         *)
(***************************************************************************)
EXTENDS EventLoopThread, FiniteSets

CONSTANTS
  MaxThreads,  \* the largest thread_num_
  MaxPicks     \* how many loops are picked by round robin

ASSUME PoolAssumption ==
  MaxThreads \in Nat /\ MaxPicks \in Nat /\ 1..MaxThreads \subseteq Workers

VARIABLES
  num,       \* thread_num_
  pstatus,   \* EventLoopThreadPool::status_
  started,   \* *started_count
  exited,    \* *exited_count
  threads,   \* the number of objects in threads_
  ppc,       \* where the owner is in the methods of the pool, or "none"
  waitStart, \* Start's wait_thread_started
  mode,      \* how Stop was called: Stop(true), Stop(false) or Stop(fn)
  cb,        \* stopped_cb_ is set
  cbCalls,   \* history: how often the callback was called
  rpc,       \* where the other thread is in GetNextLoop
  next,      \* next_
  picked     \* the index of the loop GetNextLoop returned, 0 for base_loop_

poolVars == <<num, pstatus, started, exited, threads, ppc, waitStart, mode,
              cb, cbCalls, rpc, next, picked>>
vars == <<threadVars, poolVars>>

PoolPCs == {"none", "new", "start", "startwait", "started", "stop",
            "stopwait", "stopped", "join", "joined"}
Modes == {"wait", "nowait", "callback"}

TypeOK ==
  /\ ThreadTypeOK
  /\ num \in 0..MaxThreads /\ threads \in 0..MaxThreads
  /\ started \in 0..MaxThreads /\ exited \in 0..MaxThreads
  /\ pstatus \in ThreadStatus /\ ppc \in PoolPCs
  /\ waitStart \in BOOLEAN /\ mode \in Modes
  /\ cb \in BOOLEAN /\ cbCalls \in 0..1
  /\ rpc \in {"idle", "reading"} /\ next \in 0..MaxPicks
  /\ picked \in 0..MaxThreads

Init ==
  /\ ThreadInit
  /\ pstatus = "kNull" /\ started = 0 /\ exited = 0 /\ threads = 0
  /\ \/ ppc = "new" /\ num \in 0..MaxThreads
        /\ waitStart \in BOOLEAN /\ mode \in Modes
     \/ ppc = "none" /\ num = 0 /\ waitStart = TRUE /\ mode = "wait"
  /\ cb = FALSE /\ cbCalls = 0
  /\ rpc = "idle" /\ next = 0 /\ picked = 0

Pool(at, to) == ppc = at /\ ppc' = to

-----------------------------------------------------------------------------
(* The owner.                                                              *)

Start ==
  /\ ppc = "new"
  /\ ppc' = IF num = 0 THEN "started" ELSE "start"
  /\ pstatus' = IF num = 0 THEN "kRunning" ELSE "kStarting"
  /\ UNCHANGED <<threadVars, num, started, exited, threads, waitStart, mode,
                 cb, cbCalls, rpc, next, picked>>

\* The loop of Start: the next EventLoopThread is built and started.
StartThread ==
  /\ ppc = "start" /\ threads < num
  /\ LET w == threads + 1 IN
       StartStatus(w) \/ SpawnThread(w) \/ StartReturns(w, waitStart)
  /\ UNCHANGED poolVars

\* threads_.push_back(t).
PushBack ==
  /\ ppc = "start"
  /\ threads < num /\ opc[threads + 1] = "started"
  /\ threads' = threads + 1
  /\ ppc' = IF threads' < num THEN "start" ELSE "startwait"
  /\ UNCHANGED <<threadVars, num, pstatus, started, exited, waitStart, mode,
                 cb, cbCalls, rpc, next, picked>>

StartDone ==
  /\ Pool("startwait", "started")
  /\ waitStart => pstatus = "kRunning"
  /\ UNCHANGED <<threadVars, num, pstatus, started, exited, threads,
                 waitStart, mode, cb, cbCalls, rpc, next, picked>>

\* The pool's users stop it when it IsRunning().
Stop ==
  /\ ppc = "started" /\ pstatus = "kRunning"
  /\ IF num = 0
     THEN /\ pstatus' = "kStopped" /\ ppc' = "stopped"
          /\ cbCalls' = IF mode = "callback" THEN 1 ELSE 0
          /\ UNCHANGED cb
     ELSE /\ pstatus' = "kStopping" /\ ppc' = "stop"
          /\ cb' = (mode = "callback")
          /\ UNCHANGED cbCalls
  /\ UNCHANGED <<threadVars, num, started, exited, threads, waitStart, mode,
                 rpc, next, picked>>

\* t->Stop() for the threads in order; it does not wait for the thread.
StopThread ==
  /\ ppc = "stop"
  /\ \E w \in 1..num :
       /\ \A v \in 1..(w - 1) : opc[v] = "stopcalled"
       /\ CallStop(w) \/ StopStatus(w) \/ StopLoopStatus(w) \/ StopQueue(w)
  /\ UNCHANGED poolVars

StopThreadsDone ==
  /\ Pool("stop", "stopwait")
  /\ \A w \in 1..num : opc[w] = "stopcalled"
  /\ UNCHANGED <<threadVars, num, pstatus, started, exited, threads,
                 waitStart, mode, cb, cbCalls, rpc, next, picked>>

\* Stop(true) spins until every thread IsStopped(); the others go on at once.
StopDone ==
  /\ Pool("stopwait", "stopped")
  /\ mode = "wait" => \A w \in 1..num : tstatus[w] = "kStopped"
  /\ pstatus' = "kStopped"
  /\ UNCHANGED <<threadVars, num, started, exited, threads, waitStart, mode,
                 cb, cbCalls, rpc, next, picked>>

\* Join: every thread in order, and then threads_.clear().
CallJoin ==
  /\ Pool("stopped", "join")
  /\ UNCHANGED <<threadVars, num, pstatus, started, exited, threads,
                 waitStart, mode, cb, cbCalls, rpc, next, picked>>

JoinThread ==
  /\ ppc = "join"
  /\ \E w \in 1..num : (\A v \in 1..(w - 1) : opc[v] = "joined") /\ Join(w)
  /\ UNCHANGED poolVars

JoinDone ==
  /\ Pool("join", "joined")
  /\ \A w \in 1..num : opc[w] = "joined"
  /\ threads' = 0
  /\ UNCHANGED <<threadVars, num, pstatus, started, exited, waitStart, mode,
                 cb, cbCalls, rpc, next, picked>>

OwnerNext ==
  \/ Start \/ StartThread \/ PushBack \/ StartDone
  \/ StopThread \/ StopThreadsDone \/ StopDone
  \/ CallJoin \/ JoinThread \/ JoinDone

-----------------------------------------------------------------------------
(* The workers: the pre and post functors that Start gives them.           *)

\* MUTANT: the pool is running when its first thread is.
OnThreadStarted_First(w) ==
  /\ PreSucceeds(w)
  /\ started' = started + 1
  /\ pstatus' = IF started' = 1 THEN "kRunning" ELSE pstatus
  /\ UNCHANGED <<num, exited, threads, ppc, waitStart, mode, cb, cbCalls,
                 rpc, next, picked>>

OnThreadStarted(w) ==
  /\ PreSucceeds(w)
  /\ started' = started + 1
  /\ pstatus' = IF started' = num THEN "kRunning" ELSE pstatus
  /\ UNCHANGED <<num, exited, threads, ppc, waitStart, mode, cb, cbCalls,
                 rpc, next, picked>>

OnThreadExited(w) ==
  /\ RunPost(w)
  /\ exited' = exited + 1
  /\ pstatus' = IF exited' = num THEN "kStopped" ELSE pstatus
  /\ cbCalls' = IF exited' = num /\ cb THEN cbCalls + 1 ELSE cbCalls
  /\ cb' = (cb /\ exited' # num)
  /\ UNCHANGED <<num, started, threads, ppc, waitStart, mode, rpc, next, picked>>

WorkerNext(w) ==
  \/ WorkerStep(w) /\ UNCHANGED poolVars
  \/ ppc # "none" /\ (OnThreadStarted(w) \/ OnThreadExited(w))
  \/ /\ ppc = "none"
     /\ PreSucceeds(w) \/ PreFails(w) \/ RunPost(w)
     /\ UNCHANGED poolVars

AloneStep(w) == ppc = "none" /\ OwnerStep(w) /\ UNCHANGED poolVars
AloneMayStep(w) == ppc = "none" /\ OwnerMayStep(w) /\ UNCHANGED poolVars

-----------------------------------------------------------------------------
(* GetNextLoop and GetNextLoopWithHash: the test, and then the access to    *)
(* threads_, without a lock.  What they return when threads_ is cleared in  *)
(* between is left out.                                                     *)

GetNextLoopTest ==
  /\ rpc = "idle" /\ ppc # "none"
  /\ IF pstatus = "kRunning" /\ threads > 0
     THEN rpc' = "reading" /\ UNCHANGED picked
     ELSE picked' = 0 /\ UNCHANGED rpc
  /\ UNCHANGED <<threadVars, num, pstatus, started, exited, threads, ppc,
                 waitStart, mode, cb, cbCalls, next>>

GetNextLoopPick ==
  /\ rpc = "reading" /\ threads > 0 /\ next < MaxPicks
  /\ rpc' = "idle"
  /\ next' = next + 1
  /\ picked' = (next % threads) + 1
  /\ UNCHANGED <<threadVars, num, pstatus, started, exited, threads, ppc,
                 waitStart, mode, cb, cbCalls>>

GetNextLoopWithHashPick(hash) ==
  /\ rpc = "reading" /\ threads > 0
  /\ rpc' = "idle"
  /\ picked' = (hash % threads) + 1
  /\ UNCHANGED <<threadVars, num, pstatus, started, exited, threads, ppc,
                 waitStart, mode, cb, cbCalls, next>>

Next ==
  \/ OwnerNext \/ Stop \/ GetNextLoopTest \/ GetNextLoopPick
  \/ \E hash \in 1..MaxThreads : GetNextLoopWithHashPick(hash)
  \/ \E w \in 1..MaxThreads : WorkerNext(w) \/ AloneStep(w) \/ AloneMayStep(w)

Spec ==
  /\ Init /\ [][Next]_vars
  /\ WF_vars(OwnerNext)
  /\ \A w \in 1..MaxThreads : WF_vars(WorkerNext(w)) /\ WF_vars(AloneStep(w))
-----------------------------------------------------------------------------
\* A pool that IsRunning() has only running loops: Stop may be called on every
\* one of its threads (the assertion of EventLoopThread::Stop), and a loop that
\* GetNextLoop hands out runs the functors posted to it.  The same is true of a
\* thread whose Start(true) has returned, with or without a pool.  Stop(true) leaves
\* the pool kStopped only when every worker has left its loop and called its post
\* functor; the callback of Stop(fn) is called at most once, and only then; and a
\* worker leaves a loop that says kStopped.
StatusTellsThreads ==
  /\ pstatus = "kRunning" => \A w \in 1..num : CanStop(w)
  /\ picked # 0 /\ ppc \in {"start", "startwait", "started"} =>
       CanStop(picked)
  /\ ppc = "stop" => \A w \in Workers : opc[w] = "stopping" => CanStop(w)
  /\ ppc \in {"none", "start"} => StartedCanStop(waitStart)
  /\ mode = "wait" /\ pstatus = "kStopped" => exited = num
  /\ cbCalls <= 1
  /\ cbCalls = 1 => \A w \in 1..num : wpc[w] \in {"posted", "finished"}
  /\ LoopStoppedAtExit

\* The owner of the pool gets through Stop and Join, and the callback of Stop(fn)
\* has been called; and so do the owners of single threads.
PoolStopCompletes ==
  /\ StopCompletes
  /\ (ppc = "stop") ~> (ppc = "joined" /\ (mode = "callback" => cbCalls = 1))
=============================================================================
