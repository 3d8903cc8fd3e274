--------------------------- MODULE EventLoopThread ---------------------------
(***************************************************************************)
(* evpp::EventLoopThread (evpp/event_loop_thread.cc): a thread that runs   *)
(* an EventLoop, started, stopped and joined by its owner.  Each element   *)
(* of Workers is one EventLoopThread object.                               *)
(*                                                                         *)
(* The loop inside is abstracted to what TaskQueue promises: functors run  *)
(* in the order of the posts, and StopInLoop drains the queue before       *)
(* EventLoop::Run returns.  Two functors matter here: the start functor    *)
(* "fn" of EventLoopThread::Run and "stop".  A functor is a record with    *)
(* its name f; what others the loop is given is the user's (HTTPServer).   *)
(***************************************************************************)
EXTENDS Naturals, Sequences

CONSTANT Workers  \* the EventLoopThread objects

VARIABLES
  tstatus,  \* EventLoopThread::status_
  lstatus,  \* event_loop_->status_
  queue,    \* the pending functors of event_loop_
  wpc,      \* where the thread itself is in EventLoopThread::Run
  opc,      \* where the owner is in the methods of the object
  failed    \* history: pre returned something else than kOK

threadVars == <<tstatus, lstatus, queue, wpc, opc, failed>>

ThreadStatus == {"kNull", "kStarting", "kRunning", "kStopping", "kStopped"}
LoopStatus == {"kInitialized", "kStarting", "kRunning", "kStopping", "kStopped"}
WorkerPCs == {"none", "spawned", "torun", "starting", "dispatch", "pre",
              "draining", "leaving", "returned", "posted", "finished"}
OwnerPCs == {"new", "spawning", "spawned", "started", "stopping", "loopstop",
             "queuestop", "stopcalled", "joining", "joined"}
\* The functors of EventLoopThread itself, and those of http::Server.
FunctorNames == {"fn", "stop", "pause", "continue", "stoppause", "request", "reply"}

ThreadTypeOK ==
  /\ tstatus \in [Workers -> ThreadStatus]
  /\ lstatus \in [Workers -> LoopStatus]
  /\ \A w \in Workers : \A i \in 1..Len(queue[w]) : queue[w][i].f \in FunctorNames
  /\ wpc \in [Workers -> WorkerPCs]
  /\ opc \in [Workers -> OwnerPCs]
  /\ failed \in [Workers -> BOOLEAN]

ThreadInit ==
  /\ tstatus = [w \in Workers |-> "kNull"]
  /\ lstatus = [w \in Workers |-> "kInitialized"]
  /\ queue = [w \in Workers |-> <<>>]
  /\ wpc = [w \in Workers |-> "none"]
  /\ opc = [w \in Workers |-> "new"]
  /\ failed = [w \in Workers |-> FALSE]

Owner(w, at, to) == opc[w] = at /\ opc' = [opc EXCEPT ![w] = to]
Worker(w, at, to) == wpc[w] = at /\ wpc' = [wpc EXCEPT ![w] = to]

-----------------------------------------------------------------------------
(* The owner: Start, Stop and Join of thread object w.                     *)

StartStatus(w) ==
  /\ Owner(w, "new", "spawning")
  /\ tstatus' = [tstatus EXCEPT ![w] = "kStarting"]
  /\ UNCHANGED <<lstatus, queue, wpc, failed>>

SpawnThread(w) ==
  /\ Owner(w, "spawning", "spawned")
  /\ wpc' = [wpc EXCEPT ![w] = "spawned"]
  /\ UNCHANGED <<tstatus, lstatus, queue, failed>>

\* With wait_thread_started the owner spins until status_ is at least kRunning.
StartReturns(w, wait) ==
  /\ Owner(w, "spawned", "started")
  /\ wait => tstatus[w] \in {"kRunning", "kStopping", "kStopped"}
  /\ UNCHANGED <<tstatus, lstatus, queue, wpc, failed>>

\* The condition EventLoopThread::Stop asserts of its caller.
CanStop(w) == tstatus[w] = "kRunning" /\ lstatus[w] = "kRunning"

CallStop(w) ==
  /\ Owner(w, "started", "stopping")
  /\ UNCHANGED <<tstatus, lstatus, queue, wpc, failed>>

StopStatus(w) ==
  /\ Owner(w, "stopping", "loopstop")
  /\ tstatus' = [tstatus EXCEPT ![w] = "kStopping"]
  /\ UNCHANGED <<lstatus, queue, wpc, failed>>

\* EventLoop::Stop: the store and the post of StopInLoop.
StopLoopStatus(w) ==
  /\ Owner(w, "loopstop", "queuestop")
  /\ lstatus' = [lstatus EXCEPT ![w] = "kStopping"]
  /\ UNCHANGED <<tstatus, queue, wpc, failed>>

StopQueue(w) ==
  /\ Owner(w, "queuestop", "stopcalled")
  /\ queue' = [queue EXCEPT ![w] = Append(@, [f |-> "stop"])]
  /\ UNCHANGED <<tstatus, lstatus, wpc, failed>>

\* With wait_thread_exit the owner spins until IsStopped() and then joins.
StopReturns(w) ==
  /\ Owner(w, "stopcalled", "joining")
  /\ tstatus[w] = "kStopped"
  /\ UNCHANGED <<tstatus, lstatus, queue, wpc, failed>>

\* thread_->join() returns when the thread function has.
Join(w) ==
  /\ opc[w] \in {"started", "stopcalled", "joining"}
  /\ wpc[w] = "finished"
  /\ opc' = [opc EXCEPT ![w] = "joined"]
  /\ UNCHANGED <<tstatus, lstatus, queue, wpc, failed>>

-----------------------------------------------------------------------------
(* The thread: EventLoopThread::Run.                                       *)

QueueStartFunctor(w) ==
  /\ Worker(w, "spawned", "torun")
  /\ queue' = [queue EXCEPT ![w] = Append(@, [f |-> "fn"])]
  /\ UNCHANGED <<tstatus, lstatus, opc, failed>>

LoopStarting(w) ==
  /\ Worker(w, "torun", "starting")
  /\ lstatus' = [lstatus EXCEPT ![w] = "kStarting"]
  /\ UNCHANGED <<tstatus, queue, opc, failed>>

LoopRunning(w) ==
  /\ Worker(w, "starting", "dispatch")
  /\ lstatus' = [lstatus EXCEPT ![w] = "kRunning"]
  /\ UNCHANGED <<tstatus, queue, opc, failed>>

\* The start functor stores kRunning and then calls pre.
RunStartFunctor(w) ==
  /\ wpc[w] = "dispatch"
  /\ queue[w] # <<>> /\ Head(queue[w]).f = "fn"
  /\ queue' = [queue EXCEPT ![w] = Tail(@)]
  /\ tstatus' = [tstatus EXCEPT ![w] = "kRunning"]
  /\ wpc' = [wpc EXCEPT ![w] = "pre"]
  /\ UNCHANGED <<lstatus, opc, failed>>

PreSucceeds(w) ==
  /\ Worker(w, "pre", "dispatch")
  /\ UNCHANGED <<tstatus, lstatus, queue, opc, failed>>

\* A pre functor that fails makes the thread stop its own loop.
PreFails(w) ==
  /\ Worker(w, "pre", "dispatch")
  /\ failed' = [failed EXCEPT ![w] = TRUE]
  /\ lstatus' = [lstatus EXCEPT ![w] = "kStopping"]
  /\ queue' = [queue EXCEPT ![w] = Append(@, [f |-> "stop"])]
  /\ UNCHANGED <<tstatus, opc>>

\* StopInLoop drains the queue; functors posted later are not run.
RunStopInLoop(w) ==
  /\ Worker(w, "dispatch", "draining")
  /\ queue[w] # <<>> /\ Head(queue[w]).f = "stop"
  /\ queue' = [queue EXCEPT ![w] = Tail(@)]
  /\ UNCHANGED <<tstatus, lstatus, opc, failed>>

DrainStop(w) ==
  /\ wpc[w] = "draining"
  /\ queue[w] # <<>> /\ Head(queue[w]).f \in {"fn", "stop"}
  /\ queue' = [queue EXCEPT ![w] = Tail(@)]
  /\ UNCHANGED <<tstatus, lstatus, wpc, opc, failed>>

LoopLeaves(w) ==
  /\ Worker(w, "draining", "leaving")
  /\ queue[w] = <<>>
  /\ UNCHANGED <<tstatus, lstatus, queue, opc, failed>>

LoopStopped(w) ==
  /\ Worker(w, "leaving", "returned")
  /\ lstatus' = [lstatus EXCEPT ![w] = "kStopped"]
  /\ UNCHANGED <<tstatus, queue, opc, failed>>

RunPost(w) ==
  /\ Worker(w, "returned", "posted")
  /\ UNCHANGED <<tstatus, lstatus, queue, opc, failed>>

ThreadStopped(w) ==
  /\ Worker(w, "posted", "finished")
  /\ tstatus' = [tstatus EXCEPT ![w] = "kStopped"]
  /\ UNCHANGED <<lstatus, queue, opc, failed>>

WorkerStep(w) ==
  \/ QueueStartFunctor(w) \/ LoopStarting(w) \/ LoopRunning(w)
  \/ RunStartFunctor(w) \/ RunStopInLoop(w) \/ DrainStop(w) \/ LoopLeaves(w)
  \/ LoopStopped(w) \/ ThreadStopped(w)

-----------------------------------------------------------------------------
(* One owner for each object, which starts it, stops it if that is allowed *)
(* and joins it.                                                           *)

OwnerStep(w) ==
  \/ StartStatus(w) \/ SpawnThread(w) \/ StartReturns(w, TRUE)
  \/ StopStatus(w) \/ StopLoopStatus(w) \/ StopQueue(w) \/ StopReturns(w)
  \/ opc[w] = "joining" /\ Join(w)

OwnerMayStep(w) ==
  \/ CanStop(w) /\ CallStop(w)
  \/ opc[w] \in {"started", "stopcalled"} /\ Join(w)

-----------------------------------------------------------------------------
\* Start(true) blocks "until the thread totally started" (event_loop_thread.h):
\* once it has returned, and until the owner itself stops the thread or its pre
\* functor fails, the condition that Stop asserts holds.  The owner is the pool
\* or, without one, whoever built the object.
StartedCanStop(waited) ==
  \A w \in Workers : opc[w] = "started" /\ waited /\ ~failed[w] => CanStop(w)

\* EventLoopThread::Run asserts IsStopped() of its loop after the loop has
\* returned and post was called (event_loop_thread.cc:77).  When pre fails, the
\* status that the thread stores can be overwritten by its owner's Stop.
LoopStoppedAtExit ==
  \A w \in Workers :
    wpc[w] = "posted" /\ ~failed[w] => lstatus[w] = "kStopped"

\* Whoever asks the loop to stop, the owner or a failing pre functor, or both
\* at once, the thread function ends; and a thread that is stopped is joined:
\* Stop(true) returns, and so does Join.  When pre fails, Stop's store of
\* kStopping can hide the kStopped that it spins on.
StopCompletes ==
  \A w \in Workers :
    /\ (lstatus[w] = "kStopping") ~> (wpc[w] = "finished")
    /\ (opc[w] = "stopping") ~> (opc[w] = "joined" \/ failed[w])
=============================================================================
