------------------------------ MODULE EventLoop ------------------------------
(***************************************************************************)
(* evpp::EventLoop (evpp/event_loop.cc) with its PipeEventWatcher          *)
(* (evpp/event_watcher.cc): the cross-thread task queue of one reactor.    *)
(*                                                                         *)
(* Any thread posts functors with QueueInLoop; the loop thread wakes up on *)
(* a byte in a socket pair and runs them in DoPendingFunctors.  The atomic *)
(* flag notified_ suppresses repeated wake-up bytes.  QueueInLoop takes no *)
(* lock around the flag, so it is modelled one shared access at a time:    *)
(* push, ++pending_functor_count_, notified_.load, notified_.store, the    *)
(* null test of watcher_, and Notify.  A critical section of mutex_ is one *)
(* action.                                                                 *)
(***************************************************************************)
EXTENDS Integers, Sequences, FiniteSets, SequencesExt

CONSTANTS
  Threads,   \* the threads that are not the loop thread
  Loop,      \* the loop thread, which posts from inside functors
  Tasks,     \* the user's functors, each of them posted at most once
  Stops,     \* the functors StopInLoop, one for each call of Stop
  PipeCap,   \* how many bytes the socket pair holds before send fails
  ReadMax    \* how many bytes one recv takes (4096 in the code)

ASSUME PostersAssumption == Loop \notin Threads
ASSUME FunctorsAssumption == Tasks \cap Stops = {}
ASSUME PipeAssumption == PipeCap \in Nat \ {0} /\ ReadMax \in Nat \ {0}

Posters == Threads \cup {Loop}
Functors == Tasks \cup Stops

Status == {"kInitialized", "kStarting", "kRunning", "kStopping", "kStopped"}

\* A call of DoPendingFunctors is made by the pipe's handler, or by the first
\* or the second run of the drain lambda f in StopInLoop.
Callers == {"handler", "f1", "f2"}
Calls == [from : Callers, todo : Seq(Functors)]

VARIABLES
  status,    \* status_
  owned,     \* create_evbase_myself_
  pending,   \* *pending_functors_
  notified,  \* notified_
  count,     \* pending_functor_count_
  watcher,   \* watcher_: "created", "watched" (AsyncWait was called) or "null"
  pipe,      \* bytes sent to pipe_[0] and not yet received from pipe_[1]
  exiting,   \* event_base_loopexit was called
  lpc,       \* where the loop thread is
  from,      \* the caller of the innermost DoPendingFunctors
  todo,      \* the functors it has taken out and not begun
  outer,     \* the calls of DoPendingFunctors it is nested in, innermost last
  pc,        \* where each thread is in QueueInLoop or Stop
  arg,       \* the functor its call of Stop is about to push, or "none"
  posted,    \* history: the functors pushed, in order
  ran,       \* history: the functors begun, in order
  kept,      \* history: how many had been pushed at the last empty check of f2
  dangling,  \* Notify was called on a watcher that had been destroyed
  dropped    \* history: AfterFork threw away the byte that notified_ stands for

queueVars == <<pending, notified, count, pipe, posted>>
callVars  == <<from, todo, outer>>
postVars  == <<pc, arg>>
vars == <<status, owned, watcher, exiting, lpc, ran, kept, dangling, dropped,
          queueVars, callVars, postVars>>

Unposted(f) == f \notin ToSet(posted) /\ f \notin ToSet(ran)
                 /\ \A t \in Posters : arg[t] # f

\* The constructors.  An EventLoop built on an existing event_base is watched
\* and kRunning at once, and the application runs the base itself.
Init ==
  /\ owned \in BOOLEAN
  /\ status  = IF owned THEN "kInitialized" ELSE "kRunning"
  /\ watcher = IF owned THEN "created" ELSE "watched"
  /\ lpc     = IF owned THEN "init" ELSE "dispatch"
  /\ pending = <<>> /\ notified = FALSE /\ count = 0 /\ pipe = 0
  /\ exiting = FALSE /\ dangling = FALSE /\ dropped = FALSE
  /\ from = "handler" /\ todo = <<>> /\ outer = <<>>
  /\ pc = [t \in Posters |-> "idle"]
  /\ arg = [t \in Posters |-> "none"]
  /\ posted = <<>> /\ ran = <<>> /\ kept = 0

-----------------------------------------------------------------------------
(* Posting: QueueInLoop and Stop, by thread t.                             *)

\* A thread may call into the loop when it is not inside a call already; the
\* loop thread does so from the body of a functor.
Free(t) == pc[t] = "idle" /\ (t = Loop => lpc = "functor")

Push(t, f) ==
  /\ pending' = Append(pending, f)
  /\ posted'  = Append(posted, f)
  /\ pc'  = [pc EXCEPT ![t] = "count"]
  /\ arg' = [arg EXCEPT ![t] = "none"]

QueueInLoop(t, f) ==
  /\ Free(t) /\ Unposted(f)
  /\ Push(t, f)
  /\ UNCHANGED <<status, owned, watcher, exiting, lpc, ran, kept, dangling,
                 dropped, notified, count, pipe, callVars>>

\* RunInLoop runs the functor in place when the loop is kRunning and the caller
\* is its thread, and is QueueInLoop otherwise.
RunInLoop(t, f) ==
  \/ /\ status = "kRunning" /\ t = Loop
     /\ Free(t) /\ Unposted(f)
     /\ ran' = Append(ran, f)
     /\ UNCHANGED <<status, owned, watcher, exiting, lpc, kept, dangling,
                    dropped, queueVars, callVars, postVars>>
  \/ /\ ~(status = "kRunning" /\ t = Loop)
     /\ QueueInLoop(t, f)

\* Stop asserts kRunning; callers that respect the assertion may still race
\* between it and the store.
Stop(t, s) ==
  /\ Free(t) /\ Unposted(s)
  /\ status = "kRunning"
  /\ pc'  = [pc EXCEPT ![t] = "stop"]
  /\ arg' = [arg EXCEPT ![t] = s]
  /\ UNCHANGED <<status, owned, watcher, exiting, lpc, ran, kept, dangling,
                 dropped, queueVars, callVars>>

\* MUTANT: the status is not stored.
StoreStopping_NoStore(t) ==
  /\ pc[t] = "stop"
  /\ pc' = [pc EXCEPT ![t] = "push"]
  /\ UNCHANGED <<status, owned, watcher, exiting, lpc, ran, kept, dangling,
                 dropped, queueVars, callVars, arg>>

StoreStopping(t) ==
  /\ pc[t] = "stop"
  /\ status' = "kStopping"
  /\ pc' = [pc EXCEPT ![t] = "push"]
  /\ UNCHANGED <<owned, watcher, exiting, lpc, ran, kept, dangling, dropped,
                 queueVars, callVars, arg>>

PushStop(t) ==
  /\ pc[t] = "push"
  /\ Push(t, arg[t])
  /\ UNCHANGED <<status, owned, watcher, exiting, lpc, ran, kept, dangling,
                 dropped, notified, count, pipe, callVars>>

IncrementCount(t) ==
  /\ pc[t] = "count"
  /\ count' = count + 1
  /\ pc' = [pc EXCEPT ![t] = "load"]
  /\ UNCHANGED <<status, owned, watcher, exiting, lpc, ran, kept, dangling,
                 dropped, pending, notified, pipe, posted, callVars, arg>>

LoadNotified(t) ==
  /\ pc[t] = "load"
  /\ pc' = [pc EXCEPT ![t] = IF notified THEN "idle" ELSE "store"]
  /\ UNCHANGED <<status, owned, watcher, exiting, lpc, ran, kept, dangling,
                 dropped, queueVars, callVars, arg>>

StoreNotified(t) ==
  /\ pc[t] = "store"
  /\ notified' = TRUE
  /\ pc' = [pc EXCEPT ![t] = "test"]
  /\ UNCHANGED <<status, owned, watcher, exiting, lpc, ran, kept, dangling,
                 dropped, pending, count, pipe, posted, callVars, arg>>

TestWatcher(t) ==
  /\ pc[t] = "test"
  /\ pc' = [pc EXCEPT ![t] = IF watcher = "null" THEN "idle" ELSE "notify"]
  /\ UNCHANGED <<status, owned, watcher, exiting, lpc, ran, kept, dangling,
                 dropped, queueVars, callVars, arg>>

\* send on the full socket pair fails, and the failure is ignored.  On a
\* destroyed watcher the call is undefined: it is recorded in dangling.
Notify(t) ==
  /\ pc[t] = "notify"
  /\ pc' = [pc EXCEPT ![t] = "idle"]
  /\ IF watcher = "null"
     THEN dangling' = TRUE /\ UNCHANGED pipe
     ELSE pipe' = (IF pipe < PipeCap THEN pipe + 1 ELSE pipe)
            /\ UNCHANGED dangling
  /\ UNCHANGED <<status, owned, watcher, exiting, lpc, ran, kept, dropped,
                 pending, notified, count, posted, callVars, arg>>

-----------------------------------------------------------------------------
(* The loop thread: Run, the pipe's handler, DoPendingFunctors, StopInLoop. *)

RunStarting ==
  /\ lpc = "init"
  /\ status' = "kStarting" /\ lpc' = "starting"
  /\ UNCHANGED <<owned, watcher, exiting, ran, kept, dangling, dropped,
                 queueVars, callVars, postVars>>

RunAsyncWait ==
  /\ lpc = "starting"
  /\ watcher' = "watched" /\ lpc' = "watching"
  /\ UNCHANGED <<status, owned, exiting, ran, kept, dangling, dropped,
                 queueVars, callVars, postVars>>

RunRunning ==
  /\ lpc = "watching"
  /\ status' = "kRunning" /\ lpc' = "dispatch"
  /\ UNCHANGED <<owned, watcher, exiting, ran, kept, dangling, dropped,
                 queueVars, callVars, postVars>>

\* PipeEventWatcher::HandlerFn: one recv, then DoPendingFunctors.
HandlerFn ==
  /\ lpc = "dispatch" /\ pipe > 0
  /\ pipe' = IF pipe > ReadMax THEN pipe - ReadMax ELSE 0
  /\ from' = "handler" /\ lpc' = "swap"
  /\ UNCHANGED <<status, owned, watcher, exiting, ran, kept, dangling,
                 dropped, pending, notified, count, posted, todo, outer,
                 postVars>>

\* MUTANT: notified_ is not reset.
SwapPending_NoReset ==
  /\ lpc = "swap"
  /\ todo' = pending /\ pending' = <<>>
  /\ lpc' = "batch"
  /\ UNCHANGED <<status, owned, watcher, exiting, ran, kept, dangling,
                 dropped, notified, count, pipe, posted, from, outer,
                 postVars>>

\* The critical section of DoPendingFunctors.
SwapPending ==
  /\ lpc = "swap"
  /\ notified' = FALSE
  /\ todo' = pending /\ pending' = <<>>
  /\ lpc' = "batch"
  /\ UNCHANGED <<status, owned, watcher, exiting, ran, kept, dangling,
                 dropped, count, pipe, posted, from, outer, postVars>>

\* The loop over the functors taken out: begin the next one.
BeginTask ==
  /\ lpc = "batch" /\ todo # <<>> /\ Head(todo) \in Tasks
  /\ ran' = Append(ran, Head(todo))
  /\ todo' = Tail(todo) /\ lpc' = "functor"
  /\ UNCHANGED <<status, owned, watcher, exiting, kept, dangling, dropped,
                 queueVars, from, outer, postVars>>

EndTask ==
  /\ lpc = "functor" /\ pc[Loop] = "idle"
  /\ count' = count - 1 /\ lpc' = "batch"
  /\ UNCHANGED <<status, owned, watcher, exiting, ran, kept, dangling,
                 dropped, pending, notified, pipe, posted, callVars,
                 postVars>>

EndBatch ==
  /\ lpc = "batch" /\ todo = <<>>
  /\ lpc' = IF from = "handler" THEN "dispatch" ELSE "empty"
  /\ UNCHANGED <<status, owned, watcher, exiting, ran, kept, dangling,
                 dropped, queueVars, callVars, postVars>>

\* StopInLoop runs inside a functor: it calls DoPendingFunctors itself, twice.
BeginStop ==
  /\ lpc = "batch" /\ todo # <<>> /\ Head(todo) \in Stops
  /\ ran' = Append(ran, Head(todo))
  /\ outer' = Append(outer, [from |-> from, todo |-> Tail(todo)])
  /\ from' = "f1" /\ todo' = <<>> /\ lpc' = "swap"
  /\ UNCHANGED <<status, owned, watcher, exiting, kept, dangling, dropped,
                 queueVars, postVars>>

\* IsPendingQueueEmpty, which reads the vector without the lock.
NotEmpty ==
  /\ lpc = "empty" /\ pending # <<>>
  /\ lpc' = "swap"
  /\ UNCHANGED <<status, owned, watcher, exiting, ran, kept, dangling,
                 dropped, queueVars, callVars, postVars>>

\* MUTANT: event_base_loopexit is not called.
LoopExit_NoExit ==
  /\ lpc = "empty" /\ pending = <<>> /\ from = "f1"
  /\ from' = "f2" /\ lpc' = "swap"
  /\ UNCHANGED <<status, owned, watcher, exiting, ran, kept, dangling,
                 dropped, queueVars, todo, outer, postVars>>

LoopExit ==
  /\ lpc = "empty" /\ pending = <<>> /\ from = "f1"
  /\ exiting' = TRUE
  /\ from' = "f2" /\ lpc' = "swap"
  /\ UNCHANGED <<status, owned, watcher, ran, kept, dangling, dropped,
                 queueVars, todo, outer, postVars>>

\* MUTANT: the second drain is not repeated while functors arrive.
EndStop_Unchecked ==
  /\ lpc = "empty" /\ from = "f2"
  /\ from' = Last(outer).from /\ todo' = Last(outer).todo
  /\ outer' = Front(outer)
  /\ count' = count - 1 /\ lpc' = "batch"
  /\ kept' = Len(posted)
  /\ UNCHANGED <<status, owned, watcher, exiting, ran, dangling, dropped,
                 pending, notified, pipe, posted, postVars>>

\* MUTANT: the functor StopInLoop is not counted down.
EndStop_NoDecrement ==
  /\ lpc = "empty" /\ pending = <<>> /\ from = "f2"
  /\ from' = Last(outer).from /\ todo' = Last(outer).todo
  /\ outer' = Front(outer)
  /\ lpc' = "batch"
  /\ kept' = Len(posted)
  /\ UNCHANGED <<status, owned, watcher, exiting, ran, dangling, dropped,
                 count, pending, notified, pipe, posted, postVars>>

EndStop ==
  /\ lpc = "empty" /\ pending = <<>> /\ from = "f2"
  /\ from' = Last(outer).from /\ todo' = Last(outer).todo
  /\ outer' = Front(outer)
  /\ count' = count - 1 /\ lpc' = "batch"
  /\ kept' = Len(posted)
  /\ UNCHANGED <<status, owned, watcher, exiting, ran, dangling, dropped,
                 pending, notified, pipe, posted, postVars>>

\* event_base_dispatch returns after loopexit; the base may still deliver the
\* events that are active already (HandlerFn stays enabled).  The base of an
\* embedded loop is the application's, and nothing follows its return.
DispatchReturns ==
  /\ lpc = "dispatch" /\ exiting
  /\ lpc' = IF owned THEN "reset" ELSE "done"
  /\ UNCHANGED <<status, owned, watcher, exiting, ran, kept, dangling,
                 dropped, queueVars, callVars, postVars>>

\* watcher_.reset() closes the socket pair.
ResetWatcher ==
  /\ lpc = "reset"
  /\ watcher' = "null" /\ pipe' = 0 /\ lpc' = "stopped"
  /\ UNCHANGED <<status, owned, exiting, ran, kept, dangling, dropped,
                 pending, notified, count, posted, callVars, postVars>>

RunStopped ==
  /\ lpc = "stopped"
  /\ status' = "kStopped" /\ lpc' = "done"
  /\ UNCHANGED <<owned, watcher, exiting, ran, kept, dangling, dropped,
                 queueVars, callVars, postVars>>

\* AfterFork replaces watcher_, and with it the socket pair.  It runs in a
\* child process, where no other thread of the parent exists.
AfterFork ==
  /\ lpc = "init"
  /\ \A t \in Posters : pc[t] = "idle"
  /\ watcher' = "created" /\ pipe' = 0
  /\ dropped' = (dropped \/ notified)
  /\ UNCHANGED <<status, owned, exiting, lpc, ran, kept, dangling, pending,
                 notified, count, posted, callVars, postVars>>

-----------------------------------------------------------------------------
Post(t) ==
  \/ \E f \in Tasks : QueueInLoop(t, f) \/ RunInLoop(t, f)
  \/ \E s \in Stops : Stop(t, s)

Continue(t) ==
  \/ StoreStopping(t) \/ PushStop(t) \/ IncrementCount(t) \/ LoadNotified(t)
  \/ StoreNotified(t) \/ TestWatcher(t) \/ Notify(t)

LoopStep ==
  \/ RunStarting \/ RunAsyncWait \/ RunRunning
  \/ HandlerFn \/ SwapPending \/ BeginTask \/ EndTask \/ EndBatch
  \/ BeginStop \/ NotEmpty \/ LoopExit \/ EndStop
  \/ DispatchReturns \/ ResetWatcher \/ RunStopped

Next == (\E t \in Posters : Post(t) \/ Continue(t)) \/ LoopStep \/ AfterFork

\* A thread that has begun a call finishes it, and the loop thread runs.
Fairness == WF_vars(LoopStep) /\ \A t \in Posters : WF_vars(Continue(t))

Spec == Init /\ [][Next]_vars
FairSpec == Spec /\ Fairness
=============================================================================
