--------------------------- MODULE EventLoopProps ---------------------------
(***************************************************************************)
(* The correctness properties of EventLoop.                                *)
(***************************************************************************)
EXTENDS EventLoop

PostingPCs == {"idle", "stop", "push", "count", "load", "store", "test",
               "notify"}
LoopPCs == {"init", "starting", "watching", "dispatch", "swap", "batch",
            "functor", "empty", "reset", "stopped", "done"}

ScalarsOK ==
  /\ status \in Status
  /\ owned \in BOOLEAN /\ notified \in BOOLEAN /\ exiting \in BOOLEAN
  /\ dangling \in BOOLEAN /\ dropped \in BOOLEAN
  /\ watcher \in {"created", "watched", "null"} /\ lpc \in LoopPCs
  /\ watcher = "null" => lpc \in {"stopped", "done"}
  /\ count \in Int /\ pipe \in 0..PipeCap /\ kept \in Nat

QueuesOK ==
  /\ pending \in Seq(Functors) /\ posted \in Seq(Functors)
  /\ ran \in Seq(Functors)

\* The nest of DoPendingFunctors calls: the outermost one, and only that one,
\* was made by the pipe's handler.
CallsOK ==
  /\ from \in Callers /\ todo \in Seq(Functors) /\ outer \in Seq(Calls)
  /\ (outer = <<>>) <=> (from = "handler")
  /\ outer # <<>> => lpc \in {"swap", "batch", "functor", "empty"}
  /\ \A i \in DOMAIN outer : (i = 1) <=> (outer[i].from = "handler")

PostersOK ==
  /\ pc \in [Posters -> PostingPCs]
  /\ DOMAIN arg = Posters
  /\ \A t \in Posters : IF pc[t] \in {"stop", "push"} THEN arg[t] \in Stops
                                                      ELSE arg[t] = "none"

\* The type invariant: the values of the fields of EventLoop and of the local
\* variables of the calls in progress.
TypeOK == ScalarsOK /\ QueuesOK /\ CallsOK /\ PostersOK

\* A thread that has pushed a functor and has not yet decided about the byte.
Deciding(t) == pc[t] \in {"count", "load", "store"}
\* A thread that has set notified_ and has not yet sent the byte.
Sending(t) == pc[t] \in {"test", "notify"}

\* No lost wake-up (QueueInLoop, event_loop.cc:240-263): while the loop can be
\* woken, a functor in the queue means that a byte is in the pipe, that the
\* loop is about to take the queue, or that a thread is still on its way to
\* send a byte.  Otherwise the loop would sleep over a queued functor.  The one
\* exception is a fork that threw the byte away (AfterFork leaves notified_).
NoLostWakeup ==
  pending # <<>> /\ watcher # "null" /\ ~dropped =>
    \/ pipe > 0 \/ lpc = "swap"
    \/ \E t \in Posters : Deciding(t) \/ Sending(t)

\* What makes NoLostWakeup inductive: notified_ is never left set without a
\* byte that is in the pipe, being read, or still to be sent; and a queued
\* functor is announced by notified_ or will be looked at by its poster.
NotifiedMeansByte ==
  notified /\ watcher # "null" /\ ~dropped =>
    pipe > 0 \/ lpc = "swap" \/ \E t \in Posters : Sending(t)

QueuedMeansNotified ==
  pending # <<>> => notified \/ \E t \in Posters : Deciding(t)

WakeupInv == NotifiedMeansByte /\ QueuedMeansNotified

\* The assertions of QueueInLoop (line 259) and StopInLoop (line 117): a null
\* watcher_ is only met by a loop that is not running, and StopInLoop only
\* runs while the loop is stopping.
AssertionsHold ==
  /\ watcher = "null" => status # "kRunning"
  /\ outer # <<>> => status = "kStopping"

\* What makes AssertionsHold inductive: status_ has passed kRunning from the
\* moment a thread in Stop has stored kStopping, and for as long as its functor
\* is queued, taken out or running, and it is kStopped only at the end of Run.
StopSeen == status \in {"kStopping", "kStopped"}
HasStop(s) == \E i \in DOMAIN s : s[i] \in Stops

StopInv ==
  /\ lpc \in {"init", "starting", "watching"} =>
       status \in {"kInitialized", "kStarting"}
  /\ lpc \in {"reset", "stopped", "done"} => exiting
  /\ status = "kStopped" => lpc = "done"
  /\ \A t \in Posters :
       /\ pc[t] = "stop" => StopSeen \/ status = "kRunning"
       /\ pc[t] = "push" => StopSeen
  /\ HasStop(pending) \/ HasStop(todo) \/ outer # <<>> \/ exiting => StopSeen

\* pending_functor_count_ counts the functors that are queued or not finished.
\* It lags behind by the posters between the push and the increment, so that
\* it may even be negative for a moment.
CountIsExact ==
  TypeOK /\
  LET unfinished == Len(pending) + Len(todo) + Len(outer)
                      + (IF lpc = "functor" THEN 1 ELSE 0)
                      + FoldSeq(LAMBDA c, n : n + Len(c.todo), 0, outer)
  IN count + Cardinality({t \in Posters : pc[t] = "count"}) = unfinished

\* QueueInLoop tests watcher_ before it uses it, because "the watcher_ object
\* maybe has been released already" (event_loop.cc:251-255).
NotifyOnlyLiveWatcher == ~dangling

Queue == SelectSeq(posted, LAMBDA f : f \notin ToSet(ran))
Phase ==
  IF ToSet(ran) \cap Stops = {} THEN "fifo"
  ELSE IF lpc \in {"reset", "stopped", "done"} THEN "closed" ELSE "draining"
Promised == {posted[i] : i \in 1..kept} \ ToSet(ran)

TQ == INSTANCE TaskQueue WITH
        queue <- Queue, phase <- Phase, promised <- Promised

\* EventLoop implements TaskQueue: at most one run of each functor, FIFO until
\* a stop begins, nothing promised is lost, nothing runs after the close; and,
\* unless a fork dropped the byte, what is queued before StopInLoop's last empty
\* check is run.
FairlyImplementsTaskQueue == TQ!Spec /\ (TQ!Fairness \/ <>dropped)

\* A call of Stop stops the loop, whichever thread makes it and whatever else
\* is being posted: Run returns and leaves kStopped, which EventLoopThread::Run
\* asserts (event_loop_thread.cc:77).
StopTerminates ==
  \A t \in Posters :
    (pc[t] = "stop" /\ ~dropped) ~>
      [](lpc = "done" /\ (owned => status = "kStopped"))
=============================================================================
