--------------------------- MODULE EventLoopProofs ---------------------------
(***************************************************************************)
(* Theorems about EventLoop for every set of threads and functors, every   *)
(* capacity of the socket pair and every size of its read.                 *)
(***************************************************************************)
EXTENDS EventLoopProps, TLAPS

\* What the stack operations of EndStop return.
LEMMA FrontOf ==
  ASSUME NEW S, NEW s \in Seq(S), s # <<>>
  PROVE  /\ Front(s) \in Seq(S) /\ Len(Front(s)) = Len(s) - 1
         /\ \A i \in 1..(Len(s) - 1) : Front(s)[i] = s[i]
         /\ Last(s) \in S
<1>1. Len(s) \in Nat \ {0}
  OBVIOUS
<1>2. Last(s) \in S
  BY <1>1 DEF Last
<1>3. Front(s) = [i \in 1..(Len(s) - 1) |-> s[i]]
  BY <1>1 DEF Front
<1>4. \A i \in 1..(Len(s) - 1) : s[i] \in S
  BY <1>1
<1>5. Front(s) \in Seq(S) /\ Len(Front(s)) = Len(s) - 1
  BY <1>1, <1>3, <1>4
<1> QED BY <1>1, <1>2, <1>3, <1>5

\* The constructors establish the types.
LEMMA InitTypeOK == Init => TypeOK
<1> SUFFICES ASSUME Init PROVE TypeOK
  BY Zenon
<1> USE DEF Init
<1>1. ScalarsOK
  <2>1. /\ status \in Status /\ lpc \in LoopPCs
        /\ watcher \in {"created", "watched", "null"}
    BY Zenon DEF Status, LoopPCs
  <2>2. /\ owned \in BOOLEAN /\ notified \in BOOLEAN /\ exiting \in BOOLEAN
        /\ dangling \in BOOLEAN /\ dropped \in BOOLEAN
    BY Zenon
  <2>3. count \in Int /\ pipe \in 0..PipeCap /\ kept \in Nat
    BY PipeAssumption
  <2> QED BY <2>1, <2>2, <2>3 DEF ScalarsOK
<1>2. QueuesOK
  BY DEF QueuesOK
<1>3. CallsOK
  BY DEF CallsOK, Callers
<1>4. PostersOK
  <2>1. pc \in [Posters -> PostingPCs] /\ DOMAIN arg = Posters
    BY Zenon DEF PostingPCs
  <2>2. \A t \in Posters : IF pc[t] \in {"stop", "push"}
                           THEN arg[t] \in Stops ELSE arg[t] = "none"
    BY Zenon
  <2> QED BY <2>1, <2>2 DEF PostersOK
<1> QED BY <1>1, <1>2, <1>3, <1>4, SMTT(30) DEF TypeOK

\* A thread inside QueueInLoop or Stop keeps the types.
LEMMA PosterTypeOK ==
  ASSUME TypeOK, NEW t \in Posters, Post(t) \/ Continue(t)
  PROVE  TypeOK'
<1> USE DEF TypeOK, Functors
<1>1. ASSUME NEW f \in Tasks, QueueInLoop(t, f) PROVE TypeOK'
  <2> USE <1>1 DEF QueueInLoop, Push
  <2>1. ScalarsOK'
    BY Zenon DEF ScalarsOK
  <2>2. QueuesOK'
    BY DEF QueuesOK
  <2>3. CallsOK'
    BY Zenon DEF CallsOK, callVars
  <2>4. PostersOK'
    BY Zenon DEF PostersOK, PostingPCs
  <2> QED BY <2>1, <2>2, <2>3, <2>4
<1>2. ASSUME NEW f \in Tasks, RunInLoop(t, f), ~QueueInLoop(t, f)
      PROVE  TypeOK'
  <2> USE <1>2 DEF RunInLoop, queueVars, callVars, postVars
  <2>1. ScalarsOK'
    BY Zenon DEF ScalarsOK
  <2>2. QueuesOK'
    BY SMTT(30) DEF QueuesOK
  <2>3. CallsOK'
    BY Zenon DEF CallsOK
  <2>4. PostersOK'
    BY Zenon DEF PostersOK
  <2> QED BY <2>1, <2>2, <2>3, <2>4, SMTT(30)
<1>3. ASSUME NEW s \in Stops, Stop(t, s) PROVE TypeOK'
  <2> USE <1>3 DEF Stop, queueVars, callVars
  <2>1. ScalarsOK'
    BY Zenon DEF ScalarsOK
  <2>2. QueuesOK'
    BY Zenon DEF QueuesOK
  <2>3. CallsOK'
    BY Zenon DEF CallsOK
  <2>4. PostersOK'
    BY Zenon DEF PostersOK, PostingPCs
  <2> QED BY <2>1, <2>2, <2>3, <2>4, SMTT(30)
<1>4. CASE StoreStopping(t)
  <2> USE <1>4 DEF StoreStopping, queueVars, callVars
  <2>1. ScalarsOK'
    BY Zenon DEF ScalarsOK, Status
  <2>2. QueuesOK'
    BY Zenon DEF QueuesOK
  <2>3. CallsOK'
    BY Zenon DEF CallsOK
  <2>4. PostersOK'
    BY Zenon DEF PostersOK, PostingPCs
  <2> QED BY <2>1, <2>2, <2>3, <2>4
<1>5. CASE PushStop(t)
  <2> USE <1>5 DEF PushStop, Push, callVars
  <2>1. ScalarsOK'
    BY Zenon DEF ScalarsOK
  <2>2. QueuesOK'
    BY DEF QueuesOK, PostersOK
  <2>3. CallsOK'
    BY Zenon DEF CallsOK
  <2>4. PostersOK'
    BY Zenon DEF PostersOK, PostingPCs
  <2> QED BY <2>1, <2>2, <2>3, <2>4, SMTT(30)
<1>6. CASE IncrementCount(t)
  <2> USE <1>6 DEF IncrementCount, queueVars, callVars
  <2>1. ScalarsOK'
    BY DEF ScalarsOK
  <2>2. QueuesOK'
    BY Zenon DEF QueuesOK
  <2>3. CallsOK'
    BY Zenon DEF CallsOK
  <2>4. PostersOK'
    BY Zenon DEF PostersOK, PostingPCs
  <2> QED BY <2>1, <2>2, <2>3, <2>4
<1>7. CASE LoadNotified(t)
  <2> USE <1>7 DEF LoadNotified, queueVars, callVars
  <2>1. ScalarsOK'
    BY Zenon DEF ScalarsOK
  <2>2. QueuesOK'
    BY Zenon DEF QueuesOK
  <2>3. CallsOK'
    BY Zenon DEF CallsOK
  <2>4. PostersOK'
    BY Zenon DEF PostersOK, PostingPCs
  <2> QED BY <2>1, <2>2, <2>3, <2>4
<1>8. CASE StoreNotified(t)
  <2> USE <1>8 DEF StoreNotified, queueVars, callVars
  <2>1. ScalarsOK'
    BY Zenon DEF ScalarsOK
  <2>2. QueuesOK'
    BY Zenon DEF QueuesOK
  <2>3. CallsOK'
    BY Zenon DEF CallsOK
  <2>4. PostersOK'
    BY Zenon DEF PostersOK, PostingPCs
  <2> QED BY <2>1, <2>2, <2>3, <2>4, SMTT(30)
<1>9. CASE TestWatcher(t)
  <2> USE <1>9 DEF TestWatcher, queueVars, callVars
  <2>1. ScalarsOK'
    BY Zenon DEF ScalarsOK
  <2>2. QueuesOK'
    BY Zenon DEF QueuesOK
  <2>3. CallsOK'
    BY Zenon DEF CallsOK
  <2>4. PostersOK'
    BY Zenon DEF PostersOK, PostingPCs
  <2> QED BY <2>1, <2>2, <2>3, <2>4
<1>10. CASE Notify(t)
  <2> USE <1>10 DEF Notify, queueVars, callVars
  <2>1. ScalarsOK'
    <3>1. pipe' \in 0..PipeCap
      BY PipeAssumption DEF ScalarsOK
    <3>2. dangling' \in BOOLEAN
      BY Zenon DEF ScalarsOK
    <3> QED BY <3>1, <3>2, SMTT(30) DEF ScalarsOK
  <2>2. QueuesOK'
    BY Zenon DEF QueuesOK
  <2>3. CallsOK'
    BY Zenon DEF CallsOK
  <2>4. PostersOK'
    BY Zenon DEF PostersOK, PostingPCs
  <2> QED BY <2>1, <2>2, <2>3, <2>4
<1> QED BY <1>1, <1>2, <1>3, <1>4, <1>5, <1>6, <1>7, <1>8, <1>9, <1>10
           DEF Post, Continue

\* So does the loop thread.
LEMMA LoopTypeOK == ASSUME TypeOK, LoopStep \/ AfterFork PROVE TypeOK'
<1> USE DEF TypeOK, Functors
<1>1. CASE RunStarting
  <2> USE <1>1 DEF RunStarting, queueVars, callVars, postVars
  <2>1. ScalarsOK'
    BY Zenon DEF ScalarsOK, LoopPCs, Status
  <2>2. QueuesOK'
    BY Zenon DEF QueuesOK
  <2>3. CallsOK'
    BY Zenon DEF CallsOK
  <2>4. PostersOK'
    BY Zenon DEF PostersOK
  <2> QED BY <2>1, <2>2, <2>3, <2>4
<1>2. CASE RunAsyncWait
  <2> USE <1>2 DEF RunAsyncWait, queueVars, callVars, postVars
  <2>1. ScalarsOK'
    BY Zenon DEF ScalarsOK, LoopPCs
  <2>2. QueuesOK'
    BY Zenon DEF QueuesOK
  <2>3. CallsOK'
    BY Zenon DEF CallsOK
  <2>4. PostersOK'
    BY Zenon DEF PostersOK
  <2> QED BY <2>1, <2>2, <2>3, <2>4
<1>3. CASE RunRunning
  <2> USE <1>3 DEF RunRunning, queueVars, callVars, postVars
  <2>1. ScalarsOK'
    BY Zenon DEF ScalarsOK, LoopPCs, Status
  <2>2. QueuesOK'
    BY Zenon DEF QueuesOK
  <2>3. CallsOK'
    BY Zenon DEF CallsOK
  <2>4. PostersOK'
    BY Zenon DEF PostersOK
  <2> QED BY <2>1, <2>2, <2>3, <2>4
<1>4. CASE HandlerFn
  <2> USE <1>4 DEF HandlerFn, queueVars, callVars, postVars
  <2>1. ScalarsOK'
    BY PipeAssumption DEF ScalarsOK, LoopPCs
  <2>2. QueuesOK'
    BY Zenon DEF QueuesOK
  <2>3. CallsOK'
    BY Zenon DEF CallsOK, Callers
  <2>4. PostersOK'
    BY Zenon DEF PostersOK
  <2> QED BY <2>1, <2>2, <2>3, <2>4, SMTT(30)
<1>5. CASE SwapPending
  <2> USE <1>5 DEF SwapPending, queueVars, callVars, postVars
  <2>1. ScalarsOK'
    BY Zenon DEF ScalarsOK, LoopPCs
  <2>2. QueuesOK'
    BY DEF QueuesOK
  <2>3. CallsOK'
    BY Zenon DEF CallsOK, QueuesOK
  <2>4. PostersOK'
    BY Zenon DEF PostersOK
  <2> QED BY <2>1, <2>2, <2>3, <2>4, SMTT(30)
<1>6. CASE BeginTask
  <2> USE <1>6 DEF BeginTask, queueVars, callVars, postVars
  <2>1. ScalarsOK'
    BY Zenon DEF ScalarsOK, LoopPCs
  <2>2. QueuesOK'
    BY DEF QueuesOK, CallsOK
  <2>3. CallsOK'
    BY DEF CallsOK
  <2>4. PostersOK'
    BY Zenon DEF PostersOK
  <2> QED BY <2>1, <2>2, <2>3, <2>4, SMTT(30)
<1>7. CASE EndTask
  <2> USE <1>7 DEF EndTask, queueVars, callVars, postVars
  <2>1. ScalarsOK'
    BY DEF ScalarsOK, LoopPCs
  <2>2. QueuesOK'
    BY Zenon DEF QueuesOK
  <2>3. CallsOK'
    BY Zenon DEF CallsOK
  <2>4. PostersOK'
    BY Zenon DEF PostersOK
  <2> QED BY <2>1, <2>2, <2>3, <2>4, SMTT(30)
<1>8. CASE EndBatch
  <2> USE <1>8 DEF EndBatch, queueVars, callVars, postVars
  <2>1. ScalarsOK'
    BY Zenon DEF ScalarsOK, LoopPCs
  <2>2. QueuesOK'
    BY Zenon DEF QueuesOK
  <2>3. CallsOK'
    BY Zenon DEF CallsOK
  <2>4. PostersOK'
    BY Zenon DEF PostersOK
  <2> QED BY <2>1, <2>2, <2>3, <2>4
<1>9. CASE BeginStop
  <2> USE <1>9 DEF BeginStop, queueVars, callVars, postVars
  <2>1. ScalarsOK'
    BY Zenon DEF ScalarsOK, LoopPCs
  <2>2. QueuesOK'
    BY DEF QueuesOK, CallsOK
  <2>3. CallsOK'
    BY DEF CallsOK, Callers, Calls
  <2>4. PostersOK'
    BY Zenon DEF PostersOK
  <2> QED BY <2>1, <2>2, <2>3, <2>4
<1>10. CASE NotEmpty
  <2> USE <1>10 DEF NotEmpty, queueVars, callVars, postVars
  <2>1. ScalarsOK'
    BY Zenon DEF ScalarsOK, LoopPCs
  <2>2. QueuesOK'
    BY Zenon DEF QueuesOK
  <2>3. CallsOK'
    BY Zenon DEF CallsOK
  <2>4. PostersOK'
    BY Zenon DEF PostersOK
  <2> QED BY <2>1, <2>2, <2>3, <2>4
<1>11. CASE LoopExit
  <2> USE <1>11 DEF LoopExit, queueVars, callVars, postVars
  <2>1. ScalarsOK'
    BY Zenon DEF ScalarsOK, LoopPCs
  <2>2. QueuesOK'
    BY Zenon DEF QueuesOK
  <2>3. CallsOK'
    BY Zenon DEF CallsOK, Callers
  <2>4. PostersOK'
    BY Zenon DEF PostersOK
  <2> QED BY <2>1, <2>2, <2>3, <2>4
<1>12. CASE EndStop
  <2> USE <1>12 DEF EndStop, queueVars, callVars, postVars
  <2>1. ScalarsOK'
    BY DEF ScalarsOK, LoopPCs, QueuesOK
  <2>2. QueuesOK'
    BY Zenon DEF QueuesOK
  <2>3. CallsOK'
    <3>1. outer \in Seq(Calls) /\ outer # <<>>
      BY Zenon DEF CallsOK
    <3>2. Len(outer) \in Nat \ {0}
      BY <3>1
    <3>3. from' \in Callers /\ todo' \in Seq(Functors)
      <4>1. Last(outer) \in Calls
        BY <3>1, FrontOf
      <4> QED BY <4>1 DEF Calls
    <3>4. /\ outer' \in Seq(Calls) /\ Len(outer') = Len(outer) - 1
          /\ \A i \in 1..Len(outer') : outer'[i] = outer[i]
      BY <3>1, FrontOf, SMTT(30)
    <3>5. (outer' = <<>>) <=> (Len(outer) = 1)
      BY <3>2, <3>4, SMTT(30)
    <3>6. (Len(outer) = 1) <=> (from' = "handler")
      <4>1. Len(outer) \in DOMAIN outer
        BY <3>1, <3>2
      <4> QED BY <4>1, ZenonT(30) DEF CallsOK, Last
    <3>7. \A i \in DOMAIN outer' : (i = 1) <=> (outer'[i].from = "handler")
      BY <3>1, <3>2, <3>4, SMTT(30) DEF CallsOK
    <3> QED BY <3>3, <3>4, <3>5, <3>6, <3>7, Zenon DEF CallsOK
  <2>4. PostersOK'
    BY Zenon DEF PostersOK
  <2> QED BY <2>1, <2>2, <2>3, <2>4
<1>13. CASE DispatchReturns
  <2> USE <1>13 DEF DispatchReturns, queueVars, callVars, postVars
  <2>1. ScalarsOK'
    BY Zenon DEF ScalarsOK, LoopPCs
  <2>2. QueuesOK'
    BY Zenon DEF QueuesOK
  <2>3. CallsOK'
    BY Zenon DEF CallsOK
  <2>4. PostersOK'
    BY Zenon DEF PostersOK
  <2> QED BY <2>1, <2>2, <2>3, <2>4, Zenon
<1>14. CASE ResetWatcher
  <2> USE <1>14 DEF ResetWatcher, queueVars, callVars, postVars
  <2>1. ScalarsOK'
    BY PipeAssumption DEF ScalarsOK, LoopPCs
  <2>2. QueuesOK'
    BY Zenon DEF QueuesOK
  <2>3. CallsOK'
    BY Zenon DEF CallsOK
  <2>4. PostersOK'
    BY Zenon DEF PostersOK
  <2> QED BY <2>1, <2>2, <2>3, <2>4
<1>15. CASE RunStopped
  <2> USE <1>15 DEF RunStopped, queueVars, callVars, postVars
  <2>1. ScalarsOK'
    BY Zenon DEF ScalarsOK, LoopPCs, Status
  <2>2. QueuesOK'
    BY Zenon DEF QueuesOK
  <2>3. CallsOK'
    BY Zenon DEF CallsOK
  <2>4. PostersOK'
    BY Zenon DEF PostersOK
  <2> QED BY <2>1, <2>2, <2>3, <2>4, SMTT(30)
<1>16. CASE AfterFork
  <2> USE <1>16 DEF AfterFork, queueVars, callVars, postVars
  <2>1. ScalarsOK'
    BY PipeAssumption DEF ScalarsOK, LoopPCs
  <2>2. QueuesOK'
    BY Zenon DEF QueuesOK
  <2>3. CallsOK'
    BY Zenon DEF CallsOK
  <2>4. PostersOK'
    BY Zenon DEF PostersOK
  <2> QED BY <2>1, <2>2, <2>3, <2>4
<1> QED BY <1>1, <1>2, <1>3, <1>4, <1>5, <1>6, <1>7, <1>8, <1>9, <1>10, <1>11, <1>12, <1>13, <1>14, <1>15, <1>16
  DEF LoopStep

\* Type correctness of EventLoop: every field keeps its type, and the nest of
\* DoPendingFunctors calls its shape, for every choice of the constants.
THEOREM TypeCorrect == Spec => []TypeOK
<1>1. TypeOK /\ [Next]_vars => TypeOK'
  <2> SUFFICES ASSUME TypeOK, [Next]_vars PROVE TypeOK'
    BY Zenon
  <2>1. CASE Next
    BY <2>1, PosterTypeOK, LoopTypeOK DEF Next
  <2>2. CASE UNCHANGED vars
    BY <2>2, SMTT(30) DEF vars, queueVars, callVars, postVars, TypeOK, ScalarsOK,
               QueuesOK, CallsOK, PostersOK
  <2> QED BY <2>1, <2>2
<1> QED BY InitTypeOK, <1>1, PTL DEF Spec

-----------------------------------------------------------------------------
(* No lost wake-up.                                                        *)

\* A thread inside QueueInLoop keeps the wake-up invariant.  The point of the
\* code's order is StoreNotified: notified_ is set while the thread is still
\* to send, so a drain in between leaves a byte too many, never one too few.
LEMMA PosterWakeup ==
  ASSUME TypeOK, WakeupInv, NEW t \in Posters, Post(t) \/ Continue(t)
  PROVE  WakeupInv'
<1> USE DEF WakeupInv, NotifiedMeansByte, QueuedMeansNotified, Sending,
            Deciding, TypeOK, PostersOK, QueuesOK
<1>1. ASSUME NEW f \in Tasks, QueueInLoop(t, f) PROVE WakeupInv'
  <2> USE <1>1 DEF QueueInLoop, Push, Free
  <2>1. NotifiedMeansByte'
    BY Zenon
  <2>2. QueuedMeansNotified'
    BY Zenon
  <2> QED BY <2>1, <2>2
<1>2. ASSUME NEW f \in Tasks, RunInLoop(t, f), ~QueueInLoop(t, f)
      PROVE  WakeupInv'
  BY <1>2 DEF RunInLoop, queueVars, callVars, postVars
<1>3. ASSUME NEW s \in Stops, Stop(t, s) PROVE WakeupInv'
  BY <1>3, Zenon DEF Stop, Free, queueVars, callVars
<1>4. CASE StoreStopping(t)
  BY <1>4 DEF StoreStopping, queueVars, callVars
<1>5. CASE PushStop(t)
  BY <1>5 DEF PushStop, Push
<1>6. CASE IncrementCount(t)
  BY <1>6 DEF IncrementCount
<1>7. CASE LoadNotified(t)
  BY <1>7 DEF LoadNotified, queueVars
<1>8. CASE StoreNotified(t)
  BY <1>8 DEF StoreNotified
<1>9. CASE TestWatcher(t)
  BY <1>9, SMTT(30) DEF TestWatcher, queueVars
<1>10. CASE Notify(t)
  BY <1>10, PipeAssumption, SMTT(30) DEF Notify, ScalarsOK
<1> QED BY <1>1, <1>2, <1>3, <1>4, <1>5, <1>6, <1>7, <1>8, <1>9, <1>10
           DEF Post, Continue

\* So does the loop thread: it consumes a byte only on its way to a drain, and
\* a drain clears notified_ and empties the queue in one critical section.
LEMMA LoopWakeup == ASSUME TypeOK, WakeupInv, LoopStep PROVE WakeupInv'
<1> USE DEF WakeupInv, NotifiedMeansByte, QueuedMeansNotified, Sending,
            Deciding, queueVars, callVars, postVars
<1>1. CASE RunStarting \/ RunAsyncWait \/ RunRunning
  BY <1>1 DEF RunStarting, RunAsyncWait, RunRunning, TypeOK, ScalarsOK
<1>2. CASE HandlerFn
  BY <1>2 DEF HandlerFn
<1>3. CASE SwapPending
  BY <1>3 DEF SwapPending
<1>4. CASE BeginTask \/ EndTask \/ EndBatch
  BY <1>4, SMTT(30) DEF BeginTask, EndTask, EndBatch
<1>5. CASE BeginStop \/ NotEmpty \/ LoopExit \/ EndStop
  BY <1>5, SMTT(30) DEF BeginStop, NotEmpty, LoopExit, EndStop
<1>6. CASE DispatchReturns \/ ResetWatcher \/ RunStopped
  BY <1>6 DEF DispatchReturns, ResetWatcher, RunStopped
<1> QED BY <1>1, <1>2, <1>3, <1>4, <1>5, <1>6, Zenon DEF LoopStep

\* The wake-up invariant of QueueInLoop and DoPendingFunctors, until a fork
\* throws a byte away.
THEOREM WakeupInvariant == Spec => []WakeupInv
<1>1. Init => WakeupInv
  BY Zenon DEF Init, WakeupInv, NotifiedMeansByte, QueuedMeansNotified
<1>2. TypeOK /\ WakeupInv /\ [Next]_vars => WakeupInv'
  <2> SUFFICES ASSUME TypeOK, WakeupInv, [Next]_vars PROVE WakeupInv'
    BY Zenon
  <2>1. CASE AfterFork
    BY <2>1, ZenonT(30) DEF AfterFork, WakeupInv, NotifiedMeansByte, QueuedMeansNotified,
                Sending, Deciding, postVars
  <2>3. CASE Next
    BY <2>1, <2>3, PosterWakeup, LoopWakeup DEF Next
  <2>2. CASE UNCHANGED vars
    BY <2>2 DEF vars, queueVars, postVars, WakeupInv, NotifiedMeansByte,
                QueuedMeansNotified, Sending, Deciding
  <2> QED BY <2>2, <2>3, SMTT(30)
<1> QED BY <1>1, <1>2, TypeCorrect, PTL DEF Spec

\* The loop never sleeps over a queued functor: it is the mechanism that the
\* comment in QueueInLoop argues for, for any number of threads.
THEOREM WakeupNeverLost == Spec => []NoLostWakeup
<1>1. WakeupInv => NoLostWakeup
  BY Zenon DEF WakeupInv, NotifiedMeansByte, QueuedMeansNotified, NoLostWakeup
<1> QED BY <1>1, WakeupInvariant, PTL

-----------------------------------------------------------------------------
(* The assertions about the status.                                        *)

\* A thread inside QueueInLoop or Stop keeps StopInv.
LEMMA PosterStop ==
  ASSUME TypeOK, StopInv, NEW t \in Posters, Post(t) \/ Continue(t)
  PROVE  StopInv'
<1> USE DEF StopInv, StopSeen, HasStop, TypeOK, PostersOK, QueuesOK
<1>1. ASSUME NEW f \in Tasks, QueueInLoop(t, f) PROVE StopInv'
  <2>1. HasStop(pending') => HasStop(pending)
    BY <1>1, FunctorsAssumption, SMTT(30) DEF QueueInLoop, Push, Functors
  <2> QED BY <1>1, <2>1, SMTT(30) DEF QueueInLoop, Push, Free, callVars
<1>2. ASSUME NEW f \in Tasks, RunInLoop(t, f), ~QueueInLoop(t, f)
      PROVE  StopInv'
  BY <1>2 DEF RunInLoop, queueVars, callVars, postVars
<1>3. ASSUME NEW s \in Stops, Stop(t, s) PROVE StopInv'
  BY <1>3, Zenon DEF Stop, Free, queueVars, callVars
<1>4. CASE StoreStopping(t)
  BY <1>4, SMTT(30) DEF StoreStopping, queueVars, callVars
<1>5. CASE PushStop(t)
  BY <1>5, SMTT(30) DEF PushStop, Push, callVars
<1>6. CASE IncrementCount(t) \/ LoadNotified(t) \/ StoreNotified(t)
             \/ TestWatcher(t) \/ Notify(t)
  BY <1>6 DEF IncrementCount, LoadNotified, StoreNotified, TestWatcher,
              Notify, queueVars, callVars
<1> QED BY <1>1, <1>2, <1>3, <1>4, <1>5, <1>6 DEF Post, Continue

\* So does the loop thread.
LEMMA LoopStopInv ==
  ASSUME TypeOK, StopInv, LoopStep \/ AfterFork PROVE StopInv'
<1> USE DEF StopInv, StopSeen, HasStop, TypeOK, queueVars, callVars, postVars
<1>1. CASE RunStarting \/ RunAsyncWait \/ RunRunning
  BY <1>1, SMTT(30) DEF RunStarting, RunAsyncWait, RunRunning, ScalarsOK
<1>2. CASE HandlerFn \/ SwapPending \/ EndTask \/ EndBatch
  BY <1>2, SMTT(30) DEF HandlerFn, SwapPending, EndTask, EndBatch, CallsOK
<1>3. CASE BeginTask
  <2>1. HasStop(todo') => HasStop(todo)
    BY <1>3 DEF BeginTask, CallsOK
  <2> QED BY <1>3, <2>1, SMTT(30) DEF BeginTask
<1>4. CASE BeginStop
  BY <1>4 DEF BeginStop, CallsOK
<1>5. CASE NotEmpty \/ LoopExit \/ EndStop
  BY <1>5, SMTT(30) DEF NotEmpty, LoopExit, EndStop, CallsOK
<1>6. CASE DispatchReturns \/ ResetWatcher \/ RunStopped \/ AfterFork
  BY <1>6, SMTT(30) DEF DispatchReturns, ResetWatcher, RunStopped, AfterFork
<1> QED BY <1>1, <1>2, <1>3, <1>4, <1>5, <1>6, Zenon DEF LoopStep

\* The assertions of QueueInLoop (event_loop.cc:259) and StopInLoop (line 117)
\* hold in every run of a program that calls Stop only on a running loop.
THEOREM AssertionsNeverFail == Spec => []AssertionsHold
<1>1. Init => StopInv
  BY DEF Init, StopInv, StopSeen, HasStop
<1>2. TypeOK /\ StopInv /\ [Next]_vars => StopInv'
  <2> SUFFICES ASSUME TypeOK, StopInv, [Next]_vars PROVE StopInv'
    BY Zenon
  <2>1. CASE Next
    BY <2>1, PosterStop, LoopStopInv DEF Next
  <2>2. CASE UNCHANGED vars
    BY <2>2 DEF vars, queueVars, callVars, postVars, StopInv, StopSeen, HasStop
  <2> QED BY <2>1, <2>2
<1>3. TypeOK /\ StopInv => AssertionsHold
  BY Zenon DEF TypeOK, ScalarsOK, CallsOK, StopInv, StopSeen, AssertionsHold
<1> QED BY <1>1, <1>2, <1>3, TypeCorrect, PTL DEF Spec
=============================================================================
