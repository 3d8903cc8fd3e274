----------------------------- MODULE InvokeTimer -----------------------------
(***************************************************************************)
(* evpp::InvokeTimer (evpp/invoke_timer.cc) on a TimerEventWatcher         *)
(* (evpp/event_watcher.cc), as EventLoop::RunAfter and RunEvery make it.   *)
(*                                                                         *)
(* A timer owns itself through self_ until it has fired or is cancelled.   *)
(* Start and Cancel are posted to the loop by other threads, or run in     *)
(* place in a callback.  The functor of Start holds a plain pointer to the *)
(* timer, the functor of Cancel a weak one.                                *)
(***************************************************************************)
EXTENDS Naturals, Sequences

CONSTANTS
  Timers,      \* the InvokeTimer objects of one loop
  UserTimers,  \* those a user makes, starts, cancels and drops
  MaxCancels   \* how often the user calls Cancel of one timer

ASSUME TimerAssumption == UserTimers \subseteq Timers /\ MaxCancels \in Nat

VARIABLES
  timer,   \* the timers: the fields of InvokeTimer, and what became of them
  queue,   \* the functors pending in the loop
  stack,   \* the callbacks that are open on the loop's thread
  crashed  \* a timer was used after it was freed

timerVars == <<timer, queue, stack, crashed>>

\* A timer as its constructor leaves it.  Of the fields, held and cancels are the
\* user's: the timer is held, and the calls of Cancel.  fired, told and cancelled
\* are histories: runs of functor_ (capped at 2), runs of cancel_callback_, and
\* that the functor of a Cancel has run and found timer_.
NewTimer(every, held) ==
  [every |-> every, periodic |-> every, self |-> TRUE, held |-> held,
   watcher |-> "null", started |-> FALSE, cancels |-> 0, fired |-> 0, told |-> 0,
   cancelled |-> FALSE]
\* The object is not there yet.
NoTimer == [NewTimer(FALSE, FALSE) EXCEPT !.self = FALSE]

TimerInit ==
  /\ timer \in [Timers -> {NewTimer(e, TRUE) : e \in BOOLEAN} \cup {NoTimer}]
  /\ \A t \in Timers : timer[t].self => t \in UserTimers
  /\ queue = <<>> /\ stack = <<>> /\ crashed = FALSE

Call(f, id) == [f |-> f, id |-> id]
Idle == stack = <<>> /\ ~crashed
At(f, id) == stack # <<>> /\ Head(stack) = Call(f, id) /\ ~crashed
Pending(f, id) == Idle /\ queue # <<>> /\ Head(queue) = Call(f, id)
Set(t, tm) == timer' = [timer EXCEPT ![t] = tm]

\* EventWatcher::Watch and EventWatcher::FreeEvent.
Watch(tm) == [tm EXCEPT !.watcher = "armed"]
FreeEvent(tm) == [tm EXCEPT !.watcher = "idle"]

\* A callback in progress holds the timer as well.
Alive(t) ==
  \/ timer[t].self \/ timer[t].held
  \/ \E i \in 1..Len(stack) : stack[i] \in {Call("functor", t), Call("canceled", t)}

-----------------------------------------------------------------------------
(* The user, on other threads.                                             *)

Start(t) ==
  /\ timer[t].held /\ ~timer[t].started
  /\ Set(t, [timer[t] EXCEPT !.started = TRUE])
  /\ queue' = Append(queue, Call("Start", t))
  /\ UNCHANGED <<stack, crashed>>

Cancel(t) ==
  /\ timer[t].held /\ timer[t].cancels < MaxCancels
  /\ Set(t, [timer[t] EXCEPT !.cancels = @ + 1])
  /\ queue' = Append(queue, Call("Cancel", t))
  /\ UNCHANGED <<stack, crashed>>

\* The user lets go of a timer that has been started.
Drop(t) ==
  /\ timer[t].held /\ timer[t].started
  /\ Set(t, [timer[t] EXCEPT !.held = FALSE])
  /\ UNCHANGED <<queue, stack, crashed>>

-----------------------------------------------------------------------------
(* The loop.                                                               *)

\* EventLoop::RunAfter called in the loop's own thread: the timer is made, its
\* functor of Start runs in place, and the caller drops what RunAfter returns.
RunAfter(t) ==
  Set(t, Watch([NewTimer(FALSE, FALSE) EXCEPT !.started = TRUE]))

RunStart(t) ==
  /\ Pending("Start", t)
  /\ queue' = Tail(queue)
  /\ IF Alive(t) THEN Set(t, Watch(timer[t])) /\ UNCHANGED crashed
                 ELSE crashed' = TRUE /\ UNCHANGED timer
  /\ UNCHANGED stack

\* MUTANT: OnCanceled leaves periodic_ as it is.
CancelInLoop_StaysPeriodic(t, tm) ==
  LET c == [tm EXCEPT !.cancelled = @ \/ tm.watcher # "null"] IN
  IF Alive(t) /\ tm.watcher # "null"
  THEN /\ Set(t, [FreeEvent(c) EXCEPT !.told = @ + 1])
       /\ stack' = <<Call("canceled", t)>> \o stack
  ELSE Set(t, c) /\ UNCHANGED stack

\* MUTANT: only a pending event is cancelled.
CancelInLoop_IfArmed(t, tm) ==
  LET c == [tm EXCEPT !.cancelled = @ \/ tm.watcher # "null"] IN
  IF Alive(t) /\ tm.watcher = "armed"
  THEN /\ Set(t, [FreeEvent(c) EXCEPT !.periodic = FALSE, !.told = @ + 1])
       /\ stack' = <<Call("canceled", t)>> \o stack
  ELSE Set(t, c) /\ UNCHANGED stack

\* The functor of Cancel up to cancel_callback_: EventWatcher::Cancel frees the
\* event and calls OnCanceled.  tm is the timer as it is now.
CancelInLoop(t, tm) ==
  LET c == [tm EXCEPT !.cancelled = @ \/ tm.watcher # "null"] IN
  IF Alive(t) /\ tm.watcher # "null"
  THEN /\ Set(t, [FreeEvent(c) EXCEPT !.periodic = FALSE, !.told = @ + 1])
       /\ stack' = <<Call("canceled", t)>> \o stack
  ELSE Set(t, c) /\ UNCHANGED stack

RunCancel(t) ==
  /\ Pending("Cancel", t)
  /\ queue' = Tail(queue)
  /\ CancelInLoop(t, timer[t])
  /\ UNCHANGED crashed

\* The event of the watcher: OnTimerTriggered calls functor_.
OnTimerTriggered(t) ==
  /\ Idle /\ timer[t].watcher = "armed"
  /\ Set(t, [timer[t] EXCEPT !.watcher = "idle",
                             !.fired = IF @ < 2 THEN @ + 1 ELSE @])
  /\ stack' = <<Call("functor", t)>>
  /\ UNCHANGED <<queue, crashed>>

\* The user cancels the timer in a callback.
CancelInCallback(t) ==
  /\ At("functor", t) \/ At("canceled", t)
  /\ timer[t].held /\ timer[t].cancels < MaxCancels
  /\ CancelInLoop(t, [timer[t] EXCEPT !.cancels = @ + 1])
  /\ UNCHANGED <<queue, crashed>>

Release(tm) == [tm EXCEPT !.watcher = "null", !.self = FALSE]

\* The rest of OnTimerTriggered.  A periodic timer waits again, through timer_.
FunctorReturns(t) ==
  /\ At("functor", t)
  /\ stack' = Tail(stack)
  /\ IF timer[t].periodic
     THEN Set(t, Watch(timer[t])) /\ crashed' = (timer[t].watcher = "null")
     ELSE Set(t, Release(timer[t])) /\ UNCHANGED crashed
  /\ UNCHANGED queue

\* The rest of OnCanceled.
CanceledReturns(t) ==
  /\ At("canceled", t)
  /\ stack' = Tail(stack)
  /\ Set(t, Release(timer[t]))
  /\ UNCHANGED <<queue, crashed>>

-----------------------------------------------------------------------------
TimerUser(t) == Start(t) \/ Cancel(t) \/ Drop(t) \/ CancelInCallback(t)
TimerStep(t) ==
  RunStart(t) \/ RunCancel(t) \/ OnTimerTriggered(t) \/ FunctorReturns(t)
  \/ CanceledReturns(t)

-----------------------------------------------------------------------------
(* What is checked.                                                        *)

\* The types of the timers' state.
TimerTypeOK ==
  /\ crashed \in BOOLEAN
  /\ \A t \in Timers :
       /\ {timer[t].every, timer[t].periodic, timer[t].self, timer[t].held,
           timer[t].started, timer[t].cancelled} \subseteq BOOLEAN
       /\ timer[t].watcher \in {"null", "armed", "idle"}
       /\ timer[t].cancels \in 0..MaxCancels
       /\ timer[t].fired \in 0..2 /\ timer[t].told \in Nat

\* The functor of Start, which holds a plain pointer, and the callbacks never
\* use a timer that has been freed, whoever drops or cancels it meanwhile; and
\* the event is pending only while the timer owns itself.
NeverUsedFreed ==
  /\ TimerTypeOK
  /\ ~crashed
  /\ \A t \in Timers : timer[t].watcher # "null" => timer[t].self

\* A timer made with RunAfter runs its functor once at most, and none runs it
\* after a Cancel has been served.  The cancel callback comes once, but for a user
\* who cancels again in it.  A Cancel that the loop serves before Start finds no
\* timer_ and is forgotten.
RunsAsAsked ==
  [][\A t \in Timers :
       /\ OnTimerTriggered(t) =>
            ~timer[t].cancelled /\ (~timer[t].every => timer[t].fired = 0)
       /\ timer'[t].told > timer[t].told =>
            timer[t].told = 0 \/ At("canceled", t)]_timerVars

\* A timer that fires once, or that is cancelled after its Start, is released.
IsReleased ==
  \A t \in Timers :
    timer[t].started /\ (~timer[t].every \/ timer[t].cancelled) ~> ~timer[t].self
=============================================================================
