----------------------------- MODULE HTTPCProofs ----------------------------
(***************************************************************************)
(* That no InvokeTimer is used after it is freed and none fires after a    *)
(* Cancel that found it, that a Request is executed as often as it says,   *)
(* and that a connection has one user, for any number of timers, requests, *)
(* retries and cancels.                                                    *)
(***************************************************************************)
EXTENDS HTTPC, FiniteSetTheorems, TLAPS

-----------------------------------------------------------------------------
(* Sequences of anything: the queue, the stack and the pool.               *)

IsASeq(s) == \E S : s \in Seq(S)

\* The empty sequence.
LEMMA EmptySeq == IsASeq(<< >>) /\ Len(<< >>) = 0
<1>1. << >> \in Seq({})  OBVIOUS
<1> QED  BY <1>1, Zenon DEF IsASeq

\* A sequence without its first element.
LEMMA PopSeq ==
  ASSUME NEW s, IsASeq(s), s # << >>
  PROVE  LET t == Tail(s) IN
         /\ IsASeq(t) /\ Len(s) \in Nat \ {0} /\ Len(t) = Len(s) - 1 /\ Head(s) = s[1]
         /\ \A i \in 1..Len(t) : i + 1 \in 1..Len(s) /\ t[i] = s[i + 1]
         /\ \A i \in 1..Len(s) : i # 1 => i - 1 \in 1..Len(t) /\ t[i - 1] = s[i]
<1> DEFINE t == Tail(s)
<1>1. PICK S : s \in Seq(S)  BY Zenon DEF IsASeq
<1>2. t \in Seq(S)  BY <1>1
<1>3. Len(s) \in Nat \ {0} /\ Len(t) = Len(s) - 1 /\ Head(s) = s[1]  BY <1>1
<1>4. \A i \in 1..Len(t) : i + 1 \in 1..Len(s) /\ t[i] = s[i + 1]  BY <1>1, <1>3
<1>5. \A i \in 1..Len(s) : i # 1 => i - 1 \in 1..Len(t) /\ t[i - 1] = s[i]  BY <1>1, <1>3
<1> QED  BY <1>2, <1>3, <1>4, <1>5, Zenon DEF IsASeq

\* A sequence with one more element.
LEMMA AppendSeq ==
  ASSUME NEW s, IsASeq(s), NEW x
  PROVE  LET t == Append(s, x) IN
         /\ IsASeq(t) /\ Len(s) \in Nat /\ Len(t) = Len(s) + 1 /\ t[Len(t)] = x
         /\ \A i \in 1..Len(t) : i # Len(t) => i \in 1..Len(s) /\ t[i] = s[i]
<1> DEFINE t == Append(s, x)
<1>1. PICK S : s \in Seq(S)  BY Zenon DEF IsASeq
<1>2. t \in Seq(S \cup {x})
  <2>1. s \in Seq(S \cup {x})  BY <1>1
  <2> QED  BY <2>1
<1>3. Len(s) \in Nat /\ Len(t) = Len(s) + 1 /\ t[Len(t)] = x  BY <1>1
<1>4. \A i \in 1..Len(t) : i # Len(t) => i \in 1..Len(s) /\ t[i] = s[i]  BY <1>1, <1>3
<1> QED  BY <1>2, <1>3, <1>4, Zenon DEF IsASeq

\* A sequence without its last element.
LEMMA FrontSeq ==
  ASSUME NEW s, IsASeq(s), s # << >>
  PROVE  IsASeq(SubSeq(s, 1, Len(s) - 1))
<1>1. PICK S : s \in Seq(S)  BY Zenon DEF IsASeq
<1>2. SubSeq(s, 1, Len(s) - 1) \in Seq(S)  BY <1>1
<1> QED  BY <1>2, Zenon DEF IsASeq

\* The queue s after Clear of the pool u.
Closes(s, u) == s \o [i \in 1..Len(u) |-> Call("Close", u[i])]

\* What Clear leaves in the queue: its old functors, then Conn::Close.
LEMMA CloseSeq ==
  ASSUME NEW s, IsASeq(s), NEW u, IsASeq(u)
  PROVE  /\ IsASeq(Closes(s, u))
         /\ \A i \in 1..Len(Closes(s, u)) :
              IF i \in 1..Len(s) THEN Closes(s, u)[i] = s[i]
              ELSE \E j \in 1..Len(u) : Closes(s, u)[i] = Call("Close", u[j])
<1>1. PICK S : s \in Seq(S)  BY Zenon DEF IsASeq
<1>2. PICK U : u \in Seq(U)  BY Zenon DEF IsASeq
<1> DEFINE c == [i \in 1..Len(u) |-> Call("Close", u[i])]
           t == s \o c
           C == {Call("Close", u[i]) : i \in 1..Len(u)}
<1>3. Len(u) \in Nat  BY <1>2
<1>4. c \in Seq(C) /\ Len(c) = Len(u)  BY <1>3
<1>5. t \in Seq(S \cup C) /\ Len(s) \in Nat /\ Len(t) = Len(s) + Len(u)
  <2>1. s \in Seq(S \cup C) /\ c \in Seq(S \cup C)  BY <1>1, <1>4
  <2> HIDE DEF c, C
  <2>2. s \o c \in Seq(S \cup C) /\ Len(s) \in Nat /\ Len(s \o c) = Len(s) + Len(c)  BY <2>1
  <2> QED  BY <2>2, <1>4, Zenon DEF c
<1>6. ASSUME NEW i \in 1..Len(t)
      PROVE  IF i \in 1..Len(s) THEN t[i] = s[i] ELSE \E j \in 1..Len(u) : t[i] = Call("Close", u[j])
  <2>1. t[i] = IF i <= Len(s) THEN s[i] ELSE c[i - Len(s)]  BY <1>1, <1>4, <1>5
  <2> QED  BY <2>1, <1>3, <1>5
<1>7. Closes(s, u) = t  BY Zenon DEF Closes
<1> HIDE DEF t, C
<1>8. IsASeq(t)  BY <1>5, Zenon DEF IsASeq
<1> QED  BY <1>6, <1>7, <1>8, Zenon

-----------------------------------------------------------------------------
(* The inductive invariant.                                                *)

TimerRec ==
  [every : BOOLEAN, periodic : BOOLEAN, self : BOOLEAN, held : BOOLEAN,
   watcher : {"null", "armed", "idle"}, started : BOOLEAN, cancels : 0..MaxCancels,
   fired : 0..2, told : Nat, cancelled : BOOLEAN]

\* What is true of a timer by itself: its event is there only after Start and while
\* it owns itself, and is never pending again once a Cancel has found it.
TimerOK(t, tm) ==
  /\ tm \in TimerRec
  /\ tm.held => t \in UserTimers
  /\ tm.watcher # "null" => tm.self /\ tm.started
  /\ tm.held /\ ~tm.started => tm.self
  /\ ~tm.started => tm.watcher = "null" /\ tm.fired = 0 /\ tm.told = 0 /\ ~tm.cancelled
  /\ tm.periodic => tm.every
  /\ tm.watcher = "armed" /\ ~tm.every => tm.fired = 0
  /\ tm.cancelled => tm.watcher # "armed" /\ ~tm.periodic
  /\ tm.told > 0 => tm.cancelled

\* The functor of Start, with its plain pointer, is pending.
Waits(tm) ==
  /\ tm.started /\ tm.self /\ tm.watcher = "null"
  /\ tm.fired = 0 /\ tm.told = 0 /\ ~tm.cancelled

\* A request by itself: its tries are counted by retried_.
RequestRec(C) ==
  [pc : {"absent", "new", "posted", "executing", "sent", "retrying", "done"}, own : BOOLEAN,
   conn : C, retried : Nat, executed : Nat, handled : Nat, ok : BOOLEAN]
IsRequest(q) == \E C : q \in RequestRec(C)
Counted(q) ==
  /\ q.retried <= retry_number
  /\ q.pc \in {"absent", "new", "posted"} => q.retried = 0
  /\ q.pc \in {"sent", "done"} => q.executed = q.retried + 1
  /\ q.pc \notin {"sent", "done"} => q.executed = q.retried
  /\ q.pc # "done" => q.handled = 0
  /\ q.pc = "done" => q.handled = 1 /\ (q.ok \/ q.retried = retry_number)
RequestOK(q) == IsRequest(q) /\ Counted(q)

SeqInv == IsASeq(queue) /\ IsASeq(stack) /\ IsASeq(pool)

TimerInv ==
  /\ crashed = FALSE
  /\ timer = [t \in Timers |-> timer[t]]
  /\ \A t \in Timers : TimerOK(t, timer[t])

RequestInv ==
  /\ retry_number \in 0..MaxRetries
  /\ request = [r \in Requests |-> request[r]]
  /\ \A r \in Requests : RequestOK(request[r])

\* The functors that are pending: at most one Start of a timer and one Execute of a
\* request, and what they find.
QueueInv ==
  /\ \A t \in Timers, i \in 1..Len(queue) : queue[i] = Call("Start", t) =>
       /\ t \in UserTimers /\ Waits(timer[t])
       /\ \A j \in 1..Len(queue) : queue[j] = Call("Start", t) => j = i
  /\ \A r \in Requests, i \in 1..Len(queue) : queue[i] = Call("Execute", r) =>
       /\ request[r].pc = "posted"
       /\ \A j \in 1..Len(queue) : queue[j] = Call("Execute", r) => j = i

\* The callbacks of a timer are open: functor_, after which it goes another round only
\* with its event, and cancel_callback_, after which it does not.
InFunctor(t, tm) ==
  /\ tm.started /\ (tm.fired > 0 \/ t \notin UserTimers)
  /\ tm.watcher = "null" => ~tm.periodic
InCanceled(t, tm) ==
  /\ tm.started /\ (tm.cancelled \/ t \notin UserTimers)
  /\ ~tm.periodic
Told(tm) == tm.told > 0 /\ tm.watcher # "null"

\* The calls that are open: functor_ is the outermost, ExecuteInLoop the innermost.
StackInv ==
  /\ \A t \in Timers, i \in 1..Len(stack) :
       /\ stack[i] = Call("functor", t) => i = Len(stack) /\ InFunctor(t, timer[t])
       /\ stack[i] = Call("canceled", t) => InCanceled(t, timer[t])
  /\ \A t \in Timers : Told(timer[t]) =>
       \E i \in 1..Len(stack) : stack[i] = Call("canceled", t)
  /\ \A r \in Requests, i \in 1..Len(stack) : stack[i] = Call("execute", r) =>
       i = 1 /\ request[r].pc = "executing"

IInv == SeqInv /\ TimerInv /\ RequestInv /\ QueueInv /\ StackInv

\* An assignment to one timer.
LEMMA SetTimer ==
  ASSUME TimerInv, NEW t \in Timers, NEW tm, TimerOK(t, tm), Set(t, tm)
  PROVE  /\ timer' = [u \in Timers |-> timer'[u]]
         /\ \A u \in Timers : TimerOK(u, timer'[u])
         /\ timer'[t] = tm /\ \A u \in Timers \ {t} : timer'[u] = timer[u]
<1>1. timer' = [u \in Timers |-> IF u = t THEN tm ELSE timer[u]]  BY Zenon DEF TimerInv, Set
<1> QED  BY <1>1, Zenon DEF TimerInv

-----------------------------------------------------------------------------
(* What a step does to the queue and to the stack.                         *)

\* A functor is queued.
LEMMA AppendQueue ==
  ASSUME SeqInv, NEW x, queue' = Append(queue, x)
  PROVE  /\ IsASeq(queue') /\ Len(queue) \in Nat /\ Len(queue') = Len(queue) + 1
         /\ queue'[Len(queue')] = x
         /\ \A i \in 1..Len(queue') : i # Len(queue') =>
              i \in 1..Len(queue) /\ queue'[i] = queue[i]
<1>1. IsASeq(queue)  BY Zenon DEF SeqInv
<1> QED  BY <1>1, AppendSeq

\* The loop runs the first functor of the queue.
LEMMA PopQueue ==
  ASSUME SeqInv, NEW f, NEW id, Pending(f, id), queue' = Tail(queue)
  PROVE  /\ stack = << >> /\ Len(stack) = 0 /\ IsASeq(queue')
         /\ 1 \in 1..Len(queue) /\ queue[1] = Call(f, id)
         /\ \A i \in 1..Len(queue') : i + 1 \in 1..Len(queue) /\ queue'[i] = queue[i + 1]
         /\ \A i \in 1..Len(queue') : i \in Nat \ {0}
<1>1. IsASeq(queue) /\ queue # << >> /\ stack = << >> /\ Head(queue) = Call(f, id)
  BY Zenon DEF SeqInv, Pending, Idle
<1> QED  BY <1>1, PopSeq, EmptySeq

\* The innermost call.
LEMMA AtHead ==
  ASSUME SeqInv, NEW f, NEW id, At(f, id)
  PROVE  stack # << >> /\ Len(stack) \in Nat \ {0} /\ stack[1] = Call(f, id)
<1>1. IsASeq(stack) /\ stack # << >> /\ Head(stack) = Call(f, id)  BY Zenon DEF SeqInv, At
<1> QED  BY <1>1, PopSeq, Zenon

\* A call is made.
LEMMA PushStack ==
  ASSUME SeqInv, NEW x, stack' = <<x>> \o stack
  PROVE  /\ IsASeq(stack') /\ Len(stack) \in Nat /\ Len(stack') = Len(stack) + 1
         /\ stack'[1] = x
         /\ \A i \in 1..Len(stack') : i # 1 => i - 1 \in 1..Len(stack) /\ stack'[i] = stack[i - 1]
         /\ \A i \in 1..Len(stack) : i + 1 \in 1..Len(stack') /\ stack'[i + 1] = stack[i]
<1>1. PICK S : stack \in Seq(S)  BY Zenon DEF SeqInv, IsASeq
<1>2. stack' \in Seq(S \cup {x})
  <2>1. stack \in Seq(S \cup {x}) /\ <<x>> \in Seq(S \cup {x})  BY <1>1
  <2> QED  BY <2>1
<1>3. Len(stack) \in Nat /\ Len(stack') = Len(stack) + 1 /\ stack'[1] = x  BY <1>1
<1>4. \A i \in 1..Len(stack') : i # 1 => i - 1 \in 1..Len(stack) /\ stack'[i] = stack[i - 1]
  BY <1>1, <1>3
<1>5. \A i \in 1..Len(stack) : i + 1 \in 1..Len(stack') /\ stack'[i + 1] = stack[i]
  BY <1>1, <1>3
<1> QED  BY <1>2, <1>3, <1>4, <1>5, Zenon DEF IsASeq

\* The first call on an empty stack.
LEMMA FirstOnStack ==
  ASSUME NEW x, stack = << >>, stack' = <<x>>
  PROVE  stack' = <<x>> \o stack
  OBVIOUS

\* The innermost call returns.
LEMMA PopStack ==
  ASSUME SeqInv, NEW f, NEW id, At(f, id), stack' = Tail(stack)
  PROVE  /\ IsASeq(stack') /\ Len(stack) \in Nat \ {0} /\ Len(stack') = Len(stack) - 1
         /\ stack[1] = Call(f, id)
         /\ \A i \in 1..Len(stack') : i + 1 \in 1..Len(stack) /\ stack'[i] = stack[i + 1]
         /\ \A i \in 1..Len(stack) : i # 1 => i - 1 \in 1..Len(stack') /\ stack'[i - 1] = stack[i]
<1>1. IsASeq(stack) /\ stack # << >> /\ Head(stack) = Call(f, id)  BY Zenon DEF SeqInv, At
<1> QED  BY <1>1, PopSeq, Zenon

\* The requests stay as they are.
LEMMA SameRequests == RequestInv /\ UNCHANGED <<request, retry_number>> => RequestInv'
  BY Zenon DEF RequestInv, RequestOK, Counted

\* The queue stays as it is.
LEMMA QueueFrame ==
  ASSUME QueueInv, queue' = queue,
         \A u \in UserTimers : Waits(timer[u]) => Waits(timer'[u]),
         \A r \in Requests : request[r].pc = "posted" => request'[r].pc = "posted"
  PROVE  QueueInv'
  BY DEF QueueInv, Waits

\* The first functor is run, and may change what it is about.
LEMMA QueueTail ==
  ASSUME SeqInv, QueueInv, NEW f, NEW id, Pending(f, id), queue' = Tail(queue),
         \A u \in UserTimers : Call("Start", u) # Call(f, id) /\ Waits(timer[u]) => Waits(timer'[u]),
         \A r \in Requests : Call("Execute", r) # Call(f, id) /\ request[r].pc = "posted" =>
                               request'[r].pc = "posted"
  PROVE  QueueInv'
<1>1. /\ 1 \in 1..Len(queue) /\ queue[1] = Call(f, id)
      /\ \A i \in 1..Len(queue') : i + 1 \in 1..Len(queue) /\ queue'[i] = queue[i + 1]
      /\ \A i \in 1..Len(queue') : i \in Nat \ {0}
  BY PopQueue, Zenon
<1>2. ASSUME NEW t \in Timers, NEW i \in 1..Len(queue'), queue'[i] = Call("Start", t)
      PROVE  /\ t \in UserTimers /\ Waits(timer'[t])
             /\ \A j \in 1..Len(queue') : queue'[j] = Call("Start", t) => j = i
  <2>1. /\ t \in UserTimers /\ Waits(timer[t])
        /\ \A j \in 1..Len(queue) : queue[j] = Call("Start", t) => j = i + 1
    BY <1>1, <1>2, Zenon DEF QueueInv
  <2>2. Call("Start", t) # Call(f, id)  BY <1>1, <2>1
  <2> QED  BY <1>1, <2>1, <2>2
<1>3. ASSUME NEW r \in Requests, NEW i \in 1..Len(queue'), queue'[i] = Call("Execute", r)
      PROVE  /\ request'[r].pc = "posted"
             /\ \A j \in 1..Len(queue') : queue'[j] = Call("Execute", r) => j = i
  <2>1. /\ request[r].pc = "posted"
        /\ \A j \in 1..Len(queue) : queue[j] = Call("Execute", r) => j = i + 1
    BY <1>1, <1>3, Zenon DEF QueueInv
  <2>2. Call("Execute", r) # Call(f, id)  BY <1>1, <2>1
  <2> QED  BY <1>1, <2>1, <2>2
<1> QED  BY <1>2, <1>3, Zenon DEF QueueInv

\* A functor is queued: a Start or an Execute is the first of its timer or request.
LEMMA QueueAppend ==
  ASSUME SeqInv, QueueInv, NEW f, NEW id, queue' = Append(queue, Call(f, id)),
         \A u \in UserTimers : Call("Start", u) # Call(f, id) /\ Waits(timer[u]) => Waits(timer'[u]),
         \A u \in Timers : Call("Start", u) = Call(f, id) =>
           u \in UserTimers /\ ~Waits(timer[u]) /\ Waits(timer'[u]),
         \A r \in Requests : Call("Execute", r) # Call(f, id) /\ request[r].pc = "posted" =>
                               request'[r].pc = "posted",
         \A r \in Requests : Call("Execute", r) = Call(f, id) =>
           request[r].pc # "posted" /\ request'[r].pc = "posted"
  PROVE  QueueInv'
<1>1. /\ Len(queue) \in Nat /\ Len(queue') = Len(queue) + 1
      /\ queue'[Len(queue')] = Call(f, id)
      /\ \A i \in 1..Len(queue') : i # Len(queue') => i \in 1..Len(queue) /\ queue'[i] = queue[i]
  BY AppendQueue, Zenon
<1>2. ASSUME NEW t \in Timers, NEW i \in 1..Len(queue'), queue'[i] = Call("Start", t)
      PROVE  /\ t \in UserTimers /\ Waits(timer'[t])
             /\ \A j \in 1..Len(queue') : queue'[j] = Call("Start", t) => j = i
  <2>1. CASE Call("Start", t) = Call(f, id)
    BY <1>1, <1>2, <2>1 DEF QueueInv
  <2>2. CASE Call("Start", t) # Call(f, id)
    <3>1. i # Len(queue')  BY <1>1, <1>2, <2>2, Zenon
    <3> QED  BY <1>1, <1>2, <2>2, <3>1 DEF QueueInv
  <2> QED  BY <2>1, <2>2, Zenon
<1>3. ASSUME NEW r \in Requests, NEW i \in 1..Len(queue'), queue'[i] = Call("Execute", r)
      PROVE  /\ request'[r].pc = "posted"
             /\ \A j \in 1..Len(queue') : queue'[j] = Call("Execute", r) => j = i
  <2>1. CASE Call("Execute", r) = Call(f, id)
    BY <1>1, <1>3, <2>1 DEF QueueInv
  <2>2. CASE Call("Execute", r) # Call(f, id)
    <3>1. i # Len(queue')  BY <1>1, <1>3, <2>2, Zenon
    <3> QED  BY <1>1, <1>3, <2>2, <3>1 DEF QueueInv
  <2> QED  BY <2>1, <2>2, Zenon
<1> QED  BY <1>2, <1>3, Zenon DEF QueueInv

\* The timers that callbacks are open of stay fit for them.
KeepsCalls ==
  \A u \in Timers :
    /\ InFunctor(u, timer[u]) => InFunctor(u, timer'[u])
    /\ InCanceled(u, timer[u]) => InCanceled(u, timer'[u])

\* The stack stays as it is.
LEMMA StackFrame ==
  ASSUME StackInv, stack' = stack, KeepsCalls,
         \A u \in Timers : Told(timer'[u]) => Told(timer[u]),
         \A r \in Requests : request[r].pc = "executing" => request'[r].pc = "executing"
  PROVE  StackInv'
  BY Zenon DEF StackInv, KeepsCalls

\* A call is made when ExecuteInLoop is not the innermost one.
LEMMA StackPush ==
  ASSUME SeqInv, StackInv, NEW f, NEW id, stack' = <<Call(f, id)>> \o stack, KeepsCalls,
         \A r \in Requests, i \in 1..Len(stack) : stack[i] # Call("execute", r),
         \A u \in Timers : Told(timer'[u]) => Told(timer[u]) \/ Call("canceled", u) = Call(f, id),
         \A u \in Timers : Call("functor", u) = Call(f, id) =>
                              Len(stack) = 0 /\ InFunctor(u, timer'[u]),
         \A u \in Timers : Call("canceled", u) = Call(f, id) => InCanceled(u, timer'[u]),
         \A r \in Requests : Call("execute", r) = Call(f, id) => request'[r].pc = "executing"
  PROVE  StackInv'
<1>1. /\ Len(stack) \in Nat /\ Len(stack') = Len(stack) + 1 /\ stack'[1] = Call(f, id)
      /\ \A i \in 1..Len(stack') : i # 1 => i - 1 \in 1..Len(stack) /\ stack'[i] = stack[i - 1]
      /\ \A i \in 1..Len(stack) : i + 1 \in 1..Len(stack') /\ stack'[i + 1] = stack[i]
  BY PushStack, Zenon
<1>2. ASSUME NEW t \in Timers, NEW i \in 1..Len(stack')
      PROVE  /\ stack'[i] = Call("functor", t) => i = Len(stack') /\ InFunctor(t, timer'[t])
             /\ stack'[i] = Call("canceled", t) => InCanceled(t, timer'[t])
  <2>1. CASE i = 1  BY <1>1, <2>1
  <2>2. CASE i # 1
    <3>1. i - 1 \in 1..Len(stack) /\ stack'[i] = stack[i - 1]  BY <1>1, <2>2, Zenon
    <3>2. /\ stack[i - 1] = Call("functor", t) => i - 1 = Len(stack) /\ InFunctor(t, timer[t])
          /\ stack[i - 1] = Call("canceled", t) => InCanceled(t, timer[t])
      BY <3>1, Zenon DEF StackInv
    <3> QED  BY <1>1, <3>1, <3>2 DEF KeepsCalls
  <2> QED  BY <2>1, <2>2, Zenon
<1>3. ASSUME NEW t \in Timers, Told(timer'[t])
      PROVE  \E i \in 1..Len(stack') : stack'[i] = Call("canceled", t)
  <2>1. CASE Call("canceled", t) = Call(f, id)
    <3>1. 1 \in 1..Len(stack')  BY <1>1
    <3> QED  BY <1>1, <2>1, <3>1, Zenon
  <2>2. CASE Told(timer[t])
    <3>1. PICK i \in 1..Len(stack) : stack[i] = Call("canceled", t)  BY <2>2, Zenon DEF StackInv
    <3> QED  BY <1>1, <3>1
  <2> QED  BY <1>3, <2>1, <2>2, Zenon
<1>4. ASSUME NEW r \in Requests, NEW i \in 1..Len(stack'), stack'[i] = Call("execute", r)
      PROVE  i = 1 /\ request'[r].pc = "executing"
  BY <1>1, <1>4
<1> QED  BY <1>2, <1>3, <1>4, Zenon DEF StackInv

\* ExecuteInLoop or a handler is called.
LEMMA StackCall ==
  ASSUME SeqInv, StackInv, NEW f \in {"execute", "handler"}, NEW id,
         stack' = <<Call(f, id)>> \o stack, KeepsCalls,
         \A r \in Requests, i \in 1..Len(stack) : stack[i] # Call("execute", r),
         \A u \in Timers : Told(timer'[u]) => Told(timer[u]),
         \A r \in Requests : Call("execute", r) = Call(f, id) => request'[r].pc = "executing"
  PROVE  StackInv'
<1>1. \A u : Call("functor", u) # Call(f, id) /\ Call("canceled", u) # Call(f, id)  BY Zenon DEF Call
<1>2. \A u \in Timers : Told(timer'[u]) => Told(timer[u]) \/ Call("canceled", u) = Call(f, id)
  BY Zenon
<1> QED  BY <1>1, <1>2, StackPush, Zenon

\* The innermost call returns.
LEMMA StackPop ==
  ASSUME SeqInv, StackInv, NEW f, NEW id, At(f, id), stack' = Tail(stack),
         \A u \in Timers : Call("functor", u) # Call(f, id) /\ InFunctor(u, timer[u]) =>
                              InFunctor(u, timer'[u]),
         \A u \in Timers : InCanceled(u, timer[u]) => InCanceled(u, timer'[u]),
         \A u \in Timers : Told(timer'[u]) => Told(timer[u]) /\ Call("canceled", u) # Call(f, id)
  PROVE  StackInv'
<1>1. /\ Len(stack) \in Nat \ {0} /\ Len(stack') = Len(stack) - 1 /\ stack[1] = Call(f, id)
      /\ \A i \in 1..Len(stack') : i + 1 \in 1..Len(stack) /\ stack'[i] = stack[i + 1]
      /\ \A i \in 1..Len(stack) : i # 1 => i - 1 \in 1..Len(stack') /\ stack'[i - 1] = stack[i]
  BY PopStack, Zenon
<1>2. ASSUME NEW t \in Timers, NEW i \in 1..Len(stack')
      PROVE  /\ stack'[i] = Call("functor", t) => i = Len(stack') /\ InFunctor(t, timer'[t])
             /\ stack'[i] = Call("canceled", t) => InCanceled(t, timer'[t])
  <2>1. i + 1 \in 1..Len(stack) /\ stack'[i] = stack[i + 1]  BY <1>1, Zenon
  <2>2. /\ stack[i + 1] = Call("functor", t) => i + 1 = Len(stack) /\ InFunctor(t, timer[t])
        /\ stack[i + 1] = Call("canceled", t) => InCanceled(t, timer[t])
    BY <2>1, Zenon DEF StackInv
  <2>3. Call("functor", t) = Call(f, id) => Len(stack) = 1
    <3>1. 1 \in 1..Len(stack)  BY <1>1
    <3>2. stack[1] = Call("functor", t) => 1 = Len(stack)  BY <3>1, Zenon DEF StackInv
    <3>3. stack[1] = Call(f, id)  BY <1>1, Zenon
    <3> QED  BY <3>2, <3>3, Zenon
  <2>4. CASE Call("functor", t) = Call(f, id)
    <3>1. Len(stack) = 1  BY <2>3, <2>4, Zenon
    <3>2. i + 1 \in 1..1 /\ i \in 1..Len(stack')  BY <2>1, <3>1, Zenon
    <3> QED  BY <3>2
  <2>5. CASE Call("functor", t) # Call(f, id)
    <3>1. Len(stack) \in Nat /\ Len(stack') = Len(stack) - 1  BY <1>1, Zenon
    <3>2. i + 1 = Len(stack) => i = Len(stack')  BY <3>1
    <3> QED  BY <2>1, <2>2, <2>5, <3>2, Zenon
  <2> QED  BY <2>4, <2>5, Zenon
<1>3. ASSUME NEW t \in Timers, Told(timer'[t])
      PROVE  \E i \in 1..Len(stack') : stack'[i] = Call("canceled", t)
  <2>1. PICK i \in 1..Len(stack) : stack[i] = Call("canceled", t)  BY <1>3, Zenon DEF StackInv
  <2>2. i # 1  BY <1>1, <1>3, <2>1, Zenon
  <2> QED  BY <1>1, <2>1, <2>2
<1>4. ASSUME NEW r \in Requests, NEW i \in 1..Len(stack')
      PROVE  stack'[i] # Call("execute", r)
  <2>1. i + 1 \in 1..Len(stack) /\ stack'[i] = stack[i + 1] /\ i + 1 # 1  BY <1>1
  <2> QED  BY <2>1, Zenon DEF StackInv
<1> QED  BY <1>2, <1>3, <1>4, Zenon DEF StackInv

\* ExecuteInLoop or a handler returns.
LEMMA StackReturn ==
  ASSUME SeqInv, StackInv, NEW f \in {"execute", "handler"}, NEW id, At(f, id),
         stack' = Tail(stack), KeepsCalls, \A u \in Timers : Told(timer'[u]) => Told(timer[u])
  PROVE  StackInv'
<1>1. \A u : Call("functor", u) # Call(f, id) /\ Call("canceled", u) # Call(f, id)  BY Zenon DEF Call
<1>2. \A u \in Timers : InFunctor(u, timer[u]) => InFunctor(u, timer'[u])  BY Zenon DEF KeepsCalls
<1>3. \A u \in Timers : InCanceled(u, timer[u]) => InCanceled(u, timer'[u])  BY Zenon DEF KeepsCalls
<1>4. \A u \in Timers : Told(timer'[u]) => Told(timer[u]) /\ Call("canceled", u) # Call(f, id)
  BY <1>1, Zenon
<1> QED  BY <1>2, <1>3, <1>4, StackPop, Zenon

\* ExecuteInLoop is left for another call in its place.
LEMMA StackReplace ==
  ASSUME SeqInv, StackInv, NEW p \in Requests, At("execute", p), NEW f, NEW id,
         stack' = <<Call(f, id)>> \o Tail(stack), KeepsCalls, f \in {"execute", "handler"},
         \A u \in Timers : Told(timer'[u]) => Told(timer[u]),
         \A r \in Requests : Call("execute", r) = Call(f, id) => request'[r].pc = "executing"
  PROVE  IsASeq(stack') /\ StackInv'
<1>1. PICK S : stack \in Seq(S)  BY Zenon DEF SeqInv, IsASeq
<1>2. stack # << >> /\ Head(stack) = Call("execute", p)  BY Zenon DEF At
<1>3. Tail(stack) \in Seq(S \cup {Call(f, id)})  BY <1>1, <1>2
<1>4. stack' \in Seq(S \cup {Call(f, id)})
  <2>1. <<Call(f, id)>> \in Seq(S \cup {Call(f, id)})  OBVIOUS
  <2> QED  BY <1>3, <2>1
<1>5. Len(stack) \in Nat \ {0} /\ Len(stack') = Len(stack)  BY <1>1, <1>2
<1>6. stack'[1] = Call(f, id) /\ stack[1] = Call("execute", p)  BY <1>1, <1>2
<1>7. \A i \in 1..Len(stack) : i # 1 => stack'[i] = stack[i]  BY <1>1, <1>2, <1>5
<1>8. ASSUME NEW t \in Timers, NEW i \in 1..Len(stack')
      PROVE  /\ stack'[i] = Call("functor", t) => i = Len(stack') /\ InFunctor(t, timer'[t])
             /\ stack'[i] = Call("canceled", t) => InCanceled(t, timer'[t])
  <2>1. CASE i = 1
    <3>1. Call(f, id) # Call("functor", t) /\ Call(f, id) # Call("canceled", t)  BY Zenon DEF Call
    <3> QED  BY <1>6, <2>1, <3>1, Zenon
  <2>2. CASE i # 1  BY <1>5, <1>7, <2>2, Zenon DEF StackInv, KeepsCalls
  <2> QED  BY <2>1, <2>2, Zenon
<1>9. ASSUME NEW t \in Timers, Told(timer'[t])
      PROVE  \E i \in 1..Len(stack') : stack'[i] = Call("canceled", t)
  <2>1. PICK i \in 1..Len(stack) : stack[i] = Call("canceled", t)  BY <1>9, Zenon DEF StackInv
  <2>2. i # 1  BY <1>6, <2>1 DEF Call
  <2> QED  BY <1>5, <1>7, <2>1, <2>2, Zenon
<1>10. ASSUME NEW r \in Requests, NEW i \in 1..Len(stack'), stack'[i] = Call("execute", r)
       PROVE  i = 1 /\ request'[r].pc = "executing"
  <2>1. CASE i = 1  BY <1>6, <1>10, <2>1, Zenon
  <2>2. CASE i # 1  BY <1>5, <1>7, <1>10, <2>2, Zenon DEF StackInv
  <2> QED  BY <2>1, <2>2, Zenon
<1> QED  BY <1>4, <1>8, <1>9, <1>10, Zenon DEF StackInv, IsASeq

-----------------------------------------------------------------------------
(* The actions of the timers.                                              *)

\* InvokeTimer::Start: its functor is the only one, and the timer owns itself.
LEMMA StartKeeps ==
  ASSUME IInv, NEW t \in UserTimers, Start(t), UNCHANGED httpVars  PROVE IInv'
<1> DEFINE tm == [timer[t] EXCEPT !.started = TRUE]
<1>0. t \in Timers  BY TimerAssumption, Zenon
<1>1. TimerOK(t, timer[t])  BY <1>0, Zenon DEF IInv, TimerInv
<1>2. /\ timer[t].held /\ ~timer[t].started /\ Set(t, tm) /\ queue' = Append(queue, Call("Start", t))
      /\ stack' = stack /\ crashed' = crashed /\ request' = request /\ pool' = pool
      /\ retry_number' = retry_number
  BY Zenon DEF Start, httpVars
<1>3. TimerOK(t, tm) /\ Waits(tm) /\ ~Waits(timer[t]) /\ ~Told(tm)
  BY <1>1, <1>2, Zenon DEF TimerOK, TimerRec, Waits, Told
<1>4. /\ InFunctor(t, timer[t]) => InFunctor(t, tm)
      /\ InCanceled(t, timer[t]) => InCanceled(t, tm)
  BY <1>1, <1>2, Zenon DEF TimerOK, TimerRec, InFunctor, InCanceled
<1> HIDE DEF tm
<1>5. /\ timer' = [u \in Timers |-> timer'[u]] /\ \A u \in Timers : TimerOK(u, timer'[u])
      /\ timer'[t] = tm /\ \A u \in Timers \ {t} : timer'[u] = timer[u]
  BY <1>0, <1>2, <1>3, SetTimer, Zenon DEF IInv
<1>6. SeqInv'  BY <1>2, AppendQueue, Zenon DEF IInv, SeqInv
<1>7. TimerInv'  BY <1>2, <1>5, Zenon DEF IInv, TimerInv
<1>8. RequestInv'  BY <1>2, SameRequests, Zenon DEF IInv
<1>9. QueueInv'
  <2>1. \A u : (Call("Start", u) = Call("Start", t) <=> u = t) /\ Call("Execute", u) # Call("Start", t)
    BY Zenon DEF Call
  <2>2. \A u \in UserTimers : Call("Start", u) # Call("Start", t) /\ Waits(timer[u]) => Waits(timer'[u])
    BY <1>5, <2>1, TimerAssumption, Zenon
  <2> QED  BY <1>2, <1>3, <1>5, <2>1, <2>2, QueueAppend DEF IInv
<1>10. StackInv'  BY <1>2, <1>3, <1>4, <1>5, StackFrame, Zenon DEF IInv, KeepsCalls
<1> QED  BY <1>6, <1>7, <1>8, <1>9, <1>10, Zenon DEF IInv

\* InvokeTimer::Cancel queues a functor.
LEMMA CancelKeeps ==
  ASSUME IInv, NEW t \in UserTimers, Cancel(t), UNCHANGED httpVars  PROVE IInv'
<1> DEFINE tm == [timer[t] EXCEPT !.cancels = @ + 1]
<1>0. t \in Timers  BY TimerAssumption, Zenon
<1>1. TimerOK(t, timer[t])  BY <1>0, Zenon DEF IInv, TimerInv
<1>2. /\ timer[t].cancels < MaxCancels /\ Set(t, tm) /\ queue' = Append(queue, Call("Cancel", t))
      /\ stack' = stack /\ crashed' = crashed /\ request' = request /\ pool' = pool
      /\ retry_number' = retry_number
  BY Zenon DEF Cancel, httpVars
<1>3. TimerOK(t, tm) /\ (Waits(timer[t]) => Waits(tm)) /\ (Told(tm) => Told(timer[t]))
  BY <1>1, <1>2, TimerAssumption DEF TimerOK, TimerRec, Waits, Told
<1>4. /\ InFunctor(t, timer[t]) => InFunctor(t, tm)
      /\ InCanceled(t, timer[t]) => InCanceled(t, tm)
  BY <1>1, Zenon DEF TimerOK, TimerRec, InFunctor, InCanceled
<1> HIDE DEF tm
<1>5. /\ timer' = [u \in Timers |-> timer'[u]] /\ \A u \in Timers : TimerOK(u, timer'[u])
      /\ timer'[t] = tm /\ \A u \in Timers \ {t} : timer'[u] = timer[u]
  BY <1>0, <1>2, <1>3, SetTimer, Zenon DEF IInv
<1>6. SeqInv'  BY <1>2, AppendQueue, Zenon DEF IInv, SeqInv
<1>7. TimerInv'  BY <1>2, <1>5, Zenon DEF IInv, TimerInv
<1>8. RequestInv'  BY <1>2, SameRequests, Zenon DEF IInv
<1>9. QueueInv'
  <2>1. \A u : Call("Start", u) # Call("Cancel", t) /\ Call("Execute", u) # Call("Cancel", t)
    BY Zenon DEF Call
  <2>2. \A u \in UserTimers : Waits(timer[u]) => Waits(timer'[u])
    BY <1>3, <1>5, TimerAssumption, Zenon
  <2> QED  BY <1>2, <2>1, <2>2, QueueAppend, Zenon DEF IInv
<1>10. StackInv'  BY <1>2, <1>3, <1>4, <1>5, StackFrame, Zenon DEF IInv, KeepsCalls
<1> QED  BY <1>6, <1>7, <1>8, <1>9, <1>10, Zenon DEF IInv

\* The user lets go of a timer that was started, which owns itself until it is released.
LEMMA DropKeeps ==
  ASSUME IInv, NEW t \in UserTimers, Drop(t), UNCHANGED httpVars  PROVE IInv'
<1> DEFINE tm == [timer[t] EXCEPT !.held = FALSE]
<1>0. t \in Timers  BY TimerAssumption, Zenon
<1>1. TimerOK(t, timer[t])  BY <1>0, Zenon DEF IInv, TimerInv
<1>2. /\ Set(t, tm) /\ queue' = queue /\ stack' = stack /\ crashed' = crashed
      /\ request' = request /\ pool' = pool /\ retry_number' = retry_number
  BY Zenon DEF Drop, httpVars
<1>3. TimerOK(t, tm) /\ (Waits(timer[t]) => Waits(tm)) /\ (Told(tm) => Told(timer[t]))
  BY <1>1, Zenon DEF TimerOK, TimerRec, Waits, Told
<1>4. /\ InFunctor(t, timer[t]) => InFunctor(t, tm)
      /\ InCanceled(t, timer[t]) => InCanceled(t, tm)
  BY <1>1, Zenon DEF TimerOK, TimerRec, InFunctor, InCanceled
<1> HIDE DEF tm
<1>5. /\ timer' = [u \in Timers |-> timer'[u]] /\ \A u \in Timers : TimerOK(u, timer'[u])
      /\ timer'[t] = tm /\ \A u \in Timers \ {t} : timer'[u] = timer[u]
  BY <1>0, <1>2, <1>3, SetTimer, Zenon DEF IInv
<1>6. SeqInv'  BY <1>2, Zenon DEF IInv, SeqInv
<1>7. TimerInv'  BY <1>2, <1>5, Zenon DEF IInv, TimerInv
<1>8. RequestInv'  BY <1>2, SameRequests, Zenon DEF IInv
<1>9. QueueInv'
  <2>1. \A u \in UserTimers : Waits(timer[u]) => Waits(timer'[u])  BY <1>3, <1>5, TimerAssumption, Zenon
  <2> QED  BY <1>2, <2>1, QueueFrame, Zenon DEF IInv
<1>10. StackInv'  BY <1>2, <1>3, <1>4, <1>5, StackFrame, Zenon DEF IInv, KeepsCalls
<1> QED  BY <1>6, <1>7, <1>8, <1>9, <1>10, Zenon DEF IInv

\* The functor of Cancel, in the loop or in place in a callback.
LEMMA CancelInLoopKeeps ==
  ASSUME IInv, NEW t \in Timers, NEW tm, TimerOK(t, tm), CancelInLoop(t, tm),
         \/ tm = timer[t]
         \/ tm = [timer[t] EXCEPT !.cancels = @ + 1],
         \A r \in Requests, i \in 1..Len(stack) : stack[i] # Call("execute", r),
         crashed' = crashed, UNCHANGED httpVars
  PROVE  /\ TimerInv' /\ RequestInv' /\ StackInv' /\ IsASeq(stack')
         /\ \A u \in UserTimers : Waits(timer[u]) => Waits(timer'[u])
<1>1. TimerOK(t, timer[t])  BY Zenon DEF IInv, TimerInv
<1>2. /\ tm.watcher = timer[t].watcher /\ tm.self = timer[t].self /\ tm.started = timer[t].started
      /\ tm.fired = timer[t].fired /\ tm.told = timer[t].told
      /\ tm.cancelled = timer[t].cancelled /\ tm.periodic = timer[t].periodic
  BY <1>1, Zenon DEF TimerOK, TimerRec
<1>3. request' = request /\ retry_number' = retry_number  BY Zenon DEF httpVars
<1>4. RequestInv'  BY <1>3, SameRequests, Zenon DEF IInv
<1>5. CASE tm.watcher = "null"
  <2>1. tm = [tm EXCEPT !.cancelled = @ \/ tm.watcher # "null"]  BY <1>5, Zenon DEF TimerOK, TimerRec
  <2>2. Set(t, tm) /\ stack' = stack  BY <1>5, <2>1, Zenon DEF CancelInLoop
  <2>3. /\ InFunctor(t, timer[t]) => InFunctor(t, tm)
        /\ InCanceled(t, timer[t]) => InCanceled(t, tm)
        /\ (Waits(timer[t]) => Waits(tm)) /\ (Told(tm) => Told(timer[t]))
    BY <1>2, Zenon DEF InFunctor, InCanceled, Waits, Told
  <2>4. /\ timer' = [u \in Timers |-> timer'[u]] /\ \A u \in Timers : TimerOK(u, timer'[u])
        /\ timer'[t] = tm /\ \A u \in Timers \ {t} : timer'[u] = timer[u]
    BY <2>2, SetTimer, Zenon DEF IInv
  <2>5. TimerInv'  BY <2>4, Zenon DEF IInv, TimerInv
  <2>6. StackInv'  BY <1>3, <2>2, <2>3, <2>4, StackFrame, Zenon DEF IInv, KeepsCalls
  <2>7. IsASeq(stack')  BY <2>2, Zenon DEF IInv, SeqInv
  <2>8. \A u \in UserTimers : Waits(timer[u]) => Waits(timer'[u])  BY <2>3, <2>4, TimerAssumption, Zenon
  <2> QED  BY <1>4, <2>5, <2>6, <2>7, <2>8, Zenon
<1>6. CASE tm.watcher # "null"
  <2> DEFINE c == [tm EXCEPT !.cancelled = @ \/ tm.watcher # "null"]
             td == [FreeEvent(c) EXCEPT !.periodic = FALSE, !.told = @ + 1]
  <2>1. Alive(t)  BY <1>1, <1>2, <1>6, Zenon DEF Alive, TimerOK
  <2>2. Set(t, td) /\ stack' = <<Call("canceled", t)>> \o stack
    BY <1>6, <2>1, Zenon DEF CancelInLoop
  <2>3. td = [tm EXCEPT !.cancelled = TRUE, !.watcher = "idle", !.periodic = FALSE, !.told = @ + 1]
    BY <1>6, Zenon DEF FreeEvent, TimerOK, TimerRec
  <2> HIDE DEF td
  <2>4. TimerOK(t, td) /\ InCanceled(t, td) /\ ~Waits(timer[t])
    <3>1. tm \in TimerRec /\ tm.self /\ tm.started /\ (tm.held => t \in UserTimers)
      BY <1>6, Zenon DEF TimerOK
    <3>2. /\ td \in TimerRec /\ td.self /\ td.started /\ (td.held => t \in UserTimers)
          /\ td.cancelled /\ td.watcher = "idle" /\ ~td.periodic
      <4>1. tm.told + 1 \in Nat  BY <3>1 DEF TimerRec
      <4>2. td \in TimerRec  BY <2>3, <3>1, <4>1, Zenon DEF TimerRec
      <4>3. /\ td.self = tm.self /\ td.started = tm.started /\ td.held = tm.held
            /\ td.cancelled = TRUE /\ td.watcher = "idle" /\ td.periodic = FALSE
        BY <2>3, <3>1, Zenon DEF TimerRec
      <4> QED  BY <3>1, <4>2, <4>3, Zenon
    <3>3. TimerOK(t, td) /\ InCanceled(t, td)  BY <3>2, Zenon DEF TimerOK, InCanceled
    <3>4. ~Waits(timer[t])  BY <1>2, <1>6, Zenon DEF Waits
    <3> QED  BY <3>3, <3>4, Zenon
  <2>5. InFunctor(t, timer[t]) => InFunctor(t, td)
    BY <1>2, <2>3, Zenon DEF InFunctor, TimerOK, TimerRec
  <2>6. /\ timer' = [u \in Timers |-> timer'[u]] /\ \A u \in Timers : TimerOK(u, timer'[u])
        /\ timer'[t] = td /\ \A u \in Timers \ {t} : timer'[u] = timer[u]
    BY <2>2, <2>4, SetTimer, Zenon DEF IInv
  <2>7. TimerInv'  BY <2>6, Zenon DEF IInv, TimerInv
  <2>8. IsASeq(stack')  BY <2>2, PushStack, Zenon DEF IInv
  <2>9. \A u \in UserTimers : Waits(timer[u]) => Waits(timer'[u])  BY <2>4, <2>6, TimerAssumption, Zenon
  <2>10. KeepsCalls  BY <2>4, <2>5, <2>6, Zenon DEF KeepsCalls
  <2>11. \A u : /\ Call("canceled", u) = Call("canceled", t) <=> u = t
                /\ Call("functor", u) # Call("canceled", t)
                /\ Call("execute", u) # Call("canceled", t)
    BY Zenon DEF Call
  <2>12. \A u \in Timers : Told(timer'[u]) => Told(timer[u]) \/ Call("canceled", u) = Call("canceled", t)
    BY <2>6, <2>11, Zenon
  <2>13. \A u \in Timers : Call("canceled", u) = Call("canceled", t) => InCanceled(u, timer'[u])
    BY <2>4, <2>6, <2>11, Zenon
  <2>14. StackInv'  BY <2>2, <2>10, <2>11, <2>12, <2>13, StackPush DEF IInv
  <2> QED  BY <1>4, <2>7, <2>8, <2>9, <2>14, Zenon
<1> QED  BY <1>5, <1>6, Zenon

\* The functor of Cancel runs, with no call open.
LEMMA RunCancelKeeps ==
  ASSUME IInv, NEW t \in Timers, RunCancel(t), UNCHANGED httpVars  PROVE IInv'
<1>1. /\ Pending("Cancel", t) /\ queue' = Tail(queue) /\ CancelInLoop(t, timer[t])
      /\ crashed' = crashed /\ pool' = pool /\ request' = request
  BY Zenon DEF RunCancel, httpVars
<1>2. Len(stack) = 0 /\ IsASeq(queue')  BY <1>1, PopQueue, Zenon DEF IInv
<1>3. \A r \in Requests, i \in 1..Len(stack) : stack[i] # Call("execute", r)  BY <1>2
<1>4. TimerOK(t, timer[t])  BY Zenon DEF IInv, TimerInv
<1>5. /\ TimerInv' /\ RequestInv' /\ StackInv' /\ IsASeq(stack')
      /\ \A u \in UserTimers : Waits(timer[u]) => Waits(timer'[u])
  BY <1>1, <1>3, <1>4, CancelInLoopKeeps, Zenon
<1>6. SeqInv'  BY <1>1, <1>2, <1>5, Zenon DEF IInv, SeqInv
<1>7. QueueInv'  BY <1>1, <1>5, QueueTail, Zenon DEF IInv
<1> QED  BY <1>5, <1>6, <1>7, Zenon DEF IInv

\* In a callback of t, ExecuteInLoop is not open.
LEMMA NoExecute ==
  ASSUME IInv, NEW f, NEW id, At(f, id), f # "execute"
  PROVE  \A r \in Requests, i \in 1..Len(stack) : stack[i] # Call("execute", r)
<1>1. stack[1] = Call(f, id)  BY AtHead, Zenon DEF IInv
<1>2. \A r : Call("execute", r) # Call(f, id)  BY Zenon DEF Call
<1> QED  BY <1>1, <1>2, Zenon DEF IInv, StackInv

\* The user cancels in a callback of the timer.
LEMMA CancelInCallbackKeeps ==
  ASSUME IInv, NEW t \in UserTimers, CancelInCallback(t), UNCHANGED httpVars  PROVE IInv'
<1> DEFINE tm == [timer[t] EXCEPT !.cancels = @ + 1]
<1>0. t \in Timers  BY TimerAssumption, Zenon
<1>1. /\ At("functor", t) \/ At("canceled", t)
      /\ timer[t].cancels < MaxCancels /\ CancelInLoop(t, tm)
      /\ crashed' = crashed /\ pool' = pool /\ request' = request /\ queue' = queue
  BY Zenon DEF CancelInCallback, httpVars
<1>2. \A r \in Requests, i \in 1..Len(stack) : stack[i] # Call("execute", r)
  BY <1>1, NoExecute, Zenon
<1>3. TimerOK(t, timer[t])  BY <1>0, Zenon DEF IInv, TimerInv
<1>4. TimerOK(t, tm)  BY <1>1, <1>3, TimerAssumption DEF TimerOK, TimerRec
<1>5. /\ TimerInv' /\ RequestInv' /\ StackInv' /\ IsASeq(stack')
      /\ \A u \in UserTimers : Waits(timer[u]) => Waits(timer'[u])
  BY <1>0, <1>1, <1>2, <1>4, CancelInLoopKeeps, Zenon
<1>6. SeqInv'  BY <1>1, <1>5, Zenon DEF IInv, SeqInv
<1>7. QueueInv'  BY <1>1, <1>5, QueueFrame, Zenon DEF IInv
<1> QED  BY <1>5, <1>6, <1>7, Zenon DEF IInv

\* The functor of Start finds the timer alive and makes its event pending.
LEMMA RunStartKeeps ==
  ASSUME IInv, NEW t \in Timers, RunStart(t), UNCHANGED httpVars  PROVE IInv'
<1> DEFINE tm == [timer[t] EXCEPT !.watcher = "armed"]
<1>1. /\ Pending("Start", t) /\ queue' = Tail(queue) /\ stack' = stack /\ pool' = pool
      /\ request' = request /\ retry_number' = retry_number
  BY Zenon DEF RunStart, httpVars
<1>2. 1 \in 1..Len(queue) /\ queue[1] = Call("Start", t) /\ IsASeq(queue')
  BY <1>1, PopQueue, Zenon DEF IInv
<1>3. Waits(timer[t])  BY <1>2, Zenon DEF IInv, QueueInv
<1>4. Set(t, tm) /\ crashed' = crashed  BY <1>3, Zenon DEF RunStart, Alive, Waits, Watch
<1>5. TimerOK(t, timer[t])  BY Zenon DEF IInv, TimerInv
<1>6. /\ tm \in TimerRec /\ tm.watcher = "armed" /\ tm.self = timer[t].self /\ tm.held = timer[t].held
      /\ tm.started = timer[t].started /\ tm.fired = timer[t].fired /\ tm.told = timer[t].told
      /\ tm.cancelled = timer[t].cancelled /\ tm.periodic = timer[t].periodic
      /\ tm.every = timer[t].every
  BY <1>5, Zenon DEF TimerOK, TimerRec
<1> HIDE DEF tm
<1>7. TimerOK(t, tm) /\ ~Told(tm)  BY <1>3, <1>5, <1>6, Zenon DEF TimerOK, Waits, Told
<1>8. /\ InFunctor(t, timer[t]) => InFunctor(t, tm)
      /\ InCanceled(t, timer[t]) => InCanceled(t, tm)
  BY <1>6, Zenon DEF InFunctor, InCanceled
<1>9. /\ timer' = [u \in Timers |-> timer'[u]] /\ \A u \in Timers : TimerOK(u, timer'[u])
      /\ timer'[t] = tm /\ \A u \in Timers \ {t} : timer'[u] = timer[u]
  BY <1>4, <1>7, SetTimer, Zenon DEF IInv
<1>10. SeqInv'  BY <1>1, <1>2, Zenon DEF IInv, SeqInv
<1>11. TimerInv'  BY <1>4, <1>9, Zenon DEF IInv, TimerInv
<1>12. RequestInv'  BY <1>1, SameRequests, Zenon DEF IInv
<1>13. QueueInv'
  <2>1. \A u : Call("Start", u) = Call("Start", t) <=> u = t  BY Zenon DEF Call
  <2>2. \A u \in UserTimers : Call("Start", u) # Call("Start", t) /\ Waits(timer[u]) => Waits(timer'[u])
    BY <1>9, <2>1, TimerAssumption, Zenon
  <2> QED  BY <1>1, <2>2, QueueTail, Zenon DEF IInv
<1>14. StackInv'  BY <1>1, <1>7, <1>8, <1>9, StackFrame, Zenon DEF IInv, KeepsCalls
<1> QED  BY <1>10, <1>11, <1>12, <1>13, <1>14, Zenon DEF IInv

\* The event fires, with no call open, and functor_ is called.
LEMMA OnTimerTriggeredKeeps ==
  ASSUME IInv, NEW t \in Timers, OnTimerTriggered(t), UNCHANGED httpVars  PROVE IInv'
<1> DEFINE n == IF timer[t].fired < 2 THEN timer[t].fired + 1 ELSE timer[t].fired
           tm == [timer[t] EXCEPT !.watcher = "idle", !.fired = n]
<1>1. /\ stack = << >> /\ timer[t].watcher = "armed" /\ queue' = queue /\ crashed' = crashed
      /\ stack' = <<Call("functor", t)>> /\ pool' = pool /\ Set(t, tm)
      /\ request' = request /\ retry_number' = retry_number
  BY Zenon DEF OnTimerTriggered, Idle, httpVars
<1>2. TimerOK(t, timer[t])  BY Zenon DEF IInv, TimerInv
<1>3. n \in 0..2 /\ n > 0  BY <1>2 DEF TimerOK, TimerRec
<1> HIDE DEF n
<1>4. /\ tm \in TimerRec /\ tm.watcher = "idle" /\ tm.self = timer[t].self /\ tm.held = timer[t].held
      /\ tm.started = timer[t].started /\ tm.fired = n /\ tm.told = timer[t].told
      /\ tm.cancelled = timer[t].cancelled /\ tm.periodic = timer[t].periodic
      /\ tm.every = timer[t].every
  BY <1>2, <1>3, Zenon DEF TimerOK, TimerRec
<1> HIDE DEF tm
<1>5. TimerOK(t, tm)  BY <1>1, <1>2, <1>4, Zenon DEF TimerOK
<1>6. /\ Told(tm) => Told(timer[t])
      /\ ~Waits(timer[t]) /\ InFunctor(t, tm)
      /\ InCanceled(t, timer[t]) => InCanceled(t, tm)
  BY <1>1, <1>2, <1>3, <1>4, Zenon DEF TimerOK, Told, Waits, InFunctor, InCanceled
<1>7. /\ timer' = [u \in Timers |-> timer'[u]] /\ \A u \in Timers : TimerOK(u, timer'[u])
      /\ timer'[t] = tm /\ \A u \in Timers \ {t} : timer'[u] = timer[u]
  BY <1>1, <1>5, SetTimer, Zenon DEF IInv
<1>8. stack' = <<Call("functor", t)>> \o stack /\ Len(stack) = 0
  BY <1>1, FirstOnStack, EmptySeq, Zenon
<1>9. SeqInv'  BY <1>1, <1>8, PushStack, Zenon DEF IInv, SeqInv
<1>10. TimerInv'  BY <1>1, <1>7, Zenon DEF IInv, TimerInv
<1>11. RequestInv'  BY <1>1, SameRequests, Zenon DEF IInv
<1>12. QueueInv'
  <2>1. \A u \in UserTimers : Waits(timer[u]) => Waits(timer'[u])  BY <1>6, <1>7, TimerAssumption, Zenon
  <2> QED  BY <1>1, <2>1, QueueFrame, Zenon DEF IInv
<1>13. StackInv'
  <2>1. \A u : /\ Call("functor", u) = Call("functor", t) <=> u = t
               /\ Call("canceled", u) # Call("functor", t)
               /\ Call("execute", u) # Call("functor", t)
    BY Zenon DEF Call
  <2>2. \A r \in Requests, i \in 1..Len(stack) : stack[i] # Call("execute", r)  BY <1>8
  <2>3. KeepsCalls /\ \A u \in Timers : Told(timer'[u]) => Told(timer[u])
    BY <1>6, <1>7, Zenon DEF KeepsCalls
  <2>4. \A u \in Timers : Call("functor", u) = Call("functor", t) =>
                            Len(stack) = 0 /\ InFunctor(u, timer'[u])
    BY <1>6, <1>7, <1>8, <2>1, Zenon
  <2> QED  BY <1>8, <2>1, <2>2, <2>3, <2>4, StackPush DEF IInv
<1> QED  BY <1>9, <1>10, <1>11, <1>12, <1>13, Zenon DEF IInv

\* functor_ returns: a timer that is still periodic has its event and waits again.
LEMMA FunctorReturnsKeeps ==
  ASSUME IInv, NEW t \in Timers, FunctorReturns(t), UNCHANGED httpVars  PROVE IInv'
<1> DEFINE tm == IF timer[t].periodic THEN [timer[t] EXCEPT !.watcher = "armed"]
                 ELSE [timer[t] EXCEPT !.watcher = "null", !.self = FALSE]
<1>1. /\ At("functor", t) /\ stack' = Tail(stack) /\ queue' = queue /\ Set(t, tm)
      /\ crashed' = (IF timer[t].periodic THEN timer[t].watcher = "null" ELSE crashed)
      /\ pool' = pool /\ request' = request /\ retry_number' = retry_number
  BY Zenon DEF FunctorReturns, httpVars, Watch, Release
<1>2. TimerOK(t, timer[t])  BY Zenon DEF IInv, TimerInv
<1>3. InFunctor(t, timer[t])
  <2>1. Len(stack) \in Nat \ {0} /\ stack[1] = Call("functor", t)  BY <1>1, AtHead, Zenon DEF IInv
  <2>2. 1 \in 1..Len(stack)  BY <2>1
  <2> QED  BY <2>1, <2>2, Zenon DEF IInv, StackInv
<1>4. crashed' = FALSE  BY <1>1, <1>3, Zenon DEF InFunctor, IInv, TimerInv
<1>5. /\ tm \in TimerRec /\ tm.held = timer[t].held
      /\ tm.started = timer[t].started /\ tm.fired = timer[t].fired /\ tm.told = timer[t].told
      /\ tm.cancelled = timer[t].cancelled /\ tm.periodic = timer[t].periodic
      /\ tm.every = timer[t].every
      /\ timer[t].periodic => tm.watcher = "armed" /\ tm.self = timer[t].self
      /\ ~timer[t].periodic => tm.watcher = "null" /\ ~tm.self
  BY <1>2, Zenon DEF TimerOK, TimerRec
<1> HIDE DEF tm
<1>6. TimerOK(t, tm)  BY <1>2, <1>3, <1>5, Zenon DEF TimerOK, InFunctor
<1>7. /\ ~Told(tm)
      /\ t \in UserTimers => ~Waits(timer[t])
      /\ InCanceled(t, timer[t]) => InCanceled(t, tm)
  BY <1>2, <1>3, <1>5, Zenon DEF TimerOK, Told, Waits, InFunctor, InCanceled
<1>8. /\ timer' = [u \in Timers |-> timer'[u]] /\ \A u \in Timers : TimerOK(u, timer'[u])
      /\ timer'[t] = tm /\ \A u \in Timers \ {t} : timer'[u] = timer[u]
  BY <1>1, <1>6, SetTimer, Zenon DEF IInv
<1>9. SeqInv'  BY <1>1, PopStack, Zenon DEF IInv, SeqInv
<1>10. TimerInv'  BY <1>4, <1>8, Zenon DEF TimerInv
<1>11. RequestInv'  BY <1>1, SameRequests, Zenon DEF IInv
<1>12. QueueInv'
  <2>1. \A u \in UserTimers : Waits(timer[u]) => Waits(timer'[u])  BY <1>7, <1>8, TimerAssumption, Zenon
  <2> QED  BY <1>1, <2>1, QueueFrame, Zenon DEF IInv
<1>13. StackInv'
  <2>1. \A u : /\ Call("functor", u) = Call("functor", t) <=> u = t
               /\ Call("canceled", u) # Call("functor", t)
    BY Zenon DEF Call
  <2>2. \A u \in Timers : Call("functor", u) # Call("functor", t) /\ InFunctor(u, timer[u]) =>
                            InFunctor(u, timer'[u])
    BY <1>8, <2>1, Zenon
  <2>3. \A u \in Timers : /\ InCanceled(u, timer[u]) => InCanceled(u, timer'[u])
                          /\ Told(timer'[u]) => Told(timer[u])
    BY <1>7, <1>8, Zenon
  <2> QED  BY <1>1, <2>1, <2>2, <2>3, StackPop, Zenon DEF IInv
<1> QED  BY <1>9, <1>10, <1>11, <1>12, <1>13, Zenon DEF IInv

\* cancel_callback_ returns and the timer is released.
LEMMA CanceledReturnsKeeps ==
  ASSUME IInv, NEW t \in Timers, CanceledReturns(t), UNCHANGED httpVars  PROVE IInv'
<1> DEFINE tm == [timer[t] EXCEPT !.watcher = "null", !.self = FALSE]
<1>1. /\ At("canceled", t) /\ stack' = Tail(stack) /\ queue' = queue /\ Set(t, tm)
      /\ crashed' = crashed /\ pool' = pool /\ request' = request /\ retry_number' = retry_number
  BY Zenon DEF CanceledReturns, httpVars, Release
<1>2. TimerOK(t, timer[t])  BY Zenon DEF IInv, TimerInv
<1>3. InCanceled(t, timer[t])
  <2>1. Len(stack) \in Nat \ {0} /\ stack[1] = Call("canceled", t)  BY <1>1, AtHead, Zenon DEF IInv
  <2>2. 1 \in 1..Len(stack)  BY <2>1
  <2> QED  BY <2>1, <2>2, Zenon DEF IInv, StackInv
<1>4. /\ tm \in TimerRec /\ tm.watcher = "null" /\ ~tm.self /\ tm.held = timer[t].held
      /\ tm.started = timer[t].started /\ tm.fired = timer[t].fired /\ tm.told = timer[t].told
      /\ tm.cancelled = timer[t].cancelled /\ tm.periodic = timer[t].periodic
      /\ tm.every = timer[t].every
  BY <1>2, Zenon DEF TimerOK, TimerRec
<1> HIDE DEF tm
<1>5. TimerOK(t, tm)  BY <1>2, <1>3, <1>4, Zenon DEF TimerOK, InCanceled
<1>6. /\ ~Told(tm)
      /\ t \in UserTimers => ~Waits(timer[t])
      /\ InFunctor(t, timer[t]) => InFunctor(t, tm)
      /\ InCanceled(t, tm)
  BY <1>2, <1>3, <1>4, Zenon DEF TimerOK, Told, Waits, InFunctor, InCanceled
<1>7. /\ timer' = [u \in Timers |-> timer'[u]] /\ \A u \in Timers : TimerOK(u, timer'[u])
      /\ timer'[t] = tm /\ \A u \in Timers \ {t} : timer'[u] = timer[u]
  BY <1>1, <1>5, SetTimer, Zenon DEF IInv
<1>8. SeqInv'  BY <1>1, PopStack, Zenon DEF IInv, SeqInv
<1>9. TimerInv'  BY <1>1, <1>7, Zenon DEF IInv, TimerInv
<1>10. RequestInv'  BY <1>1, SameRequests, Zenon DEF IInv
<1>11. QueueInv'
  <2>1. \A u \in UserTimers : Waits(timer[u]) => Waits(timer'[u])  BY <1>6, <1>7, TimerAssumption, Zenon
  <2> QED  BY <1>1, <2>1, QueueFrame, Zenon DEF IInv
<1>12. StackInv'
  <2>1. \A u : Call("canceled", u) = Call("canceled", t) <=> u = t  BY Zenon DEF Call
  <2>2. \A u \in Timers : /\ InFunctor(u, timer[u]) => InFunctor(u, timer'[u])
                          /\ InCanceled(u, timer[u]) => InCanceled(u, timer'[u])
                          /\ Told(timer'[u]) => Told(timer[u]) /\ u # t
    BY <1>6, <1>7, Zenon
  <2> QED  BY <1>1, <2>1, <2>2, StackPop, Zenon DEF IInv
<1> QED  BY <1>8, <1>9, <1>10, <1>11, <1>12, Zenon DEF IInv

-----------------------------------------------------------------------------
(* The actions of the requests and of the pool.                            *)

\* An assignment to one request.
LEMMA SetRequest ==
  ASSUME RequestInv, NEW r \in Requests, NEW q, RequestOK(q),
         request' = [request EXCEPT ![r] = q], retry_number' = retry_number
  PROVE  /\ RequestInv' /\ request'[r] = q
         /\ \A s \in Requests \ {r} : request'[s] = request[s]
<1>1. request' = [s \in Requests |-> IF s = r THEN q ELSE request[s]]  BY Zenon DEF RequestInv
<1>2. request'[r] = q /\ \A s \in Requests \ {r} : request'[s] = request[s]  BY <1>1, Zenon
<1>3. \A s \in Requests : RequestOK(request'[s])  BY <1>2, Zenon DEF RequestInv
<1>4. RequestInv'  BY <1>1, <1>3, Zenon DEF RequestInv, RequestOK, Counted
<1> QED  BY <1>2, <1>4, Zenon

\* The fields of a request that an assignment changes and leaves alone.
LEMMA SetPc ==
  ASSUME NEW p, IsRequest(p),
         NEW x \in {"absent", "new", "posted", "executing", "sent", "retrying", "done"},
         NEW q, q = [p EXCEPT !.pc = x]
  PROVE  /\ IsRequest(q) /\ q.pc = x /\ q.retried = p.retried /\ q.executed = p.executed
         /\ q.handled = p.handled /\ q.ok = p.ok
<1>1. PICK C : p \in RequestRec(C)  BY Zenon DEF IsRequest
<1>2. q \in RequestRec(C)  BY <1>1, Zenon DEF RequestRec
<1>3. q.pc = x /\ q.retried = p.retried /\ q.executed = p.executed  BY <1>1, Zenon DEF RequestRec
<1>4. q.handled = p.handled /\ q.ok = p.ok  BY <1>1, Zenon DEF RequestRec
<1> QED  BY <1>2, <1>3, <1>4, Zenon DEF IsRequest

\* The same for conn_.
LEMMA SetConn ==
  ASSUME NEW p, IsRequest(p), NEW c, NEW q, q = [p EXCEPT !.conn = c]
  PROVE  /\ IsRequest(q) /\ q.pc = p.pc /\ q.retried = p.retried /\ q.executed = p.executed
         /\ q.handled = p.handled /\ q.ok = p.ok
<1>1. PICK C : p \in RequestRec(C)  BY Zenon DEF IsRequest
<1>2. p \in RequestRec(C \cup {c})  BY <1>1, Zenon DEF RequestRec
<1>3. q \in RequestRec(C \cup {c})  BY <1>2, Zenon DEF RequestRec
<1>4. q.pc = p.pc /\ q.retried = p.retried /\ q.executed = p.executed  BY <1>1, Zenon DEF RequestRec
<1>5. q.handled = p.handled /\ q.ok = p.ok  BY <1>1, Zenon DEF RequestRec
<1> QED  BY <1>3, <1>4, <1>5, Zenon DEF IsRequest

\* The same for the tries.
LEMMA SetExecuted ==
  ASSUME NEW p, IsRequest(p), NEW n \in Nat, NEW q, q = [p EXCEPT !.executed = n]
  PROVE  /\ IsRequest(q) /\ q.pc = p.pc /\ q.retried = p.retried /\ q.executed = n
         /\ q.handled = p.handled /\ q.ok = p.ok
<1>1. PICK C : p \in RequestRec(C)  BY Zenon DEF IsRequest
<1>2. q \in RequestRec(C)  BY <1>1, Zenon DEF RequestRec
<1>3. q.pc = p.pc /\ q.retried = p.retried /\ q.executed = n  BY <1>1, Zenon DEF RequestRec
<1>4. q.handled = p.handled /\ q.ok = p.ok  BY <1>1, Zenon DEF RequestRec
<1> QED  BY <1>2, <1>3, <1>4, Zenon DEF IsRequest

\* The same for retried_.
LEMMA SetRetried ==
  ASSUME NEW p, IsRequest(p), NEW k \in Nat, NEW q, q = [p EXCEPT !.retried = k]
  PROVE  /\ IsRequest(q) /\ q.pc = p.pc /\ q.retried = k /\ q.executed = p.executed
         /\ q.handled = p.handled /\ q.ok = p.ok
<1>1. PICK C : p \in RequestRec(C)  BY Zenon DEF IsRequest
<1>2. q \in RequestRec(C)  BY <1>1, Zenon DEF RequestRec
<1>3. q.pc = p.pc /\ q.retried = k /\ q.executed = p.executed  BY <1>1, Zenon DEF RequestRec
<1>4. q.handled = p.handled /\ q.ok = p.ok  BY <1>1, Zenon DEF RequestRec
<1> QED  BY <1>2, <1>3, <1>4, Zenon DEF IsRequest

\* The same for the answer.
LEMMA SetOk ==
  ASSUME NEW p, IsRequest(p), NEW ok \in BOOLEAN, NEW q, q = [p EXCEPT !.ok = ok]
  PROVE  /\ IsRequest(q) /\ q.pc = p.pc /\ q.retried = p.retried /\ q.executed = p.executed
         /\ q.handled = p.handled /\ q.ok = ok
<1>1. PICK C : p \in RequestRec(C)  BY Zenon DEF IsRequest
<1>2. q \in RequestRec(C)  BY <1>1, Zenon DEF RequestRec
<1>3. q.pc = p.pc /\ q.retried = p.retried /\ q.executed = p.executed  BY <1>1, Zenon DEF RequestRec
<1>4. q.handled = p.handled /\ q.ok = ok  BY <1>1, Zenon DEF RequestRec
<1> QED  BY <1>2, <1>3, <1>4, Zenon DEF IsRequest

\* The same for the calls of handler_.
LEMMA SetHandled ==
  ASSUME NEW p, IsRequest(p), NEW n \in Nat, NEW q, q = [p EXCEPT !.handled = n]
  PROVE  /\ IsRequest(q) /\ q.pc = p.pc /\ q.retried = p.retried /\ q.executed = p.executed
         /\ q.handled = n /\ q.ok = p.ok
<1>1. PICK C : p \in RequestRec(C)  BY Zenon DEF IsRequest
<1>2. q \in RequestRec(C)  BY <1>1, Zenon DEF RequestRec
<1>3. q.pc = p.pc /\ q.retried = p.retried /\ q.executed = p.executed  BY <1>1, Zenon DEF RequestRec
<1>4. q.handled = n /\ q.ok = p.ok  BY <1>1, Zenon DEF RequestRec
<1> QED  BY <1>2, <1>3, <1>4, Zenon DEF IsRequest

\* Recycling changes the connection alone.
LEMMA RecycledKeeps ==
  ASSUME NEW p, IsRequest(p), NEW q, q = Recycled(p)
  PROVE  /\ IsRequest(q) /\ q.pc = p.pc /\ q.retried = p.retried /\ q.executed = p.executed
         /\ q.handled = p.handled /\ q.ok = p.ok
  BY SetConn DEF Recycled

\* The timers stay as they are.
LEMMA SameTimers ==
  ASSUME TimerInv, timer' = timer, crashed' = crashed
  PROVE  /\ TimerInv' /\ KeepsCalls
         /\ \A u \in Timers : Told(timer'[u]) => Told(timer[u])
         /\ \A u \in UserTimers : Waits(timer[u]) => Waits(timer'[u])
  BY Zenon DEF TimerInv, KeepsCalls

\* What a call on the stack is not.
LEMMA Calls ==
  ASSUME NEW id
  PROVE  /\ \A u : Call("functor", u) # Call("execute", id) /\ Call("functor", u) # Call("handler", id)
         /\ \A u : Call("canceled", u) # Call("execute", id) /\ Call("canceled", u) # Call("handler", id)
         /\ \A u : Call("execute", u) # Call("handler", id)
         /\ \A u : Call("execute", u) = Call("execute", id) <=> u = id
  BY Zenon DEF Call

\* Request::Execute on another thread: its functor is the only one.
LEMMA ExecuteKeeps ==
  ASSUME IInv, NEW r \in Requests, Execute(r)  PROVE IInv'
<1> DEFINE q == [request[r] EXCEPT !.pc = "posted"]
<1>1. /\ request[r].pc = "new" /\ request' = [request EXCEPT ![r] = q]
      /\ queue' = Append(queue, Call("Execute", r)) /\ stack' = stack /\ pool' = pool
      /\ timer' = timer /\ crashed' = crashed /\ retry_number' = retry_number
  BY Zenon DEF Execute
<1>2. RequestOK(request[r])  BY Zenon DEF IInv, RequestInv
<1>3. RequestOK(q) /\ q.pc = "posted"
  <2>1. /\ IsRequest(q) /\ q.pc = "posted" /\ q.retried = request[r].retried
        /\ q.executed = request[r].executed /\ q.handled = request[r].handled
    BY <1>2, SetPc DEF RequestOK
  <2> HIDE DEF q
  <2> QED  BY <1>1, <1>2, <2>1, Zenon DEF RequestOK, Counted
<1> HIDE DEF q
<1>4. /\ RequestInv' /\ request'[r] = q
      /\ \A s \in Requests \ {r} : request'[s] = request[s]
  BY <1>1, <1>3, SetRequest, Zenon DEF IInv
<1>5. /\ TimerInv' /\ KeepsCalls /\ \A u \in Timers : Told(timer'[u]) => Told(timer[u])
      /\ \A u \in UserTimers : Waits(timer[u]) => Waits(timer'[u])
  BY <1>1, SameTimers, Zenon DEF IInv
<1>6. SeqInv'  BY <1>1, AppendQueue, Zenon DEF IInv, SeqInv
<1>7. QueueInv'
  <2>1. \A u : (Call("Execute", u) = Call("Execute", r) <=> u = r) /\ Call("Start", u) # Call("Execute", r)
    BY Zenon DEF Call
  <2>2. \A s \in Requests : Call("Execute", s) # Call("Execute", r) /\ request[s].pc = "posted" =>
                              request'[s].pc = "posted"
    BY <1>4, <2>1, Zenon
  <2>3. \A s \in Requests : Call("Execute", s) = Call("Execute", r) =>
                              request[s].pc # "posted" /\ request'[s].pc = "posted"
    BY <1>1, <1>3, <1>4, <2>1, Zenon
  <2> QED  BY <1>1, <1>5, <2>1, <2>2, <2>3, QueueAppend, Zenon DEF IInv
<1>8. StackInv'
  <2>1. \A s \in Requests : request[s].pc = "executing" => request'[s].pc = "executing"
    BY <1>1, <1>4, Zenon
  <2> QED  BY <1>1, <1>5, <2>1, StackFrame, Zenon DEF IInv
<1> QED  BY <1>4, <1>5, <1>6, <1>7, <1>8, Zenon DEF IInv

\* ExecuteInLoop is entered on top of what is open.
LEMMA ExecuteInLoopKeeps ==
  ASSUME IInv, NEW r \in Requests, request[r].pc \in {"new", "posted", "retrying"},
         request' = [request EXCEPT ![r].pc = "executing"], stack' = <<Call("execute", r)>> \o stack,
         \A s \in Requests, i \in 1..Len(stack) : stack[i] # Call("execute", s),
         timer' = timer, crashed' = crashed, retry_number' = retry_number
  PROVE  /\ RequestInv' /\ StackInv' /\ TimerInv' /\ IsASeq(stack')
         /\ \A s \in Requests \ {r} : request'[s] = request[s]
         /\ \A u \in UserTimers : Waits(timer[u]) => Waits(timer'[u])
<1> DEFINE q == [request[r] EXCEPT !.pc = "executing"]
<1>1. request' = [request EXCEPT ![r] = q]  BY Zenon
<1>2. RequestOK(request[r])  BY Zenon DEF IInv, RequestInv
<1>3. RequestOK(q) /\ q.pc = "executing"
  <2>1. /\ IsRequest(q) /\ q.pc = "executing" /\ q.retried = request[r].retried
        /\ q.executed = request[r].executed /\ q.handled = request[r].handled
    BY <1>2, SetPc DEF RequestOK
  <2> HIDE DEF q
  <2> QED  BY <1>2, <2>1, Zenon DEF RequestOK, Counted
<1> HIDE DEF q
<1>4. /\ RequestInv' /\ request'[r] = q
      /\ \A s \in Requests \ {r} : request'[s] = request[s]
  BY <1>1, <1>3, SetRequest, Zenon DEF IInv
<1>5. /\ TimerInv' /\ KeepsCalls /\ \A u \in Timers : Told(timer'[u]) => Told(timer[u])
      /\ \A u \in UserTimers : Waits(timer[u]) => Waits(timer'[u])
  BY SameTimers, Zenon DEF IInv
<1>6. StackInv'
  <2>1. \A s \in Requests : Call("execute", s) = Call("execute", r) => request'[s].pc = "executing"
    BY <1>3, <1>4, Calls, Zenon
  <2> QED  BY <1>5, <2>1, StackCall, Zenon DEF IInv
<1>7. IsASeq(stack')  BY PushStack, Zenon DEF IInv
<1> QED  BY <1>4, <1>5, <1>6, <1>7, Zenon

\* The functor of Execute runs, with no call open.
LEMMA RunExecuteKeeps ==
  ASSUME IInv, NEW r \in Requests, RunExecute(r)  PROVE IInv'
<1>1. /\ Pending("Execute", r) /\ queue' = Tail(queue) /\ stack' = <<Call("execute", r)>>
      /\ request' = [request EXCEPT ![r].pc = "executing"] /\ pool' = pool
      /\ timer' = timer /\ crashed' = crashed /\ retry_number' = retry_number
  BY Zenon DEF RunExecute
<1>2. /\ stack = << >> /\ Len(stack) = 0 /\ 1 \in 1..Len(queue) /\ queue[1] = Call("Execute", r)
      /\ IsASeq(queue')
  BY <1>1, PopQueue, Zenon DEF IInv
<1>3. request[r].pc = "posted"  BY <1>2, Zenon DEF IInv, QueueInv
<1>4. stack' = <<Call("execute", r)>> \o stack  BY <1>1, <1>2, FirstOnStack, Zenon
<1>5. \A s \in Requests, i \in 1..Len(stack) : stack[i] # Call("execute", s)  BY <1>2
<1>6. /\ RequestInv' /\ StackInv' /\ TimerInv' /\ IsASeq(stack')
      /\ \A s \in Requests \ {r} : request'[s] = request[s]
      /\ \A u \in UserTimers : Waits(timer[u]) => Waits(timer'[u])
  BY <1>1, <1>3, <1>4, <1>5, ExecuteInLoopKeeps, Zenon
<1>7. SeqInv'  BY <1>1, <1>2, <1>6, Zenon DEF IInv, SeqInv
<1>8. QueueInv'
  <2>1. \A s : Call("Execute", s) = Call("Execute", r) <=> s = r  BY Zenon DEF Call
  <2>2. \A s \in Requests : Call("Execute", s) # Call("Execute", r) /\ request[s].pc = "posted" =>
                              request'[s].pc = "posted"
    BY <1>6, <2>1, Zenon
  <2> QED  BY <1>1, <1>6, <2>2, QueueTail, Zenon DEF IInv
<1> QED  BY <1>6, <1>7, <1>8, Zenon DEF IInv

\* A handler executes another request, or a retry's timer fires.
LEMMA ExecuteInPlaceKeeps ==
  ASSUME IInv, NEW r \in Requests,
         ExecuteInHandler(r) \/ \E k \in 1..MaxRetries : RetryFires(r, k)
  PROVE  IInv'
<1>1. /\ request[r].pc \in {"new", "retrying"} /\ stack' = <<Call("execute", r)>> \o stack
      /\ request' = [request EXCEPT ![r].pc = "executing"] /\ pool' = pool /\ queue' = queue
      /\ timer' = timer /\ crashed' = crashed /\ retry_number' = retry_number
  BY Zenon DEF ExecuteInHandler, RetryFires
<1>2. \E f, id : At(f, id) /\ f # "execute"  BY DEF ExecuteInHandler, RetryFires
<1>3. \A s \in Requests, i \in 1..Len(stack) : stack[i] # Call("execute", s)
  BY <1>2, NoExecute, Zenon
<1>4. /\ RequestInv' /\ StackInv' /\ TimerInv' /\ IsASeq(stack')
      /\ \A s \in Requests \ {r} : request'[s] = request[s]
      /\ \A u \in UserTimers : Waits(timer[u]) => Waits(timer'[u])
  BY <1>1, <1>3, ExecuteInLoopKeeps, Zenon
<1>5. SeqInv'  BY <1>1, <1>4, Zenon DEF IInv, SeqInv
<1>6. QueueInv'
  <2>1. \A s \in Requests : request[s].pc = "posted" => request'[s].pc = "posted"
    BY <1>1, <1>4, Zenon
  <2> QED  BY <1>1, <1>4, <2>1, QueueFrame, Zenon DEF IInv
<1> QED  BY <1>4, <1>5, <1>6, Zenon DEF IInv

\* Get and Put leave a sequence in the pool.
LEMMA PoolSeq ==
  ASSUME SeqInv
  PROVE  IsASeq(Get.pool) /\ \A p, c : IsASeq(p) => IsASeq(Put(p, c))
<1>1. IsASeq(Get.pool)
  <2>1. CASE pool = << >>  BY <2>1, Zenon DEF Get, SeqInv
  <2>2. CASE pool # << >>
    <3>1. IsASeq(SubSeq(pool, 1, Len(pool) - 1))  BY <2>2, FrontSeq, Zenon DEF SeqInv
    <3>2. Get.pool = SubSeq(pool, 1, Len(pool) - 1)  BY <2>2, Zenon DEF Get
    <3> QED  BY <3>1, <3>2, Zenon
  <2> QED  BY <2>1, <2>2, Zenon
<1>2. \A p, c : IsASeq(p) => IsASeq(Put(p, c))  BY AppendSeq, Zenon DEF Put
<1> QED  BY <1>1, <1>2, Zenon

\* What ExecuteInLoop finds.
LEMMA Executing ==
  ASSUME IInv, NEW r \in Requests, At("execute", r)
  PROVE  /\ RequestOK(request[r]) /\ request[r].pc = "executing"
<1>1. Len(stack) \in Nat \ {0} /\ stack[1] = Call("execute", r)  BY AtHead, Zenon DEF IInv
<1>2. 1 \in 1..Len(stack)  BY <1>1
<1> QED  BY <1>1, <1>2, Zenon DEF IInv, StackInv, RequestInv

\* A try: the connection is taken and executed counts it.
LEMMA Tried ==
  ASSUME NEW p, IsRequest(p), NEW c
  PROVE  LET q == [p EXCEPT !.conn = c, !.executed = @ + 1] IN
         /\ IsRequest(q) /\ q.pc = p.pc /\ q.retried = p.retried /\ q.executed = p.executed + 1
         /\ q.handled = p.handled /\ q.ok = p.ok
<1> DEFINE n == p.executed + 1
           a == [p EXCEPT !.conn = c]
           q == [a EXCEPT !.executed = n]
<1>1. /\ IsRequest(a) /\ a.pc = p.pc /\ a.retried = p.retried /\ a.executed = p.executed
      /\ a.handled = p.handled /\ a.ok = p.ok
  BY SetConn
<1>2. PICK C : p \in RequestRec(C)  BY Zenon DEF IsRequest
<1>3. n \in Nat  BY <1>2 DEF RequestRec
<1>4. q = [p EXCEPT !.conn = c, !.executed = @ + 1]  BY <1>2, Zenon DEF RequestRec
<1> HIDE DEF a, n
<1>5. /\ IsRequest(q) /\ q.pc = a.pc /\ q.retried = a.retried /\ q.executed = n
      /\ q.handled = a.handled /\ q.ok = a.ok
  BY <1>1, <1>3, SetExecuted
<1> HIDE DEF q
<1> QED  BY <1>1, <1>4, <1>5, Zenon DEF n

\* ExecuteInLoop makes the request, which counts as a try.
LEMMA SendsKeeps ==
  ASSUME IInv, NEW r \in Requests, Sends(r)  PROVE IInv'
<1> DEFINE g == IF request[r].conn # 0 THEN [conn |-> request[r].conn, pool |-> pool] ELSE Get
           p == [request[r] EXCEPT !.conn = g.conn, !.executed = @ + 1]
           q == [p EXCEPT !.pc = "sent"]
<1>1. /\ At("execute", r) /\ pool' = g.pool /\ stack' = Tail(stack) /\ queue' = queue
      /\ timer' = timer /\ crashed' = crashed /\ retry_number' = retry_number
  BY Zenon DEF Sends
<1>2. request' = [request EXCEPT ![r] = q]
  <2>1. request' = [request EXCEPT ![r].pc = "sent", ![r].conn = g.conn, ![r].executed = @ + 1]
    BY Zenon DEF Sends
  <2> HIDE DEF g
  <2>2. RequestOK(request[r]) /\ request = [s \in Requests |-> request[s]]  BY Zenon DEF IInv, RequestInv
  <2>3. PICK C : request[r] \in RequestRec(C)  BY <2>2, Zenon DEF RequestOK, IsRequest
  <2> QED  BY <2>1, <2>2, <2>3, Zenon DEF RequestRec
<1>3. IsASeq(pool')
  <2>1. IsASeq(pool) /\ IsASeq(Get.pool)  BY PoolSeq, Zenon DEF IInv, SeqInv
  <2>2. g.pool = pool \/ g.pool = Get.pool  BY Zenon
  <2> QED  BY <1>1, <2>1, <2>2, Zenon
<1> HIDE DEF g
<1>4. RequestOK(request[r]) /\ request[r].pc = "executing"  BY <1>1, Executing, Zenon
<1>5. RequestOK(q) /\ q.pc = "sent"
  <2>1. /\ IsRequest(p) /\ p.retried = request[r].retried
        /\ p.executed = request[r].executed + 1 /\ p.handled = request[r].handled
    <3>1. IsRequest(request[r])  BY <1>4, Zenon DEF RequestOK
    <3> QED  BY <3>1, Tried, ZenonT(30)
  <2> HIDE DEF p
  <2>2. /\ IsRequest(q) /\ q.pc = "sent" /\ q.retried = p.retried
        /\ q.executed = p.executed /\ q.handled = p.handled
    BY <2>1, SetPc
  <2> HIDE DEF q
  <2> QED  BY <1>4, <2>1, <2>2, Zenon DEF RequestOK, Counted
<1> HIDE DEF q
<1>6. /\ RequestInv' /\ request'[r] = q
      /\ \A s \in Requests \ {r} : request'[s] = request[s]
  BY <1>1, <1>2, <1>5, SetRequest, Zenon DEF IInv
<1>7. /\ TimerInv' /\ KeepsCalls /\ \A u \in Timers : Told(timer'[u]) => Told(timer[u])
      /\ \A u \in UserTimers : Waits(timer[u]) => Waits(timer'[u])
  BY <1>1, SameTimers, Zenon DEF IInv
<1>8. SeqInv'  BY <1>1, <1>3, PopStack, Zenon DEF IInv, SeqInv
<1>9. QueueInv'
  <2>1. \A s \in Requests : request[s].pc = "posted" => request'[s].pc = "posted"
    BY <1>4, <1>6, Zenon
  <2> QED  BY <1>1, <1>7, <2>1, QueueFrame, Zenon DEF IInv
<1>10. StackInv'  BY <1>1, <1>7, StackReturn, Zenon DEF IInv
<1> QED  BY <1>6, <1>7, <1>8, <1>9, <1>10, Zenon DEF IInv

\* The handler returns.
LEMMA HandlerReturnsKeeps ==
  ASSUME IInv, NEW r \in Requests, HandlerReturns(r)  PROVE IInv'
<1> DEFINE q == [request[r] EXCEPT !.conn = 0]
<1>1. /\ At("handler", r) /\ pool' = pool /\ stack' = Tail(stack) /\ queue' = queue
      /\ timer' = timer /\ crashed' = crashed /\ retry_number' = retry_number
      /\ request' = [request EXCEPT ![r] = q]
  BY Zenon DEF HandlerReturns
<1>2. RequestOK(request[r])  BY Zenon DEF IInv, RequestInv
<1>3. RequestOK(q) /\ q.pc = request[r].pc
  <2>1. /\ IsRequest(q) /\ q.pc = request[r].pc /\ q.retried = request[r].retried
        /\ q.executed = request[r].executed /\ q.handled = request[r].handled
        /\ q.ok = request[r].ok
    BY <1>2, SetConn DEF RequestOK
  <2> HIDE DEF q
  <2> QED  BY <1>2, <2>1, Zenon DEF RequestOK, Counted
<1> HIDE DEF q
<1>4. /\ RequestInv' /\ request'[r] = q
      /\ \A s \in Requests \ {r} : request'[s] = request[s]
  BY <1>1, <1>3, SetRequest, Zenon DEF IInv
<1>5. /\ TimerInv' /\ KeepsCalls /\ \A u \in Timers : Told(timer'[u]) => Told(timer[u])
      /\ \A u \in UserTimers : Waits(timer[u]) => Waits(timer'[u])
  BY <1>1, SameTimers, Zenon DEF IInv
<1>6. SeqInv'  BY <1>1, PopStack, Zenon DEF IInv, SeqInv
<1>7. QueueInv'
  <2>1. \A s \in Requests : request[s].pc = "posted" => request'[s].pc = "posted"
    BY <1>3, <1>4, Zenon
  <2> QED  BY <1>1, <1>5, <2>1, QueueFrame, Zenon DEF IInv
<1>8. StackInv'  BY <1>1, <1>5, StackReturn, Zenon DEF IInv
<1> QED  BY <1>4, <1>5, <1>6, <1>7, <1>8, Zenon DEF IInv

\* The functor that closes a connection.
LEMMA RunCloseKeeps ==
  ASSUME IInv, NEW c, RunClose(c)  PROVE IInv'
<1>1. /\ Pending("Close", c) /\ queue' = Tail(queue) /\ stack' = stack /\ pool' = pool
      /\ timer' = timer /\ crashed' = crashed /\ request' = request /\ retry_number' = retry_number
  BY Zenon DEF RunClose
<1>2. /\ TimerInv' /\ KeepsCalls /\ \A u \in Timers : Told(timer'[u]) => Told(timer[u])
      /\ \A u \in UserTimers : Waits(timer[u]) => Waits(timer'[u])
  BY <1>1, SameTimers, Zenon DEF IInv
<1>3. SeqInv'  BY <1>1, PopQueue, Zenon DEF IInv, SeqInv
<1>4. RequestInv'  BY <1>1, SameRequests, Zenon DEF IInv
<1>5. QueueInv'  BY <1>1, <1>2, QueueTail, Zenon DEF IInv
<1>6. StackInv'  BY <1>1, <1>2, StackFrame, Zenon DEF IInv
<1> QED  BY <1>2, <1>3, <1>4, <1>5, <1>6, Zenon DEF IInv

\* ConnPool::Clear.
LEMMA ClearKeeps ==
  ASSUME IInv, Clear  PROVE IInv'
<1>1. /\ queue' = queue \o [i \in 1..Len(pool) |-> Call("Close", pool[i])] /\ pool' = << >>
      /\ stack' = stack /\ timer' = timer /\ crashed' = crashed
      /\ request' = request /\ retry_number' = retry_number
  BY Zenon DEF Clear
<1>2. /\ TimerInv' /\ KeepsCalls /\ \A u \in Timers : Told(timer'[u]) => Told(timer[u])
      /\ \A u \in UserTimers : Waits(timer[u]) => Waits(timer'[u])
  BY <1>1, SameTimers, Zenon DEF IInv
<1>3. /\ IsASeq(queue')
      /\ \A i \in 1..Len(queue') : IF i \in 1..Len(queue) THEN queue'[i] = queue[i]
                                    ELSE \E j \in 1..Len(pool) : queue'[i] = Call("Close", pool[j])
  <2>1. IsASeq(queue) /\ IsASeq(pool)  BY Zenon DEF IInv, SeqInv
  <2>2. queue' = Closes(queue, pool)  BY <1>1, Zenon DEF Closes
  <2> QED  BY <2>1, <2>2, CloseSeq
<1>4. SeqInv'  BY <1>1, <1>3, EmptySeq, Zenon DEF IInv, SeqInv
<1>5. RequestInv'  BY <1>1, SameRequests, Zenon DEF IInv
<1>6. QueueInv'
  <2>1. \A x, y : Call("Close", x) # Call("Start", y) /\ Call("Close", x) # Call("Execute", y)
    BY Zenon DEF Call
  <2>2. \A y : \A i \in 1..Len(queue') : queue'[i] = Call("Start", y) \/ queue'[i] = Call("Execute", y) =>
          i \in 1..Len(queue) /\ queue'[i] = queue[i]
    BY <1>3, <2>1, Zenon
  <2>3. ASSUME NEW t \in Timers, NEW i \in 1..Len(queue'), queue'[i] = Call("Start", t)
        PROVE  /\ t \in UserTimers /\ Waits(timer'[t])
               /\ \A j \in 1..Len(queue') : queue'[j] = Call("Start", t) => j = i
    <3>1. i \in 1..Len(queue) /\ queue[i] = Call("Start", t)  BY <2>2, <2>3, Zenon
    <3>2. t \in UserTimers /\ Waits(timer[t])  BY <3>1, Zenon DEF IInv, QueueInv
    <3>3. \A j \in 1..Len(queue) : queue[j] = Call("Start", t) => j = i  BY <3>1, Zenon DEF IInv, QueueInv
    <3>4. \A j \in 1..Len(queue') : queue'[j] = Call("Start", t) => j = i  BY <2>2, <3>3, Zenon
    <3> QED  BY <1>1, <3>2, <3>4, Zenon
  <2>4. ASSUME NEW r \in Requests, NEW i \in 1..Len(queue'), queue'[i] = Call("Execute", r)
        PROVE  /\ request'[r].pc = "posted"
               /\ \A j \in 1..Len(queue') : queue'[j] = Call("Execute", r) => j = i
    <3>1. i \in 1..Len(queue) /\ queue[i] = Call("Execute", r)  BY <2>2, <2>4, Zenon
    <3>2. request[r].pc = "posted"  BY <3>1, Zenon DEF IInv, QueueInv
    <3>3. \A j \in 1..Len(queue) : queue[j] = Call("Execute", r) => j = i  BY <3>1, Zenon DEF IInv, QueueInv
    <3>4. \A j \in 1..Len(queue') : queue'[j] = Call("Execute", r) => j = i  BY <2>2, <3>3, Zenon
    <3> QED  BY <1>1, <3>2, <3>4, Zenon
  <2> QED  BY <2>3, <2>4, Zenon DEF QueueInv
<1>7. StackInv'  BY <1>1, <1>2, StackFrame, Zenon DEF IInv
<1> QED  BY <1>2, <1>4, <1>5, <1>6, <1>7, Zenon DEF IInv

\* RunAfter makes the timer of a retry, which is none of the user's.
LEMMA RunAfterKeeps ==
  ASSUME IInv, NEW t \in Timers \ UserTimers, RunAfter(t), crashed' = crashed
  PROVE  /\ TimerInv' /\ KeepsCalls /\ \A u \in Timers : Told(timer'[u]) => Told(timer[u])
         /\ \A u \in UserTimers : Waits(timer[u]) => Waits(timer'[u])
<1> DEFINE n == NewTimer(FALSE, FALSE)
           tm == Watch([n EXCEPT !.started = TRUE])
<1>1. /\ tm \in TimerRec /\ ~tm.held /\ tm.self /\ tm.started /\ ~tm.periodic
      /\ tm.fired = 0 /\ tm.told = 0 /\ ~tm.cancelled /\ tm.watcher = "armed"
  <2>1. /\ n \in TimerRec /\ ~n.held /\ n.self /\ ~n.periodic
        /\ n.fired = 0 /\ n.told = 0 /\ ~n.cancelled
    BY TimerAssumption DEF NewTimer, TimerRec
  <2> HIDE DEF n
  <2> QED  BY <2>1, Zenon DEF Watch, TimerRec
<1>2. Set(t, tm)  BY Zenon DEF RunAfter
<1> HIDE DEF tm
<1>3. TimerOK(t, tm)  BY <1>1 DEF TimerOK
<1>4. InFunctor(t, tm) /\ InCanceled(t, tm) /\ ~Told(tm)  BY <1>1 DEF InFunctor, InCanceled, Told
<1>5. /\ timer' = [u \in Timers |-> timer'[u]] /\ \A u \in Timers : TimerOK(u, timer'[u])
      /\ timer'[t] = tm /\ \A u \in Timers \ {t} : timer'[u] = timer[u]
  BY <1>2, <1>3, SetTimer, Zenon DEF IInv
<1>6. TimerInv'  BY <1>5, Zenon DEF IInv, TimerInv
<1>7. KeepsCalls  BY <1>4, <1>5, Zenon DEF KeepsCalls
<1>8. \A u \in Timers : Told(timer'[u]) => Told(timer[u])  BY <1>4, <1>5, Zenon
<1>9. \A u \in UserTimers : Waits(timer[u]) => Waits(timer'[u])  BY <1>5, TimerAssumption, Zenon
<1> QED  BY <1>6, <1>7, <1>8, <1>9, Zenon

\* Retry of a request that has retries left.
LEMMA RetryKeeps ==
  ASSUME IInv, NEW r \in Requests, NEW q, IsRequest(q), q.retried < retry_number,
         q.executed = q.retried + 1, q.handled = 0, NEW rest, Retry(r, q, rest),
         crashed' = crashed, retry_number' = retry_number
  PROVE  /\ TimerInv' /\ RequestInv'
         /\ KeepsCalls /\ \A u \in Timers : Told(timer'[u]) => Told(timer[u])
         /\ \A u \in UserTimers : Waits(timer[u]) => Waits(timer'[u])
         /\ \A s \in Requests \ {r} : request'[s] = request[s]
         /\ \/ stack' = rest
            \/ stack' = <<Call("execute", r)>> \o rest /\ request'[r].pc = "executing"
<1> DEFINE k == q.retried + 1
           a == [q EXCEPT !.retried = k]
           p == Recycled(a)
           w == [p EXCEPT !.pc = "retrying"]
           e == [p EXCEPT !.pc = "executing"]
<1>1. PICK C : q \in RequestRec(C)  BY Zenon DEF IsRequest
<1>2. retry_number \in Nat /\ retry_number <= MaxRetries  BY HTTPCAssumption DEF IInv, RequestInv
<1>3. k \in Nat /\ k \in 1..MaxRetries /\ k <= retry_number /\ q.executed = k
  BY <1>1, <1>2, HTTPCAssumption DEF RequestRec
<1>4. RetryTimer(r, k) \in Timers \ UserTimers
  <2>1. \A j \in 1..MaxRetries : MaxRetries * (r - 1) + j \in Timers \ UserTimers
    BY HTTPCAssumption, Zenon DEF Requests
  <2> HIDE DEF k
  <2> QED  BY <1>3, <2>1, Zenon DEF RetryTimer
<1>5. IF retry_interval
      THEN request' = [request EXCEPT ![r] = w] /\ RunAfter(RetryTimer(r, k)) /\ stack' = rest
      ELSE /\ request' = [request EXCEPT ![r] = e] /\ stack' = <<Call("execute", r)>> \o rest
           /\ timer' = timer
  BY Zenon DEF Retry
<1> HIDE DEF k
<1>6. IsRequest(a) /\ a.retried = k /\ a.executed = q.executed /\ a.handled = q.handled
  BY <1>3, SetRetried
<1> HIDE DEF a
<1>7. IsRequest(p) /\ p.retried = a.retried /\ p.executed = a.executed /\ p.handled = a.handled
  BY <1>6, RecycledKeeps, Zenon
<1> HIDE DEF p
<1>8. /\ IsRequest(w) /\ w.pc = "retrying" /\ w.retried = p.retried
      /\ w.executed = p.executed /\ w.handled = p.handled
  BY <1>7, SetPc
<1>9. /\ IsRequest(e) /\ e.pc = "executing" /\ e.retried = p.retried
      /\ e.executed = p.executed /\ e.handled = p.handled
  BY <1>7, SetPc
<1> HIDE DEF w, e
<1>10. RequestOK(w) /\ RequestOK(e)  BY <1>3, <1>6, <1>7, <1>8, <1>9, Zenon DEF RequestOK, Counted
<1>11. CASE retry_interval
  <2>1. RequestInv' /\ \A s \in Requests \ {r} : request'[s] = request[s]
    BY <1>5, <1>10, <1>11, SetRequest, Zenon DEF IInv
  <2> QED  BY <1>4, <1>5, <1>11, <2>1, RunAfterKeeps, Zenon
<1>12. CASE ~retry_interval
  <2>1. RequestInv' /\ request'[r] = e /\ \A s \in Requests \ {r} : request'[s] = request[s]
    BY <1>5, <1>10, <1>12, SetRequest, Zenon DEF IInv
  <2> QED  BY <1>5, <1>9, <1>12, <2>1, SameTimers, Zenon DEF IInv
<1> QED  BY <1>11, <1>12, Zenon

\* The handler is called with a good answer, or after the last retry.
LEMMA CallHandlerKeeps ==
  ASSUME IInv, NEW r \in Requests, NEW q, IsRequest(q), q.retried <= retry_number,
         q.ok \/ q.retried = retry_number, q.executed = q.retried + 1, q.handled = 0,
         NEW rest, CallHandler(r, q, rest), crashed' = crashed, retry_number' = retry_number
  PROVE  /\ TimerInv' /\ RequestInv'
         /\ KeepsCalls /\ \A u \in Timers : Told(timer'[u]) => Told(timer[u])
         /\ \A u \in UserTimers : Waits(timer[u]) => Waits(timer'[u])
         /\ \A s \in Requests \ {r} : request'[s] = request[s]
         /\ stack' = <<Call("handler", r)>> \o rest
<1> DEFINE a == [q EXCEPT !.pc = "done"]
           d == [a EXCEPT !.handled = 1]
<1>1. PICK C : q \in RequestRec(C)  BY Zenon DEF IsRequest
<1>2. request' = [request EXCEPT ![r] = d]
  <2>1. d = [q EXCEPT !.pc = "done", !.handled = @ + 1]  BY <1>1 DEF RequestRec
  <2> QED  BY <2>1, Zenon DEF CallHandler
<1>3. /\ IsRequest(a) /\ a.pc = "done" /\ a.retried = q.retried /\ a.executed = q.executed
      /\ a.ok = q.ok
  BY SetPc
<1> HIDE DEF a
<1>4. /\ IsRequest(d) /\ d.pc = a.pc /\ d.retried = a.retried /\ d.executed = a.executed
      /\ d.ok = a.ok /\ d.handled = 1
  BY <1>3, SetHandled
<1> HIDE DEF d
<1>5. RequestOK(d)  BY <1>3, <1>4, Zenon DEF RequestOK, Counted
<1>6. RequestInv' /\ \A s \in Requests \ {r} : request'[s] = request[s]
  BY <1>2, <1>5, SetRequest, Zenon DEF IInv
<1>7. timer' = timer /\ stack' = <<Call("handler", r)>> \o rest  BY Zenon DEF CallHandler
<1> QED  BY <1>6, <1>7, SameTimers, Zenon DEF IInv

\* ExecuteInLoop fails, which counts as a try: a retry, or the handler after the last.
LEMMA FailsToSendKeeps ==
  ASSUME IInv, NEW r \in Requests, NEW made, FailsToSend(r, made)  PROVE IInv'
<1> DEFINE g == IF request[r].conn # 0 THEN [conn |-> request[r].conn, pool |-> pool] ELSE Get
           q == [request[r] EXCEPT !.conn = g.conn, !.executed = @ + 1]
<1>1. /\ At("execute", r) /\ queue' = queue /\ crashed' = crashed /\ retry_number' = retry_number
      /\ IF q.retried < retry_number THEN Retry(r, q, Tail(stack)) ELSE CallHandler(r, q, Tail(stack))
      /\ \/ pool' = pool \/ pool' = g.pool \/ pool' = Put(g.pool, q.conn)
  BY Zenon DEF FailsToSend
<1>2. IsASeq(pool')
  <2>1. IsASeq(pool) /\ IsASeq(Get.pool)  BY PoolSeq, Zenon DEF IInv, SeqInv
  <2>2. g.pool = pool \/ g.pool = Get.pool  BY Zenon
  <2> HIDE DEF g, q
  <2> QED  BY <1>1, <2>1, <2>2, PoolSeq, Zenon DEF IInv
<1> HIDE DEF g
<1>3. RequestOK(request[r]) /\ request[r].pc = "executing"  BY <1>1, Executing, Zenon
<1>4. /\ IsRequest(q) /\ q.retried = request[r].retried
      /\ q.executed = request[r].executed + 1 /\ q.handled = request[r].handled
  <2>1. IsRequest(request[r])  BY <1>3, Zenon DEF RequestOK
  <2> QED  BY <2>1, Tried, ZenonT(30)
<1> HIDE DEF q
<1>5. /\ q.executed = q.retried + 1 /\ q.handled = 0 /\ q.retried <= retry_number
      /\ ~(q.retried < retry_number) => q.retried = retry_number
  <2>1. PICK C : q \in RequestRec(C)  BY <1>4, Zenon DEF IsRequest
  <2>2. q.retried \in Nat /\ retry_number \in Nat  BY <2>1 DEF RequestRec, IInv, RequestInv
  <2>3. /\ request[r].executed = request[r].retried /\ request[r].handled = 0
        /\ request[r].retried <= retry_number
    BY <1>3, Zenon DEF RequestOK, Counted
  <2> QED  BY <1>4, <2>2, <2>3
<1>6. /\ TimerInv' /\ RequestInv' /\ KeepsCalls
      /\ \A u \in Timers : Told(timer'[u]) => Told(timer[u])
      /\ \A u \in UserTimers : Waits(timer[u]) => Waits(timer'[u])
      /\ \A s \in Requests \ {r} : request'[s] = request[s]
      /\ \/ stack' = Tail(stack)
         \/ stack' = <<Call("execute", r)>> \o Tail(stack) /\ request'[r].pc = "executing"
         \/ stack' = <<Call("handler", r)>> \o Tail(stack)
  <2>1. CASE q.retried < retry_number  BY <1>1, <1>4, <1>5, <2>1, RetryKeeps, Zenon
  <2>2. CASE ~(q.retried < retry_number)  BY <1>1, <1>4, <1>5, <2>2, CallHandlerKeeps, Zenon
  <2> QED  BY <2>1, <2>2, Zenon
<1>7. IsASeq(stack') /\ StackInv'
  <2>1. CASE stack' = Tail(stack)
    <3>1. IsASeq(stack')  BY <1>1, <2>1, PopStack, Zenon DEF IInv
    <3>2. StackInv'  BY <1>1, <1>6, <2>1, StackReturn, Zenon DEF IInv
    <3> QED  BY <3>1, <3>2, Zenon
  <2>2. CASE stack' = <<Call("execute", r)>> \o Tail(stack) /\ request'[r].pc = "executing"
    <3>1. \A s \in Requests : Call("execute", s) = Call("execute", r) => request'[s].pc = "executing"
      BY <2>2, Calls, Zenon
    <3> QED  BY <1>1, <1>6, <2>2, <3>1, StackReplace, Zenon DEF IInv
  <2>3. CASE stack' = <<Call("handler", r)>> \o Tail(stack)
    <3>1. \A s : Call("execute", s) # Call("handler", r)  BY Calls, Zenon
    <3> QED  BY <1>1, <1>6, <2>3, <3>1, StackReplace, Zenon DEF IInv
  <2> QED  BY <1>6, <2>1, <2>2, <2>3, Zenon
<1>8. SeqInv'  BY <1>1, <1>2, <1>7, Zenon DEF IInv, SeqInv
<1>9. QueueInv'
  <2>1. \A s \in Requests : request[s].pc = "posted" => request'[s].pc = "posted"
    BY <1>3, <1>6, Zenon
  <2> QED  BY <1>1, <1>6, <2>1, QueueFrame, Zenon DEF IInv
<1> QED  BY <1>6, <1>7, <1>8, <1>9, Zenon DEF IInv

\* HandleResponse, with no call open: a retry, or the handler.
LEMMA HandleResponseKeeps ==
  ASSUME IInv, NEW r \in Requests, NEW ok \in BOOLEAN, HandleResponse(r, ok)  PROVE IInv'
<1> DEFINE q == [request[r] EXCEPT !.ok = ok]
           p == Recycled(q)
<1>1. /\ stack = << >> /\ request[r].pc = "sent" /\ Recycle(request[r])
      /\ queue' = queue /\ crashed' = crashed /\ retry_number' = retry_number
      /\ IF ~ok /\ q.retried < retry_number THEN Retry(r, q, stack) ELSE CallHandler(r, p, stack)
  BY Zenon DEF HandleResponse, Idle
<1>2. IsASeq(pool')  BY <1>1, PoolSeq, Zenon DEF IInv, SeqInv, Recycle
<1>3. RequestOK(request[r])  BY Zenon DEF IInv, RequestInv
<1>4. /\ IsRequest(q) /\ q.retried = request[r].retried /\ q.executed = request[r].executed
      /\ q.handled = request[r].handled /\ q.ok = ok
  BY <1>3, SetOk DEF RequestOK
<1> HIDE DEF q
<1>5. /\ IsRequest(p) /\ p.retried = q.retried /\ p.executed = q.executed
      /\ p.handled = q.handled /\ p.ok = q.ok
  BY <1>4, RecycledKeeps, Zenon
<1> HIDE DEF p
<1>6. /\ q.executed = q.retried + 1 /\ q.handled = 0 /\ q.retried <= retry_number
      /\ ~(q.retried < retry_number) => q.retried = retry_number
  <2>1. PICK C : q \in RequestRec(C)  BY <1>4, Zenon DEF IsRequest
  <2>2. q.retried \in Nat /\ retry_number \in Nat  BY <2>1 DEF RequestRec, IInv, RequestInv
  <2>3. request[r].pc = "sent"  BY <1>1, Zenon
  <2>4. /\ request[r].executed = request[r].retried + 1 /\ request[r].handled = 0
        /\ request[r].retried <= retry_number
    BY <1>3, <2>3, Zenon DEF RequestOK, Counted
  <2> QED  BY <1>4, <2>2, <2>4
<1>7. /\ TimerInv' /\ RequestInv' /\ KeepsCalls
      /\ \A u \in Timers : Told(timer'[u]) => Told(timer[u])
      /\ \A u \in UserTimers : Waits(timer[u]) => Waits(timer'[u])
      /\ \A s \in Requests \ {r} : request'[s] = request[s]
      /\ \/ stack' = stack
         \/ stack' = <<Call("execute", r)>> \o stack /\ request'[r].pc = "executing"
         \/ stack' = <<Call("handler", r)>> \o stack
  <2>1. CASE ~ok /\ q.retried < retry_number  BY <1>1, <1>4, <1>6, <2>1, RetryKeeps, Zenon
  <2>2. CASE ~(~ok /\ q.retried < retry_number)
    <3>1. p.ok \/ p.retried = retry_number  BY <1>4, <1>5, <1>6, <2>2, Zenon
    <3>2. p.executed = p.retried + 1 /\ p.handled = 0 /\ p.retried <= retry_number
      BY <1>5, <1>6, Zenon
    <3> QED  BY <1>1, <1>5, <2>2, <3>1, <3>2, CallHandlerKeeps, Zenon
  <2> QED  BY <2>1, <2>2, Zenon
<1>8. IsASeq(stack') /\ StackInv'
  <2>0. Len(stack) = 0  BY <1>1, EmptySeq, Zenon
  <2>1. \A s \in Requests, i \in 1..Len(stack) : stack[i] # Call("execute", s)  BY <2>0
  <2>2. CASE stack' = stack
    <3>1. \A s \in Requests : request[s].pc = "executing" => request'[s].pc = "executing"
      BY <1>1, <1>7, Zenon
    <3>2. StackInv'  BY <1>7, <2>2, <3>1, StackFrame, Zenon DEF IInv
    <3> QED  BY <2>2, <3>2, Zenon DEF IInv, SeqInv
  <2>3. CASE stack' = <<Call("execute", r)>> \o stack /\ request'[r].pc = "executing"
    <3>1. \A s \in Requests : Call("execute", s) = Call("execute", r) => request'[s].pc = "executing"
      BY <2>3, Calls, Zenon
    <3>2. StackInv'  BY <1>7, <2>1, <2>3, <3>1, StackCall, Zenon DEF IInv
    <3> QED  BY <2>3, <3>2, PushStack, Zenon DEF IInv
  <2>4. CASE stack' = <<Call("handler", r)>> \o stack
    <3>1. \A s : Call("execute", s) # Call("handler", r)  BY Calls, Zenon
    <3>2. StackInv'  BY <1>7, <2>1, <2>4, <3>1, StackCall, Zenon DEF IInv
    <3> QED  BY <2>4, <3>2, PushStack, Zenon DEF IInv
  <2> QED  BY <1>7, <2>2, <2>3, <2>4, Zenon
<1>9. SeqInv'  BY <1>1, <1>2, <1>8, Zenon DEF IInv, SeqInv
<1>10. QueueInv'
  <2>1. \A s \in Requests : request[s].pc = "posted" => request'[s].pc = "posted"
    BY <1>1, <1>7, Zenon
  <2> QED  BY <1>1, <1>7, <2>1, QueueFrame, Zenon DEF IInv
<1> QED  BY <1>7, <1>8, <1>9, <1>10, Zenon DEF IInv

-----------------------------------------------------------------------------
(* The invariant, and what follows from it.                                *)

\* The invariant holds at first.
LEMMA InitIInv == Init => IInv
<1> SUFFICES ASSUME Init PROVE IInv  BY Zenon
<1>1. queue = << >> /\ stack = << >> /\ crashed = FALSE /\ pool = << >>  BY Zenon DEF Init, TimerInit
<1>2. SeqInv  BY <1>1, EmptySeq, Zenon DEF SeqInv
<1>3. TimerInv /\ \A t \in Timers : timer[t].watcher = "null"
  <2>1. timer \in [Timers -> {NewTimer(e, TRUE) : e \in BOOLEAN} \cup {NoTimer}]
    BY Zenon DEF Init, TimerInit
  <2>2. ASSUME NEW t \in Timers PROVE TimerOK(t, timer[t]) /\ timer[t].watcher = "null"
    <3>1. timer[t].self => t \in UserTimers  BY Zenon DEF Init, TimerInit
    <3>2. CASE timer[t] = NoTimer
      <4> DEFINE n == NewTimer(FALSE, FALSE)
      <4>1. /\ n \in TimerRec /\ ~n.held /\ n.watcher = "null" /\ ~n.started /\ ~n.periodic
            /\ n.fired = 0 /\ n.told = 0 /\ ~n.cancelled
        BY TimerAssumption DEF NewTimer, TimerRec
      <4>2. timer[t] = [n EXCEPT !.self = FALSE]  BY <3>2, Zenon DEF NoTimer
      <4> HIDE DEF n
      <4>3. /\ timer[t] \in TimerRec /\ ~timer[t].held /\ timer[t].watcher = "null"
            /\ ~timer[t].started /\ ~timer[t].periodic
            /\ timer[t].fired = 0 /\ timer[t].told = 0 /\ ~timer[t].cancelled
        BY <4>1, <4>2, Zenon DEF TimerRec
      <4> QED  BY <4>3 DEF TimerOK
    <3>3. ASSUME NEW e \in BOOLEAN, timer[t] = NewTimer(e, TRUE)
          PROVE TimerOK(t, timer[t]) /\ timer[t].watcher = "null"
      <4>1. /\ timer[t] \in TimerRec /\ timer[t].self /\ timer[t].watcher = "null"
            /\ ~timer[t].started /\ timer[t].periodic = timer[t].every
            /\ timer[t].fired = 0 /\ timer[t].told = 0 /\ ~timer[t].cancelled
        BY <3>3, TimerAssumption DEF NewTimer, TimerRec
      <4> QED  BY <3>1, <4>1 DEF TimerOK
    <3> QED  BY <2>1, <3>2, <3>3, Zenon
  <2> QED  BY <1>1, <2>1, <2>2, Zenon DEF TimerInv
<1>4. RequestInv
  <2>1. PICK s \in Scenes :
          /\ \E own \in [s.requests -> BOOLEAN] :
               request = [r \in Requests |->
                            IF r \notin s.requests
                            THEN [NewRequest(FALSE, 0) EXCEPT !.pc = "absent"]
                            ELSE NewRequest(own[r], IF own[r] THEN r ELSE 0)]
          /\ retry_number = s.retry_number
    BY Zenon DEF Init
  <2>2. retry_number \in 0..MaxRetries  BY <2>1, HTTPCAssumption, Zenon
  <2>3. PICK own \in [s.requests -> BOOLEAN] :
          request = [r \in Requests |->
                       IF r \notin s.requests
                       THEN [NewRequest(FALSE, 0) EXCEPT !.pc = "absent"]
                       ELSE NewRequest(own[r], IF own[r] THEN r ELSE 0)]
    BY <2>1, Zenon
  <2>4. ASSUME NEW o \in BOOLEAN, NEW c, NEW n, n = NewRequest(o, c)
        PROVE  /\ IsRequest(n) /\ n.pc = "new" /\ n.retried = 0 /\ n.executed = 0 /\ n.handled = 0
    <3>1. n \in RequestRec({c})  BY <2>4, Zenon DEF NewRequest, RequestRec
    <3> QED  BY <2>4, <3>1, Zenon DEF IsRequest, NewRequest
  <2>5. ASSUME NEW r \in Requests PROVE RequestOK(request[r])
    <3>1. CASE r \in s.requests
      <4>1. own[r] \in BOOLEAN /\ request[r] = NewRequest(own[r], IF own[r] THEN r ELSE 0)
        BY <2>3, <3>1, Zenon
      <4>2. /\ IsRequest(request[r]) /\ request[r].pc = "new" /\ request[r].retried = 0
            /\ request[r].executed = 0 /\ request[r].handled = 0
        BY <2>4, <4>1
      <4> QED  BY <2>2, <4>2 DEF RequestOK, Counted
    <3>2. CASE r \notin s.requests
      <4> DEFINE n == NewRequest(FALSE, 0)
      <4>1. IsRequest(n) /\ n.retried = 0 /\ n.executed = 0 /\ n.handled = 0  BY <2>4, Zenon
      <4>2. request[r] = [n EXCEPT !.pc = "absent"]  BY <2>3, <3>2, Zenon
      <4> HIDE DEF n
      <4>3. /\ IsRequest(request[r]) /\ request[r].pc = "absent" /\ request[r].retried = n.retried
            /\ request[r].executed = n.executed /\ request[r].handled = n.handled
        BY <4>1, <4>2, SetPc
      <4> QED  BY <2>2, <4>1, <4>3 DEF RequestOK, Counted
    <3> QED  BY <3>1, <3>2, Zenon
  <2>6. request = [r \in Requests |-> request[r]]  BY <2>3, Zenon
  <2> QED  BY <2>2, <2>5, <2>6, Zenon DEF RequestInv
<1>5. Len(queue) = 0 /\ Len(stack) = 0  BY <1>1, EmptySeq, Zenon
<1>6. QueueInv  BY <1>5 DEF QueueInv
<1>7. StackInv
  <2>1. \A t \in Timers : ~Told(timer[t])  BY <1>3, Zenon DEF Told
  <2> QED  BY <1>5, <2>1 DEF StackInv
<1> QED  BY <1>2, <1>3, <1>4, <1>6, <1>7, Zenon DEF IInv

\* Every step keeps it.
LEMMA NextIInv == IInv /\ [Next]_vars => IInv'
<1> SUFFICES ASSUME IInv, [Next]_vars PROVE IInv'  BY Zenon
<1>1. ASSUME NEW t \in Timers, TimerLoopStep(t) PROVE IInv'
  BY <1>1, RunStartKeeps, RunCancelKeeps, OnTimerTriggeredKeeps, FunctorReturnsKeeps,
     CanceledReturnsKeeps, Zenon
  DEF TimerLoopStep, TimerStep
<1>2. ASSUME NEW t \in UserTimers, TimerUser(t), UNCHANGED httpVars PROVE IInv'
  BY <1>2, StartKeeps, CancelKeeps, DropKeeps, CancelInCallbackKeeps, Zenon DEF TimerUser
<1>3. ASSUME NEW r \in Requests, RequestStep(r) PROVE IInv'
  BY <1>3, RunExecuteKeeps, SendsKeeps, FailsToSendKeeps, HandleResponseKeeps,
     HandlerReturnsKeeps, ExecuteInPlaceKeeps, Zenon
  DEF RequestStep
<1>4. ASSUME NEW r \in Requests, Execute(r) \/ ExecuteInHandler(r) PROVE IInv'
  BY <1>4, ExecuteKeeps, ExecuteInPlaceKeeps, Zenon
<1>5. CASE UNCHANGED vars
  <2>1. /\ timer' = timer /\ queue' = queue /\ stack' = stack /\ crashed' = crashed
        /\ request' = request /\ retry_number' = retry_number /\ pool' = pool
    BY <1>5, Zenon DEF vars, timerVars, httpVars
  <2>2. SeqInv' /\ TimerInv'  BY <2>1, SameTimers, Zenon DEF IInv, SeqInv
  <2>3. RequestInv'  BY <2>1, SameRequests, Zenon DEF IInv
  <2>4. QueueInv'  BY <2>1, QueueFrame, Zenon DEF IInv
  <2>5. StackInv'  BY <2>1, SameTimers, StackFrame, Zenon DEF IInv
  <2> QED  BY <2>2, <2>3, <2>4, <2>5, Zenon DEF IInv
<1> QED  BY <1>1, <1>2, <1>3, <1>4, <1>5, ClearKeeps, RunCloseKeeps, Zenon DEF Next, LoopStep

\* The invariant holds always.
THEOREM Inductive == Spec => []IInv
  BY InitIInv, NextIInv, PTL DEF Spec

\* No timer is used after it is freed, by the functor of Start with its plain pointer or
\* by a callback, for any number of timers, of requests and of cancels.
THEOREM TimersNeverUsedFreed == Spec => []NeverUsedFreed
<1>1. IInv => NeverUsedFreed
  <2> SUFFICES ASSUME IInv PROVE NeverUsedFreed  BY Zenon
  <2>1. crashed = FALSE  BY Zenon DEF IInv, TimerInv
  <2>2. ASSUME NEW t \in Timers
        PROVE  /\ timer[t] \in TimerRec
               /\ timer[t].watcher # "null" => timer[t].self
    BY Zenon DEF IInv, TimerInv, TimerOK
  <2>3. TimerTypeOK
    <3>1. ASSUME NEW t \in Timers
          PROVE  /\ {timer[t].every, timer[t].periodic, timer[t].self, timer[t].held,
                     timer[t].started, timer[t].cancelled} \subseteq BOOLEAN
                 /\ timer[t].watcher \in {"null", "armed", "idle"}
                 /\ timer[t].cancels \in 0..MaxCancels
                 /\ timer[t].fired \in 0..2 /\ timer[t].told \in Nat
      BY <2>2, Zenon DEF TimerRec
    <3>2. crashed \in BOOLEAN  BY <2>1, Zenon
    <3> QED  BY <3>1, <3>2, Zenon DEF TimerTypeOK
  <2> QED  BY <2>1, <2>2, <2>3, Zenon DEF NeverUsedFreed
<1> QED  BY <1>1, Inductive, PTL

\* A request is executed retry_number_ + 1 times at most, and its handler is called
\* once, with a good answer or after the last try, for any number of requests.
THEOREM RequestsAsOftenAsSaid == Spec => []AsOftenAsSaid
<1>1. IInv => AsOftenAsSaid
  <2> SUFFICES ASSUME IInv, NEW r \in Requests
               PROVE  /\ request[r].executed <= retry_number + 1
                      /\ request[r].handled <= 1
                      /\ request[r].handled = 1 =>
                           request[r].ok \/ request[r].executed = retry_number + 1
    BY Zenon DEF AsOftenAsSaid
  <2>1. IsRequest(request[r]) /\ Counted(request[r])  BY Zenon DEF IInv, RequestInv, RequestOK
  <2>2. PICK C : request[r] \in RequestRec(C)  BY <2>1, Zenon DEF IsRequest
  <2>3. request[r].retried \in Nat /\ request[r].executed \in Nat /\ retry_number \in Nat
    BY <2>2 DEF RequestRec, IInv, RequestInv
  <2> QED  BY <2>1, <2>3 DEF Counted
<1> QED  BY <1>1, Inductive, PTL

\* What does not tell a timer that it is cancelled.
LEMMA NotTold ==
  ASSUME IInv, NEW t \in Timers, NEW tm, Set(t, tm), tm.told = timer[t].told \/ tm.told = 0,
         NEW u \in Timers
  PROVE  ~(timer'[u].told > timer[u].told)
<1>1. timer' = [v \in Timers |-> IF v = t THEN tm ELSE timer[v]]  BY Zenon DEF IInv, TimerInv, Set
<1>2. timer[u].told \in Nat  BY Zenon DEF IInv, TimerInv, TimerOK, TimerRec
<1>3. timer'[u].told = timer[u].told \/ timer'[u].told = 0  BY <1>1, Zenon
<1> QED  BY <1>2, <1>3

\* The functor of Cancel calls cancel_callback_ of a timer that has been told only
\* while an earlier call of it is open.
LEMMA ToldAgain ==
  ASSUME IInv, NEW t \in Timers, NEW tm, CancelInLoop(t, tm),
         tm = timer[t] \/ tm = [timer[t] EXCEPT !.cancels = @ + 1],
         NEW u \in Timers, timer'[u].told > timer[u].told
  PROVE  u = t /\ (timer[t].told = 0 \/ \E i \in 1..Len(stack) : stack[i] = Call("canceled", t))
<1>1. TimerOK(t, timer[t])  BY Zenon DEF IInv, TimerInv
<1>2. tm.told = timer[t].told /\ tm.watcher = timer[t].watcher  BY <1>1, Zenon DEF TimerOK, TimerRec
<1>3. timer[t].told \in Nat /\ timer[u].told \in Nat  BY Zenon DEF IInv, TimerInv, TimerOK, TimerRec
<1>4. u = t /\ tm.watcher # "null"
  <2>1. PICK w : Set(t, w) /\ (tm.watcher = "null" => w = [tm EXCEPT !.cancelled = @ \/ tm.watcher # "null"])
    BY Zenon DEF CancelInLoop
  <2>2. timer' = [v \in Timers |-> IF v = t THEN w ELSE timer[v]]  BY <2>1, Zenon DEF IInv, TimerInv, Set
  <2>3. u = t  BY <1>3, <2>2
  <2>4. timer'[t] = w  BY <2>2, Zenon
  <2>5. tm.watcher = "null" => w.told = tm.told  BY <1>1, <2>1, Zenon DEF TimerOK, TimerRec
  <2> QED  BY <1>2, <1>3, <2>3, <2>4, <2>5
<1>5. timer[t].told # 0 => Told(timer[t])  BY <1>2, <1>3, <1>4 DEF Told
<1> QED  BY <1>4, <1>5, Zenon DEF IInv, StackInv

\* One step of RunsAsAsked.
LEMMA StepRunsAsAsked ==
  ASSUME IInv, [Next]_vars, NEW t \in Timers
  PROVE  /\ OnTimerTriggered(t) =>
              ~timer[t].cancelled /\ (~timer[t].every => timer[t].fired = 0)
         /\ timer'[t].told > timer[t].told =>
              timer[t].told = 0 \/ At("canceled", t)
<1>1. OnTimerTriggered(t) => ~timer[t].cancelled /\ (~timer[t].every => timer[t].fired = 0)
  BY Zenon DEF OnTimerTriggered, IInv, TimerInv, TimerOK
<1> SUFFICES ASSUME timer'[t].told > timer[t].told
             PROVE  timer[t].told = 0 \/ At("canceled", t)
  BY <1>1, Zenon
<1>2. timer[t].told \in Nat  BY Zenon DEF IInv, TimerInv, TimerOK, TimerRec
<1>3. timer' # timer  BY <1>2
<1>4. ASSUME NEW u \in Timers, RunStart(u) \/ OnTimerTriggered(u) \/ FunctorReturns(u) \/ CanceledReturns(u)
      PROVE  FALSE
  <2>1. timer[u] \in TimerRec  BY Zenon DEF IInv, TimerInv, TimerOK
  <2>2. \A x : /\ [timer[u] EXCEPT !.watcher = x].told = timer[u].told
               /\ [timer[u] EXCEPT !.watcher = "idle", !.fired = x].told = timer[u].told
               /\ [timer[u] EXCEPT !.watcher = "null", !.self = FALSE].told = timer[u].told
    BY <2>1, Zenon DEF TimerRec
  <2>3. CASE RunStart(u)
    <3>1. Set(u, [timer[u] EXCEPT !.watcher = "armed"])  BY <1>3, <2>3, Zenon DEF RunStart, Watch
    <3> QED  BY <2>2, <3>1, NotTold, Zenon
  <2>4. CASE OnTimerTriggered(u)
    <3>1. PICK x : Set(u, [timer[u] EXCEPT !.watcher = "idle", !.fired = x])
      BY <2>4, Zenon DEF OnTimerTriggered
    <3> QED  BY <2>2, <3>1, NotTold, Zenon
  <2>5. CASE FunctorReturns(u) \/ CanceledReturns(u)
    <3>1. \/ Set(u, [timer[u] EXCEPT !.watcher = "armed"])
          \/ Set(u, [timer[u] EXCEPT !.watcher = "null", !.self = FALSE])
      BY <2>5, Zenon DEF FunctorReturns, CanceledReturns, Watch, Release
    <3> QED  BY <2>2, <3>1, NotTold, Zenon
  <2> QED  BY <1>4, <2>3, <2>4, <2>5, Zenon
<1>5. ASSUME NEW u \in Timers, Start(u) \/ Cancel(u) \/ Drop(u) PROVE FALSE
  <2>1. timer[u] \in TimerRec  BY Zenon DEF IInv, TimerInv, TimerOK
  <2>2. PICK tm : Set(u, tm) /\ tm.told = timer[u].told
    BY <1>5, <2>1 DEF Start, Cancel, Drop, TimerRec
  <2> QED  BY <2>2, NotTold, Zenon
<1>6. ASSUME NEW u \in Timers, RunCancel(u) PROVE timer[t].told = 0
  <2>1. CancelInLoop(u, timer[u]) /\ stack = << >>  BY <1>6, Zenon DEF RunCancel, Pending, Idle
  <2>2. Len(stack) = 0  BY <2>1, EmptySeq, Zenon
  <2>3. t = u /\ (timer[u].told = 0 \/ \E i \in 1..Len(stack) : stack[i] = Call("canceled", u))
    BY <2>1, ToldAgain, Zenon
  <2> QED  BY <2>2, <2>3
<1>7. ASSUME NEW u \in Timers, CancelInCallback(u) PROVE timer[t].told = 0 \/ At("canceled", t)
  <2>1. /\ At("functor", u) \/ At("canceled", u)
        /\ CancelInLoop(u, [timer[u] EXCEPT !.cancels = @ + 1])
    BY <1>7, Zenon DEF CancelInCallback
  <2>2. t = u /\ (timer[u].told = 0 \/ \E i \in 1..Len(stack) : stack[i] = Call("canceled", u))
    BY <2>1, ToldAgain, Zenon
  <2>3. CASE At("functor", u)
    <3>1. Len(stack) \in Nat \ {0} /\ stack[1] = Call("functor", u)  BY <2>3, AtHead, Zenon DEF IInv
    <3>2. 1 \in 1..Len(stack)  BY <3>1
    <3>3. Len(stack) = 1  BY <3>1, <3>2, Zenon DEF IInv, StackInv
    <3>4. \A i \in 1..Len(stack) : i = 1  BY <3>3
    <3>5. Call("functor", u) # Call("canceled", u)  BY Zenon DEF Call
    <3> QED  BY <2>2, <3>1, <3>4, <3>5, Zenon
  <2> QED  BY <2>1, <2>2, <2>3, Zenon
<1>8. ASSUME NEW r \in Requests, RequestStep(r) PROVE FALSE
  <2>1. ASSUME NEW q, NEW rest, IsRequest(q), q.retried < retry_number, Retry(r, q, rest) PROVE FALSE
    <3>1. RetryTimer(r, q.retried + 1) \in Timers
      <4>1. PICK C : q \in RequestRec(C)  BY <2>1, Zenon DEF IsRequest
      <4>2. q.retried \in Nat /\ retry_number \in 0..MaxRetries /\ MaxRetries \in Nat
        BY <4>1, HTTPCAssumption, Zenon DEF RequestRec, IInv, RequestInv
      <4> DEFINE k == q.retried + 1
      <4>3. k \in 1..MaxRetries  BY <2>1, <4>2
      <4> HIDE DEF k
      <4>4. RetryTimer(r, k) \in Timers  BY <4>3, HTTPCAssumption, Zenon DEF RetryTimer, Requests
      <4> QED  BY <4>4, Zenon DEF k
    <3>2. RunAfter(RetryTimer(r, q.retried + 1))  BY <1>3, <2>1, Zenon DEF Retry
    <3>3. Watch([NewTimer(FALSE, FALSE) EXCEPT !.started = TRUE]).told = 0  BY Zenon DEF Watch, NewTimer
    <3> QED  BY <3>1, <3>2, <3>3, NotTold, Zenon DEF RunAfter
  <2>2. ASSUME NEW made, FailsToSend(r, made) PROVE FALSE
    <3> DEFINE g == IF request[r].conn # 0 THEN [conn |-> request[r].conn, pool |-> pool] ELSE Get
               q == [request[r] EXCEPT !.conn = g.conn, !.executed = @ + 1]
    <3>1. IF q.retried < retry_number THEN Retry(r, q, Tail(stack)) ELSE CallHandler(r, q, Tail(stack))
      BY <2>2, Zenon DEF FailsToSend
    <3> HIDE DEF g
    <3>2. IsRequest(q)
      <4>1. IsRequest(request[r])  BY Zenon DEF IInv, RequestInv, RequestOK
      <4> QED  BY <4>1, Tried, Zenon
    <3> HIDE DEF q
    <3> QED  BY <1>3, <2>1, <3>1, <3>2, Zenon DEF CallHandler
  <2>3. ASSUME NEW ok \in BOOLEAN, HandleResponse(r, ok) PROVE FALSE
    <3> DEFINE q == [request[r] EXCEPT !.ok = ok]
    <3>1. IF ~ok /\ q.retried < retry_number THEN Retry(r, q, stack)
          ELSE CallHandler(r, Recycled(q), stack)
      BY <2>3, Zenon DEF HandleResponse
    <3>2. IsRequest(q)
      <4>1. IsRequest(request[r])  BY Zenon DEF IInv, RequestInv, RequestOK
      <4> QED  BY <4>1, SetOk, Zenon
    <3> HIDE DEF q
    <3> QED  BY <1>3, <2>1, <3>1, <3>2, Zenon DEF CallHandler
  <2> QED  BY <1>3, <1>8, <2>2, <2>3, Zenon DEF RequestStep, RunExecute, Sends, HandlerReturns, RetryFires
<1>9. ASSUME NEW u \in Timers, TimerStep(u) PROVE timer[t].told = 0
  BY <1>4, <1>6, <1>9, Zenon DEF TimerStep
<1>10. ASSUME NEW u \in UserTimers, TimerUser(u) PROVE timer[t].told = 0 \/ At("canceled", t)
  BY <1>5, <1>7, <1>10, TimerAssumption, Zenon DEF TimerUser
<1>11. CASE Next
  <2>1. CASE LoopStep
    <3>1. \A c : ~RunClose(c)  BY <1>3, Zenon DEF RunClose
    <3> QED  BY <1>8, <1>9, <2>1, <3>1, Zenon DEF LoopStep, TimerLoopStep
  <2>2. ~Clear  BY <1>3, Zenon DEF Clear
  <2>3. \A r : ~Execute(r) /\ ~ExecuteInHandler(r)  BY <1>3, Zenon DEF Execute, ExecuteInHandler
  <2> QED  BY <1>10, <1>11, <2>1, <2>2, <2>3, Zenon DEF Next
<1> QED  BY <1>3, <1>11, Zenon DEF vars, timerVars

\* A timer fires never again once a Cancel has found it, and once only when it is not
\* periodic; its cancel callback comes once, but for a user who cancels in it.
THEOREM TimersRunAsAsked == Spec => RunsAsAsked
<1>1. IInv /\ [Next]_vars =>
        [\A t \in Timers :
           /\ OnTimerTriggered(t) =>
                ~timer[t].cancelled /\ (~timer[t].every => timer[t].fired = 0)
           /\ timer'[t].told > timer[t].told =>
                timer[t].told = 0 \/ At("canceled", t)]_timerVars
  BY StepRunsAsAsked, Zenon
<1> QED  BY <1>1, Inductive, PTL DEF Spec, RunsAsAsked

-----------------------------------------------------------------------------
(* The connections: each is in one place.                                  *)

Elems(p) == {p[i] : i \in 1..Len(p)}
Closed(q) == {q[i].id : i \in {j \in 1..Len(q) : q[j].f = "Close"}}
Handlers(s) == {r \in Requests : \E i \in 1..Len(s) : s[i] = Call("handler", r)}

\* A pool by itself.
PoolOK(p) ==
  /\ IsASeq(p) /\ Len(p) <= max_pool_size_
  /\ \A i \in 1..Len(p) : p[i] \in Conns
  /\ \A i, j \in 1..Len(p) : p[i] = p[j] => i = j

\* The connection of a request by itself: its own is not given away before the end.
ConnOK(q) == q.conn \in Conns \cup {0} /\ (q.own /\ q.pc # "done" => q.conn # 0)

\* A request holds a connection that nobody else has; it is there while the request
\* is sent.
HoldInv ==
  /\ \A r \in Requests : ConnOK(request[r])
  /\ \A r, s \in Requests : request[r].conn = request[s].conn => r = s \/ request[r].conn = 0
  /\ \A r \in Requests : request[r].conn \notin Elems(pool) \cup Closed(queue)
  /\ \A r \in Requests : request[r].pc = "sent" => request[r].conn \in inited
  /\ \A r \in Handlers(stack) : request[r].pc = "done"

\* What Clear has given up is bounded, so that a new connection has a name.
PoolInv ==
  /\ PoolOK(pool) /\ Elems(pool) \cap Closed(queue) = {}
  /\ inited \subseteq Conns /\ Closed(queue) \subseteq Conns
  /\ clears \in 0..MaxClears /\ Cardinality(Closed(queue)) <= max_pool_size_ * clears

UseInv == IInv /\ HoldInv /\ PoolInv

\* The constants, and that zero is no connection.
LEMMA ConnFacts ==
  /\ MaxRequests \in Nat /\ max_pool_size_ \in Nat /\ MaxClears \in Nat
  /\ 0 \notin Conns /\ IsFiniteSet(Conns) /\ Requests \subseteq Conns
  /\ Cardinality(Conns) = 2 * MaxRequests + max_pool_size_ * (MaxClears + 1)
<1>1. MaxRequests \in Nat /\ max_pool_size_ \in Nat /\ MaxClears \in Nat  BY HTTPCAssumption
<1> DEFINE n == max_pool_size_ * (MaxClears + 1)
           m == 2 * MaxRequests + n
<1>2. n \in Nat  BY <1>1
<1>3. Conns = 1..m  BY Zenon DEF Conns
<1> HIDE DEF n
<1>4. m \in Nat /\ 0 \notin 1..m /\ 1..MaxRequests \subseteq 1..m  BY <1>1, <1>2
<1>5. m \in Int /\ 1 \in Int /\ (IF 1 > m THEN 0 ELSE m - 1 + 1) = m  BY <1>4
<1> HIDE DEF m
<1>6. IsFiniteSet(1..m) /\ Cardinality(1..m) = m  BY <1>5, FS_Interval
<1> QED  BY <1>1, <1>3, <1>4, <1>6, Zenon DEF Requests, m, n

\* The elements of a pool, and how many there are.
LEMMA PoolCount ==
  ASSUME NEW p, PoolOK(p)
  PROVE  IsFiniteSet(Elems(p)) /\ Cardinality(Elems(p)) = Len(p) /\ Elems(p) \subseteq Conns
<1> DEFINE f == [i \in 1..Len(p) |-> p[i]]
<1>1. PICK S : p \in Seq(S)  BY Zenon DEF PoolOK, IsASeq
<1>2. Len(p) \in Nat  BY <1>1
<1>3. Elems(p) \subseteq Conns  BY Zenon DEF PoolOK, Elems
<1>4. f \in [1..Len(p) -> Elems(p)]  BY Zenon DEF Elems
<1>5. \A a, b \in DOMAIN f : f[a] = f[b] => a = b  BY Zenon DEF PoolOK
<1>6. \A t \in Elems(p) : \E s \in 1..Len(p) : f[s] = t  BY Zenon DEF Elems
<1> HIDE DEF f
<1>7. f \in Bijection(1..Len(p), Elems(p))
  BY <1>4, <1>5, <1>6, Zenon DEF Bijection, Injection, Surjection, IsInjective
<1>8. ExistsBijection(1..Len(p), Elems(p))  BY <1>7, Zenon DEF ExistsBijection
<1>9. IsFiniteSet(Elems(p))  BY <1>2, <1>8, FS_NatBijection, Zenon
<1>10. Cardinality(Elems(p)) = Len(p)  BY <1>2, <1>8, FS_CountingElements, Zenon
<1> QED  BY <1>3, <1>9, <1>10, Zenon

\* The empty pool.
LEMMA PoolEmpty == PoolOK(<< >>) /\ Elems(<< >>) = {}
<1>1. IsASeq(<< >>) /\ Len(<< >>) = 0  BY EmptySeq, Zenon
<1>2. 0 <= max_pool_size_ /\ 1..0 = {}  BY HTTPCAssumption
<1> QED  BY <1>1, <1>2, Zenon DEF PoolOK, Elems

\* Put keeps the pool, or puts a connection at its back.
LEMMA PutKeeps ==
  ASSUME NEW p, PoolOK(p), NEW c \in Conns, c \notin Elems(p)
  PROVE  PoolOK(Put(p, c)) /\ Elems(Put(p, c)) \subseteq Elems(p) \cup {c}
<1>1. CASE Len(p) >= max_pool_size_  BY <1>1, Zenon DEF Put
<1>2. CASE ~(Len(p) >= max_pool_size_)
  <2> DEFINE t == Append(p, c)
  <2>1. /\ IsASeq(t) /\ Len(p) \in Nat /\ Len(t) = Len(p) + 1 /\ t[Len(t)] = c
        /\ \A i \in 1..Len(t) : i # Len(t) => i \in 1..Len(p) /\ t[i] = p[i]
    BY AppendSeq, Zenon DEF PoolOK
  <2>2. Put(p, c) = t  BY <1>2, Zenon DEF Put
  <2> HIDE DEF t
  <2>3. Len(t) <= max_pool_size_  BY <1>2, <2>1, HTTPCAssumption
  <2>4. \A i \in 1..Len(p) : p[i] \in Elems(p)  BY Zenon DEF Elems
  <2>5. \A i \in 1..Len(t) : t[i] \in Conns  BY <2>1, Zenon DEF PoolOK
  <2>6. \A i, j \in 1..Len(t) : t[i] = t[j] => i = j  BY <2>1, <2>4, Zenon DEF PoolOK
  <2>7. \A i \in 1..Len(t) : t[i] \in Elems(p) \cup {c}  BY <2>1, <2>4, Zenon
  <2>8. Elems(t) \subseteq Elems(p) \cup {c}  BY <2>7, Zenon DEF Elems
  <2>9. PoolOK(t)  BY <2>1, <2>3, <2>5, <2>6, Zenon DEF PoolOK
  <2> QED  BY <2>2, <2>8, <2>9, Zenon
<1> QED  BY <1>1, <1>2, Zenon

\* A pool without its back.
LEMMA FrontKeeps ==
  ASSUME NEW p, PoolOK(p), p # << >>
  PROVE  LET t == SubSeq(p, 1, Len(p) - 1) IN
         /\ PoolOK(t) /\ p[Len(p)] \in Elems(p)
         /\ Elems(t) \subseteq Elems(p) \ {p[Len(p)]}
<1> DEFINE t == SubSeq(p, 1, Len(p) - 1)
<1>1. PICK S : p \in Seq(S)  BY Zenon DEF PoolOK, IsASeq
<1>2. Len(p) \in Nat \ {0} /\ Len(p) \in 1..Len(p)  BY <1>1
<1>3. /\ t \in Seq(S) /\ Len(t) = Len(p) - 1
      /\ \A i \in 1..Len(t) : i \in 1..Len(p) /\ i # Len(p) /\ t[i] = p[i]
  <2> DEFINE n == Len(p) - 1
  <2>1. n \in Nat /\ n <= Len(p)  BY <1>2
  <2> HIDE DEF n
  <2>2. SubSeq(p, 1, n) \in Seq(S) /\ Len(SubSeq(p, 1, n)) = n  BY <1>1, <2>1
  <2>3. \A i \in 1..n : SubSeq(p, 1, n)[i] = p[i]  BY <1>1, <2>1
  <2>4. \A i \in 1..n : i \in 1..Len(p) /\ i # Len(p)  BY <1>2, <2>1 DEF n
  <2> QED  BY <2>2, <2>3, <2>4, Zenon DEF n
<1>4. IsASeq(t)  BY <1>3, Zenon DEF IsASeq
<1> HIDE DEF t
<1>5. Len(t) <= max_pool_size_  BY <1>2, <1>3, HTTPCAssumption DEF PoolOK
<1>6. \A i \in 1..Len(t) : t[i] \in Conns  BY <1>3, Zenon DEF PoolOK
<1>7. \A i, j \in 1..Len(t) : t[i] = t[j] => i = j  BY <1>3, Zenon DEF PoolOK
<1>8. p[Len(p)] \in Elems(p)  BY <1>2, Zenon DEF Elems
<1>9. \A i \in 1..Len(t) : t[i] \in Elems(p) /\ t[i] # p[Len(p)]
  <2>1. \A i \in 1..Len(p) : p[i] \in Elems(p)  BY Zenon DEF Elems
  <2> QED  BY <1>2, <1>3, <2>1, Zenon DEF PoolOK
<1>10. Elems(t) \subseteq Elems(p) \ {p[Len(p)]}  BY <1>9, Zenon DEF Elems
<1> QED  BY <1>4, <1>5, <1>6, <1>7, <1>8, <1>10, Zenon DEF PoolOK, t

\* What the queue closes, by its functors.
LEMMA ClosedMember ==
  ASSUME NEW q
  PROVE  /\ \A c \in Closed(q) : \E i \in 1..Len(q) : q[i].f = "Close" /\ q[i].id = c
         /\ \A i \in 1..Len(q) : q[i].f = "Close" => q[i].id \in Closed(q)
  BY Zenon DEF Closed

\* A functor other than Close is queued.
LEMMA ClosedAppend ==
  ASSUME NEW q, IsASeq(q), NEW f, f # "Close", NEW id
  PROVE  Closed(Append(q, Call(f, id))) \subseteq Closed(q)
<1> DEFINE t == Append(q, Call(f, id))
<1>1. /\ Len(t) = Len(q) + 1 /\ t[Len(t)] = Call(f, id)
      /\ \A i \in 1..Len(t) : i # Len(t) => i \in 1..Len(q) /\ t[i] = q[i]
  BY AppendSeq
<1> HIDE DEF t
<1>2. t[Len(t)].f = f
  <2>1. Call(f, id).f = f  BY DEF Call
  <2> QED  BY <1>1, <2>1, Zenon
<1>3. ASSUME NEW c \in Closed(t) PROVE c \in Closed(q)
  <2>1. PICK i \in 1..Len(t) : t[i].f = "Close" /\ t[i].id = c  BY ClosedMember, Zenon
  <2>2. i \in 1..Len(q) /\ t[i] = q[i]  BY <1>1, <1>2, <2>1, Zenon
  <2> QED  BY <2>1, <2>2, ClosedMember, Zenon
<1> QED  BY <1>3, Zenon DEF t

\* The first functor is run.
LEMMA ClosedTail ==
  ASSUME NEW q, IsASeq(q), q # << >>
  PROVE  /\ Closed(Tail(q)) \subseteq Closed(q)
         /\ \A c : Head(q) = Call("Close", c) => c \in Closed(q)
<1> DEFINE t == Tail(q)
<1>1. /\ Len(q) \in Nat \ {0} /\ Head(q) = q[1]
      /\ \A i \in 1..Len(t) : i + 1 \in 1..Len(q) /\ t[i] = q[i + 1]
  BY PopSeq, Zenon
<1>2. 1 \in 1..Len(q)  BY <1>1
<1> HIDE DEF t
<1>3. ASSUME NEW c \in Closed(t) PROVE c \in Closed(q)
  <2>1. PICK i \in 1..Len(t) : t[i].f = "Close" /\ t[i].id = c  BY ClosedMember, Zenon
  <2>2. i + 1 \in 1..Len(q) /\ t[i] = q[i + 1]  BY <1>1, Zenon
  <2> QED  BY <2>1, <2>2, ClosedMember, Zenon
<1>4. ASSUME NEW c, Head(q) = Call("Close", c) PROVE c \in Closed(q)
  <2>1. Call("Close", c).f = "Close" /\ Call("Close", c).id = c  BY DEF Call
  <2>2. q[1].f = "Close" /\ q[1].id = c  BY <1>1, <1>4, <2>1, Zenon
  <2> QED  BY <1>2, <2>2, ClosedMember, Zenon
<1> QED  BY <1>3, <1>4, Zenon DEF t

\* The pool is cleared.
LEMMA ClosedClear ==
  ASSUME NEW q, IsASeq(q), NEW u, IsASeq(u)
  PROVE  Closed(Closes(q, u)) \subseteq Closed(q) \cup Elems(u)
<1> DEFINE t == Closes(q, u)
<1>1. \A i \in 1..Len(t) : IF i \in 1..Len(q) THEN t[i] = q[i]
                           ELSE \E j \in 1..Len(u) : t[i] = Call("Close", u[j])
  BY CloseSeq
<1> HIDE DEF t
<1>2. \A j \in 1..Len(u) : Call("Close", u[j]).id \in Elems(u)  BY Zenon DEF Call, Elems
<1>3. ASSUME NEW c \in Closed(t) PROVE c \in Closed(q) \cup Elems(u)
  <2>1. PICK i \in 1..Len(t) : t[i].f = "Close" /\ t[i].id = c  BY ClosedMember, Zenon
  <2>2. CASE i \in 1..Len(q)  BY <1>1, <2>1, <2>2, ClosedMember, Zenon
  <2>3. CASE i \notin 1..Len(q)
    <3>1. PICK j \in 1..Len(u) : t[i] = Call("Close", u[j])  BY <1>1, <2>3, Zenon
    <3> QED  BY <1>2, <2>1, <3>1, Zenon
  <2> QED  BY <2>2, <2>3, Zenon
<1> QED  BY <1>3, Zenon DEF t

\* A call is made, of a handler or another.
LEMMA HandlersPush ==
  ASSUME NEW s, IsASeq(s), NEW f, NEW id
  PROVE  \A r \in Handlers(<<Call(f, id)>> \o s) : r \in Handlers(s) \/ (f = "handler" /\ r = id)
<1> DEFINE x == Call(f, id)
           t == <<x>> \o s
<1>1. PICK S : s \in Seq(S)  BY Zenon DEF IsASeq
<1> HIDE DEF x
<1>2. t[1] = x /\ \A i \in 1..Len(t) : i # 1 => i - 1 \in 1..Len(s) /\ t[i] = s[i - 1]  BY <1>1
<1> HIDE DEF t
<1>3. \A r : Call("handler", r) = x => f = "handler" /\ r = id  BY Zenon DEF Call, x
<1>4. \A r \in Handlers(t) : r \in Handlers(s) \/ (f = "handler" /\ r = id)
  BY <1>2, <1>3, Zenon DEF Handlers
<1> QED  BY <1>4, Zenon DEF t, x

\* A call returns.
LEMMA HandlersTail ==
  ASSUME NEW s, IsASeq(s), s # << >>
  PROVE  /\ IsASeq(Tail(s)) /\ Handlers(Tail(s)) \subseteq Handlers(s)
         /\ \A r \in Requests : Head(s) = Call("handler", r) => r \in Handlers(s)
<1> DEFINE t == Tail(s)
<1>1. /\ IsASeq(t) /\ Len(s) \in Nat \ {0} /\ Head(s) = s[1]
      /\ \A i \in 1..Len(t) : i + 1 \in 1..Len(s) /\ t[i] = s[i + 1]
  BY PopSeq, Zenon
<1>2. 1 \in 1..Len(s)  BY <1>1
<1> HIDE DEF t
<1>3. \A r \in Handlers(t) : r \in Handlers(s)  BY <1>1, Zenon DEF Handlers
<1>4. \A r \in Requests : Head(s) = Call("handler", r) => r \in Handlers(s)
  BY <1>1, <1>2, Zenon DEF Handlers
<1> QED  BY <1>1, <1>3, <1>4, Zenon DEF t

\* The products of the bound.
LEMMA Times ==
  ASSUME NEW a \in Nat, NEW b \in Nat, NEW c \in Nat, b <= c
  PROVE  a * b \in Nat /\ a * c \in Nat /\ a * b <= a * c /\ a * (b + 1) = a * b + a
<1>1. a * b \in Nat /\ a * c \in Nat /\ a * (b + 1) = a * b + a  OBVIOUS
<1>2. c - b \in Nat /\ c = b + (c - b)  OBVIOUS
<1>3. a * (c - b) \in Nat  BY <1>2
<1>4. a * c = a * b + a * (c - b)  OBVIOUS
<1> QED  BY <1>1, <1>3, <1>4

\* A connection that is made has a name that no other has.
LEMMA FreshIsNew ==
  ASSUME HoldInv, PoolInv, pool = << >>, NEW r \in Requests
  PROVE  /\ Fresh \in Conns /\ Fresh \notin Closed(queue)
         /\ \A s \in Requests : request[s].conn # Fresh
<1> DEFINE T == {request[s].conn : s \in Requests}
           f == [s \in Requests |-> request[s].conn]
           U == T \cup Closed(queue)
<1>1. MaxRequests \in Nat \ {0}
  <2>1. MaxRequests \in Nat  BY ConnFacts, Zenon
  <2> QED  BY <2>1 DEF Requests
<1>2. IsFiniteSet(Requests) /\ Cardinality(Requests) = MaxRequests
  <2>1. 1 \in Int /\ MaxRequests \in Int /\ (IF 1 > MaxRequests THEN 0 ELSE MaxRequests - 1 + 1) = MaxRequests
    BY <1>1
  <2> QED  BY <2>1, FS_Interval DEF Requests
<1>3. f \in Surjection(Requests, T)  BY Zenon DEF Surjection
<1> HIDE DEF f, T
<1>4. IsFiniteSet(T) /\ Cardinality(T) <= MaxRequests  BY <1>2, <1>3, FS_Surjection, Zenon
<1>5. IsFiniteSet(Closed(queue))  BY ConnFacts, FS_Subset, Zenon DEF PoolInv
<1>6. IsFiniteSet(T \cap Closed(queue))  BY <1>4, FS_Intersection, Zenon
<1>7. IsFiniteSet(U) /\ Cardinality(U) = Cardinality(T) + Cardinality(Closed(queue))
                                           - Cardinality(T \cap Closed(queue))
  BY <1>4, <1>5, FS_Union, Zenon
<1>8. /\ Cardinality(T) \in Nat /\ Cardinality(Closed(queue)) \in Nat
      /\ Cardinality(T \cap Closed(queue)) \in Nat
  BY <1>4, <1>5, <1>6, FS_CardinalityType, Zenon
<1> HIDE DEF U
<1>9. Cardinality(U) < Cardinality(Conns)
  <2> DEFINE m == max_pool_size_ * clears
             n == max_pool_size_ * MaxClears
             l == max_pool_size_ * (MaxClears + 1)
  <2>1. clears \in Nat /\ clears <= MaxClears /\ max_pool_size_ \in Nat /\ MaxClears \in Nat
    BY ConnFacts DEF PoolInv
  <2>2. m \in Nat /\ n \in Nat /\ m <= n  BY <2>1, Times, Zenon
  <2>3. MaxClears <= MaxClears  BY <2>1
  <2>4. l = n + max_pool_size_  BY <2>1, <2>3, Times, Zenon
  <2>5. Cardinality(Closed(queue)) <= m  BY Zenon DEF PoolInv
  <2>6. Cardinality(Conns) = 2 * MaxRequests + l  BY ConnFacts, Zenon
  <2> HIDE DEF m, n, l
  <2> QED  BY <1>1, <1>4, <1>7, <1>8, <2>1, <2>2, <2>4, <2>5, <2>6
<1>10. Cardinality(U) \in Nat /\ Cardinality(Conns) \in Nat
  BY <1>7, ConnFacts, FS_CardinalityType, Zenon
<1>11. ~(Conns \subseteq U)
  <2>1. ASSUME Conns \subseteq U PROVE FALSE
    <3>1. Cardinality(Conns) <= Cardinality(U)  BY <1>7, <2>1, FS_Subset, Zenon
    <3> QED  BY <1>9, <1>10, <3>1
  <2> QED  BY <2>1, Zenon
<1>12. Pooled = {}  BY PoolEmpty, Zenon DEF Pooled, Elems
<1>13. InUse \subseteq T  BY Zenon DEF InUse, HeldBy, T
<1>14. Closing = Closed(queue)  BY Zenon DEF Closing, Closed
<1>15. PICK c \in Conns : c \notin U  BY <1>11, Zenon
<1>16. c \notin Pooled \cup InUse \cup Closing  BY <1>12, <1>13, <1>14, <1>15, Zenon DEF U
<1>17. Fresh \in Conns /\ Fresh \notin Pooled \cup InUse \cup Closing  BY <1>15, <1>16, Zenon DEF Fresh
<1>18. ASSUME NEW s \in Requests, request[s].conn # 0 PROVE request[s].conn \in InUse
  <2>1. request[s].conn \in HeldBy(s)  BY <1>18, Zenon DEF HeldBy
  <2> QED  BY <2>1, Zenon DEF InUse
<1>19. Fresh # 0  BY <1>17, ConnFacts, Zenon
<1> QED  BY <1>14, <1>17, <1>18, <1>19, Zenon

\* The connection that ExecuteInLoop has or takes is nobody else's.
LEMMA ConnTaken ==
  ASSUME HoldInv, PoolInv, NEW r \in Requests, NEW g,
         g = IF request[r].conn # 0 THEN [conn |-> request[r].conn, pool |-> pool] ELSE Get
  PROVE  /\ g.conn \in Conns /\ g.conn \notin Closed(queue)
         /\ \A s \in Requests \ {r} : request[s].conn # g.conn
         /\ PoolOK(g.pool) /\ Elems(g.pool) \subseteq Elems(pool) /\ g.conn \notin Elems(g.pool)
<1>1. CASE request[r].conn # 0
  <2>1. g.conn = request[r].conn /\ g.pool = pool  BY <1>1, Zenon
  <2>2. ConnOK(request[r])  BY Zenon DEF HoldInv
  <2> QED  BY <1>1, <2>1, <2>2, Zenon DEF HoldInv, PoolInv, ConnOK
<1>2. CASE request[r].conn = 0 /\ pool = << >>
  <2>1. g.conn = Fresh /\ g.pool = pool  BY <1>2, Zenon DEF Get
  <2> QED  BY <1>2, <2>1, FreshIsNew, PoolEmpty, Zenon DEF PoolInv
<1>3. CASE request[r].conn = 0 /\ pool # << >>
  <2> DEFINE c == pool[Len(pool)]
             t == SubSeq(pool, 1, Len(pool) - 1)
  <2>1. g.conn = c /\ g.pool = t  BY <1>3, Zenon DEF Get
  <2>2. PoolOK(t) /\ c \in Elems(pool) /\ Elems(t) \subseteq Elems(pool) \ {c}
    BY <1>3, FrontKeeps, Zenon DEF PoolInv
  <2> HIDE DEF c, t
  <2>3. c \in Conns  BY <2>2, PoolCount, Zenon DEF PoolInv
  <2>4. c \notin Closed(queue)  BY <2>2, Zenon DEF PoolInv
  <2>5. \A s \in Requests : request[s].conn # c  BY <2>2, ZenonT(30) DEF HoldInv
  <2> QED  BY <2>1, <2>2, <2>3, <2>4, <2>5, Zenon
<1> QED  BY <1>1, <1>2, <1>3, Zenon

\* Fewer functors that close stay within the bound.
LEMMA ClosedBound ==
  ASSUME PoolInv, Closed(queue') \subseteq Closed(queue)
  PROVE  Cardinality(Closed(queue')) <= max_pool_size_ * clears
<1> DEFINE m == max_pool_size_ * clears
<1>1. IsFiniteSet(Closed(queue))  BY ConnFacts, FS_Subset, Zenon DEF PoolInv
<1>2. IsFiniteSet(Closed(queue')) /\ Cardinality(Closed(queue')) <= Cardinality(Closed(queue))
  BY <1>1, FS_Subset, Zenon
<1>3. Cardinality(Closed(queue)) \in Nat /\ Cardinality(Closed(queue')) \in Nat
  BY <1>1, <1>2, FS_CardinalityType, Zenon
<1>4. m \in Nat /\ Cardinality(Closed(queue)) <= m  BY ConnFacts DEF PoolInv
<1> HIDE DEF m
<1> QED  BY <1>2, <1>3, <1>4 DEF m

\* A step that leaves the connections with who has them.
LEMMA ConnsStay ==
  ASSUME HoldInv, PoolInv,
         \A s \in Requests : /\ request'[s].conn = request[s].conn
                             /\ request'[s].own = request[s].own
                             /\ request'[s].pc = "sent" => request[s].pc = "sent"
                             /\ request'[s].pc = "done" <=> request[s].pc = "done",
         pool' = pool, clears' = clears, Closed(queue') \subseteq Closed(queue),
         inited' \subseteq inited, inited \ Closed(queue) \subseteq inited',
         Handlers(stack') \subseteq Handlers(stack)
  PROVE  HoldInv' /\ PoolInv'
<1>1. \A s \in Requests : ConnOK(request'[s])  BY Zenon DEF HoldInv, ConnOK
<1>2. ASSUME NEW r \in Requests, NEW s \in Requests, request'[r].conn = request'[s].conn
      PROVE  r = s \/ request'[r].conn = 0
  <2>1. request[r].conn = request[s].conn  BY <1>2, Zenon
  <2>2. r = s \/ request[r].conn = 0  BY <2>1, Zenon DEF HoldInv
  <2> QED  BY <2>2, Zenon
<1>3. \A r \in Requests : request'[r].conn \notin Elems(pool') \cup Closed(queue')
  BY Zenon DEF HoldInv
<1>4. \A r \in Requests : request'[r].pc = "sent" => request'[r].conn \in inited'
  BY Zenon DEF HoldInv
<1>5. \A r \in Handlers(stack') : request'[r].pc = "done"
  <2>1. Handlers(stack) \subseteq Requests  BY Zenon DEF Handlers
  <2> QED  BY <2>1, Zenon DEF HoldInv
<1>6. HoldInv'  BY <1>1, <1>2, <1>3, <1>4, <1>5, Zenon DEF HoldInv, ConnOK
<1>7. Cardinality(Closed(queue')) <= max_pool_size_ * clears  BY ClosedBound, Zenon
<1>8. PoolInv'  BY <1>7, Zenon DEF PoolInv, PoolOK
<1> QED  BY <1>6, <1>8, Zenon

\* A step of request r with a connection x that no other request has: it takes, keeps or
\* gives it away.
LEMMA ConnMoves ==
  ASSUME HoldInv, PoolInv, NEW r \in Requests, NEW x \in Conns, x \notin Closed(queue),
         \A s \in Requests \ {r} : request[s].conn # x /\ request'[s] = request[s],
         request'[r].conn \in {0, x}, ConnOK(request'[r]),
         request'[r].pc = "sent" => request'[r].conn \in inited',
         request[r].pc = "done" => request'[r].pc = "done",
         \A s \in Handlers(stack') : s \in Handlers(stack) \/ (s = r /\ request'[r].pc = "done"),
         PoolOK(pool'), Elems(pool') \subseteq Elems(pool) \cup {x},
         request'[r].conn = x => x \notin Elems(pool'),
         inited \ {x} \subseteq inited', inited' \subseteq inited \cup {x},
         queue' = queue, clears' = clears
  PROVE  HoldInv' /\ PoolInv'
<1>0. 0 \notin Conns  BY ConnFacts, Zenon
<1>1. \A s \in Requests : ConnOK(request'[s])  BY Zenon DEF HoldInv
<1>2. ASSUME NEW a \in Requests, NEW b \in Requests, request'[a].conn = request'[b].conn,
             a # b, request'[a].conn # 0
      PROVE  FALSE
  <2>1. CASE a = r  BY <1>2, <2>1, Zenon
  <2>2. CASE b = r  BY <1>2, <2>2, Zenon
  <2>3. CASE a # r /\ b # r  BY <1>2, <2>3, Zenon DEF HoldInv
  <2> QED  BY <2>1, <2>2, <2>3, Zenon
<1>3. ASSUME NEW a \in Requests PROVE request'[a].conn \notin Elems(pool') \cup Closed(queue')
  <2>1. Elems(pool') \subseteq Conns /\ Closed(queue) \subseteq Conns
    BY PoolCount, Zenon DEF PoolInv
  <2>2. CASE a = r /\ request'[r].conn = 0  BY <1>0, <2>1, <2>2, Zenon
  <2>3. CASE a = r /\ request'[r].conn = x  BY <2>3, Zenon
  <2>4. CASE a # r  BY <2>4, Zenon DEF HoldInv
  <2> QED  BY <2>2, <2>3, <2>4, Zenon
<1>4. \A s \in Requests : request'[s].pc = "sent" => request'[s].conn \in inited'
  BY Zenon DEF HoldInv
<1>5. \A s \in Handlers(stack') : request'[s].pc = "done"
  <2>1. Handlers(stack) \subseteq Requests  BY Zenon DEF Handlers
  <2> QED  BY <2>1, Zenon DEF HoldInv
<1>6. HoldInv'  BY <1>1, <1>2, <1>3, <1>4, <1>5, Zenon DEF HoldInv, ConnOK
<1>7. PoolInv'
  <2>1. Elems(pool') \cap Closed(queue') = {}  BY Zenon DEF PoolInv
  <2>2. inited' \subseteq Conns  BY Zenon DEF PoolInv
  <2>3. Cardinality(Closed(queue')) <= max_pool_size_ * clears'  BY Zenon DEF PoolInv
  <2> QED  BY <2>1, <2>2, <2>3, Zenon DEF PoolInv, PoolOK
<1> QED  BY <1>6, <1>7, Zenon

\* The fields that an assignment leaves alone.
LEMMA Fields ==
  ASSUME NEW p, IsRequest(p), NEW x
  PROVE  /\ [p EXCEPT !.pc = x].pc = x /\ [p EXCEPT !.pc = x].own = p.own
         /\ [p EXCEPT !.pc = x].conn = p.conn
         /\ [p EXCEPT !.conn = x].pc = p.pc /\ [p EXCEPT !.conn = x].own = p.own
         /\ [p EXCEPT !.conn = x].conn = x
         /\ [p EXCEPT !.executed = x].pc = p.pc /\ [p EXCEPT !.executed = x].own = p.own
         /\ [p EXCEPT !.executed = x].conn = p.conn
         /\ [p EXCEPT !.retried = x].own = p.own /\ [p EXCEPT !.retried = x].conn = p.conn
         /\ [p EXCEPT !.ok = x].pc = p.pc /\ [p EXCEPT !.ok = x].own = p.own
         /\ [p EXCEPT !.ok = x].conn = p.conn
<1>1. PICK C : p \in RequestRec(C)  BY Zenon DEF IsRequest
<1>2. /\ [p EXCEPT !.pc = x].pc = x /\ [p EXCEPT !.pc = x].own = p.own
      /\ [p EXCEPT !.pc = x].conn = p.conn
  BY <1>1, Zenon DEF RequestRec
<1>3. /\ [p EXCEPT !.conn = x].pc = p.pc /\ [p EXCEPT !.conn = x].own = p.own
      /\ [p EXCEPT !.conn = x].conn = x
  BY <1>1, Zenon DEF RequestRec
<1>4. /\ [p EXCEPT !.executed = x].pc = p.pc /\ [p EXCEPT !.executed = x].own = p.own
      /\ [p EXCEPT !.executed = x].conn = p.conn
  BY <1>1, Zenon DEF RequestRec
<1>5. [p EXCEPT !.retried = x].own = p.own /\ [p EXCEPT !.retried = x].conn = p.conn
  BY <1>1, Zenon DEF RequestRec
<1>6. /\ [p EXCEPT !.ok = x].pc = p.pc /\ [p EXCEPT !.ok = x].own = p.own
      /\ [p EXCEPT !.ok = x].conn = p.conn
  BY <1>1, Zenon DEF RequestRec
<1> QED  BY <1>2, <1>3, <1>4, <1>5, <1>6, Zenon

\* Recycling takes the connection away, unless it is the request's own.
LEMMA RecycledConn ==
  ASSUME NEW p, IsRequest(p)
  PROVE  Recycled(p).own = p.own /\ Recycled(p).conn = IF p.own THEN p.conn ELSE 0
<1>1. CASE p.own  BY <1>1, Zenon DEF Recycled
<1>2. CASE ~p.own
  <2>1. Recycled(p) = [p EXCEPT !.conn = 0]  BY <1>2, Zenon DEF Recycled
  <2>2. [p EXCEPT !.conn = 0].own = p.own /\ [p EXCEPT !.conn = 0].conn = 0  BY Fields, Zenon
  <2> QED  BY <1>2, <2>1, <2>2, Zenon
<1> QED  BY <1>1, <1>2, Zenon

\* An assignment to one request.
LEMMA OneRequest ==
  ASSUME RequestInv, NEW r \in Requests, NEW q, request' = [request EXCEPT ![r] = q]
  PROVE  request'[r] = q /\ \A s \in Requests \ {r} : request'[s] = request[s]
<1>1. request' = [s \in Requests |-> IF s = r THEN q ELSE request[s]]  BY Zenon DEF RequestInv
<1> QED  BY <1>1, Zenon

\* An assignment to pc.
LEMMA PcMoves ==
  ASSUME RequestInv, NEW r \in Requests, NEW x, request' = [request EXCEPT ![r].pc = x],
         x \notin {"sent", "done"}, request[r].pc # "done"
  PROVE  \A s \in Requests : /\ request'[s].conn = request[s].conn
                             /\ request'[s].own = request[s].own
                             /\ request'[s].pc = "sent" => request[s].pc = "sent"
                             /\ request'[s].pc = "done" <=> request[s].pc = "done"
<1> DEFINE q == [request[r] EXCEPT !.pc = x]
<1>1. request' = [request EXCEPT ![r] = q]  BY Zenon
<1>2. IsRequest(request[r])  BY Zenon DEF RequestInv, RequestOK
<1>3. q.pc = x /\ q.own = request[r].own /\ q.conn = request[r].conn  BY <1>2, Fields, ZenonT(30)
<1> HIDE DEF q
<1>4. request'[r] = q /\ \A s \in Requests \ {r} : request'[s] = request[s]
  BY <1>1, OneRequest, Zenon
<1> QED  BY <1>3, <1>4, Zenon

\* What Retry does to the request and to the stack.
LEMMA RetryMoves ==
  ASSUME RequestInv, NEW r \in Requests, NEW q, IsRequest(q), NEW rest, Retry(r, q, rest)
  PROVE  /\ \A s \in Requests \ {r} : request'[s] = request[s]
         /\ request'[r].conn = IF q.own THEN q.conn ELSE 0
         /\ request'[r].own = q.own /\ request'[r].pc \in {"retrying", "executing"}
         /\ stack' = rest \/ stack' = <<Call("execute", r)>> \o rest
<1> DEFINE k == q.retried + 1
           a == [q EXCEPT !.retried = k]
           p == Recycled(a)
           w == [p EXCEPT !.pc = "retrying"]
           e == [p EXCEPT !.pc = "executing"]
<1>1. PICK C : q \in RequestRec(C)  BY Zenon DEF IsRequest
<1>2. k \in Nat  BY <1>1 DEF RequestRec
<1>3. /\ request' = [request EXCEPT ![r] = w] \/ request' = [request EXCEPT ![r] = e]
      /\ stack' = rest \/ stack' = <<Call("execute", r)>> \o rest
  BY Zenon DEF Retry
<1> HIDE DEF k
<1>4. IsRequest(a)  BY <1>2, SetRetried
<1>5. a.own = q.own /\ a.conn = q.conn  BY Fields, Zenon
<1> HIDE DEF a
<1>6. IsRequest(p)  BY <1>4, RecycledKeeps, Zenon
<1>7. p.own = a.own /\ p.conn = IF a.own THEN a.conn ELSE 0
  BY <1>4, RecycledConn, Zenon
<1> HIDE DEF p
<1>8. /\ w.own = p.own /\ w.conn = p.conn /\ w.pc = "retrying"
      /\ e.own = p.own /\ e.conn = p.conn /\ e.pc = "executing"
  BY <1>6, Fields, ZenonT(30)
<1> HIDE DEF w, e
<1>9. (request'[r] = w \/ request'[r] = e) /\ \A s \in Requests \ {r} : request'[s] = request[s]
  BY <1>3, OneRequest, Zenon
<1> QED  BY <1>3, <1>5, <1>7, <1>8, <1>9, Zenon

\* What the call of the handler does to them.
LEMMA CallHandlerMoves ==
  ASSUME RequestInv, NEW r \in Requests, NEW q, IsRequest(q), NEW rest, CallHandler(r, q, rest)
  PROVE  /\ \A s \in Requests \ {r} : request'[s] = request[s]
         /\ request'[r].conn = q.conn /\ request'[r].own = q.own /\ request'[r].pc = "done"
         /\ stack' = <<Call("handler", r)>> \o rest
<1> DEFINE d == [q EXCEPT !.pc = "done", !.handled = @ + 1]
<1>1. PICK C : q \in RequestRec(C)  BY Zenon DEF IsRequest
<1>2. request' = [request EXCEPT ![r] = d] /\ stack' = <<Call("handler", r)>> \o rest
  BY Zenon DEF CallHandler
<1>3. d.conn = q.conn /\ d.own = q.own /\ d.pc = "done"  BY <1>1, Zenon DEF RequestRec
<1> HIDE DEF d
<1>4. request'[r] = d /\ \A s \in Requests \ {r} : request'[s] = request[s]
  BY <1>2, OneRequest, Zenon
<1> QED  BY <1>2, <1>3, <1>4, Zenon

-----------------------------------------------------------------------------
(* The steps.                                                              *)

\* The timers of the user and of the retries.
LEMMA TimerConns ==
  ASSUME UseInv, UNCHANGED httpVars, NEW t \in Timers, TimerStep(t) \/ TimerUser(t)
  PROVE  HoldInv' /\ PoolInv'
<1>1. request' = request /\ pool' = pool /\ inited' = inited /\ clears' = clears
  BY Zenon DEF httpVars
<1>2. IsASeq(queue) /\ IsASeq(stack)  BY Zenon DEF UseInv, IInv, SeqInv
<1>3. Closed(queue') \subseteq Closed(queue)
  <2>1. CASE queue' = queue  BY <2>1, Zenon
  <2>2. CASE Start(t)
    <3>1. queue' = Append(queue, Call("Start", t))  BY <2>2, Zenon DEF Start
    <3> QED  BY <1>2, <3>1, ClosedAppend
  <2>3. CASE Cancel(t)
    <3>1. queue' = Append(queue, Call("Cancel", t))  BY <2>3, Zenon DEF Cancel
    <3> QED  BY <1>2, <3>1, ClosedAppend
  <2>4. CASE RunStart(t) \/ RunCancel(t)
    <3>1. queue' = Tail(queue) /\ queue # << >>  BY <2>4, Zenon DEF RunStart, RunCancel, Pending
    <3> QED  BY <1>2, <3>1, ClosedTail, Zenon
  <2> QED
    BY <2>1, <2>2, <2>3, <2>4, Zenon
    DEF TimerStep, TimerUser, Drop, CancelInCallback, OnTimerTriggered, FunctorReturns, CanceledReturns
<1>4. Handlers(stack') \subseteq Handlers(stack)
  <2>1. CASE stack' = stack  BY <2>1, Zenon
  <2>2. CASE stack' = <<Call("canceled", t)>> \o stack
    <3>1. "canceled" # "handler"  OBVIOUS
    <3> QED  BY <1>2, <2>2, <3>1, HandlersPush, Zenon
  <2>3. CASE OnTimerTriggered(t)
    <3>1. stack' = <<Call("functor", t)>> /\ stack = << >>
      BY <2>3, Zenon DEF OnTimerTriggered, Idle
    <3>2. stack' = <<Call("functor", t)>> \o stack  BY <3>1, FirstOnStack, Zenon
    <3>3. "functor" # "handler"  OBVIOUS
    <3> QED  BY <1>2, <3>2, <3>3, HandlersPush, Zenon
  <2>4. CASE FunctorReturns(t) \/ CanceledReturns(t)
    <3>1. stack' = Tail(stack) /\ stack # << >>
      BY <2>4, Zenon DEF FunctorReturns, CanceledReturns, At
    <3> QED  BY <1>2, <3>1, HandlersTail, Zenon
  <2> QED
    BY <2>1, <2>2, <2>3, <2>4, Zenon
    DEF TimerStep, TimerUser, Start, Cancel, Drop, RunStart, RunCancel, CancelInCallback, CancelInLoop
<1> QED  BY <1>1, <1>3, <1>4, ConnsStay, Zenon DEF UseInv

\* Execute, and the ways in which ExecuteInLoop is entered.
LEMMA EnterConns ==
  ASSUME UseInv, NEW r \in Requests,
         \/ Execute(r) \/ ExecuteInHandler(r) \/ RunExecute(r)
         \/ \E k \in 1..MaxRetries : RetryFires(r, k)
  PROVE  HoldInv' /\ PoolInv'
<1>0. IsASeq(queue) /\ IsASeq(stack) /\ RequestInv  BY Zenon DEF UseInv, IInv, SeqInv
<1>1. /\ pool' = pool /\ inited' = inited /\ clears' = clears
      /\ \/ stack' = stack \/ stack' = <<Call("execute", r)>> \o stack
         \/ stack' = <<Call("execute", r)>> /\ stack = << >>
      /\ \/ queue' = queue \/ queue' = Append(queue, Call("Execute", r))
         \/ queue' = Tail(queue) /\ queue # << >>
      /\ \/ request' = [request EXCEPT ![r].pc = "posted"]
         \/ request' = [request EXCEPT ![r].pc = "executing"]
  BY Zenon DEF Execute, ExecuteInHandler, RunExecute, RetryFires, Pending, Idle
<1>2. request[r].pc # "done"
  <2>1. CASE Pending("Execute", r)
    <3>1. 1 \in 1..Len(queue) /\ queue[1] = Call("Execute", r)
      <4>1. queue # << >> /\ Head(queue) = Call("Execute", r)  BY <2>1, Zenon DEF Pending
      <4>2. Len(queue) \in Nat \ {0} /\ Head(queue) = queue[1]  BY <1>0, <4>1, PopSeq, Zenon
      <4>3. 1 \in 1..Len(queue)  BY <4>2
      <4> QED  BY <4>1, <4>2, <4>3, Zenon
    <3>2. request[r].pc = "posted"  BY <3>1, Zenon DEF UseInv, IInv, QueueInv
    <3> QED  BY <3>2, Zenon
  <2>2. CASE request[r].pc \in {"new", "retrying"}  BY <2>2, Zenon
  <2> QED  BY <2>1, <2>2, Zenon DEF Execute, ExecuteInHandler, RunExecute, RetryFires
<1>3. \A s \in Requests : /\ request'[s].conn = request[s].conn
                          /\ request'[s].own = request[s].own
                          /\ request'[s].pc = "sent" => request[s].pc = "sent"
                          /\ request'[s].pc = "done" <=> request[s].pc = "done"
  <2>1. "posted" \notin {"sent", "done"} /\ "executing" \notin {"sent", "done"}  OBVIOUS
  <2>2. CASE request' = [request EXCEPT ![r].pc = "posted"]
    BY <1>0, <1>2, <2>1, <2>2, PcMoves, Zenon
  <2>3. CASE request' = [request EXCEPT ![r].pc = "executing"]
    BY <1>0, <1>2, <2>1, <2>3, PcMoves, Zenon
  <2> QED  BY <1>1, <2>2, <2>3, Zenon
<1>4. Closed(queue') \subseteq Closed(queue)
  <2>1. "Execute" # "Close"  OBVIOUS
  <2> QED  BY <1>0, <1>1, <2>1, ClosedAppend, ClosedTail, Zenon
<1>5. Handlers(stack') \subseteq Handlers(stack)
  <2>1. "execute" # "handler"  OBVIOUS
  <2>2. stack' = stack \/ stack' = <<Call("execute", r)>> \o stack  BY <1>1, FirstOnStack, Zenon
  <2> QED  BY <1>0, <2>1, <2>2, HandlersPush, Zenon
<1> QED  BY <1>1, <1>3, <1>4, <1>5, ConnsStay, Zenon DEF UseInv

\* ExecuteInLoop makes the request on a connection.
LEMMA SendsConns ==
  ASSUME UseInv, NEW r \in Requests, Sends(r)  PROVE HoldInv' /\ PoolInv'
<1> DEFINE g == IF request[r].conn # 0 THEN [conn |-> request[r].conn, pool |-> pool] ELSE Get
<1>1. /\ At("execute", r) /\ pool' = g.pool /\ inited' = inited \cup {g.conn}
      /\ stack' = Tail(stack) /\ queue' = queue /\ clears' = clears
      /\ request' = [request EXCEPT ![r].pc = "sent", ![r].conn = g.conn, ![r].executed = @ + 1]
  BY Zenon DEF Sends, ConnInit
<1>2. /\ g.conn \in Conns /\ g.conn \notin Closed(queue)
      /\ \A s \in Requests \ {r} : request[s].conn # g.conn
      /\ PoolOK(g.pool) /\ Elems(g.pool) \subseteq Elems(pool) /\ g.conn \notin Elems(g.pool)
  BY ConnTaken, Zenon DEF UseInv
<1> HIDE DEF g
<1>3. RequestOK(request[r]) /\ request[r].pc = "executing"  BY <1>1, Executing, Zenon DEF UseInv
<1>4. /\ request'[r].conn = g.conn /\ request'[r].pc = "sent"
      /\ \A s \in Requests \ {r} : request'[s] = request[s]
  <2>1. PICK C : request[r] \in RequestRec(C)  BY <1>3, Zenon DEF RequestOK, IsRequest
  <2>2. request = [s \in Requests |-> request[s]]  BY Zenon DEF UseInv, IInv, RequestInv
  <2> QED  BY <1>1, <2>1, <2>2, Zenon DEF RequestRec
<1>5. Handlers(stack') \subseteq Handlers(stack)
  BY <1>1, HandlersTail, Zenon DEF At, UseInv, IInv, SeqInv
<1>6. g.conn # 0 /\ ConnOK(request'[r])  BY <1>2, <1>4, ConnFacts, Zenon DEF ConnOK
<1>7. \A s \in Requests \ {r} : request[s].conn # g.conn /\ request'[s] = request[s]
  BY <1>2, <1>4, Zenon
<1>8. /\ PoolOK(pool') /\ Elems(pool') \subseteq Elems(pool) \cup {g.conn}
      /\ g.conn \notin Elems(pool')
  BY <1>1, <1>2, Zenon
<1>9. inited \ {g.conn} \subseteq inited' /\ inited' \subseteq inited \cup {g.conn} /\ g.conn \in inited'
  BY <1>1, Zenon
<1>10. request'[r].conn \in {0, g.conn} /\ request'[r].conn \in inited' /\ request[r].pc # "done"
  BY <1>3, <1>4, <1>9, Zenon
<1> QED  BY <1>1, <1>2, <1>5, <1>6, <1>7, <1>8, <1>9, <1>10, ConnMoves, Zenon DEF UseInv

\* ExecuteInLoop fails.
LEMMA FailsConns ==
  ASSUME UseInv, NEW r \in Requests, NEW made, FailsToSend(r, made)  PROVE HoldInv' /\ PoolInv'
<1> DEFINE g == IF request[r].conn # 0 THEN [conn |-> request[r].conn, pool |-> pool] ELSE Get
           q == [request[r] EXCEPT !.conn = g.conn, !.executed = @ + 1]
<1>1. /\ At("execute", r) /\ queue' = queue /\ clears' = clears
      /\ IF q.retried < retry_number
         THEN Retry(r, q, Tail(stack)) /\ pool' = IF q.own THEN pool ELSE Put(g.pool, q.conn)
         ELSE CallHandler(r, q, Tail(stack)) /\ pool' = g.pool
      /\ inited \ {g.conn} \subseteq inited' /\ inited' \subseteq inited \cup {g.conn}
  BY Zenon DEF FailsToSend, ConnInit, ConnClose
<1>2. /\ g.conn \in Conns /\ g.conn \notin Closed(queue)
      /\ \A s \in Requests \ {r} : request[s].conn # g.conn
      /\ PoolOK(g.pool) /\ Elems(g.pool) \subseteq Elems(pool) /\ g.conn \notin Elems(g.pool)
  BY ConnTaken, Zenon DEF UseInv
<1>3. RequestOK(request[r]) /\ request[r].pc = "executing"  BY <1>1, Executing, Zenon DEF UseInv
<1>4. request[r].own => g.pool = pool
  <2>1. ConnOK(request[r])  BY Zenon DEF UseInv, HoldInv
  <2>2. request[r].own => request[r].conn # 0  BY <1>3, <2>1, Zenon DEF ConnOK
  <2> QED  BY <2>2, Zenon
<1> HIDE DEF g
<1>5. IsRequest(q) /\ q.conn = g.conn /\ q.own = request[r].own
  <2>1. PICK C : request[r] \in RequestRec(C)  BY <1>3, Zenon DEF RequestOK, IsRequest
  <2>2. q.conn = g.conn /\ q.own = request[r].own  BY <2>1, Zenon DEF RequestRec
  <2>3. IsRequest(request[r])  BY <1>3, Zenon DEF RequestOK
  <2>4. IsRequest(q)  BY <2>3, Tried, ZenonT(30)
  <2> QED  BY <2>2, <2>4, Zenon
<1> HIDE DEF q
<1>6. g.conn # 0  BY <1>2, ConnFacts, Zenon
<1>7. RequestInv /\ IsASeq(stack) /\ stack # << >>  BY <1>1, Zenon DEF UseInv, IInv, SeqInv, At
<1>8. IsASeq(Tail(stack)) /\ Handlers(Tail(stack)) \subseteq Handlers(stack)
  BY <1>7, HandlersTail, Zenon
<1>9. CASE q.retried < retry_number
  <2>1. /\ \A s \in Requests \ {r} : request'[s] = request[s]
        /\ request'[r].conn = IF q.own THEN q.conn ELSE 0
        /\ request'[r].own = q.own /\ request'[r].pc \in {"retrying", "executing"}
        /\ stack' = Tail(stack) \/ stack' = <<Call("execute", r)>> \o Tail(stack)
    BY <1>1, <1>5, <1>7, <1>9, RetryMoves, Zenon
  <2>2. "execute" # "handler"  OBVIOUS
  <2>3. \A s \in Handlers(stack') : s \in Handlers(stack)
    BY <1>8, <2>1, <2>2, HandlersPush, Zenon
  <2>4. ConnOK(request'[r]) /\ request'[r].conn \in {0, g.conn}
    BY <1>2, <1>5, <1>6, <2>1, Zenon DEF ConnOK
  <2>5. PoolOK(Put(g.pool, g.conn)) /\ Elems(Put(g.pool, g.conn)) \subseteq Elems(g.pool) \cup {g.conn}
    BY <1>2, PutKeeps, Zenon
  <2>6. pool' = IF q.own THEN g.pool ELSE Put(g.pool, g.conn)  BY <1>1, <1>4, <1>5, <1>9, Zenon
  <2>7. PoolOK(pool') /\ Elems(pool') \subseteq Elems(pool) \cup {g.conn}
    BY <1>2, <2>5, <2>6, Zenon
  <2>8. request'[r].conn = g.conn => g.conn \notin Elems(pool')
    BY <1>2, <1>6, <2>1, <2>6, Zenon
  <2>9. request'[r].pc # "sent"  BY <2>1, Zenon
  <2> QED
    BY <1>1, <1>2, <1>3, <2>1, <2>3, <2>4, <2>7, <2>8, <2>9, ConnMoves, Zenon DEF UseInv
<1>10. CASE ~(q.retried < retry_number)
  <2>1. /\ \A s \in Requests \ {r} : request'[s] = request[s]
        /\ request'[r].conn = q.conn /\ request'[r].pc = "done"
        /\ stack' = <<Call("handler", r)>> \o Tail(stack)
    BY <1>1, <1>5, <1>7, <1>10, CallHandlerMoves, Zenon
  <2>2. \A s \in Handlers(stack') : s \in Handlers(stack) \/ s = r
    BY <1>8, <2>1, HandlersPush, Zenon
  <2>3. ConnOK(request'[r])  BY <1>2, <1>5, <2>1, Zenon DEF ConnOK
  <2>4. pool' = g.pool  BY <1>1, <1>10, Zenon
  <2>5. request'[r].pc # "sent"  BY <2>1, Zenon
  <2> QED
    BY <1>1, <1>2, <1>5, <2>1, <2>2, <2>3, <2>4, <2>5, ConnMoves, Zenon DEF UseInv
<1> QED  BY <1>9, <1>10, Zenon

\* The answer: the connection is given back to the pool, or is the request's own.
LEMMA ResponseConns ==
  ASSUME UseInv, NEW r \in Requests, NEW ok \in BOOLEAN, HandleResponse(r, ok)
  PROVE  HoldInv' /\ PoolInv'
<1> DEFINE q == [request[r] EXCEPT !.ok = ok]
           p == Recycled(q)
           x == request[r].conn
           own == request[r].own
<1>1. /\ request[r].pc = "sent" /\ Recycle(request[r])
      /\ queue' = queue /\ clears' = clears
      /\ Retry(r, q, stack) \/ CallHandler(r, p, stack)
  BY Zenon DEF HandleResponse
<1>2. x \in Conns /\ x # 0 /\ x \in inited /\ x \notin Elems(pool) /\ x \notin Closed(queue)
  BY <1>1, ConnFacts, Zenon DEF UseInv, HoldInv, PoolInv
<1>3. \A s \in Requests \ {r} : request[s].conn # x  BY <1>2, Zenon DEF UseInv, HoldInv
<1>4. IsRequest(request[r]) /\ RequestInv /\ IsASeq(stack)
  BY Zenon DEF UseInv, IInv, SeqInv, RequestInv, RequestOK
<1>5. IsRequest(q) /\ q.own = own /\ q.conn = x
  <2>1. IsRequest(q)  BY <1>4, SetOk
  <2> QED  BY <1>4, <2>1, Fields, Zenon
<1> HIDE DEF q
<1>6. IsRequest(p) /\ p.own = own /\ p.conn = IF own THEN x ELSE 0
  <2>1. IsRequest(p)  BY <1>5, RecycledKeeps, Zenon
  <2>2. p.own = own /\ p.conn = IF own THEN x ELSE 0  BY <1>5, RecycledConn, Zenon
  <2> QED  BY <2>1, <2>2, Zenon
<1> HIDE DEF p
<1>7. /\ \A s \in Requests \ {r} : request'[s] = request[s]
      /\ request'[r].conn = IF own THEN x ELSE 0
      /\ request'[r].own = own /\ request'[r].pc \in {"retrying", "executing", "done"}
      /\ \/ stack' = stack \/ stack' = <<Call("execute", r)>> \o stack
         \/ stack' = <<Call("handler", r)>> \o stack /\ request'[r].pc = "done"
  <2>1. CASE Retry(r, q, stack)
    <3>1. /\ \A s \in Requests \ {r} : request'[s] = request[s]
          /\ request'[r].conn = IF q.own THEN q.conn ELSE 0
          /\ request'[r].own = q.own /\ request'[r].pc \in {"retrying", "executing"}
          /\ stack' = stack \/ stack' = <<Call("execute", r)>> \o stack
      BY <1>4, <1>5, <2>1, RetryMoves, Zenon
    <3> QED  BY <1>5, <3>1, Zenon
  <2>2. CASE CallHandler(r, p, stack)
    <3>1. /\ \A s \in Requests \ {r} : request'[s] = request[s]
          /\ request'[r].conn = p.conn /\ request'[r].own = p.own /\ request'[r].pc = "done"
          /\ stack' = <<Call("handler", r)>> \o stack
      BY <1>4, <1>6, <2>2, CallHandlerMoves, Zenon
    <3> QED  BY <1>6, <3>1, Zenon
  <2> QED  BY <1>1, <2>1, <2>2, Zenon
<1>8. \A s \in Handlers(stack') : s \in Handlers(stack) \/ (s = r /\ request'[r].pc = "done")
  <2>1. CASE stack' = stack  BY <2>1, Zenon
  <2>2. CASE stack' = <<Call("execute", r)>> \o stack
    <3>1. "execute" # "handler"  OBVIOUS
    <3> QED  BY <1>4, <2>2, <3>1, HandlersPush, Zenon
  <2>3. CASE stack' = <<Call("handler", r)>> \o stack /\ request'[r].pc = "done"
    BY <1>4, <2>3, HandlersPush, Zenon
  <2> QED  BY <1>7, <2>1, <2>2, <2>3, Zenon
<1>9. ConnOK(request'[r]) /\ request'[r].conn \in {0, x} /\ request'[r].pc # "sent"
  BY <1>2, <1>7, Zenon DEF ConnOK
<1>10. /\ pool' = IF own THEN pool ELSE Put(pool, x)
       /\ inited \ {x} \subseteq inited' /\ inited' \subseteq inited \cup {x}
  BY <1>1, Zenon DEF Recycle, ConnClose
<1>11. PoolOK(pool) /\ PoolOK(Put(pool, x)) /\ Elems(Put(pool, x)) \subseteq Elems(pool) \cup {x}
  BY <1>2, PutKeeps, Zenon DEF UseInv, PoolInv
<1>12. /\ PoolOK(pool') /\ Elems(pool') \subseteq Elems(pool) \cup {x}
       /\ request'[r].conn = x => x \notin Elems(pool')
  BY <1>2, <1>7, <1>10, <1>11, Zenon
<1>13. request[r].pc # "done"  BY <1>1, Zenon
<1> HIDE DEF x, own
<1> QED
  BY <1>1, <1>2, <1>3, <1>7, <1>8, <1>9, <1>10, <1>12, <1>13, ConnMoves, Zenon DEF UseInv

\* The handler returns, and the connection that the request still has is deleted.
LEMMA ReturnConns ==
  ASSUME UseInv, NEW r \in Requests, HandlerReturns(r)  PROVE HoldInv' /\ PoolInv'
<1> DEFINE q == [request[r] EXCEPT !.conn = 0]
           x == request[r].conn
<1>1. /\ At("handler", r) /\ stack' = Tail(stack) /\ pool' = pool /\ queue' = queue
      /\ clears' = clears /\ inited' = inited \ HeldBy(r) /\ request' = [request EXCEPT ![r] = q]
  BY Zenon DEF HandlerReturns
<1>2. IsRequest(request[r]) /\ RequestInv /\ IsASeq(stack)
  BY Zenon DEF UseInv, IInv, SeqInv, RequestInv, RequestOK
<1>3. Handlers(stack') \subseteq Handlers(stack) /\ r \in Handlers(stack)
  BY <1>1, <1>2, HandlersTail, Zenon DEF At
<1>4. request[r].pc = "done"  BY <1>3, Zenon DEF UseInv, HoldInv
<1>5. q.pc = "done" /\ q.conn = 0 /\ q.own = request[r].own  BY <1>2, <1>4, Fields, ZenonT(30)
<1> HIDE DEF q
<1>6. request'[r] = q /\ \A s \in Requests \ {r} : request'[s] = request[s]
  BY <1>1, <1>2, OneRequest, Zenon
<1>7. CASE x = 0
  <2>1. inited' = inited  BY <1>1, <1>7, Zenon DEF HeldBy
  <2>2. \A s \in Requests : /\ request'[s].conn = request[s].conn
                            /\ request'[s].own = request[s].own
                            /\ request'[s].pc = "sent" => request[s].pc = "sent"
                            /\ request'[s].pc = "done" <=> request[s].pc = "done"
    BY <1>4, <1>5, <1>6, <1>7, Zenon
  <2> QED  BY <1>1, <1>3, <2>1, <2>2, ConnsStay, Zenon DEF UseInv
<1>8. CASE x # 0
  <2>1. ConnOK(request[r])  BY Zenon DEF UseInv, HoldInv
  <2>2. x \in Conns  BY <1>8, <2>1, Zenon DEF ConnOK
  <2>3. x \notin Closed(queue) /\ \A s \in Requests \ {r} : request[s].conn # x
    BY <1>8, Zenon DEF UseInv, HoldInv
  <2>4. inited \ {x} \subseteq inited' /\ inited' \subseteq inited \cup {x}
    BY <1>1, Zenon DEF HeldBy
  <2>5. ConnOK(request'[r]) /\ request'[r].pc = "done" /\ request'[r].conn = 0
    BY <1>5, <1>6, Zenon DEF ConnOK
  <2>6. PoolOK(pool') /\ Elems(pool') \subseteq Elems(pool) \cup {x}
    BY <1>1, Zenon DEF UseInv, PoolInv
  <2>7. request'[r].pc # "sent"  BY <2>5, Zenon
  <2> HIDE DEF x
  <2> QED
    BY <1>1, <1>3, <1>6, <1>8, <2>2, <2>3, <2>4, <2>5, <2>6, <2>7, ConnMoves, Zenon DEF UseInv
<1> QED  BY <1>7, <1>8, Zenon

\* The functor that closes a connection.
LEMMA CloseConns ==
  ASSUME UseInv, NEW c, RunClose(c)  PROVE HoldInv' /\ PoolInv'
<1>1. /\ queue' = Tail(queue) /\ queue # << >> /\ Head(queue) = Call("Close", c)
      /\ inited' = inited \ {c} /\ request' = request /\ pool' = pool /\ stack' = stack
      /\ clears' = clears
  BY Zenon DEF RunClose, Pending, ConnClose
<1>2. Closed(queue') \subseteq Closed(queue) /\ c \in Closed(queue)
  BY <1>1, ClosedTail, Zenon DEF UseInv, IInv, SeqInv
<1>3. inited' \subseteq inited /\ inited \ Closed(queue) \subseteq inited'  BY <1>1, <1>2, Zenon
<1> QED  BY <1>1, <1>2, <1>3, ConnsStay, Zenon DEF UseInv

\* ConnPool::Clear gives up what is in the pool.
LEMMA ClearConns ==
  ASSUME UseInv, Clear  PROVE HoldInv' /\ PoolInv'
<1>1. /\ clears < MaxClears /\ clears' = clears + 1 /\ pool' = << >>
      /\ queue' = queue \o [i \in 1..Len(pool) |-> Call("Close", pool[i])]
      /\ stack' = stack /\ request' = request /\ inited' = inited
  BY Zenon DEF Clear
<1>2. queue' = Closes(queue, pool)  BY <1>1, Zenon DEF Closes
<1>3. Closed(queue') \subseteq Closed(queue) \cup Elems(pool)
  BY <1>2, ClosedClear, Zenon DEF UseInv, IInv, SeqInv
<1>4. PoolOK(pool') /\ Elems(pool') = {}  BY <1>1, PoolEmpty, Zenon
<1>5. /\ IsFiniteSet(Elems(pool)) /\ Cardinality(Elems(pool)) = Len(pool)
      /\ Elems(pool) \subseteq Conns
  BY PoolCount, Zenon DEF UseInv, PoolInv
<1>6. HoldInv'
  <2>1. \A r \in Requests : request'[r].conn \notin Elems(pool') \cup Closed(queue')
    BY <1>1, <1>3, <1>4, Zenon DEF UseInv, HoldInv
  <2>2. \A r \in Requests : ConnOK(request'[r])  BY <1>1, Zenon DEF UseInv, HoldInv
  <2> QED  BY <1>1, <2>1, <2>2, Zenon DEF UseInv, HoldInv, ConnOK
<1>7. Cardinality(Closed(queue')) <= max_pool_size_ * (clears + 1)
  <2> DEFINE A == Closed(queue)
             B == Elems(pool)
             U == A \cup B
             m == max_pool_size_ * clears
  <2>1. IsFiniteSet(A) /\ Cardinality(A) <= m
    <3>1. A \subseteq Conns /\ Cardinality(A) <= m  BY Zenon DEF UseInv, PoolInv
    <3> QED  BY <3>1, ConnFacts, FS_Subset, Zenon
  <2>2. IsFiniteSet(A \cap B)  BY <2>1, FS_Intersection, Zenon
  <2>3. /\ Cardinality(A) \in Nat /\ Cardinality(B) \in Nat /\ Cardinality(A \cap B) \in Nat
    BY <1>5, <2>1, <2>2, FS_CardinalityType, Zenon
  <2>4. IsFiniteSet(U) /\ Cardinality(U) = Cardinality(A) + Cardinality(B) - Cardinality(A \cap B)
    BY <1>5, <2>1, FS_Union, Zenon
  <2>5. IsFiniteSet(Closed(queue')) /\ Cardinality(Closed(queue')) <= Cardinality(U)
    BY <1>3, <2>4, FS_Subset, Zenon
  <2>6. Cardinality(Closed(queue')) \in Nat  BY <2>5, FS_CardinalityType, Zenon
  <2>7. Cardinality(B) <= max_pool_size_  BY <1>5, Zenon DEF UseInv, PoolInv, PoolOK
  <2>8. max_pool_size_ \in Nat /\ clears \in Nat /\ clears <= clears
    BY ConnFacts DEF UseInv, PoolInv
  <2>9. m \in Nat /\ max_pool_size_ * (clears + 1) = m + max_pool_size_  BY <2>8, Times, Zenon
  <2> HIDE DEF A, B, U, m
  <2> QED  BY <2>1, <2>3, <2>4, <2>5, <2>6, <2>7, <2>8, <2>9
<1>8. PoolInv'
  <2>1. clears' \in 0..MaxClears  BY <1>1, ConnFacts DEF UseInv, PoolInv
  <2>2. Closed(queue') \subseteq Conns  BY <1>3, <1>5, Zenon DEF UseInv, PoolInv
  <2>3. Elems(pool') \cap Closed(queue') = {}  BY <1>4, Zenon
  <2>4. inited' \subseteq Conns  BY <1>1, Zenon DEF UseInv, PoolInv
  <2> QED  BY <1>1, <1>4, <1>7, <2>1, <2>2, <2>3, <2>4, Zenon DEF PoolInv, PoolOK
<1> QED  BY <1>6, <1>8, Zenon

\* At first the pool is empty, and only requests with a connection of their own hold one.
LEMMA InitUseInv == Init => UseInv
<1> SUFFICES ASSUME Init PROVE HoldInv /\ PoolInv  BY InitIInv, Zenon DEF UseInv
<1>1. queue = << >> /\ stack = << >> /\ pool = << >> /\ inited = {} /\ clears = 0
  BY Zenon DEF Init, TimerInit
<1>2. Len(queue) = 0 /\ Len(stack) = 0 /\ 1..0 = {}
  <2>1. 1..0 = {}  OBVIOUS
  <2> QED  BY <1>1, <2>1, EmptySeq, Zenon
<1>3. Closed(queue) = {} /\ Handlers(stack) = {} /\ Elems(pool) = {} /\ PoolOK(pool)
  <2>1. Closed(queue) = {}  BY <1>2, ClosedMember, Zenon
  <2>2. Handlers(stack) = {}  BY <1>2, Zenon DEF Handlers
  <2> QED  BY <1>1, <2>1, <2>2, PoolEmpty, Zenon
<1>4. ASSUME NEW r \in Requests
      PROVE  /\ request[r].conn = IF request[r].own THEN r ELSE 0
             /\ request[r].pc \in {"new", "absent"}
  <2>0. PICK scene \in Scenes : \E own \in [scene.requests -> BOOLEAN] :
          request = [a \in Requests |->
                       IF a \notin scene.requests
                       THEN [NewRequest(FALSE, 0) EXCEPT !.pc = "absent"]
                       ELSE NewRequest(own[a], IF own[a] THEN a ELSE 0)]
    BY Zenon DEF Init
  <2> DEFINE R == scene.requests
  <2>1. PICK own \in [R -> BOOLEAN] :
          request = [a \in Requests |->
                       IF a \notin R THEN [NewRequest(FALSE, 0) EXCEPT !.pc = "absent"]
                       ELSE NewRequest(own[a], IF own[a] THEN a ELSE 0)]
    BY <2>0, Zenon
  <2> HIDE DEF R
  <2>2. ASSUME NEW o, NEW c, NEW n, n = NewRequest(o, c)
        PROVE  n.conn = c /\ n.own = o /\ n.pc = "new"
    BY <2>2, Zenon DEF NewRequest
  <2>3. CASE r \in R
    <3> DEFINE c == IF own[r] THEN r ELSE 0
    <3>1. request[r] = NewRequest(own[r], c)  BY <2>1, <2>3, Zenon
    <3> HIDE DEF c
    <3>2. request[r].conn = c /\ request[r].own = own[r] /\ request[r].pc = "new"
      BY <2>2, <3>1
    <3> QED  BY <3>2, Zenon DEF c
  <2>4. CASE r \notin R
    <3> DEFINE n == NewRequest(FALSE, 0)
    <3>1. request[r] = [n EXCEPT !.pc = "absent"]  BY <2>1, <2>4, Zenon
    <3>2. n.conn = 0 /\ n.own = FALSE  BY <2>2, Zenon
    <3>3. IsRequest(n)
      <4>1. n \in RequestRec({0})  BY DEF NewRequest, RequestRec
      <4> QED  BY <4>1, Zenon DEF IsRequest
    <3> HIDE DEF n
    <3>4. request[r].conn = n.conn /\ request[r].own = n.own /\ request[r].pc = "absent"
      BY <3>1, <3>3, Fields
    <3> QED  BY <3>2, <3>4, Zenon
  <2> QED  BY <2>3, <2>4, Zenon
<1>5. 0 \notin Conns /\ 0 \notin Requests /\ Requests \subseteq Conns
  <2>1. 0 \notin Conns /\ Requests \subseteq Conns  BY ConnFacts, Zenon
  <2> QED  BY <2>1, Zenon
<1>6. HoldInv
  <2>1. \A r \in Requests : ConnOK(request[r])  BY <1>4, <1>5, Zenon DEF ConnOK
  <2>2. \A r, s \in Requests : request[r].conn = request[s].conn => r = s \/ request[r].conn = 0
    BY <1>4, <1>5, Zenon
  <2>3. \A r \in Requests : request[r].pc # "sent"  BY <1>4, Zenon
  <2> QED  BY <1>3, <2>1, <2>2, <2>3, Zenon DEF HoldInv
<1>7. PoolInv
  <2>1. Cardinality({}) = 0  BY FS_EmptySet, Zenon
  <2>2. max_pool_size_ \in Nat /\ MaxClears \in Nat  BY ConnFacts, Zenon
  <2>3. clears \in 0..MaxClears /\ 0 <= max_pool_size_ * clears  BY <1>1, <2>2
  <2> QED  BY <1>1, <1>3, <2>1, <2>3, Zenon DEF PoolInv
<1> QED  BY <1>6, <1>7, Zenon

\* Every step leaves each connection in one place.
LEMMA NextUseInv == UseInv /\ [Next]_vars => UseInv'
<1> SUFFICES ASSUME UseInv, [Next]_vars PROVE HoldInv' /\ PoolInv'
  BY NextIInv, Zenon DEF UseInv
<1>1. ASSUME NEW t \in Timers, TimerLoopStep(t) PROVE HoldInv' /\ PoolInv'
  BY <1>1, TimerConns, Zenon DEF TimerLoopStep
<1>2. ASSUME NEW t \in UserTimers, TimerUser(t), UNCHANGED httpVars PROVE HoldInv' /\ PoolInv'
  BY <1>2, TimerAssumption, TimerConns, Zenon
<1>3. ASSUME NEW r \in Requests, RequestStep(r) PROVE HoldInv' /\ PoolInv'
  BY <1>3, EnterConns, SendsConns, FailsConns, ResponseConns, ReturnConns, Zenon DEF RequestStep
<1>4. ASSUME NEW r \in Requests, Execute(r) \/ ExecuteInHandler(r) PROVE HoldInv' /\ PoolInv'
  BY <1>4, EnterConns, Zenon
<1>5. CASE UNCHANGED vars
  <2>1. /\ queue' = queue /\ stack' = stack /\ request' = request /\ pool' = pool
        /\ inited' = inited /\ clears' = clears
    BY <1>5, Zenon DEF vars, timerVars, httpVars
  <2> QED  BY <2>1, ConnsStay, Zenon DEF UseInv
<1> QED  BY <1>1, <1>2, <1>3, <1>4, <1>5, ClearConns, CloseConns, Zenon DEF Next, LoopStep

\* A connection has one user at a time and is not in the pool then, the pool stays
\* within its bound, and a request that is sent has its connection (conn_pool.cc,
\* request.cc), for any number of requests, of retries and of calls of Clear.
THEOREM ConnsHaveOneUser == Spec => []OneUser
<1>1. UseInv => OneUser
  <2> SUFFICES ASSUME UseInv PROVE OneUser  BY Zenon
  <2>1. Pooled = Elems(pool) /\ Closing = Closed(queue)
    BY Zenon DEF Pooled, Elems, Closing, Closed
  <2>2. \A r, s \in Requests : r # s => HeldBy(r) \cap HeldBy(s) = {}
    BY Zenon DEF UseInv, HoldInv, HeldBy
  <2>3. ASSUME NEW c \in InUse PROVE c \notin Pooled \cup Closing
    <3>1. PICK r \in Requests : c \in HeldBy(r)  BY Zenon DEF InUse
    <3>2. c = request[r].conn  BY <3>1, Zenon DEF HeldBy
    <3> QED  BY <2>1, <3>2, Zenon DEF UseInv, HoldInv
  <2>4. Pooled \cap (InUse \cup Closing) = {} /\ InUse \cap Closing = {}
    BY <2>1, <2>3, Zenon DEF UseInv, PoolInv
  <2>5. Cardinality(Pooled) = Len(pool) /\ Len(pool) <= max_pool_size_
    BY <2>1, PoolCount, Zenon DEF UseInv, PoolInv, PoolOK
  <2>6. \A r \in Requests : request[r].pc = "sent" => request[r].conn \in inited
    BY Zenon DEF UseInv, HoldInv
  <2> QED  BY <2>2, <2>4, <2>5, <2>6, Zenon DEF OneUser
<1>2. Spec => []UseInv
  BY InitUseInv, NextUseInv, PTL DEF Spec
<1> QED  BY <1>1, <1>2, PTL
=============================================================================
