------------------------------- MODULE HTTPC --------------------------------
(***************************************************************************)
(* The HTTP client of evpp/httpc: Request (request.cc), Conn (conn.cc) and *)
(* the ConnPool of one loop (conn_pool.cc), on the loop whose timers       *)
(* InvokeTimer models: the retries of a Request are made by RunAfter.      *)
(*                                                                         *)
(* Request r has pool_ or a connection of its own.  libevent's evhttp is   *)
(* external: a connection may fail to be made, and a request that was made *)
(* is answered, with some code or with a null evhttp_request.              *)
(***************************************************************************)
EXTENDS InvokeTimer, FiniteSets

CONSTANTS
  MaxRequests,    \* the Requests are 1..MaxRequests
  MaxRetries,     \* the largest retry_number_
  max_pool_size_, \* of the pool, per loop
  MaxClears,      \* how often the user clears the pool
  Scenes          \* who uses the loop: [timers, requests, retry_number]

ASSUME HTTPCAssumption ==
  /\ {MaxRequests, MaxRetries, max_pool_size_, MaxClears} \subseteq Nat
  /\ \A s \in Scenes : /\ s.timers \subseteq UserTimers
                        /\ s.requests \subseteq 1..MaxRequests
                        /\ s.retry_number \in 0..MaxRetries
  \* the timer of each retry, see RetryTimer
  /\ \A r \in 1..MaxRequests, k \in 1..MaxRetries :
       MaxRetries * (r - 1) + k \in Timers \ UserTimers

VARIABLES
  request,        \* the Requests, see NewRequest
  retry_number,   \* retry_number_
  retry_interval, \* retry_interval_ is not zero
  pool,           \* pool_[loop], the back last; <<>> also when it is not there
  inited,         \* the connections with an evhttp_conn_
  clears          \* calls of Clear

httpVars == <<request, retry_number, retry_interval, pool, inited, clears>>
vars == <<timerVars, httpVars>>

Requests == 1..MaxRequests
\* A connection that nobody holds is deleted, so a few names are enough.
Conns == 1..(2 * MaxRequests + max_pool_size_ * (MaxClears + 1))

\* pc is "absent", "new", "posted", "executing", "sent", "retrying" or "done"; executed and
\* handled are histories: runs of ExecuteInLoop and calls of handler_.
NewRequest(own, c) ==
  [pc |-> "new", own |-> own, conn |-> c, retried |-> 0, executed |-> 0,
   handled |-> 0, ok |-> FALSE]

\* The timer of the k-th retry of r.
RetryTimer(r, k) == MaxRetries * (r - 1) + k

Init ==
  /\ TimerInit
  /\ \E s \in Scenes :
       /\ \A t \in Timers : timer[t].self <=> t \in s.timers
       /\ \E own \in [s.requests -> BOOLEAN] :
            request = [r \in Requests |->
                         IF r \notin s.requests
                         THEN [NewRequest(FALSE, 0) EXCEPT !.pc = "absent"]
                         ELSE NewRequest(own[r], IF own[r] THEN r ELSE 0)]
       /\ retry_number = s.retry_number
  /\ retry_interval \in BOOLEAN
  /\ pool = <<>> /\ inited = {} /\ clears = 0

Pooled == {pool[i] : i \in 1..Len(pool)}
HeldBy(r) == {request[r].conn} \ {0}
InUse == UNION {HeldBy(r) : r \in Requests}
Closing == {queue[i].id : i \in {j \in 1..Len(queue) : queue[j].f = "Close"}}
Fresh == CHOOSE c \in Conns : c \notin Pooled \cup InUse \cup Closing

-----------------------------------------------------------------------------
(* Conn: Init makes the evhttp_conn_ unless it is there, Close frees it.   *)

ConnInit(i, c) == i \cup {c}
ConnClose(i, c) == i \ {c}

-----------------------------------------------------------------------------
(* ConnPool: Get and Put, in the loop's thread.                            *)

Get == IF pool = <<>> THEN [conn |-> Fresh, pool |-> pool]
       ELSE [conn |-> pool[Len(pool)], pool |-> SubSeq(pool, 1, Len(pool) - 1)]

\* MUTANT: the bound of the pool is off by one.
Put_OffByOne(p, c) == IF Len(p) > max_pool_size_ THEN p ELSE Append(p, c)

\* A connection that does not fit is deleted when its request lets go of it.
Put(p, c) == IF Len(p) >= max_pool_size_ THEN p ELSE Append(p, c)

\* Recycling the connection: pool_->Put(conn_) and conn_.reset().
Recycle(q) ==
  IF q.own THEN /\ UNCHANGED <<pool, inited>>
           ELSE /\ pool' = Put(pool, q.conn)
                /\ inited' = IF Len(pool') > Len(pool) THEN inited
                             ELSE ConnClose(inited, q.conn)
Recycled(q) == IF q.own THEN q ELSE [q EXCEPT !.conn = 0]

\* The user clears the pool when no request is outstanding: every connection in it
\* is closed by a functor in the loop.
Clear ==
  /\ clears < MaxClears /\ pool # <<>>
  /\ \A r \in Requests : request[r].pc \in {"absent", "new", "done"}
  /\ clears' = clears + 1
  /\ pool' = <<>>
  /\ queue' = queue \o [i \in 1..Len(pool) |-> Call("Close", pool[i])]
  /\ UNCHANGED <<timer, stack, crashed, request, retry_number, retry_interval, inited>>

RunClose(c) ==
  /\ Pending("Close", c)
  /\ queue' = Tail(queue)
  /\ inited' = ConnClose(inited, c)
  /\ UNCHANGED <<timer, stack, crashed, request, retry_number, retry_interval, pool, clears>>

-----------------------------------------------------------------------------
(* Request.                                                                *)

Execute(r) ==
  /\ request[r].pc = "new"
  /\ request' = [request EXCEPT ![r].pc = "posted"]
  /\ queue' = Append(queue, Call("Execute", r))
  /\ UNCHANGED <<timer, stack, crashed, retry_number, retry_interval, pool, inited, clears>>

\* A handler executes another request: ExecuteInLoop runs in place.
ExecuteInHandler(r) ==
  /\ \E p \in Requests : At("handler", p)
  /\ request[r].pc = "new"
  /\ request' = [request EXCEPT ![r].pc = "executing"]
  /\ stack' = <<Call("execute", r)>> \o stack
  /\ UNCHANGED <<timer, queue, crashed, retry_number, retry_interval, pool, inited, clears>>

\* ExecuteInLoop is called by the functor of Execute or by a retry's timer.
RunExecute(r) ==
  /\ Pending("Execute", r)
  /\ queue' = Tail(queue)
  /\ stack' = <<Call("execute", r)>>
  /\ request' = [request EXCEPT ![r].pc = "executing"]
  /\ UNCHANGED <<timer, crashed, retry_number, retry_interval, pool, inited, clears>>

RetryFires(r, k) ==
  /\ At("functor", RetryTimer(r, k)) /\ request[r].pc = "retrying"
  /\ request[r].retried = k
  /\ stack' = <<Call("execute", r)>> \o stack
  /\ request' = [request EXCEPT ![r].pc = "executing"]
  /\ UNCHANGED <<timer, queue, crashed, retry_number, retry_interval, pool, inited, clears>>

\* ExecuteInLoop up to evhttp_make_request: the connection is taken and it and the
\* request are made.
Sends(r) ==
  /\ At("execute", r)
  /\ LET g == IF request[r].conn # 0 THEN [conn |-> request[r].conn, pool |-> pool]
              ELSE Get
     IN  /\ request' = [request EXCEPT ![r].pc = "sent", ![r].conn = g.conn,
                                       ![r].executed = @ + 1]
         /\ pool' = g.pool
         /\ inited' = ConnInit(inited, g.conn)
  /\ stack' = Tail(stack)
  /\ UNCHANGED <<timer, queue, crashed, retry_number, retry_interval, clears>>

\* handler_ is called with what came back; q is the request as it is then.
CallHandler(r, q, rest) ==
  /\ request' = [request EXCEPT ![r] = [q EXCEPT !.pc = "done", !.handled = @ + 1]]
  /\ stack' = <<Call("handler", r)>> \o rest
  /\ UNCHANGED timer

\* MUTANT: the timer of a retry is not started.
Retry_NoTimer(r, q, rest) ==
  LET p == Recycled([q EXCEPT !.retried = @ + 1]) IN
  /\ request' = [request EXCEPT ![r] = [p EXCEPT !.pc = IF retry_interval THEN "retrying"
                                                       ELSE "executing"]]
  /\ stack' = IF retry_interval THEN rest ELSE <<Call("execute", r)>> \o rest
  /\ UNCHANGED timer

\* Retry: at once, or after retry_interval_.
Retry(r, q, rest) ==
  LET k == q.retried + 1  p == Recycled([q EXCEPT !.retried = k]) IN
  IF retry_interval
  THEN /\ request' = [request EXCEPT ![r] = [p EXCEPT !.pc = "retrying"]]
       /\ RunAfter(RetryTimer(r, k))
       /\ stack' = rest
  ELSE /\ request' = [request EXCEPT ![r] = [p EXCEPT !.pc = "executing"]]
       /\ stack' = <<Call("execute", r)>> \o rest
       /\ UNCHANGED timer

\* ExecuteInLoop fails: the connection cannot be made, or (after) the request
\* cannot.  On the last attempt the connection is not recycled.
FailsToSend(r, made) ==
  /\ At("execute", r)
  /\ LET g == IF request[r].conn # 0 THEN [conn |-> request[r].conn, pool |-> pool]
              ELSE Get
         q == [request[r] EXCEPT !.conn = g.conn, !.executed = @ + 1]
     IN  /\ made \/ g.conn \notin inited
         /\ IF q.retried < retry_number
            THEN /\ Retry(r, q, Tail(stack))
                 /\ pool' = IF q.own THEN pool ELSE Put(g.pool, q.conn)
            ELSE CallHandler(r, q, Tail(stack)) /\ pool' = g.pool
         /\ inited' = LET i == IF made THEN ConnInit(inited, g.conn) ELSE inited IN
                      IF ~q.own /\ q.retried < retry_number /\ Len(pool') = Len(g.pool)
                      THEN ConnClose(i, g.conn) ELSE i
  /\ UNCHANGED <<queue, crashed, retry_number, retry_interval, clears>>

\* MUTANT: a request that has had all its retries is retried once more.
HandleResponse_OffByOne(r, ok) ==
  /\ Idle /\ request[r].pc = "sent"
  /\ Recycle(request[r])
  /\ LET q == [request[r] EXCEPT !.ok = ok] IN
       IF ~ok /\ q.retried <= retry_number
       THEN Retry(r, q, stack)
       ELSE CallHandler(r, Recycled(q), stack)
  /\ UNCHANGED <<queue, crashed, retry_number, retry_interval, clears>>

\* HandleResponse: ok is an answer that is not a 5xx; otherwise it is a 5xx or r is
\* null, which both are retried while retries are left.
HandleResponse(r, ok) ==
  /\ Idle /\ request[r].pc = "sent"
  /\ Recycle(request[r])
  /\ LET q == [request[r] EXCEPT !.ok = ok] IN
       IF ~ok /\ q.retried < retry_number
       THEN Retry(r, q, stack)
       ELSE CallHandler(r, Recycled(q), stack)
  /\ UNCHANGED <<queue, crashed, retry_number, retry_interval, clears>>

\* The user's handler returns; the request may be deleted by then, and with it a
\* connection it still has.
HandlerReturns(r) ==
  /\ At("handler", r)
  /\ stack' = Tail(stack)
  /\ request' = [request EXCEPT ![r].conn = 0]
  /\ inited' = inited \ HeldBy(r)
  /\ UNCHANGED <<timer, queue, crashed, retry_number, retry_interval, pool, clears>>

-----------------------------------------------------------------------------
RequestStep(r) ==
  \/ RunExecute(r) \/ Sends(r) \/ (\E made \in BOOLEAN : FailsToSend(r, made))
  \/ (\E ok \in BOOLEAN : HandleResponse(r, ok)) \/ HandlerReturns(r)
  \/ \E k \in 1..MaxRetries : RetryFires(r, k)

\* The functor of a retry's timer returns after the retry.
TimerLoopStep(t) ==
  /\ TimerStep(t)
  /\ \A r \in Requests, k \in 1..MaxRetries :
       At("functor", t) /\ t = RetryTimer(r, k) =>
         ~(request[r].pc = "retrying" /\ request[r].retried = k)
  /\ UNCHANGED httpVars

LoopStep ==
  \/ \E t \in Timers : TimerLoopStep(t)
  \/ \E r \in Requests : RequestStep(r)
  \/ \E c \in Conns : RunClose(c)

Next ==
  \/ LoopStep \/ Clear
  \/ \E t \in UserTimers : TimerUser(t) /\ UNCHANGED httpVars
  \/ \E r \in Requests : Execute(r) \/ ExecuteInHandler(r)

\* What the loop has to do other than to serve periodic timers again and again.
Ready ==
  \/ \E t \in Timers : /\ RunStart(t) \/ RunCancel(t)
                            \/ (OnTimerTriggered(t) /\ ~timer[t].every)
                       /\ UNCHANGED httpVars
  \/ \E r \in Requests : RequestStep(r)
  \/ \E c \in Conns : RunClose(c)

\* The loop runs, callbacks return and a request that was made is answered.  What is
\* queued or due is not starved by a periodic timer: libevent serves every event
\* that is ready.
Fairness == WF_vars(LoopStep) /\ SF_vars(Ready)

Spec == Init /\ [][Next]_vars /\ Fairness
-----------------------------------------------------------------------------
\* A connection is used by one request at a time, and is not in the pool then; the
\* pool never grows past its bound, has no connection twice, and none that Clear has
\* given up; and no request waits on a connection that was closed.
OneUser ==
  /\ \A r, s \in Requests : r # s => HeldBy(r) \cap HeldBy(s) = {}
  /\ Pooled \cap (InUse \cup Closing) = {} /\ InUse \cap Closing = {}
  /\ Cardinality(Pooled) = Len(pool) /\ Len(pool) <= max_pool_size_
  /\ \A r \in Requests : request[r].pc = "sent" => request[r].conn \in inited

\* "The total execution times is retry_number_+1" (request.h): no more than that, and
\* the handler is called once, with a good answer or after the last of them.
AsOftenAsSaid ==
  \A r \in Requests :
    /\ request[r].executed <= retry_number + 1
    /\ request[r].handled <= 1
    /\ request[r].handled = 1 => request[r].ok \/ request[r].executed = retry_number + 1

\* A request that is executed has its handler called; and the timers are released,
\* those of its retries and the user's.
IsHandled ==
  /\ \A r \in Requests : request[r].pc = "posted" ~> request[r].handled = 1
  /\ IsReleased
=============================================================================
