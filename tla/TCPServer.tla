------------------------------ MODULE TCPServer ------------------------------
(***************************************************************************)
(* evpp::TCPServer (evpp/tcp_server.cc) with its Listener, its thread pool *)
(* and the life of its connections (evpp/tcp_conn.cc).                     *)
(*                                                                         *)
(* The listening loop owns connections_; each connection lives in an I/O   *)
(* loop of the pool, or in the listening loop itself when thread_num is 0  *)
(* (inline).  A loop is what TaskQueue promises.  A connection is reduced  *)
(* to its status, the functors pending for it and the step of HandleClose  *)
(* it is in (see TCPConn and Connection); each has an I/O loop of its own. *)
(***************************************************************************)
EXTENDS Naturals, Sequences, FiniteSets, Functions

CONSTANT MaxConns  \* how many connections are accepted

ASSUME ServerAssumption == MaxConns \in Nat

Conns == 1..MaxConns   \* the ids, in the order of the accepts

VARIABLES
  status,      \* status_
  listener,    \* listener_: "null", "listening" or "accepting"
  pool,        \* tpool_: "new", "running" or "stopped"
  connections, \* the keys of connections_
  accepted,    \* next_conn_id_
  stoppedCb,   \* stopped_cb_ is set
  queue,       \* the functors pending in the listening loop
  lpc,         \* where the listening loop is
  rest,        \* the entries StopInLoop has still to visit
  mpc,         \* where the thread that starts and stops the server is
  caller,      \* who calls Stop: the "loop" thread (wait_thread_exited is then
               \* FALSE), another "thread", or another thread that is "waiting"
  inline,      \* thread_num is 0
  cstatus,     \* status_ of each connection
  cpc,         \* "idle", or where its I/O loop is in HandleClose
  cqueue,      \* the functors pending for it in its I/O loop
  ended,       \* history: its HandleClose has run
  skipped,     \* history: StopInLoop did not close it
  cbCalls      \* history: calls of the callback given to Stop

serverVars == <<status, listener, pool, connections, accepted, stoppedCb>>
loopVars   == <<queue, lpc, rest>>
callVars   == <<mpc, caller, inline>>
connVars   == <<cstatus, cpc, cqueue, ended>>
vars == <<serverVars, loopVars, callVars, connVars, skipped, cbCalls>>

Init ==
  /\ status = "kNull" /\ listener = "null" /\ pool = "new"
  /\ connections = {} /\ accepted = 0 /\ stoppedCb = FALSE
  /\ queue = <<>> /\ lpc = "idle" /\ rest = {}
  /\ mpc = "new" /\ caller \in {"loop", "thread", "waiting"}
  /\ inline \in BOOLEAN
  /\ cstatus = [c \in Conns |-> "kDisconnected"]
  /\ cpc = [c \in Conns |-> "idle"] /\ cqueue = [c \in Conns |-> <<>>]
  /\ ended = {} /\ skipped = {} /\ cbCalls = 0

Functor(k) == [k |-> k]
RemoveFunctor(c) == [k |-> "remove", c |-> c]

-----------------------------------------------------------------------------
(* The thread that starts and stops the server.                            *)

ServerInit ==
  /\ mpc = "new" /\ mpc' = "inited"
  /\ listener' = "listening" /\ status' = "kInitialized"
  /\ UNCHANGED <<pool, connections, accepted, stoppedCb, loopVars, caller,
                 inline, connVars, skipped, cbCalls>>

\* Start: the pool is started with Start(true).
StartPool ==
  /\ mpc = "inited" /\ mpc' = "pooled"
  /\ status' = "kStarting" /\ pool' = "running"
  /\ UNCHANGED <<listener, connections, accepted, stoppedCb, loopVars,
                 caller, inline, connVars, skipped, cbCalls>>

StartRunning ==
  /\ mpc = "pooled" /\ mpc' = "running"
  /\ status' = "kRunning"
  /\ UNCHANGED <<listener, pool, connections, accepted, stoppedCb, loopVars,
                 caller, inline, connVars, skipped, cbCalls>>

Accept ==
  /\ mpc = "running" /\ mpc' = "started"
  /\ queue' = Append(queue, Functor("accept"))
  /\ UNCHANGED <<serverVars, lpc, rest, caller, inline, connVars, skipped,
                 cbCalls>>

\* Stop stores kStopping.  On the loop's own thread StopInLoop follows in place.
Stop ==
  /\ mpc = "started" /\ status = "kRunning"
  /\ status' = "kStopping"
  /\ IF caller = "loop"
     THEN /\ lpc = "idle" /\ listener = "accepting"
          /\ lpc' = "stop" /\ mpc' = "done"
     ELSE mpc' = "post" /\ UNCHANGED lpc
  /\ UNCHANGED <<listener, pool, connections, accepted, stoppedCb, queue,
                 rest, caller, inline, connVars, skipped, cbCalls>>

\* A caller that waits holds its mutex from before the post until cond.wait.
PostStop ==
  /\ mpc = "post" /\ mpc' = IF caller = "waiting" THEN "locked" ELSE "done"
  /\ queue' = Append(queue, Functor("stop"))
  /\ UNCHANGED <<serverVars, lpc, rest, caller, inline, connVars, skipped,
                 cbCalls>>

CondWait ==
  /\ mpc = "locked" /\ mpc' = "waiting"
  /\ UNCHANGED <<serverVars, loopVars, caller, inline, connVars, skipped,
                 cbCalls>>

-----------------------------------------------------------------------------
(* The listening loop.                                                     *)

\* The thread pool has been stopped and joined: the end of StopInLoop or of the
\* functor of RemoveConnection.  cb says whether there is a callback to call.
Finish(cb) ==
  /\ pool' = "stopped"
  /\ cbCalls' = IF cb THEN cbCalls + 1 ELSE cbCalls
  /\ status' = "kStopped"

\* MUTANT: the entry is only erased while the server stops.
RemoveEntry_Keeps(c) ==
  /\ connections' = IF status = "kStopping" THEN connections \ {c} ELSE connections
  /\ IF status = "kStopping" /\ connections' = {}
     THEN lpc' = "removepool" ELSE UNCHANGED lpc

\* The functor of RemoveConnection, up to the call of StopThreadPool.
RemoveEntry(c) ==
  /\ connections' = connections \ {c}
  /\ IF status = "kStopping" /\ connections' = {}
     THEN lpc' = "removepool" ELSE UNCHANGED lpc

Ready(k) == lpc = "idle" /\ queue # <<>> /\ Head(queue).k = k

\* FdChannel::AttachToLoop for the listening socket.
AttachListener ==
  /\ Ready("accept")
  /\ queue' = Tail(queue) /\ listener' = "accepting"
  /\ UNCHANGED <<status, pool, connections, accepted, stoppedCb, lpc, rest,
                 callVars, connVars, skipped, cbCalls>>

\* HandleAccept and HandleNewConn.  A socket accepted while the server stops is
\* closed at once, which changes nothing here.

HandleNewConn ==
  /\ ~inline
  /\ lpc = "idle" /\ listener = "accepting" /\ accepted < MaxConns
  /\ status # "kStopping"
  /\ accepted' = accepted + 1
  /\ cqueue' = [cqueue EXCEPT ![accepted'] = <<"attach">>]
  /\ lpc' = "insert"
  /\ UNCHANGED <<status, listener, pool, connections, stoppedCb, queue, rest,
                 callVars, cstatus, cpc, ended, skipped, cbCalls>>

\* In the listening loop OnAttachedToLoop and the user's callback run before
\* the entry is made; the callback may close the connection.
HandleNewConnInline ==
  /\ inline
  /\ lpc = "idle" /\ listener = "accepting" /\ accepted < MaxConns
  /\ status # "kStopping"
  /\ accepted' = accepted + 1
  /\ \/ /\ cstatus' = [cstatus EXCEPT ![accepted'] = "kConnected"]
        /\ UNCHANGED ended
     \/ /\ ended' = ended \cup {accepted'}
        /\ UNCHANGED cstatus
  /\ lpc' = "insert"
  /\ UNCHANGED <<status, listener, pool, connections, stoppedCb, queue, rest,
                 callVars, cpc, cqueue, skipped, cbCalls>>

InsertConn ==
  /\ lpc = "insert" /\ lpc' = "idle"
  /\ connections' = connections \cup {accepted}
  /\ UNCHANGED <<status, listener, pool, accepted, stoppedCb, queue, rest,
                 callVars, connVars, skipped, cbCalls>>

BeginStop ==
  /\ Ready("stop")
  /\ queue' = Tail(queue) /\ lpc' = "stop"
  /\ UNCHANGED <<serverVars, rest, callVars, connVars, skipped, cbCalls>>

\* StopInLoop: the listener is closed, and then either the pool is stopped or
\* the connections are visited.
StopInLoop ==
  /\ lpc = "stop"
  /\ listener' = "null"
  /\ rest' = connections
  /\ lpc' = IF connections = {} THEN "stoppool" ELSE "visit"
  /\ UNCHANGED <<status, pool, connections, accepted, stoppedCb, queue,
                 callVars, connVars, skipped, cbCalls>>

First == CHOOSE c \in rest : \A d \in rest : c <= d

\* The next entry is tested with IsConnected(), and closed in two steps: the
\* store of the status and the post of HandleClose.
Visit ==
  /\ lpc = "visit" /\ rest # {}
  /\ IF cstatus[First] = "kConnected"
     THEN lpc' = "close" /\ UNCHANGED <<rest, skipped>>
     ELSE /\ rest' = rest \ {First} /\ skipped' = skipped \cup {First}
          /\ UNCHANGED lpc
  /\ UNCHANGED <<serverVars, queue, callVars, connVars, cbCalls>>

CloseStore ==
  /\ ~inline
  /\ lpc = "close" /\ lpc' = "closepost"
  /\ cstatus' = [cstatus EXCEPT ![First] = "kDisconnecting"]
  /\ UNCHANGED <<serverVars, queue, rest, callVars, cpc, cqueue, ended,
                 skipped, cbCalls>>

ClosePost ==
  /\ lpc = "closepost" /\ lpc' = "visit"
  /\ cqueue' = [cqueue EXCEPT ![First] = Append(@, "close")]
  /\ rest' = rest \ {First}
  /\ UNCHANGED <<serverVars, queue, callVars, cstatus, cpc, ended, skipped,
                 cbCalls>>

\* In the listening loop Close ends in the erase of the entry that the loop of
\* StopInLoop stands on.  Advancing from it is undefined: the rest of the
\* entries is visited, or is not, or the program ends.
CloseInline ==
  /\ inline
  /\ lpc = "close"
  /\ cstatus' = [cstatus EXCEPT ![First] = "kDisconnected"]
  /\ ended' = ended \cup {First}
  /\ connections' = connections \ {First}
  /\ rest' \in {rest \ {First}, {}}
  /\ lpc' \in {"visit", "crashed"}
  /\ IF connections' = {}
     THEN Finish(stoppedCb) /\ stoppedCb' = FALSE
     ELSE UNCHANGED <<pool, cbCalls, status, stoppedCb>>
  /\ UNCHANGED <<listener, accepted, queue, callVars, cpc, cqueue, skipped>>

\* MUTANT: the callback is not kept for RemoveConnection.
Visited_NoCallback ==
  /\ lpc = "visit" /\ rest = {} /\ lpc' = "notify"
  /\ UNCHANGED <<serverVars, queue, rest, callVars, connVars, skipped,
                 cbCalls>>

\* stopped_cb_ = on_stopped_cb, after the visits.
Visited ==
  /\ lpc = "visit" /\ rest = {} /\ lpc' = "notify"
  /\ stoppedCb' = TRUE
  /\ UNCHANGED <<status, listener, pool, connections, accepted, queue, rest,
                 callVars, connVars, skipped, cbCalls>>

\* tpool_->Stop(true) and Join return when every I/O loop has drained.
Drained == \A c \in Conns : cqueue[c] = <<>> /\ cpc[c] = "idle"

StopPoolInStop ==
  /\ lpc = "stoppool" /\ pool # "stopped" /\ Drained
  /\ Finish(TRUE) /\ lpc' = "notify"
  /\ UNCHANGED <<listener, connections, accepted, stoppedCb, queue, rest,
                 callVars, connVars, skipped>>

\* tpool_ has been reset already: the call goes through a null pointer.
StopPoolAgain ==
  /\ lpc = "stoppool" /\ pool = "stopped"
  /\ lpc' = "crashed"
  /\ UNCHANGED <<serverVars, queue, rest, callVars, connVars, skipped,
                 cbCalls>>

StopPoolInRemove ==
  /\ lpc = "removepool" /\ Drained
  /\ Finish(stoppedCb) /\ stoppedCb' = FALSE
  /\ lpc' = "idle"
  /\ UNCHANGED <<listener, connections, accepted, queue, rest, callVars,
                 connVars, skipped>>

\* MUTANT: the functor notifies without taking the mutex of the caller.
NotifyCaller_NoLock ==
  /\ lpc = "notify" /\ lpc' = "idle"
  /\ mpc' = IF mpc = "waiting" THEN "done" ELSE mpc
  /\ UNCHANGED <<serverVars, queue, rest, caller, inline, connVars, skipped,
                 cbCalls>>

\* The end of the functor that Stop has posted: it takes the caller's mutex, so
\* that the caller waits already, and wakes it up.
NotifyCaller ==
  /\ lpc = "notify" /\ lpc' = "idle"
  /\ mpc # "locked"
  /\ mpc' = IF mpc = "waiting" THEN "done" ELSE mpc
  /\ UNCHANGED <<serverVars, queue, rest, caller, inline, connVars, skipped,
                 cbCalls>>

RemoveConnection ==
  /\ Ready("remove")
  /\ queue' = Tail(queue)
  /\ RemoveEntry(Head(queue).c)
  /\ UNCHANGED <<status, listener, pool, accepted, stoppedCb, rest, callVars,
                 connVars, skipped, cbCalls>>

-----------------------------------------------------------------------------
(* The I/O loop of connection c, while the pool runs.                      *)

Runs(c) == pool = "running" /\ lpc # "crashed" /\ cpc[c] = "idle"

OnAttachedToLoop(c) ==
  /\ Runs(c) /\ cqueue[c] # <<>> /\ Head(cqueue[c]) = "attach"
  /\ cqueue' = [cqueue EXCEPT ![c] = Tail(@)]
  /\ cstatus' = [cstatus EXCEPT ![c] = "kConnected"]
  /\ UNCHANGED <<serverVars, loopVars, callVars, cpc, ended, skipped,
                 cbCalls>>

\* HandleClose begins: the peer is gone, or a callback closes the connection.
ConnLost(c) ==
  /\ ~inline /\ Runs(c) /\ cstatus[c] = "kConnected"
  /\ cstatus' = [cstatus EXCEPT ![c] = "kDisconnecting"]
  /\ cpc' = [cpc EXCEPT ![c] = "down"]
  /\ ended' = ended \cup {c}
  /\ UNCHANGED <<serverVars, loopVars, callVars, cqueue, skipped, cbCalls>>

\* The functor that Close has queued.
CloseFunctor(c) ==
  /\ Runs(c) /\ cqueue[c] # <<>> /\ Head(cqueue[c]) = "close"
  /\ cqueue' = [cqueue EXCEPT ![c] = Tail(@)]
  /\ IF cstatus[c] = "kDisconnected"
     THEN UNCHANGED <<cpc, ended>>
     ELSE cpc' = [cpc EXCEPT ![c] = "down"] /\ ended' = ended \cup {c}
  /\ UNCHANGED <<serverVars, loopVars, callVars, cstatus, skipped, cbCalls>>

\* close_fn_: RemoveConnection posts to the listening loop.
CallCloseFn(c) ==
  /\ cpc[c] = "down"
  /\ cpc' = [cpc EXCEPT ![c] = "removed"]
  /\ queue' = Append(queue, RemoveFunctor(c))
  /\ UNCHANGED <<serverVars, lpc, rest, callVars, cstatus, cqueue, ended,
                 skipped, cbCalls>>

StoreDisconnected(c) ==
  /\ cpc[c] = "removed"
  /\ cpc' = [cpc EXCEPT ![c] = "idle"]
  /\ cstatus' = [cstatus EXCEPT ![c] = "kDisconnected"]
  /\ UNCHANGED <<serverVars, loopVars, callVars, cqueue, ended, skipped,
                 cbCalls>>

\* With thread_num 0 all of it happens in the listening loop, in place.
ConnLostInline(c) ==
  /\ inline /\ lpc = "idle" /\ cstatus[c] = "kConnected"
  /\ cstatus' = [cstatus EXCEPT ![c] = "kDisconnected"]
  /\ ended' = ended \cup {c}
  /\ RemoveEntry(c)
  /\ UNCHANGED <<status, listener, pool, accepted, stoppedCb, queue, rest,
                 callVars, cpc, cqueue, skipped, cbCalls>>

-----------------------------------------------------------------------------
ListenStep ==
  \/ AttachListener \/ InsertConn \/ BeginStop \/ StopInLoop \/ Visit
  \/ CloseStore \/ ClosePost \/ CloseInline \/ Visited
  \/ StopPoolInStop \/ StopPoolAgain \/ StopPoolInRemove
  \/ NotifyCaller \/ RemoveConnection

ConnStep(c) ==
  OnAttachedToLoop(c) \/ CloseFunctor(c) \/ CallCloseFn(c) \/ StoreDisconnected(c)

MainStep == ServerInit \/ StartPool \/ StartRunning \/ Accept \/ PostStop \/ CondWait

Next ==
  \/ MainStep \/ Stop
  \/ ListenStep \/ HandleNewConn \/ HandleNewConnInline
  \/ \E c \in Conns : ConnStep(c) \/ ConnLost(c) \/ ConnLostInline(c)

\* Every thread runs; nobody is forced to connect, to leave or to stop.
Fairness ==
  /\ WF_vars(ListenStep) /\ WF_vars(MainStep)
  /\ \A c \in Conns : WF_vars(ConnStep(c))

Spec == Init /\ [][Next]_vars
FairSpec == Spec /\ Fairness
=============================================================================
