----------------------------- MODULE HTTPServer -----------------------------
(***************************************************************************)
(* evpp::http::Server and http::Service (evpp/http/http_server.cc,         *)
(* service.cc) on top of EventLoopThreadPool: listening EventLoopThreads,  *)
(* each with a Service around one evhttp, hand the requests to the worker  *)
(* loops of the pool and send the replies that come back.                  *)
(*                                                                         *)
(* Threads 1..MaxThreads are the pool's, Listeners the listening ones.     *)
(* When spc = "off" there is no server, and the pool or its threads are    *)
(* used directly.                                                          *)
(***************************************************************************)
EXTENDS EventLoopThreadPool

CONSTANTS
  Listeners,  \* the listening threads, numbered from MaxThreads + 1
  Requests,   \* the requests, each on a connection of its own
  MaxToggles  \* how often Server::Pause and Server::Continue are called

ASSUME ServerAssumption ==
  /\ Workers = 1..MaxThreads \cup Listeners /\ IsFiniteSet(Listeners)
  /\ Listeners = (MaxThreads + 1)..(MaxThreads + Cardinality(Listeners))
  /\ MaxToggles \in Nat

VARIABLES
  ports,    \* the listening threads this server was told to have
  sstatus,  \* http::Server::status_
  spc,      \* where the owner is in the methods of the server, or "off"
  lt,       \* the entry of listen_threads_ the owner is at
  evhttp,   \* per Service: evhttp_ is not null
  enabled,  \* per Service: the listener of evhttp_bound_socket_ is enabled
  handlers, \* per Service: callbacks_ as "none", "writing" or "set"
  lpc,      \* per listening thread: where it is in Dispatch
  count,    \* Stop's count of the listeners that have paused
  toggles,  \* the calls of Pause and Continue
  req       \* per request: [at, l], how far it is and its listening thread

serverVars == <<ports, sstatus, spc, lt, evhttp, enabled, handlers, lpc, count,
                toggles, req>>
allVars == <<vars, serverVars>>

NoDispatch == [at |-> "idle", r |-> 0, loop |-> 0]
Fates == {"answered", "badrequest", "dropped", "discarded", "unsent"}

ServerTypeOK ==
  /\ TypeOK
  /\ ports \subseteq Listeners /\ lt \in Listeners \cup {MaxThreads + Cardinality(Listeners) + 1}
  /\ sstatus \in {"kNull", "kInitializing", "kInitialized", "kStarting",
                  "kRunning", "kStopping", "kStopped"}
  /\ evhttp \in [Listeners -> BOOLEAN] /\ enabled \in [Listeners -> BOOLEAN]
  /\ handlers \in [Listeners -> {"none", "writing", "set"}]
  /\ count \in 0..Cardinality(Listeners) /\ toggles \in 0..MaxToggles
  /\ \A r \in Requests :
       /\ req[r].l \in Listeners \cup {0}
       /\ req[r].at \in Fates \cup {"none", "open", "queued", "working", "sending",
                                    "replying", "dispatch"}

FirstListener == MaxThreads + 1

ServerInit ==
  /\ Init
  /\ sstatus = "kNull" /\ lt = FirstListener /\ count = 0 /\ toggles = 0
  /\ evhttp = [l \in Listeners |-> FALSE] /\ enabled = [l \in Listeners |-> FALSE]
  /\ handlers = [l \in Listeners |-> "none"]
  /\ lpc = [l \in Listeners |-> NoDispatch]
  /\ req = [r \in Requests |-> [at |-> "none", l |-> 0]]
  /\ \/ spc = "off" /\ ports = {}
     \/ /\ spc = "new" /\ ppc = "new" /\ waitStart = TRUE /\ mode = "wait"
        /\ \E last \in Listeners : ports = FirstListener..last

Server(at, to) == spc = at /\ spc' = to
\* The owner has done the loop's body for lt: the next entry, or after the loop.
NextPort(at, to) ==
  /\ spc = at
  /\ IF lt + 1 \in ports THEN lt' = lt + 1 /\ spc' = at
     ELSE lt' = FirstListener /\ spc' = to

-----------------------------------------------------------------------------
(* The owner: Init, Start and Stop.                                        *)

\* Init(port): Service::Listen binds the socket, or fails and Init returns false.
InitPort ==
  /\ sstatus' = "kInitialized"
  /\ NextPort("new", "inited")
  /\ evhttp' = [evhttp EXCEPT ![lt] = TRUE]
  /\ enabled' = [enabled EXCEPT ![lt] = TRUE]
  /\ UNCHANGED <<vars, ports, handlers, lpc, count, toggles, req>>

InitFails ==
  /\ Server("new", "failed")
  /\ sstatus' = "kInitializing"
  /\ UNCHANGED <<vars, ports, lt, evhttp, enabled, handlers, lpc, count, toggles, req>>

StartServer ==
  /\ Server("inited", "startpool")
  /\ sstatus' = "kStarting"
  /\ UNCHANGED <<vars, ports, lt, evhttp, enabled, handlers, lpc, count, toggles, req>>

\* tpool_->Start(true), tpool_->Stop(true) and tpool_->Join().
PoolStep ==
  /\ \/ spc = "off"
     \/ ppc = "new" /\ spc = "startpool"
     \/ ppc = "stopped" /\ spc = "joinpool"
     \/ ppc \notin {"none", "new", "stopped"}
  /\ OwnerNext
  /\ UNCHANGED serverVars

PoolStarted ==
  /\ Server("startpool", "startlisten")
  /\ ppc = "started"
  /\ UNCHANGED <<vars, ports, sstatus, lt, evhttp, enabled, handlers, lpc, count,
                 toggles, req>>

\* lthread->Start(true, Functor(), http_close_fn).
StartListener ==
  /\ spc = "startlisten"
  /\ StartStatus(lt) \/ SpawnThread(lt) \/ StartReturns(lt, TRUE)
  /\ UNCHANGED <<poolVars, serverVars>>

\* The handlers are stored in the Service from the owner's thread, while the
\* listening thread is already serving.
RegisterBegin ==
  /\ spc = "startlisten" /\ opc[lt] = "started" /\ handlers[lt] = "none"
  /\ handlers' = [handlers EXCEPT ![lt] = "writing"]
  /\ UNCHANGED <<vars, ports, sstatus, spc, lt, evhttp, enabled, lpc, count, toggles, req>>

RegisterHandlers ==
  /\ handlers[lt] = "writing"
  /\ NextPort("startlisten", "startwait")
  /\ handlers' = [handlers EXCEPT ![lt] = "set"]
  /\ UNCHANGED <<vars, ports, sstatus, evhttp, enabled, lpc, count, toggles, req>>

\* while (!is_running()).
ServerStarted ==
  /\ Server("startwait", "running")
  /\ pstatus = "kRunning" /\ \A l \in ports : CanStop(l)
  /\ sstatus' = "kRunning"
  /\ UNCHANGED <<vars, ports, lt, evhttp, enabled, handlers, lpc, count, toggles, req>>

\* Server::Pause and Server::Continue: one functor to every listening loop.
Toggle(f) ==
  /\ spc = "running" /\ toggles < MaxToggles
  /\ toggles' = toggles + 1
  /\ queue' = [w \in Workers |-> IF w \in ports THEN Append(queue[w], [f |-> f])
                                 ELSE queue[w]]
  /\ UNCHANGED <<tstatus, lstatus, wpc, opc, failed, poolVars, ports, sstatus, spc,
                 lt, evhttp, enabled, handlers, lpc, count, req>>

StopServer ==
  /\ Server("running", "pausing")
  /\ sstatus' = "kStopping"
  /\ UNCHANGED <<vars, ports, lt, evhttp, enabled, handlers, lpc, count, toggles, req>>

\* Firstly the functor that pauses the service is posted to every listening loop.
PostPause ==
  /\ NextPort("pausing", "paused")
  /\ queue' = [queue EXCEPT ![lt] = Append(@, [f |-> "stoppause"])]
  /\ UNCHANGED <<tstatus, lstatus, wpc, opc, failed, poolVars, ports, sstatus,
                 evhttp, enabled, handlers, lpc, count, toggles, req>>

\* promise.get_future().wait(), and secondly tpool_->Stop(true).
StopPool ==
  /\ Server("paused", "stoppool")
  /\ count = Cardinality(ports)
  /\ Stop
  /\ UNCHANGED <<ports, sstatus, lt, evhttp, enabled, handlers, lpc, count, toggles, req>>

\* Thirdly lt.thread->Stop(true) for the listening threads in order.
PoolStopped ==
  /\ Server("stoppool", "stoplisten")
  /\ ppc = "stopped"
  /\ UNCHANGED <<vars, ports, sstatus, lt, evhttp, enabled, handlers, lpc, count,
                 toggles, req>>

StopListener ==
  /\ spc = "stoplisten"
  /\ \/ CallStop(lt) \/ StopStatus(lt) \/ StopLoopStatus(lt) \/ StopQueue(lt)
     \/ StopReturns(lt) \/ Join(lt)
  /\ UNCHANGED <<poolVars, serverVars>>

StopNextListener ==
  /\ opc[lt] = "joined"
  /\ NextPort("stoplisten", "joinpool")
  /\ sstatus' = IF spc' = "joinpool" THEN "kStopped" ELSE sstatus
  /\ UNCHANGED <<vars, ports, evhttp, enabled, handlers, lpc, count, toggles, req>>

\* Lastly the pool is joined and dropped, and listen_threads_ cleared.
ServerStopped ==
  /\ Server("joinpool", "stopped")
  /\ ppc = "joined"
  /\ UNCHANGED <<vars, ports, sstatus, lt, evhttp, enabled, handlers, lpc, count,
                 toggles, req>>

ServerOwner ==
  \/ InitPort \/ InitFails \/ StartServer \/ PoolStarted \/ StartListener
  \/ RegisterBegin \/ RegisterHandlers \/ ServerStarted \/ PostPause \/ StopPool
  \/ PoolStopped \/ StopListener \/ StopNextListener \/ ServerStopped

-----------------------------------------------------------------------------
(* The listening thread l.                                                 *)

\* The thread is in a callback of its loop, not in the middle of another one.
Free(l) == lpc[l] = NoDispatch
Serving(l) == l \in ports /\ wpc[l] = "dispatch" /\ evhttp[l] /\ Free(l)
Becomes(r, at) == req' = [req EXCEPT ![r].at = at]

Accept(l, r) ==
  /\ Serving(l) /\ enabled[l] /\ req[r].at = "none"
  /\ req' = [req EXCEPT ![r] = [at |-> "open", l |-> l]]
  /\ UNCHANGED <<vars, ports, sstatus, spc, lt, evhttp, enabled, handlers, lpc,
                 count, toggles>>

\* There is no handler for the URI and no default handler: 400.  A registered URI gets
\* it too while the handlers are being stored.
DefaultHandleRequest(l, r) ==
  /\ Serving(l) /\ req[r] = [at |-> "open", l |-> l]
  /\ Becomes(r, "badrequest")
  /\ UNCHANGED <<vars, ports, sstatus, spc, lt, evhttp, enabled, handlers, lpc,
                 count, toggles>>

\* MUTANT: Dispatch does not test IsRunning().
HandleRequest_NoTest(l, r) ==
  /\ Serving(l) /\ req[r] = [at |-> "open", l |-> l]
  /\ handlers[l] # "none"
  /\ Becomes(r, "dispatch")
  /\ lpc' = [lpc EXCEPT ![l] = [at |-> "pick", r |-> r, loop |-> 0]]
  /\ UNCHANGED <<vars, ports, sstatus, spc, lt, evhttp, enabled, handlers, count,
                 toggles>>

\* HandleRequest finds the handler, which is Dispatch: its first test.
HandleRequest(l, r) ==
  /\ Serving(l) /\ req[r] = [at |-> "open", l |-> l]
  /\ handlers[l] # "none"
  /\ IF sstatus = "kRunning"
     THEN /\ Becomes(r, "dispatch")
          /\ lpc' = [lpc EXCEPT ![l] = [at |-> "pick", r |-> r, loop |-> 0]]
     ELSE Becomes(r, "dropped") /\ UNCHANGED lpc
  /\ UNCHANGED <<vars, ports, sstatus, spc, lt, evhttp, enabled, handlers, count,
                 toggles>>

\* GetNextLoop: the listening loop itself when the pool has no threads; else the
\* pool's GetNextLoop by round robin or by hash, which is base_loop_, a null
\* pointer here (0), when the pool is not running.
ServerGetNextLoop(l) ==
  /\ lpc[l].at = "pick"
  /\ \E i \in IF num = 0 THEN {l}
              ELSE IF pstatus = "kRunning" /\ threads > 0 THEN 1..threads ELSE {0} :
       lpc' = [lpc EXCEPT ![l] = [@ EXCEPT !.at = "forward", !.loop = i]]
  /\ UNCHANGED <<vars, ports, sstatus, spc, lt, evhttp, enabled, handlers, count,
                 toggles, req>>

\* MUTANT: the handler of a server without workers is not called.
Forward_Inline(l) ==
  /\ lpc[l].at = "forward"
  /\ LET r == lpc[l].r  i == lpc[l].loop IN
       IF i = l
       THEN Becomes(r, "queued") /\ UNCHANGED queue
       ELSE /\ Becomes(r, "queued")
            /\ queue' = [queue EXCEPT ![i] = Append(@, [f |-> "request", r |-> r])]
  /\ lpc' = [lpc EXCEPT ![l] = NoDispatch]
  /\ UNCHANGED <<tstatus, lstatus, wpc, opc, failed, poolVars, ports, sstatus, spc,
                 lt, evhttp, enabled, handlers, count, toggles>>

\* loop->RunInLoop(f): f runs in place when this is loop's own thread.
Forward(l) ==
  /\ lpc[l].at = "forward" /\ lpc[l].loop # 0
  /\ LET r == lpc[l].r  i == lpc[l].loop IN
       IF i = l
       THEN /\ Becomes(r, IF sstatus = "kRunning" THEN "working" ELSE "dropped")
            /\ UNCHANGED queue
       ELSE /\ Becomes(r, "queued")
            /\ queue' = [queue EXCEPT ![i] = Append(@, [f |-> "request", r |-> r])]
  /\ lpc' = [lpc EXCEPT ![l] = NoDispatch]
  /\ UNCHANGED <<tstatus, lstatus, wpc, opc, failed, poolVars, ports, sstatus, spc,
                 lt, evhttp, enabled, handlers, count, toggles>>

\* The functor f at the head of the loop of thread w, which also runs while the
\* loop drains its queue.
Runs(w, f) ==
  /\ wpc[w] \in {"dispatch", "draining"} /\ queue[w] # <<>> /\ Head(queue[w]).f = f
  /\ w \in Listeners => Free(w)
  /\ queue' = [queue EXCEPT ![w] = Tail(@)]
  /\ UNCHANGED <<tstatus, lstatus, wpc, opc, failed, poolVars, ports, sstatus, spc,
                 lt, handlers, lpc, toggles>>

\* Service::Pause and Service::Continue, and the functor of Stop.
RunPause(l) ==
  \/ Runs(l, "pause") /\ enabled' = [enabled EXCEPT ![l] = FALSE]
     /\ UNCHANGED <<evhttp, count, req>>
  \/ Runs(l, "continue") /\ enabled' = [enabled EXCEPT ![l] = TRUE]
     /\ UNCHANGED <<evhttp, count, req>>
  \/ Runs(l, "stoppause") /\ enabled' = [enabled EXCEPT ![l] = FALSE]
     /\ count' = count + 1 /\ UNCHANGED <<evhttp, req>>

\* The functor of SendReply; evhttp_ is still there, since it is freed after Run.
RunReply(l) ==
  /\ Runs(l, "reply")
  /\ Becomes(Head(queue[l]).r, IF evhttp[l] THEN "answered" ELSE "unsent")
  /\ UNCHANGED <<evhttp, enabled, count>>

\* The start functor without a pre functor, and http_close_fn as post functor,
\* which is Service::Stop.
ListenerPre(l) == PreSucceeds(l) /\ UNCHANGED <<poolVars, serverVars>>

ListenerPost(l) ==
  /\ RunPost(l)
  /\ evhttp' = [evhttp EXCEPT ![l] = FALSE]
  /\ handlers' = [handlers EXCEPT ![l] = "none"]
  /\ UNCHANGED <<poolVars, ports, sstatus, spc, lt, enabled, lpc, count, toggles, req>>

ListenerNext(l) ==
  \/ Free(l) /\ WorkerStep(l) /\ UNCHANGED <<poolVars, serverVars>>
  \/ ListenerPre(l) \/ ListenerPost(l)
  \/ ServerGetNextLoop(l) \/ Forward(l) \/ RunPause(l) \/ RunReply(l)
  \/ \E r \in Requests : DefaultHandleRequest(l, r) \/ HandleRequest(l, r)

-----------------------------------------------------------------------------
(* The worker threads and the users' replies.                              *)

\* The functor of Dispatch: the second test, and the user's callback.
RunRequest(w) ==
  /\ Runs(w, "request")
  /\ Becomes(Head(queue[w]).r, IF sstatus = "kRunning" THEN "working" ELSE "dropped")
  /\ UNCHANGED <<evhttp, enabled, count>>

PoolWorkerNext(w) == (WorkerNext(w) /\ UNCHANGED serverVars) \/ RunRequest(w)

\* SendReply, from the callback or later from any thread: the test, and the post.
SendReplyTest(r) ==
  /\ req[r].at = "working"
  /\ Becomes(r, IF lstatus[req[r].l] = "kRunning" THEN "sending" ELSE "discarded")
  /\ UNCHANGED <<vars, ports, sstatus, spc, lt, evhttp, enabled, handlers, lpc,
                 count, toggles>>

SendReplyPost(r) ==
  /\ req[r].at = "sending"
  /\ Becomes(r, "replying")
  /\ queue' = [queue EXCEPT ![req[r].l] = Append(@, [f |-> "reply", r |-> r])]
  /\ UNCHANGED <<tstatus, lstatus, wpc, opc, failed, poolVars, ports, sstatus, spc,
                 lt, evhttp, enabled, handlers, lpc, count, toggles>>

\* From a callback that runs in the listening thread the reply is sent in place.
SendReplyInPlace(r) ==
  /\ num = 0 /\ req[r].at = "working"
  /\ LET l == req[r].l IN
       /\ wpc[l] \in {"dispatch", "draining"} /\ Free(l)
       /\ Becomes(r, IF lstatus[l] = "kRunning" THEN "answered" ELSE "discarded")
  /\ UNCHANGED <<vars, ports, sstatus, spc, lt, evhttp, enabled, handlers, lpc,
                 count, toggles>>

\* The replies come before the Server is deleted.
UserNext(r) ==
  spc # "stopped" /\ (SendReplyTest(r) \/ SendReplyPost(r) \/ SendReplyInPlace(r))

ServerNext ==
  \/ PoolStep \/ ServerOwner \/ StopServer
  \/ \E f \in {"pause", "continue"} : Toggle(f)
  \/ \E l \in Listeners : ListenerNext(l) \/ \E r \in Requests : Accept(l, r)
  \/ \E w \in 1..MaxThreads : PoolWorkerNext(w)
  \/ \E r \in Requests : UserNext(r)
  \/ /\ spc = "off"
     /\ \/ Stop \/ GetNextLoopTest \/ GetNextLoopPick
        \/ \E hash \in 1..MaxThreads : GetNextLoopWithHashPick(hash)
        \/ \E w \in 1..MaxThreads : AloneStep(w) \/ AloneMayStep(w)
     /\ UNCHANGED serverVars

\* The threads run, the owner of a server gets on with Start and with Stop once it
\* has called them, and the users reply.
ServerSpec ==
  /\ ServerInit /\ [][ServerNext]_allVars
  /\ WF_allVars(PoolStep) /\ WF_allVars(ServerOwner)
  /\ \A l \in Listeners : WF_allVars(ListenerNext(l))
  /\ \A w \in 1..MaxThreads :
       /\ WF_allVars(PoolWorkerNext(w))
       /\ WF_allVars(AloneStep(w) /\ UNCHANGED serverVars)
  /\ \A r \in Requests : WF_allVars(UserNext(r))
-----------------------------------------------------------------------------
\* Where the requests are fits where the server is: no reply meets a freed evhttp_,
\* after Stop every thread is gone and every evhttp_ freed, and Dispatch hands the
\* request to a loop that runs: between the test of IsRunning() and the post, Stop may
\* have begun, but it stops no thread of the pool before every listening loop has run
\* the functor that Stop waits for.
FateInv ==
  /\ ServerTypeOK
  /\ \A l \in Listeners :
       lpc[l].at = "forward" => lpc[l].loop # 0 /\ CanStop(lpc[l].loop)
  /\ \A r \in Requests :
       /\ req[r].at \in {"discarded", "queued", "working", "sending", "replying"} =>
            sstatus \in {"kRunning", "kStopping", "kStopped"}
       /\ req[r].at # "unsent"
  /\ sstatus = "kStopped" =>
       /\ \A l \in ports : wpc[l] = "finished" /\ ~evhttp[l]
       /\ \A w \in 1..num : wpc[w] \in {"posted", "finished"}
       /\ \A r \in Requests : req[r].at \notin {"dispatch", "queued"}

\* A step that leaves the request r without a reply.
Turns(r, at) == req[r].at # at /\ req'[r].at = at
StopBegun == sstatus \in {"kStopping", "kStopped"}
FateStep ==
  \A r \in Requests :
    /\ Turns(r, "dropped") => IF req[r].at = "open" THEN sstatus # "kRunning" ELSE StopBegun
    /\ Turns(r, "discarded") => StopBegun

\* What becomes of a request: FateInv always; one is dropped without a reply at the
\* door of Dispatch only by a server that has not finished Start or has begun Stop;
\* and one that Dispatch let through is dropped by the second test, or its reply
\* discarded by SendReply's test of the listening loop, only once Stop has begun.
RequestFate == []FateInv /\ [][FateStep]_allVars

\* Stop of the server returns, and so do the pool's and the threads' below it; and a
\* request that was given to a worker is answered unless the server is stopped.
StopsAndAnswers ==
  /\ PoolStopCompletes
  /\ (sstatus = "kStopping") ~> (spc = "stopped")
  /\ \A r \in Requests :
       (req[r].at = "queued") ~> (req[r].at = "answered" \/ sstatus # "kRunning")
=============================================================================
