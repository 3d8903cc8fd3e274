--------------------------- MODULE TCPServerProps ----------------------------
(***************************************************************************)
(* What is checked of TCPServer.                                           *)
(***************************************************************************)
EXTENDS TCPServer

\* The types of the server's state.
TypeOK ==
  /\ status \in {"kNull", "kInitialized", "kStarting", "kRunning", "kStopping",
                 "kStopped"}
  /\ listener \in {"null", "listening", "accepting"}
  /\ pool \in {"new", "running", "stopped"}
  /\ connections \subseteq Conns /\ accepted \in 0..MaxConns
  /\ stoppedCb \in BOOLEAN
  /\ queue \in Seq({Functor("accept"), Functor("stop")}
                     \cup {RemoveFunctor(c) : c \in Conns})
  /\ lpc \in {"idle", "insert", "stop", "stoppool", "removepool", "visit",
              "close", "closepost", "notify", "crashed"}
  /\ rest \subseteq Conns
  /\ mpc \in {"new", "inited", "pooled", "running", "started", "post", "locked",
              "waiting", "done"}
  /\ caller \in {"loop", "thread", "waiting"} /\ inline \in BOOLEAN
  /\ cstatus \in [Conns -> {"kDisconnected", "kConnected", "kDisconnecting"}]
  /\ cpc \in [Conns -> {"idle", "down", "removed"}]
  /\ cqueue \in [Conns -> Seq({"attach", "close"})]
  /\ ended \subseteq Conns /\ skipped \subseteq Conns /\ cbCalls \in Nat

\* A server that is stopped from its own loop and says kStopped can be
\* destroyed: what ~TCPServer asserts (connections_ is empty, listener_ is gone,
\* the pool is stopped) holds, and with I/O threads the callback given to Stop has
\* been called.  Stopped from another thread, the server may be finished by a
\* RemoveConnection that is ahead of StopInLoop (line 89); with thread_num 0 the
\* last connection can be erased before stopped_cb_ is set (line 148).  However it
\* is stopped, the callback is called once at most, and only when every connection
\* has been removed, its HandleClose has run and the I/O loops are down.
StoppedIsClean ==
  /\ status = "kStopped" /\ caller = "loop" =>
       /\ connections = {} /\ listener = "null" /\ pool = "stopped"
       /\ ~inline => cbCalls = 1
  /\ cbCalls <= 1
  /\ cbCalls = 1 => /\ connections = {} /\ pool = "stopped"
                    /\ ended = 1..accepted

\* connections_ holds the connections that live, and no connection that nobody
\* will remove: an accepted connection is held until it has ended, and one whose
\* HandleClose has run has its RemoveConnection ahead.  With thread_num 0 a
\* connection that its first callback closes is entered after it was removed
\* (line 196).
LiveIsHeld ==
  /\ TypeOK
  /\ \A c \in 1..accepted : c \in connections \cup ended \/ lpc = "insert"
  /\ ~inline =>
       \A c \in connections \cap ended :
         cpc[c] = "down" \/ RemoveFunctor(c) \in Range(queue)

\* A server with I/O threads that is told to stop, from its own loop, stops ("The
\* working threads will be stopped after all the connections closed",
\* tcp_server.cc:150), unless a connection that StopInLoop took for one that was
\* going down turns out to be alive.  Stop(true) from another thread returns: the functor
\* cannot notify before the caller waits.  (The program may end first, when
\* StopInLoop stops a pool that is gone.)
StopReturnsUnlessSkipped ==
  /\ (status = "kStopping" /\ caller = "loop" /\ ~inline) ~>
       \/ status = "kStopped"
       \/ \E c \in connections \cap skipped : cstatus[c] = "kConnected"
  /\ mpc = "locked" ~> mpc = "done" \/ lpc = "crashed"
=============================================================================
