----------------------------- MODULE TCPConnProps -----------------------------
(***************************************************************************)
(* The correctness properties of TCPConn.                                  *)
(***************************************************************************)
EXTENDS TCPConn

AllBytes == Messages \X (1..MsgLen)
Functors == [k : {"attach", "close", "wc", "hwm"}]
              \cup [k : {"send"}, m : Messages]

\* The type invariant.
TypeOK ==
  /\ type \in {"kIncoming", "kOutgoing"} /\ delayed \in BOOLEAN
  /\ status \in {"kDisconnected", "kConnected", "kDisconnecting"}
  /\ chan \in {"open", "closed", "crashed"} /\ timer \in BOOLEAN
  /\ reading \in BOOLEAN /\ writing \in BOOLEAN
  /\ output \in Seq(AllBytes) /\ wire \in Seq(AllBytes)
  /\ accepted \in Seq(AllBytes)
  /\ queue \in Seq(Functors)
  /\ stack \in Seq({"up", "msg", "wc", "hwm", "down"})
  /\ DOMAIN tpc = Threads
  /\ \A t \in Threads : tpc[t].at \in {"idle", "send", "close", "post"}
  /\ peer \in {"open", "fin", "reset"} /\ unread \in 0..arrived
  /\ arrived \in 0..MaxReads /\ sent \subseteq Messages
  /\ reported \in BOOLEAN
  /\ ups \in Nat /\ downs \in Nat /\ removed \in Nat
  /\ asked \in {"no", "yes", "late", "nested"}

\* The output buffer joins the direct writes of SendInLoop and the deferred
\* ones of HandleWrite into one stream: no byte is lost, repeated or overtaken.
StreamInOrder == TypeOK /\ wire \o output = accepted

\* While the channel is open, the write event is enabled exactly when there is
\* output.  Buffered bytes without the event would never be sent, and the
\* event without bytes makes HandleWrite read a stale errno
\* (tcp_conn.cc:255-273).  Whenever the buffer holds the high-water mark or more,
\* the user has been told since it last was below (tcp_conn.cc:198-202).
OutputIsWatched ==
  /\ chan = "open" => (writing <=> output # <<>>)
  /\ Len(output) >= Mark => reported

\* The callbacks find the status that tcp_server.h:91-92 promises: connected
\* when nothing has been closed, kDisconnecting in the call for the loss, even
\* when the close is nested in another callback.  The exception is a callback
\* for the loss that closes the connection again (line 51 tests nothing): it
\* goes on with what the inner HandleClose left.  And once the server or client
\* has dropped the connection there is what ~TCPConn asserts (tcp_conn.cc:38-48):
\* no event is enabled and no delay timer is set.
StatusIsTrue ==
  /\ stack # <<>> /\ Last(stack) = "down" /\ asked # "nested" => status = "kDisconnecting"
  /\ stack # <<>> /\ downs = 0 /\ asked = "no" => status = "kConnected"
  /\ removed > 0 => ~reading /\ ~writing /\ ~timer

\* The connection was closed when its loss had been told.
Again == asked \in {"late", "nested"}

Phase ==
  IF ups = 0 THEN "new" ELSE IF downs = 0 THEN "up"
  ELSE IF removed < downs THEN "down" ELSE "gone"
C == INSTANCE Connection WITH
       phase <- Phase, stream <- accepted, delivered <- Len(wire)

\* Every step of TCPConn is one of Connection or changes nothing that Connection
\* speaks of.  The user is told once that the connection is up and at most once
\* that it is lost ("Avoid multi calling", tcp_conn.cc:288), and close_fn_ then
\* removes it from its server or client.  The exception is a connection that is
\* closed again: by a thread that stores kDisconnecting over the final
\* kDisconnected (line 53), by the loop thread, which does the same in place, or
\* by a Send of plain bytes (line 94) that fails in the callback for the loss.
ConnectionSteps == C!Init /\ [][C!Next \/ Again']_(C!vars)

\* TCPConn implements Connection: it takes its steps and, when the peer reads, what
\* was taken over is delivered, unless the connection is lost, is closed again, or
\* plain bytes are sent over it that the closed channel cannot watch (line 206).
ImplementsConnection ==
  /\ ConnectionSteps
  /\ WF_vars(HandleWrite) => C!Fairness \/ <>(Again \/ chan = "crashed")

\* The end of the peer is noticed, at once or after the delay, and the server or
\* client gets its connection back; a Close from another thread ends the
\* connection, whatever else closes it; unless bytes are sent over the closed
\* channel.
ConnectionEnds ==
  /\ (peer # "open" /\ ups = 1) ~> (removed > 0 \/ chan = "crashed")
  /\ \A t \in Threads :
       (tpc[t].at = "close") ~>
         \/ removed > 0 /\ chan = "closed" /\ status = "kDisconnected"
         \/ chan = "crashed"
=============================================================================
