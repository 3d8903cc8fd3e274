------------------------------- MODULE TCPConn -------------------------------
(***************************************************************************)
(* evpp::TCPConn (evpp/tcp_conn.cc) on its FdChannel (evpp/fd_channel.cc): *)
(* one connection, the loop thread that owns it, the user's callbacks,     *)
(* other threads that send and close, and the peer.                        *)
(*                                                                         *)
(* The loop is what TaskQueue promises: functors run in the order of the   *)
(* posts, one at a time.  Callbacks run on the loop thread and may call    *)
(* Send and Close again, so that handlers nest: stack holds the callbacks  *)
(* that have not returned.  A byte is a pair of a message and an index.    *)
(* Calls that return without changing anything (a Send on a connection     *)
(* that is not connected, a read or write that would block) are stuttering *)
(* steps.  A channel that was closed has no event_ left: enabling an event *)
(* of it ends the program ("crashed").                                     *)
(***************************************************************************)
EXTENDS Naturals, Sequences

CONSTANTS
  Threads,      \* the threads other than the loop thread
  Messages,     \* what is sent, each message at most once
  MsgLen,       \* the length of a message
  Mark,         \* high_water_mark_
  MaxReads,     \* how many messages the peer sends
  MaxCloses     \* how many losses are told before the loop thread calls Close no more

ASSUME ConnAssumption ==
  /\ MsgLen \in Nat \ {0} /\ Mark \in Nat \ {0}
  /\ MaxReads \in Nat /\ MaxCloses \in Nat

VARIABLES
  type,      \* type_
  delayed,   \* close_delay_ is not zero
  status,    \* status_
  chan,      \* whether chan_ still has its event: "open", "closed" or "crashed"
  reading,   \* chan_->IsReadable()
  writing,   \* chan_->IsWritable()
  output,    \* output_buffer_
  timer,     \* delay_close_timer_ is set
  queue,     \* the functors of this connection that are pending in loop_
  stack,     \* the callbacks the loop thread is in, innermost last
  tpc,       \* where each other thread is: [at |-> ..., msg |-> ...]
  peer,      \* "open", "fin" (the peer has closed its side) or "reset"
  unread,    \* messages of the peer that are not read
  arrived,   \* how many messages the peer has sent
  wire,      \* history: the bytes the kernel has taken
  accepted,  \* history: the bytes SendInLoop has taken over
  sent,      \* history: the messages whose Send was called
  reported,  \* history: the high-water callback was queued for this excess
  ups,       \* history: calls of conn_fn_ from OnAttachedToLoop
  downs,     \* history: calls of conn_fn_ from HandleClose
  removed,   \* history: calls of close_fn_
  asked      \* history: no other thread has called Close ("no"), some have
             \* ("yes"), or the connection was closed again when its loss had been
             \* told ("late"; "nested" while the callback for the loss does so)

fixedVars == <<type, delayed>>
chanVars  == <<chan, reading, writing, timer>>
dataVars  == <<output, wire, accepted, reported>>
peerVars  == <<peer, unread, arrived>>
histVars  == <<ups, downs, removed>>
vars == <<fixedVars, chanVars, dataVars, peerVars, histVars,
          status, queue, stack, tpc, sent, asked>>

\* The innermost callback, and the ones it was called from.
Last(s) == s[Len(s)]
Front(s) == SubSeq(s, 1, Len(s) - 1)

Idle == [at |-> "idle"]
Bytes(m) == [i \in 1..MsgLen |-> <<m, i>>]
Functor(k) == [k |-> k]
SendFunctor(m) == [k |-> "send", m |-> m]

\* The connection was built, and OnAttachedToLoop posted, by a TCPServer (an
\* incoming connection) or by a TCPClient (an outgoing one).
Init ==
  /\ type \in {"kIncoming", "kOutgoing"}
  /\ delayed \in BOOLEAN /\ (delayed => type = "kIncoming")
  /\ status = "kDisconnected" /\ chan = "open"
  /\ reading = FALSE /\ writing = FALSE /\ output = <<>> /\ timer = FALSE
  /\ queue = <<Functor("attach")>> /\ stack = <<>>
  /\ tpc = [t \in Threads |-> Idle]
  /\ peer = "open" /\ unread = 0 /\ arrived = 0
  /\ wire = <<>> /\ accepted = <<>> /\ sent = {} /\ reported = FALSE
  /\ ups = 0 /\ downs = 0 /\ removed = 0 /\ asked = "no"

-----------------------------------------------------------------------------
(* The methods that run on the loop thread.  q is the queue of functors    *)
(* without the one that is being run.                                      *)

\* The loss is told again, inside the callback for it or later.
ClosedAgain ==
  IF stack # <<>> /\ Last(stack) = "down" THEN "nested"
  ELSE IF downs > 0 /\ asked # "nested" THEN "late" ELSE asked

\* MUTANT: the final status is stored before the callback.
HandleClose_EarlyStatus(q) ==
  /\ status' = "kDisconnected"
  /\ reading' = FALSE /\ writing' = FALSE /\ chan' = "closed"
  /\ timer' = FALSE
  /\ stack' = Append(stack, "down") /\ downs' = downs + 1
  /\ asked' = ClosedAgain
  /\ queue' = q
  /\ UNCHANGED <<dataVars, ups, removed>>

\* HandleClose up to the call of conn_fn_, for a status that is not
\* kDisconnected.  DelayClose and HandleError store kDisconnecting and call it.
HandleClose(q) ==
  /\ status' = "kDisconnecting"
  /\ reading' = FALSE /\ writing' = FALSE /\ chan' = "closed"
  /\ timer' = FALSE
  /\ stack' = Append(stack, "down") /\ downs' = downs + 1
  /\ asked' = ClosedAgain
  /\ queue' = q
  /\ UNCHANGED <<dataVars, ups, removed>>

\* MUTANT: reaching the mark is not exceeding it.
Buffer_OffByOne(rest, q) ==
  LET size == Len(output) + Len(rest)
      high == size > Mark /\ Len(output) < Mark
  IN /\ output' = output \o rest
     /\ writing' = (chan = "open")
     /\ chan' = IF chan = "open" THEN chan ELSE "crashed"
     /\ queue' = IF high THEN Append(q, Functor("hwm")) ELSE q
     /\ reported' = (reported \/ high)

\* The end of SendInLoop: what send has not taken goes to the output buffer, and
\* the write event is enabled.
Buffer(rest, q) ==
  LET size == Len(output) + Len(rest)
      high == size >= Mark /\ Len(output) < Mark
  IN /\ output' = output \o rest
     /\ writing' = (chan = "open")
     /\ chan' = IF chan = "open" THEN chan ELSE "crashed"
     /\ queue' = IF high THEN Append(q, Functor("hwm")) ELSE q
     /\ reported' = (reported \/ high)

SendInLoop(m, q) ==
  LET data == Bytes(m)
      direct == ~writing /\ output = <<>>
  IN \/ /\ status = "kDisconnected"
        /\ queue' = q
        /\ UNCHANGED <<chanVars, dataVars, histVars, status, stack, asked>>
     \/ /\ status # "kDisconnected" /\ direct /\ peer = "reset"
        /\ HandleClose(q)
     \/ /\ status # "kDisconnected" /\ direct /\ peer # "reset"
        /\ accepted' = accepted \o data
        /\ wire' = wire \o data
        /\ queue' = Append(q, Functor("wc"))
        /\ UNCHANGED <<chanVars, histVars, status, stack, output, reported, asked>>
     \/ /\ status # "kDisconnected" /\ direct /\ peer # "reset"
        /\ accepted' = accepted \o data
        /\ \E n \in 0..(MsgLen - 1) :
             /\ wire' = wire \o SubSeq(data, 1, n)
             /\ Buffer(SubSeq(data, n + 1, MsgLen), q)
        /\ UNCHANGED <<reading, timer, histVars, status, stack, asked>>
     \/ /\ status # "kDisconnected" /\ ~direct
        /\ accepted' = accepted \o data
        /\ Buffer(data, q)
        /\ UNCHANGED <<wire, reading, timer, histVars, status, stack, asked>>

\* MUTANT: close_fn_ is not called.
Closed_NotRemoved ==
  status' = "kDisconnected" /\ UNCHANGED <<ups, downs, removed>>

\* What is left of HandleClose when conn_fn_ has returned.
Closed ==
  /\ removed' = removed + 1
  /\ status' = "kDisconnected"
  /\ UNCHANGED <<ups, downs>>

-----------------------------------------------------------------------------
(* The loop thread runs a functor or handles an event.                     *)

Ready(k) == stack = <<>> /\ queue # <<>> /\ Head(queue).k = k

OnAttachedToLoop ==
  /\ Ready("attach")
  /\ queue' = Tail(queue)
  /\ status' = "kConnected" /\ reading' = TRUE
  /\ stack' = <<"up">> /\ ups' = ups + 1
  /\ UNCHANGED <<fixedVars, dataVars, peerVars, chan, writing, timer, tpc,
                 sent, downs, removed, asked>>

SendStringInLoop ==
  /\ Ready("send")
  /\ SendInLoop(Head(queue).m, Tail(queue))
  /\ UNCHANGED <<fixedVars, peerVars, tpc, sent>>

\* The functor that Close queues.
CloseFunctor ==
  /\ Ready("close")
  /\ \/ /\ status # "kDisconnected" /\ HandleClose(Tail(queue))
     \/ /\ status = "kDisconnected" /\ queue' = Tail(queue)
        /\ UNCHANGED <<chanVars, dataVars, histVars, status, stack, asked>>
  /\ UNCHANGED <<fixedVars, peerVars, tpc, sent>>

\* write_complete_fn_ and high_water_mark_fn_.
Callback(k) ==
  /\ Ready(k)
  /\ queue' = Tail(queue) /\ stack' = <<k>>
  /\ UNCHANGED <<fixedVars, chanVars, dataVars, peerVars, histVars, status,
                 tpc, sent, asked>>

\* A channel that is closed has no event any more.
CanHandle(event) == stack = <<>> /\ chan = "open" /\ event

HandleReadData ==
  /\ CanHandle(reading) /\ unread > 0
  /\ unread' = unread - 1
  /\ stack' = <<"msg">>
  /\ UNCHANGED <<fixedVars, chanVars, dataVars, histVars, status, queue, tpc,
                 sent, peer, arrived, asked>>

\* MUTANT: the delay timer is not set.
HandleReadEOF_NoTimer ==
  /\ CanHandle(reading) /\ unread = 0 /\ peer # "open"
  /\ \/ /\ type = "kOutgoing" \/ ~delayed
        /\ HandleClose(queue)
     \/ /\ delayed
        /\ reading' = FALSE
        /\ UNCHANGED <<chan, writing, timer, dataVars, histVars, status,
                       queue, stack, asked>>
  /\ UNCHANGED <<fixedVars, peerVars, tpc, sent>>

HandleReadEOF ==
  /\ CanHandle(reading) /\ unread = 0 /\ peer # "open"
  /\ \/ /\ type = "kOutgoing" \/ ~delayed
        /\ HandleClose(queue)
     \/ /\ delayed
        /\ reading' = FALSE /\ timer' = TRUE
        /\ UNCHANGED <<chan, writing, dataVars, histVars, status, queue,
                       stack, asked>>
  /\ UNCHANGED <<fixedVars, peerVars, tpc, sent>>

HandleReadError ==
  /\ CanHandle(reading) /\ peer = "reset"
  /\ HandleClose(queue)
  /\ UNCHANGED <<fixedVars, peerVars, tpc, sent>>

\* The timer that HandleRead has set.
DelayClose ==
  /\ stack = <<>> /\ timer
  /\ HandleClose(queue)
  /\ UNCHANGED <<fixedVars, peerVars, tpc, sent>>

\* MUTANT: one byte too many is consumed.
HandleWrite_Skips ==
  /\ CanHandle(writing) /\ peer # "reset"
  /\ \E n \in 1..Len(output) :
       /\ wire' = wire \o SubSeq(output, 1, n)
       /\ output' = SubSeq(output, n + 2, Len(output))
  /\ writing' = (output' # <<>>)
  /\ queue' = IF output' = <<>> THEN Append(queue, Functor("wc")) ELSE queue
  /\ reported' = (reported /\ Len(output') >= Mark)
  /\ UNCHANGED <<fixedVars, peerVars, histVars, chan, reading, timer, status,
                 stack, tpc, sent, accepted, asked>>

HandleWrite ==
  /\ CanHandle(writing) /\ peer # "reset"
  /\ \E n \in 1..Len(output) :
       /\ wire' = wire \o SubSeq(output, 1, n)
       /\ output' = SubSeq(output, n + 1, Len(output))
  /\ writing' = (output' # <<>>)
  /\ queue' = IF output' = <<>> THEN Append(queue, Functor("wc")) ELSE queue
  /\ reported' = (reported /\ Len(output') >= Mark)
  /\ UNCHANGED <<fixedVars, peerVars, histVars, chan, reading, timer, status,
                 stack, tpc, sent, accepted, asked>>

HandleWriteError ==
  /\ CanHandle(writing) /\ peer = "reset"
  /\ HandleClose(queue)
  /\ UNCHANGED <<fixedVars, peerVars, tpc, sent>>

-----------------------------------------------------------------------------
(* The user, on the loop thread: in a callback or in something else that   *)
(* the loop runs.  Callbacks return.                                       *)

\* Every overload of Send tests status_, but for Send(const void*, size_t).
SendInPlace(m) ==
  /\ ups > 0 /\ m \notin sent
  /\ SendInLoop(m, queue)
  /\ sent' = sent \cup {m}
  /\ UNCHANGED <<fixedVars, peerVars, tpc>>

\* Close stores kDisconnecting before it calls HandleClose, whatever the status is.
CloseInPlace ==
  /\ ups > 0 /\ downs < MaxCloses
  /\ HandleClose(queue)
  /\ UNCHANGED <<fixedVars, peerVars, tpc, sent>>

Return ==
  /\ stack # <<>>
  /\ stack' = Front(stack)
  /\ IF Last(stack) = "down" THEN Closed ELSE UNCHANGED <<status, histVars>>
  /\ asked' = IF asked = "nested" /\ stack' = <<>> THEN "late" ELSE asked
  /\ UNCHANGED <<fixedVars, chanVars, dataVars, peerVars, queue, tpc, sent>>

-----------------------------------------------------------------------------
(* Another thread: the test of the status, the store, the post.            *)

Send(t, m) ==
  /\ tpc[t] = Idle /\ ups > 0 /\ m \notin sent
  /\ status = "kConnected"
  /\ tpc' = [tpc EXCEPT ![t] = [at |-> "send", msg |-> m]]
  /\ sent' = sent \cup {m}
  /\ UNCHANGED <<fixedVars, chanVars, dataVars, peerVars, histVars, status,
                 queue, stack, asked>>

PostSend(t) ==
  /\ tpc[t].at = "send"
  /\ queue' = Append(queue, SendFunctor(tpc[t].msg))
  /\ tpc' = [tpc EXCEPT ![t] = Idle]
  /\ UNCHANGED <<fixedVars, chanVars, dataVars, peerVars, histVars, status,
                 stack, sent, asked>>

\* The caller sees IsConnected() before it calls Close, as TCPServer does.
TestConnected(t) ==
  /\ tpc[t] = Idle /\ ups > 0 /\ status = "kConnected"
  /\ tpc' = [tpc EXCEPT ![t] = [at |-> "close"]]
  /\ UNCHANGED <<fixedVars, chanVars, dataVars, peerVars, histVars, status,
                 queue, stack, sent, asked>>

Close(t) ==
  /\ tpc[t].at = "close"
  /\ status' = "kDisconnecting"
  /\ asked' = IF asked \in {"late", "nested"} THEN asked
              ELSE IF status = "kDisconnected" THEN "late" ELSE "yes"
  /\ tpc' = [tpc EXCEPT ![t] = [at |-> "post"]]
  /\ UNCHANGED <<fixedVars, chanVars, dataVars, peerVars, histVars, queue,
                 stack, sent>>

PostClose(t) ==
  /\ tpc[t].at = "post"
  /\ queue' = Append(queue, Functor("close"))
  /\ tpc' = [tpc EXCEPT ![t] = Idle]
  /\ UNCHANGED <<fixedVars, chanVars, dataVars, peerVars, histVars, status,
                 stack, sent, asked>>

-----------------------------------------------------------------------------
(* The peer and the network.                                               *)

PeerSends ==
  /\ peer = "open" /\ arrived < MaxReads
  /\ unread' = unread + 1 /\ arrived' = arrived + 1
  /\ UNCHANGED <<fixedVars, chanVars, dataVars, histVars, status, queue,
                 stack, tpc, sent, peer, asked>>

PeerCloses ==
  /\ \/ peer = "open" /\ peer' = "fin" /\ UNCHANGED unread
     \/ peer # "reset" /\ peer' = "reset" /\ unread' = 0
  /\ UNCHANGED <<fixedVars, chanVars, dataVars, histVars, status, queue,
                 stack, tpc, sent, arrived, asked>>

-----------------------------------------------------------------------------
LoopStep ==
  /\ chan # "crashed"
  /\ \/ OnAttachedToLoop \/ SendStringInLoop \/ CloseFunctor
     \/ Callback("wc") \/ Callback("hwm")
     \/ HandleReadData \/ HandleReadEOF \/ HandleReadError
     \/ DelayClose \/ HandleWriteError \/ Return

ThreadStep(t) == chan # "crashed" /\ (PostSend(t) \/ Close(t) \/ PostClose(t))

Next ==
  /\ chan # "crashed"
  /\ \/ LoopStep \/ HandleWrite \/ CloseInPlace
     \/ \E m \in Messages : SendInPlace(m)
     \/ \E t \in Threads : ThreadStep(t) \/ TestConnected(t)
                             \/ \E m \in Messages : Send(t, m)
     \/ PeerSends \/ PeerCloses

\* The loop thread runs, callbacks return, and calls in progress are finished.
\* Nothing is said of HandleWrite: whether the kernel takes bytes is up to the peer.
Fairness == WF_vars(LoopStep) /\ \A t \in Threads : WF_vars(ThreadStep(t))

Spec == Init /\ [][Next]_vars
FairSpec == Spec /\ Fairness
=============================================================================
