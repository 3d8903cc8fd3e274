----------------------------- MODULE NSQClient ------------------------------
(***************************************************************************)
(* apps/evnsq: the Client (client.cc) with its NSQConns (nsq_conn.cc), as  *)
(* a Producer (producer.cc) or a Consumer, all on one loop.                *)
(*                                                                         *)
(* An NSQConn has a TCPClient, reduced here to what TCPClient and TCPConn  *)
(* do for it: a connection comes up, fails or drops, auto_reconnect_ makes *)
(* another attempt, and Disconnect in the loop's thread closes in place,   *)
(* so that the callbacks run inside it.  nsqd answers what it was sent in  *)
(* order.  Several NSQConn objects may have the same address.              *)
(***************************************************************************)
EXTENDS Naturals, Sequences, SequencesExt

CONSTANTS
  Addrs,            \* the addresses of the nsqds
  MaxObjects,       \* the NSQConn objects are 1..MaxObjects
  Commands,         \* the PUB and MPUB commands
  Size(_),          \* cmd->body().size()
  Scenes            \* what may happen: [type, json, auth, addrs, commands, mark,
                    \* faults]; json is option_.feature_negotiation, auth what
                    \* nsqd then answers to IDENTIFY (its auth_required), mark
                    \* is high_water_mark_, and faults bounds the breaks, the
                    \* answers of nsqlookupd, the calls of Close after the
                    \* first and those of PublishBinaryCommand

ASSUME NSQAssumption ==
  /\ MaxObjects \in Nat
  /\ \A c \in Commands : Size(c) \in Nat \ {0}
  /\ \A s \in Scenes : /\ s.addrs \subseteq Addrs /\ s.commands \subseteq Commands
                        /\ s.type \in {"kProducer", "kConsumer"}
                        /\ {s.json, s.auth} \subseteq BOOLEAN /\ {s.mark, s.faults} \subseteq Nat

VARIABLES
  nsq,        \* the NSQConns, see NewConn
  connecting, \* connecting_conns_: the object of each address, 0 for no entry,
              \* Null for an entry that holds no object
  conns,      \* conns_
  index,      \* current_conn_index_
  queue,      \* the functors pending in the loop
  closing,    \* closing_
  timer,      \* lookupd_timers_: "none", "on", or "cancelled" by Close
  cmd,        \* the commands: [at, retried]
  count,      \* the Producer's counts, and what no count has
  told,       \* history: calls of close_fn_, capped at 1
  mixed,      \* history: PublishBinaryCommand was used
  scene,      \* the scene
  asked,      \* the addresses of it the user has connected to
  faults,     \* how many of its faults have been
  broken,     \* history: a connection failed or broke
  rejoined,   \* history: NSQConn::Reconnect was called
  crashed     \* "no", or what was used after its end

bounds == <<asked, faults, broken>>
clientVars == <<nsq, connecting, conns, queue, told, rejoined>>
publishVars == <<cmd, count, index, mixed>>
vars == <<scene, clientVars, publishVars, closing, timer, bounds, crashed>>

type == scene.type
high_water_mark_ == scene.mark
Objects == 1..MaxObjects
Null == MaxObjects + 1
Status == {"none", "kDisconnected", "kConnecting", "kIdentifying",
           "kAuthenticating", "kConnected", "kSubscribing", "kReady",
           "kDisconnecting"}

\* tcp: "none", "connecting", "waiting" for the next attempt, "up", or "cancelled".
\* auto: auto_reconnect_, which Disconnect clears when it frees the connector_.
\* wire: what nsqd has not answered; cb: publish_response_cb_ is set.  Histories:
\* stale, the commands in wait_ack that a dropped connection left there; unparsed, the
\* answer to IDENTIFY could not be parsed.
NoConn == [addr |-> "", status |-> "none", tcp |-> "none", auto |-> FALSE, cb |-> FALSE,
           wait_ack |-> <<>>, wire |-> <<>>, stale |-> 0, unparsed |-> FALSE]
NewConn(a) == [NoConn EXCEPT !.addr = a, !.status = "kConnecting",
                             !.tcp = "connecting", !.auto = TRUE]

Functor(f, x) == [f |-> f, x |-> x]

Fault == faults < scene.faults /\ faults' = faults + 1 /\ UNCHANGED asked
Break == Fault /\ broken' = TRUE

Init ==
  /\ nsq = [o \in Objects |-> NoConn]
  /\ connecting = [a \in Addrs |-> 0] /\ conns = <<>> /\ index = 0
  /\ queue = <<>> /\ closing = FALSE /\ timer = "none"
  /\ cmd = [c \in Commands |-> [at |-> "new", retried |-> 0]]
  /\ count = [published |-> 0, ok |-> 0, failed |-> 0, discarded |-> 0]
  /\ told = 0 /\ mixed = FALSE /\ faults = 0 /\ broken = FALSE /\ rejoined = FALSE
  /\ crashed = "no" /\ scene \in Scenes /\ asked = {}

\* A state of the Client while a callback runs: the parts that callbacks change.
Now == [nsq |-> nsq, connecting |-> connecting, conns |-> conns, queue |-> queue,
        told |-> told, rejoined |-> rejoined, crashed |-> crashed]

\* An NSQConn lives as long as a list or a functor holds it.  With it goes its
\* TCPClient, also one whose connector or connection is still at work.
Held(s) == {s.connecting[a] : a \in Addrs} \cup ToSet(s.conns)
           \cup {s.queue[i].x : i \in {j \in 1..Len(s.queue) : s.queue[j].f = "check"}}
Dangling(c) == c.status = "none" /\ c.addr # ""
Collected(s) ==
  [o \in Objects |->
     IF o \in Held(s) THEN s.nsq[o]
     ELSE IF s.nsq[o].tcp \in {"connecting", "waiting", "up"}
     THEN [s.nsq[o] EXCEPT !.status = "none", !.wait_ack = <<>>] ELSE NoConn]

\* The sizes of the commands in wait_ack_.
Waiting(n) == FoldFunction(LAMBDA c, sum : sum + FoldLeft(LAMBDA t, x : t + Size(x),
                                                          0, c.wait_ack), 0, n)

Becomes(s) ==
  \E now \in {s} :
    /\ nsq' = Collected(now)
    /\ connecting' = now.connecting /\ conns' = now.conns
    /\ queue' = now.queue /\ told' = now.told
    /\ rejoined' = now.rejoined /\ crashed' = now.crashed

\* The same when no answer to a publish is in it: what leaves wait_ack_ is in none of
\* the Producer's counts.
Changes(s) ==
  /\ Becomes(s)
  /\ count' = [count EXCEPT !.discarded = @ + Waiting(nsq) - Waiting(nsq')]

SetStatus(s, o, st) == [s EXCEPT !.nsq[o].status = st]

\* WriteBinaryCommand, through tcp_client_->conn(), which is null when there is none.
Send(s, o, what) ==
  IF s.nsq[o].tcp = "up" THEN [s EXCEPT !.nsq[o].wire = Append(@, what)]
  ELSE [s EXCEPT !.crashed = "null"]

-----------------------------------------------------------------------------
(* Client::OnConnection, by the status of the NSQConn.                     *)

\* MUTANT: the connection stays in conns_.
MoveToConnectingList_StaysListed(s, o) ==
  LET a == s.nsq[o].addr IN
  IF s.connecting[a] \in Objects THEN s
  ELSE [s EXCEPT !.connecting[a] = IF Contains(s.conns, o) THEN o ELSE Null]

\* connecting_conns_[addr] makes an entry, which stays empty when the NSQConn is not
\* in conns_ either.
MoveToConnectingList(s, o) ==
  LET a == s.nsq[o].addr IN
  IF s.connecting[a] \in Objects THEN s
  ELSE [s EXCEPT !.connecting[a] = IF Contains(s.conns, o) THEN o ELSE Null,
                 !.conns = Remove(@, o)]

Subscribe(s, o) == SetStatus(Send(s, o, "SUB"), o, "kSubscribing")

\* kConnected: a consumer subscribes; a producer is ready.
OnConnected(s, o) ==
  IF type = "kConsumer" THEN Subscribe(s, o)
  ELSE [SetStatus(s, o, "kReady") EXCEPT !.conns = Append(@, o),
                                         !.connecting[s.nsq[o].addr] = 0,
                                         !.nsq[o].cb = @ \/ timer # "cancelled"]

\* kReady, of a consumer.
OnSubscribed(s, o) ==
  [SetStatus(s, o, "kReady") EXCEPT !.conns = Append(@, o),
                                    !.connecting[s.nsq[o].addr] = 0]

\* The other statuses: the NSQConn is deleted from both lists.  The functor that
\* looks at its status in the next loop holds it until then.
OnDisconnected(s, o) ==
  LET d == [s EXCEPT !.conns = Remove(@, o), !.connecting[s.nsq[o].addr] = 0] IN
  [d EXCEPT !.told = IF d.conns = <<>> /\ \A a \in Addrs : d.connecting[a] = 0
                     THEN 1 ELSE @,
            !.queue = Append(@, Functor("check", o))]

-----------------------------------------------------------------------------
(* NSQConn: the events of its TCPClient, and Close and Reconnect.          *)

\* What was sent and not answered is lost with the connection, but stays in wait_ack_.
Broken(c) == [c EXCEPT !.wire = <<>>, !.stale = Len(c.wait_ack)]

\* OnTCPConnectionEvent of a connection that is down.
OnTCPDown(s, o) ==
  IF s.nsq[o].auto THEN MoveToConnectingList(SetStatus(s, o, "kConnecting"), o)
  ELSE OnDisconnected(SetStatus(s, o, "kDisconnected"), o)

Identify(s, o) == SetStatus(Send(s, o, "IDENTIFY"), o, "kIdentifying")
Authenticate(s, o) == SetStatus(Send(s, o, "AUTH"), o, "kAuthenticating")

\* tcp_client_->Disconnect().  A connection that is up is closed in place; one that
\* is connecting is cancelled without a callback; an attempt that waits for its
\* timer is made nevertheless.  The connector_ is freed, and a second call uses it.
Disconnect(s, o) ==
  LET c == [s.nsq[o] EXCEPT !.auto = FALSE] IN
  IF ~s.nsq[o].auto THEN [s EXCEPT !.crashed = "null"]
  ELSE CASE c.tcp = "up" ->
              OnTCPDown([s EXCEPT !.nsq[o] = [Broken(c) EXCEPT !.tcp = "none"]], o)
         [] c.tcp = "connecting" -> [s EXCEPT !.nsq[o] = [c EXCEPT !.tcp = "cancelled"]]
         [] OTHER -> [s EXCEPT !.nsq[o] = c]

Close(s, o) == Disconnect(SetStatus(s, o, "kDisconnecting"), o)

\* The cached messages are discarded and a new TCPClient connects.
Reconnect(s, o) ==
  LET d == Disconnect([s EXCEPT !.nsq[o].wait_ack = <<>>], o) IN
  [d EXCEPT !.nsq[o] = [NewConn(d.nsq[o].addr) EXCEPT !.cb = d.nsq[o].cb],
            !.rejoined = TRUE]

-----------------------------------------------------------------------------
(* The Client: ConnectToNSQD, the lookups and Close.                       *)

Unused == {o \in Objects : nsq[o] = NoConn}

ConnectTo(s, o, a) == [s EXCEPT !.nsq[o] = NewConn(a), !.connecting[a] = o]

IsKnownNSQDAddress(a) ==
  connecting[a] # 0 \/ \E i \in 1..Len(conns) : nsq[conns[i]].addr = a

\* The user connects to an nsqd, once for an address and to no known one.
ConnectToNSQD(a) ==
  /\ a \in scene.addrs \ asked /\ \A o \in Objects : nsq[o].addr # a
  /\ asked' = asked \cup {a}
  /\ Unused # {}
  /\ Changes(ConnectTo(Now, CHOOSE o \in Unused : \A p \in Unused : o <= p, a))
  /\ UNCHANGED <<scene, cmd, index, mixed, closing, timer, faults, broken>>

ConnectToLookupd ==
  /\ timer = "none" /\ timer' = "on"
  /\ UNCHANGED <<scene, clientVars, publishVars, closing, bounds, crashed>>

\* nsqlookupd answers a query: an address the Client does not know is connected to.
\* The last query may be answered after Close has cancelled the timers.
HandleLoopkupdHTTPResponse(a) ==
  /\ Fault
  /\ timer # "none"
  /\ ~IsKnownNSQDAddress(a) /\ Unused # {}
  /\ Changes(ConnectTo(Now, CHOOSE o \in Unused : \A p \in Unused : o <= p, a))
  /\ UNCHANGED <<scene, cmd, index, mixed, closing, timer, broken>>

ClientClose ==
  /\ IF closing THEN Fault /\ UNCHANGED broken ELSE UNCHANGED bounds
  /\ closing' = TRUE
  /\ queue' = Append(queue, Functor("close", 0))
  /\ UNCHANGED <<scene, nsq, connecting, conns, told, rejoined, publishVars, timer,
                 crashed>>

Runs(f, x) == queue # <<>> /\ Head(queue) = Functor(f, x)
Popped == [Now EXCEPT !.queue = Tail(@)]

\* The functor of Close.  Closing an NSQConn whose connection is up erases it from
\* the list that the functor is iterating over: with one connection in conns_ the
\* loop ends all the same; with more of them, or when it was in connecting_conns_,
\* the iterator is used after its end.  An empty entry of connecting_conns_ is used
\* too.
RunClose ==
  /\ Runs("close", 0)
  /\ LET s == FoldLeft(Close, Popped, conns)
         left == {s.connecting[a] : a \in Addrs} \ {0}
     IN  Changes(IF Len(conns) > 1 \/ \E o \in left \cap Objects : s.nsq[o].tcp = "up"
                 THEN [Popped EXCEPT !.crashed = "iterator"]
                 ELSE IF Null \in left THEN [Popped EXCEPT !.crashed = "null"]
                 ELSE FoldSet(LAMBDA o, t : Close(t, o), s, left))
  /\ timer' = "cancelled"
  /\ UNCHANGED <<scene, cmd, index, mixed, closing, bounds>>

\* The functor of OnConnection, which only looks at the status.
RunCheck(o) ==
  /\ Runs("check", o)
  /\ Changes(Popped)
  /\ UNCHANGED <<scene, cmd, index, mixed, closing, timer, bounds>>

-----------------------------------------------------------------------------
(* TCP.                                                                    *)

\* A connector or a connection reports to a TCPClient that has been deleted.
TCPCrash(o) ==
  /\ Dangling(nsq[o]) /\ crashed' = "freed"
  /\ UNCHANGED <<scene, clientVars, publishVars, closing, timer, bounds>>

\* OnTCPConnectionEvent of a connection that is up.
TCPUp(o) ==
  /\ ~Dangling(nsq[o]) /\ nsq[o].tcp = "connecting"
  /\ LET u == [Now EXCEPT !.nsq[o].tcp = "up"] IN
       Changes(IF nsq[o].status = "kConnecting" THEN Identify(u, o) ELSE u)
  /\ UNCHANGED <<scene, cmd, index, mixed, closing, timer, bounds>>

\* An attempt fails.  The NSQConn hears of it when the connection was refused or when
\* no other attempt is made.
TCPFails(o, refused) ==
  /\ ~Dangling(nsq[o]) /\ nsq[o].tcp = "connecting"
  /\ Break
  /\ LET s == [Now EXCEPT !.nsq[o].tcp = IF nsq[o].auto THEN "waiting" ELSE "none"] IN
       Changes(IF refused \/ ~nsq[o].auto THEN OnTCPDown(s, o) ELSE s)
  /\ UNCHANGED <<scene, cmd, index, mixed, closing, timer>>

TCPRetries(o) ==
  /\ ~Dangling(nsq[o]) /\ nsq[o].tcp = "waiting"
  /\ nsq' = [nsq EXCEPT ![o].tcp = "connecting"]
  /\ UNCHANGED <<scene, connecting, conns, queue, told, rejoined, publishVars, closing,
                 timer, bounds, crashed>>

\* The remote end closes; the TCPClient connects again unless it was told not to.
TCPDrops(o) ==
  /\ ~Dangling(nsq[o]) /\ nsq[o].tcp = "up"
  /\ Break
  /\ Changes(OnTCPDown([Now EXCEPT !.nsq[o] =
                          [Broken(@) EXCEPT !.tcp = IF nsq[o].auto THEN "connecting"
                                                    ELSE "none"]], o))
  /\ UNCHANGED <<scene, cmd, index, mixed, closing, timer>>

-----------------------------------------------------------------------------
(* OnRecv: the answer to what nsqd was sent first.                         *)

Answers(o) == nsq[o].tcp = "up" /\ ~Dangling(nsq[o]) /\ nsq[o].wire # <<>>
Answered(o) == [Now EXCEPT !.nsq[o].wire = Tail(@)]

OnConnectedOK(s, o) == OnConnected(SetStatus(s, o, "kConnected"), o)

\* The answer to IDENTIFY.  After one that cannot be parsed the connection is closed,
\* and auth_required is read nevertheless, from a document without it.
OnIdentified(s, o, ok, auth_required) ==
  IF ok THEN IF auth_required THEN Authenticate(s, o) ELSE OnConnectedOK(s, o)
  ELSE IF ~scene.json THEN Close(s, o)
  ELSE LET d == [Close(s, o) EXCEPT !.nsq[o].unparsed = TRUE] IN
       IF auth_required THEN Authenticate(d, o) ELSE OnConnectedOK(d, o)

\* While it identifies, authenticates and subscribes.
OnRecv(o, ok) ==
  /\ Answers(o)
  /\ IF ok THEN UNCHANGED bounds ELSE Break
  /\ LET s == Answered(o) IN
     \/ /\ nsq[o].status = "kIdentifying"
        /\ \E auth \in IF ok THEN {scene.auth} ELSE BOOLEAN :
             Changes(OnIdentified(s, o, ok, auth))
     \/ /\ nsq[o].status = "kAuthenticating"
        /\ Changes(IF ok THEN OnConnectedOK(s, o) ELSE Close(s, o))
     \/ /\ nsq[o].status = "kSubscribing"
        /\ Changes(IF ok THEN OnSubscribed(s, o) ELSE Reconnect(s, o))
  /\ UNCHANGED <<scene, cmd, index, mixed, closing, timer>>

\* An error frame when it is ready: E_UNAUTHORIZED closes, another one reconnects.
\* It comes in answer to a command, or to a consumer at any time.
OnErrorFrame(o, unauthorized) ==
  /\ nsq[o].status = "kReady" /\ nsq[o].tcp = "up"
  /\ type = "kProducer" => Answers(o)
  /\ Break
  /\ Changes(IF unauthorized THEN Close(Now, o) ELSE Reconnect(Now, o))
  /\ UNCHANGED <<scene, cmd, index, mixed, closing, timer>>

-----------------------------------------------------------------------------
(* The Producer.                                                           *)

\* Publish, from another thread: the tests of closing_ and conns_, and the post.
PublishTest(c) ==
  /\ type = "kProducer" /\ c \in scene.commands /\ cmd[c].at = "new"
  /\ ~closing /\ conns # <<>>
  /\ cmd' = [cmd EXCEPT ![c].at = "tested"]
  /\ UNCHANGED <<scene, clientVars, count, index, mixed, closing, timer, bounds, crashed>>

PublishPost(c) ==
  /\ cmd[c].at = "tested"
  /\ cmd' = [cmd EXCEPT ![c].at = "posted"]
  /\ queue' = Append(queue, Functor("publish", c))
  /\ UNCHANGED <<scene, nsq, connecting, conns, told, rejoined, count, index, mixed,
                 closing, timer, bounds, crashed>>

\* GetNextConn: the position of the next connection, when there is one.
Position == IF index >= Len(conns) THEN 1 ELSE index + 1

\* WritePublishCommand, when fewer than high_water_mark_ commands wait.
WritePublish(s, o, c) == [Send(s, o, c) EXCEPT !.nsq[o].wait_ack = Append(@, c)]
Full(s, o) == Len(s.nsq[o].wait_ack) >= high_water_mark_

PublishInLoop(c) ==
  /\ Runs("publish", c)
  /\ IF conns = <<>>
     THEN /\ Becomes(Popped)
          /\ cmd' = [cmd EXCEPT ![c].at = "refused"]
          /\ UNCHANGED <<count, index>>
     ELSE LET o == conns[Position]  full == Full(Now, o) IN
          /\ index' = Position
          /\ Becomes(IF full THEN Popped ELSE WritePublish(Popped, o, c))
          /\ cmd' = [cmd EXCEPT ![c].at = IF full THEN "failed" ELSE "waiting"]
          /\ count' = [count EXCEPT !.published = @ + Size(c),
                                    !.failed = IF full THEN @ + Size(c) ELSE @]
  /\ UNCHANGED <<scene, mixed, closing, timer, bounds>>

\* PublishBinaryCommand: nothing is put in wait_ack_.
PublishBinaryCommand ==
  /\ type = "kProducer" /\ ~closing /\ conns # <<>>
  /\ Fault
  /\ index' = Position
  /\ Becomes(Send(Now, conns[Position], "binary"))
  /\ count' = [count EXCEPT !.published = @ + 1]
  /\ mixed' = TRUE
  /\ UNCHANGED <<scene, cmd, closing, timer, broken>>

\* A response to a publish, "OK" or something else.
PublishResponse(o) ==
  /\ nsq[o].status = "kReady" /\ type = "kProducer" /\ Answers(o)
  /\ UNCHANGED <<scene, index, mixed, closing, timer, bounds>>

\* MUTANT: the response is taken to be about the last command.
PopWaitACK_Back(o) ==
  [Answered(o) EXCEPT !.nsq[o].wait_ack = IF @ = <<>> THEN @ ELSE Front(@)]

\* The front of wait_ack_ is what the response is taken to be about.
PopWaitACK(o) == [Answered(o) EXCEPT !.nsq[o].wait_ack = IF @ = <<>> THEN @ ELSE Tail(@)]
FirstWaiting(o) == Head(nsq[o].wait_ack)

\* publish_response_cb_ is set when the connection gets ready, unless Close was then
\* done.
OnPublishResponseOK(o) ==
  /\ PublishResponse(o)
  /\ Becomes([PopWaitACK(o) EXCEPT !.crashed = IF nsq[o].cb THEN @ ELSE "callback"])
  /\ IF nsq[o].wait_ack = <<>>
     THEN count' = [count EXCEPT !.ok = @ + 1] /\ UNCHANGED cmd
     ELSE /\ count' = [count EXCEPT !.ok = @ + Size(FirstWaiting(o))]
          /\ cmd' = [cmd EXCEPT ![FirstWaiting(o)].at = "ok"]

\* MUTANT: the command is not sent again.
OnPublishResponseFails_Forgets(o) ==
  /\ PublishResponse(o)
  /\ LET s == PopWaitACK(o) IN
     IF nsq[o].wait_ack = <<>> THEN Becomes(s) /\ UNCHANGED <<count, cmd>>
     ELSE LET c == FirstWaiting(o) IN
       IF cmd[c].retried >= 2
       THEN /\ Becomes([s EXCEPT !.crashed = IF nsq[o].cb THEN @ ELSE "callback"])
            /\ count' = [count EXCEPT !.failed = @ + Size(c)]
            /\ cmd' = [cmd EXCEPT ![c].at = "failed"]
       ELSE /\ Becomes(s)
            /\ cmd' = [cmd EXCEPT ![c].retried = @ + 1]
            /\ UNCHANGED count

OnPublishResponseFails(o) ==
  /\ PublishResponse(o)
  /\ LET s == PopWaitACK(o) IN
     IF nsq[o].wait_ack = <<>> THEN Becomes(s) /\ UNCHANGED <<count, cmd>>
     ELSE LET c == FirstWaiting(o) IN
       IF cmd[c].retried >= 2
       THEN /\ Becomes([s EXCEPT !.crashed = IF nsq[o].cb THEN @ ELSE "callback"])
            /\ count' = [count EXCEPT !.failed = @ + Size(c)]
            /\ cmd' = [cmd EXCEPT ![c].at = "failed"]
       ELSE /\ Becomes(IF Full(s, o) THEN s ELSE WritePublish(s, o, c))
            /\ cmd' = [cmd EXCEPT ![c].retried = @ + 1]
            /\ UNCHANGED count

-----------------------------------------------------------------------------
LoopNext ==
  \/ RunClose \/ \E c \in Commands : PublishInLoop(c)
  \/ \E o \in Objects :
       \/ RunCheck(o) \/ TCPCrash(o) \/ TCPUp(o) \/ TCPRetries(o)
       \/ OnPublishResponseOK(o) \/ OnPublishResponseFails(o)
       \/ OnRecv(o, TRUE)

Next ==
  /\ crashed = "no"
  /\ \/ LoopNext \/ ConnectToLookupd \/ ClientClose \/ PublishBinaryCommand
     \/ \E a \in Addrs : ConnectToNSQD(a) \/ HandleLoopkupdHTTPResponse(a)
     \/ \E c \in Commands : PublishTest(c) \/ PublishPost(c)
     \/ \E o \in Objects : TCPDrops(o) \/ OnRecv(o, FALSE)
                            \/ \E b \in BOOLEAN : TCPFails(o, b) \/ OnErrorFrame(o, b)

\* The loop runs, connections come up and nsqd answers.
Spec == Init /\ [][Next]_vars /\ WF_vars(crashed = "no" /\ LoopNext)
-----------------------------------------------------------------------------
\* The types of the state.
TypeOK ==
  /\ \A o \in Objects : /\ nsq[o].status \in Status
                         /\ nsq[o].tcp \in {"none", "connecting", "waiting", "up",
                                            "cancelled"}
                         /\ nsq[o].wait_ack \in Seq(Commands)
  /\ connecting \in [Addrs -> 0..Null] /\ conns \in Seq(Objects)
  /\ crashed \in {"no", "iterator", "freed", "callback", "null"}

\* A connection is in the list its status calls for.  conns_ has the ready ones, each
\* once and each with a TCP connection, so that a publish is given to one that can be
\* written to; connecting_conns_ has others, under their own address.  The exceptions
\* are an NSQConn whose answer to IDENTIFY could not be parsed, which gets ready
\* without a connection, and the entries left empty after Reconnect.  Until Reconnect
\* is called, an NSQConn whose TCPClient is at work is in one of the lists.
\* An object is used after its end for these reasons only: after Reconnect nothing but
\* a functor holds the NSQConn; Close erases from the lists that it walks over, finds
\* an empty entry, or is called twice; an unparsed answer is taken to be a good one.
ListedByStatus ==
  /\ TypeOK
  /\ crashed = "no" =>
       /\ \A o \in Objects : nsq[o].status = "kReady" <=> Contains(conns, o)
       /\ IsInjective(conns)
       /\ \A o \in ToSet(conns) : nsq[o].tcp = "up" \/ nsq[o].unparsed
       /\ \A a \in Addrs :
            /\ connecting[a] \in Objects =>
                 /\ nsq[connecting[a]].addr = a
                 /\ nsq[connecting[a]].status \in
                      {"kConnecting", "kIdentifying", "kAuthenticating", "kSubscribing",
                       "kDisconnecting"}
            /\ connecting[a] = Null => rejoined
       /\ rejoined \/ \A o \in Objects :
            nsq[o].tcp \in {"connecting", "waiting", "up"} =>
              Contains(conns, o) \/ connecting[nsq[o].addr] = o
  /\ crashed = "freed" => rejoined
  /\ crashed \in {"iterator", "callback"} => closing
  /\ crashed = "null" => closing \/ \E o \in Objects : nsq[o].unparsed

\* A response is about the command at the front of wait_ack_: as long as no
\* connection broke with commands unanswered, wait_ack_ is what nsqd has still to
\* answer, in the order of the publishes.  After a break it is longer by the commands
\* that the break left in it, for good, within the high water mark; and every
\* published message is counted once.
AcksInOrder ==
  crashed = "no" /\ ~mixed =>
    /\ \A o \in Objects : nsq[o].status = "kReady" =>
         /\ Len(nsq[o].wait_ack) = Len(nsq[o].wire) + nsq[o].stale
         /\ nsq[o].stale = 0 => nsq[o].wait_ack = nsq[o].wire
         /\ Len(nsq[o].wait_ack) <= high_water_mark_
    /\ count.published = count.ok + count.failed + count.discarded + Waiting(nsq)

\* A publish is answered, after two more attempts at most, when no connection breaks
\* and the client is not closed.
PublishIsTold ==
  \A c \in Commands :
    (cmd[c].at = "posted") ~>
      (cmd[c].at \in {"ok", "failed", "refused"} \/ broken \/ mixed \/ closing)
=============================================================================
