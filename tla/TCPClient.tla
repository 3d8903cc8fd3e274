------------------------------ MODULE TCPClient ------------------------------
(***************************************************************************)
(* evpp::TCPClient (evpp/tcp_client.cc) with its Connector                 *)
(* (evpp/connector.cc) and what the Connector uses of DNSResolver          *)
(* (evpp/dns_resolver.cc).                                                 *)
(*                                                                         *)
(* Everything happens on the thread of one loop; other threads only post   *)
(* Connect and Disconnect.  What makes it hard is that the handlers call   *)
(* the user in the middle, and the user calls back.  stack is the loop's   *)
(* call stack: the head is what runs next, "cb" is the user's callback.    *)
(*                                                                         *)
(* Connect and Reconnect make a new Connector.  An old one lives as long   *)
(* as a timer, a channel, a resolver or a delayed Start refers to it.      *)
(* conn_ is one connection; one whose loss was told, or that conn_ refers  *)
(* to no more, is followed only when it is closed again.                   *)
(***************************************************************************)
EXTENDS Naturals, Sequences

CONSTANTS
  MaxConnectors,   \* bound on the Connectors that are made
  MaxConnects,     \* how often the user calls Connect
  MaxDisconnects,  \* how often the user calls Disconnect
  MaxCloses        \* how often a connection is closed again

ASSUME ClientAssumption ==
  /\ MaxConnectors \in Nat /\ MaxConnects \in 0..MaxConnectors
  /\ MaxDisconnects \in Nat /\ MaxCloses \in Nat

Connectors == 1..MaxConnectors

VARIABLES
  autoReconnect, \* auto_reconnect_
  connector,     \* connector_, 0 when it is null
  conn,          \* conn_: "none", or its status
  made,          \* how many Connectors there have been
  status,        \* of each Connector: status_
  timer,         \* timer_ is set
  chan,          \* chan_: "none", "open" or "closed"
  dns,           \* dns_resolver_ will call OnDNSResolved
  resolved,      \* raddr_ is not zero
  restart,       \* a delayed Start is pending
  queue,         \* the functors pending in the loop
  stack,         \* the calls that are open on the loop's thread
  connects,      \* calls of Connect so far
  disconnects,   \* calls of Disconnect so far
  closes,        \* how often a connection was closed again so far
  reports,       \* history: what the user has been told
  stray          \* history: the Connectors that the client has dropped while
                 \* they were at work

clientVars    == <<autoReconnect, connector, conn, made>>
connectorVars == <<status, timer, chan, dns, resolved, restart>>
userVars      == <<connects, disconnects, closes>>
vars == <<clientVars, connectorVars, queue, stack, userVars, reports, stray>>

All(v) == [k \in Connectors |-> v]

Init ==
  /\ autoReconnect \in BOOLEAN /\ connector = 0 /\ conn = "none" /\ made = 0
  /\ status = All("kDisconnected") /\ timer = All(FALSE) /\ chan = All("none")
  /\ dns = All(FALSE) /\ restart = All(FALSE)
  /\ \E named \in BOOLEAN : resolved = All(~named)
  /\ queue = <<>> /\ stack = <<>>
  /\ connects = 0 /\ disconnects = 0 /\ closes = 0 /\ reports = {}
  /\ stray = {}

-----------------------------------------------------------------------------
(* The call stack.                                                         *)

Idle == stack = <<>>
At(f) == stack # <<>> /\ Head(stack).f = f
Top == Head(stack)

Call(f, k) == [f |-> f, k |-> k]
Callback(r) == [f |-> "cb", r |-> r]
Fail(k, refused) == [f |-> "HandleError", k |-> k, refused |-> refused]

\* The call at the head ends, or goes on as calls.
Returns == stack' = Tail(stack)
GoesOn(calls) == stack' = calls \o Tail(stack)
Enters(calls) == stack' = calls \o stack

Tell(calls) ==
  reports' = reports \cup {calls[i].r : i \in {j \in DOMAIN calls : calls[j].f = "cb"}}

\* Somebody besides the client refers to Connector k.
Busy(k) == timer[k] \/ chan[k] = "open" \/ dns[k] \/ restart[k]

\* connector_ is replaced or reset; the Connector lives on if it is at work.
Drops == stray' = stray \cup {k \in {connector} : k # 0 /\ Busy(k)}

\* The functor of TCPClient::Connect: connector_ is replaced and started.
NewConnector ==
  /\ made < MaxConnectors
  /\ made' = made + 1
  /\ connector' = made'
  /\ Drops

\* TCPConn::HandleClose, up to the user's callback and the rest of it.
HandleClose == <<Callback("lost"), Call("OnRemoveConnection", 0)>>

-----------------------------------------------------------------------------
(* Other threads.                                                          *)

\* The user connects a client that is new or disconnected, or one that it has
\* just told to disconnect.
Connect ==
  /\ connects < MaxConnects /\ connects' = connects + 1
  /\ IF queue = <<>> THEN connector = 0 ELSE queue[Len(queue)] = "Disconnect"
  /\ queue' = Append(queue, "Connect")
  /\ UNCHANGED <<clientVars, connectorVars, stack, disconnects, closes, reports,
                 stray>>

Disconnect ==
  /\ connects > 0 /\ disconnects < MaxDisconnects
  /\ disconnects' = disconnects + 1
  /\ queue' = Append(queue, "Disconnect")
  /\ UNCHANGED <<clientVars, connectorVars, stack, connects, closes, reports,
                 stray>>

-----------------------------------------------------------------------------
(* What the idle loop does next.                                           *)

RunConnect ==
  /\ Idle /\ queue # <<>> /\ Head(queue) = "Connect"
  /\ queue' = Tail(queue)
  /\ NewConnector /\ Enters(<<Call("Start", made')>>)
  /\ UNCHANGED <<autoReconnect, conn, connectorVars, userVars, reports>>

RunDisconnect ==
  /\ Idle /\ queue # <<>> /\ Head(queue) = "Disconnect"
  /\ queue' = Tail(queue)
  /\ Enters(<<Call("DisconnectInLoop", 0)>>)
  /\ UNCHANGED <<clientVars, connectorVars, userVars, reports, stray>>

\* Connector::HandleWrite up to conn_fn_, with OnConnection: the connection is
\* there, and the user is told.  The rest of HandleWrite follows.
HandleWrite(k) ==
  /\ Idle /\ chan[k] = "open"
  /\ conn' = "connected"
  /\ LET calls == <<Callback("connected"), Call("HandleWrite", k)>>
     IN Enters(calls) /\ Tell(calls)
  /\ UNCHANGED <<autoReconnect, connector, made, connectorVars, queue,
                 userVars, stray>>

\* The write event reports an error.
HandleWriteError(k) ==
  /\ Idle /\ chan[k] = "open"
  /\ \E refused \in BOOLEAN : Enters(<<Fail(k, refused)>>)
  /\ UNCHANGED <<clientVars, connectorVars, queue, userVars, reports, stray>>

OnConnectTimeout(k) ==
  /\ Idle /\ timer[k]
  /\ Enters(<<Fail(k, FALSE)>>)
  /\ UNCHANGED <<clientVars, connectorVars, queue, userVars, reports, stray>>

\* OnDNSResolved.
OnDNSResolved(k) ==
  /\ Idle /\ dns[k]
  /\ dns' = [dns EXCEPT ![k] = FALSE]
  /\ resolved' = [resolved EXCEPT ![k] = TRUE]
  /\ Enters(<<Call("Connect", k)>>)
  /\ UNCHANGED <<clientVars, status, timer, chan, restart, queue, userVars,
                 reports, stray>>

OnDNSFailed(k) ==
  /\ Idle /\ dns[k]
  /\ dns' = [dns EXCEPT ![k] = FALSE]
  /\ \E refused \in BOOLEAN : Enters(<<Fail(k, refused)>>)
  /\ UNCHANGED <<clientVars, status, timer, chan, resolved, restart, queue,
                 userVars, reports, stray>>

\* The timer of RunAfter(reconnect_interval()).
RunRestart(k) ==
  /\ Idle /\ restart[k]
  /\ restart' = [restart EXCEPT ![k] = FALSE]
  /\ Enters(<<Call("Start", k)>>)
  /\ UNCHANGED <<clientVars, status, timer, chan, dns, resolved, queue,
                 userVars, reports, stray>>

ConnLost ==
  /\ Idle /\ conn = "connected"
  /\ conn' = "disconnecting"
  /\ Enters(HandleClose) /\ Tell(HandleClose)
  /\ UNCHANGED <<autoReconnect, connector, made, connectorVars, queue,
                 userVars, stray>>

-----------------------------------------------------------------------------
(* The calls on the stack: Connector.                                      *)

\* Start, for a remote address that is an IP address or that is not.
Start ==
  /\ At("Start") /\ resolved[Top.k]
  /\ timer' = [timer EXCEPT ![Top.k] = TRUE]
  /\ GoesOn(<<Call("Connect", Top.k)>>)
  /\ UNCHANGED <<clientVars, status, chan, dns, resolved, restart, queue,
                 userVars, reports, stray>>

StartResolving ==
  /\ At("Start") /\ ~resolved[Top.k]
  /\ timer' = [timer EXCEPT ![Top.k] = TRUE]
  /\ status' = [status EXCEPT ![Top.k] = "kDNSResolving"]
  /\ dns' = [dns EXCEPT ![Top.k] = TRUE]
  /\ Returns
  /\ UNCHANGED <<clientVars, chan, resolved, restart, queue, userVars,
                 reports, stray>>

\* Connector::Connect: bind or connect fails at once, or the channel is opened.
ConnectFails ==
  /\ At("Connect")
  /\ \E refused \in BOOLEAN : GoesOn(<<Fail(Top.k, refused)>>)
  /\ UNCHANGED <<clientVars, connectorVars, queue, userVars, reports, stray>>

Connecting ==
  /\ At("Connect")
  /\ status' = [status EXCEPT ![Top.k] = "kConnecting"]
  /\ chan' = [chan EXCEPT ![Top.k] = "open"]
  /\ Returns
  /\ UNCHANGED <<clientVars, timer, dns, resolved, restart, queue, userVars,
                 reports, stray>>

Shut(k) == IF chan[k] = "open" THEN "closed" ELSE chan[k]

\* MUTANT: the timer of the attempt is not cancelled.
HandleWriteRest_KeepsTimer ==
  /\ At("HandleWrite")
  /\ chan' = [chan EXCEPT ![Top.k] = "closed"]
  /\ status' = [status EXCEPT ![Top.k] = "kConnected"]
  /\ Returns
  /\ UNCHANGED <<clientVars, timer, dns, resolved, restart, queue, userVars,
                 reports, stray>>

\* The rest of HandleWrite.  timer_ is null or the Connector is freed when the
\* callback has cancelled it or has replaced it: the program ends.
HandleWriteRest ==
  /\ At("HandleWrite")
  /\ LET k == Top.k
     IN IF timer[k] /\ connector = k
        THEN /\ timer' = [timer EXCEPT ![k] = FALSE]
             /\ chan' = [chan EXCEPT ![k] = "closed"]
             /\ status' = [status EXCEPT ![k] = "kConnected"]
             /\ Returns
        ELSE GoesOn(<<Call("crash", k)>>) /\ UNCHANGED <<timer, chan, status>>
  /\ UNCHANGED <<clientVars, dns, resolved, restart, queue, userVars,
                 reports, stray>>

\* MUTANT: the resolver is not cancelled.
HandleError_KeepsResolver ==
  /\ At("HandleError")
  /\ LET k == Top.k
         calls == IF Top.refused \/ ~autoReconnect
                  THEN <<Callback("failed"), Call("Retry", k)>>
                  ELSE <<Call("Retry", k)>>
     IN /\ status' = [status EXCEPT ![k] = "kDisconnected"]
        /\ chan' = [chan EXCEPT ![k] = Shut(k)]
        /\ UNCHANGED dns
        /\ timer' = [timer EXCEPT ![k] = FALSE]
        /\ GoesOn(calls) /\ Tell(calls)
  /\ UNCHANGED <<clientVars, resolved, restart, queue, userVars, stray>>

\* MUTANT: the user is only told of refused connections.
HandleError_Silent ==
  /\ At("HandleError")
  /\ LET k == Top.k
         calls == IF Top.refused
                  THEN <<Callback("failed"), Call("Retry", k)>>
                  ELSE <<Call("Retry", k)>>
     IN /\ status' = [status EXCEPT ![k] = "kDisconnected"]
        /\ chan' = [chan EXCEPT ![k] = Shut(k)]
        /\ dns' = [dns EXCEPT ![k] = FALSE]
        /\ timer' = [timer EXCEPT ![k] = FALSE]
        /\ GoesOn(calls) /\ Tell(calls)
  /\ UNCHANGED <<clientVars, resolved, restart, queue, userVars, stray>>

\* HandleError up to conn_fn_, which is called if the connection is refused or
\* will not be tried again.
HandleError ==
  /\ At("HandleError")
  /\ LET k == Top.k
         calls == IF Top.refused \/ ~autoReconnect
                  THEN <<Callback("failed"), Call("Retry", k)>>
                  ELSE <<Call("Retry", k)>>
     IN /\ status' = [status EXCEPT ![k] = "kDisconnected"]
        /\ chan' = [chan EXCEPT ![k] = Shut(k)]
        /\ dns' = [dns EXCEPT ![k] = FALSE]
        /\ timer' = [timer EXCEPT ![k] = FALSE]
        /\ GoesOn(calls) /\ Tell(calls)
  /\ UNCHANGED <<clientVars, resolved, restart, queue, userVars, stray>>

\* The rest of HandleError.  The callback may have replaced connector_.
Retry ==
  /\ At("Retry")
  /\ restart' = [restart EXCEPT ![Top.k] = @ \/ autoReconnect]
  /\ stray' = stray \cup {k \in {Top.k} : k # connector /\ restart'[k]}
  /\ Returns
  /\ UNCHANGED <<clientVars, status, timer, chan, dns, resolved, queue,
                 userVars, reports>>

\* Cancel up to conn_fn_, and the rest of it.
Cancel ==
  /\ At("Cancel")
  /\ LET k == Top.k
         calls == IF status[k] = "kDNSResolving"
                  THEN <<Callback("failed"), Call("Cancelled", k)>>
                  ELSE <<Call("Cancelled", k)>>
     IN /\ dns' = [dns EXCEPT ![k] = FALSE]
        /\ timer' = [timer EXCEPT ![k] = FALSE]
        /\ GoesOn(calls) /\ Tell(calls)
  /\ UNCHANGED <<clientVars, status, chan, resolved, restart, queue,
                 userVars, stray>>

Cancelled ==
  /\ At("Cancelled")
  /\ chan' = [chan EXCEPT ![Top.k] = Shut(Top.k)]
  /\ Returns
  /\ UNCHANGED <<clientVars, status, timer, dns, resolved, restart, queue,
                 userVars, reports, stray>>

-----------------------------------------------------------------------------
(* The calls on the stack: TCPClient.                                      *)

\* DisconnectInLoop closes conn_, cancels the Connector and resets connector_.
DisconnectInLoop ==
  /\ At("DisconnectInLoop")
  /\ autoReconnect' = FALSE
  /\ LET calls == (IF conn = "none" THEN <<>> ELSE HandleClose)
                    \o <<Call("DropConnector", 0)>>
     IN GoesOn(calls) /\ Tell(calls)
  /\ conn' = IF conn = "none" THEN conn ELSE "disconnecting"
  /\ UNCHANGED <<connector, made, connectorVars, queue, userVars, stray>>

\* Without a connector_ the test goes through a null pointer.
DropConnector ==
  /\ At("DropConnector")
  /\ IF connector = 0 THEN GoesOn(<<Call("crash", 0)>>)
     ELSE IF status[connector] \in {"kConnected", "kDisconnected"}
     THEN GoesOn(<<Call("ResetConnector", 0)>>)
     ELSE GoesOn(<<Call("Cancel", connector), Call("ResetConnector", 0)>>)
  /\ UNCHANGED <<clientVars, connectorVars, queue, userVars, reports, stray>>

ResetConnector ==
  /\ At("ResetConnector")
  /\ connector' = 0
  /\ Drops
  /\ Returns
  /\ UNCHANGED <<autoReconnect, conn, made, connectorVars, queue, userVars,
                 reports>>

\* OnRemoveConnection, with Reconnect: conn_ is reset, whichever connection it refers
\* to.  Another one that is up is freed with its event enabled, and the program ends,
\* unless the user holds it.
OnRemoveConnection ==
  /\ At("OnRemoveConnection")
  /\ conn' = "none"
  /\ \/ /\ conn = "connected"
        /\ GoesOn(<<Call("crash", 0)>>)
        /\ UNCHANGED <<made, connector, stray>>
     \/ /\ autoReconnect
        /\ NewConnector /\ GoesOn(<<Call("Start", made')>>)
     \/ /\ ~autoReconnect
        /\ Returns /\ UNCHANGED <<made, connector, stray>>
  /\ UNCHANGED <<autoReconnect, connectorVars, queue, userVars, reports>>

-----------------------------------------------------------------------------
(* The user, in a callback.                                                *)

DisconnectInCallback ==
  /\ At("cb")
  /\ disconnects < MaxDisconnects /\ disconnects' = disconnects + 1
  /\ Enters(<<Call("DisconnectInLoop", 0)>>)
  /\ UNCHANGED <<clientVars, connectorVars, queue, connects, closes, reports,
                 stray>>

CloseInCallback ==
  /\ At("cb") /\ conn = "connected"
  /\ conn' = "disconnecting"
  /\ Enters(HandleClose) /\ Tell(HandleClose)
  /\ UNCHANGED <<autoReconnect, connector, made, connectorVars, queue,
                 userVars, stray>>

\* A connection whose loss was told is closed again, by a Close of another thread that
\* came late, by the loop thread or in the callback for the loss (see TCPConn); or one
\* that conn_ refers to no more is lost.
CloseAgain ==
  /\ Idle \/ At("cb")
  /\ "lost" \in reports
  /\ closes < MaxCloses /\ closes' = closes + 1
  /\ Enters(HandleClose) /\ Tell(HandleClose)
  /\ UNCHANGED <<clientVars, connectorVars, queue, connects, disconnects, stray>>

CallbackReturns ==
  /\ At("cb")
  /\ Returns
  /\ UNCHANGED <<clientVars, connectorVars, queue, userVars, reports, stray>>

-----------------------------------------------------------------------------
LoopStep ==
  \/ RunConnect \/ RunDisconnect
  \/ Start \/ StartResolving \/ ConnectFails \/ Connecting \/ HandleWriteRest
  \/ HandleError \/ Retry \/ Cancel \/ Cancelled
  \/ DisconnectInLoop \/ DropConnector \/ ResetConnector \/ OnRemoveConnection
  \/ CallbackReturns

Event(k) ==
  \/ HandleWrite(k) \/ HandleWriteError(k) \/ OnConnectTimeout(k)
  \/ OnDNSResolved(k) \/ OnDNSFailed(k) \/ RunRestart(k)

Next ==
  \/ LoopStep \/ \E k \in Connectors : Event(k)
  \/ Connect \/ Disconnect \/ ConnLost
  \/ DisconnectInCallback \/ CloseInCallback \/ CloseAgain

\* The loop runs, callbacks return and timers fire; the network and the user are
\* free.
Fairness ==
  /\ WF_vars(LoopStep)
  /\ \A k \in Connectors : WF_vars(OnConnectTimeout(k)) /\ WF_vars(RunRestart(k))

Spec == Init /\ [][Next]_vars
FairSpec == Spec /\ Fairness
=============================================================================
