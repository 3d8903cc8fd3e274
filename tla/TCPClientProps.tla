--------------------------- MODULE TCPClientProps ----------------------------
(***************************************************************************)
(* What is checked of TCPClient.                                           *)
(***************************************************************************)
EXTENDS TCPClient

Statuses == {"kDisconnected", "kDNSResolving", "kConnecting", "kConnected"}

Calls ==
  [f : {"Start", "Connect", "HandleWrite", "Retry", "Cancel", "Cancelled",
        "DisconnectInLoop", "DropConnector", "ResetConnector",
        "OnRemoveConnection", "crash"}, k : 0..MaxConnectors]
    \cup [f : {"HandleError"}, k : Connectors, refused : BOOLEAN]
    \cup [f : {"cb"}, r : {"connected", "failed", "lost"}]

\* The types of the client's state.
TypeOK ==
  /\ autoReconnect \in BOOLEAN
  /\ connector \in 0..made /\ made \in 0..MaxConnectors
  /\ conn \in {"none", "connected", "disconnecting"}
  /\ status \in [Connectors -> Statuses]
  /\ timer \in [Connectors -> BOOLEAN] /\ dns \in [Connectors -> BOOLEAN]
  /\ chan \in [Connectors -> {"none", "open", "closed"}]
  /\ resolved \in [Connectors -> BOOLEAN] /\ restart \in [Connectors -> BOOLEAN]
  /\ queue \in Seq({"Connect", "Disconnect"}) /\ stack \in Seq(Calls)
  /\ connects \in 0..MaxConnects /\ disconnects \in 0..MaxDisconnects
  /\ closes \in 0..MaxCloses
  /\ reports \subseteq {"connected", "failed", "lost"}
  /\ stray \subseteq Connectors

\* An attempt is watched by its timer for as long as it waits for the resolver
\* or for the socket, so that it cannot hang; the status tells what the Connector
\* is doing, which DisconnectInLoop relies on to decide between Cancel and
\* nothing; and Cancel is called while the timer is set, as it asserts
\* (connector.cc:74), but for a user who disconnects again in the callback that
\* Cancel itself makes.
AttemptIsTracked ==
  /\ TypeOK
  /\ Idle => \A k \in Connectors :
       /\ dns[k] \/ chan[k] = "open" <=> timer[k]
       /\ status[k] = "kDNSResolving" /\ k = connector => dns[k]
       /\ status[k] = "kConnecting" /\ k = connector => chan[k] = "open"
       /\ status[k] \in {"kConnected", "kDisconnected"} => ~dns[k] /\ chan[k] # "open"
  /\ At("Cancel") =>
       timer[Top.k] \/ \E i \in DOMAIN stack : stack[i] = Call("Cancelled", Top.k)

\* There are never two attempts at a time, nor an attempt besides the connection;
\* and after Disconnect none is left and none will be made: DisconnectInLoop
\* cancels the Connector "to release the resources" (tcp_client.cc:109).  The
\* exceptions are the Connectors that the client drops while they are at work:
\* DisconnectInLoop does not cancel one that waits for its delayed Start; and
\* OnRemoveConnection, when it runs again for a connection that is closed twice,
\* lets Reconnect replace one whatever it does (tcp_client.cc:157).  With
\* auto_reconnect_ a client that was told to connect never forgets to try again,
\* also then: it has a connection, an attempt or a delayed Start.
OneAttempt ==
  Idle =>
    /\ autoReconnect /\ made > 0 =>
         conn = "connected" \/ \E k \in Connectors : Busy(k)
    /\ \A j, k \in Connectors \ stray : Busy(j) /\ Busy(k) => j = k
    /\ conn # "none" => connector # 0 /\ \A k \in Connectors \ stray : ~Busy(k)
    /\ connector = 0 => \A k \in Connectors \ stray : ~Busy(k)

\* Without auto_reconnect_ the user learns what became of Connect, unless the
\* user disconnects.
ConnectIsAnswered ==
  ~autoReconnect /\ made > 0 ~> reports # {} \/ disconnects > 0
=============================================================================
