--------------------------- MODULE TCPClientProofs ---------------------------
(***************************************************************************)
(* That a TCPClient tracks its attempt to connect and has one at a time,   *)
(* however often the user connects, disconnects and calls back into it.    *)
(***************************************************************************)
EXTENDS TCPClientProps, TLAPS

-----------------------------------------------------------------------------
(* The shape of the call stack.                                            *)

\* What runs to its end at the head of the stack: it never calls the user.
HeadOnly == {"Start", "Connect", "HandleError", "Cancel", "DisconnectInLoop", "crash"}
\* The calls of a Connector's methods, and those that wait for a callback.
OfConnector == {"Start", "Connect", "HandleWrite", "HandleError", "Retry", "Cancel",
                "Cancelled"}
Waiting == {"HandleWrite", "Retry", "Cancelled"}
\* The rest of DisconnectInLoop.
Dropping == {"DropConnector", "ResetConnector", "Cancel", "Cancelled"}

Has(s, f) == \E i \in 1..Len(s) : s[i].f = f
HasK(s, f, k) == \E i \in 1..Len(s) : s[i].f = f /\ s[i].k = k

\* Nothing but what waits is below the head; HandleWrite was called by the idle loop,
\* and it is what calls the user for a new connection; Cancel is called by
\* DisconnectInLoop, which then resets connector_.
Nested(s) ==
  \A i \in 1..Len(s) :
    /\ i > 1 => s[i].f \notin HeadOnly
    /\ s[i].f = "HandleWrite" => i = Len(s)
    /\ s[i].f = "cb" /\ s[i].r = "connected" =>
         i + 1 = Len(s) /\ s[i + 1].f = "HandleWrite"
    /\ s[i].f \in {"Cancel", "Cancelled"} => i < Len(s) /\ s[i + 1].f = "ResetConnector"
    /\ i > 1 /\ s[i].f = "ResetConnector" => s[i - 1].f \in {"Cancel", "Cancelled"}

\* The calls are for Connectors that were made.
Known(s, n) == \A i \in 1..Len(s) : s[i].f \in OfConnector => s[i].k \in 1..n

StackInv ==
  /\ Nested(stack) /\ Known(stack, made)
  /\ stack # <<>> /\ Head(stack).f \in {"Start", "Connect", "HandleError"} =>
       \A f \in Waiting : ~HasK(Tail(stack), f, Head(stack).k)

-----------------------------------------------------------------------------
(* The Connectors.                                                         *)

Quiet(k) == status[k] = "kDisconnected" /\ ~timer[k] /\ ~dns[k] /\ chan[k] # "open"

\* Connector k is in the middle of Connect or HandleError, or of Cancel.
InAttempt(k) == stack # <<>> /\ Head(stack).f \in {"Connect", "HandleError"} /\ Head(stack).k = k
InCancel(k) == HasK(stack, "Cancelled", k)

\* The status tells what is open, the timer watches it, and what rests is quiet.
ConnectorOK(k) ==
  /\ dns[k] => status[k] = "kDNSResolving"
  /\ chan[k] = "open" => status[k] = "kConnecting"
  /\ ~InAttempt(k) /\ ~InCancel(k) => (dns[k] \/ chan[k] = "open" <=> timer[k])
  /\ k = connector /\ ~InAttempt(k) /\ ~InCancel(k) /\ ~At("ResetConnector") =>
       /\ status[k] = "kDNSResolving" => dns[k]
       /\ status[k] = "kConnecting" => chan[k] = "open"
  /\ InCancel(k) => ~dns[k] /\ ~timer[k] /\ connector \in {0, k}
  /\ HasK(stack, "HandleWrite", k) => ~dns[k]
  /\ HasK(stack, "Retry", k) \/ restart[k] \/ k > made => Quiet(k)
  /\ k > made => ~restart[k]

ConnectorInv == \A k \in Connectors : ConnectorOK(k)

\* What the call at the head of the stack finds.
HeadInv ==
  /\ At("Start") => Quiet(Top.k) /\ ~restart[Top.k]
  /\ At("Connect") => timer[Top.k] /\ ~dns[Top.k] /\ chan[Top.k] # "open"
  /\ At("Connect") \/ At("HandleError") => status[Top.k] # "kConnected"
  /\ At("Cancel") => /\ Top.k = connector
                     /\ status[Top.k] \in {"kDNSResolving", "kConnecting"}
  /\ At("ResetConnector") /\ connector # 0 =>
       ~timer[connector] /\ ~dns[connector] /\ chan[connector] # "open"

-----------------------------------------------------------------------------
(* The client.                                                             *)

\* Disconnect ends the reconnections and takes the connection down; there is something
\* to tell or to remove once a Connector was made.
ClientInv ==
  /\ \A f \in Dropping : Has(stack, f) => ~autoReconnect /\ conn # "connected"
  /\ conn = "disconnecting" => Has(stack, "OnRemoveConnection")
  /\ Has(stack, "OnRemoveConnection") \/ conn # "none" \/ connector # 0 => made > 0
  /\ reports # {} => made > 0
  /\ connector = 0 /\ made > 0 => ~autoReconnect

\* A Connect is posted to a client without a Connector, or behind a Disconnect.
QueueInv ==
  \A i \in 1..Len(queue) : queue[i] = "Connect" =>
    IF i = 1
    THEN \/ connector = 0
         \/ \E f \in {"DisconnectInLoop", "DropConnector", "ResetConnector", "crash"} :
              Has(stack, f)
    ELSE queue[i - 1] = "Disconnect"

\* A Connector that is at work is the client's, a dropped one, or the one whose
\* HandleWrite has called the user.
Mine(k) == k = connector \/ k \in stray

AttemptInv ==
  /\ \A k \in Connectors :
       Busy(k) => Mine(k) \/ HasK(stack, "HandleWrite", k) \/ Has(stack, "crash")
  /\ stack # <<>> /\ Head(stack).f \in {"Start", "Connect", "HandleError"} =>
       Mine(Head(stack).k)
  /\ conn = "connected" =>
       \/ Has(stack, "crash") \/ Has(stack, "HandleWrite")
       \/ connector # 0 /\ status[connector] = "kConnected"

\* The client that reconnects is at it.
EffortInv ==
  /\ autoReconnect /\ made > 0 =>
       \/ conn = "connected" \/ \E k \in Connectors : Busy(k)
       \/ \E f \in {"Start", "HandleError", "Retry", "OnRemoveConnection", "crash"} :
            Has(stack, f)
  /\ autoReconnect /\ connector # 0 /\ HasK(stack, "HandleWrite", connector) =>
       conn = "connected" \/ Has(stack, "OnRemoveConnection") \/ Has(stack, "crash")

IInv == TypeOK /\ StackInv /\ ConnectorInv /\ HeadInv /\ ClientInv /\ QueueInv
          /\ AttemptInv /\ EffortInv

-----------------------------------------------------------------------------
(* Call stacks.                                                            *)

Push(c, s) == <<c>> \o s
Calm(s) == s # <<>> => Head(s).f \notin HeadOnly
OnReset(s) == s # <<>> /\ Head(s).f = "ResetConnector"

\* The calls that have no fields but the Connector they are of.
Plain == {"Start", "Connect", "HandleWrite", "Retry", "Cancel", "Cancelled",
          "DisconnectInLoop", "DropConnector", "ResetConnector",
          "OnRemoveConnection", "crash"}

\* A call of a method.
LEMMA CallType ==
  ASSUME NEW f \in Plain, NEW k \in 0..MaxConnectors
  PROVE  Call(f, k) \in Calls /\ Call(f, k).f = f /\ Call(f, k).k = k
  BY Zenon DEF Call, Calls, Plain

\* A call of the user's callback.
LEMMA CallbackType ==
  ASSUME NEW r \in {"connected", "failed", "lost"}
  PROVE  Callback(r) \in Calls /\ Callback(r).f = "cb" /\ Callback(r).r = r
  BY Zenon DEF Callback, Calls

\* The calls of a Connector, and those that are of none.
LEMMA CallTypes ==
  /\ \A f \in Plain, k \in Connectors \cup {0} :
       Call(f, k) \in Calls /\ Call(f, k).f = f /\ Call(f, k).k = k
  /\ \A r \in {"connected", "failed", "lost"} :
       Callback(r) \in Calls /\ Callback(r).f = "cb" /\ Callback(r).r = r
<1>1. \A k \in Connectors \cup {0} : k \in 0..MaxConnectors
  BY ClientAssumption DEF Connectors
<1>. QED BY <1>1, CallType, CallbackType, Zenon

\* Two stacks of the same calls.
LEMMA SameCalls ==
  ASSUME NEW s \in Seq(Calls), NEW t \in Seq(Calls), Len(s) = Len(t),
         \A i \in 1..Len(s) : s[i] = t[i]
  PROVE  s = t
  OBVIOUS

\* Calls are put on a stack all at once or one group after the other.
LEMMA CallsOnCalls ==
  ASSUME NEW s \in Seq(Calls), NEW t \in Seq(Calls), NEW u \in Seq(Calls)
  PROVE  (s \o t) \o u = s \o (t \o u)
  OBVIOUS

\* A stack with a call on top of it.
LEMMA PushSeq ==
  ASSUME NEW c \in Calls, NEW s \in Seq(Calls)
  PROVE  /\ Push(c, s) \in Seq(Calls) /\ Push(c, s) # <<>> /\ Len(s) \in Nat
         /\ Head(Push(c, s)) = c /\ Tail(Push(c, s)) = s
         /\ Len(Push(c, s)) = Len(s) + 1 /\ Push(c, s)[1] = c
         /\ \A i \in 2..Len(s) + 1 : Push(c, s)[i] = s[i - 1]
<1>. DEFINE p == Push(c, s)
<1>1. p \in Seq(Calls) /\ Len(p) = Len(s) + 1 /\ p[1] = c
  BY DEF Push
<1>2. \A i \in 2..Len(s) + 1 : p[i] = s[i - 1]
  BY DEF Push
<1>3. p # <<>> /\ Head(p) = c
  BY <1>1
<1>4. Tail(p) = s
  <2>1. Tail(p) \in Seq(Calls) /\ Len(Tail(p)) = Len(s)
    BY <1>1, <1>3
  <2>2. \A i \in 1..Len(s) : Tail(p)[i] = s[i]
    BY <1>1, <1>2, <1>3
  <2>. QED BY <2>1, <2>2, SameCalls, Zenon
<1>5. Len(s) \in Nat
  OBVIOUS
<1>. QED BY <1>1, <1>2, <1>3, <1>4, <1>5, Zenon

\* A stack whose top call returns.
LEMMA TailSeq ==
  ASSUME NEW s \in Seq(Calls), s # <<>>
  PROVE  /\ Head(s) \in Calls /\ Head(s) = s[1]
         /\ Tail(s) \in Seq(Calls) /\ Len(Tail(s)) = Len(s) - 1 /\ Len(s) \in Nat \ {0}
         /\ \A i \in 1..Len(s) - 1 : Tail(s)[i] = s[i + 1]
  OBVIOUS

\* Two and three calls are pushed one after the other.
LEMMA PushTwo ==
  ASSUME NEW a \in Calls, NEW b \in Calls, NEW s \in Seq(Calls)
  PROVE  <<a, b>> \o s = Push(a, Push(b, s))
<1>1. /\ Push(b, s) \in Seq(Calls) /\ Len(Push(b, s)) = Len(s) + 1 /\ Push(b, s)[1] = b
      /\ \A i \in 2..Len(s) + 1 : Push(b, s)[i] = s[i - 1]
  BY PushSeq, Zenon
<1>2. /\ Push(a, Push(b, s)) \in Seq(Calls) /\ Len(Push(a, Push(b, s))) = Len(s) + 2
      /\ Push(a, Push(b, s))[1] = a
      /\ \A i \in 2..Len(s) + 2 : Push(a, Push(b, s))[i] = Push(b, s)[i - 1]
  <2>. DEFINE q == Push(b, s)
  <2>1. q \in Seq(Calls) /\ Len(q) = Len(s) + 1 /\ Len(s) \in Nat
    BY <1>1
  <2>. HIDE DEF q
  <2>2. /\ Push(a, q) \in Seq(Calls) /\ Len(Push(a, q)) = Len(q) + 1 /\ Push(a, q)[1] = a
        /\ \A i \in 2..Len(q) + 1 : Push(a, q)[i] = q[i - 1]
    BY <2>1, PushSeq, Zenon
  <2>3. Len(q) + 1 = Len(s) + 2
    BY <2>1
  <2>. QED BY <2>2, <2>3, Zenon DEF q
<1>3. /\ <<a, b>> \o s \in Seq(Calls) /\ Len(<<a, b>> \o s) = Len(s) + 2
      /\ (<<a, b>> \o s)[1] = a /\ (<<a, b>> \o s)[2] = b
      /\ \A i \in 3..Len(s) + 2 : (<<a, b>> \o s)[i] = s[i - 2]
  OBVIOUS
<1>4. \A i \in 1..Len(s) + 2 : (<<a, b>> \o s)[i] = Push(a, Push(b, s))[i]
  <2>. SUFFICES ASSUME NEW i \in 1..Len(s) + 2
                PROVE  (<<a, b>> \o s)[i] = Push(a, Push(b, s))[i]
    BY Zenon
  <2>1. CASE i = 1
    BY <2>1, <1>2, <1>3, Zenon
  <2>2. CASE i = 2
    BY <2>2, <1>1, <1>2, <1>3
  <2>3. CASE i > 2
    <3>1. (<<a, b>> \o s)[i] = s[i - 2]
      BY <2>3, <1>3
    <3>2. Push(a, Push(b, s))[i] = Push(b, s)[i - 1] /\ i - 1 \in 2..Len(s) + 1
      BY <2>3, <1>2
    <3>. QED BY <3>1, <3>2, <1>1
  <2>. QED BY <2>1, <2>2, <2>3
<1>. DEFINE x == <<a, b>> \o s
            y == Push(a, Push(b, s))
<1>5. x \in Seq(Calls) /\ y \in Seq(Calls) /\ Len(x) = Len(y)
        /\ \A i \in 1..Len(x) : x[i] = y[i]
  BY <1>2, <1>3, <1>4, Zenon
<1>. HIDE DEF x, y
<1>6. x = y
  BY <1>5, SameCalls, Zenon
<1>. QED BY <1>6, Zenon DEF x, y

\* What a stack holds, with a call on top of it.
LEMMA HasPush ==
  ASSUME NEW c \in Calls, NEW s \in Seq(Calls)
  PROVE  /\ \A f : Has(Push(c, s), f) <=> c.f = f \/ Has(s, f)
         /\ \A f, k : HasK(Push(c, s), f, k) <=> (c.f = f /\ c.k = k) \/ HasK(s, f, k)
<1>. DEFINE p == Push(c, s)
<1>1. /\ p \in Seq(Calls) /\ Len(p) = Len(s) + 1 /\ Len(s) \in Nat /\ p[1] = c
      /\ \A i \in 2..Len(s) + 1 : p[i] = s[i - 1]
  BY PushSeq, Zenon
<1>. HIDE DEF p
<1>2. \A i \in 1..Len(s) : i + 1 \in 1..Len(p) /\ p[i + 1] = s[i]
  BY <1>1, SMTT(30)
<1>3. \A i \in 1..Len(p) : i = 1 \/ (i - 1 \in 1..Len(s) /\ p[i] = s[i - 1])
  BY <1>1
<1>4. 1 \in 1..Len(p)
  BY <1>1
<1>5. \A f : Has(p, f) <=> c.f = f \/ Has(s, f)
  BY <1>1, <1>2, <1>3, <1>4, Zenon DEF Has
<1>6. \A f, k : HasK(p, f, k) <=> (c.f = f /\ c.k = k) \/ HasK(s, f, k)
  BY <1>1, <1>2, <1>3, <1>4 DEF HasK
<1>. QED BY <1>5, <1>6, Zenon DEF p

\* A stack is its top call on top of the rest.
LEMMA PushBack ==
  ASSUME NEW s \in Seq(Calls), s # <<>>
  PROVE  s = Push(Head(s), Tail(s))
<1>. DEFINE y == Push(Head(s), Tail(s))
<1>1. /\ Head(s) \in Calls /\ Head(s) = s[1] /\ Tail(s) \in Seq(Calls)
      /\ Len(Tail(s)) = Len(s) - 1 /\ Len(s) \in Nat \ {0}
      /\ \A i \in 1..Len(s) - 1 : Tail(s)[i] = s[i + 1]
  BY TailSeq, Zenon
<1>2. /\ y \in Seq(Calls) /\ Len(y) = Len(Tail(s)) + 1 /\ y[1] = Head(s)
      /\ \A i \in 2..Len(Tail(s)) + 1 : y[i] = Tail(s)[i - 1]
  BY <1>1, PushSeq, Zenon
<1>. HIDE DEF y
<1>3. \A i \in 1..Len(s) : s[i] = y[i]
  BY <1>1, <1>2
<1>4. s = y
  BY <1>1, <1>2, <1>3, SameCalls
<1>. QED BY <1>4, Zenon DEF y

\* The rules of nesting, for a call on top of a stack.
LEMMA PushNested ==
  ASSUME NEW c \in Calls, NEW s \in Seq(Calls), NEW n \in Nat,
         Nested(s), Known(s, n), Calm(s),
         c.f = "HandleWrite" => s = <<>>,
         c.f = "cb" /\ c.r = "connected" => Len(s) = 1 /\ Head(s).f = "HandleWrite",
         c.f \in {"Cancel", "Cancelled"} <=> OnReset(s),
         c.f \in OfConnector => c.k \in 1..n
  PROVE  Nested(Push(c, s)) /\ Known(Push(c, s), n)
<1>. DEFINE p == Push(c, s)
<1>1. /\ p \in Seq(Calls) /\ Len(p) = Len(s) + 1 /\ Len(s) \in Nat /\ p[1] = c
      /\ \A i \in 2..Len(s) + 1 : p[i] = s[i - 1]
  BY PushSeq, Zenon
<1>. HIDE DEF p
<1>2. s # <<>> => Len(s) > 0 /\ Head(s) = s[1]
  OBVIOUS
<1>3. Known(p, n)
  <2>1. \A i \in 1..Len(p) : i = 1 \/ (i - 1 \in 1..Len(s) /\ p[i] = s[i - 1])
    BY <1>1
  <2>. QED BY <1>1, <2>1, Zenon DEF Known
<1>4. Nested(p)
  <2>. SUFFICES ASSUME NEW i \in 1..Len(p)
                PROVE  /\ i > 1 => p[i].f \notin HeadOnly
                       /\ p[i].f = "HandleWrite" => i = Len(p)
                       /\ p[i].f = "cb" /\ p[i].r = "connected" =>
                            i + 1 = Len(p) /\ p[i + 1].f = "HandleWrite"
                       /\ p[i].f \in {"Cancel", "Cancelled"} =>
                            i < Len(p) /\ p[i + 1].f = "ResetConnector"
                       /\ i > 1 /\ p[i].f = "ResetConnector" =>
                            p[i - 1].f \in {"Cancel", "Cancelled"}
    BY Zenon DEF Nested
  <2>1. CASE i = 1
    <3>1. p[1] = c
      BY <1>1, Zenon
    <3>2. Len(s) > 0 => p[2] = s[1] /\ s[1] = Head(s)
      BY <1>1, <1>2
    <3>3. s = <<>> => Len(p) = 1
      BY <1>1
    <3>. QED BY <2>1, <3>1, <3>2, <3>3, <1>1, <1>2 DEF OnReset
  <2>2. CASE i > 1
    <3>. DEFINE j == i - 1
    <3>0. i \in 2..Len(s) + 1
      BY <2>2, <1>1
    <3>1. j \in 1..Len(s) /\ p[i] = s[j] /\ i = j + 1
      BY <3>0, <1>1
    <3>2. j + 1 <= Len(s) => p[i + 1] = s[j + 1]
      BY <3>1, <1>1
    <3>. HIDE DEF j
    <3>3. s[j].f \notin HeadOnly
      <4>1. CASE j = 1
        BY <4>1, <3>1, <1>2 DEF Calm
      <4>2. CASE j > 1
        BY <4>2, <3>1, Zenon DEF Nested
      <4>. QED BY <4>1, <4>2, <3>1
    <3>4. /\ s[j].f = "HandleWrite" => j = Len(s)
          /\ s[j].f = "cb" /\ s[j].r = "connected" =>
               j + 1 = Len(s) /\ s[j + 1].f = "HandleWrite"
          /\ s[j].f \in {"Cancel", "Cancelled"} =>
               j < Len(s) /\ s[j + 1].f = "ResetConnector"
      BY <3>1, Zenon DEF Nested
    <3>5. s[j].f = "ResetConnector" => p[j].f \in {"Cancel", "Cancelled"}
      <4>1. CASE j = 1
        BY <4>1, <3>1, <1>1, <1>2 DEF OnReset
      <4>2. CASE j > 1
        <5>1. p[j] = s[j - 1]
          BY <4>2, <3>1, <1>1
        <5>. QED BY <4>2, <5>1, <3>1 DEF Nested
      <4>. QED BY <4>1, <4>2, <3>1
    <3>6. i - 1 = j
      BY <3>1
    <3>. QED BY <3>1, <3>2, <3>3, <3>4, <3>5, <3>6, <1>1
  <2>. QED BY <2>1, <2>2, <1>1
<1>. QED BY <1>3, <1>4, Zenon DEF p

\* The rules of nesting, for what is left when the top call returns.
LEMMA TailNested ==
  ASSUME NEW s \in Seq(Calls), NEW n \in Nat, s # <<>>, Nested(s), Known(s, n)
  PROVE  /\ Nested(Tail(s)) /\ Known(Tail(s), n) /\ Calm(Tail(s))
         /\ Head(s).f = "HandleWrite" => Tail(s) = <<>>
         /\ Head(s).f = "cb" /\ Head(s).r = "connected" =>
              Len(Tail(s)) = 1 /\ Head(Tail(s)).f = "HandleWrite"
         /\ Head(s).f \in {"Cancel", "Cancelled"} <=> OnReset(Tail(s))
         /\ Head(s).f \in OfConnector => Head(s).k \in 1..n
<1>. DEFINE t == Tail(s)
<1>1. /\ Head(s) = s[1] /\ t \in Seq(Calls) /\ Len(t) = Len(s) - 1 /\ Len(s) \in Nat \ {0}
      /\ \A i \in 1..Len(s) - 1 : t[i] = s[i + 1]
  BY TailSeq, Zenon
<1>2. t # <<>> => Len(t) > 0 /\ Head(t) = t[1]
  BY <1>1, TailSeq
<1>. HIDE DEF t
<1>3. Len(t) = 0 => t = <<>>
  BY <1>1
<1>4. Nested(t)
  <2>. SUFFICES ASSUME NEW i \in 1..Len(t)
                PROVE  /\ i > 1 => t[i].f \notin HeadOnly
                       /\ t[i].f = "HandleWrite" => i = Len(t)
                       /\ t[i].f = "cb" /\ t[i].r = "connected" =>
                            i + 1 = Len(t) /\ t[i + 1].f = "HandleWrite"
                       /\ t[i].f \in {"Cancel", "Cancelled"} =>
                            i < Len(t) /\ t[i + 1].f = "ResetConnector"
                       /\ i > 1 /\ t[i].f = "ResetConnector" =>
                            t[i - 1].f \in {"Cancel", "Cancelled"}
    BY Zenon DEF Nested
  <2>. DEFINE j == i + 1
  <2>1. /\ j \in 1..Len(s) /\ j > 1 /\ t[i] = s[j]
        /\ i < Len(t) => t[i + 1] = s[j + 1]
        /\ i > 1 => t[i - 1] = s[j - 1]
    <3>1. i \in Nat /\ i + 1 \in 1..Len(s) /\ i + 1 > 1 /\ t[i] = s[i + 1]
      BY <1>1
    <3>2. i < Len(t) => t[i + 1] = s[(i + 1) + 1]
      BY <1>1
    <3>3. i > 1 => i - 1 \in 1..Len(s) - 1 /\ (i - 1) + 1 = (i + 1) - 1
      BY <1>1
    <3>. QED BY <3>1, <3>2, <3>3, <1>1, Zenon
  <2>2. i = j - 1 /\ i \in Nat
    OBVIOUS
  <2>. HIDE DEF j
  <2>3. /\ s[j].f \notin HeadOnly
        /\ s[j].f = "HandleWrite" => j = Len(s)
        /\ s[j].f = "cb" /\ s[j].r = "connected" =>
             j + 1 = Len(s) /\ s[j + 1].f = "HandleWrite"
        /\ s[j].f \in {"Cancel", "Cancelled"} =>
             j < Len(s) /\ s[j + 1].f = "ResetConnector"
        /\ s[j].f = "ResetConnector" => s[j - 1].f \in {"Cancel", "Cancelled"}
    BY <2>1, Zenon DEF Nested
  <2>. QED BY <2>1, <2>2, <2>3, <1>1
<1>5. Known(t, n)
  <2>1. \A i \in 1..Len(t) : i + 1 \in 1..Len(s) /\ t[i] = s[i + 1]
    BY <1>1
  <2>. QED BY <2>1, Zenon DEF Known
<1>6. Calm(t)
  <2>1. t # <<>> => 2 \in 1..Len(s) /\ Head(t) = s[2]
    BY <1>1, <1>2
  <2>. QED BY <2>1 DEF Calm, Nested
<1>7. /\ s[1].f = "HandleWrite" => 1 = Len(s)
      /\ s[1].f = "cb" /\ s[1].r = "connected" =>
           2 = Len(s) /\ s[2].f = "HandleWrite"
      /\ s[1].f \in {"Cancel", "Cancelled"} <=> 1 < Len(s) /\ s[2].f = "ResetConnector"
      /\ s[1].f \in OfConnector => s[1].k \in 1..n
  <2>1. 1 \in 1..Len(s)
    BY <1>1
  <2>2. s[1].f \in OfConnector => s[1].k \in 1..n
    BY <2>1, Zenon DEF Known
  <2>3. /\ s[1].f = "HandleWrite" => 1 = Len(s)
        /\ s[1].f = "cb" /\ s[1].r = "connected" =>
             1 + 1 = Len(s) /\ s[1 + 1].f = "HandleWrite"
        /\ s[1].f \in {"Cancel", "Cancelled"} =>
             1 < Len(s) /\ s[1 + 1].f = "ResetConnector"
    BY <2>1, Zenon DEF Nested
  <2>4. Len(s) > 1 /\ s[2].f = "ResetConnector" => s[1].f \in {"Cancel", "Cancelled"}
    <3>1. Len(s) > 1 => 2 \in 1..Len(s) /\ 2 > 1 /\ 2 - 1 = 1
      BY <1>1
    <3>. QED BY <3>1, Zenon DEF Nested
  <2>. QED BY <2>2, <2>3, <2>4
<1>8. /\ Len(s) > 1 => Len(t) > 0 /\ t # <<>> /\ Head(t) = s[2]
      /\ t # <<>> => Len(s) > 1
  BY <1>1, <1>2
<1>9. /\ Head(s).f = "HandleWrite" => t = <<>>
      /\ Head(s).f = "cb" /\ Head(s).r = "connected" =>
           Len(t) = 1 /\ Head(t).f = "HandleWrite"
      /\ Head(s).f \in {"Cancel", "Cancelled"} <=> OnReset(t)
      /\ Head(s).f \in OfConnector => Head(s).k \in 1..n
  BY <1>1, <1>3, <1>7, <1>8 DEF OnReset
<1>. QED BY <1>4, <1>5, <1>6, <1>9, Zenon DEF t

\* The empty stack.
LEMMA EmptyStack ==
  /\ <<>> \in Seq(Calls) /\ Nested(<<>>) /\ Calm(<<>>)
  /\ \A n : Known(<<>>, n)
  /\ \A f : ~Has(<<>>, f)
  /\ \A f, k : ~HasK(<<>>, f, k)
  BY DEF Nested, Calm, Known, Has, HasK

-----------------------------------------------------------------------------
(* What an action finds on the stack, and what it leaves there.            *)

\* s is call c on top of stack t.
TopIs(s, c, t) ==
  /\ s \in Seq(Calls) /\ s # <<>> /\ Head(s) = c /\ Tail(s) = t
  /\ \A f : Has(s, f) <=> c.f = f \/ Has(t, f)
  /\ \A f, k : HasK(s, f, k) <=> (c.f = f /\ c.k = k) \/ HasK(t, f, k)

\* A stack that another call may be put on.
Fits(s, n) == s \in Seq(Calls) /\ Nested(s) /\ Known(s, n) /\ Calm(s)

\* Only the top call may be one that runs to its end.
LEMMA FitsCalm ==
  ASSUME NEW s, NEW n, Fits(s, n)
  PROVE  \A f \in HeadOnly : ~Has(s, f)
<1>. SUFFICES ASSUME NEW i \in 1..Len(s)
              PROVE  s[i].f \notin HeadOnly
  BY Zenon DEF Has
<1>1. s \in Seq(Calls) /\ Len(s) \in Nat
  BY DEF Fits
<1>2. CASE i = 1
  BY <1>1, <1>2 DEF Fits, Calm
<1>3. CASE i > 1
  BY <1>3, Zenon DEF Fits, Nested
<1>. QED BY <1>1, <1>2, <1>3

\* The stack that a call finds itself on.
LEMMA Running ==
  ASSUME TypeOK, StackInv, stack # <<>>
  PROVE  /\ Top \in Calls /\ TopIs(stack, Top, Tail(stack)) /\ Fits(Tail(stack), made)
         /\ made \in Nat /\ \A f \in HeadOnly : ~Has(Tail(stack), f)
         /\ Top.f = "HandleWrite" => Tail(stack) = <<>>
         /\ Top.f = "cb" /\ Top.r = "connected" =>
              Len(Tail(stack)) = 1 /\ Head(Tail(stack)).f = "HandleWrite"
         /\ Top.f \in {"Cancel", "Cancelled"} <=> OnReset(Tail(stack))
         /\ Top.f \in OfConnector => Top.k \in 1..made /\ Top.k \in Connectors
<1>1. stack \in Seq(Calls) /\ made \in Nat /\ 1..made \subseteq Connectors
  BY ClientAssumption DEF TypeOK, Connectors
<1>2. Top \in Calls /\ Tail(stack) \in Seq(Calls)
  BY <1>1, TailSeq, Zenon DEF Top
<1>. DEFINE h == Head(stack)
            t == Tail(stack)
<1>3. stack = Push(h, t) /\ h \in Calls /\ t \in Seq(Calls)
  BY <1>1, <1>2, PushBack, Zenon DEF Top
<1>4. TopIs(stack, h, t)
  <2>. HIDE DEF h, t
  <2>1. Head(stack) = h /\ Tail(stack) = t
    BY Zenon DEF h, t
  <2>. QED BY <1>1, <1>3, <2>1, HasPush, Zenon DEF TopIs
<1>5. Fits(Tail(stack), made)
  BY <1>1, <1>2, TailNested, Zenon DEF StackInv, Fits
<1>6. \A f \in HeadOnly : ~Has(Tail(stack), f)
  BY <1>5, FitsCalm, Zenon
<1>. QED BY <1>1, <1>2, <1>4, <1>5, <1>6, TailNested, Zenon DEF StackInv, Top

\* A call that is put on a stack.
LEMMA Pushed ==
  ASSUME NEW c \in Calls, NEW s, NEW n \in Nat, Fits(s, n),
         c.f = "HandleWrite" => s = <<>>,
         c.f = "cb" /\ c.r = "connected" => Len(s) = 1 /\ Head(s).f = "HandleWrite",
         c.f \in {"Cancel", "Cancelled"} <=> OnReset(s),
         c.f \in OfConnector => c.k \in 1..n
  PROVE  /\ TopIs(Push(c, s), c, s) /\ Nested(Push(c, s)) /\ Known(Push(c, s), n)
         /\ c.f \notin HeadOnly => Fits(Push(c, s), n)
<1>1. s \in Seq(Calls) /\ Nested(s) /\ Known(s, n) /\ Calm(s)
  BY Zenon DEF Fits
<1>2. Nested(Push(c, s)) /\ Known(Push(c, s), n)
  BY <1>1, PushNested, Zenon
<1>3. TopIs(Push(c, s), c, s)
  <2>. DEFINE p == Push(c, s)
  <2>1. /\ p \in Seq(Calls) /\ p # <<>> /\ Head(p) = c /\ Tail(p) = s
    BY <1>1, PushSeq, Zenon
  <2>2. /\ \A f : Has(p, f) <=> c.f = f \/ Has(s, f)
        /\ \A f, k : HasK(p, f, k) <=> (c.f = f /\ c.k = k) \/ HasK(s, f, k)
    BY <1>1, HasPush, Zenon
  <2>. HIDE DEF p
  <2>3. TopIs(p, c, s)
    BY <2>1, <2>2, Zenon DEF TopIs
  <2>. QED BY <2>3, Zenon DEF p
<1>4. c.f \notin HeadOnly => Calm(Push(c, s))
  BY <1>3, Zenon DEF Calm, TopIs
<1>. QED BY <1>1, <1>2, <1>3, <1>4, Zenon DEF Fits, TopIs

\* The idle loop's stack.
LEMMA IdleFits ==
  ASSUME NEW n
  PROVE  Fits(<<>>, n)
  BY EmptyStack, Zenon DEF Fits

\* What the user is told.
LEMMA TellTypes ==
  ASSUME TypeOK, NEW calls \in Seq(Calls), Tell(calls)
  PROVE  reports' \subseteq {"connected", "failed", "lost"}
<1>1. \A i \in DOMAIN calls : calls[i] \in Calls
  OBVIOUS
<1>2. \A c \in Calls : c.f = "cb" => c.r \in {"connected", "failed", "lost"}
  BY Zenon DEF Calls
<1>. QED BY <1>1, <1>2, Zenon DEF Tell, TypeOK

\* A step leaves Connector j alone.
SameConnector(j) ==
  /\ status'[j] = status[j] /\ timer'[j] = timer[j] /\ chan'[j] = chan[j]
  /\ dns'[j] = dns[j] /\ restart'[j] = restart[j]

\* A Connector that a step leaves alone keeps what the invariant says of it.
LEMMA OtherConnector ==
  ASSUME NEW j \in Connectors, ConnectorOK(j), SameConnector(j),
         connector' = j => connector = j,
         InCancel(j) => connector' \in {0, j},
         InCancel(j)' <=> InCancel(j), InAttempt(j) => InAttempt(j)',
         At("ResetConnector") /\ connector' = j => At("ResetConnector")',
         HasK(stack', "HandleWrite", j) => HasK(stack, "HandleWrite", j) \/ ~dns[j],
         HasK(stack', "Retry", j) => HasK(stack, "Retry", j),
         ~(j > made) => ~(j > made')
  PROVE  ConnectorOK(j)'
  BY Zenon DEF ConnectorOK, SameConnector, Quiet

-----------------------------------------------------------------------------
(* The moves of the stack.                                                 *)

\* The top call returns.
LEMMA Pops ==
  ASSUME IInv, stack # <<>>, stack' = Tail(stack)
  PROVE  /\ TopIs(stack, Top, stack') /\ Fits(stack', made) /\ Top \in Calls
         /\ made \in Nat /\ \A f \in HeadOnly : ~Has(stack', f)
         /\ Top.f = "HandleWrite" => stack' = <<>>
         /\ Top.f \in {"Cancel", "Cancelled"} <=> OnReset(stack')
         /\ Top.f \in OfConnector => Top.k \in 1..made /\ Top.k \in Connectors
  BY Running, Zenon DEF IInv

\* What a stack fits still fits when there are more Connectors.
LEMMA FitsMore ==
  ASSUME NEW s, NEW n \in Nat, NEW m \in Nat, n <= m, Fits(s, n)
  PROVE  Fits(s, m)
  BY DEF Fits, Known

\* Call c on top of a stack.
LEMMA PutsOne ==
  ASSUME NEW s, NEW n \in Nat, Fits(s, n), NEW c \in Calls, stack' = <<c>> \o s,
         c.f # "HandleWrite", c.f = "cb" => c.r # "connected",
         c.f \in {"Cancel", "Cancelled"} <=> OnReset(s),
         c.f \in OfConnector => c.k \in 1..n
  PROVE  TopIs(stack', c, s) /\ Nested(stack') /\ Known(stack', n)
<1>1. stack' = Push(c, s)
  BY Zenon DEF Push
<1>2. TopIs(Push(c, s), c, s) /\ Nested(Push(c, s)) /\ Known(Push(c, s), n)
  BY Pushed, Zenon
<1>. QED BY <1>1, <1>2, Zenon

\* s is call c on top of a call d, on top of t.
TopTwo(s, c, d, t) ==
  /\ s \in Seq(Calls) /\ s # <<>> /\ Head(s) = c
  /\ \A f : Has(s, f) <=> c.f = f \/ d.f = f \/ Has(t, f)
  /\ \A f, k : HasK(s, f, k) <=>
                 (c.f = f /\ c.k = k) \/ (d.f = f /\ d.k = k) \/ HasK(t, f, k)

\* Call c on top of a call d, on top of a stack.
LEMMA PutsTwo ==
  ASSUME NEW s, NEW n \in Nat, Fits(s, n), NEW c \in Calls, NEW d \in Calls,
         stack' = <<c, d>> \o s,
         c.f \notin {"HandleWrite", "Cancelled"}, d.f \notin HeadOnly \cup {"cb"},
         c.f = "cb" /\ c.r = "connected" => d.f = "HandleWrite",
         c.f = "Cancel" <=> d.f = "ResetConnector",
         d.f = "HandleWrite" => s = <<>>,
         d.f = "Cancelled" <=> OnReset(s),
         c.f \in OfConnector => c.k \in 1..n,
         d.f \in OfConnector => d.k \in 1..n
  PROVE  TopTwo(stack', c, d, s) /\ Nested(stack') /\ Known(stack', n)
<1>. DEFINE t == Push(d, s)
<1>1. TopIs(t, d, s) /\ Fits(t, n)
  BY Pushed, Zenon DEF HeadOnly
<1>2. stack' = Push(c, t)
  BY PushTwo, Zenon DEF Fits
<1>3. d.f = "HandleWrite" => Len(t) = 1
  <2>1. Len(t) = Len(s) + 1
    BY PushSeq, Zenon DEF Fits
  <2>2. Len(<<>>) = 0
    BY Zenon
  <2>. QED BY <2>1, <2>2
<1>. HIDE DEF t
<1>4. t # <<>> /\ Head(t) = d
  BY <1>1, Zenon DEF TopIs
<1>5. TopIs(Push(c, t), c, t) /\ Nested(Push(c, t)) /\ Known(Push(c, t), n)
  BY <1>1, <1>3, <1>4, Pushed, Zenon DEF OnReset
<1>. DEFINE p == Push(c, t)
<1>6. TopIs(p, c, t) /\ stack' = p
  BY <1>2, <1>5, Zenon
<1>. HIDE DEF p
<1>7. TopTwo(p, c, d, s)
  <2>1. /\ p \in Seq(Calls) /\ p # <<>> /\ Head(p) = c
        /\ \A f : Has(p, f) <=> c.f = f \/ d.f = f \/ Has(s, f)
    BY <1>1, <1>6, Zenon DEF TopIs
  <2>2. \A f, k : HasK(p, f, k) <=>
                    (c.f = f /\ c.k = k) \/ (d.f = f /\ d.k = k) \/ HasK(s, f, k)
    BY <1>1, <1>6, Zenon DEF TopIs
  <2>. QED BY <2>1, <2>2, Zenon DEF TopTwo
<1>. QED BY <1>5, <1>6, <1>7, Zenon DEF p

-----------------------------------------------------------------------------
(* What most steps leave as it is.                                         *)

\* The step does nothing to the Connectors.
LEMMA ConnectorsKept ==
  ASSUME IInv, UNCHANGED <<status, timer, chan, dns, restart, connector, made>>,
         NEW j \in Connectors,
         InCancel(j)' <=> InCancel(j), InAttempt(j) => InAttempt(j)',
         At("ResetConnector") => At("ResetConnector")',
         HasK(stack', "HandleWrite", j) => HasK(stack, "HandleWrite", j) \/ ~dns[j],
         HasK(stack', "Retry", j) => HasK(stack, "Retry", j)
  PROVE  ConnectorOK(j)'
<1>1. ConnectorOK(j) /\ (InCancel(j) => connector' \in {0, j})
  BY Zenon DEF IInv, ConnectorInv, ConnectorOK
<1>2. SameConnector(j)
  BY Zenon DEF SameConnector
<1>. QED BY <1>1, <1>2, OtherConnector, Zenon

\* The step does nothing to the queue, and a Disconnect goes on.
LEMMA QueueKept ==
  ASSUME IInv, queue' = queue, connector = 0 => connector' = 0,
         \A f \in {"DisconnectInLoop", "DropConnector", "ResetConnector", "crash"} :
           Has(stack, f) =>
             \/ connector' = 0
             \/ \E g \in {"DisconnectInLoop", "DropConnector", "ResetConnector", "crash"} :
                  Has(stack', g)
  PROVE  QueueInv'
  BY Zenon DEF IInv, QueueInv

\* No Connector starts or stops, and none is forgotten.
LEMMA AttemptsKept ==
  ASSUME IInv, UNCHANGED <<status, timer, chan, dns, restart, stray, connector>>,
         \A j \in Connectors : HasK(stack, "HandleWrite", j) =>
           HasK(stack', "HandleWrite", j) \/ Has(stack', "crash"),
         Has(stack, "HandleWrite") => Has(stack', "HandleWrite") \/ Has(stack', "crash"),
         Has(stack, "crash") => Has(stack', "crash"),
         stack' # <<>> /\ Head(stack').f \in {"Start", "Connect", "HandleError"} =>
           Mine(Head(stack').k),
         conn' = "connected" => conn = "connected"
  PROVE  AttemptInv'
<1>1. \A j : (Mine(j)' <=> Mine(j)) /\ (Busy(j)' <=> Busy(j))
  BY Zenon DEF Mine, Busy
<1>2. ASSUME conn' = "connected"
      PROVE  \/ Has(stack', "crash") \/ Has(stack', "HandleWrite")
             \/ connector' # 0 /\ status'[connector'] = "kConnected"
  BY <1>2, Zenon DEF IInv, AttemptInv
<1>3. \A j \in Connectors :
        Busy(j)' => Mine(j)' \/ HasK(stack', "HandleWrite", j) \/ Has(stack', "crash")
  BY <1>1, Zenon DEF IInv, AttemptInv
<1>4. stack' # <<>> /\ Head(stack').f \in {"Start", "Connect", "HandleError"} =>
        Mine(Head(stack).k)'
  BY Zenon DEF Mine
<1>. QED BY <1>2, <1>3, <1>4, Zenon DEF AttemptInv

\* A client that reconnects is still at it.
LEMMA EffortKept ==
  ASSUME IInv, UNCHANGED <<timer, chan, dns, restart, connector>>,
         autoReconnect' => autoReconnect, autoReconnect' /\ made' > 0 => made > 0,
         conn' = "connected" \/ conn' = conn \/ Has(stack', "OnRemoveConnection"),
         \A f \in {"Start", "HandleError", "Retry", "OnRemoveConnection", "crash"} :
           Has(stack, f) =>
             \E g \in {"Start", "HandleError", "Retry", "OnRemoveConnection", "crash"} :
               Has(stack', g),
         Has(stack, "OnRemoveConnection") => Has(stack', "OnRemoveConnection"),
         Has(stack, "crash") => Has(stack', "crash"),
         connector # 0 /\ HasK(stack', "HandleWrite", connector) =>
           HasK(stack, "HandleWrite", connector) \/ conn' = "connected"
  PROVE  EffortInv'
<1>1. \A j : Busy(j)' <=> Busy(j)
  BY Zenon DEF Busy
<1>. QED BY <1>1, Zenon DEF IInv, EffortInv

-----------------------------------------------------------------------------
(* The steps.                                                              *)

\* HandleError clears the attempt of its Connector.
LEMMA HandleErrorKeeps ==
  ASSUME IInv, HandleError
  PROVE  IInv'
<1>. DEFINE t == Tail(stack)
<1>1. PICK k \in Connectors :
        /\ stack # <<>> /\ TopIs(stack, Top, t) /\ Fits(t, made) /\ Top.f = "HandleError"
        /\ Top.k = k /\ k \in 1..made /\ made \in Nat /\ \A f \in HeadOnly : ~Has(t, f)
        /\ ~OnReset(t)
  <2>1. stack # <<>> /\ Top.f = "HandleError"
    BY Zenon DEF HandleError, At, Top
  <2>. QED BY <2>1, Running, Zenon DEF IInv, OfConnector
<1>. DEFINE a == Callback("failed")
            b == Call("Retry", k)
<1>2. a \in Calls /\ b \in Calls
  BY <1>1, CallTypes, Zenon DEF Plain
<1>3. /\ Nested(stack') /\ Known(stack', made) /\ stack' \in Seq(Calls)
      /\ stack' # <<>> /\ Head(stack').f \in {"cb", "Retry"}
      /\ \A f : f # "cb" => (Has(stack', f) <=> f = "Retry" \/ Has(t, f))
      /\ \A j : \A f \in OfConnector :
           HasK(stack', f, j) <=> (f = "Retry" /\ j = k) \/ HasK(t, f, j)
  <2>1. CASE stack' = <<b>> \o t
    <3>1. TopIs(stack', b, t) /\ Nested(stack') /\ Known(stack', made)
      BY <2>1, <1>1, <1>2, PutsOne, Zenon DEF Call
    <3>. QED BY <3>1 DEF TopIs, Call, OfConnector
  <2>2. CASE stack' = <<a, b>> \o t
    <3>1. TopTwo(stack', a, b, t) /\ Nested(stack') /\ Known(stack', made)
      BY <2>2, <1>1, <1>2, PutsTwo, Zenon DEF Call, Callback, HeadOnly, OfConnector
    <3>. QED BY <3>1 DEF TopTwo, Call, Callback, OfConnector
  <2>3. stack' = <<b>> \o t \/ stack' = <<a, b>> \o t
    BY <1>1, Zenon DEF HandleError, GoesOn
  <2>. QED BY <2>1, <2>2, <2>3, Zenon
<1>4. \A f \in Waiting : ~HasK(t, f, k)
  BY <1>1, Zenon DEF IInv, StackInv, TopIs, Top
<1>5. /\ \A f : Has(stack, f) <=> f = "HandleError" \/ Has(t, f)
      /\ \A f, j : HasK(stack, f, j) <=> (f = "HandleError" /\ j = k) \/ HasK(t, f, j)
      /\ Head(stack).f = "HandleError" /\ Head(stack).k = k
  BY <1>1, Zenon DEF TopIs, Top
<1>. HIDE DEF t, a, b
<1>6. /\ status' = [status EXCEPT ![k] = "kDisconnected"]
      /\ chan' = [chan EXCEPT ![k] = Shut(k)]
      /\ dns' = [dns EXCEPT ![k] = FALSE]
      /\ timer' = [timer EXCEPT ![k] = FALSE]
      /\ UNCHANGED <<clientVars, resolved, restart, queue, userVars, stray>>
  BY <1>1, Zenon DEF HandleError
<1>7. TypeOK'
  <2>1. reports' \subseteq {"connected", "failed", "lost"}
    <3>1. <<b>> \in Seq(Calls) /\ <<a, b>> \in Seq(Calls)
      BY <1>2
    <3>2. Tell(<<b>>) \/ Tell(<<a, b>>)
      BY <1>1, Zenon DEF HandleError, a, b
    <3>. QED BY <3>1, <3>2, TellTypes, Zenon DEF IInv
  <2>2. Shut(k) \in {"none", "open", "closed"}
    BY <1>1, Zenon DEF Shut, IInv, TypeOK
  <2>. QED BY <2>1, <2>2, <1>1, <1>3, <1>6, Zenon DEF IInv, TypeOK, clientVars, userVars, Statuses
<1>8. /\ status'[k] = "kDisconnected" /\ chan'[k] # "open" /\ ~dns'[k] /\ ~timer'[k]
      /\ restart'[k] = restart[k]
      /\ \A j \in Connectors \ {k} : SameConnector(j)
  BY <1>1, <1>6 DEF IInv, TypeOK, Shut, SameConnector
<1>9. UNCHANGED <<autoReconnect, connector, conn, made, queue, stray>>
  BY <1>6, Zenon DEF clientVars
<1>10. StackInv'
  BY <1>3, <1>9, Zenon DEF StackInv
<1>11. ConnectorInv'
  <2>. SUFFICES ASSUME NEW j \in Connectors
                PROVE  ConnectorOK(j)'
    BY Zenon DEF ConnectorInv
  <2>1. ConnectorOK(j)
    BY Zenon DEF IInv, ConnectorInv
  <2>2. CASE j = k
    BY <2>1, <2>2, <1>3, <1>4, <1>5, <1>8, <1>9, Zenon
       DEF ConnectorOK, InAttempt, InCancel, Quiet, OfConnector, Waiting
  <2>3. CASE j # k
    <3>1. InCancel(j)' <=> InCancel(j)
      BY <2>3, <1>3, <1>5, Zenon DEF InCancel, OfConnector
    <3>2. ~InAttempt(j) /\ ~At("ResetConnector")
      BY <2>3, <1>5, Zenon DEF InAttempt, At
    <3>. QED BY <2>1, <2>3, <3>1, <3>2, <1>3, <1>5, <1>8, <1>9, OtherConnector, Zenon
             DEF OfConnector, ConnectorOK
  <2>. QED BY <2>2, <2>3, Zenon
<1>12. HeadInv'
  BY <1>3, Zenon DEF HeadInv, At
<1>13. ClientInv'
  <2>1. made > 0
    BY <1>1
  <2>. QED BY <2>1, <1>3, <1>5, <1>9, Zenon DEF IInv, ClientInv, Dropping
<1>14. QueueInv'
  BY <1>3, <1>5, <1>9, Zenon DEF IInv, QueueInv
<1>15. AttemptInv'
  <2>1. Mine(k)' /\ \A j : Mine(j)' <=> Mine(j)
    BY <1>1, <1>5, <1>9, Zenon DEF IInv, AttemptInv, Mine
  <2>2. \A j \in Connectors : Busy(j)' => j = k \/ Busy(j)
    BY <1>8, Zenon DEF Busy, SameConnector
  <2>3. ASSUME conn = "connected", ~Has(t, "HandleWrite")
        PROVE  connector # 0 /\ connector # k /\ status[connector] = "kConnected"
    BY <2>3, <1>1, <1>5, Zenon DEF IInv, AttemptInv, HeadInv, At, Top, HeadOnly
  <2>4. \A j \in Connectors :
          Busy(j)' => Mine(j)' \/ HasK(stack', "HandleWrite", j) \/ Has(stack', "crash")
    BY <2>1, <2>2, <1>1, <1>3, <1>5, <1>9, Zenon DEF IInv, AttemptInv, OfConnector, HeadOnly
  <2>5. ASSUME conn' = "connected", ~Has(stack', "HandleWrite")
        PROVE  connector' # 0 /\ status'[connector'] = "kConnected"
    <3>1. connector # 0 /\ connector # k /\ status[connector] = "kConnected"
      BY <2>3, <2>5, <1>3, <1>9, Zenon
    <3>2. connector \in Connectors
      BY <3>1, ClientAssumption DEF IInv, TypeOK, Connectors
    <3>. QED BY <3>1, <3>2, <1>8, <1>9, Zenon DEF SameConnector
  <2>. QED BY <2>4, <2>5, <1>3, Zenon DEF AttemptInv
<1>16. EffortInv'
  BY <1>3, <1>5, <1>9, Zenon DEF IInv, EffortInv, OfConnector
<1>. QED BY <1>7, <1>10, <1>11, <1>12, <1>13, <1>14, <1>15, <1>16, Zenon DEF IInv

\* Connect is posted.
LEMMA ConnectKeeps ==
  ASSUME IInv, Connect
  PROVE  IInv'
<1>1. UNCHANGED <<autoReconnect, connector, conn, made, status, timer, chan, dns, resolved,
                  restart, stack, disconnects, closes, reports, stray>>
  BY Zenon DEF Connect, clientVars, connectorVars
<1>2. queue' \in Seq({"Connect", "Disconnect"}) /\ Len(queue') = Len(queue) + 1
        /\ Len(queue) \in Nat
        /\ queue'[Len(queue) + 1] = "Connect"
        /\ \A i \in 1..Len(queue) : queue'[i] = queue[i]
  BY DEF Connect, IInv, TypeOK
<1>3. TypeOK'
  BY <1>1, <1>2, ClientAssumption DEF IInv, TypeOK, Connect
<1>4. StackInv' /\ HeadInv' /\ ClientInv'
  BY <1>1, Zenon DEF IInv, StackInv, HeadInv, ClientInv, At, Top, Quiet
<1>5. ConnectorInv'
  BY <1>1 DEF IInv, ConnectorInv, ConnectorOK, InAttempt, InCancel, At, Quiet
<1>6. QueueInv'
  <2>1. ASSUME NEW i \in 1..Len(queue)
        PROVE  (i - 1) \in 1..Len(queue) \/ i = 1
    BY <1>2
  <2>2. ASSUME NEW i \in 1..Len(queue)
        PROVE  queue'[i] = "Connect" =>
                 IF i = 1
                 THEN \/ connector = 0
                      \/ \E f \in {"DisconnectInLoop", "DropConnector", "ResetConnector",
                                   "crash"} : Has(stack, f)
                 ELSE queue'[i - 1] = "Disconnect"
    BY <1>2, <2>1, Zenon DEF IInv, QueueInv
  <2>3. Len(queue) = 0 => connector = 0
    BY <1>2 DEF Connect, IInv, TypeOK
  <2>4. Len(queue) > 0 => queue'[Len(queue)] = "Disconnect"
    BY <1>2 DEF Connect, IInv, TypeOK
  <2>. QED BY <1>1, <1>2, <2>2, <2>3, <2>4 DEF QueueInv
<1>7. AttemptInv' /\ EffortInv'
  BY <1>1, Zenon DEF IInv, AttemptInv, EffortInv, Mine, Busy
<1>. QED BY <1>3, <1>4, <1>5, <1>6, <1>7, Zenon DEF IInv

\* Disconnect is posted.
LEMMA DisconnectKeeps ==
  ASSUME IInv, Disconnect
  PROVE  IInv'
<1>1. UNCHANGED <<autoReconnect, connector, conn, made, status, timer, chan, dns, resolved,
                  restart, stack, connects, closes, reports, stray>>
  BY Zenon DEF Disconnect, clientVars, connectorVars
<1>2. queue' \in Seq({"Connect", "Disconnect"}) /\ Len(queue') = Len(queue) + 1
        /\ Len(queue) \in Nat
        /\ queue'[Len(queue) + 1] = "Disconnect"
        /\ \A i \in 1..Len(queue) : queue'[i] = queue[i]
  BY DEF Disconnect, IInv, TypeOK
<1>3. TypeOK'
  BY <1>1, <1>2, ClientAssumption DEF IInv, TypeOK, Disconnect
<1>4. StackInv' /\ HeadInv' /\ ClientInv'
  BY <1>1, Zenon DEF IInv, StackInv, HeadInv, ClientInv, At, Top, Quiet
<1>5. ConnectorInv'
  BY <1>1, Zenon DEF IInv, ConnectorInv, ConnectorOK, InAttempt, InCancel, At, Quiet
<1>6. QueueInv'
  <2>1. ASSUME NEW i \in 1..Len(queue)
        PROVE  (i - 1) \in 1..Len(queue) \/ i = 1
    BY <1>2
  <2>2. ASSUME NEW i \in 1..Len(queue)
        PROVE  queue'[i] = "Connect" =>
                 IF i = 1
                 THEN \/ connector = 0
                      \/ \E f \in {"DisconnectInLoop", "DropConnector", "ResetConnector",
                                   "crash"} : Has(stack, f)
                 ELSE queue'[i - 1] = "Disconnect"
    BY <1>2, <2>1, Zenon DEF IInv, QueueInv
  <2>. QED BY <1>1, <1>2, <2>2 DEF QueueInv
<1>7. AttemptInv' /\ EffortInv'
  BY <1>1, Zenon DEF IInv, AttemptInv, EffortInv, Mine, Busy
<1>. QED BY <1>3, <1>4, <1>5, <1>6, <1>7, Zenon DEF IInv

\* What a functor leaves of the queue: a Connect that comes first now was
\* behind a Disconnect.
LEMMA QueueTail ==
  ASSUME IInv, queue # <<>>, queue' = Tail(queue)
  PROVE  /\ queue' \in Seq({"Connect", "Disconnect"}) /\ Head(queue) = queue[1]
         /\ Head(queue) = "Connect" => 1 \in 1..Len(queue)
         /\ \/ Head(queue) = "Connect"
            \/ \E f \in {"DisconnectInLoop", "DropConnector", "ResetConnector", "crash"} :
                 Has(stack', f)
            => QueueInv'
<1>1. /\ queue \in Seq({"Connect", "Disconnect"}) /\ Len(queue) \in Nat \ {0}
      /\ Head(queue) = queue[1] /\ queue' \in Seq({"Connect", "Disconnect"})
      /\ Len(queue') = Len(queue) - 1
      /\ \A i \in 1..Len(queue) - 1 : queue'[i] = queue[i + 1]
      /\ Head(queue) \in {"Connect", "Disconnect"}
  BY DEF IInv, TypeOK
<1>2. ASSUME \/ Head(queue) = "Connect"
             \/ \E f \in {"DisconnectInLoop", "DropConnector", "ResetConnector", "crash"} :
                  Has(stack', f)
      PROVE  QueueInv'
  <2>. SUFFICES ASSUME NEW i \in 1..Len(queue'), queue'[i] = "Connect"
                PROVE  IF i = 1
                       THEN \/ connector' = 0
                            \/ \E f \in {"DisconnectInLoop", "DropConnector", "ResetConnector",
                                         "crash"} : Has(stack', f)
                       ELSE queue'[i - 1] = "Disconnect"
    BY Zenon DEF QueueInv
  <2>1. i + 1 \in 1..Len(queue) /\ queue[i + 1] = "Connect" /\ i + 1 # 1 /\ (i + 1) - 1 = i
    BY <1>1
  <2>2. queue[i] = "Disconnect"
    BY <2>1, Zenon DEF IInv, QueueInv
  <2>3. CASE i = 1
    BY <2>2, <2>3, <1>1, <1>2, Zenon
  <2>4. CASE i > 1
    BY <2>2, <2>4, <1>1
  <2>. QED BY <2>3, <2>4, <1>1
<1>3. 1 \in 1..Len(queue)
  BY <1>1
<1>. QED BY <1>1, <1>2, <1>3, Zenon

\* The functor of Connect: there is no Connector.
LEMMA RunConnectKeeps ==
  ASSUME IInv, RunConnect
  PROVE  IInv'
<1>1. PICK k \in Connectors : k = made + 1 /\ made' = k /\ connector' = k /\ made \in Nat
  BY ClientAssumption DEF RunConnect, NewConnector, IInv, TypeOK, Connectors
<1>2. /\ UNCHANGED <<autoReconnect, conn, status, timer, chan, dns, resolved, restart,
                     connects, disconnects, closes, reports>>
      /\ stack = <<>> /\ queue # <<>> /\ queue' = Tail(queue) /\ Head(queue) = "Connect"
      /\ stray' = stray \cup {j \in {connector} : j # 0 /\ Busy(j)}
  BY Zenon DEF RunConnect, NewConnector, Drops, connectorVars, userVars, Idle
<1>3. /\ (\A f : ~Has(stack, f)) /\ (\A f, j : ~HasK(stack, f, j))
      /\ Fits(stack, k) /\ ~OnReset(stack)
  BY <1>2, EmptyStack, IdleFits, Zenon DEF OnReset
<1>4. connector = 0 /\ stray' = stray
  <2>1. queue[1] = "Connect" /\ 1 \in 1..Len(queue)
    BY <1>2, QueueTail, Zenon
  <2>2. connector = 0
    BY <2>1, <1>3, Zenon DEF IInv, QueueInv
  <2>. QED BY <2>2, <1>2, Zenon
<1>. DEFINE c == Call("Start", k)
<1>5. c \in Calls /\ c.f = "Start" /\ c.k = k
  BY CallTypes, Zenon DEF c, Plain
<1>6. TopIs(stack', c, stack) /\ Nested(stack') /\ Known(stack', k)
  <2>1. stack' = <<c>> \o stack
    BY <1>1, Zenon DEF RunConnect, Enters
  <2>2. k \in Nat /\ k \in 1..k
    BY <1>1
  <2>. HIDE DEF c
  <2>. QED BY <2>1, <2>2, <1>3, <1>5, PutsOne, Zenon
<1>. HIDE DEF c
<1>7. /\ stack' \in Seq(Calls) /\ stack' # <<>> /\ Head(stack') = c /\ Tail(stack') = stack
      /\ \A f : Has(stack', f) <=> f = "Start"
      /\ \A f, j : HasK(stack', f, j) <=> f = "Start" /\ j = k
  BY <1>3, <1>5, <1>6, Zenon DEF TopIs
<1>8. ConnectorOK(k) /\ k > made
  BY <1>1 DEF IInv, ConnectorInv
<1>9. Quiet(k) /\ ~restart[k] /\ Quiet(k)'
  BY <1>2, <1>8, Zenon DEF ConnectorOK, Quiet
<1>10. TypeOK'
  <2>1. queue' \in Seq({"Connect", "Disconnect"})
    BY <1>2, QueueTail, Zenon
  <2>2. made' \in 0..MaxConnectors /\ connector' \in 0..made'
    BY <1>1 DEF Connectors
  <2>. QED BY <1>2, <1>4, <1>7, <2>1, <2>2, Zenon DEF IInv, TypeOK
<1>11. StackInv'
  BY <1>1, <1>3, <1>6, <1>7, Zenon DEF StackInv
<1>12. ConnectorInv'
  <2>. SUFFICES ASSUME NEW j \in Connectors
                PROVE  ConnectorOK(j)'
    BY Zenon DEF ConnectorInv
  <2>1. CASE j = k
    BY <2>1, <1>1, <1>2, <1>5, <1>7, <1>9, Zenon DEF ConnectorOK, Quiet, InCancel, InAttempt
  <2>2. CASE j # k
    <3>1. ConnectorOK(j) /\ SameConnector(j)
      BY <1>2, Zenon DEF IInv, ConnectorInv, SameConnector
    <3>2. ~InCancel(j) /\ ~InCancel(j)' /\ ~InAttempt(j) /\ ~At("ResetConnector")
      BY <1>2, <1>3, <1>7, Zenon DEF InCancel, InAttempt, At
    <3>3. ~(j > made) => ~(j > made')
      BY <1>1, <2>2 DEF Connectors
    <3>. QED BY <2>2, <3>1, <3>2, <3>3, <1>1, <1>7, OtherConnector, Zenon
  <2>. QED BY <2>1, <2>2, Zenon
<1>13. HeadInv'
  BY <1>2, <1>5, <1>7, <1>9, Zenon DEF HeadInv, At, Top
<1>14. ClientInv'
  BY <1>1, <1>2, <1>3, <1>7 DEF IInv, ClientInv, Dropping
<1>15. QueueInv'
  BY <1>2, QueueTail, Zenon
<1>16. AttemptInv'
  <2>1. \A j : Busy(j)' <=> Busy(j)
    BY <1>2, Zenon DEF Busy
  <2>2. \A j \in Connectors : Busy(j) => j \in stray
    BY <1>3, <1>4 DEF IInv, AttemptInv, Mine, Connectors
  <2>3. conn' # "connected"
    BY <1>2, <1>3, <1>4, Zenon DEF IInv, AttemptInv
  <2>. QED BY <2>1, <2>2, <2>3, <1>1, <1>2, <1>4, <1>5, <1>7, Zenon DEF AttemptInv, Mine
<1>17. EffortInv'
  BY <1>7, Zenon DEF EffortInv
<1>. QED BY <1>10, <1>11, <1>12, <1>13, <1>14, <1>15, <1>16, <1>17, Zenon DEF IInv

\* The idle loop calls c.
LEMMA IdleCalls ==
  ASSUME IInv, stack = <<>>, NEW c \in Calls, stack' = <<c>> \o stack,
         c.f \in {"Start", "Connect", "HandleError", "DisconnectInLoop"},
         c.f \in OfConnector => c.k \in 1..made
  PROVE  /\ made \in Nat
         /\ (\A f : ~Has(stack, f)) /\ (\A f, j : ~HasK(stack, f, j))
         /\ stack' \in Seq(Calls) /\ stack' # <<>> /\ Head(stack') = c /\ Tail(stack') = stack
         /\ \A f : Has(stack', f) <=> f = c.f
         /\ \A f, j : HasK(stack', f, j) <=> f = c.f /\ j = c.k
         /\ Nested(stack') /\ Known(stack', made)
<1>1. /\ (\A f : ~Has(stack, f)) /\ (\A f, j : ~HasK(stack, f, j))
      /\ Fits(stack, made) /\ ~OnReset(stack)
  BY EmptyStack, IdleFits, Zenon DEF OnReset
<1>2. made \in Nat
  BY DEF IInv, TypeOK
<1>3. TopIs(stack', c, stack) /\ Nested(stack') /\ Known(stack', made)
  BY <1>1, <1>2, PutsOne, Zenon
<1>. QED BY <1>1, <1>2, <1>3, Zenon DEF TopIs

\* The functor of Disconnect.
LEMMA RunDisconnectKeeps ==
  ASSUME IInv, RunDisconnect
  PROVE  IInv'
<1>1. /\ UNCHANGED <<autoReconnect, connector, conn, made, status, timer, chan, dns, resolved,
                     restart, connects, disconnects, closes, reports, stray>>
      /\ stack = <<>> /\ queue # <<>> /\ queue' = Tail(queue)
  BY Zenon DEF RunDisconnect, clientVars, connectorVars, userVars, Idle
<1>. DEFINE c == Call("DisconnectInLoop", 0)
<1>2. c \in Calls /\ c.f = "DisconnectInLoop" /\ stack' = <<c>> \o stack
  BY CallTypes DEF c, Plain, RunDisconnect, Enters
<1>. HIDE DEF c
<1>3. /\ made \in Nat
      /\ (\A f : ~Has(stack, f)) /\ (\A f, j : ~HasK(stack, f, j))
      /\ stack' \in Seq(Calls) /\ stack' # <<>> /\ Head(stack') = c /\ Tail(stack') = stack
      /\ \A f : Has(stack', f) <=> f = "DisconnectInLoop"
      /\ \A f, j : HasK(stack', f, j) <=> f = "DisconnectInLoop" /\ j = c.k
      /\ Nested(stack') /\ Known(stack', made)
  BY <1>1, <1>2, IdleCalls, Zenon DEF OfConnector
<1>4. TypeOK' /\ QueueInv'
  <2>1. queue' \in Seq({"Connect", "Disconnect"}) /\ QueueInv'
    BY <1>1, <1>3, QueueTail, Zenon
  <2>. QED BY <2>1, <1>1, <1>3, Zenon DEF IInv, TypeOK
<1>5. StackInv'
  BY <1>1, <1>2, <1>3, Zenon DEF StackInv
<1>6. ConnectorInv'
  <2>. SUFFICES ASSUME NEW j \in Connectors
                PROVE  ConnectorOK(j)'
    BY Zenon DEF ConnectorInv
  <2>1. ~InCancel(j) /\ ~InCancel(j)' /\ ~InAttempt(j) /\ ~At("ResetConnector")
    BY <1>1, <1>3, Zenon DEF InCancel, InAttempt, At
  <2>. QED BY <2>1, <1>1, <1>3, ConnectorsKept, Zenon
<1>7. HeadInv' /\ ClientInv'
  BY <1>1, <1>2, <1>3, Zenon DEF IInv, HeadInv, ClientInv, At, Dropping
<1>8. AttemptInv' /\ EffortInv'
  BY <1>1, <1>2, <1>3, AttemptsKept, EffortKept, Zenon
<1>. QED BY <1>4, <1>5, <1>6, <1>7, <1>8, Zenon DEF IInv

\* A Connector that is at work, when the loop is idle.
LEMMA IdleBusy ==
  ASSUME IInv, stack = <<>>, NEW k \in Connectors, Busy(k)
  PROVE  /\ k \in 1..made /\ Mine(k)
         /\ status[k] # "kConnected" /\ ~restart[k] => timer[k]
         /\ timer[k] \/ dns[k] \/ chan[k] = "open" =>
              status[k] \in {"kDNSResolving", "kConnecting"} /\ timer[k] /\ ~restart[k]
         /\ dns[k] => chan[k] # "open"
<1>1. (\A f : ~Has(stack, f)) /\ (\A f, j : ~HasK(stack, f, j))
  BY EmptyStack, Zenon
<1>2. ConnectorOK(k) /\ ~InAttempt(k) /\ ~InCancel(k)
  BY <1>1, Zenon DEF IInv, ConnectorInv, InAttempt, InCancel
<1>3. k \in 1..made
  <2>1. k \in Nat \ {0} /\ made \in Nat
    BY DEF IInv, TypeOK, Connectors
  <2>2. ~(k > made)
    BY <1>2, Zenon DEF ConnectorOK, Busy, Quiet
  <2>. QED BY <2>1, <2>2
<1>. QED BY <1>1, <1>2, <1>3, Zenon DEF IInv, AttemptInv, ConnectorOK, Busy, Quiet

\* The idle loop lets a Connector's attempt fail.
LEMMA FailureKeeps ==
  ASSUME IInv, stack = <<>>, NEW k \in Connectors, timer[k] \/ chan[k] = "open",
         NEW refused \in BOOLEAN, stack' = <<Fail(k, refused)>> \o stack,
         UNCHANGED <<clientVars, connectorVars, queue, userVars, reports, stray>>
  PROVE  IInv'
<1>1. /\ UNCHANGED <<autoReconnect, connector, conn, made, status, timer, chan, dns, resolved,
                     restart, queue, connects, disconnects, closes, reports, stray>>
  BY Zenon DEF clientVars, connectorVars, userVars
<1>. DEFINE c == Fail(k, refused)
<1>2. c \in Calls /\ c.f = "HandleError" /\ c.k = k
  BY Zenon DEF c, Fail, Calls
<1>3. k \in 1..made /\ Mine(k) /\ status[k] # "kConnected"
  BY IdleBusy, Zenon DEF Busy
<1>. HIDE DEF c
<1>4. /\ made \in Nat
      /\ (\A f : ~Has(stack, f)) /\ (\A f, j : ~HasK(stack, f, j))
      /\ stack' \in Seq(Calls) /\ stack' # <<>> /\ Head(stack') = c /\ Tail(stack') = stack
      /\ \A f : Has(stack', f) <=> f = "HandleError"
      /\ \A f, j : HasK(stack', f, j) <=> f = "HandleError" /\ j = k
      /\ Nested(stack') /\ Known(stack', made)
  BY <1>2, <1>3, IdleCalls, Zenon DEF c
<1>5. TypeOK'
  BY <1>1, <1>4, Zenon DEF IInv, TypeOK
<1>6. StackInv'
  BY <1>1, <1>2, <1>4, Zenon DEF StackInv
<1>7. ConnectorInv'
  <2>. SUFFICES ASSUME NEW j \in Connectors
                PROVE  ConnectorOK(j)'
    BY Zenon DEF ConnectorInv
  <2>1. ~InCancel(j) /\ ~InCancel(j)' /\ ~InAttempt(j) /\ ~At("ResetConnector")
    BY <1>1, <1>4, Zenon DEF InCancel, InAttempt, At
  <2>. QED BY <2>1, <1>1, <1>4, ConnectorsKept, Zenon
<1>8. HeadInv' /\ ClientInv'
  BY <1>1, <1>2, <1>3, <1>4, Zenon DEF IInv, HeadInv, ClientInv, At, Top, Dropping
<1>9. QueueInv' /\ AttemptInv' /\ EffortInv'
  BY <1>1, <1>2, <1>3, <1>4, QueueKept, AttemptsKept, EffortKept, Zenon
<1>. QED BY <1>5, <1>6, <1>7, <1>8, <1>9, Zenon DEF IInv

\* The write event reports an error, or the timer of the attempt fires.
LEMMA HandleWriteErrorKeeps ==
  ASSUME IInv, NEW k \in Connectors, HandleWriteError(k) \/ OnConnectTimeout(k)
  PROVE  IInv'
<1>1. CASE HandleWriteError(k)
  BY <1>1, FailureKeeps, Zenon DEF HandleWriteError, Idle, Enters
<1>2. CASE OnConnectTimeout(k)
  BY <1>2, FailureKeeps, Zenon DEF OnConnectTimeout, Idle, Enters
<1>. QED BY <1>1, <1>2, Zenon

\* The resolver answers, or fails.
LEMMA OnDNSResolvedKeeps ==
  ASSUME IInv, NEW k \in Connectors, OnDNSResolved(k) \/ OnDNSFailed(k)
  PROVE  IInv'
<1>1. /\ UNCHANGED <<autoReconnect, connector, conn, made, status, timer, chan, restart, queue,
                     connects, disconnects, closes, reports, stray>>
      /\ dns' = [dns EXCEPT ![k] = FALSE] /\ stack = <<>> /\ dns[k]
      /\ resolved' \in [Connectors -> BOOLEAN]
  BY Zenon DEF OnDNSResolved, OnDNSFailed, clientVars, userVars, Idle, IInv, TypeOK
<1>2. k \in 1..made /\ Mine(k) /\ status[k] = "kDNSResolving" /\ timer[k] /\ ~restart[k]
        /\ chan[k] # "open"
  BY <1>1, IdleBusy, Zenon DEF Busy, IInv, ConnectorInv, ConnectorOK
<1>3. PICK c \in Calls :
        c.f \in {"Connect", "HandleError"} /\ c.k = k /\ stack' = <<c>> \o stack
  <2>1. CASE OnDNSResolved(k)
    <3>1. /\ Call("Connect", k) \in Calls /\ Call("Connect", k).f = "Connect"
          /\ Call("Connect", k).k = k
      BY CallTypes, Zenon DEF Plain
    <3>. QED BY <2>1, <3>1, Zenon DEF OnDNSResolved, Enters
  <2>2. CASE OnDNSFailed(k)
    <3>1. ASSUME NEW r \in BOOLEAN
          PROVE  Fail(k, r) \in Calls /\ Fail(k, r).f = "HandleError" /\ Fail(k, r).k = k
      BY Zenon DEF Fail, Calls
    <3>. QED BY <2>2, <3>1, Zenon DEF OnDNSFailed, Enters
  <2>. QED BY <2>1, <2>2, Zenon
<1>4. /\ made \in Nat
      /\ (\A f : ~Has(stack, f)) /\ (\A f, j : ~HasK(stack, f, j))
      /\ stack' \in Seq(Calls) /\ stack' # <<>> /\ Head(stack') = c /\ Tail(stack') = stack
      /\ \A f : Has(stack', f) <=> f = c.f
      /\ \A f, j : HasK(stack', f, j) <=> f = c.f /\ j = k
      /\ Nested(stack') /\ Known(stack', made)
  BY <1>1, <1>2, <1>3, IdleCalls, Zenon
<1>5. TypeOK'
  BY <1>1, <1>4, Zenon DEF IInv, TypeOK
<1>6. ~dns'[k] /\ \A j \in Connectors \ {k} : SameConnector(j)
  BY <1>1, Zenon DEF IInv, TypeOK, SameConnector
<1>7. StackInv'
  <2>1. \A f, j : ~HasK(Tail(stack'), f, j)
    BY <1>4, Zenon
  <2>2. Nested(stack') /\ Known(stack', made')
    BY <1>1, <1>4, Zenon
  <2>. QED BY <2>1, <2>2, Zenon DEF StackInv
<1>8. ConnectorInv'
  <2>. SUFFICES ASSUME NEW j \in Connectors
                PROVE  ConnectorOK(j)'
    BY Zenon DEF ConnectorInv
  <2>1. ConnectorOK(j) /\ ~InCancel(j) /\ ~InCancel(j)'
    BY <1>3, <1>4, Zenon DEF IInv, ConnectorInv, InCancel
  <2>2. CASE j = k
    BY <2>1, <2>2, <1>1, <1>2, <1>3, <1>4, <1>6, Zenon DEF ConnectorOK, InAttempt, Quiet
  <2>3. CASE j # k
    <3>1. ~InAttempt(j) /\ ~At("ResetConnector")
      BY <1>1, Zenon DEF InAttempt, At
    <3>. QED BY <2>1, <2>3, <3>1, <1>1, <1>3, <1>4, <1>6, OtherConnector, Zenon
  <2>. QED BY <2>2, <2>3, Zenon
<1>9. HeadInv'
  BY <1>1, <1>2, <1>3, <1>4, <1>6, Zenon DEF HeadInv, At, Top
<1>10. ClientInv' /\ QueueInv'
  BY <1>1, <1>3, <1>4, QueueKept, Zenon DEF IInv, ClientInv, Dropping
<1>11. /\ Busy(k) /\ Busy(k)'
       /\ \A j \in Connectors : Busy(j)' <=> Busy(j)
  BY <1>1, <1>2, <1>6, Zenon DEF Busy, SameConnector
<1>12. AttemptInv'
  BY <1>1, <1>2, <1>3, <1>4, <1>11, Zenon DEF IInv, AttemptInv, Mine
<1>13. EffortInv'
  BY <1>1, <1>3, <1>4, <1>11, Zenon DEF EffortInv
<1>. QED BY <1>5, <1>7, <1>8, <1>9, <1>10, <1>12, <1>13, Zenon DEF IInv

\* The delayed Start runs.
LEMMA RunRestartKeeps ==
  ASSUME IInv, NEW k \in Connectors, RunRestart(k)
  PROVE  IInv'
<1>1. /\ UNCHANGED <<autoReconnect, connector, conn, made, status, timer, chan, dns, resolved,
                     queue, connects, disconnects, closes, reports, stray>>
      /\ restart' = [restart EXCEPT ![k] = FALSE] /\ stack = <<>> /\ restart[k]
  BY Zenon DEF RunRestart, clientVars, userVars, Idle
<1>2. k \in 1..made /\ Mine(k) /\ Quiet(k)
  BY <1>1, IdleBusy, Zenon DEF Busy, IInv, ConnectorInv, ConnectorOK
<1>. DEFINE c == Call("Start", k)
<1>3. c \in Calls /\ c.f = "Start" /\ c.k = k /\ stack' = <<c>> \o stack
  <2>1. c \in Calls /\ c.f = "Start" /\ c.k = k
    BY CallTypes, Zenon DEF c, Plain
  <2>. QED BY <2>1, Zenon DEF RunRestart, Enters
<1>. HIDE DEF c
<1>4. /\ made \in Nat
      /\ (\A f : ~Has(stack, f)) /\ (\A f, j : ~HasK(stack, f, j))
      /\ stack' \in Seq(Calls) /\ stack' # <<>> /\ Head(stack') = c /\ Tail(stack') = stack
      /\ \A f : Has(stack', f) <=> f = "Start"
      /\ \A f, j : HasK(stack', f, j) <=> f = "Start" /\ j = k
      /\ Nested(stack') /\ Known(stack', made)
  BY <1>1, <1>2, <1>3, IdleCalls
<1>5. TypeOK'
  BY <1>1, <1>4, Zenon DEF IInv, TypeOK
<1>6. ~restart'[k] /\ \A j \in Connectors \ {k} : SameConnector(j)
  BY <1>1, Zenon DEF IInv, TypeOK, SameConnector
<1>7. StackInv'
  <2>1. \A f, j : ~HasK(Tail(stack'), f, j)
    BY <1>4, Zenon
  <2>2. Nested(stack') /\ Known(stack', made')
    BY <1>1, <1>4, Zenon
  <2>. QED BY <2>1, <2>2, Zenon DEF StackInv
<1>8. ConnectorInv'
  <2>. SUFFICES ASSUME NEW j \in Connectors
                PROVE  ConnectorOK(j)'
    BY Zenon DEF ConnectorInv
  <2>1. ConnectorOK(j) /\ ~InCancel(j) /\ ~InCancel(j)'
    BY <1>3, <1>4, Zenon DEF IInv, ConnectorInv, InCancel
  <2>2. CASE j = k
    BY <2>1, <2>2, <1>1, <1>2, <1>3, <1>4, <1>6, Zenon DEF ConnectorOK, InAttempt, Quiet
  <2>3. CASE j # k
    <3>1. ~InAttempt(j) /\ ~At("ResetConnector")
      BY <1>1, Zenon DEF InAttempt, At
    <3>. QED BY <2>1, <2>3, <3>1, <1>1, <1>3, <1>4, <1>6, OtherConnector, Zenon
  <2>. QED BY <2>2, <2>3, Zenon
<1>9. HeadInv'
  BY <1>1, <1>2, <1>3, <1>4, <1>6, Zenon DEF HeadInv, At, Top, Quiet
<1>10. ClientInv' /\ QueueInv'
  BY <1>1, <1>3, <1>4, QueueKept, Zenon DEF IInv, ClientInv, Dropping
<1>11. \A j \in Connectors : Busy(j)' => Busy(j)
  BY <1>1, <1>6, Zenon DEF Busy, SameConnector
<1>12. AttemptInv'
  BY <1>1, <1>2, <1>3, <1>4, <1>11, Zenon DEF IInv, AttemptInv, Mine
<1>13. EffortInv'
  BY <1>4, Zenon DEF EffortInv
<1>. QED BY <1>5, <1>7, <1>8, <1>9, <1>10, <1>12, <1>13, Zenon DEF IInv

\* HandleWrite has a connection, and calls the user.
LEMMA HandleWriteKeeps ==
  ASSUME IInv, NEW k \in Connectors, HandleWrite(k)
  PROVE  IInv'
<1>1. /\ UNCHANGED <<autoReconnect, connector, made, status, timer, chan, dns, resolved, restart,
                     queue, connects, disconnects, closes, stray>>
      /\ stack = <<>> /\ chan[k] = "open" /\ conn' = "connected"
  BY Zenon DEF HandleWrite, connectorVars, userVars, Idle
<1>2. k \in 1..made /\ Mine(k) /\ ~dns[k] /\ k # 0
  BY <1>1, IdleBusy DEF Busy
<1>. DEFINE c == Callback("connected")
            d == Call("HandleWrite", k)
<1>3. c \in Calls /\ c.f = "cb" /\ d \in Calls /\ d.f = "HandleWrite" /\ d.k = k
  BY CallTypes DEF c, d, Plain
<1>4. stack' = <<c, d>> \o stack /\ Tell(<<c, d>>)
  BY Zenon DEF HandleWrite, Enters
<1>. HIDE DEF c, d
<1>5. /\ made \in Nat /\ (\A f : ~Has(stack, f)) /\ (\A f, j : ~HasK(stack, f, j))
      /\ Fits(stack, made) /\ ~OnReset(stack)
  BY <1>1, EmptyStack, IdleFits DEF IInv, TypeOK, OnReset
<1>6. TopTwo(stack', c, d, stack) /\ Nested(stack') /\ Known(stack', made)
  BY <1>1, <1>2, <1>3, <1>4, <1>5, PutsTwo, Zenon DEF HeadOnly, OfConnector
<1>7. /\ stack' \in Seq(Calls) /\ stack' # <<>> /\ Head(stack').f = "cb"
      /\ \A f : Has(stack', f) <=> f = "cb" \/ f = "HandleWrite"
      /\ \A j : \A f \in OfConnector : HasK(stack', f, j) <=> f = "HandleWrite" /\ j = k
  BY <1>3, <1>5, <1>6, Zenon DEF TopTwo, OfConnector
<1>8. TypeOK'
  <2>1. reports' \subseteq {"connected", "failed", "lost"}
    <3>1. <<c, d>> \in Seq(Calls)
      BY <1>3
    <3>. QED BY <3>1, <1>4, TellTypes, Zenon DEF IInv
  <2>. QED BY <1>1, <1>7, <2>1, Zenon DEF IInv, TypeOK
<1>9. StackInv' /\ HeadInv'
  BY <1>1, <1>6, <1>7, Zenon DEF StackInv, HeadInv, At
<1>10. ConnectorInv'
  <2>. SUFFICES ASSUME NEW j \in Connectors
                PROVE  ConnectorOK(j)'
    BY Zenon DEF ConnectorInv
  <2>1. ~InCancel(j) /\ ~InCancel(j)' /\ ~InAttempt(j) /\ ~At("ResetConnector")
    BY <1>1, <1>5, <1>7, Zenon DEF InCancel, InAttempt, At, OfConnector
  <2>. QED BY <2>1, <1>1, <1>2, <1>7, ConnectorsKept, Zenon DEF OfConnector
<1>11. ClientInv'
  BY <1>1, <1>2, <1>5, <1>7 DEF IInv, ClientInv, Dropping
<1>12. QueueInv'
  BY <1>1, <1>5, QueueKept, Zenon
<1>13. \A j : (Busy(j)' <=> Busy(j)) /\ (Mine(j)' <=> Mine(j))
  BY <1>1, Zenon DEF Busy, Mine
<1>14. AttemptInv'
  BY <1>5, <1>7, <1>13, Zenon DEF IInv, AttemptInv
<1>15. EffortInv'
  BY <1>1, Zenon DEF EffortInv
<1>. QED BY <1>8, <1>9, <1>10, <1>11, <1>12, <1>14, <1>15, Zenon DEF IInv

\* The calls of HandleClose.
LEMMA HandleCloseCalls ==
  /\ Callback("lost") \in Calls /\ Call("OnRemoveConnection", 0) \in Calls
  /\ Callback("lost").f = "cb" /\ Callback("lost").r = "lost"
  /\ Call("OnRemoveConnection", 0).f = "OnRemoveConnection"
  /\ Call("OnRemoveConnection", 0).k = 0
  /\ HandleClose \in Seq(Calls)
<1>1. Callback("lost") \in Calls /\ Call("OnRemoveConnection", 0) \in Calls
  BY CallTypes, Zenon DEF Plain
<1>2. HandleClose \in Seq(Calls)
  BY <1>1 DEF HandleClose
<1>. QED BY <1>1, <1>2, Zenon DEF Call, Callback

\* A connection is lost or closed, or closed again.
LEMMA ConnLostKeeps ==
  ASSUME IInv, ConnLost \/ CloseInCallback \/ CloseAgain
  PROVE  IInv'
<1>. DEFINE c == Callback("lost")
            d == Call("OnRemoveConnection", 0)
<1>1. /\ UNCHANGED <<autoReconnect, connector, made, status, timer, chan, dns, resolved, restart,
                     queue, connects, disconnects, stray>>
      /\ conn # "none" \/ reports # {}
      /\ conn' = "disconnecting" \/ (conn' = conn /\ reports # {})
      /\ conn' = "connected" => conn = "connected"
      /\ stack' = <<c, d>> \o stack /\ Tell(HandleClose)
      /\ stack = <<>> \/ (stack # <<>> /\ Top.f = "cb")
  BY Zenon DEF ConnLost, CloseInCallback, CloseAgain, clientVars, connectorVars, userVars, Idle,
               HandleClose, Enters, At, Top
<1>2. /\ c \in Calls /\ d \in Calls /\ c.f = "cb" /\ c.r = "lost"
      /\ d.f = "OnRemoveConnection"
  BY HandleCloseCalls, Zenon
<1>. HIDE DEF c, d
<1>3. /\ Fits(stack, made) /\ made \in Nat /\ ~OnReset(stack)
      /\ ~At("ResetConnector") /\ \A j : ~InAttempt(j)
  <2>1. made \in Nat
    BY DEF IInv, TypeOK
  <2>2. CASE stack = <<>>
    BY <2>1, <2>2, EmptyStack, IdleFits, Zenon DEF At, InAttempt, OnReset
  <2>3. CASE stack # <<>> /\ Top.f = "cb"
    <3>1. Calm(stack)
      BY <2>3, Zenon DEF Calm, Top, HeadOnly
    <3>2. Fits(stack, made)
      BY <3>1, Zenon DEF IInv, StackInv, Fits, TypeOK
    <3>3. ~At("ResetConnector") /\ ~OnReset(stack) /\ \A j : ~InAttempt(j)
      BY <2>3, Zenon DEF At, InAttempt, Top, OnReset
    <3>. QED BY <2>1, <3>2, <3>3, Zenon
  <2>. QED BY <1>1, <2>2, <2>3, Zenon
<1>4. TopTwo(stack', c, d, stack) /\ Nested(stack') /\ Known(stack', made)
  BY <1>1, <1>2, <1>3, PutsTwo, Zenon DEF HeadOnly, OfConnector
<1>5. /\ stack' \in Seq(Calls) /\ stack' # <<>> /\ Head(stack').f = "cb"
      /\ \A f : Has(stack', f) <=> f = "cb" \/ f = "OnRemoveConnection" \/ Has(stack, f)
      /\ \A j : \A f \in OfConnector : HasK(stack', f, j) <=> HasK(stack, f, j)
  BY <1>2, <1>3, <1>4, Zenon DEF TopTwo, OfConnector
<1>6. TypeOK'
  <2>1. reports' \subseteq {"connected", "failed", "lost"}
    BY <1>1, HandleCloseCalls, TellTypes, Zenon DEF IInv
  <2>2. closes' \in 0..MaxCloses
    BY ClientAssumption DEF IInv, TypeOK, ConnLost, CloseInCallback, CloseAgain, userVars
  <2>. QED BY <1>1, <1>5, <2>1, <2>2, Zenon DEF IInv, TypeOK
<1>7. StackInv' /\ HeadInv'
  BY <1>1, <1>4, <1>5, Zenon DEF StackInv, HeadInv, At
<1>8. ConnectorInv'
  <2>. SUFFICES ASSUME NEW j \in Connectors
                PROVE  ConnectorOK(j)'
    BY Zenon DEF ConnectorInv
  <2>1. InCancel(j)' <=> InCancel(j)
    BY <1>5, Zenon DEF InCancel, OfConnector
  <2>. QED BY <2>1, <1>1, <1>3, <1>5, ConnectorsKept, Zenon DEF OfConnector
<1>9. ClientInv'
  BY <1>1, <1>5, Zenon DEF IInv, ClientInv, Dropping
<1>10. QueueInv'
  BY <1>1, <1>5, QueueKept, Zenon
<1>11. AttemptInv'
  BY <1>1, <1>5, AttemptsKept, Zenon DEF OfConnector
<1>12. EffortInv'
  BY <1>5, Zenon DEF EffortInv
<1>. QED BY <1>6, <1>7, <1>8, <1>9, <1>10, <1>11, <1>12, Zenon DEF IInv

\* The stack that a Start, a Connect or a HandleError finds itself on.
LEMMA AtWork ==
  ASSUME IInv, stack # <<>>, Top.f \in {"Start", "Connect", "HandleError"}
  PROVE  LET t == Tail(stack)
             k == Top.k
         IN /\ Fits(t, made) /\ made \in Nat
            /\ k \in 1..made /\ k \in Connectors
            /\ Top.f \notin Waiting /\ Top.f # "crash" /\ ~OnReset(t)
            /\ \A f \in HeadOnly : ~Has(t, f)
            /\ \A f : Has(stack, f) <=> f = Top.f \/ Has(t, f)
            /\ \A j : \A f \in Waiting : HasK(stack, f, j) <=> HasK(t, f, j)
            /\ \A f \in Waiting : ~HasK(t, f, k)
            /\ ~At("ResetConnector") /\ \A j : j # k => ~InAttempt(j)
            /\ ConnectorOK(k) /\ ~InCancel(k) /\ Mine(k)
            /\ conn = "connected" /\ ~Has(t, "HandleWrite") =>
                 connector # 0 /\ status[connector] = "kConnected"
<1>1. /\ TopIs(stack, Top, Tail(stack)) /\ Fits(Tail(stack), made) /\ made \in Nat
      /\ Top.k \in 1..made /\ Top.k \in Connectors
      /\ (\A f \in HeadOnly : ~Has(Tail(stack), f)) /\ ~OnReset(Tail(stack))
  BY Running, Zenon DEF IInv, OfConnector
<1>2. /\ \A f : Has(stack, f) <=> f = Top.f \/ Has(Tail(stack), f)
      /\ \A j : \A f \in Waiting : HasK(stack, f, j) <=> HasK(Tail(stack), f, j)
      /\ Top.f \notin Waiting /\ Top.f # "crash"
  BY <1>1, Zenon DEF TopIs, Waiting
<1>3. /\ \A f \in Waiting : ~HasK(Tail(stack), f, Top.k)
      /\ Mine(Top.k)
  BY Zenon DEF IInv, StackInv, AttemptInv, Top
<1>4. ~At("ResetConnector") /\ \A j : j # Top.k => ~InAttempt(j)
  BY Zenon DEF At, InAttempt, Top
<1>5. ConnectorOK(Top.k) /\ ~InCancel(Top.k)
  BY <1>1, <1>2, <1>3, Zenon DEF IInv, ConnectorInv, InCancel, Waiting
<1>6. conn = "connected" /\ ~Has(Tail(stack), "HandleWrite") =>
        connector # 0 /\ status[connector] = "kConnected"
  BY <1>1, <1>2, Zenon DEF IInv, AttemptInv, HeadOnly, Waiting
<1>. QED BY <1>1, <1>2, <1>3, <1>4, <1>5, <1>6, Zenon

\* Start sets the timer and goes on to Connect.
LEMMA StartKeeps ==
  ASSUME IInv, Start
  PROVE  IInv'
<1>. DEFINE t == Tail(stack)
<1>1. stack # <<>> /\ Top.f = "Start"
  BY Zenon DEF Start, At, Top
<1>2. PICK k \in Connectors :
        /\ Top.k = k /\ k \in 1..made /\ Fits(t, made) /\ made \in Nat
        /\ (\A f \in HeadOnly : ~Has(t, f)) /\ ~OnReset(t)
        /\ \A f : Has(stack, f) <=> f = "Start" \/ Has(t, f)
        /\ \A j : \A f \in Waiting : HasK(stack, f, j) <=> HasK(t, f, j)
        /\ \A f \in Waiting : ~HasK(t, f, k)
        /\ ~At("ResetConnector") /\ \A j : j # k => ~InAttempt(j)
        /\ Mine(k) /\ Quiet(k) /\ ~restart[k]
        /\ conn = "connected" /\ ~Has(t, "HandleWrite") =>
             connector # 0 /\ status[connector] = "kConnected" /\ connector # k
  BY <1>1, AtWork, Zenon DEF IInv, HeadInv, At, Top, Quiet
<1>. DEFINE c == Call("Connect", k)
<1>3. c \in Calls /\ c.f = "Connect" /\ c.k = k /\ stack' = <<c>> \o t
  <2>1. c \in Calls /\ c.f = "Connect" /\ c.k = k
    BY CallTypes, Zenon DEF c, Plain
  <2>. QED BY <1>2, <2>1, Zenon DEF Start, GoesOn
<1>. HIDE DEF c
<1>4. TopIs(stack', c, t) /\ Nested(stack') /\ Known(stack', made)
  BY <1>2, <1>3, PutsOne, Zenon
<1>5. /\ UNCHANGED <<autoReconnect, connector, conn, made, status, chan, dns, resolved, restart,
                     queue, connects, disconnects, closes, reports, stray>>
      /\ timer' = [timer EXCEPT ![k] = TRUE]
  BY <1>2, Zenon DEF Start, clientVars, userVars
<1>. HIDE DEF t
<1>6. /\ stack' \in Seq(Calls) /\ stack' # <<>> /\ Head(stack') = c /\ Tail(stack') = t
      /\ \A f : Has(stack', f) <=> f = "Connect" \/ Has(t, f)
      /\ \A j : \A f \in Waiting : HasK(stack', f, j) <=> HasK(t, f, j)
  BY <1>3, <1>4, Zenon DEF TopIs, Waiting
<1>7. timer'[k] /\ \A j \in Connectors \ {k} : SameConnector(j)
  BY <1>5, Zenon DEF IInv, TypeOK, SameConnector
<1>8. TypeOK'
  BY <1>5, <1>6, Zenon DEF IInv, TypeOK
<1>9. StackInv'
  BY <1>2, <1>3, <1>4, <1>5, <1>6, Zenon DEF StackInv
<1>10. ConnectorInv'
  <2>. SUFFICES ASSUME NEW j \in Connectors
                PROVE  ConnectorOK(j)'
    BY Zenon DEF ConnectorInv
  <2>1. ConnectorOK(j) /\ (InCancel(j)' <=> InCancel(j))
    BY <1>2, <1>6, Zenon DEF IInv, ConnectorInv, InCancel, Waiting
  <2>2. CASE j = k
    <3>1. /\ InAttempt(k)' /\ ~dns'[k] /\ chan'[k] # "open" /\ status'[k] = "kDisconnected"
          /\ ~restart'[k] /\ ~(k > made')
      BY <1>2, <1>3, <1>5, <1>6 DEF InAttempt, Quiet
    <3>2. ~InCancel(k)' /\ ~HasK(stack', "Retry", k)
      BY <1>2, <1>6, Zenon DEF InCancel, Waiting
    <3>. QED BY <2>2, <3>1, <3>2, Zenon DEF ConnectorOK
  <2>3. CASE j # k
    BY <2>1, <2>3, <1>2, <1>5, <1>6, <1>7, OtherConnector, Zenon DEF Waiting, ConnectorOK
  <2>. QED BY <2>2, <2>3, Zenon
<1>11. HeadInv'
  BY <1>2, <1>3, <1>5, <1>6, <1>7, Zenon DEF HeadInv, At, Top, Quiet
<1>12. ClientInv' /\ QueueInv'
  <2>1. QueueInv'
    BY <1>2, <1>5, <1>6, QueueKept, Zenon
  <2>. QED BY <1>2, <1>5, <1>6, <2>1, Zenon DEF IInv, ClientInv, Dropping
<1>13. AttemptInv'
  <2>1. \A j \in Connectors : Busy(j)' => j = k \/ Busy(j)
    BY <1>7, Zenon DEF Busy, SameConnector
  <2>. QED BY <1>2, <1>3, <1>5, <1>6, <2>1, Zenon DEF IInv, AttemptInv, Mine, Waiting, HeadOnly
<1>14. EffortInv'
  <2>1. Busy(k)'
    BY <1>7, Zenon DEF Busy
  <2>. QED BY <1>2, <1>5, <1>6, <2>1, Zenon DEF IInv, EffortInv, Waiting
<1>. QED BY <1>8, <1>9, <1>10, <1>11, <1>12, <1>13, <1>14, Zenon DEF IInv

\* Start sets the timer and asks the resolver.
LEMMA StartResolvingKeeps ==
  ASSUME IInv, StartResolving
  PROVE  IInv'
<1>. DEFINE t == Tail(stack)
<1>1. stack # <<>> /\ Top.f = "Start" /\ stack' = t
  BY Zenon DEF StartResolving, At, Top, Returns
<1>2. PICK k \in Connectors :
        /\ Top.k = k /\ k \in 1..made /\ Fits(t, made) /\ made \in Nat
        /\ (\A f \in HeadOnly : ~Has(t, f)) /\ ~OnReset(t)
        /\ \A f : Has(stack, f) <=> f = "Start" \/ Has(t, f)
        /\ \A j : \A f \in Waiting : HasK(stack, f, j) <=> HasK(t, f, j)
        /\ \A f \in Waiting : ~HasK(t, f, k)
        /\ ~At("ResetConnector") /\ \A j : j # k => ~InAttempt(j)
        /\ Mine(k) /\ Quiet(k) /\ ~restart[k]
        /\ conn = "connected" /\ ~Has(t, "HandleWrite") =>
             connector # 0 /\ status[connector] = "kConnected" /\ connector # k
  BY <1>1, AtWork, Zenon DEF IInv, HeadInv, At, Top, Quiet
<1>3. /\ UNCHANGED <<autoReconnect, connector, conn, made, chan, resolved, restart,
                     queue, connects, disconnects, closes, reports, stray>>
      /\ timer' = [timer EXCEPT ![k] = TRUE]
      /\ status' = [status EXCEPT ![k] = "kDNSResolving"]
      /\ dns' = [dns EXCEPT ![k] = TRUE]
  BY <1>2, Zenon DEF StartResolving, clientVars, userVars
<1>. HIDE DEF t
<1>4. /\ stack' \in Seq(Calls) /\ Nested(stack') /\ Known(stack', made)
      /\ stack' # <<>> => Head(stack').f \notin HeadOnly
  BY <1>1, <1>2, Zenon DEF Fits, Calm
<1>5. /\ timer'[k] /\ dns'[k] /\ status'[k] = "kDNSResolving"
      /\ \A j \in Connectors \ {k} : SameConnector(j)
  BY <1>3, Zenon DEF IInv, TypeOK, SameConnector
<1>6. TypeOK'
  BY <1>3, <1>4, Zenon DEF IInv, TypeOK, Statuses
<1>7. StackInv' /\ ClientInv'
  BY <1>1, <1>2, <1>3, <1>4, Zenon DEF IInv, StackInv, HeadOnly, ClientInv, Dropping
<1>8. ConnectorInv'
  <2>. SUFFICES ASSUME NEW j \in Connectors
                PROVE  ConnectorOK(j)'
    BY Zenon DEF ConnectorInv
  <2>1. ConnectorOK(j) /\ (InCancel(j)' <=> InCancel(j))
    BY <1>1, <1>2, Zenon DEF IInv, ConnectorInv, InCancel, Waiting
  <2>2. CASE j = k
    <3>1. chan'[k] # "open" /\ ~restart'[k] /\ ~(k > made')
      BY <1>2, <1>3 DEF Quiet
    <3>2. /\ ~InCancel(k)'
          /\ ~HasK(stack', "HandleWrite", k) /\ ~HasK(stack', "Retry", k)
      BY <1>1, <1>2, Zenon DEF InCancel, Waiting
    <3>. QED BY <2>2, <3>1, <3>2, <1>5, Zenon DEF ConnectorOK
  <2>3. CASE j # k
    BY <2>1, <2>3, <1>1, <1>2, <1>3, <1>5, OtherConnector, Zenon DEF Waiting, ConnectorOK
  <2>. QED BY <2>2, <2>3, Zenon
<1>9. HeadInv'
  BY <1>1, <1>2, <1>4, Zenon DEF HeadInv, At, HeadOnly, OnReset
<1>10. QueueInv'
  BY <1>1, <1>2, <1>3, QueueKept, Zenon
<1>11. AttemptInv'
  <2>1. \A j \in Connectors : Busy(j)' => j = k \/ Busy(j)
    BY <1>5, Zenon DEF Busy, SameConnector
  <2>2. connector # 0 /\ connector # k => status'[connector] = status[connector]
    <3>1. connector # 0 => connector \in Connectors
      BY ClientAssumption DEF IInv, TypeOK, Connectors
    <3>. QED BY <3>1, <1>5, Zenon DEF SameConnector
  <2>. QED BY <1>1, <1>2, <1>3, <1>4, <2>1, <2>2, Zenon DEF IInv, AttemptInv, Mine, Waiting, HeadOnly
<1>12. EffortInv'
  <2>1. Busy(k)'
    BY <1>5, Zenon DEF Busy
  <2>. QED BY <1>1, <1>2, <1>3, <2>1, Zenon DEF IInv, EffortInv, Waiting
<1>. QED BY <1>6, <1>7, <1>8, <1>9, <1>10, <1>11, <1>12, Zenon DEF IInv

\* Connect fails at once.
LEMMA ConnectFailsKeeps ==
  ASSUME IInv, ConnectFails
  PROVE  IInv'
<1>. DEFINE t == Tail(stack)
<1>1. stack # <<>> /\ Top.f = "Connect"
  BY Zenon DEF ConnectFails, At, Top
<1>2. PICK k \in Connectors :
        /\ Top.k = k /\ k \in 1..made /\ Fits(t, made) /\ made \in Nat
        /\ (\A f \in HeadOnly : ~Has(t, f)) /\ ~OnReset(t)
        /\ \A f : Has(stack, f) <=> f = "Connect" \/ Has(t, f)
        /\ \A j : \A f \in Waiting : HasK(stack, f, j) <=> HasK(t, f, j)
        /\ \A f \in Waiting : ~HasK(t, f, k)
        /\ ~At("ResetConnector") /\ \A j : j # k => ~InAttempt(j)
        /\ Mine(k) /\ status[k] # "kConnected"
  BY <1>1, AtWork, Zenon DEF IInv, HeadInv, At, Top
<1>3. PICK c \in Calls : c.f = "HandleError" /\ c.k = k /\ stack' = <<c>> \o t
  <2>1. ASSUME NEW r \in BOOLEAN
        PROVE  Fail(k, r) \in Calls /\ Fail(k, r).f = "HandleError" /\ Fail(k, r).k = k
    BY Zenon DEF Fail, Calls
  <2>. QED BY <1>2, <2>1, Zenon DEF ConnectFails, GoesOn
<1>. HIDE DEF t
<1>4. TopIs(stack', c, t) /\ Nested(stack') /\ Known(stack', made)
  <2>1. /\ c.f # "HandleWrite" /\ c.f # "cb" /\ c.k \in 1..made
        /\ c.f \in {"Cancel", "Cancelled"} <=> OnReset(t)
    BY <1>2, <1>3, Zenon
  <2>. QED BY <1>2, <1>3, <2>1, PutsOne, Zenon
<1>5. UNCHANGED <<autoReconnect, connector, conn, made, status, timer, chan, dns, resolved, restart,
                  queue, connects, disconnects, closes, reports, stray>>
  BY Zenon DEF ConnectFails, clientVars, connectorVars, userVars
<1>6. /\ stack' \in Seq(Calls) /\ stack' # <<>> /\ Head(stack') = c /\ Tail(stack') = t
      /\ \A f : Has(stack', f) <=> f = "HandleError" \/ Has(t, f)
      /\ \A j : \A f \in Waiting : HasK(stack', f, j) <=> HasK(t, f, j)
  BY <1>3, <1>4, Zenon DEF TopIs, Waiting
<1>7. TypeOK'
  BY <1>5, <1>6, Zenon DEF IInv, TypeOK
<1>8. StackInv'
  <2>1. \A f \in Waiting : ~HasK(Tail(stack'), f, Head(stack').k)
    <3>1. Tail(stack') = t /\ Head(stack').k = k
      BY <1>3, <1>6, Zenon
    <3>2. \A f \in Waiting : ~HasK(t, f, k)
      BY <1>2, Zenon
    <3>. QED BY <3>1, <3>2, Zenon
  <2>. QED BY <2>1, <1>4, <1>5, Zenon DEF StackInv
<1>9. ConnectorInv'
  <2>. SUFFICES ASSUME NEW j \in Connectors
                PROVE  ConnectorOK(j)'
    BY Zenon DEF ConnectorInv
  <2>1. InCancel(j)' <=> InCancel(j)
    BY <1>2, <1>6, Zenon DEF InCancel, Waiting
  <2>2. InAttempt(j) => InAttempt(j)'
    BY <1>2, <1>3, <1>6, Zenon DEF InAttempt
  <2>. QED BY <2>1, <2>2, <1>2, <1>5, <1>6, ConnectorsKept, Zenon DEF Waiting
<1>10. HeadInv'
  BY <1>2, <1>3, <1>5, <1>6, Zenon DEF HeadInv, At, Top
<1>11. ClientInv'
  BY <1>2, <1>5, <1>6, Zenon DEF IInv, ClientInv, Dropping
<1>12. QueueInv'
  BY <1>2, <1>5, <1>6, QueueKept, Zenon
<1>13. AttemptInv'
  BY <1>2, <1>3, <1>5, <1>6, AttemptsKept, Zenon DEF Waiting
<1>14. EffortInv'
  BY <1>2, <1>5, <1>6, EffortKept, Zenon DEF Waiting
<1>. QED BY <1>7, <1>8, <1>9, <1>10, <1>11, <1>12, <1>13, <1>14, Zenon DEF IInv

\* Connect opens the channel.
LEMMA ConnectingKeeps ==
  ASSUME IInv, Connecting
  PROVE  IInv'
<1>. DEFINE t == Tail(stack)
<1>1. stack # <<>> /\ Top.f = "Connect" /\ stack' = t
  BY Zenon DEF Connecting, At, Top, Returns
<1>2. PICK k \in Connectors :
        /\ Top.k = k /\ k \in 1..made /\ Fits(t, made) /\ made \in Nat
        /\ (\A f \in HeadOnly : ~Has(t, f)) /\ ~OnReset(t)
        /\ \A f : Has(stack, f) <=> f = "Connect" \/ Has(t, f)
        /\ \A j : \A f \in Waiting : HasK(stack, f, j) <=> HasK(t, f, j)
        /\ \A f \in Waiting : ~HasK(t, f, k)
        /\ ~At("ResetConnector") /\ \A j : j # k => ~InAttempt(j)
        /\ Mine(k)
        /\ conn = "connected" /\ ~Has(t, "HandleWrite") =>
             connector # 0 /\ status[connector] = "kConnected"
        /\ restart[k] => Quiet(k)
  BY <1>1, AtWork, Zenon DEF ConnectorOK
<1>13. /\ status[k] # "kConnected" /\ timer[k] /\ ~dns[k] /\ ~restart[k]
       /\ conn = "connected" /\ ~Has(t, "HandleWrite") => connector # k
  BY <1>1, <1>2, Zenon DEF IInv, HeadInv, At, Top, Quiet
<1>3. /\ UNCHANGED <<autoReconnect, connector, conn, made, timer, dns, resolved, restart,
                     queue, connects, disconnects, closes, reports, stray>>
      /\ status' = [status EXCEPT ![k] = "kConnecting"]
      /\ chan' = [chan EXCEPT ![k] = "open"]
  BY <1>2, Zenon DEF Connecting, clientVars, userVars
<1>. HIDE DEF t
<1>4. /\ stack' \in Seq(Calls) /\ Nested(stack') /\ Known(stack', made)
      /\ stack' # <<>> => Head(stack').f \notin HeadOnly
  BY <1>1, <1>2, Zenon DEF Fits, Calm
<1>5. /\ timer'[k] /\ chan'[k] = "open" /\ status'[k] = "kConnecting"
      /\ \A j \in Connectors \ {k} : SameConnector(j)
  BY <1>3, <1>13, Zenon DEF IInv, TypeOK, SameConnector
<1>6. TypeOK'
  BY <1>3, <1>4, Zenon DEF IInv, TypeOK, Statuses
<1>7. StackInv' /\ ClientInv'
  BY <1>1, <1>2, <1>3, <1>4, Zenon DEF IInv, StackInv, HeadOnly, ClientInv, Dropping
<1>8. ConnectorInv'
  <2>. SUFFICES ASSUME NEW j \in Connectors
                PROVE  ConnectorOK(j)'
    BY Zenon DEF ConnectorInv
  <2>1. ConnectorOK(j) /\ (InCancel(j)' <=> InCancel(j))
    BY <1>1, <1>2, Zenon DEF IInv, ConnectorInv, InCancel, Waiting
  <2>2. CASE j = k
    BY <2>1, <2>2, <1>1, <1>2, <1>3, <1>5, <1>13, Zenon DEF ConnectorOK, InCancel, Quiet, Waiting
  <2>3. CASE j # k
    BY <2>1, <2>3, <1>1, <1>2, <1>3, <1>5, OtherConnector, Zenon DEF Waiting, ConnectorOK
  <2>. QED BY <2>2, <2>3, Zenon
<1>9. HeadInv'
  BY <1>1, <1>2, <1>4, Zenon DEF HeadInv, At, HeadOnly, OnReset
<1>10. QueueInv'
  BY <1>1, <1>2, <1>3, QueueKept, Zenon
<1>11. AttemptInv'
  <2>1. \A j \in Connectors : Busy(j)' => j = k \/ Busy(j)
    BY <1>5, Zenon DEF Busy, SameConnector
  <2>2. connector # 0 /\ connector # k => status'[connector] = status[connector]
    <3>1. connector # 0 => connector \in Connectors
      BY ClientAssumption DEF IInv, TypeOK, Connectors
    <3>. QED BY <3>1, <1>5, Zenon DEF SameConnector
  <2>3. conn' = "connected" /\ ~Has(stack', "HandleWrite") =>
          connector' # 0 /\ status'[connector'] = "kConnected"
    BY <2>2, <1>1, <1>2, <1>3, <1>13, Zenon
  <2>4. \A j \in Connectors :
          Busy(j)' => Mine(j)' \/ HasK(stack', "HandleWrite", j) \/ Has(stack', "crash")
    BY <2>1, <1>1, <1>2, <1>3, Zenon DEF IInv, AttemptInv, Mine, Waiting, HeadOnly
  <2>. QED BY <2>3, <2>4, <1>4, Zenon DEF AttemptInv, HeadOnly
<1>12. EffortInv'
  <2>1. Busy(k)'
    BY <1>5, Zenon DEF Busy
  <2>. QED BY <1>1, <1>2, <1>3, <2>1, Zenon DEF IInv, EffortInv, Waiting
<1>. QED BY <1>6, <1>7, <1>8, <1>9, <1>10, <1>11, <1>12, Zenon DEF IInv

\* What the call at the head finds below it.
LEMMA Finds ==
  ASSUME IInv, stack # <<>>
  PROVE  LET t == Tail(stack)
         IN /\ Fits(t, made) /\ made \in Nat
            /\ (\A f \in HeadOnly : ~Has(t, f)) /\ (t # <<>> => Head(t).f \notin HeadOnly)
            /\ OnReset(t) <=> Top.f \in {"Cancel", "Cancelled"}
            /\ \A f : Has(stack, f) <=> f = Top.f \/ Has(t, f)
            /\ \A j : \A f \in OfConnector :
                 HasK(stack, f, j) <=> (f = Top.f /\ j = Top.k) \/ HasK(t, f, j)
            /\ Top.f \in OfConnector => Top.k \in 1..made /\ Top.k \in Connectors
            /\ Top.f = "HandleWrite" => t = <<>>
            /\ t \in Seq(Calls) /\ Nested(t) /\ Known(t, made)
<1>1. /\ TopIs(stack, Top, Tail(stack)) /\ Fits(Tail(stack), made) /\ made \in Nat
      /\ \A f \in HeadOnly : ~Has(Tail(stack), f)
      /\ OnReset(Tail(stack)) <=> Top.f \in {"Cancel", "Cancelled"}
      /\ Top.f \in OfConnector => Top.k \in 1..made /\ Top.k \in Connectors
      /\ Top.f = "HandleWrite" => Tail(stack) = <<>>
  BY Running, Zenon DEF IInv
<1>. QED BY <1>1, Zenon DEF TopIs, Fits, Calm

\* The user returns from a callback.
LEMMA CallbackReturnsKeeps ==
  ASSUME IInv, CallbackReturns
  PROVE  IInv'
<1>. DEFINE t == Tail(stack)
<1>1. stack # <<>> /\ Top.f = "cb" /\ stack' = t
  BY Zenon DEF CallbackReturns, At, Top, Returns
<1>2. /\ (\A f \in HeadOnly : ~Has(t, f)) /\ (t # <<>> => Head(t).f \notin HeadOnly)
      /\ ~OnReset(t)
      /\ \A f : f # "cb" => (Has(stack, f) <=> Has(t, f))
      /\ \A j : \A f \in OfConnector : HasK(stack, f, j) <=> HasK(t, f, j)
      /\ t \in Seq(Calls) /\ Nested(t) /\ Known(t, made)
  BY <1>1, Finds, Zenon DEF OfConnector
<1>3. UNCHANGED <<autoReconnect, connector, conn, made, status, timer, chan, dns, resolved, restart,
                  queue, connects, disconnects, closes, reports, stray>>
  BY Zenon DEF CallbackReturns, clientVars, connectorVars, userVars
<1>4. ~At("ResetConnector") /\ \A j : ~InAttempt(j)
  BY <1>1, Zenon DEF At, InAttempt, Top
<1>. HIDE DEF t
<1>5. TypeOK' /\ StackInv' /\ HeadInv'
  BY <1>1, <1>2, <1>3, Zenon DEF IInv, TypeOK, StackInv, HeadInv, At, OnReset, HeadOnly
<1>6. ConnectorInv'
  <2>. SUFFICES ASSUME NEW j \in Connectors
                PROVE  ConnectorOK(j)'
    BY Zenon DEF ConnectorInv
  <2>1. InCancel(j)' <=> InCancel(j)
    BY <1>1, <1>2, Zenon DEF InCancel, OfConnector
  <2>. QED BY <2>1, <1>1, <1>2, <1>3, <1>4, ConnectorsKept, Zenon DEF OfConnector
<1>7. ClientInv'
  BY <1>1, <1>2, <1>3, Zenon DEF IInv, ClientInv, Dropping
<1>8. QueueInv'
  BY <1>1, <1>2, <1>3, QueueKept, Zenon
<1>9. AttemptInv'
  BY <1>1, <1>2, <1>3, AttemptsKept, Zenon DEF OfConnector, HeadOnly
<1>10. EffortInv'
  BY <1>1, <1>2, <1>3, EffortKept, Zenon DEF OfConnector
<1>. QED BY <1>5, <1>6, <1>7, <1>8, <1>9, <1>10, Zenon DEF IInv

\* The rest of HandleError asks for another Start.
LEMMA RetryKeeps ==
  ASSUME IInv, Retry
  PROVE  IInv'
<1>. DEFINE t == Tail(stack)
<1>1. stack # <<>> /\ Top.f = "Retry" /\ stack' = t
  BY Zenon DEF Retry, At, Top, Returns
<1>2. PICK k \in Connectors :
      /\ Top.k = k /\ k \in 1..made
      /\ (\A f \in HeadOnly : ~Has(t, f)) /\ (t # <<>> => Head(t).f \notin HeadOnly)
      /\ ~OnReset(t)
      /\ \A f : Has(stack, f) <=> f = "Retry" \/ Has(t, f)
      /\ \A j : \A f \in OfConnector :
           HasK(stack, f, j) <=> (f = "Retry" /\ j = k) \/ HasK(t, f, j)
      /\ t \in Seq(Calls) /\ Nested(t) /\ Known(t, made) /\ made \in Nat
  BY <1>1, Finds, Zenon DEF OfConnector
<1>3. /\ UNCHANGED <<autoReconnect, connector, conn, made, status, timer, chan, dns, resolved,
                     queue, connects, disconnects, closes, reports>>
      /\ restart' = [restart EXCEPT ![k] = @ \/ autoReconnect]
      /\ stray' = stray \cup {j \in {k} : j # connector /\ restart'[j]}
  BY <1>2, Zenon DEF Retry, clientVars, userVars
<1>4. ~At("ResetConnector") /\ \A j : ~InAttempt(j)
  BY <1>1, Zenon DEF At, InAttempt, Top
<1>. HIDE DEF t
<1>5. /\ restart' \in [Connectors -> BOOLEAN] /\ (restart'[k] <=> restart[k] \/ autoReconnect)
      /\ \A j \in Connectors \ {k} : SameConnector(j)
  <2>1. restart \in [Connectors -> BOOLEAN] /\ autoReconnect \in BOOLEAN
    BY Zenon DEF IInv, TypeOK
  <2>2. restart' = [j \in Connectors |-> IF j = k THEN restart[k] \/ autoReconnect ELSE restart[j]]
    BY <2>1, <1>3, Zenon
  <2>3. restart' \in [Connectors -> BOOLEAN] /\ (restart'[k] <=> (restart[k] \/ autoReconnect))
    BY <2>1, <2>2, Zenon
  <2>4. \A j \in Connectors \ {k} : restart'[j] = restart[j]
    BY <2>2, Zenon
  <2>. QED BY <2>3, <2>4, <1>3, Zenon DEF SameConnector
<1>6. TypeOK' /\ StackInv' /\ HeadInv'
  BY <1>1, <1>2, <1>3, <1>5, Zenon DEF IInv, TypeOK, StackInv, HeadInv, At, OnReset, HeadOnly
<1>7. HasK(stack, "Retry", k) /\ ConnectorOK(k) /\ Quiet(k)
  BY <1>2, Zenon DEF IInv, ConnectorInv, ConnectorOK, OfConnector
<1>8. ConnectorInv'
  <2>. SUFFICES ASSUME NEW j \in Connectors
                PROVE  ConnectorOK(j)'
    BY Zenon DEF ConnectorInv
  <2>1. ConnectorOK(j) /\ (InCancel(j)' <=> InCancel(j))
    BY <1>1, <1>2, Zenon DEF IInv, ConnectorInv, InCancel, OfConnector
  <2>2. CASE j = k
    <3>1. /\ Quiet(k)' /\ ~dns'[k] /\ ~timer'[k]
          /\ chan'[k] # "open" /\ status'[k] = "kDisconnected"
      BY <1>3, <1>7, Zenon DEF Quiet
    <3>2. InCancel(k)' => connector' \in {0, k}
      BY <2>1, <2>2, <1>3, Zenon DEF ConnectorOK
    <3>3. ~(k > made')
      BY <1>2, <1>3
    <3>. QED BY <2>2, <3>1, <3>2, <3>3, Zenon DEF ConnectorOK
  <2>3. CASE j # k
    BY <2>1, <2>3, <1>1, <1>2, <1>3, <1>4, <1>5, OtherConnector, Zenon DEF OfConnector, ConnectorOK
  <2>. QED BY <2>2, <2>3, Zenon
<1>9. ClientInv'
  BY <1>1, <1>2, <1>3, Zenon DEF IInv, ClientInv, Dropping
<1>10. QueueInv'
  BY <1>1, <1>2, <1>3, QueueKept, Zenon
<1>11. AttemptInv'
  <2>1. \A j \in Connectors : Busy(j)' => Busy(j) \/ (j = k /\ autoReconnect)
    BY <1>3, <1>5, Zenon DEF Busy, SameConnector
  <2>2. autoReconnect => Mine(k)'
    BY <1>3, <1>5, Zenon DEF Mine
  <2>3. \A j : Mine(j) => Mine(j)'
    BY <1>3, Zenon DEF Mine
  <2>. QED BY <2>1, <2>2, <2>3, <1>1, <1>2, <1>3, Zenon
           DEF IInv, AttemptInv, OfConnector, HeadOnly
<1>12. EffortInv'
  <2>1. autoReconnect => Busy(k)'
    BY <1>5, Zenon DEF Busy
  <2>. QED BY <2>1, <1>1, <1>2, <1>3, Zenon DEF IInv, EffortInv, OfConnector
<1>. QED BY <1>6, <1>8, <1>9, <1>10, <1>11, <1>12, Zenon DEF IInv

\* The rest of Cancel closes the channel; connector_ is reset next.
LEMMA CancelledKeeps ==
  ASSUME IInv, Cancelled
  PROVE  IInv'
<1>. DEFINE t == Tail(stack)
<1>1. stack # <<>> /\ Top.f = "Cancelled" /\ stack' = t
  BY Zenon DEF Cancelled, At, Top, Returns
<1>2. PICK k \in Connectors :
      /\ Top.k = k /\ k \in 1..made
      /\ (\A f \in HeadOnly : ~Has(t, f)) /\ (t # <<>> => Head(t).f \notin HeadOnly)
      /\ OnReset(t)
      /\ \A f : Has(stack, f) <=> f = "Cancelled" \/ Has(t, f)
      /\ \A j : \A f \in OfConnector :
           HasK(stack, f, j) <=> (f = "Cancelled" /\ j = k) \/ HasK(t, f, j)
      /\ t \in Seq(Calls) /\ Nested(t) /\ Known(t, made) /\ made \in Nat
  BY <1>1, Finds, Zenon DEF OfConnector
<1>3. /\ UNCHANGED <<autoReconnect, connector, conn, made, status, timer, dns, resolved, restart,
                     queue, connects, disconnects, closes, reports, stray>>
      /\ chan' = [chan EXCEPT ![k] = Shut(k)]
  BY <1>2, Zenon DEF Cancelled, clientVars, userVars
<1>4. ~At("ResetConnector") /\ \A j : ~InAttempt(j)
  BY <1>1, Zenon DEF At, InAttempt, Top
<1>. HIDE DEF t
<1>5. /\ chan' \in [Connectors -> {"none", "open", "closed"}] /\ chan'[k] # "open"
      /\ \A j \in Connectors \ {k} : SameConnector(j)
  BY <1>3, Zenon DEF IInv, TypeOK, Shut, SameConnector
<1>6. InCancel(k) /\ ConnectorOK(k) /\ ~autoReconnect /\ conn # "connected"
        /\ ~dns[k] /\ ~timer[k] /\ connector \in {0, k}
  BY <1>2, Zenon DEF IInv, ConnectorInv, ConnectorOK, InCancel, OfConnector, ClientInv, Dropping
<1>7. TypeOK'
  BY <1>1, <1>2, <1>3, <1>5, Zenon DEF IInv, TypeOK
<1>8. StackInv' /\ HeadInv'
  BY <1>1, <1>2, <1>3, <1>5, <1>6, Zenon DEF StackInv, HeadInv, At, HeadOnly
<1>9. ConnectorInv'
  <2>. SUFFICES ASSUME NEW j \in Connectors
                PROVE  ConnectorOK(j)'
    BY Zenon DEF ConnectorInv
  <2>1. At("ResetConnector")'
    BY <1>1, <1>2, Zenon DEF At, OnReset
  <2>2. CASE j = k
    BY <2>1, <2>2, <1>1, <1>2, <1>3, <1>5, <1>6, Zenon DEF ConnectorOK, Quiet, InCancel, OfConnector
  <2>3. CASE j # k
    <3>1. ConnectorOK(j) /\ (InCancel(j)' <=> InCancel(j))
      BY <1>1, <1>2, <2>3, Zenon DEF IInv, ConnectorInv, InCancel, OfConnector
    <3>. QED BY <2>3, <3>1, <1>1, <1>2, <1>3, <1>4, <1>5, OtherConnector, Zenon
             DEF OfConnector, ConnectorOK
  <2>. QED BY <2>2, <2>3, Zenon
<1>10. ClientInv'
  BY <1>1, <1>2, <1>3, <1>6, Zenon DEF IInv, ClientInv, Dropping
<1>11. QueueInv'
  BY <1>1, <1>2, <1>3, QueueKept, Zenon
<1>12. AttemptInv'
  <2>1. \A j \in Connectors : Busy(j)' => Busy(j)
    BY <1>3, <1>5, Zenon DEF Busy, SameConnector
  <2>. QED BY <2>1, <1>1, <1>2, <1>3, <1>6, Zenon DEF IInv, AttemptInv, Mine, OfConnector, HeadOnly
<1>13. EffortInv'
  BY <1>3, <1>6, Zenon DEF EffortInv
<1>. QED BY <1>7, <1>8, <1>9, <1>10, <1>11, <1>12, <1>13, Zenon DEF IInv

\* connector_ is reset.
LEMMA ResetConnectorKeeps ==
  ASSUME IInv, ResetConnector
  PROVE  IInv'
<1>. DEFINE t == Tail(stack)
<1>1. stack # <<>> /\ Top.f = "ResetConnector" /\ stack' = t
  BY Zenon DEF ResetConnector, At, Top, Returns
<1>2. /\ (\A f \in HeadOnly : ~Has(t, f)) /\ (t # <<>> => Head(t).f \notin HeadOnly)
      /\ ~OnReset(t)
      /\ \A f : Has(stack, f) <=> f = "ResetConnector" \/ Has(t, f)
      /\ \A j : \A f \in OfConnector : HasK(stack, f, j) <=> HasK(t, f, j)
      /\ t \in Seq(Calls) /\ Nested(t) /\ Known(t, made)
  BY <1>1, Finds, Zenon DEF OfConnector
<1>3. /\ UNCHANGED <<autoReconnect, conn, made, status, timer, chan, dns, resolved, restart,
                     queue, connects, disconnects, closes, reports>>
      /\ connector' = 0
      /\ stray' = stray \cup {k \in {connector} : k # 0 /\ Busy(k)}
  BY Zenon DEF ResetConnector, Drops, connectorVars, userVars
<1>4. \A j : ~InAttempt(j)
  BY <1>1, Zenon DEF InAttempt, Top
<1>. HIDE DEF t
<1>5. ~autoReconnect /\ conn # "connected"
  BY <1>2, Zenon DEF IInv, ClientInv, Dropping
<1>6. connector # 0 => ~timer[connector] /\ ~dns[connector] /\ chan[connector] # "open"
  BY <1>1, Zenon DEF IInv, HeadInv, At, Top
<1>7. connector # 0 => connector \in Connectors
  BY ClientAssumption DEF IInv, TypeOK, Connectors
<1>8. TypeOK'
  <2>1. stray' \subseteq Connectors /\ connector' \in 0..made'
    BY <1>3, <1>7 DEF IInv, TypeOK
  <2>. QED BY <2>1, <1>1, <1>2, <1>3, Zenon DEF IInv, TypeOK
<1>9. StackInv' /\ HeadInv'
  BY <1>1, <1>2, <1>3, Zenon DEF StackInv, HeadInv, At, HeadOnly
<1>10. ConnectorInv'
  <2>. SUFFICES ASSUME NEW j \in Connectors
                PROVE  ConnectorOK(j)'
    BY Zenon DEF ConnectorInv
  <2>1. ConnectorOK(j) /\ (InCancel(j)' <=> InCancel(j)) /\ SameConnector(j) /\ j # 0
    BY <1>1, <1>2, <1>3, SMTT(30)
       DEF IInv, ConnectorInv, InCancel, OfConnector, SameConnector, Connectors
  <2>. QED BY <2>1, <1>1, <1>2, <1>3, <1>4, OtherConnector, Zenon DEF OfConnector
<1>11. ClientInv'
  BY <1>1, <1>2, <1>3, <1>5, Zenon DEF IInv, ClientInv, Dropping
<1>12. QueueInv'
  BY <1>3, QueueKept, Zenon
<1>13. AttemptInv'
  <2>1. \A j \in Connectors : Busy(j)' /\ j = connector => j \in stray'
    BY <1>3, <1>6, <1>7 DEF Busy, Connectors
  <2>2. \A j : Busy(j)' <=> Busy(j)
    BY <1>3, Zenon DEF Busy
  <2>3. stray \subseteq stray'
    BY <1>3, Zenon
  <2>. QED BY <2>1, <2>2, <2>3, <1>1, <1>2, <1>3, <1>5, Zenon
           DEF IInv, AttemptInv, Mine, OfConnector, HeadOnly
<1>14. EffortInv'
  BY <1>3, <1>5, Zenon DEF EffortInv
<1>. QED BY <1>8, <1>9, <1>10, <1>11, <1>12, <1>13, <1>14, Zenon DEF IInv

\* The user disconnects in a callback.
LEMMA DisconnectInCallbackKeeps ==
  ASSUME IInv, DisconnectInCallback
  PROVE  IInv'
<1>1. stack # <<>> /\ Top.f = "cb"
  BY Zenon DEF DisconnectInCallback, At, Top
<1>. DEFINE c == Call("DisconnectInLoop", 0)
<1>2. c \in Calls /\ c.f = "DisconnectInLoop" /\ stack' = <<c>> \o stack
  BY CallTypes DEF c, Plain, DisconnectInCallback, Enters
<1>. HIDE DEF c
<1>3. Fits(stack, made) /\ ~OnReset(stack) /\ made \in Nat
  BY <1>1 DEF IInv, TypeOK, StackInv, Fits, Calm, OnReset, Top, HeadOnly
<1>4. TopIs(stack', c, stack) /\ Nested(stack') /\ Known(stack', made)
  BY <1>2, <1>3, PutsOne, Zenon DEF OfConnector
<1>5. /\ UNCHANGED <<autoReconnect, connector, conn, made, status, timer, chan, dns, resolved,
                     restart, queue, connects, closes, reports, stray>>
      /\ disconnects' \in 0..MaxDisconnects
  BY ClientAssumption, SMTT(30) DEF DisconnectInCallback, clientVars, connectorVars, IInv, TypeOK
<1>6. /\ stack' \in Seq(Calls) /\ stack' # <<>> /\ Head(stack').f = "DisconnectInLoop"
      /\ \A f : Has(stack', f) <=> f = "DisconnectInLoop" \/ Has(stack, f)
      /\ \A j : \A f \in OfConnector : HasK(stack', f, j) <=> HasK(stack, f, j)
  BY <1>2, <1>4, Zenon DEF TopIs, OfConnector
<1>7. ~At("ResetConnector") /\ \A j : ~InAttempt(j)
  BY <1>1, Zenon DEF At, InAttempt, Top
<1>8. TypeOK' /\ StackInv' /\ HeadInv'
  BY <1>4, <1>5, <1>6, Zenon DEF IInv, TypeOK, StackInv, HeadInv, At
<1>9. ConnectorInv'
  <2>. SUFFICES ASSUME NEW j \in Connectors
                PROVE  ConnectorOK(j)'
    BY Zenon DEF ConnectorInv
  <2>1. InCancel(j)' <=> InCancel(j)
    BY <1>6, Zenon DEF InCancel, OfConnector
  <2>. QED BY <2>1, <1>5, <1>6, <1>7, ConnectorsKept, Zenon DEF OfConnector
<1>10. ClientInv'
  BY <1>5, <1>6, Zenon DEF IInv, ClientInv, Dropping
<1>11. QueueInv'
  BY <1>5, <1>6, QueueKept, Zenon
<1>12. AttemptInv'
  BY <1>5, <1>6, AttemptsKept, Zenon DEF OfConnector
<1>13. EffortInv'
  BY <1>5, <1>6, EffortKept, Zenon DEF OfConnector
<1>. QED BY <1>8, <1>9, <1>10, <1>11, <1>12, <1>13, Zenon DEF IInv

\* The rest of HandleWrite: the attempt is over, or the program ends.
LEMMA HandleWriteRestKeeps ==
  ASSUME IInv, HandleWriteRest
  PROVE  IInv'
<1>1. stack # <<>> /\ Top.f = "HandleWrite"
  BY Zenon DEF HandleWriteRest, At, Top
<1>2. PICK k \in Connectors :
        /\ Top.k = k /\ k \in 1..made /\ Tail(stack) = <<>> /\ made \in Nat
        /\ \A f : Has(stack, f) <=> f = "HandleWrite"
        /\ \A j : \A f \in OfConnector : HasK(stack, f, j) <=> f = "HandleWrite" /\ j = k
  <2>. DEFINE t == Tail(stack)
  <2>1. /\ t = <<>> /\ made \in Nat /\ Top.k \in 1..made /\ Top.k \in Connectors
        /\ \A f : Has(stack, f) <=> f = "HandleWrite" \/ Has(t, f)
        /\ \A j : \A f \in OfConnector :
             HasK(stack, f, j) <=> (f = "HandleWrite" /\ j = Top.k) \/ HasK(t, f, j)
    BY <1>1, Finds, Zenon DEF OfConnector
  <2>. HIDE DEF t
  <2>2. (\A f : ~Has(t, f)) /\ (\A f, j : ~HasK(t, f, j))
    BY <2>1, EmptyStack, Zenon
  <2>. QED BY <2>1, <2>2, Zenon DEF t
<1>3. ~At("ResetConnector") /\ \A j : ~InAttempt(j) /\ ~InCancel(j)
  BY <1>1, <1>2, Zenon DEF At, InAttempt, InCancel, Top, OfConnector
<1>4. UNCHANGED <<autoReconnect, connector, conn, made, dns, resolved, restart,
                  queue, connects, disconnects, closes, reports, stray>>
  BY Zenon DEF HandleWriteRest, clientVars, userVars
<1>5. ConnectorOK(k) /\ ~dns[k]
  BY <1>2, Zenon DEF IInv, ConnectorInv, ConnectorOK, OfConnector
<1>6. conn # "disconnecting"
  BY <1>2, Zenon DEF IInv, ClientInv
<1>7. CASE timer[k] /\ connector = k
  <2>1. /\ timer' = [timer EXCEPT ![k] = FALSE]
        /\ chan' = [chan EXCEPT ![k] = "closed"]
        /\ status' = [status EXCEPT ![k] = "kConnected"]
        /\ stack' = <<>>
    BY <1>2, <1>7, Zenon DEF HandleWriteRest, Returns
  <2>2. /\ ~timer'[k] /\ chan'[k] = "closed" /\ status'[k] = "kConnected"
        /\ \A j \in Connectors \ {k} : SameConnector(j)
    BY <1>4, <2>1, Zenon DEF IInv, TypeOK, SameConnector
  <2>3. (\A f : ~Has(stack', f)) /\ (\A f, j : ~HasK(stack', f, j)) /\ stack' \in Seq(Calls)
          /\ Nested(stack') /\ Known(stack', made)
    BY <2>1, EmptyStack, Zenon
  <2>4. TypeOK'
    BY <1>4, <2>1, <2>3, Zenon DEF IInv, TypeOK, Statuses
  <2>5. StackInv' /\ HeadInv'
    BY <1>4, <2>1, <2>3, Zenon DEF StackInv, HeadInv, At
  <2>6. ConnectorInv'
    <3>. SUFFICES ASSUME NEW j \in Connectors
                  PROVE  ConnectorOK(j)'
      BY Zenon DEF ConnectorInv
    <3>1. CASE j = k
      BY <3>1, <1>2, <1>4, <1>5, <1>7, <2>2, <2>3, Zenon DEF ConnectorOK, Quiet
    <3>2. CASE j # k
      <4>1. ConnectorOK(j) /\ ~InCancel(j)'
        BY <2>3, Zenon DEF IInv, ConnectorInv, InCancel
      <4>. QED BY <3>2, <4>1, <1>3, <1>4, <2>2, <2>3, OtherConnector, Zenon
    <3>. QED BY <3>1, <3>2, Zenon
  <2>7. ClientInv'
    BY <1>4, <1>6, <2>3, Zenon DEF IInv, ClientInv, Dropping
  <2>8. QueueInv'
    BY <1>2, <1>4, QueueKept, Zenon
  <2>9. AttemptInv'
    <3>1. \A j \in Connectors : Busy(j)' => Busy(j) /\ j # k
      BY <1>4, <1>5, <1>7, <2>2, Zenon DEF Busy, SameConnector, ConnectorOK, Quiet
    <3>2. k # 0
      BY <1>2
    <3>. QED BY <3>1, <3>2, <1>2, <1>4, <1>7, <2>1, <2>2, <2>3
             DEF IInv, AttemptInv, Mine, OfConnector
  <2>10. EffortInv'
    <3>1. k # 0
      BY <1>2
    <3>2. autoReconnect => conn = "connected"
      BY <3>1, <1>2, <1>7, Zenon DEF IInv, EffortInv, OfConnector
    <3>. QED BY <3>2, <1>4, Zenon DEF EffortInv
  <2>. QED BY <2>4, <2>5, <2>6, <2>7, <2>8, <2>9, <2>10, Zenon DEF IInv
<1>8. CASE ~(timer[k] /\ connector = k)
  <2>. DEFINE c == Call("crash", k)
  <2>1. c \in Calls /\ c.f = "crash" /\ stack' = <<c>> \o <<>> /\ UNCHANGED <<timer, chan, status>>
    <3>1. c \in Calls /\ c.f = "crash"
      BY CallTypes DEF c, Plain
    <3>2. GoesOn(<<c>>) /\ UNCHANGED <<timer, chan, status>>
      BY <1>2, <1>8, Zenon DEF HandleWriteRest
    <3>3. stack' = <<c>> \o <<>>
      BY <3>2, <1>2, Zenon DEF GoesOn
    <3>. QED BY <3>1, <3>2, <3>3, Zenon
  <2>. HIDE DEF c
  <2>2. Fits(<<>>, made) /\ ~OnReset(<<>>)
    BY IdleFits, Zenon DEF OnReset
  <2>3. TopIs(stack', c, <<>>) /\ Nested(stack') /\ Known(stack', made)
    BY <1>2, <2>1, <2>2, PutsOne, Zenon DEF OfConnector
  <2>4. /\ stack' \in Seq(Calls) /\ stack' # <<>> /\ Head(stack').f = "crash"
        /\ \A f : Has(stack', f) <=> f = "crash"
        /\ \A j : \A f \in OfConnector : ~HasK(stack', f, j)
    BY <2>1, <2>3, EmptyStack, Zenon DEF TopIs, OfConnector
  <2>5. TypeOK' /\ StackInv' /\ HeadInv'
    BY <1>4, <2>1, <2>3, <2>4, Zenon DEF IInv, TypeOK, StackInv, HeadInv, At
  <2>6. ConnectorInv'
    <3>. SUFFICES ASSUME NEW j \in Connectors
                  PROVE  ConnectorOK(j)'
      BY Zenon DEF ConnectorInv
    <3>1. ~InCancel(j)'
      BY <2>4, Zenon DEF InCancel, OfConnector
    <3>. QED BY <3>1, <1>3, <1>4, <2>1, <2>4, ConnectorsKept, Zenon DEF OfConnector
  <2>7. ClientInv'
    BY <1>2, <1>4, <1>6, <2>4, Zenon DEF IInv, ClientInv, Dropping
  <2>8. QueueInv'
    BY <1>2, <1>4, QueueKept, Zenon
  <2>9. AttemptInv'
    BY <1>2, <1>4, <2>1, <2>4, AttemptsKept, Zenon DEF OfConnector
  <2>10. EffortInv'
    BY <2>4, Zenon DEF EffortInv, OfConnector, IInv, TypeOK
  <2>. QED BY <2>5, <2>6, <2>7, <2>8, <2>9, <2>10, Zenon DEF IInv
<1>. QED BY <1>7, <1>8, Zenon

\* Cancel ends the attempt of the client's Connector, and calls the user.
LEMMA CancelKeeps ==
  ASSUME IInv, Cancel
  PROVE  IInv'
<1>. DEFINE t == Tail(stack)
<1>1. stack # <<>> /\ Top.f = "Cancel"
  BY Zenon DEF Cancel, At, Top
<1>2. PICK k \in Connectors :
      /\ Top.k = k /\ k \in 1..made /\ made \in Nat
      /\ Fits(t, made) /\ OnReset(t)
      /\ \A f : Has(stack, f) <=> f = "Cancel" \/ Has(t, f)
      /\ \A j : \A f \in OfConnector :
           HasK(stack, f, j) <=> (f = "Cancel" /\ j = k) \/ HasK(t, f, j)
  BY <1>1, Finds DEF OfConnector
<1>. DEFINE a == Callback("failed")
            b == Call("Cancelled", k)
<1>3. /\ a \in Calls /\ b \in Calls /\ a.f = "cb" /\ a.r = "failed"
      /\ b.f = "Cancelled" /\ b.k = k
  BY <1>2, CallTypes DEF Plain
<1>4. stack' = <<b>> \o t \/ stack' = <<a, b>> \o t
  BY <1>2, Zenon DEF Cancel, GoesOn
<1>5. Tell(<<b>>) \/ Tell(<<a, b>>)
  BY <1>2, Zenon DEF Cancel
<1>6. /\ Nested(stack') /\ Known(stack', made) /\ stack' \in Seq(Calls)
      /\ stack' # <<>> /\ Head(stack').f \in {"cb", "Cancelled"}
      /\ \A f : f # "cb" => (Has(stack', f) <=> f = "Cancelled" \/ Has(t, f))
      /\ \A j : \A f \in OfConnector :
           HasK(stack', f, j) <=> (f = "Cancelled" /\ j = k) \/ HasK(t, f, j)
  <2>. HIDE DEF t, a, b
  <2>1. CASE stack' = <<b>> \o t
    <3>1. TopIs(stack', b, t) /\ Nested(stack') /\ Known(stack', made)
      BY <2>1, <1>2, <1>3, PutsOne, Zenon
    <3>. QED BY <3>1, <1>3, Zenon DEF TopIs, OfConnector
  <2>2. CASE stack' = <<a, b>> \o t
    <3>1. TopTwo(stack', a, b, t) /\ Nested(stack') /\ Known(stack', made)
      BY <2>2, <1>2, <1>3, PutsTwo, Zenon DEF HeadOnly, OfConnector
    <3>. QED BY <3>1, <1>3, Zenon DEF TopTwo, OfConnector
  <2>. QED BY <2>1, <2>2, <1>4, Zenon
<1>7. reports' \subseteq {"connected", "failed", "lost"}
  <2>. HIDE DEF a, b
  <2>1. <<b>> \in Seq(Calls) /\ <<a, b>> \in Seq(Calls)
    BY <1>3
  <2>. QED BY <2>1, <1>5, TellTypes, Zenon DEF IInv
<1>. HIDE DEF t, a, b
<1>8. /\ UNCHANGED <<autoReconnect, connector, conn, made, status, chan, resolved, restart,
                     queue, connects, disconnects, closes, stray>>
      /\ dns' = [dns EXCEPT ![k] = FALSE] /\ timer' = [timer EXCEPT ![k] = FALSE]
  BY <1>2, Zenon DEF Cancel, clientVars, userVars
<1>9. ~dns'[k] /\ ~timer'[k] /\ \A j \in Connectors \ {k} : SameConnector(j)
  BY <1>8, Zenon DEF IInv, TypeOK, SameConnector
<1>10. /\ k = connector /\ status[k] \in {"kDNSResolving", "kConnecting"}
       /\ ~autoReconnect /\ conn # "connected" /\ ConnectorOK(k)
  BY <1>1, <1>2, Zenon DEF IInv, HeadInv, At, Top, ClientInv, Dropping, ConnectorInv
<1>11. ~HasK(t, "Retry", k) /\ ~restart[k]
  BY <1>2, <1>10, Zenon DEF ConnectorOK, Quiet, OfConnector
<1>12. ~At("ResetConnector") /\ ~At("ResetConnector")' /\ \A j : ~InAttempt(j)
  BY <1>1, <1>6, Zenon DEF At, InAttempt, Top
<1>13. TypeOK' /\ StackInv' /\ HeadInv'
  BY <1>6, <1>7, <1>8, Zenon DEF IInv, TypeOK, StackInv, HeadInv, At
<1>14. ConnectorInv'
  <2>. SUFFICES ASSUME NEW j \in Connectors
                PROVE  ConnectorOK(j)'
    BY Zenon DEF ConnectorInv
  <2>1. CASE j = k
    <3>1. InCancel(k)' /\ ~HasK(stack', "Retry", k) /\ ~restart'[k] /\ ~(k > made')
      BY <1>2, <1>6, <1>8, <1>11, SMTT(30) DEF InCancel, OfConnector
    <3>. QED BY <2>1, <3>1, <1>8, <1>9, <1>10, Zenon DEF ConnectorOK
  <2>2. CASE j # k
    <3>1. ConnectorOK(j) /\ (InCancel(j)' <=> InCancel(j))
      BY <2>2, <1>2, <1>6, Zenon DEF IInv, ConnectorInv, InCancel, OfConnector
    <3>. QED BY <2>2, <3>1, <1>2, <1>6, <1>8, <1>9, <1>12, OtherConnector, Zenon
             DEF OfConnector, ConnectorOK
  <2>. QED BY <2>1, <2>2, Zenon
<1>15. ClientInv'
  <2>1. made > 0
    BY <1>2
  <2>. QED BY <2>1, <1>2, <1>6, <1>8, <1>10, Zenon DEF IInv, ClientInv
<1>16. QueueInv'
  BY <1>2, <1>6, <1>8, QueueKept, Zenon
<1>17. AttemptInv'
  <2>1. \A j \in Connectors : Busy(j)' => Busy(j)
    BY <1>8, <1>9, Zenon DEF Busy, SameConnector
  <2>. QED BY <2>1, <1>2, <1>6, <1>8, <1>10, Zenon DEF IInv, AttemptInv, Mine, OfConnector
<1>18. EffortInv'
  BY <1>8, <1>10, Zenon DEF EffortInv
<1>. QED BY <1>13, <1>14, <1>15, <1>16, <1>17, <1>18, Zenon DEF IInv

\* DisconnectInLoop cancels the Connector, if it is at work, and resets connector_ next.
LEMMA DropConnectorKeeps ==
  ASSUME IInv, DropConnector
  PROVE  IInv'
<1>. DEFINE t == Tail(stack)
<1>1. stack # <<>> /\ Top.f = "DropConnector"
  BY Zenon DEF DropConnector, At, Top
<1>2. /\ made \in Nat /\ Fits(t, made) /\ ~OnReset(t)
      /\ \A f : Has(stack, f) <=> f = "DropConnector" \/ Has(t, f)
      /\ \A j : \A f \in OfConnector : HasK(stack, f, j) <=> HasK(t, f, j)
  BY <1>1, Finds, Zenon DEF OfConnector
<1>3. UNCHANGED <<autoReconnect, connector, conn, made, status, timer, chan, dns, resolved, restart,
                  queue, connects, disconnects, closes, reports, stray>>
  BY Zenon DEF DropConnector, clientVars, connectorVars, userVars
<1>4. connector # 0 => /\ connector \in Connectors /\ connector \in 1..made
                       /\ ConnectorOK(connector) /\ status[connector] \in Statuses
  BY ClientAssumption DEF IInv, TypeOK, Connectors, ConnectorInv
<1>. DEFINE c == Call("Cancel", connector)
            d == Call("ResetConnector", 0)
            e == Call("crash", 0)
<1>5. c \in Calls /\ d \in Calls /\ e \in Calls
  <2>1. connector \in Connectors \cup {0}
    BY ClientAssumption DEF IInv, TypeOK, Connectors
  <2>. QED BY <2>1, CallTypes, Zenon DEF Plain
<1>6. /\ c.f = "Cancel" /\ c.k = connector /\ d.f = "ResetConnector" /\ e.f = "crash"
  BY Zenon DEF Call
<1>7. \/ stack' = <<e>> \o t
      \/ /\ stack' = <<d>> \o t /\ connector # 0
         /\ status[connector] \in {"kConnected", "kDisconnected"}
      \/ /\ stack' = <<c, d>> \o t /\ connector # 0
         /\ status[connector] \in {"kDNSResolving", "kConnecting"}
  BY <1>4, Zenon DEF DropConnector, GoesOn, Statuses
<1>. HIDE DEF t, c, d, e
<1>8. /\ Nested(stack') /\ Known(stack', made) /\ stack' \in Seq(Calls) /\ stack' # <<>>
      /\ \/ Head(stack').f = "crash"
         \/ /\ Head(stack').f = "ResetConnector" /\ connector # 0
            /\ status[connector] \in {"kConnected", "kDisconnected"}
         \/ /\ Head(stack').f = "Cancel" /\ Head(stack').k = connector
            /\ status[connector] \in {"kDNSResolving", "kConnecting"}
      /\ \A f : f \notin {"crash", "ResetConnector", "Cancel"} => (Has(stack', f) <=> Has(t, f))
      /\ Has(t, "crash") => Has(stack', "crash")
      /\ Has(stack', "crash") \/ Has(stack', "ResetConnector")
      /\ \A j : \A f \in OfConnector : f # "Cancel" => (HasK(stack', f, j) <=> HasK(t, f, j))
  <2>1. CASE stack' = <<e>> \o t
    <3>1. TopIs(stack', e, t) /\ Nested(stack') /\ Known(stack', made)
      BY <2>1, <1>2, <1>5, <1>6, PutsOne, Zenon DEF OfConnector
    <3>. QED BY <3>1, <1>6, Zenon DEF TopIs, OfConnector
  <2>2. CASE /\ stack' = <<d>> \o t /\ connector # 0
             /\ status[connector] \in {"kConnected", "kDisconnected"}
    <3>1. TopIs(stack', d, t) /\ Nested(stack') /\ Known(stack', made)
      BY <2>2, <1>2, <1>5, <1>6, PutsOne, Zenon DEF OfConnector
    <3>. QED BY <2>2, <3>1, <1>6, Zenon DEF TopIs, OfConnector
  <2>3. CASE /\ stack' = <<c, d>> \o t /\ connector # 0
             /\ status[connector] \in {"kDNSResolving", "kConnecting"}
    <3>1. TopTwo(stack', c, d, t) /\ Nested(stack') /\ Known(stack', made)
      BY <2>3, <1>2, <1>4, <1>5, <1>6, PutsTwo, Zenon DEF HeadOnly, OfConnector
    <3>. QED BY <2>3, <3>1, <1>6, Zenon DEF TopTwo, OfConnector
  <2>. QED BY <2>1, <2>2, <2>3, <1>7, Zenon
<1>9. ~autoReconnect /\ conn # "connected"
  BY <1>2, Zenon DEF IInv, ClientInv, Dropping
<1>10. ~At("ResetConnector") /\ \A j : ~InAttempt(j)
  BY <1>1, Zenon DEF At, InAttempt, Top
<1>11. TypeOK' /\ StackInv'
  BY <1>3, <1>8, Zenon DEF IInv, TypeOK, StackInv
<1>12. HeadInv'
  <2>1. connector # 0 /\ status[connector] \in {"kConnected", "kDisconnected"} =>
          ~timer[connector] /\ ~dns[connector] /\ chan[connector] # "open"
    BY <1>4, <1>10, Zenon DEF ConnectorOK
  <2>. QED BY <2>1, <1>3, <1>8, Zenon DEF HeadInv, At, Top
<1>13. ConnectorInv'
  <2>. SUFFICES ASSUME NEW j \in Connectors
                PROVE  ConnectorOK(j)'
    BY Zenon DEF ConnectorInv
  <2>1. InCancel(j)' <=> InCancel(j)
    BY <1>2, <1>8, Zenon DEF InCancel, OfConnector
  <2>. QED BY <2>1, <1>2, <1>3, <1>8, <1>10, ConnectorsKept, Zenon DEF OfConnector
<1>14. ClientInv'
  BY <1>2, <1>3, <1>8, <1>9, Zenon DEF IInv, ClientInv
<1>15. QueueInv'
  BY <1>3, <1>8, QueueKept, Zenon
<1>16. AttemptInv'
  BY <1>2, <1>3, <1>8, <1>9, AttemptsKept, Zenon DEF OfConnector
<1>17. EffortInv'
  BY <1>3, <1>9, Zenon DEF EffortInv
<1>. QED BY <1>11, <1>12, <1>13, <1>14, <1>15, <1>16, <1>17, Zenon DEF IInv

\* DisconnectInLoop closes the connection.
LEMMA DisconnectInLoopKeeps ==
  ASSUME IInv, DisconnectInLoop
  PROVE  IInv'
<1>. DEFINE t == Tail(stack)
            a == Callback("lost")
            b == Call("OnRemoveConnection", 0)
            d == Call("DropConnector", 0)
<1>1. stack # <<>> /\ Top.f = "DisconnectInLoop"
  BY Zenon DEF DisconnectInLoop, At, Top
<1>2. /\ made \in Nat /\ Fits(t, made) /\ ~OnReset(t)
      /\ \A f : Has(stack, f) <=> f = "DisconnectInLoop" \/ Has(t, f)
      /\ \A j : \A f \in OfConnector : HasK(stack, f, j) <=> HasK(t, f, j)
      /\ t \in Seq(Calls)
  BY <1>1, Finds, Zenon DEF OfConnector
<1>3. /\ UNCHANGED <<connector, made, status, timer, chan, dns, resolved, restart, queue,
                     connects, disconnects, closes, stray>>
      /\ ~autoReconnect' /\ autoReconnect' \in BOOLEAN
      /\ conn' = IF conn = "none" THEN conn ELSE "disconnecting"
  BY Zenon DEF DisconnectInLoop, connectorVars, userVars
<1>4. /\ a \in Calls /\ b \in Calls /\ d \in Calls /\ a.f = "cb" /\ a.r = "lost"
      /\ b.f = "OnRemoveConnection" /\ d.f = "DropConnector"
  <2>1. d \in Calls
    BY CallTypes, Zenon DEF Plain
  <2>. QED BY <2>1, HandleCloseCalls, Zenon DEF Call
<1>5. /\ conn = "none" => stack' = (<<>> \o <<d>>) \o t /\ Tell(<<>> \o <<d>>)
      /\ conn # "none" => stack' = (<<a, b>> \o <<d>>) \o t /\ Tell(<<a, b>> \o <<d>>)
  BY Zenon DEF DisconnectInLoop, GoesOn, HandleClose
<1>. HIDE DEF t, a, b, d
<1>6. /\ Nested(stack') /\ Known(stack', made) /\ stack' \in Seq(Calls) /\ stack' # <<>>
      /\ Head(stack').f \in {"cb", "DropConnector"}
      /\ \A f : f \notin {"cb", "OnRemoveConnection"} =>
           (Has(stack', f) <=> f = "DropConnector" \/ Has(t, f))
      /\ Has(t, "OnRemoveConnection") \/ conn # "none" => Has(stack', "OnRemoveConnection")
      /\ Has(stack', "OnRemoveConnection") => Has(t, "OnRemoveConnection") \/ conn # "none"
      /\ \A j : \A f \in OfConnector : HasK(stack', f, j) <=> HasK(t, f, j)
  <2>1. CASE conn = "none"
    <3>1. stack' = <<d>> \o t
      BY <2>1, <1>5
    <3>2. TopIs(stack', d, t) /\ Nested(stack') /\ Known(stack', made)
      BY <3>1, <1>2, <1>4, PutsOne, Zenon DEF OfConnector
    <3>. QED BY <2>1, <3>2, <1>4, Zenon DEF TopIs, OfConnector
  <2>2. CASE conn # "none"
    <3>. DEFINE u == Push(d, t)
    <3>1. TopIs(u, d, t) /\ Fits(u, made)
      BY <1>2, <1>4, Pushed, Zenon DEF HeadOnly, OfConnector
    <3>2. stack' = <<a, b>> \o u
      <4>1. <<a, b>> \in Seq(Calls) /\ <<d>> \in Seq(Calls)
        BY <1>4
      <4>2. (<<a, b>> \o <<d>>) \o t = <<a, b>> \o (<<d>> \o t)
        BY <4>1, <1>2, CallsOnCalls, Zenon
      <4>. QED BY <2>2, <4>2, <1>5, Zenon DEF Push
    <3>. HIDE DEF u
    <3>3. ~OnReset(u)
      BY <3>1, <1>4, Zenon DEF TopIs, OnReset
    <3>4. TopTwo(stack', a, b, u) /\ Nested(stack') /\ Known(stack', made)
      BY <3>1, <3>2, <3>3, <1>2, <1>4, PutsTwo, Zenon DEF HeadOnly, OfConnector
    <3>5. /\ \A f : Has(u, f) <=> f = "DropConnector" \/ Has(t, f)
          /\ \A j : \A f \in OfConnector : HasK(u, f, j) <=> HasK(t, f, j)
      BY <3>1, <1>4, Zenon DEF TopIs, OfConnector
    <3>. QED BY <2>2, <3>4, <3>5, <1>4, Zenon DEF TopTwo, OfConnector
  <2>. QED BY <2>1, <2>2, Zenon
<1>7. reports' \subseteq {"connected", "failed", "lost"}
  <2>1. <<>> \o <<d>> \in Seq(Calls) /\ <<a, b>> \o <<d>> \in Seq(Calls)
    BY <1>4
  <2>. QED BY <2>1, <1>5, TellTypes, Zenon DEF IInv
<1>8. ~At("ResetConnector") /\ \A j : ~InAttempt(j)
  BY <1>1, Zenon DEF At, InAttempt, Top
<1>9. TypeOK' /\ StackInv' /\ HeadInv'
  BY <1>3, <1>6, <1>7, Zenon DEF IInv, TypeOK, StackInv, HeadInv, At
<1>10. ConnectorInv'
  <2>. SUFFICES ASSUME NEW j \in Connectors
                PROVE  ConnectorOK(j)'
    BY Zenon DEF ConnectorInv
  <2>1. InCancel(j)' <=> InCancel(j)
    BY <1>2, <1>6, Zenon DEF InCancel, OfConnector
  <2>. QED BY <2>1, <1>2, <1>3, <1>6, <1>8, ConnectorsKept, Zenon DEF OfConnector
<1>11. conn' # "connected" /\ (conn' = "disconnecting" <=> conn # "none")
  BY <1>3, Zenon DEF IInv, TypeOK
<1>12. ClientInv'
  <2>1. ASSUME conn = "none"
        PROVE  reports' = reports
    <3>. DEFINE u == <<>> \o <<d>>
    <3>1. \A i \in DOMAIN u : u[i] = d
      BY <1>4
    <3>2. Tell(u)
      BY <2>1, <1>5, Zenon
    <3>. HIDE DEF u
    <3>. QED BY <3>1, <3>2, <1>4, Zenon DEF Tell
  <2>. QED BY <2>1, <1>2, <1>3, <1>6, <1>11, Zenon DEF IInv, ClientInv
<1>13. QueueInv'
  BY <1>3, <1>6, QueueKept, Zenon
<1>14. AttemptInv'
  BY <1>2, <1>3, <1>6, <1>11, AttemptsKept, Zenon DEF OfConnector
<1>15. EffortInv'
  BY <1>3, Zenon DEF EffortInv
<1>. QED BY <1>9, <1>10, <1>12, <1>13, <1>14, <1>15, Zenon DEF IInv

\* The calls on a stack are for Connectors that were made.
LEMMA KnownHas ==
  ASSUME NEW s, NEW n, Known(s, n), NEW f \in OfConnector, NEW k, HasK(s, f, k)
  PROVE  k \in 1..n
  BY Zenon DEF Known, HasK

\* The connection is removed and will not be replaced.
LEMMA RemovalKeeps ==
  ASSUME IInv, OnRemoveConnection, ~autoReconnect, Returns,
         UNCHANGED <<made, connector, stray>>
  PROVE  IInv'
<1>. DEFINE t == Tail(stack)
<1>1. stack # <<>> /\ Top.f = "OnRemoveConnection" /\ stack' = t
  BY Zenon DEF OnRemoveConnection, At, Top, Returns
<1>2. /\ (\A f \in HeadOnly : ~Has(t, f)) /\ (t # <<>> => Head(t).f \notin HeadOnly)
      /\ ~OnReset(t)
      /\ \A f : Has(stack, f) <=> f = "OnRemoveConnection" \/ Has(t, f)
      /\ \A j : \A f \in OfConnector : HasK(stack, f, j) <=> HasK(t, f, j)
      /\ t \in Seq(Calls) /\ Nested(t) /\ Known(t, made)
  BY <1>1, Finds, Zenon DEF OfConnector
<1>3. /\ UNCHANGED <<autoReconnect, connector, made, status, timer, chan, dns, resolved, restart,
                     queue, connects, disconnects, closes, reports, stray>>
      /\ conn' = "none"
  BY Zenon DEF OnRemoveConnection, connectorVars, userVars
<1>4. ~At("ResetConnector") /\ \A j : ~InAttempt(j)
  BY <1>1, Zenon DEF At, InAttempt, Top
<1>. HIDE DEF t
<1>5. TypeOK' /\ StackInv' /\ HeadInv'
  BY <1>1, <1>2, <1>3, Zenon DEF IInv, TypeOK, StackInv, HeadInv, At, OnReset, HeadOnly
<1>6. ConnectorInv'
  <2>. SUFFICES ASSUME NEW j \in Connectors
                PROVE  ConnectorOK(j)'
    BY Zenon DEF ConnectorInv
  <2>1. InCancel(j)' <=> InCancel(j)
    BY <1>1, <1>2, Zenon DEF InCancel, OfConnector
  <2>. QED BY <2>1, <1>1, <1>2, <1>3, <1>4, ConnectorsKept, Zenon DEF OfConnector
<1>7. ClientInv'
  BY <1>1, <1>2, <1>3, Zenon DEF IInv, ClientInv, Dropping
<1>8. QueueInv'
  BY <1>1, <1>2, <1>3, QueueKept, Zenon
<1>9. AttemptInv'
  BY <1>1, <1>2, <1>3, AttemptsKept, Zenon DEF OfConnector, HeadOnly
<1>10. EffortInv'
  BY <1>3, Zenon DEF EffortInv
<1>. QED BY <1>5, <1>6, <1>7, <1>8, <1>9, <1>10, Zenon DEF IInv

\* The connection is removed, and another Connector is started.
LEMMA ReconnectKeeps ==
  ASSUME IInv, OnRemoveConnection, autoReconnect, NewConnector,
         GoesOn(<<Call("Start", made')>>)
  PROVE  IInv'
<1>0. PICK k \in Nat : k = made + 1
  BY DEF IInv, TypeOK
<1>. DEFINE t == Tail(stack)
            c == Call("Start", k)
<1>1. stack # <<>> /\ Top.f = "OnRemoveConnection"
  BY Zenon DEF OnRemoveConnection, At, Top
<1>2. /\ made \in Nat /\ Fits(t, made) /\ ~OnReset(t) /\ Known(t, made)
      /\ (\A f \in HeadOnly : ~Has(t, f))
      /\ \A f : Has(stack, f) <=> f = "OnRemoveConnection" \/ Has(t, f)
      /\ \A j : \A f \in OfConnector : HasK(stack, f, j) <=> HasK(t, f, j)
  BY <1>1, Finds, Zenon DEF OfConnector
<1>3. /\ UNCHANGED <<autoReconnect, status, timer, chan, dns, resolved, restart,
                     queue, connects, disconnects, closes, reports>>
      /\ conn' = "none" /\ made' = k /\ connector' = k /\ stack' = <<c>> \o t
      /\ stray' = stray \cup {j \in {connector} : j # 0 /\ Busy(j)}
  BY <1>0, Zenon DEF OnRemoveConnection, connectorVars, userVars, NewConnector, Drops, GoesOn
<1>4. /\ made < MaxConnectors /\ made > 0 /\ connector # 0
      /\ \A f \in Dropping : ~Has(t, f)
  BY <1>2, Zenon DEF IInv, ClientInv, NewConnector
<1>5. k \in Connectors /\ k > made /\ k \in Nat /\ k # 0 /\ made <= k /\ k \in 0..MaxConnectors
        /\ k \in 1..k /\ connector \in Connectors
  BY <1>0, <1>2, <1>4, ClientAssumption DEF IInv, TypeOK, Connectors
<1>6. c \in Calls /\ c.f = "Start" /\ c.k = k
  BY <1>5, CallTypes, Zenon DEF Plain
<1>7. \A f \in OfConnector : ~HasK(t, f, k)
  <2>1. ASSUME NEW f \in OfConnector, HasK(t, f, k)
        PROVE  k \in 1..made
    BY <2>1, <1>2, KnownHas, Zenon
  <2>. QED BY <2>1, <1>2, <1>5
<1>8. Quiet(k) /\ ~restart[k]
  BY <1>5, Zenon DEF IInv, ConnectorInv, ConnectorOK
<1>9. \A f : \A j : HasK(t, f, j) => Has(t, f)
  BY Zenon DEF Has, HasK
<1>. HIDE DEF t, c
<1>10. TopIs(stack', c, t) /\ Nested(stack') /\ Known(stack', k)
  <2>1. Fits(t, k)
    BY <1>2, <1>5, FitsMore, Zenon
  <2>. QED BY <2>1, <1>2, <1>3, <1>5, <1>6, PutsOne, Zenon
<1>11. /\ stack' \in Seq(Calls) /\ stack' # <<>> /\ Head(stack').f = "Start"
       /\ Head(stack').k = k /\ Tail(stack') = t
       /\ \A f : Has(stack', f) <=> f = "Start" \/ Has(t, f)
       /\ \A j : \A f \in OfConnector :
            HasK(stack', f, j) <=> (f = "Start" /\ j = k) \/ HasK(t, f, j)
  BY <1>6, <1>10, Zenon DEF TopIs
<1>12. TypeOK'
  <2>1. made' \in 0..MaxConnectors /\ connector' \in 0..made'
    BY <1>3, <1>5
  <2>2. stray' \subseteq Connectors
    BY <1>3, <1>5, Zenon DEF IInv, TypeOK
  <2>. QED BY <2>1, <2>2, <1>3, <1>11, Zenon DEF IInv, TypeOK
<1>13. StackInv' /\ HeadInv'
  <2>1. \A f \in Waiting : ~HasK(Tail(stack'), f, Head(stack').k)
    BY <1>7, <1>11, Zenon DEF Waiting, OfConnector
  <2>2. Quiet(k)' /\ ~restart'[k]
    BY <1>3, <1>8, Zenon DEF Quiet
  <2>. QED BY <2>1, <2>2, <1>3, <1>10, <1>11, Zenon DEF StackInv, HeadInv, At, Top, Quiet
<1>14. \A j : ~InCancel(j) /\ ~InCancel(j)' /\ ~InAttempt(j) /\ ~At("ResetConnector")
  BY <1>1, <1>2, <1>4, <1>9, <1>11, Zenon DEF InCancel, InAttempt, At, Top, OfConnector, Dropping
<1>15. ConnectorInv'
  <2>. SUFFICES ASSUME NEW j \in Connectors
                PROVE  ConnectorOK(j)'
    BY Zenon DEF ConnectorInv
  <2>1. ConnectorOK(j)
    BY Zenon DEF IInv, ConnectorInv
  <2>2. CASE j = k
    BY <2>2, <1>3, <1>5, <1>7, <1>8, <1>11, <1>14, <2>1, Zenon DEF ConnectorOK, Quiet, OfConnector
  <2>3. CASE j # k
    <3>1. ~(j > made) => ~(j > made')
      BY <1>2, <1>3, <1>5 DEF Connectors
    <3>2. SameConnector(j)
      BY <1>3, Zenon DEF SameConnector
    <3>. QED BY <2>1, <2>3, <3>1, <3>2, <1>2, <1>3, <1>11, <1>14, OtherConnector, Zenon DEF OfConnector
  <2>. QED BY <2>2, <2>3, Zenon
<1>16. ClientInv'
  BY <1>3, <1>4, <1>5, <1>11, SMTT(30) DEF ClientInv, Dropping
<1>17. QueueInv'
  <2>1. \A f \in {"DisconnectInLoop", "DropConnector", "ResetConnector", "crash"} : ~Has(stack, f)
    BY <1>2, <1>4, Zenon DEF HeadOnly, Dropping
  <2>. QED BY <2>1, <1>3, <1>4, QueueKept, Zenon
<1>18. AttemptInv'
  <2>1. \A j \in Connectors : Busy(j) => j \in stray' \/ HasK(t, "HandleWrite", j)
    BY <1>2, <1>3, <1>4, Zenon DEF IInv, AttemptInv, Mine, OfConnector, HeadOnly
  <2>2. \A j \in Connectors :
          Busy(j)' => Mine(j)' \/ HasK(stack', "HandleWrite", j) \/ Has(stack', "crash")
    BY <2>1, <1>3, <1>11, Zenon DEF Busy, Mine, OfConnector
  <2>3. Mine(k)'
    BY <1>3, Zenon DEF Mine
  <2>. QED BY <2>2, <2>3, <1>3, <1>11, Zenon DEF AttemptInv, Mine
<1>19. EffortInv'
  BY <1>3, <1>7, <1>11, Zenon DEF EffortInv, OfConnector
<1>. QED BY <1>12, <1>13, <1>15, <1>16, <1>17, <1>18, <1>19, Zenon DEF IInv

\* The connection is removed while conn_ refers to another one that nobody holds.
LEMMA FreedKeeps ==
  ASSUME IInv, OnRemoveConnection, GoesOn(<<Call("crash", 0)>>),
         UNCHANGED <<made, connector, stray>>
  PROVE  IInv'
<1>. DEFINE t == Tail(stack)
            c == Call("crash", 0)
<1>1. stack # <<>> /\ Top.f = "OnRemoveConnection" /\ stack' = <<c>> \o t
  BY Zenon DEF OnRemoveConnection, At, Top, GoesOn
<1>2. /\ made \in Nat /\ Fits(t, made) /\ ~OnReset(t)
      /\ \A f : Has(stack, f) <=> f = "OnRemoveConnection" \/ Has(t, f)
      /\ \A j : \A f \in OfConnector : HasK(stack, f, j) <=> HasK(t, f, j)
  BY <1>1, Finds, Zenon DEF OfConnector
<1>3. /\ UNCHANGED <<autoReconnect, connector, made, status, timer, chan, dns, resolved, restart,
                     queue, connects, disconnects, closes, reports, stray>>
      /\ conn' = "none"
  BY Zenon DEF OnRemoveConnection, connectorVars, userVars
<1>4. ~At("ResetConnector") /\ \A j : ~InAttempt(j)
  BY <1>1, Zenon DEF At, InAttempt, Top
<1>5. c \in Calls /\ c.f = "crash"
  BY CallTypes, Zenon DEF Plain
<1>. HIDE DEF t, c
<1>6. TopIs(stack', c, t) /\ Nested(stack') /\ Known(stack', made)
  BY <1>1, <1>2, <1>5, PutsOne, Zenon DEF OfConnector
<1>7. /\ stack' \in Seq(Calls) /\ stack' # <<>> /\ Head(stack').f = "crash"
      /\ \A f : Has(stack', f) <=> f = "crash" \/ Has(t, f)
      /\ \A j : \A f \in OfConnector : HasK(stack', f, j) <=> HasK(t, f, j)
  BY <1>5, <1>6, Zenon DEF TopIs, OfConnector
<1>8. TypeOK' /\ StackInv' /\ HeadInv'
  BY <1>3, <1>6, <1>7, Zenon DEF IInv, TypeOK, StackInv, HeadInv, At
<1>9. ConnectorInv'
  <2>. SUFFICES ASSUME NEW j \in Connectors
                PROVE  ConnectorOK(j)'
    BY Zenon DEF ConnectorInv
  <2>1. InCancel(j)' <=> InCancel(j)
    BY <1>2, <1>7, Zenon DEF InCancel, OfConnector
  <2>. QED BY <2>1, <1>2, <1>3, <1>4, <1>7, ConnectorsKept, Zenon DEF OfConnector
<1>10. ClientInv'
  BY <1>2, <1>3, <1>7, Zenon DEF IInv, ClientInv, Dropping
<1>11. QueueInv'
  BY <1>3, <1>7, QueueKept, Zenon
<1>12. AttemptInv'
  BY <1>3, <1>7, AttemptsKept, Zenon
<1>13. EffortInv'
  BY <1>7, Zenon DEF EffortInv
<1>. QED BY <1>8, <1>9, <1>10, <1>11, <1>12, <1>13, Zenon DEF IInv

-----------------------------------------------------------------------------
(* The theorems.                                                           *)

\* A new client.
LEMMA InitIInv == Init => IInv
<1>. SUFFICES ASSUME Init
              PROVE  IInv
  BY Zenon
<1>1. /\ stack = <<>> /\ queue = <<>> /\ connector = 0 /\ conn = "none" /\ made = 0 /\ stray = {}
      /\ reports = {} /\ connects = 0 /\ disconnects = 0 /\ closes = 0 /\ autoReconnect \in BOOLEAN
      /\ status \in [Connectors -> Statuses] /\ timer \in [Connectors -> BOOLEAN]
      /\ chan \in [Connectors -> {"none", "open", "closed"}]
      /\ dns \in [Connectors -> BOOLEAN] /\ restart \in [Connectors -> BOOLEAN]
      /\ resolved \in [Connectors -> BOOLEAN]
      /\ \A k \in Connectors : Quiet(k) /\ ~restart[k]
  BY Zenon DEF Init, All, Quiet, Statuses
<1>2. (\A f : ~Has(stack, f)) /\ (\A f, j : ~HasK(stack, f, j)) /\ stack \in Seq(Calls)
        /\ Nested(stack) /\ Known(stack, made)
  BY <1>1, EmptyStack, Zenon
<1>3. queue \in Seq({"Connect", "Disconnect"}) /\ Len(queue) = 0
  BY <1>1
<1>4. TypeOK
  BY <1>1, <1>2, <1>3, ClientAssumption, SMTT(30) DEF TypeOK
<1>5. StackInv /\ HeadInv /\ ClientInv
  BY <1>1, <1>2, SMTT(30) DEF StackInv, HeadInv, ClientInv, At
<1>6. QueueInv
  BY <1>3 DEF QueueInv
<1>7. ConnectorInv
  BY <1>1, <1>2, Zenon DEF ConnectorInv, ConnectorOK, InCancel, InAttempt, Quiet, Connectors
<1>8. AttemptInv /\ EffortInv
  BY <1>1, <1>2, SMTT(30) DEF AttemptInv, EffortInv, Busy, Quiet
<1>. QED BY <1>4, <1>5, <1>6, <1>7, <1>8, Zenon DEF IInv

\* Every step keeps the invariant.
LEMMA NextIInv == IInv /\ [Next]_vars => IInv'
<1>. SUFFICES ASSUME IInv, [Next]_vars
              PROVE  IInv'
  BY Zenon
<1>1. CASE LoopStep
  <2>1. CASE RunConnect \/ RunDisconnect
    BY <2>1, RunConnectKeeps, RunDisconnectKeeps, Zenon
  <2>2. CASE Start \/ StartResolving \/ ConnectFails \/ Connecting
    BY <2>2, StartKeeps, StartResolvingKeeps, ConnectFailsKeeps, ConnectingKeeps, Zenon
  <2>3. CASE HandleWriteRest \/ HandleError \/ Retry \/ Cancel \/ Cancelled
    BY <2>3, HandleWriteRestKeeps, HandleErrorKeeps, RetryKeeps, CancelKeeps, CancelledKeeps, Zenon
  <2>4. CASE DisconnectInLoop \/ DropConnector \/ ResetConnector
    BY <2>4, DisconnectInLoopKeeps, DropConnectorKeeps, ResetConnectorKeeps, Zenon
  <2>5. CASE OnRemoveConnection
    BY <2>5, FreedKeeps, RemovalKeeps, ReconnectKeeps, Zenon DEF OnRemoveConnection
  <2>6. CASE CallbackReturns
    BY <2>6, CallbackReturnsKeeps, Zenon
  <2>. QED BY <1>1, <2>1, <2>2, <2>3, <2>4, <2>5, <2>6, Zenon DEF LoopStep
<1>2. ASSUME NEW k \in Connectors, Event(k)
      PROVE  IInv'
  BY <1>2, HandleWriteKeeps, HandleWriteErrorKeeps, OnDNSResolvedKeeps, RunRestartKeeps, Zenon DEF Event
<1>3. CASE Connect \/ Disconnect
  BY <1>3, ConnectKeeps, DisconnectKeeps, Zenon
<1>4. CASE ConnLost \/ CloseInCallback \/ CloseAgain
  BY <1>4, ConnLostKeeps, Zenon
<1>5. CASE DisconnectInCallback
  BY <1>5, DisconnectInCallbackKeeps, Zenon
<1>6. CASE UNCHANGED vars
  <2>1. UNCHANGED <<autoReconnect, connector, conn, made, status, timer, chan, dns, resolved,
                    restart, queue, stack, connects, disconnects, closes, reports, stray>>
    BY <1>6, Zenon DEF vars, clientVars, connectorVars, userVars
  <2>2. TypeOK'
    BY <2>1, Zenon DEF IInv, TypeOK
  <2>3. StackInv' /\ HeadInv' /\ ClientInv' /\ QueueInv'
    BY <2>1, Zenon DEF IInv, StackInv, HeadInv, ClientInv, QueueInv, At, Top, Quiet
  <2>4. ConnectorInv'
    BY <2>1 DEF IInv, ConnectorInv, ConnectorOK, InAttempt, InCancel, At, Quiet
  <2>5. AttemptInv' /\ EffortInv'
    BY <2>1, Zenon DEF IInv, AttemptInv, EffortInv, Mine, Busy
  <2>. QED BY <2>2, <2>3, <2>4, <2>5, Zenon DEF IInv
<1>. QED BY <1>1, <1>2, <1>3, <1>4, <1>5, <1>6, Zenon DEF Next

\* The invariant of the client and of its call stack holds.
THEOREM Invariance == Spec => []IInv
  BY InitIInv, NextIInv, PTL DEF Spec

\* What the invariant says of the attempts.
LEMMA Tracked == IInv => AttemptIsTracked
<1>. SUFFICES ASSUME IInv
              PROVE  AttemptIsTracked
  BY Zenon
<1>1. ASSUME Idle, NEW k \in Connectors
      PROVE  /\ dns[k] \/ chan[k] = "open" <=> timer[k]
             /\ status[k] = "kDNSResolving" /\ k = connector => dns[k]
             /\ status[k] = "kConnecting" /\ k = connector => chan[k] = "open"
             /\ status[k] \in {"kConnected", "kDisconnected"} => ~dns[k] /\ chan[k] # "open"
  <2>1. stack = <<>> /\ \A f, j : ~HasK(stack, f, j)
    BY <1>1, EmptyStack, Zenon DEF Idle
  <2>2. ConnectorOK(k) /\ ~InAttempt(k) /\ ~InCancel(k) /\ ~At("ResetConnector")
    BY <2>1, Zenon DEF IInv, ConnectorInv, InAttempt, InCancel, At
  <2>. QED BY <2>2, Zenon DEF ConnectorOK
<1>2. ASSUME At("Cancel")
      PROVE  timer[Top.k] \/ \E i \in DOMAIN stack : stack[i] = Call("Cancelled", Top.k)
  <2>1. stack # <<>> /\ Top.f = "Cancel"
    BY <1>2, Zenon DEF At, Top
  <2>2. PICK k \in Connectors : Top.k = k
    BY <2>1, Finds, Zenon DEF OfConnector
  <2>3. /\ k = connector /\ status[k] \in {"kDNSResolving", "kConnecting"} /\ ConnectorOK(k)
        /\ ~InAttempt(k) /\ ~At("ResetConnector")
    BY <1>2, <2>1, <2>2, Zenon DEF IInv, HeadInv, ConnectorInv, At, Top, InAttempt
  <2>4. CASE ~InCancel(k)
    BY <2>2, <2>3, <2>4, Zenon DEF ConnectorOK
  <2>5. CASE InCancel(k)
    <3>1. PICK i \in 1..Len(stack) : stack[i].f = "Cancelled" /\ stack[i].k = k
      BY <2>5, Zenon DEF InCancel, HasK
    <3>2. stack \in Seq(Calls) /\ i \in DOMAIN stack /\ stack[i] \in Calls
      BY DEF IInv, TypeOK
    <3>3. stack[i] = Call("Cancelled", k)
      BY <3>1, <3>2, Zenon DEF Calls, Call
    <3>. QED BY <2>2, <3>2, <3>3, Zenon
  <2>. QED BY <2>4, <2>5, Zenon
<1>. QED BY <1>1, <1>2, Zenon DEF AttemptIsTracked, IInv

\* What the invariant says of how many attempts there are.
LEMMA Alone == IInv => OneAttempt
<1>. SUFFICES ASSUME IInv, Idle
              PROVE  /\ autoReconnect /\ made > 0 =>
                          conn = "connected" \/ \E k \in Connectors : Busy(k)
                     /\ \A j, k \in Connectors \ stray : Busy(j) /\ Busy(k) => j = k
                     /\ conn # "none" =>
                          connector # 0 /\ \A k \in Connectors \ stray : ~Busy(k)
                     /\ connector = 0 => \A k \in Connectors \ stray : ~Busy(k)
  BY Zenon DEF OneAttempt
<1>1. stack = <<>> /\ (\A f : ~Has(stack, f)) /\ \A f, j : ~HasK(stack, f, j)
  BY EmptyStack, Zenon DEF Idle
<1>2. conn \in {"none", "connected"}
  BY <1>1, Zenon DEF IInv, TypeOK, ClientInv
<1>3. \A k \in Connectors : Busy(k) => k # 0 /\ (k = connector \/ k \in stray)
  BY <1>1 DEF IInv, AttemptInv, Mine, Connectors
<1>4. ASSUME conn # "none"
      PROVE  connector # 0 /\ \A k \in Connectors \ stray : ~Busy(k)
  <2>1. connector # 0 /\ status[connector] = "kConnected"
    BY <1>1, <1>2, <1>4, Zenon DEF IInv, AttemptInv
  <2>2. connector \in Connectors
    BY <2>1, ClientAssumption DEF IInv, TypeOK, Connectors
  <2>3. ConnectorOK(connector) /\ ~InAttempt(connector) /\ ~InCancel(connector)
    BY <2>2, <1>1, Zenon DEF IInv, ConnectorInv, InAttempt, InCancel
  <2>4. ~Busy(connector)
    BY <2>1, <2>3, Zenon DEF ConnectorOK, Busy, Quiet
  <2>. QED BY <2>1, <2>4, <1>3, Zenon
<1>5. autoReconnect /\ made > 0 => conn = "connected" \/ \E k \in Connectors : Busy(k)
  BY <1>1, Zenon DEF IInv, EffortInv
<1>. QED BY <1>3, <1>4, <1>5, Zenon

\* For any number of Connectors and of calls: an attempt is watched by its timer as long
\* as it waits, status_ tells DisconnectInLoop what the Connector is doing, and Cancel finds
\* the timer that it asserts (connector.cc:74) but in the callback that it makes itself.
THEOREM AttemptAlwaysTracked == Spec => []AttemptIsTracked
  BY Invariance, Tracked, PTL

\* For any number of Connectors and of calls: there is one attempt or one connection at a
\* time; Disconnect leaves none (tcp_client.cc:109); a client with auto_reconnect_ never
\* forgets to try again.  The first two leave out the Connectors that the client has dropped
\* at work: in Disconnect, or because a connection was closed again (tcp_client.cc:157).
THEOREM AlwaysOneAttempt == Spec => []OneAttempt
  BY Invariance, Alone, PTL
=============================================================================
