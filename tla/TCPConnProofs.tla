---------------------------- MODULE TCPConnProofs ----------------------------
(***************************************************************************)
(* That a TCPConn keeps its stream in order, watches its output, tells its *)
(* status truly and takes only the steps of a Connection, for any number   *)
(* of threads, messages of any length and any high-water mark.             *)
(***************************************************************************)
EXTENDS TCPConnProps, TLAPS

\* What another thread may be in the middle of.
CallsInProgress == [at : {"idle", "close", "post"}] \cup [at : {"send"}, msg : Messages]

Quiet == ~reading /\ ~writing /\ ~timer
InDown == stack # <<>> /\ Last(stack) = "down"

\* Before OnAttachedToLoop has run nothing has happened but for the peer.
Unattached ==
  /\ queue = <<Functor("attach")>> /\ stack = <<>> /\ Quiet
  /\ downs = 0 /\ removed = 0
  /\ \A t \in Threads : tpc[t] = Idle

\* OnAttachedToLoop runs once.  HandleClose leaves nothing enabled, for good; what is
\* called in conn_fn_'s call for the loss is another such call, and the connection is
\* then closed again.  Until it is, conn_fn_ is called once for the loss, and the
\* connection is gone for good when it has returned.
LifeInv ==
  /\ ups \in {0, 1}
  /\ ups = 0 => Unattached
  /\ ups = 1 => \A i \in 1..Len(queue) : queue[i].k # "attach"
  /\ ups = 1 /\ downs = 0 /\ asked = "no" => status = "kConnected"
  /\ \A i, j \in 1..Len(stack) :
       i < j /\ stack[i] = "down" => stack[j] = "down" /\ asked = "nested"
  /\ InDown => downs > 0 /\ (asked # "nested" => status = "kDisconnecting")
  /\ downs > 0 => Quiet /\ chan # "open"
  /\ downs = 0 => removed = 0
  /\ ~Again /\ downs > 0 =>
       /\ downs = 1
       /\ removed = IF InDown THEN 0 ELSE 1
       /\ ~InDown => status = "kDisconnected"

TypeInv == TypeOK /\ tpc \in [Threads -> CallsInProgress]

IInv == TypeInv /\ StreamInOrder /\ OutputIsWatched /\ LifeInv

-----------------------------------------------------------------------------
(* Sequences: the stream, the queue and the stack.                         *)

\* The bytes of a message.
LEMMA BytesSeq ==
  ASSUME NEW m \in Messages
  PROVE  Bytes(m) \in Seq(AllBytes) /\ Len(Bytes(m)) = MsgLen /\ MsgLen \in Nat \ {0}
<1>1. Bytes(m) \in [1..MsgLen -> AllBytes]
  BY Zenon DEF Bytes, AllBytes
<1> QED  BY <1>1, ConnAssumption DEF Bytes

\* Sequences of the same elements are the same.
LEMMA SameSeq ==
  ASSUME NEW S, NEW s \in Seq(S), NEW t \in Seq(S), Len(s) = Len(t),
         \A i \in 1..Len(s) : s[i] = t[i]
  PROVE  s = t
OBVIOUS

\* A sequence is cut in two pieces.
LEMMA Cut ==
  ASSUME NEW S, NEW s \in Seq(S), NEW n \in 0..Len(s)
  PROVE  /\ SubSeq(s, 1, n) \in Seq(S) /\ Len(SubSeq(s, 1, n)) = n
         /\ SubSeq(s, n + 1, Len(s)) \in Seq(S)
         /\ Len(SubSeq(s, n + 1, Len(s))) = Len(s) - n
         /\ SubSeq(s, 1, n) \o SubSeq(s, n + 1, Len(s)) = s
<1>1. Len(s) \in Nat /\ 1 \in 1..Len(s)+1 /\ n \in 1-1..Len(s) /\ Len(s) \in n..Len(s)
  OBVIOUS
<1>2. SubSeq(s, 1, n) \in Seq(S) /\ Len(SubSeq(s, 1, n)) = n
  BY <1>1
<1>3. /\ SubSeq(s, n + 1, Len(s)) \in Seq(S)
      /\ Len(SubSeq(s, n + 1, Len(s))) = Len(s) - n
  BY <1>1
<1>4. /\ \A i \in 1..n : SubSeq(s, 1, n)[i] = s[i]
      /\ \A i \in 1..(Len(s) - n) : SubSeq(s, n + 1, Len(s))[i] = s[n + i]
  BY <1>1
<1> DEFINE a == SubSeq(s, 1, n)  b == SubSeq(s, n + 1, Len(s))
<1> HIDE DEF a, b
<1>5. a \o b = s
  <2>1. /\ a \in Seq(S) /\ b \in Seq(S) /\ Len(a) = n /\ Len(b) = Len(s) - n
        /\ \A i \in 1..n : a[i] = s[i]
        /\ \A i \in 1..(Len(s) - n) : b[i] = s[n + i]
    BY <1>2, <1>3, <1>4, Zenon DEF a, b
  <2>2. a \o b \in Seq(S) /\ Len(a \o b) = Len(s)
    <3>1. a \in Seq(S) /\ b \in Seq(S) /\ Len(a) + Len(b) = Len(s)
      BY <2>1, <1>1
    <3>2. a \o b \in Seq(S) /\ Len(a \o b) = Len(a) + Len(b)
      BY <3>1
    <3> QED  BY <3>1, <3>2, Zenon
  <2>3. ASSUME NEW i \in 1..Len(a \o b)
        PROVE  (a \o b)[i] = s[i]
    <3>1. CASE i <= n
      BY <3>1, <2>1, <2>2, <1>1
    <3>2. CASE i > n
      <4>1. i - n \in 1..(Len(s) - n) /\ n + (i - n) = i
        BY <3>2, <2>2, <1>1
      <4>2. (a \o b)[i] = b[i - n]
        BY <4>1, <3>2, <2>1, <2>2, <1>1
      <4>. QED BY <4>1, <4>2, <2>1, Zenon
    <3>3. i <= n \/ i > n
      BY <2>2, <1>1
    <3>. QED BY <3>1, <3>2, <3>3, Zenon
  <2>. QED BY <2>2, <2>3, SameSeq, Zenon
<1> QED  BY <1>2, <1>3, <1>5, Zenon DEF a, b

\* Concatenation is associative, for sequences of bytes.
LEMMA Associative ==
  ASSUME NEW s \in Seq(AllBytes), NEW t \in Seq(AllBytes), NEW u \in Seq(AllBytes)
  PROVE  (s \o t) \o u = s \o (t \o u)
OBVIOUS

\* The length of a concatenation, for sequences of bytes.
LEMMA ConcatLength ==
  ASSUME NEW s \in Seq(AllBytes), NEW t \in Seq(AllBytes)
  PROVE  Len(s \o t) = Len(s) + Len(t)
OBVIOUS

\* What was written and what is left are still the stream when a piece moves from
\* the front of one to the end of the other.
LEMMA StreamMoves ==
  ASSUME NEW w \in Seq(AllBytes), NEW s \in Seq(AllBytes), NEW n \in 0..Len(s)
  PROVE  (w \o SubSeq(s, 1, n)) \o SubSeq(s, n + 1, Len(s)) = w \o s
<1> DEFINE a == SubSeq(s, 1, n)  b == SubSeq(s, n + 1, Len(s))
<1>1. a \in Seq(AllBytes) /\ b \in Seq(AllBytes) /\ a \o b = s
  BY Cut, Zenon
<1> HIDE DEF a, b
<1>2. (w \o a) \o b = w \o (a \o b)
  BY <1>1, Associative, Zenon
<1> QED  BY <1>1, <1>2, Zenon DEF a, b

\* The queue without its head, and the queue with one more functor.
LEMMA QueueSteps ==
  ASSUME NEW q \in Seq(Functors), NEW f \in Functors
  PROVE  /\ Append(q, f) \in Seq(Functors)
         /\ (\A i \in 1..Len(q) : q[i].k # "attach") /\ f.k # "attach" =>
              \A i \in 1..Len(Append(q, f)) : Append(q, f)[i].k # "attach"
         /\ q # <<>> => /\ Tail(q) \in Seq(Functors) /\ Head(q) \in Functors
                        /\ Head(q) = q[1] /\ 1 \in 1..Len(q)
         /\ q # <<>> /\ (\A i \in 1..Len(q) : q[i].k # "attach") =>
              \A i \in 1..Len(Tail(q)) : Tail(q)[i].k # "attach"
OBVIOUS

\* The functors.
LEMMA FunctorTypes ==
  /\ \A k \in {"attach", "close", "wc", "hwm"} :
       Functor(k) \in Functors /\ Functor(k).k = k
  /\ \A m \in Messages : SendFunctor(m) \in Functors /\ SendFunctor(m).k = "send"
  /\ \A f \in Functors : f.k = "send" => f.m \in Messages
BY Zenon DEF Functors, Functor, SendFunctor

Frames == {"up", "msg", "wc", "hwm", "down"}

\* A callback is entered.
LEMMA StackPush ==
  ASSUME NEW s \in Seq(Frames), NEW f \in Frames
  PROVE  /\ Append(s, f) \in Seq(Frames) /\ Append(s, f) # <<>>
         /\ Last(Append(s, f)) = f
         /\ Len(Append(s, f)) = Len(s) + 1
         /\ \A i \in 1..Len(s) : Append(s, f)[i] = s[i]
BY DEF Last

\* A callback returns.
LEMMA StackPop ==
  ASSUME NEW s \in Seq(Frames), s # <<>>
  PROVE  /\ Front(s) \in Seq(Frames) /\ Len(Front(s)) = Len(s) - 1
         /\ \A i \in 1..Len(Front(s)) : i \in 1..(Len(s) - 1) /\ Front(s)[i] = s[i]
         /\ Front(s) # <<>> => /\ Last(Front(s)) = s[Len(s) - 1]
                               /\ Len(s) - 1 \in 1..Len(s)
<1>1. Len(s) \in Nat \ {0} /\ \A i \in 1..(Len(s) - 1) : s[i] \in Frames
  OBVIOUS
<1>2. Front(s) = [i \in 1..(Len(s) - 1) |-> s[i]]
  BY <1>1 DEF Front
<1>3. Front(s) \in Seq(Frames) /\ Len(Front(s)) = Len(s) - 1
  BY <1>1, <1>2
<1>4. \A i \in 1..(Len(s) - 1) : Front(s)[i] = s[i]
  BY <1>2, Zenon
<1>5. Front(s) # <<>> => Len(s) - 1 \in 1..(Len(s) - 1)
  BY <1>1, <1>3
<1> QED  BY <1>1, <1>3, <1>4, <1>5 DEF Last

-----------------------------------------------------------------------------
(* The parts of the invariant that a step may leave alone.                 *)

\* The state that LifeInv speaks of, apart from the queue and the threads.
lifeVars == <<status, chan, reading, writing, timer, stack, ups, downs, removed, asked>>

\* A step that touches neither the stream nor the events keeps both invariants.
LEMMA DataFrame ==
  ASSUME StreamInOrder, OutputIsWatched, TypeOK',
         UNCHANGED <<dataVars, chan, writing>>
  PROVE  StreamInOrder' /\ OutputIsWatched'
BY Zenon DEF StreamInOrder, OutputIsWatched, dataVars

\* A step after OnAttachedToLoop that only posts or runs functors.
LEMMA LifeFrame ==
  ASSUME LifeInv, ups = 1, UNCHANGED lifeVars,
         \A i \in 1..Len(queue') : queue'[i].k # "attach"
  PROVE  LifeInv'
<1>1. InDown' <=> InDown  BY Zenon DEF InDown, lifeVars
<1>2. (Quiet' <=> Quiet) /\ (Again' <=> Again)  BY Zenon DEF Quiet, Again, lifeVars
<1> QED  BY <1>1, <1>2 DEF LifeInv, lifeVars

\* HandleClose, up to the call of conn_fn_.
LEMMA CloseKeeps ==
  ASSUME NEW q \in Seq(Functors), IInv, HandleClose(q), ups = 1,
         \A i \in 1..Len(q) : q[i].k # "attach",
         UNCHANGED <<fixedVars, peerVars, tpc>>, sent' \subseteq Messages
  PROVE  IInv'
<1>1. /\ status' = "kDisconnecting" /\ reading' = FALSE /\ writing' = FALSE
      /\ chan' = "closed" /\ timer' = FALSE /\ stack' = Append(stack, "down")
      /\ downs' = downs + 1 /\ queue' = q /\ UNCHANGED <<dataVars, ups, removed>>
      /\ asked' = ClosedAgain
  BY Zenon DEF HandleClose
<1>2. stack \in Seq(Frames) /\ "down" \in Frames
  BY Zenon DEF IInv, TypeInv, TypeOK, Frames
<1>3. /\ stack' \in Seq(Frames) /\ stack' # <<>> /\ Last(stack') = "down"
      /\ Len(stack') = Len(stack) + 1 /\ \A i \in 1..Len(stack) : stack'[i] = stack[i]
  BY <1>1, <1>2, StackPush, Zenon
<1>4. downs \in Nat /\ removed \in Nat /\ downs' \in Nat \ {0}
  BY <1>1 DEF IInv, TypeInv, TypeOK
<1>5. /\ asked' \in {"no", "yes", "late", "nested"}
      /\ InDown \/ asked = "nested" => asked' = "nested"
      /\ downs > 0 => Again'
      /\ ~InDown /\ downs = 0 => asked' = asked
  <2>1. asked \in {"no", "yes", "late", "nested"}
    BY Zenon DEF IInv, TypeInv, TypeOK
  <2>2. asked' = IF InDown THEN "nested"
                 ELSE IF downs > 0 /\ asked # "nested" THEN "late" ELSE asked
    BY <1>1, Zenon DEF ClosedAgain, InDown
  <2>3. downs = 0 => ~(downs > 0)
    BY <1>4
  <2> QED  BY <2>1, <2>2, <2>3, Zenon DEF Again
<1>6. TypeOK' /\ TypeInv'
  BY <1>1, <1>3, <1>4, <1>5, Zenon
  DEF IInv, TypeInv, TypeOK, fixedVars, peerVars, dataVars, Frames
<1>7. StreamInOrder' /\ OutputIsWatched'
  BY <1>1, <1>6, Zenon DEF IInv, StreamInOrder, OutputIsWatched, dataVars
<1>8. LifeInv'
  <2>1. InDown' /\ Quiet' /\ chan' # "open"
    BY <1>1, <1>3, Zenon DEF InDown, Quiet
  <2>2. ASSUME NEW i \in 1..Len(stack'), NEW j \in 1..Len(stack'), i < j, stack'[i] = "down"
        PROVE  stack'[j] = "down" /\ asked' = "nested"
    <3>1. Len(stack) \in Nat /\ i \in 1..Len(stack) /\ (j \in 1..Len(stack) \/ j = Len(stack'))
      <4>1. Len(stack) \in Nat
        BY <1>2
      <4> QED  BY <1>3, <2>2, <4>1
    <3>2. stack[i] = "down" /\ stack # <<>> /\ Len(stack) \in 1..Len(stack)
      BY <1>2, <1>3, <2>2, <3>1
    <3>3. InDown /\ (j \in 1..Len(stack) => stack[j] = "down")
      <4>1. \A k \in 1..Len(stack) : i < k => stack[k] = "down"
        BY <3>1, <3>2, Zenon DEF IInv, LifeInv
      <4>2. i = Len(stack) \/ i < Len(stack)
        BY <3>1
      <4> QED  BY <2>2, <3>2, <4>1, <4>2, Zenon DEF InDown, Last
    <3>4. stack'[Len(stack')] = "down"
      BY <1>3, Zenon DEF Last
    <3> QED  BY <1>3, <1>5, <3>1, <3>3, <3>4, Zenon
  <2>3. ups' = 1 /\ removed' = removed /\ downs' > 0 /\ downs' # 0
    BY <1>1, <1>4
  <2>4. ~Again' => downs' = 1 /\ removed' = 0
    <3>1. ~Again' => downs = 0
      BY <1>4, <1>5
    <3> QED  BY <1>1, <3>1, <2>3 DEF IInv, LifeInv
  <2>5. ups' # 0 /\ queue' = q /\ status' = "kDisconnecting"
    BY <1>1, <2>3
  <2> QED  BY <2>1, <2>2, <2>3, <2>4, <2>5, Zenon DEF LifeInv
<1> QED  BY <1>6, <1>7, <1>8, Zenon DEF IInv

\* The rest of a message goes to the output buffer, behind what is there.
LEMMA BufferKeeps ==
  ASSUME NEW rest \in Seq(AllBytes), rest # <<>>, NEW q \in Seq(Functors), IInv,
         Buffer(rest, q), ups = 1, status # "kDisconnected",
         \A i \in 1..Len(q) : q[i].k # "attach",
         wire' \in Seq(AllBytes), accepted' \in Seq(AllBytes),
         wire' \o (output \o rest) = accepted',
         UNCHANGED <<reading, timer, histVars, status, stack, asked>>,
         UNCHANGED <<fixedVars, peerVars, tpc>>, sent' \subseteq Messages
  PROVE  IInv'
<1> DEFINE high == Len(output) + Len(rest) >= Mark /\ Len(output) < Mark
<1>1. /\ output' = output \o rest /\ writing' = (chan = "open")
      /\ chan' = IF chan = "open" THEN chan ELSE "crashed"
      /\ queue' = IF high THEN Append(q, Functor("hwm")) ELSE q
      /\ reported' = (reported \/ high)
  BY Zenon DEF Buffer
<1>2. /\ output \in Seq(AllBytes) /\ output' \in Seq(AllBytes)
      /\ Len(output') = Len(output) + Len(rest) /\ Len(rest) \in Nat \ {0}
      /\ Len(output) \in Nat /\ output' # <<>>
  <2>1. output \in Seq(AllBytes)
    BY Zenon DEF IInv, TypeInv, TypeOK
  <2>2. output \o rest \in Seq(AllBytes) /\ Len(output \o rest) = Len(output) + Len(rest)
    BY <2>1
  <2>3. Len(rest) \in Nat \ {0} /\ Len(output) \in Nat
    BY <2>1
  <2> QED  BY <1>1, <2>1, <2>2, <2>3
<1>3. /\ queue' \in Seq(Functors)
      /\ \A i \in 1..Len(queue') : queue'[i].k # "attach"
  <2>1. Functor("hwm") \in Functors /\ Functor("hwm").k # "attach"
    BY FunctorTypes, Zenon
  <2> QED  BY <1>1, <2>1, QueueSteps, Zenon
<1>4. TypeOK' /\ TypeInv'
  <2>1. reported' \in BOOLEAN /\ writing' \in BOOLEAN /\ chan' \in {"open", "closed", "crashed"}
    BY <1>1, Zenon DEF IInv, TypeInv, TypeOK
  <2> QED
    BY <1>2, <1>3, <2>1 DEF IInv, TypeInv, TypeOK, fixedVars, peerVars, histVars
<1>5. StreamInOrder'
  BY <1>1, <1>4, Zenon DEF StreamInOrder
<1>6. OutputIsWatched'
  <2>1. Len(output') >= Mark => reported'
    <3>1. Len(output') >= Mark => high \/ Len(output) >= Mark
      BY <1>2, ConnAssumption
    <3>2. Len(output) >= Mark => reported
      BY Zenon DEF IInv, OutputIsWatched
    <3>3. high \/ reported => reported'
      BY <1>1, Zenon
    <3> QED  BY <3>1, <3>2, <3>3, Zenon
  <2>2. chan' = "open" => writing'
    BY <1>1, Zenon
  <2> QED  BY <1>2, <2>1, <2>2, Zenon DEF OutputIsWatched
<1>7. LifeInv'
  <2>1. (InDown' <=> InDown) /\ (Again' <=> Again) /\ ups' = 1 /\ ups' # 0
    BY DEF InDown, Again, histVars
  <2>2. /\ UNCHANGED <<downs, removed, status, stack, asked, ups>>
        /\ LifeInv
    BY Zenon DEF IInv, histVars
  <2>3. downs > 0 => Quiet' /\ chan' # "open"
    <3>1. downs > 0 => chan # "open" /\ ~reading /\ ~timer
      BY <2>2, Zenon DEF LifeInv, Quiet
    <3> QED  BY <1>1, <3>1, Zenon DEF Quiet
  <2> QED  BY <1>3, <2>1, <2>2, <2>3, Zenon DEF LifeInv
<1> QED  BY <1>4, <1>5, <1>6, <1>7, Zenon DEF IInv

\* SendInLoop, from a functor or from a callback.
LEMMA SendKeeps ==
  ASSUME NEW m \in Messages, NEW q \in Seq(Functors), IInv, SendInLoop(m, q),
         ups = 1, \A i \in 1..Len(q) : q[i].k # "attach",
         UNCHANGED <<fixedVars, peerVars, tpc>>, sent' \subseteq Messages
  PROVE  IInv'
<1> DEFINE data == Bytes(m)
           direct == ~writing /\ output = <<>>
<1>1. data \in Seq(AllBytes) /\ Len(data) = MsgLen /\ MsgLen \in Nat \ {0}
  BY BytesSeq, Zenon
<1>2. /\ output \in Seq(AllBytes) /\ wire \in Seq(AllBytes) /\ accepted \in Seq(AllBytes)
      /\ wire \o output = accepted
  BY Zenon DEF IInv, TypeInv, TypeOK, StreamInOrder
<1> HIDE DEF data
<1>3. CASE /\ status = "kDisconnected" /\ queue' = q
           /\ UNCHANGED <<chanVars, dataVars, histVars, status, stack, asked>>
  <2>1. TypeOK' /\ TypeInv'
    BY <1>3 DEF IInv, TypeInv, TypeOK, chanVars, dataVars, histVars, fixedVars, peerVars
  <2>2. StreamInOrder' /\ OutputIsWatched'
    BY <1>3, <2>1, DataFrame, Zenon DEF IInv, chanVars
  <2>3. LifeInv'
    BY <1>3, LifeFrame, Zenon DEF IInv, lifeVars, chanVars, histVars
  <2> QED  BY <2>1, <2>2, <2>3, Zenon DEF IInv
<1>4. CASE HandleClose(q)
  BY <1>4, CloseKeeps, Zenon
<1>5. CASE /\ status # "kDisconnected" /\ direct
           /\ accepted' = accepted \o data /\ wire' = wire \o data
           /\ queue' = Append(q, Functor("wc"))
           /\ UNCHANGED <<chanVars, histVars, status, stack, output, reported, asked>>
  <2>1. wire \o <<>> = wire /\ (wire \o data) \o <<>> = wire \o data
    BY <1>1, <1>2
  <2>2. wire' \in Seq(AllBytes) /\ accepted' \in Seq(AllBytes)
    BY <1>1, <1>2, <1>5
  <2>3. /\ queue' \in Seq(Functors)
        /\ \A i \in 1..Len(queue') : queue'[i].k # "attach"
    <3>1. Functor("wc") \in Functors /\ Functor("wc").k # "attach"
      BY FunctorTypes, Zenon
    <3> QED  BY <1>5, <3>1, QueueSteps, Zenon
  <2>4. TypeOK' /\ TypeInv'
    BY <1>5, <2>2, <2>3
    DEF IInv, TypeInv, TypeOK, chanVars, histVars, fixedVars, peerVars
  <2>5. StreamInOrder'
    BY <1>2, <1>5, <2>1, <2>4, Zenon DEF StreamInOrder
  <2>6. OutputIsWatched'
    BY <1>5, Zenon DEF IInv, OutputIsWatched, chanVars
  <2>7. LifeInv'
    BY <1>5, <2>3, LifeFrame, Zenon DEF IInv, lifeVars, chanVars, histVars
  <2> QED  BY <2>4, <2>5, <2>6, <2>7, Zenon DEF IInv
<1>6. CASE /\ status # "kDisconnected" /\ direct
           /\ accepted' = accepted \o data
           /\ \E n \in 0..(MsgLen - 1) :
                /\ wire' = wire \o SubSeq(data, 1, n)
                /\ Buffer(SubSeq(data, n + 1, MsgLen), q)
           /\ UNCHANGED <<reading, timer, histVars, status, stack, asked>>
  <2>1. PICK n \in 0..(MsgLen - 1) : /\ wire' = wire \o SubSeq(data, 1, n)
                                     /\ Buffer(SubSeq(data, n + 1, MsgLen), q)
    BY <1>6, Zenon
  <2> DEFINE a == SubSeq(data, 1, n)  b == SubSeq(data, n + 1, MsgLen)
  <2>2. n \in 0..Len(data) /\ Len(data) - n > 0
    BY <1>1
  <2>3. a \in Seq(AllBytes) /\ b \in Seq(AllBytes) /\ Len(b) > 0
    BY <1>1, <2>2, Cut
  <2>4. (wire \o a) \o b = wire \o data
    BY <1>1, <1>2, <2>2, StreamMoves, Zenon
  <2>5. wire' = wire \o a /\ Buffer(b, q)
    BY <2>1, Zenon
  <2> HIDE DEF a, b
  <2>6. b # <<>> /\ wire' \in Seq(AllBytes)
    BY <1>2, <2>3, <2>5
  <2>7. output \o b = b /\ accepted = wire
    BY <1>2, <1>6, <2>3, SMTT(30)
  <2>8. accepted' \in Seq(AllBytes) /\ wire' \o (output \o b) = accepted'
    <3>1. accepted' = wire \o data
      BY <1>6, <2>7, Zenon
    <3>2. wire \o data \in Seq(AllBytes)
      BY <1>1, <1>2
    <3> QED  BY <2>4, <2>5, <2>7, <3>1, <3>2, Zenon
  <2> QED  BY <1>6, <2>3, <2>5, <2>6, <2>8, BufferKeeps, Zenon
<1>7. CASE /\ status # "kDisconnected"
           /\ accepted' = accepted \o data
           /\ Buffer(data, q)
           /\ UNCHANGED <<wire, reading, timer, histVars, status, stack, asked>>
  <2>1. data # <<>>
    BY <1>1, Zenon
  <2>2. wire' \in Seq(AllBytes) /\ accepted' \in Seq(AllBytes)
    BY <1>1, <1>2, <1>7
  <2>3. (wire \o output) \o data = wire \o (output \o data)
    <3>1. wire \in Seq(AllBytes) /\ output \in Seq(AllBytes) /\ data \in Seq(AllBytes)
      BY <1>1, <1>2, Zenon
    <3> QED  BY ONLY <3>1, Associative, Zenon
  <2>4. wire' \o (output \o data) = accepted'
    BY <1>2, <1>7, <2>3, Zenon
  <2> QED  BY <1>1, <1>7, <2>1, <2>2, <2>4, BufferKeeps, Zenon
<1> QED  BY <1>3, <1>4, <1>5, <1>6, <1>7, Zenon DEF SendInLoop, data

-----------------------------------------------------------------------------
(* The steps of the loop thread.                                           *)

\* A functor is at the head of the queue, and it is not the first one.
LEMMA ReadyFacts ==
  ASSUME IInv, NEW k, Ready(k)
  PROVE  /\ ~InDown /\ stack = <<>> /\ Tail(queue) \in Seq(Functors)
         /\ Head(queue) \in Functors /\ Head(queue).k = k
         /\ k # "attach" =>
              ups = 1 /\ \A i \in 1..Len(Tail(queue)) : Tail(queue)[i].k # "attach"
<1>1. queue \in Seq(Functors) /\ queue # <<>> /\ Head(queue).k = k /\ stack = <<>>
  BY Zenon DEF IInv, TypeInv, TypeOK, Ready
<1>2. Functor("wc") \in Functors
  BY FunctorTypes, Zenon
<1>3. Tail(queue) \in Seq(Functors) /\ Head(queue) \in Functors
  BY <1>1, <1>2, QueueSteps, Zenon
<1>4. ASSUME k # "attach" PROVE ups = 1
  <2>1. Head(<<Functor("attach")>>).k = "attach"
    BY DEF Functor
  <2> QED  BY <1>1, <1>4, <2>1, Zenon DEF IInv, LifeInv, Unattached
<1>5. ups = 1 => \A i \in 1..Len(Tail(queue)) : Tail(queue)[i].k # "attach"
  BY <1>1, <1>2, QueueSteps, Zenon DEF IInv, LifeInv
<1> QED  BY <1>1, <1>3, <1>4, <1>5, Zenon DEF InDown

\* An enabled event or a set timer means that the connection is attached and that it
\* has not been lost.
LEMMA AwakeFacts ==
  ASSUME IInv, ~Quiet
  PROVE  /\ ups = 1 /\ ~InDown /\ downs = 0
         /\ queue \in Seq(Functors) /\ \A i \in 1..Len(queue) : queue[i].k # "attach"
<1>1. ups = 1
  BY Zenon DEF IInv, LifeInv, Unattached
<1>2. downs \in Nat /\ queue \in Seq(Functors)
  BY Zenon DEF IInv, TypeInv, TypeOK
<1>3. downs = 0
  BY <1>2 DEF IInv, LifeInv
<1>4. ~InDown
  BY <1>3 DEF IInv, LifeInv
<1> QED  BY <1>1, <1>2, <1>3, <1>4, Zenon DEF IInv, LifeInv

\* OnAttachedToLoop.
LEMMA AttachKeeps ==
  ASSUME IInv, OnAttachedToLoop
  PROVE  IInv'
<1>1. Head(queue).k = "attach" /\ Tail(queue) \in Seq(Functors) /\ stack = <<>>
  BY ReadyFacts, Zenon DEF OnAttachedToLoop
<1>2. ups = 0
  <2>1. queue # <<>> /\ queue \in Seq(Functors)
    BY Zenon DEF OnAttachedToLoop, Ready, IInv, TypeInv, TypeOK
  <2>2. 1 \in 1..Len(queue) /\ Head(queue) = queue[1]
    BY <2>1
  <2> QED  BY <1>1, <2>2, Zenon DEF IInv, LifeInv
<1>3. queue = <<Functor("attach")>> /\ Quiet /\ downs = 0 /\ removed = 0
  BY <1>2, Zenon DEF IInv, LifeInv, Unattached
<1>4. /\ queue' = <<>> /\ status' = "kConnected" /\ reading' = TRUE
      /\ stack' = <<"up">> /\ ups' = 1
      /\ UNCHANGED <<fixedVars, dataVars, peerVars, chan, writing, timer, tpc,
                     sent, downs, removed, asked>>
  BY <1>2, <1>3 DEF OnAttachedToLoop
<1>5. TypeOK' /\ TypeInv'
  BY <1>4 DEF IInv, TypeInv, TypeOK, fixedVars, dataVars, peerVars
<1>6. StreamInOrder' /\ OutputIsWatched'
  BY <1>4, <1>5, DataFrame, Zenon DEF IInv
<1>7. LifeInv'
  <2>1. ~InDown'
    BY <1>4, Zenon DEF InDown, Last
  <2>2. Len(queue') = 0 /\ Len(stack') = 1 /\ stack'[1] = "up"
    BY <1>4, Zenon
  <2> QED  BY <1>3, <1>4, <2>1, <2>2 DEF LifeInv
<1> QED  BY <1>5, <1>6, <1>7, Zenon DEF IInv

\* SendStringInLoop.
LEMMA SendStringKeeps ==
  ASSUME IInv, SendStringInLoop
  PROVE  IInv'
<1>1. /\ Tail(queue) \in Seq(Functors) /\ ups = 1
      /\ Head(queue) \in Functors /\ Head(queue).k = "send"
      /\ \A i \in 1..Len(Tail(queue)) : Tail(queue)[i].k # "attach"
  BY ReadyFacts DEF SendStringInLoop
<1>2. Head(queue).m \in Messages
  BY <1>1, FunctorTypes, Zenon
<1>3. sent' \subseteq Messages
  BY Zenon DEF SendStringInLoop, IInv, TypeInv, TypeOK
<1> QED  BY <1>1, <1>2, <1>3, SendKeeps, Zenon DEF SendStringInLoop

\* A functor that leaves everything but the queue alone.
LEMMA PopKeeps ==
  ASSUME IInv, NEW k, Ready(k), k # "attach", queue' = Tail(queue),
         UNCHANGED <<fixedVars, chanVars, dataVars, peerVars, histVars, status,
                     stack, tpc, sent, asked>>
  PROVE  IInv'
<1>1. /\ Tail(queue) \in Seq(Functors) /\ ups = 1
      /\ \A i \in 1..Len(Tail(queue)) : Tail(queue)[i].k # "attach"
  BY ReadyFacts, Zenon
<1>2. TypeOK' /\ TypeInv'
  BY <1>1 DEF IInv, TypeInv, TypeOK, fixedVars, chanVars, dataVars, peerVars, histVars
<1>3. StreamInOrder' /\ OutputIsWatched'
  BY <1>2, DataFrame, Zenon DEF IInv, chanVars
<1>4. LifeInv'
  BY <1>1, LifeFrame, Zenon DEF IInv, lifeVars, chanVars, histVars
<1> QED  BY <1>2, <1>3, <1>4, Zenon DEF IInv

\* The functor of Close.
LEMMA CloseFunctorKeeps ==
  ASSUME IInv, CloseFunctor
  PROVE  IInv'
<1>1. /\ Tail(queue) \in Seq(Functors) /\ ups = 1
      /\ \A i \in 1..Len(Tail(queue)) : Tail(queue)[i].k # "attach"
  BY ReadyFacts DEF CloseFunctor
<1>2. sent' \subseteq Messages
  BY Zenon DEF CloseFunctor, IInv, TypeInv, TypeOK
<1>3. CASE HandleClose(Tail(queue))
  BY <1>1, <1>2, <1>3, CloseKeeps, Zenon DEF CloseFunctor
<1>4. CASE /\ queue' = Tail(queue)
           /\ UNCHANGED <<chanVars, dataVars, histVars, status, stack, asked>>
  BY <1>4, PopKeeps, Zenon DEF CloseFunctor
<1> QED  BY <1>3, <1>4, Zenon DEF CloseFunctor

\* A callback is entered on the empty stack, and nothing else changes.
LEMMA EnterKeeps ==
  ASSUME IInv, NEW f \in Frames \ {"down"}, stack = <<>>, stack' = <<f>>, ups = 1,
         \A i \in 1..Len(queue') : queue'[i].k # "attach",
         UNCHANGED <<chanVars, dataVars, histVars, status, asked>>, TypeInv'
  PROVE  IInv'
<1>1. ~InDown /\ ~InDown' /\ \A i \in 1..Len(stack') : stack'[i] # "down"
  BY DEF InDown, Last
<1>2. (Quiet' <=> Quiet) /\ (Again' <=> Again) /\ chan' = chan
  BY Zenon DEF Quiet, Again, chanVars
<1>3. LifeInv'
  BY <1>1, <1>2 DEF IInv, LifeInv, histVars
<1>4. StreamInOrder' /\ OutputIsWatched'
  BY DataFrame, Zenon DEF IInv, TypeInv, chanVars
<1> QED  BY <1>3, <1>4, Zenon DEF IInv

\* write_complete_fn_ and high_water_mark_fn_.
LEMMA CallbackKeeps ==
  ASSUME IInv, NEW k \in {"wc", "hwm"}, Callback(k)
  PROVE  IInv'
<1>1. /\ Tail(queue) \in Seq(Functors) /\ ups = 1 /\ stack = <<>>
      /\ \A i \in 1..Len(Tail(queue)) : Tail(queue)[i].k # "attach"
  BY ReadyFacts, Zenon DEF Callback
<1>2. stack' = <<k>> /\ k \in Frames \ {"down"} /\ stack' \in Seq(Frames)
  BY DEF Callback, Frames
<1>3. TypeInv'
  BY <1>1, <1>2
  DEF Callback, IInv, TypeInv, TypeOK, fixedVars, chanVars, dataVars, peerVars,
      histVars, Frames
<1> QED  BY <1>1, <1>2, <1>3, EnterKeeps, Zenon DEF Callback

\* A message arrives.
LEMMA ReadDataKeeps ==
  ASSUME IInv, HandleReadData
  PROVE  IInv'
<1>1. stack = <<>> /\ ~Quiet
  BY Zenon DEF HandleReadData, CanHandle, Quiet
<1>2. ups = 1 /\ \A i \in 1..Len(queue) : queue[i].k # "attach"
  BY <1>1, AwakeFacts, Zenon
<1>3. stack' = <<"msg">> /\ "msg" \in Frames \ {"down"} /\ stack' \in Seq(Frames)
  BY DEF HandleReadData, Frames
<1>4. unread' \in 0..arrived
  BY DEF HandleReadData, IInv, TypeInv, TypeOK
<1>5. TypeInv'
  BY <1>3, <1>4
  DEF HandleReadData, IInv, TypeInv, TypeOK, fixedVars, chanVars, dataVars,
      histVars, Frames
<1> QED  BY <1>1, <1>2, <1>3, <1>5, EnterKeeps, Zenon DEF HandleReadData

\* The handlers that end in HandleClose.
LEMMA LostKeeps ==
  ASSUME IInv, ~Quiet, HandleClose(queue), UNCHANGED <<fixedVars, peerVars, tpc, sent>>
  PROVE  IInv'
<1>1. /\ ups = 1
      /\ queue \in Seq(Functors) /\ \A i \in 1..Len(queue) : queue[i].k # "attach"
  BY AwakeFacts, Zenon
<1>2. sent' \subseteq Messages
  BY Zenon DEF IInv, TypeInv, TypeOK
<1> QED  BY <1>1, <1>2, CloseKeeps, Zenon

\* The peer has closed.
LEMMA ReadEOFKeeps ==
  ASSUME IInv, HandleReadEOF
  PROVE  IInv'
<1>1. stack = <<>> /\ ~Quiet /\ reading
  BY Zenon DEF HandleReadEOF, CanHandle, Quiet
<1>2. CASE HandleClose(queue)
  BY <1>1, <1>2, LostKeeps, Zenon DEF HandleReadEOF
<1>3. CASE /\ reading' = FALSE /\ timer' = TRUE
           /\ UNCHANGED <<chan, writing, dataVars, histVars, status, queue, stack, asked>>
  <2>1. /\ ups = 1 /\ ~InDown /\ downs = 0
        /\ \A i \in 1..Len(queue) : queue[i].k # "attach"
    BY <1>1, AwakeFacts, Zenon
  <2>2. TypeOK' /\ TypeInv'
    <3>1. UNCHANGED <<fixedVars, peerVars, tpc, sent, asked>>
      BY <1>3, Zenon DEF HandleReadEOF
    <3>2. TypeOK /\ tpc \in [Threads -> CallsInProgress]
      BY Zenon DEF IInv, TypeInv
    <3>3. TypeOK'
      BY <1>3, <3>1, <3>2, Zenon DEF TypeOK, fixedVars, dataVars, peerVars, histVars
    <3> QED  BY <3>1, <3>2, <3>3, Zenon DEF TypeInv
  <2>3. StreamInOrder' /\ OutputIsWatched'
    BY <1>3, <2>2, DataFrame, Zenon DEF IInv
  <2>4. ~InDown' /\ (Again' <=> Again)
    BY <1>3, <2>1, Zenon DEF InDown, Again
  <2>5. LifeInv'
    <3>1. UNCHANGED <<ups, downs, removed, status, queue, stack, asked>>
      BY <1>3, Zenon DEF histVars
    <3> QED  BY <2>1, <2>4, <3>1 DEF IInv, LifeInv
  <2> QED  BY <2>2, <2>3, <2>5, Zenon DEF IInv
<1> QED  BY <1>2, <1>3, Zenon DEF HandleReadEOF

\* Reading fails.
LEMMA ReadErrorKeeps ==
  ASSUME IInv, HandleReadError
  PROVE  IInv'
<1>1. stack = <<>> /\ ~Quiet
  BY Zenon DEF HandleReadError, CanHandle, Quiet
<1> QED  BY <1>1, LostKeeps, Zenon DEF HandleReadError

\* The delay timer fires.
LEMMA DelayCloseKeeps ==
  ASSUME IInv, DelayClose
  PROVE  IInv'
<1>1. stack = <<>> /\ ~Quiet
  BY Zenon DEF DelayClose, Quiet
<1> QED  BY <1>1, LostKeeps, Zenon DEF DelayClose

\* Writing fails.
LEMMA WriteErrorKeeps ==
  ASSUME IInv, HandleWriteError
  PROVE  IInv'
<1>1. stack = <<>> /\ ~Quiet
  BY Zenon DEF HandleWriteError, CanHandle, Quiet
<1> QED  BY <1>1, LostKeeps, Zenon DEF HandleWriteError

\* HandleWrite sends from the output buffer.
LEMMA WriteKeeps ==
  ASSUME IInv, HandleWrite
  PROVE  IInv'
<1>1. /\ stack = <<>> /\ ~Quiet /\ chan = "open" /\ writing
      /\ writing' = (output' # <<>>)
      /\ queue' = IF output' = <<>> THEN Append(queue, Functor("wc")) ELSE queue
      /\ reported' = (reported /\ Len(output') >= Mark)
      /\ UNCHANGED <<fixedVars, peerVars, histVars, chan, reading, timer, status,
                     stack, tpc, sent, accepted, asked>>
  BY Zenon DEF HandleWrite, CanHandle, Quiet
<1>2. /\ ups = 1 /\ ~InDown /\ downs = 0
      /\ queue \in Seq(Functors) /\ \A i \in 1..Len(queue) : queue[i].k # "attach"
  BY <1>1, AwakeFacts, Zenon
<1>3. /\ output \in Seq(AllBytes) /\ wire \in Seq(AllBytes) /\ accepted \in Seq(AllBytes)
      /\ wire \o output = accepted
  BY Zenon DEF IInv, TypeInv, TypeOK, StreamInOrder
<1>4. PICK n \in 1..Len(output) : /\ wire' = wire \o SubSeq(output, 1, n)
                                  /\ output' = SubSeq(output, n + 1, Len(output))
  BY Zenon DEF HandleWrite
<1> DEFINE a == SubSeq(output, 1, n)  b == SubSeq(output, n + 1, Len(output))
<1>5. n \in 0..Len(output)
  BY <1>3
<1>6. /\ a \in Seq(AllBytes) /\ b \in Seq(AllBytes) /\ Len(b) = Len(output) - n
      /\ (wire \o a) \o b = wire \o output /\ wire' = wire \o a /\ output' = b
  BY <1>3, <1>4, <1>5, Cut, StreamMoves, Zenon
<1> HIDE DEF a, b
<1>7. wire' \in Seq(AllBytes) /\ output' \in Seq(AllBytes) /\ wire' \o output' = accepted'
  <2>1. wire \o a \in Seq(AllBytes)
    BY <1>3, <1>6
  <2>2. accepted' = wire \o output
    BY <1>1, <1>3, Zenon
  <2> QED  BY <1>6, <2>1, <2>2, Zenon
<1>8. /\ queue' \in Seq(Functors)
      /\ \A i \in 1..Len(queue') : queue'[i].k # "attach"
  <2>1. Functor("wc") \in Functors /\ Functor("wc").k # "attach"
    BY FunctorTypes, Zenon
  <2> QED  BY <1>1, <1>2, <2>1, QueueSteps, Zenon
<1>9. TypeOK' /\ TypeInv'
  <2>1. reported' \in BOOLEAN /\ writing' \in BOOLEAN
    BY <1>1, Zenon
  <2> QED
    BY <1>1, <1>7, <1>8, <2>1 DEF IInv, TypeInv, TypeOK, fixedVars, peerVars, histVars
<1>10. StreamInOrder'
  BY <1>7, <1>9, Zenon DEF StreamInOrder
<1>11. OutputIsWatched'
  <2>1. Len(output') >= Mark => reported
    <3>1. Len(output) \in Nat /\ Len(output') <= Len(output)
      BY <1>3, <1>5, <1>6
    <3>2. Len(output') \in Nat
      BY <1>7
    <3> QED  BY <3>1, <3>2, ConnAssumption DEF IInv, OutputIsWatched
  <2>2. Len(output') >= Mark => reported'
    BY <1>1, <2>1, Zenon
  <2>3. writing' <=> output' # <<>>
    BY <1>1, Zenon
  <2> QED  BY <2>2, <2>3, Zenon DEF OutputIsWatched
<1>12. LifeInv'
  <2>1. ~InDown' /\ (Again' <=> Again)
    BY <1>1, <1>2, Zenon DEF InDown, Again
  <2> QED  BY <1>1, <1>2, <1>8, <2>1 DEF IInv, LifeInv, histVars
<1> QED  BY <1>9, <1>10, <1>11, <1>12, Zenon DEF IInv

-----------------------------------------------------------------------------
(* The user on the loop thread.                                            *)

\* The connection has been announced.
LEMMA AttachedFacts ==
  ASSUME IInv, ups > 0
  PROVE  /\ ups = 1 /\ queue \in Seq(Functors)
         /\ \A i \in 1..Len(queue) : queue[i].k # "attach"
BY DEF IInv, LifeInv, TypeInv, TypeOK

\* The user sends.
LEMMA SendInPlaceKeeps ==
  ASSUME IInv, NEW m \in Messages, SendInPlace(m)
  PROVE  IInv'
<1>1. /\ ups = 1 /\ queue \in Seq(Functors)
      /\ \A i \in 1..Len(queue) : queue[i].k # "attach"
  BY AttachedFacts, Zenon DEF SendInPlace
<1>2. sent' \subseteq Messages
  BY Zenon DEF SendInPlace, IInv, TypeInv, TypeOK
<1> QED  BY <1>1, <1>2, SendKeeps, Zenon DEF SendInPlace

\* The user closes the connection, in one of its callbacks or elsewhere.
LEMMA CloseInPlaceKeeps ==
  ASSUME IInv, CloseInPlace
  PROVE  IInv'
<1>1. /\ ups = 1 /\ queue \in Seq(Functors)
      /\ \A i \in 1..Len(queue) : queue[i].k # "attach"
  BY AttachedFacts, Zenon DEF CloseInPlace
<1>2. sent' \subseteq Messages
  BY Zenon DEF CloseInPlace, IInv, TypeInv, TypeOK
<1> QED  BY <1>1, <1>2, CloseKeeps, Zenon DEF CloseInPlace

\* A callback returns; the one for the loss ends HandleClose.
LEMMA ReturnKeeps ==
  ASSUME IInv, Return
  PROVE  IInv'
<1>1. /\ stack # <<>> /\ stack' = Front(stack)
      /\ IF Last(stack) = "down" THEN Closed ELSE UNCHANGED <<status, histVars>>
      /\ asked' = IF asked = "nested" /\ stack' = <<>> THEN "late" ELSE asked
      /\ UNCHANGED <<fixedVars, chanVars, dataVars, peerVars, queue, tpc, sent>>
  BY Zenon DEF Return
<1>2. stack \in Seq(Frames)
  BY Zenon DEF IInv, TypeInv, TypeOK, Frames
<1>3. /\ stack' \in Seq(Frames) /\ Len(stack') = Len(stack) - 1
      /\ \A i \in 1..Len(stack') : i \in 1..(Len(stack) - 1) /\ stack'[i] = stack[i]
      /\ stack' # <<>> => /\ Last(stack') = stack[Len(stack) - 1]
                          /\ Len(stack) - 1 \in 1..Len(stack)
  BY <1>1, <1>2, StackPop, Zenon
<1>4. Len(stack) \in Nat \ {0} /\ removed \in Nat /\ downs \in Nat
  BY <1>1, <1>2 DEF IInv, TypeInv, TypeOK
<1>5. TypeOK' /\ TypeInv'
  <2>1. asked' \in {"no", "yes", "late", "nested"}
    BY <1>1, Zenon DEF IInv, TypeInv, TypeOK
  <2> QED
    BY <1>1, <1>3, <1>4, <2>1, SMTT(30)
    DEF Closed, IInv, TypeInv, TypeOK, fixedVars, chanVars, dataVars, peerVars,
        histVars, Frames
<1>6. StreamInOrder' /\ OutputIsWatched'
  BY <1>1, <1>5, DataFrame, Zenon DEF IInv, chanVars
<1>7. LifeInv'
  <2>1. /\ stack' # <<>> => asked' = asked
        /\ (Again' <=> Again) /\ (asked' = "no" => asked = "no")
    BY <1>1, Zenon DEF Again
  <2>2. InDown' => Last(stack) = "down" /\ asked = "nested" /\ asked' = "nested"
    <3>1. SUFFICES ASSUME InDown' PROVE Last(stack) = "down" /\ asked = "nested"
      BY <2>1, Zenon DEF InDown
    <3>2. /\ stack[Len(stack) - 1] = "down" /\ Len(stack) - 1 \in 1..Len(stack)
          /\ Len(stack) \in 1..Len(stack) /\ Len(stack) - 1 < Len(stack)
      BY <1>3, <1>4, <3>1 DEF InDown
    <3> QED  BY <3>2, Zenon DEF IInv, LifeInv, Last
  <2>3. ASSUME NEW i \in 1..Len(stack'), NEW j \in 1..Len(stack'), i < j, stack'[i] = "down"
        PROVE  stack'[j] = "down" /\ asked' = "nested"
    <3>1. i \in 1..Len(stack) /\ j \in 1..Len(stack) /\ stack' # <<>>
      BY <1>3, <1>4
    <3> QED  BY <1>3, <2>1, <2>3, <3>1, Zenon DEF IInv, LifeInv
  <2>4. /\ (Quiet' <=> Quiet) /\ chan' = chan /\ ups = 1 /\ ups' = 1 /\ downs' = downs
        /\ queue' = queue
    BY <1>1, Zenon DEF Quiet, chanVars, histVars, Closed, IInv, LifeInv, Unattached
  <2>5. LifeInv
    BY Zenon DEF IInv
  <2>6. CASE Last(stack) = "down"
    <3>1. InDown /\ removed' = removed + 1 /\ status' = "kDisconnected"
      BY <1>1, <2>6, Zenon DEF InDown, Closed
    <3>2. downs > 0 /\ downs # 0 /\ (~Again => downs = 1 /\ removed = 0)
      BY <3>1, <1>4, <2>5 DEF LifeInv
    <3>3. ~Again' => downs' = 1 /\ removed' = 1 /\ ~InDown'
      BY <2>1, <2>2, <2>4, <3>1, <3>2 DEF Again
    <3> QED  BY <2>2, <2>3, <2>4, <2>5, <3>1, <3>2, <3>3 DEF LifeInv
  <2>7. CASE Last(stack) # "down"
    <3>1. ~InDown /\ ~InDown' /\ UNCHANGED <<status, removed>>
      BY <1>1, <2>2, <2>7, Zenon DEF InDown, histVars
    <3>2. ups' # 0
      BY <2>4
    <3> QED  BY <2>1, <2>3, <2>4, <2>5, <3>1, <3>2, Zenon DEF LifeInv
  <2> QED  BY <2>6, <2>7, Zenon
<1> QED  BY <1>5, <1>6, <1>7, Zenon DEF IInv

-----------------------------------------------------------------------------
(* The other threads and the peer.                                         *)

\* A step of another thread that leaves the status alone.
LEMMA ThreadFrame ==
  ASSUME IInv, ups = 1, tpc' \in [Threads -> CallsInProgress],
         queue' \in Seq(Functors), \A i \in 1..Len(queue') : queue'[i].k # "attach",
         sent' \subseteq Messages,
         UNCHANGED <<fixedVars, chanVars, dataVars, peerVars, histVars, status,
                     stack, asked>>
  PROVE  IInv'
<1>1. \A t \in Threads : tpc'[t].at \in {"idle", "send", "close", "post"}
  BY Zenon DEF CallsInProgress
<1>2. TypeOK' /\ TypeInv'
  BY <1>1, SMTT(30) DEF IInv, TypeInv, TypeOK, fixedVars, chanVars, dataVars, peerVars, histVars
<1>3. StreamInOrder' /\ OutputIsWatched'
  BY <1>2, DataFrame, Zenon DEF IInv, chanVars
<1>4. LifeInv'
  BY LifeFrame, Zenon DEF IInv, lifeVars, chanVars, histVars
<1> QED  BY <1>2, <1>3, <1>4, Zenon DEF IInv

\* A thread that has begun a call has seen the connection attached.
LEMMA ThreadFacts ==
  ASSUME IInv, NEW t \in Threads, ups > 0 \/ tpc[t].at # "idle"
  PROVE  /\ ups = 1 /\ queue \in Seq(Functors) /\ sent \subseteq Messages
         /\ \A i \in 1..Len(queue) : queue[i].k # "attach"
         /\ tpc \in [Threads -> CallsInProgress]
         /\ \A m \in Messages : [at |-> "send", msg |-> m] \in CallsInProgress
         /\ \A k \in {"idle", "close", "post"} : [at |-> k] \in CallsInProgress
<1>1. Idle.at = "idle"
  BY Zenon DEF Idle
<1>2. ups = 1
  BY <1>1, SMTT(30) DEF IInv, LifeInv, Unattached
<1> QED  BY <1>2, Zenon DEF IInv, LifeInv, TypeInv, TypeOK, CallsInProgress

\* Send, from another thread.
LEMMA ThreadSendKeeps ==
  ASSUME IInv, NEW t \in Threads, NEW m \in Messages, Send(t, m)
  PROVE  IInv'
<1>1. /\ ups = 1 /\ queue \in Seq(Functors) /\ sent \subseteq Messages
      /\ \A i \in 1..Len(queue) : queue[i].k # "attach"
      /\ tpc \in [Threads -> CallsInProgress]
      /\ [at |-> "send", msg |-> m] \in CallsInProgress
  BY ThreadFacts, Zenon DEF Send
<1>2. tpc' \in [Threads -> CallsInProgress] /\ sent' \subseteq Messages
  BY <1>1, Zenon DEF Send
<1> QED  BY <1>1, <1>2, ThreadFrame, Zenon DEF Send

\* The functor of Send is posted.
LEMMA PostSendKeeps ==
  ASSUME IInv, NEW t \in Threads, PostSend(t)
  PROVE  IInv'
<1>1. /\ ups = 1 /\ queue \in Seq(Functors) /\ sent \subseteq Messages
      /\ \A i \in 1..Len(queue) : queue[i].k # "attach"
      /\ tpc \in [Threads -> CallsInProgress] /\ Idle \in CallsInProgress
  BY ThreadFacts, Zenon DEF PostSend, Idle
<1>2. tpc[t].msg \in Messages
  BY <1>1, Zenon DEF PostSend, CallsInProgress
<1>3. SendFunctor(tpc[t].msg) \in Functors /\ SendFunctor(tpc[t].msg).k # "attach"
  BY <1>2, FunctorTypes, Zenon
<1>4. /\ queue' \in Seq(Functors)
      /\ \A i \in 1..Len(queue') : queue'[i].k # "attach"
  BY <1>1, <1>3, QueueSteps, Zenon DEF PostSend
<1>5. tpc' \in [Threads -> CallsInProgress]
  BY <1>1, Zenon DEF PostSend
<1> QED  BY <1>1, <1>4, <1>5, ThreadFrame, Zenon DEF PostSend

\* A thread has seen IsConnected().
LEMMA TestConnectedKeeps ==
  ASSUME IInv, NEW t \in Threads, TestConnected(t)
  PROVE  IInv'
<1>1. /\ ups = 1 /\ queue \in Seq(Functors) /\ sent \subseteq Messages
      /\ \A i \in 1..Len(queue) : queue[i].k # "attach"
      /\ tpc \in [Threads -> CallsInProgress] /\ [at |-> "close"] \in CallsInProgress
  BY ThreadFacts, Zenon DEF TestConnected
<1>2. tpc' \in [Threads -> CallsInProgress]
  BY <1>1, Zenon DEF TestConnected
<1> QED  BY <1>1, <1>2, ThreadFrame, Zenon DEF TestConnected

\* Close stores kDisconnecting, whatever the loop thread is doing.
LEMMA ThreadCloseKeeps ==
  ASSUME IInv, NEW t \in Threads, Close(t)
  PROVE  IInv'
<1>1. /\ ups = 1 /\ queue \in Seq(Functors) /\ sent \subseteq Messages
      /\ \A i \in 1..Len(queue) : queue[i].k # "attach"
      /\ tpc \in [Threads -> CallsInProgress] /\ [at |-> "post"] \in CallsInProgress
  BY ThreadFacts, Zenon DEF Close
<1>2. /\ status' = "kDisconnecting"
      /\ asked' = IF asked \in {"late", "nested"} THEN asked
                  ELSE IF status = "kDisconnected" THEN "late" ELSE "yes"
      /\ tpc' \in [Threads -> CallsInProgress]
      /\ UNCHANGED <<fixedVars, chanVars, dataVars, peerVars, histVars, queue,
                     stack, sent>>
  BY <1>1, Zenon DEF Close
<1>3. \A u \in Threads : tpc'[u].at \in {"idle", "send", "close", "post"}
  BY <1>2, Zenon DEF CallsInProgress
<1>4. TypeOK' /\ TypeInv'
  BY <1>2, <1>3
  DEF IInv, TypeInv, TypeOK, fixedVars, chanVars, dataVars, peerVars, histVars
<1>5. StreamInOrder' /\ OutputIsWatched'
  BY <1>2, <1>4, DataFrame, Zenon DEF IInv, chanVars
<1>6. LifeInv'
  <2>1. (InDown' <=> InDown) /\ (Quiet' <=> Quiet) /\ chan' = chan
    BY <1>2, Zenon DEF InDown, Quiet, chanVars
  <2>2. /\ asked' # "no" /\ (asked = "nested" => asked' = "nested")
        /\ ~Again' => ~Again /\ status # "kDisconnected"
    BY <1>2, Zenon DEF Again
  <2>3. /\ ups' = 1 /\ downs' = downs /\ removed' = removed
        /\ queue' = queue /\ stack' = stack
    BY <1>1, <1>2, Zenon DEF histVars
  <2>4. LifeInv
    BY Zenon DEF IInv
  <2>5. ~Again' /\ downs > 0 => downs = 1 /\ removed = 0 /\ InDown
    BY <2>2, <2>4, Zenon DEF LifeInv
  <2> QED  BY <1>1, <1>2, <2>1, <2>2, <2>3, <2>4, <2>5 DEF LifeInv
<1> QED  BY <1>4, <1>5, <1>6, Zenon DEF IInv

\* The functor of Close is posted.
LEMMA PostCloseKeeps ==
  ASSUME IInv, NEW t \in Threads, PostClose(t)
  PROVE  IInv'
<1>1. /\ ups = 1 /\ queue \in Seq(Functors) /\ sent \subseteq Messages
      /\ \A i \in 1..Len(queue) : queue[i].k # "attach"
      /\ tpc \in [Threads -> CallsInProgress] /\ Idle \in CallsInProgress
  BY ThreadFacts, Zenon DEF PostClose, Idle
<1>2. Functor("close") \in Functors /\ Functor("close").k # "attach"
  BY FunctorTypes, Zenon
<1>3. /\ queue' \in Seq(Functors)
      /\ \A i \in 1..Len(queue') : queue'[i].k # "attach"
  BY <1>1, <1>2, QueueSteps, Zenon DEF PostClose
<1>4. tpc' \in [Threads -> CallsInProgress]
  BY <1>1, Zenon DEF PostClose
<1> QED  BY <1>1, <1>3, <1>4, ThreadFrame, Zenon DEF PostClose

\* The peer, which touches nothing of the connection's.
LEMMA PeerKeeps ==
  ASSUME IInv, PeerSends \/ PeerCloses
  PROVE  IInv'
<1>1. UNCHANGED <<fixedVars, chanVars, dataVars, histVars, status, queue,
                  stack, tpc, sent, asked>>
  BY Zenon DEF PeerSends, PeerCloses
<1>2. /\ peer' \in {"open", "fin", "reset"} /\ arrived' \in 0..MaxReads
      /\ unread' \in 0..arrived'
  BY ConnAssumption DEF PeerSends, PeerCloses, IInv, TypeInv, TypeOK
<1>3. TypeOK' /\ TypeInv'
  BY <1>1, <1>2, SMTT(30) DEF IInv, TypeInv, TypeOK, fixedVars, chanVars, dataVars, histVars
<1>4. StreamInOrder' /\ OutputIsWatched'
  BY <1>1, <1>3, DataFrame, Zenon DEF IInv, chanVars
<1>5. LifeInv'
  <2>1. /\ (InDown' <=> InDown) /\ (Quiet' <=> Quiet) /\ (Unattached' <=> Unattached)
        /\ (Again' <=> Again) /\ chan' = chan
    BY <1>1, Zenon DEF InDown, Quiet, Unattached, Again, chanVars, histVars
  <2> QED  BY <1>1, <2>1, Zenon DEF IInv, LifeInv, histVars
<1> QED  BY <1>3, <1>4, <1>5, Zenon DEF IInv

-----------------------------------------------------------------------------
(* The invariant and what follows from it.                                 *)

\* The invariant holds at first.
LEMMA Starts == Init => IInv
<1> SUFFICES ASSUME Init PROVE IInv
  BY Zenon
<1>1. queue \in Seq(Functors) /\ <<>> \in Seq(AllBytes)
  BY FunctorTypes DEF Init
<1>2. tpc \in [Threads -> CallsInProgress]
  BY Zenon DEF Init, Idle, CallsInProgress
<1>3. TypeOK
  <2>1. \A t \in Threads : tpc[t].at = "idle"
    BY Zenon DEF Init, Idle
  <2>2. stack \in Seq({"up", "msg", "wc", "hwm", "down"})
    BY DEF Init
  <2>3. unread \in 0..arrived /\ arrived \in 0..MaxReads
    BY ConnAssumption DEF Init
  <2> QED  BY <1>1, <1>2, <2>1, <2>2, <2>3, Zenon DEF Init, TypeOK
<1>4. StreamInOrder
  BY <1>3 DEF StreamInOrder, Init
<1>5. OutputIsWatched
  BY ConnAssumption DEF OutputIsWatched, Init
<1>6. LifeInv
  BY DEF LifeInv, Unattached, Quiet, InDown, Init
<1> QED  BY <1>2, <1>3, <1>4, <1>5, <1>6, Zenon DEF IInv, TypeInv

\* Every step keeps the invariant.
LEMMA Keeps == IInv /\ [Next]_vars => IInv'
<1> SUFFICES ASSUME IInv, [Next]_vars PROVE IInv'
  BY Zenon
<1>1. CASE LoopStep
  BY <1>1, AttachKeeps, SendStringKeeps, CloseFunctorKeeps, CallbackKeeps,
     ReadDataKeeps, ReadEOFKeeps, ReadErrorKeeps, DelayCloseKeeps, WriteErrorKeeps,
     ReturnKeeps, Zenon
  DEF LoopStep
<1>2. CASE HandleWrite \/ CloseInPlace
  BY <1>2, WriteKeeps, CloseInPlaceKeeps, Zenon
<1>3. CASE \E m \in Messages : SendInPlace(m)
  BY <1>3, SendInPlaceKeeps, Zenon
<1>4. ASSUME NEW t \in Threads,
             ThreadStep(t) \/ TestConnected(t) \/ \E m \in Messages : Send(t, m)
      PROVE  IInv'
  BY <1>4, PostSendKeeps, ThreadCloseKeeps, PostCloseKeeps, TestConnectedKeeps,
     ThreadSendKeeps, Zenon
  DEF ThreadStep
<1>5. CASE PeerSends \/ PeerCloses
  BY <1>5, PeerKeeps, Zenon
<1>6. CASE UNCHANGED vars
  <2>1. TypeOK' /\ TypeInv'
    BY <1>6
    DEF vars, fixedVars, chanVars, dataVars, peerVars, histVars, IInv, TypeInv, TypeOK
  <2>2. StreamInOrder' /\ OutputIsWatched'
    BY <1>6, <2>1, DataFrame, Zenon DEF IInv, vars, chanVars
  <2>3. /\ (Quiet' <=> Quiet) /\ (InDown' <=> InDown) /\ (Unattached' <=> Unattached)
        /\ (Again' <=> Again) /\ chan' = chan
    BY <1>6, Zenon DEF vars, chanVars, histVars, Quiet, InDown, Unattached, Again
  <2>4. UNCHANGED <<histVars, status, queue, stack, asked>>
    BY <1>6, Zenon DEF vars
  <2>5. LifeInv'
    BY <2>3, <2>4, Zenon DEF IInv, LifeInv, histVars
  <2> QED  BY <2>1, <2>2, <2>5, Zenon DEF IInv
<1> QED  BY <1>1, <1>2, <1>3, <1>4, <1>5, <1>6, Zenon DEF Next

\* The inductive invariant holds in every state that is reached.
LEMMA Inductive == Spec => []IInv
BY Starts, Keeps, PTL DEF Spec

\* The bytes that SendInLoop has taken over are those that the kernel has taken
\* followed by those in the output buffer: direct and deferred writes
\* (tcp_conn.cc:156-210, 251-275) form one stream, whatever the length of the messages.
THEOREM StreamStaysInOrder == Spec => []StreamInOrder
<1>1. IInv => StreamInOrder
  BY Zenon DEF IInv
<1> QED  BY <1>1, Inductive, PTL

\* The write event is enabled exactly while there is output, and the user has been
\* told whenever the buffer holds the high-water mark or more, for any mark.
THEOREM OutputAlwaysWatched == Spec => []OutputIsWatched
<1>1. IInv => OutputIsWatched
  BY Zenon DEF IInv
<1> QED  BY <1>1, Inductive, PTL

\* The callbacks find the status they are promised, unless the callback for the loss
\* closes the connection again, and a connection that was dropped has no event and no
\* timer, for any number of threads that send and close.
THEOREM StatusAlwaysTrue == Spec => []StatusIsTrue
<1>1. ASSUME IInv PROVE StatusIsTrue
  <2>1. downs \in Nat /\ removed \in Nat
    BY <1>1, Zenon DEF IInv, TypeInv, TypeOK
  <2>2. removed > 0 => downs > 0
    BY <1>1, <2>1 DEF IInv, LifeInv
  <2> QED  BY <1>1, <2>2, Zenon DEF IInv, LifeInv, StatusIsTrue, InDown, Quiet, Unattached
<1> QED  BY <1>1, Inductive, PTL

-----------------------------------------------------------------------------
(* TCPConn takes the steps of Connection.                                  *)

\* HandleClose is the step that reports the loss.
LEMMA CloseIsDown ==
  ASSUME IInv, NEW q, HandleClose(q), ups = 1, downs = 0
  PROVE  C!Down
<1>1. /\ ups' = 1 /\ downs' = 1 /\ removed' = 0 /\ removed = 0
      /\ accepted' = accepted /\ wire' = wire
  BY DEF HandleClose, dataVars, IInv, LifeInv
<1>2. Phase = "up"
  BY DEF Phase
<1>3. Phase' = "down"
  BY <1>1 DEF Phase
<1> QED  BY <1>1, <1>2, <1>3, Zenon DEF C!Down

\* HandleClose reports the loss, or reports it again.
LEMMA CloseIsStep ==
  ASSUME IInv, NEW q, HandleClose(q), ups = 1
  PROVE  C!Down \/ Again'
<1>1. downs \in Nat /\ (downs = 0 \/ downs > 0)
  BY DEF IInv, TypeInv, TypeOK
<1>2. downs > 0 => Again'
  BY Zenon DEF HandleClose, ClosedAgain, Again
<1> QED  BY <1>1, <1>2, CloseIsDown, Zenon

\* SendInLoop takes a message over, reports the loss or does nothing.
LEMMA SendIsTake ==
  ASSUME IInv, IInv', NEW m \in Messages, NEW q, SendInLoop(m, q), ups = 1, ~Again
  PROVE  [C!Next \/ Again']_(C!vars)
<1> DEFINE data == Bytes(m)
<1>1. /\ wire \in Seq(AllBytes) /\ wire' \in Seq(AllBytes) /\ output' \in Seq(AllBytes)
      /\ wire' \o output' = accepted' /\ downs \in Nat
  BY Zenon DEF IInv, TypeInv, TypeOK, StreamInOrder
<1>2. data \in Seq(AllBytes) /\ Len(data) = MsgLen /\ MsgLen \in Nat \ {0}
  BY BytesSeq, Zenon
<1>3. status # "kDisconnected" => Phase \in {"up", "down"}
  <2>1. status # "kDisconnected" /\ downs > 0 => downs = 1 /\ removed = 0
    BY <1>1, Zenon DEF IInv, LifeInv
  <2> QED  BY <1>1, <2>1 DEF Phase
<1>4. CASE status = "kDisconnected" /\ UNCHANGED <<dataVars, histVars>>
  BY <1>4, Zenon DEF C!vars, Phase, dataVars, histVars
<1>5. CASE HandleClose(q)
  BY <1>5, CloseIsStep, Zenon DEF C!Next
<1>6. CASE /\ status # "kDisconnected" /\ accepted' = accepted \o data
           /\ Len(wire') \in Nat /\ Len(wire) <= Len(wire') /\ UNCHANGED histVars
  <2>1. Phase \in {"up", "down"} /\ Phase' = Phase
    BY <1>3, <1>6, Zenon DEF Phase, histVars
  <2>2. Len(accepted') = Len(wire') + Len(output') /\ Len(output') \in Nat
    BY <1>1
  <2>3. Len(wire') \in Len(wire)..Len(accepted')
    BY <1>1, <1>6, <2>2
  <2>4. accepted' = accepted \o [i \in 1..MsgLen |-> <<m, i>>]
    BY <1>6, Zenon DEF Bytes
  <2>5. C!Take(m)
    BY <2>1, <2>3, <2>4, Zenon DEF C!Take
  <2> QED  BY <2>5, Zenon DEF C!Next
<1>7. Len(wire) <= Len(wire) /\ Len(wire') \in Nat /\ Len(wire) \in Nat
  BY <1>1
<1>8. Len(wire \o data) = Len(wire) + Len(data)
  BY <1>1, <1>2, ConcatLength, Zenon
<1>9. ASSUME NEW n \in 0..(MsgLen - 1)
      PROVE  Len(wire \o SubSeq(data, 1, n)) = Len(wire) + n
  <2>1. n \in 0..Len(data)
    BY <1>2
  <2>2. SubSeq(data, 1, n) \in Seq(AllBytes) /\ Len(SubSeq(data, 1, n)) = n
    BY <1>2, <2>1, Cut
  <2> QED  BY <1>1, <2>2, ConcatLength, Zenon
<1>10. CASE /\ status # "kDisconnected" /\ accepted' = accepted \o data
            /\ wire' = wire \o data /\ UNCHANGED histVars
  <2>1. Len(wire') = Len(wire) + MsgLen
    BY <1>2, <1>8, <1>10, Zenon
  <2> QED  BY <1>2, <1>6, <1>7, <1>10, <2>1
<1>11. CASE /\ status # "kDisconnected" /\ accepted' = accepted \o data
            /\ \E n \in 0..(MsgLen - 1) : wire' = wire \o SubSeq(data, 1, n)
            /\ UNCHANGED histVars
  <2>1. PICK n \in 0..(MsgLen - 1) : wire' = wire \o SubSeq(data, 1, n)
    BY <1>11, Zenon
  <2>2. Len(wire') = Len(wire) + n
    BY <1>9, <2>1, Zenon
  <2> QED  BY <1>2, <1>6, <1>7, <1>11, <2>2
<1>12. CASE /\ status # "kDisconnected" /\ accepted' = accepted \o data
            /\ UNCHANGED <<wire, histVars>>
  BY <1>6, <1>7, <1>12, Zenon
<1> HIDE DEF data
<1> QED  BY <1>4, <1>5, <1>10, <1>11, <1>12, Zenon DEF SendInLoop, data

\* HandleWrite delivers some of the stream.
LEMMA WriteIsDeliver ==
  ASSUME IInv, HandleWrite
  PROVE  C!Deliver
<1>1. ~Quiet /\ UNCHANGED <<histVars, accepted>>
  BY Zenon DEF HandleWrite, CanHandle, Quiet
<1>2. ups = 1 /\ downs = 0
  BY <1>1, AwakeFacts, Zenon
<1>3. /\ output \in Seq(AllBytes) /\ wire \in Seq(AllBytes) /\ wire \o output = accepted
  BY Zenon DEF IInv, TypeInv, TypeOK, StreamInOrder
<1>4. PICK n \in 1..Len(output) : wire' = wire \o SubSeq(output, 1, n)
  BY Zenon DEF HandleWrite
<1>5. Len(wire') = Len(wire) + n
  <2>1. n \in 0..Len(output)
    BY <1>3
  <2>2. SubSeq(output, 1, n) \in Seq(AllBytes) /\ Len(SubSeq(output, 1, n)) = n
    BY <1>3, <2>1, Cut, Zenon
  <2>3. Len(wire \o SubSeq(output, 1, n)) = Len(wire) + Len(SubSeq(output, 1, n))
    BY <1>3, <2>2
  <2> QED  BY <1>4, <2>2, <2>3, Zenon
<1>6. Len(accepted) = Len(wire) + Len(output) /\ Len(wire) \in Nat /\ Len(output) \in Nat
  BY <1>3
<1>7. Len(wire') \in (Len(wire) + 1)..Len(accepted)
  BY <1>5, <1>6
<1>8. Phase = "up" /\ Phase' = "up"
  BY <1>1, <1>2 DEF Phase, histVars
<1> QED  BY <1>1, <1>7, <1>8, Zenon DEF C!Deliver

\* A callback returns: the one for the loss leaves the connection gone.
LEMMA ReturnIsGone ==
  ASSUME IInv, Return, ~Again
  PROVE  [C!Next]_(C!vars)
<1>1. accepted' = accepted /\ wire' = wire
  BY Zenon DEF Return, dataVars
<1>2. CASE Last(stack) = "down"
  <2>1. InDown
    BY <1>2, Zenon DEF Return, InDown
  <2>2. ups = 1 /\ downs = 1 /\ removed = 0
    BY <2>1, Zenon DEF IInv, LifeInv, Unattached, InDown
  <2>3. ups' = 1 /\ downs' = 1 /\ removed' = 1
    BY <1>2, <2>2 DEF Return, Closed
  <2>4. Phase = "down"
    BY <2>2 DEF Phase
  <2>5. Phase' = "gone"
    BY <2>3 DEF Phase
  <2> QED  BY <1>1, <2>4, <2>5, Zenon DEF C!Next, C!Gone
<1>3. CASE Last(stack) # "down"
  BY <1>1, <1>3, Zenon DEF Return, C!vars, Phase, histVars
<1> QED  BY <1>2, <1>3, Zenon

\* OnAttachedToLoop announces the connection.
LEMMA AttachIsUp ==
  ASSUME IInv, OnAttachedToLoop
  PROVE  C!Up
<1>1. Ready("attach") /\ queue \in Seq(Functors)
  BY Zenon DEF OnAttachedToLoop, IInv, TypeInv, TypeOK
<1>2. 1 \in 1..Len(queue) /\ Head(queue) = queue[1] /\ Head(queue).k = "attach"
  BY <1>1 DEF Ready
<1>3. ups = 0 /\ downs = 0
  BY <1>2, Zenon DEF IInv, LifeInv, Unattached
<1>4. ups' = 1 /\ downs' = 0 /\ accepted' = accepted /\ wire' = wire
  BY <1>3 DEF OnAttachedToLoop, dataVars
<1>5. Phase = "new" /\ Phase' = "up"
  BY <1>3, <1>4 DEF Phase
<1> QED  BY <1>4, <1>5, Zenon DEF C!Up

\* What is left of the loop thread's steps: the ends of the connection.
LEMMA LossIsDown ==
  ASSUME IInv, CloseFunctor \/ HandleReadEOF \/ HandleReadError \/ DelayClose
                 \/ HandleWriteError \/ CloseInPlace
  PROVE  [C!Next \/ Again']_(C!vars)
<1>1. ASSUME UNCHANGED <<dataVars, histVars>> PROVE [C!Next \/ Again']_(C!vars)
  BY <1>1, Zenon DEF C!vars, Phase, dataVars, histVars
<1>2. ASSUME NEW q, HandleClose(q), ups = 1 PROVE [C!Next \/ Again']_(C!vars)
  BY <1>2, CloseIsStep, Zenon DEF C!Next
<1>3. ~Quiet => ups = 1
  BY AwakeFacts, Zenon
<1>4. CASE CloseFunctor
  <2>1. ups = 1
    <3>1. Ready("close")
      BY <1>4, Zenon DEF CloseFunctor
    <3> QED  BY <3>1, ReadyFacts
  <2> QED  BY <1>1, <1>2, <1>4, <2>1, Zenon DEF CloseFunctor
<1>5. CASE HandleReadEOF
  BY <1>1, <1>2, <1>3, <1>5, Zenon DEF HandleReadEOF, CanHandle, Quiet
<1>6. CASE HandleReadError
  BY <1>2, <1>3, <1>6, Zenon DEF HandleReadError, CanHandle, Quiet
<1>7. CASE DelayClose
  BY <1>2, <1>3, <1>7, Zenon DEF DelayClose, Quiet
<1>8. CASE HandleWriteError
  BY <1>2, <1>3, <1>8, Zenon DEF HandleWriteError, CanHandle, Quiet
<1>9. CASE CloseInPlace
  BY <1>2, <1>9, AttachedFacts, Zenon DEF CloseInPlace
<1> QED  BY <1>4, <1>5, <1>6, <1>7, <1>8, <1>9, Zenon

\* A connection that was closed again stays so.
LEMMA AgainStays ==
  ASSUME Again, [Next]_vars
  PROVE  Again'
<1>1. ASSUME UNCHANGED asked PROVE Again'
  BY <1>1, Zenon DEF Again
<1>2. ASSUME NEW q, HandleClose(q) PROVE Again'
  BY <1>2, Zenon DEF HandleClose, ClosedAgain, Again
<1>3. ASSUME NEW m, NEW q, SendInLoop(m, q) PROVE Again'
  BY <1>1, <1>2, <1>3, Zenon DEF SendInLoop
<1>4. CASE SendStringInLoop \/ \E m \in Messages : SendInPlace(m)
  BY <1>3, <1>4, Zenon DEF SendStringInLoop, SendInPlace
<1>5. CASE CloseFunctor \/ HandleReadEOF \/ HandleReadError \/ DelayClose
             \/ HandleWriteError \/ CloseInPlace
  BY <1>1, <1>2, <1>5, Zenon
  DEF CloseFunctor, HandleReadEOF, HandleReadError, DelayClose, HandleWriteError, CloseInPlace
<1>6. CASE Return
  BY <1>6, Zenon DEF Return, Again
<1>7. CASE OnAttachedToLoop \/ Callback("wc") \/ Callback("hwm") \/ HandleReadData
             \/ HandleWrite \/ PeerSends \/ PeerCloses
  BY <1>1, <1>7, Zenon
  DEF OnAttachedToLoop, Callback, HandleReadData, HandleWrite, PeerSends, PeerCloses
<1>8. ASSUME NEW t \in Threads,
             ThreadStep(t) \/ TestConnected(t) \/ \E m \in Messages : Send(t, m)
      PROVE  Again'
  <2>1. Close(t) => Again'
    BY Zenon DEF Close, Again
  <2> QED  BY <1>1, <1>8, <2>1, Zenon DEF ThreadStep, PostSend, PostClose, TestConnected, Send
<1>9. CASE UNCHANGED vars
  BY <1>1, <1>9, Zenon DEF vars
<1> QED  BY <1>4, <1>5, <1>6, <1>7, <1>8, <1>9, Zenon DEF Next, LoopStep

\* Every step of TCPConn is a step of Connection, or leaves it alone.
LEMMA StepsAreSteps ==
  ASSUME IInv, IInv', [Next]_vars
  PROVE  [C!Next \/ Again']_(C!vars)
<1> SUFFICES ASSUME ~Again PROVE [C!Next \/ Again']_(C!vars)
  BY AgainStays, Zenon
<1>1. ASSUME UNCHANGED <<dataVars, histVars>> PROVE [C!Next]_(C!vars)
  BY <1>1, Zenon DEF C!vars, Phase, dataVars, histVars
<1>2. CASE SendStringInLoop
  <2>1. ups = 1 /\ Head(queue) \in Functors /\ Head(queue).k = "send"
    BY <1>2, ReadyFacts DEF SendStringInLoop
  <2>2. Head(queue).m \in Messages
    BY <2>1, FunctorTypes, Zenon
  <2> QED  BY <1>2, <2>1, <2>2, SendIsTake, Zenon DEF SendStringInLoop
<1>3. ASSUME NEW m \in Messages, SendInPlace(m) PROVE [C!Next \/ Again']_(C!vars)
  BY <1>3, AttachedFacts, SendIsTake, Zenon DEF SendInPlace
<1>4. CASE OnAttachedToLoop
  BY <1>4, AttachIsUp, Zenon DEF C!Next
<1>5. CASE HandleWrite
  BY <1>5, WriteIsDeliver, Zenon DEF C!Next
<1>6. CASE Return
  BY <1>6, ReturnIsGone, Zenon
<1>7. CASE CloseFunctor \/ HandleReadEOF \/ HandleReadError \/ DelayClose
             \/ HandleWriteError \/ CloseInPlace
  BY <1>7, LossIsDown, Zenon
<1>8. CASE Callback("wc") \/ Callback("hwm") \/ HandleReadData
  BY <1>1, <1>8, Zenon DEF Callback, HandleReadData
<1>9. ASSUME NEW t \in Threads,
             ThreadStep(t) \/ TestConnected(t) \/ \E m \in Messages : Send(t, m)
      PROVE  [C!Next]_(C!vars)
  BY <1>1, <1>9, Zenon DEF ThreadStep, PostSend, Close, PostClose, TestConnected, Send
<1>10. CASE PeerSends \/ PeerCloses
  BY <1>1, <1>10, Zenon DEF PeerSends, PeerCloses
<1>11. CASE UNCHANGED vars
  BY <1>1, <1>11, Zenon DEF vars
<1> QED
  BY <1>2, <1>3, <1>4, <1>5, <1>6, <1>7, <1>8, <1>9, <1>10, <1>11, Zenon DEF Next, LoopStep

\* TCPConn takes only the steps of Connection: for any threads, messages and lengths,
\* the connection is announced once, its stream only grows and is delivered in order,
\* its loss is reported once and it is then removed from its owner, as long as it is
\* not closed again after its loss was told.
THEOREM TakesConnectionSteps == Spec => ConnectionSteps
<1>1. Init => C!Init
  BY Zenon DEF Init, C!Init, Phase
<1>2. IInv /\ IInv' /\ [Next]_vars => [C!Next \/ Again']_(C!vars)
  BY StepsAreSteps, Zenon
<1> QED  BY <1>1, <1>2, Inductive, PTL DEF Spec, ConnectionSteps
=============================================================================
