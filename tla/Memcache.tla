------------------------------ MODULE Memcache ------------------------------
(***************************************************************************)
(* apps/evmc: MemcacheClientPool and MemcacheClientSerial over the         *)
(* MemcacheClients (one for each loop and server), with the commands, the  *)
(* vbucket configuration and the binary codec.                             *)
(*                                                                         *)
(* RunInLoop runs in place on the loop's own thread, and a command is sent *)
(* to a random loop and a weighted random server: the operations on the    *)
(* state return the set of states they may lead to.  A connection comes    *)
(* up, fails or drops, as TCPClient reports it with auto_reconnect_.  A    *)
(* server answers what it was sent in order, or does not answer.  Keys,    *)
(* values and result codes are left out, and so are the time a timer takes *)
(* (timeout_ is not zero) and the operands of LOG_DEBUG, which this        *)
(* repository does not define.                                             *)
(***************************************************************************)
EXTENDS Naturals, Sequences, FiniteSets, SequencesExt

CONSTANTS
  Scenes  \* what may happen: [mode, loops, map, health, gets, keys, faults]:
          \* mode is "cluster", "alone" (both of the pool) or "serial"; loops the
          \* number of loops; map the replicas of each vbucket; health the weights
          \* to begin with; gets the vbuckets of the single-key commands; keys the
          \* vbuckets of the keys of one MultiGet; faults bounds the breaks

BAD_SERVER_ID == 65535
INIT_WEIGHT == 1000
MAX_WEIGHT == 1000000
MIN_WEIGHT == 100

ASSUME MemcacheAssumption ==
  \A s \in Scenes :
    /\ s.mode \in {"cluster", "alone", "serial"} /\ {s.loops, s.faults} \subseteq Nat
    /\ \A v \in DOMAIN s.health : s.health[v] \in MIN_WEIGHT..MAX_WEIGHT
    /\ \A b \in DOMAIN s.map : s.map[b] # <<>> /\ ToSet(s.map[b]) \subseteq DOMAIN s.health
    /\ ToSet(s.gets) \cup ToSet(s.keys) \subseteq 0..(Len(s.map) - 1)

VARIABLES
  scene,   \* the scene
  cmd,     \* the commands, see NewCommand
  client,  \* the MemcacheClients by loop and server, see NewClient
  queue,   \* DoLaunchCommand functors pending in each loop
  health,  \* server_health_
  id_seq,  \* id_seq_ of the MemcacheClientSerial
  parts,   \* the MultiKeyHandler: [size, finished, calls], size 0 before MultiGet
  faults   \* the breaks there were

state == <<cmd, client, queue, health, parts>>
vars == <<scene, state, id_seq, faults>>

Loops == 1..scene.loops
Servers == DOMAIN scene.health
Clients == Loops \X Servers
Pooled == scene.mode # "serial"

\* A command of one key, and the command of a MultiGet for a server; the serial
\* client's MultiGet is one command, for server 0.
Single(n) == [kind |-> "single", n |-> n]
Part(v) == [kind |-> "part", n |-> v]
Commands == UNION {{Single(n) : n \in DOMAIN s.gets} \cup {Part(v) : v \in DOMAIN s.health}
                   : s \in Scenes}

\* at: "new", "posting" by the user, "queued" in a loop, "running", "waiting" or "done".
\* by: while posting, the loop of the pool it is called on, 0 for another thread.
\* packed: the id in the request of a SerialMultiGetCommand, 0 when it is packed late.
\* Histories: told, the calls of the callback; tried, the servers it was sent to.
NewCommand == [at |-> "new", by |-> 0, vbucket |-> 0, id |-> 0, server_ids |-> <<>>,
               packed |-> 0, told |-> 0, tried |-> <<>>]

\* timer and con_timer: the id of the command a timer was set for, 0 for no timer.
\* wire: the requests the server has not answered.  left: history, the commands that
\* OnPacketTimeout left in running_command_ when it ended at the one that had timed
\* out, until another command is pushed.
NewClient == [tcp |-> "connecting", seq |-> 0, running |-> <<>>, waiting |-> <<>>,
              timer |-> 0, con_timer |-> 0, wire |-> <<>>, left |-> {}]

Init ==
  /\ scene \in Scenes
  /\ cmd = [c \in Commands |-> NewCommand]
  /\ client = [k \in (1..scene.loops) \X DOMAIN scene.health |-> NewClient]
  /\ queue = [l \in 1..scene.loops |-> <<>>]
  /\ health = scene.health /\ id_seq = 0 /\ faults = 0
  /\ parts = [size |-> 0, finished |-> 0, calls |-> 0]

Now == [cmd |-> cmd, client |-> client, queue |-> queue, health |-> health,
        parts |-> parts]

Becomes(states) ==
  \E s \in states : /\ cmd' = s.cmd /\ client' = s.client /\ queue' = s.queue
                    /\ health' = s.health /\ parts' = s.parts

\* Every state an operation leads to from each of a set of states.
Then(states, Op(_)) == UNION {Op(s) : s \in states}

-----------------------------------------------------------------------------
(* VbucketConfig.                                                          *)

Replicas(vbucket) == scene.map[(vbucket % Len(scene.map)) + 1]

Recovers(w) == IF w + 1000 > MAX_WEIGHT THEN MAX_WEIGHT ELSE w + 1000
Decays(w) == IF w \div 2 <= MIN_WEIGHT THEN 100 ELSE w \div 2

\* MUTANT: the last server may be selected again.
SelectServerId_AnyReplica(h, vbucket, last) ==
  LET items == {v \in ToSet(Replicas(vbucket)) : h[v] > 0} IN
  IF scene.mode = "alone" THEN {[v |-> 0, health |-> h]}
  ELSE {[v |-> v, health |-> [h EXCEPT ![v] = Recovers(@)]] : v \in items}

\* A replica of the vbucket other than the last one, by weight, and the weights then.
SelectServerId(h, vbucket, last) ==
  LET items == {v \in ToSet(Replicas(vbucket)) : v # last /\ h[v] > 0}
  IN  IF scene.mode = "alone" THEN {[v |-> 0, health |-> h]}
      ELSE IF items = {} THEN {[v |-> BAD_SERVER_ID, health |-> h]}
      ELSE {[v |-> v, health |-> [w \in Servers |-> IF w = v THEN Recovers(h[w])
                                                   ELSE IF w = last THEN Decays(h[w])
                                                   ELSE h[w]]] : v \in items}

SelectServerFirstId(vbucket) ==
  IF scene.mode = "alone" THEN 0 ELSE Head(Replicas(vbucket))

-----------------------------------------------------------------------------
(* Command and MultiKeyHandler.                                            *)

ShouldRetry(s, c) == Len(s.cmd[c].server_ids) < 2
server_id(s, c) == Last(s.cmd[c].server_ids)

\* OnError and the On...Done of a command: the callback runs or is posted to the
\* caller's loop.
Done(s, c) == [s EXCEPT !.cmd[c].at = "done", !.cmd[c].told = @ + 1]

\* MUTANT: the last part is not recognised.
FinishedOne_OffByOne(s) ==
  [s EXCEPT !.parts.finished = @ + 1,
            !.parts.calls = IF s.parts.finished >= s.parts.size THEN @ + 1 ELSE @]

\* FinishedOne, for a part of a MultiGet: with the last one its callback is posted.
FinishedOne(s) ==
  [s EXCEPT !.parts.finished = @ + 1,
            !.parts.calls = IF s.parts.finished + 1 >= s.parts.size THEN @ + 1 ELSE @]

Finished(s, c) ==
  IF c.kind = "single" \/ ~Pooled THEN Done(s, c) ELSE FinishedOne(Done(s, c))

\* What a command sends: a request with its id.
Launch(s, k, c) ==
  LET opaque == IF s.cmd[c].packed = 0 THEN s.cmd[c].id ELSE s.cmd[c].packed IN
  [s EXCEPT !.client[k].wire = Append(@, [opaque |-> opaque, cmd |-> c]),
            !.cmd[c].tried = Append(@, k[2])]

-----------------------------------------------------------------------------
(* MemcacheClient.                                                         *)

NextId(s, k, c) == [s EXCEPT !.client[k].seq = @ + 1, !.cmd[c].id = s.client[k].seq + 1]

PushRunningCommand(s, k, c) ==
  LET d == IF s.cmd[c].id = 0 THEN NextId(s, k, c) ELSE s IN
  [d EXCEPT !.client[k].running = Append(@, c), !.cmd[c].at = "running",
            !.client[k].left = {}, !.client[k].timer = IF @ = 0 THEN d.cmd[c].id ELSE @]

PushWaitingCommand(s, k, c) ==
  LET d == NextId(s, k, c) IN
  [d EXCEPT !.client[k].waiting = Append(@, c), !.cmd[c].at = "waiting",
            !.client[k].con_timer = IF @ = 0 THEN d.cmd[c].id ELSE @]

\* The pool sends a command to a random loop: in place when it is the loop l it runs
\* on.  A retry is made on another replica of the vbucket.
RECURSIVE DoLaunchCommand(_, _, _)
LaunchCommand(s, l, c) ==
  UNION {IF m = l THEN DoLaunchCommand(s, l, c)
         ELSE {[s EXCEPT !.queue[m] = Append(@, c), !.cmd[c].at = "queued"]} : m \in Loops}

\* MUTANT: a retry goes to the other client with the id it had.
Again_KeepsId(s, c) == [s EXCEPT !.cmd[c].server_ids = Append(@, Last(@))]
Again(s, c) == [s EXCEPT !.cmd[c].id = 0, !.cmd[c].server_ids = Append(@, Last(@))]

\* A command that failed on a client of loop l is retried, or its callback has the
\* error.
RetryOrFail(s, l, c) ==
  IF ShouldRetry(s, c) THEN LaunchCommand(Again(s, c), l, c) ELSE {Finished(s, c)}

LaunchOn(s, l, v, c) ==
  CASE s.client[l, v].tcp = "up" -> {Launch(PushRunningCommand(s, <<l, v>>, c), <<l, v>>, c)}
    [] s.client[l, v].tcp = "connecting" -> {PushWaitingCommand(s, <<l, v>>, c)}
    [] OTHER -> RetryOrFail(s, l, c)

DoLaunchCommand(s, l, c) ==
  IF ShouldRetry(s, c) THEN LaunchOn(s, l, server_id(s, c), c)
  ELSE UNION {IF x.v = BAD_SERVER_ID THEN {Finished(s, c)}
              ELSE LaunchOn([s EXCEPT !.health = x.health], l, x.v, c)
              : x \in SelectServerId(s.health, s.cmd[c].vbucket, server_id(s, c))}

\* Pop the commands of a list, while there are any, and retry or fail each.
RECURSIVE Drain(_, _, _)
Drain(s, k, list) ==
  IF s.client[k][list] = <<>> THEN {s}
  ELSE LET c == Head(s.client[k][list]) IN
       Then(RetryOrFail([s EXCEPT !.client[k][list] = Tail(@)], k[1], c),
            LAMBDA t : Drain(t, k, list))

OnConnectTimeout(k) ==
  /\ client[k].con_timer # 0
  /\ LET s == [Now EXCEPT !.client[k].con_timer = 0]
         first == cmd[Head(client[k].waiting)].id
     IN  Becomes(IF client[k].waiting = <<>> THEN {s}
                 ELSE IF first # client[k].con_timer
                 THEN {[s EXCEPT !.client[k].con_timer = first]}
                 ELSE Drain(s, k, "waiting"))
  /\ UNCHANGED <<scene, id_seq, faults>>

Leaves(s, k) ==
  [s EXCEPT !.client[k].left = IF s.client[k].timer = 0 THEN ToSet(s.client[k].running)
                               ELSE @]

\* The loop of OnPacketTimeout ends with the command the timer was for, when that
\* still has its id: a command that is retried has another one, or none.  When the
\* retry is posted to another loop, that loop may set the id before it is read.
RECURSIVE DrainUntil(_, _, _)
DrainUntil(s, k, id) ==
  IF s.client[k].running = <<>> THEN {s}
  ELSE LET c == Head(s.client[k].running)
           May(t) == \E m \in Loops, v \in Servers :
                       /\ Contains(t.queue[m], c) /\ t.client[m, v].seq < id
       IN  Then(RetryOrFail([s EXCEPT !.client[k].running = Tail(@)], k[1], c),
                LAMBDA t : (IF t.cmd[c].id = id \/ May(t) THEN {Leaves(t, k)} ELSE {})
                           \cup (IF t.cmd[c].id # id THEN DrainUntil(t, k, id) ELSE {}))

\* MUTANT: the timer is not set again for the command that is in front now.
OnPacketTimeout_NoTimer(k) ==
  /\ client[k].timer # 0
  /\ LET s == [Now EXCEPT !.client[k].timer = 0]
         first == cmd[Head(client[k].running)].id
     IN  Becomes(IF client[k].running = <<>> \/ first # client[k].timer THEN {s}
                 ELSE DrainUntil(s, k, client[k].timer))
  /\ UNCHANGED <<scene, id_seq, faults>>

OnPacketTimeout(k) ==
  /\ client[k].timer # 0
  /\ LET s == [Now EXCEPT !.client[k].timer = 0]
         first == cmd[Head(client[k].running)].id
     IN  Becomes(IF client[k].running = <<>> THEN {s}
                 ELSE IF first # client[k].timer
                 THEN {[s EXCEPT !.client[k].timer = first]}
                 ELSE DrainUntil(s, k, client[k].timer))
  /\ UNCHANGED <<scene, id_seq, faults>>

\* OnResponsePacket: only the response to the front of running_command_ counts.
OnResponsePacket(k) ==
  /\ client[k].wire # <<>> /\ client[k].tcp = "up"
  /\ LET s == [Now EXCEPT !.client[k].wire = Tail(@)]
         run == client[k].running
     IN  Becomes({IF run = <<>> \/ cmd[Head(run)].id # Head(client[k].wire).opaque THEN s
                  ELSE Finished([s EXCEPT !.client[k].running = Tail(@)], Head(run))})
  /\ UNCHANGED <<scene, id_seq, faults>>

-----------------------------------------------------------------------------
(* MemcacheClientBase::OnClientConnection.                                 *)

Connected(s, k) ==
  FoldLeft(LAMBDA t, c : Launch(PushRunningCommand(t, k, c), k, c),
           [s EXCEPT !.client[k].waiting = <<>>], s.client[k].waiting)

TCPUp(k) ==
  /\ client[k].tcp = "connecting"
  /\ Becomes({Connected([Now EXCEPT !.client[k].tcp = "up"], k)})
  /\ UNCHANGED <<scene, id_seq, faults>>

Disconnected(s, k) ==
  Then(Drain(s, k, "running"), LAMBDA t : Drain(t, k, "waiting"))

\* An attempt failed; the connector makes another one.
TCPFails(k) ==
  /\ client[k].tcp = "connecting" /\ faults < scene.faults /\ faults' = faults + 1
  /\ Becomes(Disconnected(Now, k))
  /\ UNCHANGED <<scene, id_seq>>

\* A connection drops.  It is still the TCPClient's while the callback runs.
TCPDrops(k) ==
  /\ client[k].tcp = "up" /\ faults < scene.faults /\ faults' = faults + 1
  /\ Becomes({[s EXCEPT !.client[k].tcp = "connecting"] :
               s \in Disconnected([Now EXCEPT !.client[k].tcp = "down",
                                              !.client[k].wire = <<>>], k)})
  /\ UNCHANGED <<scene, id_seq>>

-----------------------------------------------------------------------------
(* The user's calls.                                                       *)

\* Set, Remove, Get and PrefixGet of the pool, from a thread of the user or, in a
\* callback, on a loop of the pool.
Call(n) ==
  LET c == Single(n) IN
  /\ Pooled /\ cmd[c].at = "new"
  /\ \E x \in SelectServerId(health, scene.gets[n], BAD_SERVER_ID), l \in {0} \cup Loops :
       /\ cmd' = [cmd EXCEPT ![c].at = "posting", ![c].vbucket = scene.gets[n],
                             ![c].server_ids = <<x.v>>, ![c].by = l]
       /\ health' = x.health
  /\ UNCHANGED <<scene, client, queue, id_seq, parts, faults>>

\* The servers of the keys: a server is selected for the first key with a given first
\* replica, and serves the other keys with that one too.
Selected(h) ==
  FoldLeft(LAMBDA tables, b :
             UNION {LET f == SelectServerFirstId(b) IN
                    IF t.server[f] # BAD_SERVER_ID THEN {t}
                    ELSE {[server |-> [t.server EXCEPT ![f] = x.v], health |-> x.health]
                          : x \in SelectServerId(t.health, b, BAD_SERVER_ID)}
                    : t \in tables},
           {[server |-> [v \in Servers |-> BAD_SERVER_ID], health |-> h]}, scene.keys)

\* MultiGet and PrefixMultiGet of the pool: one command for each of the servers, whose
\* vbucket_id is that server's id.
MultiGet ==
  /\ Pooled /\ scene.keys # <<>> /\ parts.size = 0
  /\ \E t \in Selected(health), l \in {0} \cup Loops :
       LET ids == {t.server[v] : v \in Servers} \ {BAD_SERVER_ID} IN
       /\ parts' = [parts EXCEPT !.size = Cardinality(ids)]
       /\ cmd' = [c \in Commands |->
                    IF c.kind = "part" /\ c.n \in ids
                    THEN [cmd[c] EXCEPT !.at = "posting", !.vbucket = c.n,
                                        !.server_ids = <<c.n>>, !.by = l]
                    ELSE cmd[c]]
       /\ health' = t.health
  /\ UNCHANGED <<scene, client, queue, id_seq, faults>>

Post(c) ==
  /\ cmd[c].at = "posting"
  /\ Becomes(LaunchCommand([Now EXCEPT !.cmd[c].by = 0], cmd[c].by, c))
  /\ UNCHANGED <<scene, id_seq, faults>>

RunCommand(l) ==
  /\ queue[l] # <<>>
  /\ Becomes(DoLaunchCommand([Now EXCEPT !.queue[l] = Tail(@)], l, Head(queue[l])))
  /\ UNCHANGED <<scene, id_seq, faults>>

\* The calls of the MemcacheClientSerial, in its loop.  The request of a MultiGet is
\* packed before LaunchCommand.
SerialCall(c) ==
  /\ ~Pooled /\ cmd[c].at = "new" 
  /\ c \in {Single(n) : n \in DOMAIN scene.gets} \/ (c = Part(0) /\ scene.keys # <<>>)
  /\ id_seq' = id_seq + 1
  /\ LET s == [Now EXCEPT !.cmd[c].id = id_seq + 1, !.cmd[c].server_ids = <<0, 0>>,
                          !.cmd[c].packed = IF c.kind = "part" THEN id_seq + 1 ELSE 0]
     IN  Becomes(LaunchOn(s, 1, 0, c))
  /\ UNCHANGED <<scene, faults>>

-----------------------------------------------------------------------------
LoopNext ==
  \/ \E l \in Loops : RunCommand(l)
  \/ \E k \in Clients : OnPacketTimeout(k) \/ OnConnectTimeout(k)

Next ==
  \/ LoopNext
  \/ \E n \in DOMAIN scene.gets : Call(n)
  \/ MultiGet
  \/ \E c \in Commands : Post(c) \/ SerialCall(c)
  \/ \E k \in Clients : TCPUp(k) \/ TCPFails(k) \/ TCPDrops(k) \/ OnResponsePacket(k)

\* The loops run what is posted and timers fire.  A thread that is in a call goes on.
\* Nothing is assumed of the servers and the network.
Spec == /\ Init /\ [][Next]_vars /\ WF_vars(LoopNext)
        /\ WF_vars(\E c \in Commands : Post(c))
-----------------------------------------------------------------------------
Lists(k) == client[k].running \o client[k].waiting
Places(c) == {<<"queue", l>> : l \in {m \in Loops : Contains(queue[m], c)}}
             \cup {k \in Clients : Contains(Lists(k), c)}

\* A command is in one place until its callback is called, once, whatever fails, times
\* out or is retried; a MultiGet calls back once, when all its parts are finished.
CalledBackOnce ==
  /\ \A c \in Commands :
       /\ cmd[c].at \in {"new", "posting", "queued", "running", "waiting", "done"}
       /\ cmd[c].told = (IF cmd[c].at = "done" THEN 1 ELSE 0)
       /\ Cardinality(Places(c)) =
            (IF cmd[c].at \in {"queued", "running", "waiting"} THEN 1 ELSE 0)
  /\ \A k \in Clients : IsInjective(Lists(k))
  /\ parts.calls = IF parts.size # 0 /\ \A v \in Servers :
                         cmd[Part(v)].at \in {"new", "done"} THEN 1 ELSE 0

\* Without the requests that are packed too early, the server's answers come in the
\* order of running_command_: the answer with the id of the front is the front's, and
\* one with another id is to a command that timed out on this connection.
AnswersInOrder ==
  \A k \in Clients :
    LET run == client[k].running
        due == SelectSeq(client[k].wire, LAMBDA r : \E i \in 1..Len(run) :
                                           cmd[run[i]].id = r.opaque)
    IN  (\A c \in Commands : cmd[c].packed = 0) =>
          /\ Len(due) = Len(run)
          /\ \A i \in 1..Len(run) : due[i].cmd = run[i]

\* A command is sent twice at most, in a cluster the second time to another server,
\* and a command of one key to replicas of its vbucket only; the weights stay in their
\* range, so that a server can always be selected.
RetriedElsewhere ==
  /\ \A c \in Commands :
       /\ Len(cmd[c].tried) <= IF Pooled THEN 2 ELSE 1
       /\ scene.mode = "cluster" =>
            /\ IsInjective(cmd[c].tried)
            /\ c.kind = "single" => ToSet(cmd[c].tried) \subseteq
                                      ToSet(Replicas(cmd[c].vbucket))
  /\ \A v \in Servers : health[v] \in MIN_WEIGHT..MAX_WEIGHT

\* A command is answered, if not by the server then by a timer: one that waits or runs
\* has a timer, which is set again as long as commands are there.  The exception are
\* the commands that the timeout of one before them leaves in running_command_, where
\* no timer is set for them until another command is pushed.
LeftBehind(c) ==
  \E k \in Clients : c \in client[k].left /\ Contains(client[k].running, c)
IsAnswered ==
  \A c \in Commands : cmd[c].at # "new" ~> (cmd[c].at = "done" \/ LeftBehind(c))
=============================================================================
