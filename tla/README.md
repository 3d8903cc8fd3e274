# A TLA+ verification of evpp

evpp is a C++ network library on top of libevent.  Every *event loop* is one
thread that waits for sockets and timers and runs *functors* that other threads
queue to it.  Everything else - threads, pools, timers, TCP connections, servers
and clients, HTTP on both sides, and the NSQ and memcached clients built on the
library - is state machines whose steps are spread over such loops, and what can
go wrong in them is mostly a question of order: a functor that is queued while the
loop goes to sleep, a status that is read on one thread and stored on another, a
callback in which the user closes what is calling it, a request that arrives in
pieces, an answer that comes after its timeout.

This directory holds TLA+ models of these parts, the TLC configurations that
check them on small instances, and TLAPS proofs for the event loop, the thread pool, the
buffer, the timers, TCP connections, servers and clients, the HTTP server and client and
the UDP server.
`PROJECT.json` lists components, runs, mutants, the map from definitions to source
lines, findings, hazards and theorems.  All source paths below are relative to `src/`.

## 1. Inventory

| part | source | module | status |
|---|---|---|---|
| event loop, its queue and wake-up pipe | `evpp/event_loop.*`, `evpp/event_watcher.cc` (pipe) | `EventLoop`, `EventLoopProps`, `TaskQueue`, `EventLoopProofs` | modelled, proved in part |
| thread with a loop | `evpp/event_loop_thread.*` | `EventLoopThread`, `HTTPServerProofs` | modelled, proved in part |
| pool of loops | `evpp/event_loop_thread_pool.*` | `EventLoopThreadPool`, `HTTPServerProofs` | modelled, proved in part |
| timer | `evpp/invoke_timer.*`, timer part of `evpp/event_watcher.cc` | `InvokeTimer`, `HTTPCProofs` | modelled, proved in part |
| buffer | `evpp/buffer.*` | `Buffer`, `ByteQueue`, `BufferProofs` | modelled, proved in part |
| TCP connection, I/O channel | `evpp/tcp_conn.*`, `evpp/fd_channel.*` | `TCPConn`, `TCPConnProps`, `Connection`, `TCPConnProofs` | modelled, proved in part |
| TCP server, listener | `evpp/tcp_server.*`, `evpp/listener.*` | `TCPServer`, `TCPServerProps`, `TCPServerProofs` | modelled, proved in part |
| TCP client, connector, resolver | `evpp/tcp_client.*`, `evpp/connector.*`, `evpp/dns_resolver.*` | `TCPClient`, `TCPClientProps`, `TCPClientProofs` | partly, proved in part |
| UDP server | `evpp/udp/udp_server.*` | `UDPServer`, `UDPServerProofs` | partly, proved in part |
| HTTP server on evhttp | `evpp/http/http_server.*`, `service.*` | `HTTPServer`, `HTTPServerProofs` | modelled, proved in part |
| HTTP client on evhttp | `evpp/httpc/request.*`, `conn.*`, `conn_pool.*` | `HTTPC`, `MCHTTPC`, `HTTPCProofs` | partly, proved in part |
| HTTP parser | `evpp/evpphttp/http_parser*` | `HttpParser`, `HttpUrl` | modelled |
| HTTP service on TCPServer | `evpp/evpphttp/service.*`, `http_request.*`, `http_response.*` | `HttpService`, `MCHttpService` | partly |
| NSQ client | `apps/evnsq` | `NSQClient`, `MCNSQClient` | partly |
| memcached client | `apps/evmc` | `Memcache`, `MCMemcache` | partly |
| UDP client, sockets, libevent glue, logging, value types | `evpp/` | - | not modelled: calls of the system, text, values |
| Thrift server | `labs/evthrift` | - | not modelled |
| vendored code, benchmarks, examples | `3rdparty`, `benchmark`, `examples` | - | not part of the system |

libevent and the operating system are external.  They appear as actions: an event
fires only while it is enabled, `send` takes any part of what it is given or
fails, a peer sends and closes when it likes, a timer that is set may fire.

Two facts about the build hold everywhere.  The asserts of the code are compiled
out (`-DNDEBUG`), so that an assertion does not stop a step of the code: it is a claim,
and most of them are properties here.  The one thing taken from assertions is when the
user calls `Stop`: `EventLoop::Stop` (`event_loop.cc:109`), `TCPServer::Stop`
(`tcp_server.cc:88`) and the `Stop` of a pool, of a thread and of `http::Server` assert
or presume that what is stopped was started, and the models call them then only.  And a
plain variable that two threads use without a lock is read and written in steps of their
own.

`evnsq` and `evmc` are not part of the build of this commit: `apps/CMakeLists.txt:13-14`
comments them out, and they use `LOG_DEBUG` and other macros of `evpp/logging.h`, which is
gone.  They are modelled as they are written, without their logging; so the operand
`conn()->remote_addr()` of a log line in `OnConnectTimeout`
(`apps/evmc/memcache_client.cc:84`) is left out.

## 2. How the parts fit together

A server accepts on a listening loop and gives each connection to a loop of a pool;
a client has its attempts and its connection in one loop.  HTTP is there twice:
`evpp/http` and `evpp/httpc` are built on libevent's evhttp, `evpp/evpphttp` on
`TCPServer` with a parser of its own.  `evnsq` and `evmc` are built on `TCPClient`.

**Composition.**  A loop is modelled in full once, in `EventLoop`.  Modules above
it use what `TaskQueue` promises: a sequence of functors per loop, run one at a
time, in order.  `EventLoopThreadPool` extends `EventLoopThread`: its workers'
callbacks are steps of both.  `HTTPServer` extends `EventLoopThreadPool`: its
listening threads are further `EventLoopThread`s and its workers are the pool's.
`HTTPC` extends `InvokeTimer`: the retries of a request are timers of its loop.
`HttpService` extends `HttpParser`, which extends `HttpUrl`.  `TCPServer` uses of a
connection what `Connection` promises and of a pool that it runs and stops;
`HttpService`, `NSQClient` and `Memcache` use of a connection and a client what
`TCPConn` and `TCPClient` show of them: it comes up, fails, drops, is closed.

## 3. Modules, state and actions

**EventLoop** - one loop, threads that queue functors to it and call `Stop`.
Every access to shared state is a step: pushing under the mutex, incrementing
`pending_functor_count_`, loading and storing `notified_`, testing and using
`watcher_`.  `Run` is `RunStarting` .. `RunRunning`, the dispatch, and `LoopExit` ..
`RunStopped`.  `HandlerFn` reads the socket pair and enters `DoPendingFunctors`:
`SwapPending`, then a `BeginTask`/`EndTask` for each functor.  `StopInLoop` is itself a
functor and runs `DoPendingFunctors` again, from inside a batch; `outer` is that
nest of calls: `StopInLoop` drains the queue twice (`f1`, `f2`), before and after
`event_base_loopexit`, and each drain goes round again while functors arrive
(`NotEmpty`).  `AfterFork` replaces the socket pair.

**TaskQueue** - what a loop promises: every functor is run at most once; in the
order of posting until a stop begins; what was posted before the last drain found
the queue empty is run before the close; after the close nothing is.

**EventLoopThread** - `Start` (the thread is made, `pre` is called by a functor of
its loop), `Stop` (status, then the loop's `Stop`) and `Join` of the owner, against
`Run` of the thread with its start functor, the loop and `post`.  `pre` may fail, in
which case the thread stops its own loop while its owner may be stopping it too.

**EventLoopThreadPool** - `Start` with and without waiting, the three kinds of
`Stop`, `Join`, `GetNextLoop` by another thread, and `OnThreadStarted` and
`OnThreadExited`, which the workers call.  `ppc = "none"` is a program without a
pool, whose threads have owners of their own.

**InvokeTimer** - a timer that owns itself through `self_`; the functor of `Start`
has a plain pointer to it.  The user starts, cancels (in callbacks too) and drops
it, in any order.

**Buffer** - the storage as a function on `0..capacity-1`, and the two indices.
`Grown` is `grow` with its two branches, and `Written`, `ToText`, `Shrink`,
`ReadFromFD` are built on it as in the code.  **ByteQueue** is what it promises.

**TCPConn** - the loop's side (attach, read, end of stream, errors, write, delay
timer, the functors of `Send` and `Close`) and other threads that send and close,
with the test of the status, the store and the posting as separate steps.  `stack`
holds the callbacks that are open: the user may send and close in each (`SendInPlace`,
`CloseInPlace`), and on the loop's thread outside of them.  A connection may be closed
again when its loss has been told, in that very callback or later, as long as fewer than
`MaxCloses` losses have been told.
`Send` of a `Buffer` or string tests the status; that of plain bytes does not, and on a
channel that was closed it ends in the state `"crashed"` when bytes are left to write.
**Connection** is what it promises to a user.

**TCPServer** - listening loop, I/O loops, the thread that stops the server.
`StopInLoop` visits the connections one at a time while their loops change their
status.  `caller` (who stops: the loop itself, another thread, another thread that
waits) and `inline` (thread_num 0) are chosen in `Init`.

**TCPClient** - `TCPClient`, `Connector` and `DNSResolver`.  `stack` holds the calls
that are open, because the code calls the user in the middle of `HandleWrite`,
`HandleError` and `Cancel`; Connectors are numbered, so that one that was replaced
and is still waiting for its delayed `Start` is told from the current one.  A connection
is lost, closed in a callback, or closed again after its loss was told (`CloseAgain`), in
which case `OnRemoveConnection` resets whatever `conn_` is by then: a new connection that
is freed so is the call `"crash"`, and `Reconnect` replaces a Connector that may be at
work, which is then in `stray`.  `Connect`
of the code replaces `connector_` whatever it is doing; the model's user calls it on a
client that is new or disconnected, or right after a `Disconnect` that is still queued.

**UDPServer** - a receiving thread per port against the user's thread, which set
and test `status_` without a lock.

**HTTPServer** - the owner's `Init`, `Start`, `Pause`, `Continue` and `Stop`, the
listening threads with their `Service` and evhttp, the pool's workers and the request.
`Dispatch` picks a worker and hands the request over in steps of its own
(`HandleRequest`, `ServerGetNextLoop`, `Forward`), because `Stop` runs against it; the
reply comes back as a functor of the listening loop.  `req[r].at` is how far a request
is, and at the end what became of it (`answered`, `badrequest`, `dropped`, `discarded`).
Any request may be for a URI without a handler, which is answered with 400.  With
`spc = "off"` there is no server and the pool, or threads with owners of their own, are used
directly: this is how the same run checks `EventLoopThread` and `EventLoopThreadPool` on
their own.

**HTTPC** - `Request`, with a connection of its own or one of the pool: sending,
failing in each part of `ExecuteInLoop`, `HandleResponse`, retrying at once or after
an interval; `ConnPool::Get`, `Put` and `Clear`; a handler that executes the next
request.  The user's timers of `InvokeTimer` share the loop.

**HttpUrl, HttpParser** - `http_parser_execute` as an operator on a parser and a
buffer: one operator for a group of states, named for what it parses, with the
states under their names in the code, the marks and the callbacks they make at the
end of a buffer, the fast-forward loops, the limits and the assertions.
`http_parser_parse_url` with its host and its port.  Bytes are the characters of
strings: the parser's properties tell every byte class apart.

**HttpService** - `Service::OnMessage` with the request kept in the connection's
context, `RequestHandler`, `HttpRequest`'s callbacks and `HttpResponse`.  Pieces of the
input arrive in any of several sizes; a registered callback answers at once, later on
the loop's thread, or on a thread of its own, with a length or in chunks.  A reply is
several `Send`s and perhaps a `Close`: done in place on the loop's thread, tested and
posted one by one from another thread, so that the parts of two replies can be mixed.
In mode `"parser"` the pieces go to a parser of requests, of responses or of both.

**NSQClient** - `Client`, its `NSQConn`s and `Producer`.  The lists `conns_` and
`connecting_conns_`, the handshake (identify, authenticate, subscribe), lookups,
`Close`, and the commands waiting in `wait_ack_` for responses that carry no id.
Callbacks that run inside `Disconnect` are part of the action that calls it.  Where the
code uses an NSQConn, a list entry or an iterator after its end, `crashed` says which.

**Memcache** - a command's way through `MemcacheClientPool` (in a cluster or with
one server) or `MemcacheClientSerial` to the `MemcacheClient` of its loop and server:
launched, waiting for the connection, running, answered, timed out, retried
elsewhere; the parts of a `MultiGet`; the weights of `VbucketConfig`.  Since `RunInLoop`
runs in place or posts, and a retry picks a random loop and replica, an operation is
an operator from a state to the set of states it may lead to.

Some behaviours of the code break a promise in one narrow case.  Each such case is a
*history variable* (`dropped`, `failed`, `asked`, `stray`, `skipped`, `rewound`, `torn`,
`mixed`, `broken`, `stale`, `rejoined`, `unparsed`, `left`, and `late` and `struck` of a
connection of `HttpService`) that no guard depends on, and the properties name it as
their exception, so that they say exactly what holds otherwise.  `AnswersInOrder` of
`Memcache` speaks of the time before the first `SerialMultiGetCommand`, whose requests
are packed before they have their id.  There is one guard: `HasLength` of `Buffer`.
After a `ResetData` that leaves the read index past the write index the length wraps,
and only the operations that set the read index are followed.

The models stop where the program would be in undefined behaviour: a use of a pool,
a Connector, an iterator or an NSQConn that is gone is the state `"crashed"`, the
call `"crash"` or the variable `crashed`.

## 4. Runs

| run | instance | distinct states | shows |
|---|---|---|---|
| `event_loop` | 2 threads and the loop post 2 functors, 1 stop, pipe of 2 bytes, fair | 52,325 | no lost wake-up, assertions, exact count; implements `TaskQueue`; a stop ends in `kStopped` |
| `http_server` | 0 to 2 workers, 0 to 2 listening threads, 1 request, 1 pause; pool or threads alone | 41,050 | running means running, a request goes without a reply only before Start is done or after Stop has begun, every stop returns |
| `conn` | 2 threads, 2 messages of 2 bytes, mark 3, 1 read, 2 losses told | 804,044 | stream in order, write event, status, implements `Connection`, every end is noticed |
| `server` | 3 connections, all callers, inline or not | 275,950 | stopped is clean, what lives is held, stop returns |
| `client` | 3 Connectors, 3 connects, 2 disconnects, 2 closes again | 152,825 | one tracked attempt, a connect is answered |
| `buffer` | 2 bytes, reserves 0 and 1, arguments to 2, capacity to 6 | 118,471 | in order, a queue of bytes |
| `udp` | 2 ports, 2 datagrams each, 1 pause | 54,966 | told is heard, calls return |
| `httpc` | 2 requests with 0 to 2 retries and a pool of 1; 1 timer, 3 cancels | 44,111 | no freed timer is used, one user for a connection, as many tries as said, handled |
| `http` | 75 inputs in pieces of 1 to 9, 13 or 17 bytes or whole | 1,423,697 | requests as sent, replies make sense, the pieces do not matter, limits hold |
| `evnsq` | producer and consumer, 1 or 2 nsqds, up to 2 commands, 1 or 2 faults | 77,734 | lists match states, responses match commands, a publish is answered |
| `evmc` | cluster of 2 servers, 1 or 2 loops, a MultiGet; one server; serial | 112,952 | one callback, answers matched, retried elsewhere, answered |
| `event_loop_watcher` | as `event_loop`, 2 stops, symmetry | violation | the finding of section 6 |

**Bounds.**  A wake-up is lost by one poster and the loop, and a second poster is what
makes `notified_` ambiguous; with a pipe of two bytes and reads of one byte it fills,
and bytes are left over.  The run `event_loop` has one stop: it is enough for the drains
of `StopInLoop`, and with two `StopTerminates` is false, because a late store of
`kStopping` follows `kStopped` (section 6); so the bound is an exception of this
property.  What concurrent stops do to the wake-up and to the assertions is proved.  Two
workers are enough for "first", "last" and "some but not all"; one request meets every
step of `Start` and `Stop`, and requests share nothing but the threads.  Two messages of
two bytes with a mark of three give short writes, a buffer that passes the mark and one
that stays below; two losses are a connection that is closed again once, in the callback
for the loss or after it.  Three connections are one that is going, one that is staying
and one that is being attached.  Three Connectors are a first, one that replaces it
after a loss and one more after a Disconnect or a second close; with two closes a
connection is closed again while a new attempt is under way and when the new connection
is up.  A capacity of 6 lets the buffer grow from its first size (1 or 2) to twice that
and 2 more, and then move its content to the front.  Two requests and a pool of one make
the pool empty, full and overflow.  The HTTP inputs have each method, each way to end a
body, each error path that a property tells apart, and pairs of requests on one
connection; the largest length is 199 for INT64_MAX and the header limit 75 bytes for 80
KB, so that both are passed by inputs of a hundred bytes.  A stale answer needs one
break and two commands; a retry in a cluster needs two replicas, and two faults let the
retry fail as well.  Every action of every model is taken.  Deadlock checking is off
where the system ends: a loop that has returned, a client that is not asked to
reconnect, a server that is stopped, an input that is used up.  It is on for the buffer.

**Fairness.**  A loop that can take a step takes one, and so does a thread inside
a call: both are threads that the scheduler runs and that wait for nothing but what
the guards say.  No fairness is assumed of the user or of a peer of a connection:
nobody has to post, send or close.  Timers do come (a connect timeout and a delayed
`Start` in `TCPClient`, the timers of `Memcache`), because they are timers of libevent.
That a peer reads is assumed in one place, inside the property `ImplementsConnection`: if
`HandleWrite` is treated fairly, what was taken over is delivered.
In `InvokeTimer` and `HTTPC` a queued functor is served although a periodic timer fires
again and again (strong fairness): libevent serves every event that is ready.  Three
liveness properties need somebody outside to act.  `StopsAndAnswers` assumes that the
handler of a request replies; `IsHandled` that evhttp, which has a timeout of its
own, completes a request that was made; and `PublishIsTold` that connections come up
and nsqd answers, as long as nothing breaks.  `IsAnswered` of `Memcache` assumes
nothing of the servers: the timers alone must answer a command.  `ConnectIsAnswered`
speaks of a user who connects and does not disconnect: `Disconnect` need not report.

**Mutants.**  Every property of a passing run has a mutant: a definition of the
model changed as a plausible slip in the code would (a store left out, the wrong
one of two counts compared, a timer not cancelled) under which TLC finds that
property violated.  They are next to the definitions they change, marked `MUTANT`.

## 5. Proofs

`EventLoopProofs` proves, for any set of threads, any functors and stops, and any
capacity of the socket pair (assumed: the loop is none of the threads, tasks and
stops are disjoint, capacity and read size are positive):

- `TypeCorrect`: `TypeOK`, with the shape of the nest of `DoPendingFunctors` calls.
  The only call made by the handler is the outermost; the argument is by the
  action, with a lemma on dropping the last element of a sequence of calls.
- `WakeupInvariant` and from it `WakeupNeverLost`: `NoLostWakeup` is not inductive,
  because a poster that finds `notified_` set relies on another one's byte.  The
  invariant `WakeupInv` says that `notified_` is set only while a byte is in the
  pipe, being read, or about to be sent, and that a queued functor is announced by
  `notified_` or by a poster that has yet to look at it.
- `AssertionsNeverFail`: the assertions of `QueueInLoop` and `StopInLoop`, for any
  number of concurrent stops, from `StopInv`: from the store of `kStopping` until
  the functor of that `Stop` has been run, the status is never back at `kRunning`.

`BufferProofs` proves, for any sizes of storage, reserve and arguments (assumed:
they are natural numbers and garbage is no byte):

- `BufferInOrder`: `TypeOK` and `IndicesInOrder`, from lemmas on what `grow` makes of
  a block (`GrownFine`, `WrittenFine`);
- `BufferIsByteQueue`: `Buffer` implements `ByteQueue` until it is rewound.  The
  lemmas are about slices of the storage: what is stored is read back, storing
  behind or before a slice extends it, growing keeps it.  The invariant is that the
  indices are in order and the content holds written bytes only;
- `UnreadAlwaysGivesBack` (`UnreadGivesBack`, an action property): what `UnreadBytes`
  puts back is the end of what the last read returned.  `TakenInv` adds that those
  bytes are still in the storage just before the read index, unless the read emptied
  the buffer, which is the case that the property excepts.

`HTTPCProofs` proves, for any timers, requests, retries, cancels and size of the pool
(assumed: the user's timers are timers of the loop and those of the retries are other
ones, and a scene gives `retry_number_` at most `MaxRetries`):

- `TimersNeverUsedFreed` (`NeverUsedFreed`), `TimersRunAsAsked` (`RunsAsAsked`, an action
  property) and `RequestsAsOftenAsSaid` (`AsOftenAsSaid`), all from one inductive
  invariant `IInv`.  `NeverUsedFreed` says nothing of the queue and the stack, on which
  it depends.  `QueueInv` adds that a pending functor of `Start` is the only one and that
  its timer still owns itself, so that the plain pointer is good; a Cancel that is
  served first finds no `timer_`, and that is why.  `StackInv` says which calls can be
  open: `functor_` is always the outermost, `ExecuteInLoop` the innermost, a timer whose
  `functor_` is open and that is still periodic still has its event, and one that was
  told and has not been released is in its `cancel_callback_`.  `RequestInv` ties
  the tries of a request to `retried_`.
- `ConnsHaveOneUser` (`OneUser`), from `UseInv`, which is `IInv` with two more
  invariants.  `HoldInv` says that a connection of the pool is in one place only: held
  by one request, in the pool, or given up by `Clear` and waiting for its `Close`; that
  the connection of a request on the wire is not closed; and that a request whose
  handler is being called is done with its connection.  `PoolInv` says that the pool has
  no duplicates and stays within `max_pool_size_`, and bounds the connections that
  `Clear` has given up by `max_pool_size_` times the calls of `Clear`.  The bound is
  what shows that the finite set of names has a free one whenever `Get` makes a
  connection (`FreshIsNew`), so that the names of the model take nothing from the code.
- There is one lemma per action, on a few lemmas of what a step does to the queue and
  to the stack.  A step that calls or returns has only to say which timers it changes.

`TCPConnProofs` proves, for any threads, messages, message length and high-water mark
(assumed: a message has a byte and the mark is not zero):

- `StreamStaysInOrder` (`StreamInOrder`), `OutputAlwaysWatched` (`OutputIsWatched`) and
  `StatusAlwaysTrue` (`StatusIsTrue`).  The first two are inductive with the types; the
  third needs `LifeInv`: nothing but the peer acts before `OnAttachedToLoop` has run,
  which it does once; whatever is called inside the call for the loss is another such
  call, and the connection is then closed again; after the first loss no event is enabled
  and the channel is not open, for good; and until the connection is closed again the
  call for the loss is made once and the connection removed when it returns.
- `TakesConnectionSteps` (`ConnectionSteps`): every step of `TCPConn` is one of
  `Connection` or a stutter, or closes the connection again, which is the safety half of
  `ImplementsConnection`.  Each
  action is mapped on its own: it sends (the stream grows), the kernel takes bytes
  (`delivered` grows), a callback is made or nothing that `Connection` sees changes.

`TCPServerProofs` proves, for any number of connections:

- `LiveAlwaysHeld` (`LiveIsHeld`) and `StoppedAlwaysClean` (`StoppedIsClean`).  The
  invariant adds `HeldInv`, that a connection is ended before it is removed and that
  the removal of one that is still held is queued; `ListenInv`, that the functors of
  `Accept` and `Stop` are each queued once, in this order, and what the listener is
  until each has run; and `StopInv`, which follows `Stop` to the last removal: the
  pool stops when no connection is left, and `stopped_cb_` is there by then, or will be
  called at once, when the loop itself stops the server.

`TCPClientProofs` proves, for any number of Connectors, connects, disconnects and second
closes (assumed: `MaxConnects` is at most `MaxConnectors`), and so for callbacks nested
to any depth:

- `AttemptAlwaysTracked` (`AttemptIsTracked`) and `AlwaysOneAttempt` (`OneAttempt`).
  Both speak of the idle loop, and what holds then rests on what the open calls will
  still do.  The inductive invariant has `StackInv`, which calls can be below which
  (`HandleWrite` is the outermost, `Cancel` is on top of `ResetConnector`, `Start` and
  `HandleError` run to their end); `ConnectorInv` and `HeadInv`, what is pending for a
  Connector in each of its states and what the call at the head finds; `ClientInv`, that
  the rest of a `DisconnectInLoop` finds no reconnection and what `conn_` is while a
  loss is told; `QueueInv`, that a `Connect` is posted to a client without a Connector
  or behind a `Disconnect`; `AttemptInv`, that the pending Connectors are `connector_`
  and those in `stray`, and that the connection is that of `connector_`; and
  `EffortInv`, that a client that reconnects is at it.
- Half of the lemmas are about the stack: what it holds, and that it stays well nested,
  when one or two calls are pushed or the call at the head returns.  There is then one
  lemma per action.

`UDPServerProofs` proves, for any number of ports, datagrams and pauses (assumed:
they are natural numbers, and there is a port):

- `ToldIsAlwaysHeard`: `ToldIsHeard`.  The invariant adds that `Start` returns only
  after every thread has stored its status (`StartInv`), so that none stores it
  over a later Pause or Stop; that a thread on its way to a message has handled none
  since it was told (`ToldInv`); and that a Stop that waits has seen every thread end
  before the handler is destroyed (`EndInv`).

`HTTPServerProofs` proves, for any number of threads in the pool, of listening threads,
of requests and of calls of `GetNextLoop`, `Pause` and `Continue` (assumed: there are
finitely many listening threads and they are numbered behind those of the pool):

- `StatusTellsThreadsTheorem` (`StatusTellsThreads`), of threads alone, of a pool and of a
  pool below a server.  The invariant is `IInv`.  `ThreadInv` says, for each
  place where a thread can be, what its owner and the two stati may say: the start
  functor is queued once, no `Stop` is called and nothing has failed until it has run;
  from then until the owner posts the stop, the thread is in `pre` or dispatches, under
  `kRunning`.  `OwnerInv` says which
  threads the owner of the pool has started, stopped and joined.  `StatusInv` says that
  the counters are the numbers of threads past their start and past their post functor,
  which is what makes `kRunning` and `kStopped` true when the last of them stores it.  A
  thread whose `pre` functor failed is excepted, as in the property.
- `RequestFateTheorem` (`RequestFate`), from `IInv` and `ServerInv`.  `PhaseInv` and
  `ListenInv` tie the status of the server, its pool and each listening thread to where
  the owner is, and `evhttp_` to the post functor.  `PauseInv` is the heart: the count
  that `Stop` waits for is the number of listening loops that were told and have run the
  functor, a loop is told once, and a listening thread that is in `Dispatch` has not run
  it.  So `Stop` does not go on to the pool while a listening thread holds a loop of it,
  although the test of `IsRunning()` is stale by then.  `RequestInv` says where each
  request is: one that is queued is in the queue of a loop that will still run it; and
  once a queue holds a request, or `Dispatch` has let one through, the server has been
  running.  That is what makes of a failed second test, or of a listening loop found
  stopped, a `Stop` that has begun (`NextFate`, the action half of the property).
- The steps of the pool, of its threads and of a thread alone are shown once to lose none
  of the server's functors (`StepsBelow`, `QuietSteps`).  There is then a lemma for each
  invariant and each action that disturbs it.

**Only model-checked.**  Liveness and everything else that rests on fairness or
`ENABLED` is out of the prover's reach, and so is what a recursive definition computes
for every input (induction over data).  `CountIsExact` is a fold over the nest of calls
and is of this kind, and so are all that `HttpParser` computes and the operators of
`Memcache`, which are declared `RECURSIVE`.  The refinement of `TaskQueue` compares
sequences filtered from the queue, which needs the same induction; of
`ImplementsConnection` the fair part is left to TLC.  These, the liveness properties of
every module and all properties of `HttpService`, `NSQClient` and `Memcache` are checked
by TLC on the instances above.

## 6. Findings and disagreements

The finding: `evpp/event_loop.cc:255` - `QueueInLoop` tests `watcher_` and then uses
it, and `Run` may release it in between (`event_loop_watcher`).

Other disagreements of code and text met while modelling.  Each is an exception
that a passing run's property names, an end state of a model, or is noted with its
hazard.

Loops, threads and timers:

- `event_loop.cc:163`: a fork with a functor queued throws the byte away and leaves
  `notified_` set: nothing wakes the loop (`dropped`).
- `event_loop.cc:110`, `event_loop_thread.cc:77`: of two stops, or of a stop and a
  failing `pre`, the late store of `kStopping` can follow `kStopped`; the assertion
  of `EventLoopThread::Run` then fails and `Stop(true)` waits for ever (`failed`; this is
  why `event_loop` has one stop).
- `event_loop_thread_pool.cc:126`: `Stop(false)` stores `kStopped` while workers run.
- `invoke_timer.cc:58`: a `Cancel` that is served before `Start` is forgotten.

Connections, servers and clients:

- `tcp_conn.cc:53`: `Close` stores `kDisconnecting` whatever the status is: from another
  thread over the final `kDisconnected`, on the loop thread in place, in the callback for
  the loss too; the loss is then reported and the connection removed twice (`asked`).
- `tcp_conn.cc:94`: `Send(const void*, size_t)` on the loop thread does not test the
  status: bytes that the socket does not take at once are watched on a channel that is
  closed (`"crashed"`), and an error of the write closes the connection again.
- `tcp_client.cc:157`: when a connection is closed again, `OnRemoveConnection` resets a
  `conn_` that may be another one by then, and `Reconnect` replaces a Connector that is at
  work (`stray`).
- `tcp_server.cc:139`: `StopInLoop` passes over a connection that is accepted and not
  yet attached, which then stays: the server never stops (`skipped`).  `:89`:
  `kStopping` is seen by a removal that is ahead of `StopInLoop`, which then uses a
  pool that is gone; `:148`, `:196`: with thread_num 0 the callback can be lost and an
  entry can outlive its removal.
- `tcp_client.cc:109`: `Disconnect` does not cancel a delayed `Start` (`stray`);
  `connector.cc:159`, `:82`: a `Disconnect` in a callback frees the Connector that is
  calling, or enters `Cancel` again.
- `udp/udp_server.cc:216`: a `Pause` between the two tests of a receiving thread ends
  the thread, past the assertion in line 64.
- `buffer.h:207`, `:301`: `ResetData` with the write index in the reserve makes
  `length()` wrap; `UnreadBytes` after a read that emptied the buffer gives back
  bytes of the reserve (`rewound`, `UnreadGivesBack`).

HTTP:

- `http/http_server.cc:302`: a request that comes before `kRunning` is stored, or that
  a worker takes up after `kStopping` is, is dropped without a reply; `:161`: one that
  comes before the handlers are registered is answered with 400.
- `httpc/conn_pool.h:53` calls the mutex "The guard of pools_", and `Get` and `Put` search
  the map without it; after the last failure of `ExecuteInLoop` the connection is not
  returned to the pool, unlike after the last failure of `HandleResponse`.
- `evpphttp/http_response.cc:96`: `SendReply` on a thread other than the loop's posts the
  parts of a reply one by one: replies may be mixed or cut, and something may follow one
  that announces the close (`RepliesMakeSense` says what holds).
- `evpphttp/service.cc:60`: `Stop` does not join the loop's thread, and a request kept in
  the context of a connection that goes down is not deleted.
- `evpphttp/http_parser_cpp.cc`: a bare CR in a header's value makes the callbacks
  depend on where the input is cut, and the limit of the header is tested at the end
  of a buffer only.

NSQ and memcached clients:

- `apps/evnsq/client.cc:92`: the functor of `Close` erases from the lists it goes
  through, which the comment there says it avoids; a second `Close` uses a TCPClient's
  `connector_` that the first has freed; `nsq_conn.cc:54`: `Reconnect` closes in place, and
  the callback in it deletes the NSQConn that is calling; `client.cc:229`: after it
  `MoveToConnectingList` leaves an empty entry, which `Close` dereferences (`crashed`).
- `apps/evnsq/nsq_conn.cc:142-152`: when the answer to IDENTIFY cannot be parsed the
  connection is closed and the handshake goes on as if it had been (`unparsed`).
- `apps/evnsq/nsq_conn.cc:358`: `wait_ack_` keeps the unanswered commands of a dropped
  connection, and the responses of the next one are taken for theirs (`stale`);
  `PublishBinaryCommand` does not add to `wait_ack_`, but its response is taken from it
  (`mixed`).
- `apps/evmc/memcache_client.cc:128`: the timeout of a command that is not retried does
  not set the timer for the next one, which nothing answers then (`LeftBehind`).
- `apps/evmc/memcache_client_pool.cc:214`: the retry of a part of a `MultiGet` uses the
  server's number as the vbucket.

## 7. What is left out

- The inside of libevent, sockets, the resolver and of `std::vector` and `std::map`
  under unlocked access; memory orders weaker than sequential consistency (the
  atomics of the code use the default order).
- `EventLoop`: a functor that throws; more than one `Run`.
- `EventLoopThreadPool`: what `GetNextLoop` returns when `threads_` is cleared between
  its test and its access.
- `Buffer`: a slice of the buffer written to the buffer itself, integer formats,
  searches for line ends (no state changes), sizes near 2^63.
- `TCPConn`: what a connection that sent bytes over its closed channel does next.
- `TCPServer`: a connection that is closed more than once; `AfterFork`, a spurious
  wake-up of the caller of `Stop`, two calls of `Stop`; connections that share an I/O
  loop (each has its own, which allows more interleavings).
- `TCPClient`: its destruction, `Disconnect(true)`, who owns the socket; of `DNSResolver`
  only what a Connector sees.
- `InvokeTimer`: time; an event that is pending may fire at any moment.
- `UDPServer`: a second `Start`, a handler that calls the server, the pool's work.
- `HTTPServer`: https (it differs in how evhttp makes a connection), `Context` and the
  counters of `stats.*`; an `Init` whose second port fails; a reply after the server
  is deleted.
- `HTTPC`: requests of several loops on one pool (so `OneUser` says nothing of the
  unlocked search of `ConnPool::Get`, `conn_pool.cc:29`), a `Clear` while a request is
  outstanding, `GetRequest` and `PostRequest` (constructors), OpenSSL.
- `HttpParser`: bytes that TLA+ strings cannot hold (0, other controls, 128 and up), the
  strict variant, `http_parser_pause` by the user.  Not among the inputs: a bare CR in a
  value and, for the service, continuation lines and an empty value ended by a bare LF
  (they are stored under an empty name, or not at all).
- `HttpService`: `Init`, `Start` and `Stop` of the service, which own a `TCPServer` and a
  thread; several connections (they share only the registered callbacks).
- `NSQClient`: the decoding of messages, heartbeats and a consumer's FIN, REQ and RDY,
  which change no state of the client; lookups that answer with broken JSON.
- `Memcache`: a callback that makes a new call while the client is draining its lists; the
  layout of packets, keys, values and result codes, the loading of the
  configuration, stopping the pool with commands pending, the race of loops on
  `server_health_`.
- The parts marked not modelled in section 1: one call of the system for each
  operation, text, or values without behaviour in time.  `labs/evthrift` is an
  experiment that hands a server's messages to Thrift.
