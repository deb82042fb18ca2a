# asio-libs, specified

TLA+ specifications of asio-libs, a C++ library of helpers over Boost.Asio: an IProto client, an HTTP
client, a pool of coroutines, a flow graph, a queue of writes. The modules are written from the code
in `src/src` and `src/lib`, model-checked with TLC on small instances, and their main invariants are
proved with TLAPS for every value of the constants. `PROJECT.json` lists the runs, the theorems, the
hazards each property is for, and the source lines each definition stands for.

## 1. The system

Everything runs on one `boost::asio::io_service`, normally run by one thread. Nothing is locked;
what makes the code hard is the order of completion handlers: a handler that was already queued when
the state it was meant for has changed, a timer and a result collected by one poll, a callback that
calls back into its caller.

| Part | State it keeps | Operations | Interacts with |
|---|---|---|---|
| `IProto::Conn` (`iproto_conn.cpp`) | socket, `callbacks_map` from sync to request, `write_queue`, `write_is_active`, connect timer, ping timer, one timer per request | `Write`, `dropPacketWrite`, `checkConnect`, `reconnect`, `close`, `disablePing`, `Shutdown`, `GentleShutdown`; handlers `onConnect`, `onRead`, write, `onTimeout`, `reconnectByTimer`, `setupPing`, `pingCb` | the io_service, the peer, the callers' callbacks |
| `CoroutinePool` (`couroutine_pool.cpp`) | `handler_queue`, `free_ctx`, `shutdown`, `handlers_processed`, the coroutines | `Schedule`, `Dispatch`, `RunQueue`, `Shutdown`; the coroutine `CtxHolder` | jobs, which may call it; `RunQueue` runs the io_service from inside a handler |
| `HTTP::Conn` (`http_conn.cpp`) | socket, `must_reconnect`, one timer, the headers; a `Response` with `ReadLeft` | `GET`/`HEAD`/`MOVE`, `DoPostRequest`/`POST`/`PUT`, `WriteRequestHeaders`, `WriteRequestData`, `WriteRequestDataBarrier`, `ReadAnswer`, `PrelaodBytes`, `StreamReadData`, `StreamSpliceData`, `WriteTee`, `WriteSplice`, `checkConnect`, `reconnect`, `close` | the coroutine it yields in, the server, the caller's second socket |
| `WriteBuffer` (`write_buffer.cpp`) | `write_queue`, `is_write_active` | `Write`, `Shutdown`, `setSSL`; handler `onWriteDone` | callbacks, which may call `Write` |
| `FlowGraph` (`flowgraph.cpp`) | nodes with `is_done` and `nextnodes`, join counters, `reset_counter` | `Add*`, `AddJoin`, `Run`, `Reset`, `done` | jobs, the io_service |
| `CoroBarrier` (`coro_barrier.cpp`) | `got_done`, `is_suspended`, the error of what it waits for | `wait`, `done` | `HTTP::Conn::WriteRequestDataBarrier` |
| IProto codec (`iproto.cpp`, `iproto.hpp`) | a packet: memory, its capacity or the read cursor, `hdr.len` | `Packer`, `Unpacker`, `Reset`, move, `BytesLeft` | `IProto::Conn`, whose `onRead` frames the stream |
| `YieldHelper` (`yield_helper.cpp`) | `currentYieldHelper`, one for all coroutines | constructor, destructor, `beforeYield`, `afterResume` | jobs of a pool |
| `StopWatch`, Graphite | times; one UDP socket | measure, send | nothing waits for them |
| `utils`, `perf.hpp` | none | strings, hex, scope guards | all |
| `picohttpparser`, Catch | | | vendored |

What makes each part correct, and what is hard about it:

* **IProto::Conn.** A request's callback is called exactly once, although its answer, its timeout,
  the end of its connection and a shutdown race for it; each packet's buffer (a raw pointer) is freed
  once; an open socket always has somebody who will notice that it is dead; queued packets leave.
  Hard: handlers of a socket that has been replaced, timers that expired in the same poll as the
  event they were to limit, `write_is_active` that is false with a write in flight.
* **CoroutinePool.** A coroutine is resumed where it is suspended and once; no job waits while a
  worker sleeps; `RunQueue` returns. Hard: calls nest, as a job may run the queue it comes from.
* **HTTP::Conn.** A connection is reused only when nothing of an earlier exchange is on it; a request
  is not served twice by the retries; a request fails only because the server, the network or the clock failed it; every call ends.
  There are exceptions in the code: see *foul* in section 2.
  Hard: the timer's handler may be queued beside the result, and retries nest (`DoPostRequest` around
  `writeRequest`, each with a loop and a reconnect).
* **WriteBuffer.** It is a FIFO. Hard: a callback that writes, and `Shutdown` with a write in flight.
* **FlowGraph.** A node runs once for each node before it that is done; a join waits for all of its.
* **IProto codec.** What is unpacked is what was packed; nothing is written past the allocation; a read
  waits for this packet and not for bytes behind it. Hard: arithmetic in `uint32_t`, a cursor that is 0 until
  the header is skipped, `hdr.len` that is changed by the first `Unpacker` and not put back by a move.
* **YieldHelper.** A job finds its own helper in a global that all coroutines share. Hard: which jobs ran meanwhile.

## 2. The modules

| Module | Models | Extends / composes |
|---|---|---|
| `IProtoConn` | `IProto::Conn`, with the io_service, TCP and the peer | |
| `MCIProtoConn`, `MCIProtoLive` | instances of it, the second for liveness | `IProtoConn` |
| `IProtoConnProofs` | 5 theorems, of types and requests | `IProtoConn` |
| `IProtoSocketProofs` | 4 theorems, of the socket, the queue, the packets and the pings | `IProtoConnProofs` |
| `IProtoChannel` | what packing, the stream and unpacking promise together | |
| `IProtoWire` | the codec and the framing of `onRead` | refines `IProtoChannel` |
| `IProtoWireProofs` | 5 theorems, the refinement among them | `IProtoWire` |
| `CoroutinePool` | `CoroutinePool`, with the io_service and the jobs | |
| `CoroutinePoolProofs` | 3 theorems | `CoroutinePool` |
| `YieldHelper` | the helpers of a pool's jobs | `CoroutinePool`, each of its actions with what it does to the global |
| `YieldHelperProofs` | 2 theorems, that it implements `CoroutinePool` one of them | `YieldHelper`, `CoroutinePoolProofs` |
| `WriteFifo` | what a `WriteBuffer` promises | |
| `WriteBuffer` | `WriteBuffer` and its socket | refines `WriteFifo` |
| `WriteBufferProofs` | 4 theorems, the refinement among them | `WriteBuffer` |
| `FlowGraph` | `FlowGraph`, `GraphNode`, `NodeJoiner` | |
| `MCFlowGraph` | the example graph of `flowgraph.hpp` | `FlowGraph` |
| `FlowGraphProofs` | 2 theorems | `FlowGraph` |
| `HttpExchange` | what a request promises its caller | |
| `HttpConn` | `HTTP::Conn`, the coroutine that uses it, and the server | refines `HttpExchange` |
| `HttpStreams` | its calls that move data to or from a second socket, and `CoroBarrier` | `HttpConn` |
| `HttpProofs` | 10 theorems, the refinement among them | `HttpStreams` |

Definitions marked "Mutant" or "Wrong" are variants of the definition after them, each with a
plausible mistake; nothing uses them. They document what each property guards against
(`PROJECT.json`, "mutants": replacing the definition by its variant violates the property).

### IProtoConn

The object is one record, `conn`; `budget` holds what is left of the bounds. Each method is an operator
from a record to the next, named as in the code, so handlers compose methods as the code does
(`Reconnect(c) == BeginConnect(Close(c))`). An action is one completion handler, one public call, or
one event of the network or of a clock. The io_service runs in rounds: `ready` are the handlers of
this round and `posted` those of the next; a poll collects what has completed. That is what makes a
timer and a connect come out of the same poll, neither able to cancel the other. A write in flight is
an entry of `writes`, and there may be several, because the code starts a second one.

Assumed: who runs the io_service runs it again after an exception. `onConnect` on a socket that was closed meanwhile
throws out of the handler (`set_option`, iproto_conn.cpp:118) after it has cancelled the timer; the read loop has not begun.

Abstracted: packets are model values; a frame is read whole or not at all; timers have no durations;
callbacks of callers are counted (`answers`) and not run. The destructor does what `Shutdown` does,
and only when no handler is left (the handlers hold a `shared_ptr`), so it has no action of its own.

### IProtoWire and IProtoChannel

`IProtoWire` follows a packet from `Packer` to `Unpacker`. Memory is a set of pieces, each with its type, offset, size
and what was written; a read that does not meet a piece exactly gets `Garbage`, so an offset that is off by one is seen
whatever the bytes are. `pkt.ofs` is the capacity while packing, `rx.ofs` the cursor while unpacking, as the code uses
one field for both. Lengths and offsets are taken modulo `Modulus`; where the code adds a `uint32_t` to a `size_t` the
sum is not. `wire`, `rd_buf` and `wanted` are the stream: a read ends with what it waits for and some of what follows
(`Arrivals`), inside a header, inside a packet, or behind several, and `onRead` takes as many packets as are complete.

`IProtoChannel` is a queue of tuples with a put and a take. The mapping makes a tuple taken when the last of its types
has been unpacked; unpacking a packet a second time must give the same tuple and is a stutter.

Assumed: the receiver asks for the types that were packed, in that order, and only then perhaps for a number too many. A
packet with BER lengths is for a peer that decodes them as the protocol says: this `Unpacker` ignores its own flag.

`Missmatches` is the code's check, type by type: a number, and the length of a string, against `hdr.len` in 64 bits; then the string
with its end added up in `uint32_t`; a `ByteBuffer` not at all. Since `hdr.len` then counts the header too, a receiver that asks for
more than was packed may read up to 12 bytes past the end of the packet; `CursorTrue` says how far, and for which reads (`beyond`).

### CoroutinePool

`frames` is the stack of `RunQueue` and `CtxHolder` calls in progress, because `RunQueue` called from
a job runs other handlers, and so other workers, on top of it. `io` is the queue of handlers that
resume a worker. `pc` says where each coroutine is suspended: that is how a resume in the wrong place
is told from a right one. Handlers that are not the pool's are `frames = <<>>` or `RunOther`.

Assumed: the service has other work and is not stopped (otherwise `RunQueue`'s `run_one` returns
at once in a loop); each job is given once. The counters kept for monitoring are left out.

### YieldHelper

`YieldHelper` extends `CoroutinePool`: the jobs are the pool's, and each action of the pool is taken with what it does to
`currentYieldHelper`. A job may make helpers in nested scopes, wait by `YIELDHELPER` or otherwise, call the pool, and
end with its helpers still in scope. The usage example in the header says nothing of the order these need; the module
records in `strayed` that a job with a helper has waited in another way, or has called `RunQueue`, or has left an inner
helper's scope (whose destructor leaves the global null for the outer one). Until then `HelperIsOwn` holds.

### WriteBuffer and WriteFifo

`WriteFifo` says what a caller may count on: buffers go out whole, in order, each callback is told once,
"ok" only when its buffer has gone out. It also says when it may not: after a caller has begun a write
from inside a callback, or after a `Shutdown` with a write unfinished (`torn`). Both break the order in
the code: `onWriteDone` clears `is_write_active` before it calls back, with the entry still in front.
`WriteBuffer` has the code's two fields, the socket's outstanding writes and the end of
each; `frame` is the `onWriteDone` that is in its callback. The refinement mapping takes the entry
being called back, and after an error all of them, out of the FIFO's queue. `NeverStuck` and
`CallbackOnce` hold for every caller, also after the tear.

Assumed: callbacks do not call `Shutdown` (it would destroy the entry whose callback runs); callers
keep their buffers until called back; `setSSL` is not called during a write.

### FlowGraph

The graph is a constant, in the order of the `Add` calls. The io_service's queue holds the nodes whose
`run()` is posted. Jobs are done in their callback, later, or twice. `Run` never returns: `Finish` is
private and nothing calls it. Destructors and exceptions of jobs are left out.

### HttpConn

The coroutine is a sequence of operations; each operator is what a method does up to the next
`yield`, and `op`, `call`, `after`, `tries` and `post_tries` are the coroutine's place. `queue` is
the io_service's: the result of the operation, and the timer's `timeout`. The timer distinguishes
"late" (time is up, the io_service has not noticed) from "past" (its handler is queued), because
`IS_TIMER_TIMEOUT` reads the clock and not the handler: `checkTimeout` may see a timeout that
`onTimeout` has not handled, and `onTimeout` may run after `setupTimeout` has set a new expiry.
The server answers late, in pieces or badly, with or without keep-alive, shuts or resets the
connection at any time; a write after it has shut succeeds until the reset is known.

Three fields only serve the properties: `served` (how often the server has got the whole of the current
request), `cause` (the reason the current call has to fail) and `bye` (an answer without keep-alive was read on this connection).
A fourth, `reply`, is for the refinement. `cause` is "other" when since the call began the server, the network or the kernel has failed it
or a timer has run out, also the one that `writeRequest` leaves running; "dropped" when the server had shut the connection before the request was
written on it; "foul" when an earlier call had left it so. `Recovers` allows these and nothing else: not a stale
timeout, not a connection that is known to be closed, reset or refused.

*Foul connections.* Three errors leave a connection open, and without `must_reconnect`, in the middle of an exchange: `tee()` and `splice()` in
`WriteTee` and `WriteSplice` throw with the request half sent (http_conn.cpp:534, :548), whereas the other calls that write a request
by hand close; and a head that cannot be parsed throws with the rest of its answer still to be read (:284, :295). The model has these steps.
After one the socket is "foul" until it is replaced: the caller may ask again on it, a write may succeed or fail, and what is read may be anything
(`ReadFoul`). `CleanReuse`, `ImplementsExchange` and `Recovers` name it as their exception, and say that no other path leads to such a state. No comment
or test says what these errors leave, so it is listed as a hazard and not as a disagreement. On Linux the first is the usual end of
`WriteTee` and `WriteSplice`: `sock_from` is a socket, and the kernel wants a pipe (two, for `tee`); the model allows both outcomes.

`PrelaodBytes` returns at once if the buffer has enough, and otherwise reads any part of what is left; an empty body of a POST is
written as a piece of its own that needs no socket.

`HttpExchange` is the caller's view of a request: it asks until the server has got the request, never
after; it returns an answer only if the server gave it to this request, on the last connection on which it was asked; or
it fails. On a foul connection it promises only that somebody's answer, or a failure, comes. The mapping is in `HttpConn`; the run checks it with the stream calls added, which a request built by hand may use.

Assumed: the caller reads an answer to its end or closes before the next request (the code says the
same in that it keeps no record of an unread answer); callbacks do not throw, and one that gives NULL
sets the length to 0; the server's Content-Length is the length of its body; the clock does not reach
the 120 s that `setupTimeout(0)` sets while a stale handler is queued. Left out: `conn_count`, the cache
of the headers, parsing (an answer is good or bad).

### HttpStreams

`HttpStreams` adds to `HttpConn` the calls that need a second socket: `StreamSpliceData` (body to
`dest` through a pipe of `PipeHint` chunks), `WriteTee` and `WriteSplice` (from `sock_from` to the request), and
`WriteRequestDataBarrier` with `CoroBarrier`. `other` is what the coroutine waits for outside the connection, where no
timer is set; `op` keeps what it waits for on it. `pipe` counts the chunks of `rd_pipe`; a write to `dest` may find
it full, which is where the inner loop may leave with the pipe not empty. The end of a barrier's write
stops the timer at once, whatever its error, and the error is looked at in `wait()`, perhaps much later.
`pipe()` and the `splice()` into the pipe may be refused at any time (`Refused`; http_conn.cpp:404, :429): an Error, with the connection open and the
body partly unread.

Assumed: `dest` and `sock_from` move or fail at last, and `sock_from` does not end in the middle of a request
(`WriteSplice` would loop for ever: `splice` returns 0 and both waits succeed); the caller waits for its barrier, once,
before it goes on; after a refused `pipe` or `splice` it reads the body on or closes, as after any answer; EAGAIN while reading only means that the pipe is full, since the coroutine is the socket's only reader.

## 3. What the runs check

| Run | Instance | Distinct states | Shows |
|---|---|---|---|
| `iproto_requests` | 2 requests, 1 packet without callback, one fault, one control call, pings off | 804,000 | `TypeOK`, `AnsweredOnce`, `NoRequestForgotten`, `WaitersTimed`, `OneOwner`, `QueueMoves` |
| `iproto_live` | 2 copies of the ping, and two calls or one call and a fault; or 1 request, two calls and two faults | 210,665 | `SocketWatched`, `PingChain`, `EveryRequestAnswered`, `LostPeerLeft` |
| `iproto_wire` | 2 packets of 1 or 2 values of 1, 4, 0 or 16384 bytes, `uint32_t` counting to 49220 | 990,278 | `WireTypeOK`, `InAllocation`, `WaitsForThisPacket`, `CursorTrue`, `ImplementsChannel` |
| `iproto_connect_timer` | 1 request | violation | `TimerLimitsConnecting` is false: see section 5 |
| `pool` (module `YieldHelper`) | 2 workers, 3 jobs that may make every call, 2 nested helpers each | 578,958 | `TypeOK`, `ResumedOnce`, `NoIdleWorker`, `HelperIsOwn`, `EveryJobRuns`, `RunQueueReturns` |
| `pool_dispatch` | 2 workers, 2 jobs | violation | `DispatchBlocks` is false |
| `write_buffer` | 3 buffers of 2 parts | 67,000 | `NeverStuck`, `CallbackOnce`, `Fifo`, `EveryWriteEnds` |
| `flow_graph` | the graph of `flowgraph.hpp`, run twice, one reset | 364 | `TypeOK`, `RunsAccounted`, `FollowersRun` |
| `flow_graph_join` | the same graph | violation | `JoinFinishes` is false |
| `http` (module `HttpStreams`) | requests of 0 to 2 chunks, answers of 0 to 3, a pipe of 2, 2 tries, any number of requests | 554,418 | `StreamTypeOK`, `Timed`, `CleanReuse`, `NotReused`, `AtMostOnce`, `Recovers`, `DeadUntouched`, `AnswerIsOwed`, `ImplementsExchange`, `SpliceForwardsAll`, `RequestEnds` |
| `http_keepalive` | `HttpConn`, answers of 0 to 2 chunks, without NULL buffers | violation | `KeepAliveDropRetried` is false |
| `http_null_post` | the same, with NULL buffers | violation | `NullEndsPost` is false |

Why the bounds are enough. *IProto*: two requests are the least that one handler may confuse; with
a third packet `write_is_active` goes wrong (the second write starts); a fault and a control
call, at any point, give a replaced connection with handlers of the old one still queued, which is
where the invariants are hard; two pings are what the sync 0 they share needs. `MaxBatch` bounds how
many completions are queued when a poll collects one more: with 1 there are two in a round, enough for
every pair of racing handlers. The liveness run gives up a request for a second fault and a second call. Its
initial states are a new connection that does not ping, and one that pings, is as `Shutdown()` during a write
leaves it and has answered its request: that one spends two calls, the first opens it, or one call and a fault. Calls and faults
around pings together (435,659 states) are too many for the liveness check.
*IProtoWire*: two packets are the least for a read that ends behind one and inside the next, two values the least for a
capacity that grows twice. `Modulus` is chosen against the sizes: two strings of 16384 bytes are within what `uint32_t` counts and
beyond a third of it, so the capacity wraps around, and one string is not; an arrival may end inside a header (4), inside
the next packet (14) or in a long string (16384).
*Pool*: two workers and three jobs give a job queued while one worker sleeps and one is busy, and
`RunQueue` nested two deep; `MaxNums` holds the argument 0 (all) and a proper limit. *WriteBuffer*: three
buffers are needed for an overlap of two writes with one more queued; two parts for a write cut in the
middle. *FlowGraph*: the graph has a fork, a join and a node after it; two runs and a reset exercise the
counters. *HTTP*: nothing but sizes and tries is bounded, requests follow each other for ever. Three
chunks are the least for a pipe that has room while more is left to read than it holds. Two
chunks are needed for a body that is read or written in part; two tries are the least that lets a retry
succeed (`max_send_try` is 5; the loops do nothing else with it than count).
`CHECK_DEADLOCK FALSE` stands where the bounds, or a shut down pool, or an empty queue, let the
system stop; `HttpStreams` does not need it.

## 4. Fairness

* `IProtoConn!Fairness`: the thread keeps running the io_service (weak fairness of `RunHandler \/ PollReturns`: one of them is
  always possible while anything is queued), armed timers are collected at last and operations on a dead socket fail
  at last (strong fairness, since a poll collects only between rounds); of the requests' timers only that some armed one
  is. Nothing of the peer. `MCIProtoLive!LiveSpec` adds, while pings are enabled, that a write to an open socket completes: the send
  buffer has room for the twelve bytes of a ping. Without it pings would pile up behind a write that never ends, and the model
  has only two copies of the packet.
* `CoroutinePool!Fairness`: the service runs, what a job waits for happens, jobs return. Two things are
  excused: a pool that has been shut down, and a job that calls `RunQueue` (`Nested`): it may wait for
  workers that wait for it. `YieldHelper` asks for no other.
* `WriteBuffer!FairSpec`: the handlers run; a write ends, since the peer reads or the socket fails.
* `FlowGraph!FairSpec`: `Run` runs the service; jobs that were started end.
* `HttpStreams!StreamFairSpec`: handlers run and time passes. Nothing of the server: a silent one is what the
  timer is for. The caller's second socket moves at last (strong fairness, since it may be full for a while),
  because no timer limits the wait for it, and the caller waits for its barrier.

## 5. Disagreements between the code and its documentation

1. *The connect timer closes an established connection* (`iproto_connect_timer`). `reconnectByTimer` reconnects
   if its wait expired, even if `onConnect` came out of the same poll; the comment says the timer is to
   limit the connection time.
2. *`Dispatch` does not block until its handler is processed* (`pool_dispatch`).
3. *A join is never done* (`flow_graph_join`): `want_nodes_cnt-- == 0` compares before it decrements.
   And `Run` never returns, visible in the module: it has no action for it.
4. *A shut keep-alive connection is not retried* (`http_keepalive`): the wait for the answer's
   first byte succeeds at the end of the stream, and the read after it throws.
5. *A POST ended by NULL loses its answer* (`http_null_post`): a `return` is missing before `ReadAnswer`.

The model also shows that two reads of `IProto::Conn` may share a socket after a reconnect
(`conn.reads = 2`), and that a shut down connection may reconnect; no document says it does not.

## 6. The proofs

Proved by `tlapm`, for any constants that satisfy the modules' assumptions
(disjoint packets, finite sets of workers, jobs and nodes, and so on). Some theorems have a hypothesis besides, stated
where it is needed: `SyncsUnique` (*NothingForgotten*), `PingSyncReserved` (*PingsGoOn*) and `LengthsFit` (all but one of `IProtoWireProofs`).

* `IProtoConnProofs`. *TypeCorrect*: one lemma per method that it maps a typed record to a typed record.
  *RequestsCorrect* is the inductive invariant behind the rest. `AnsweredOnce` alone is not inductive:
  `invokeCallback` posts whatever the map holds at a sync, so one needs that an entry is under its own
  packet's sync, that who waits has had no answer, and that its timer is armed or its expired wait
  queued. Inside a handler this is broken for the packet being timed out; `ReqInv(c, late)` says for
  which. Methods that leave the five fields alone share one lemma (`Keeps`). From it: *AnsweredAtMostOnce*,
  *WaitersHaveTimeouts*, *NothingForgotten* (if the syncs of requests differ).
* `IProtoSocketProofs`. What matters of a queued completion there is its handler and its error code (`Signals`).
  `SocketInv` adds to the two properties that `write_is_active` on an open socket means a write is in flight or its end
  queued (`Writing`). That is why `ensureWriteBuffer` may clear the flag without starting anything: the write it found has an
  end that takes the next packet. From it *OpenSocketWatched* and *QueueNeverStranded*.
  *PacketHasOneOwner* counts: `OwnInv(c, loose)` says that a packet of `live` is held in exactly one place of the queue, the writes and the queued
  completions, and any other in none, where `loose` are those the running handler has in its hand. `Tally` counts the places of a
  sequence up to two, so that its lemmas (append, concatenation, tail, removal) need no cardinalities and no induction.
  *PingsGoOn* rests on the order in which a round runs its handlers. `Line(c)` is everything queued, in that order; `ConnectAhead` says that whatever
  `close()` aborted in it comes before the `onConnect` of the next connection, so that a `setupPing` that dies with the old one cannot be the
  last. `Chained` adds the steps that send a ping or close the socket. No request may take the sync of the pings (`PingSyncReserved`), as `sync++` gives until it wraps.
* `IProtoWireProofs`. `InAllocation` is not inductive: that the memory suffices now does not say it will after the next
  value. `PacketOK` does: as long as no value ends beyond a third of `Modulus`, the length is at most the capacity and at most that
  third, so that doubling the capacity and adding the size does not wrap. *WritesInAllocation*.
  The rest is proved from what a packet is: in a `Packed` one the values lie one behind the other (`LaidOut`) and no two pieces can be read for one
  another. `PktInv` says it of the packet being built, until an offset wraps; `StreamInv` of those on the stream, with
  the reader's position between two of their ends; `RxOK` of the one being read, whose cursor is where the value after those it has got lies.
  *WaitsForOnePacket*, *WireTyped*, *CursorStaysTrue*. What would be induction over the packets is the choice of a least counterexample.
  *WireIsChannel*: writing a packet to the socket is the channel's send, the last value read its receipt; a `Reset`, a move and an `Unpacker` on what is being read do not
  show. `LengthsFit` says that a length has at most five BER digits, as every `uint32_t` has: the code writes no more.
* `YieldHelperProofs`. `HelperInv` adds what `HelperIsOwn` leaves out: a job that waits with a helper waits in its
  `YIELDHELPER`, which will restore it, and a worker that is on the stack below another call has none. It is proved on
  top of the pool's invariant, so the first step is *HelpersKeepPool*: a pool with helpers is a pool. *HelperStaysOwn*.
* `FlowGraphProofs`. *GraphTypeCorrect*, and *FollowersRunOnce* for every finite graph, with repeated links and cycles. `RunsAccounted` is inductive with
  the types; the work is counting: posting a node's followers adds to each node's count as many places as there are links to it.
* `HttpProofs`. The invariant is of the state between two handlers: `ConnOK` says that a wait is timed and its socket open,
  that `bye` implies `must_reconnect` and excludes a write, and which operation belongs to which call; `OtherOK` the
  same of the second socket. While the coroutine runs it waits for nothing (`Ready`): each method is shown to lead from `Ready` to
  `ConnOK`, innermost first, so the retry loops of `DoPostRequest` around `writeRequest` need no induction.
  *EveryWaitTimed*, *ReuseNeedsKeepAlive*, *TimerDiesWithConn*, with all calls of `HttpStreams`.
  What a request is owed needs more: `WorkOK(c)`, the second half of the module. `AtMostOnce` is not inductive: that the server has not had the request does not say
  that a retry may send it again. `Place` says for each operation that may be waited for, and for its result if that is
  queued, how much of the request the server may have and what of the answer is still to come or lies read (a failed write has reached nobody; a head is waited for
  only if one is owed or has come). `Network` is of the connection and the server, `Request` of the call and its outcome, `OpSound` of a failure's cause; `QueueOK` names the few
  orders in which at most two timeouts and one result are queued. `RelayOK` is of the pipe, the second socket and the barrier.
  While the coroutine runs there is no result in the queue (`Running`); one lemma per method shows that it `Goes` from there to a sound state, from
  which the retries of `DoPostRequest` and `writeRequest` follow in the same way. From it *RequestArrivesOnce*, *WaitsForOwedAnswer*, *ReusedConnectionClean*,
  *FailureHasCause*, *StreamsTyped* and *SpliceLeavesNothing*.
  `MayFoul` says which steps may leave a connection foul: those that end a call with an `Error`; while it is foul nothing is claimed of what is on it, only that
  the call and its timer are in order, and `Goes` shows that a new connection starts clean. So *ReusedConnectionClean* is about every other path.
  *ConnIsExchange*: `Goes` also says what the caller and the server see, and `Shows` that every step is one of that kind, one of the kernel, the clock or the server
  (`Outside`), the last piece of a body (`Passed`) or the end of the connection (`LeftFor`); each is a step of `HttpExchange` or a stutter.
* `CoroutinePoolProofs`. The invariant is `TypeOK /\ ResumedOnce /\ NoIdleWorker`, inductive as it stands.
  `ResumedOnce` is split by what it speaks of (queue, `free_ctx`, stack) so that a call is shown once for
  each. *NoWorkerIdles* counts: every job added wakes a worker, so `Coming` grows with the queue.
* `WriteBufferProofs`. `BufferInv` adds to the types: entries in the queue have not been told (`Untold`),
  something is on its way while the queue holds an entry (`Moving`), and, until torn, the one write
  outstanding is the first entry's (`Whole`). From it *QueueNeverStuck*, *CalledBackOnce* and
  *ImplementsFifo*: each action is a step of `WriteFifo` or a stutter, one lemma per action.

Every invariant a passing run checks is a theorem, and so are the safety of the four refinements and the action property `SpliceForwardsAll`.
Only model-checked are the liveness properties: `EveryRequestAnswered`, `LostPeerLeft`, `EveryJobRuns`, `RunQueueReturns`, `EveryWriteEnds`,
`FollowersRun` and `RequestEnds`. Liveness under fairness and ENABLED are out of the prover's reach; so is induction over data, so nothing is claimed of
recursive definitions for every input (there are none in these modules). The five runs that expect a violation show a disagreement and are not proved about.

## 7. Not modelled

* `StopWatch`, Graphite: sequential measurements and one datagram, nothing waits for them. `utils` and `perf.hpp`: pure helpers
  for strings and hex, and scope guards. `Dump()` of a packet only formats.
* `picohttpparser` and Catch are vendored, and `unit_tests` are tests. The vendored `catch.hpp` alone is 9,416 of the repository's 13,221 lines of C
  and C++; with the parser and the tests little is left outside the modules but the items above, headers' declarations, logging and
  the marshalling of HTTP text. A map of these modules' definitions therefore covers a small share of all lines, and a large one of the library's own logic.
* Of `HTTP::Conn`: `conn_count`, the cache of the headers and the parsing of an answer. Of `FlowGraph`: the calls that build the graph (it is a
  constant), `Finish`, which nothing calls, and the destructors. Their status is therefore "partly".
* Of the codec: bytes of a peer that packs other types than it is asked for; what `Unpacker` then returns depends on the bytes.
* `iproto_wire` is a safety run: that a packet arrives at last is TCP's matter, and `IProtoConn` has the case that it does not.
* Memory, except for the packets' buffers of `IProto::Conn`, the memory of a packet and the destruction of an `HTTP::Conn`; several threads
  running one io_service, which the code does not support.
* Seven hazards of `PROJECT.json` have no property, each with its reason there: two read loops on one socket, a hung connection attempt whose timer a
  late `onConnect` has cancelled, `Shutdown` that is not final, `RunQueue` in a job, errors that leave an `HTTP::Conn` foul, answers without a length, and
  the untimed wait on a second socket. Nothing in the repository says what should happen, or the models assume the benign case, as said in section 2.
* What a `Shutdown()` of a `WriteBuffer` with a write in flight does to the order of the bytes: `Fifo` excuses it (`torn`). `NeverStuck` and `CallbackOnce` hold there too.

## 8. What could follow

A reader in `IProtoConn` that splits frames between two read loops, composed with `IProtoWire`: the one hazard that crosses the two modules. A decoder for
what the peer packs other than it is asked for. The proofs of `IProtoConn` could then be extended to the refinement of an abstract request, as `HttpConn` has one.
