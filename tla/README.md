# CoServer: specification, model checking and proofs

CoServer is a C++ coroutine server library. Each worker thread owns an epoll
instance, a connection pool, a timer map and a dispatcher; every client
connection has a coroutine, and libc's blocking calls (recv, send, sleep,
pthread_mutex_lock, ...) are hooked so that they suspend the coroutine instead of
the thread. This directory holds TLA+ models of that machinery, the TLC runs that
check them on small instances, and TLAPS proofs of what holds for every instance.
Source paths below are relative to `src/coserver/`.

## 1. Inventory of the system

| Component | State it keeps | Operations | What makes it correct |
|---|---|---|---|
| Dispatcher (`core/co_dispatcher.cpp`) | `m_run`, `m_delayConnections`, `m_waitResumes`, `m_waitSingles`, `needContinue` | start, stop, process_events_and_timers, func_dispatcher, three kinds of yield, resume_async | no queued entry reaches the wrong request; every suspended coroutine is woken; stop ends the loop |
| Client requests (`core/co_callback_request.cpp`, `co_callback_event.cpp`, `co_request.cpp`) | stage of each request, retCode, flags timedOut/pendingEof/dying/thirdFuncBlocking/useBlockConn | request_init, _read, _process, _write, _finalize, free_request_connection, event_exception | a request ends exactly once; a cut response closes the connection; an error in a sleep does not disturb it |
| Connection pool (`core/co_connection.cpp`) | free list, inner sockets, version of every connection | get, free, reset, expand, close_all | a pooled connection is clean; a version is never used twice for different uses |
| Events and timers (`core/co_event.cpp`, `base/co_timer.cpp`) | timer map, `m_flagTimerSet` | add, del, process, pre-handler of sleep | map and bits agree |
| Epoll (`base/co_epoll.cpp`) | registered events and version, kernel edges | add, del, modify, process_events | no edge is lost, no stale event is believed |
| Server control (`core/co_server_control.cpp`) | `m_curConnectionSize`, `m_listening`, accept quota | accept, limit, init_connection, func_cleanup, modify_listening | within max_connections; listening whenever there is room |
| Hooks (`base/co_hook.cpp`, `co_tcp.cpp`) | none of their own | read/write/connect/select/sleep/mutex | each hooked call returns what the libc call would |
| Coroutines (`base/co_coroutine.cpp`) | status, saved stack | init, swap in, swap out | entered once, resumed where it stopped |
| Server (`core/co_server.cpp`, `co_cycle.cpp`) | threads, published dispatchers | run_server, shut_down | shut_down ends every worker |
| Resume channel (`core/co_dispatcher.cpp`) | the two queues other threads fill, socketpair, its bytes | push + write a byte, handler of the read end, unlocked tests | a worker never sleeps on a queued resume |
| Sub-requests (`upstream/co_callback_upstream.cpp`, `co_upstream.cpp`) | parent, set of sub-requests, retries, kept connections | add_upstream, run_upstreams, detach, retry, free | the parent continues after the last sub-request, once |
| Backends (`upstream/co_upstream_backend.cpp`) | failures, check time, weights | avaliable, comm_failed, choose | a failing backend rests; weights are respected |
| Mutex hook (`core/co_single.cpp`) | waiting connections per mutex | add, find, free | no lost unlock, no deadlock between coroutines |
| Buffer (`base/co_buffer.cpp`) | size, misalignment, total | append, erase, expand, size_expand, reset | gap and data lie in the block, the block stays in proportion to a message |
| Protocols (`protocol/`: HTTP server, HTTP client, TCP) | parse state, headers, remaining length, body | decode, encode | a handler gets the body that was sent, in whatever pieces it came; nothing is left for the next message |
| Configuration, log, dns | - | text and wrappers | not modelled |

How they interact. Everything of one worker runs on one thread: epoll, timers and
the queues call `func_dispatcher`, which swaps a coroutine in; the coroutine
runs handler code, changes epoll, timers and the pool by direct calls, and swaps
out. Other threads touch a worker only through `resume_async`
(`m_waitResumes` under `m_mtxResume`) and `m_run`. The hard part is therefore
not data races but *orders*: a connection is closed, kept or reused
between the moment something named it (an epoll event, a queue entry, a timer,
a version held by another thread) and the moment that is acted upon; a client
dies while its handler is asleep, waits for a third party or for another thread; the accept
coroutine is suspended with a quota in its hand; the worker is stopped in the
middle of all this. `PROJECT.json` lists these hazards with their lines.

## 2. Modules

| Module | What it is |
|---|---|
| `CoService` | Abstract: what clients can tell of one worker. A status per connection (free, idle, busy), whose answer is whole, how many clients wait. A client is admitted only below `MaxConnections`, a connection is kept only after a whole successful answer, every request ends, no client waits for ever while connections are left. |
| `CoDispatcher` | One worker thread in detail: loop, epoll, timers, pool, accept, client requests, all blocking calls of handlers. |
| `CoForkJoin` | Abstract: what `add_upstream` and `run_upstreams` promise a handler. |
| `CoUpstream` | Sub-requests of a worker: the calls of handlers, upstream connections, retries, the queues through which parents and sub-requests wake each other. |
| `CoBackend` | The choice of a server for a sub-request and what failures do to it. |
| `CoSingle` | The hooked mutex, over several worker threads. |
| `CoResume` | How threads hand resumed coroutines to a worker, and what gets it out of epoll. |
| `CoRpc` | Abstract: calls over a kept connection. The handler is given what was asked, the caller what was replied, each call ends; only too long a line may break the connection. |
| `CoBuffer` | The buffer of a connection, as operators. |
| `CoProtocol` | encode and decode of the three protocol classes, as operators on symbols. |
| `CoExchange` | A connection with a client and a server end, their buffers and the network: the read and write loops of requests and sub-requests around `CoBuffer` and `CoProtocol`. |

Each detailed module `X` has `XProperties` (invariants, action properties, liveness, the
refinement mapping to its abstract module) and an `MC` module with configurations for TLC;
`CoDispatcherProofs`, `CoDispatcherLifeProofs` and `CoDispatcherServiceProofs` (each extends
the one before), `CoUpstreamProofs`, `CoExchangeProofs`, `CoBackendProofs`, `CoSingleProofs` and `CoResumeProofs` hold the proofs.

How they fit. `CoDispatcher` has the handlers' blocking calls but not their sub-requests;
`CoUpstream` has the same loop, with `m_delayConnections` as the FIFO it is, and leaves reading
and writing of client requests to `CoDispatcher`, the choice of a backend to `CoBackend` (any
backend may be chosen), and the mutex to `CoSingle`. `CoSingle` needs of the loop only that it
enters one coroutine at a time. `CoResume` opens the one step `ResumeAsync` of `CoDispatcher` (and `ResumeSingleAsync` of
`CoSingle`): the push, the unlock and the byte are steps of their own there, and what the entries lead to is left out.
`CoExchange` opens the steps `Recv` and `Send` (and `SubBlocks` of `CoUpstream`), where decode answers arbitrarily
and a write goes out whole or in parts: it has the bytes, and neither the scheduler nor exceptions.

## 3. Models and code

### CoDispatcher

State. `phase` and `needContinue` are the position and the local flag of
`process_events_and_timers`; `batch` is the part of epoll's event array not handled
yet; `delay` and `resumes` are the two queues, as sets, because the properties
hold for any order; `tokens` are the coroutine data (connection, version) that
handlers gave to other threads. `cur` names the connection being dispatched and
the queue that dispatched it: the coroutine of `cur` has the CPU. `pc` says where
each coroutine stands; the `...Wait` values are suspended calls, the `...Woken` values
the same calls swapped in again but not yet back in the caller. `flags` are the
connection's bit fields as sets of connections. Each connection `c` has two
items, `Orig(c)` and its block connection `Blk(c)`, which borrows its coroutine for a
third party socket. `timer.map` is `m_timers` and `timer.set` the events whose
`m_flagTimerSet` is 1: they are separate because `CoEvent::reset` changes only one.
`ep` holds the registered events, the version packed into the epoll data and
the kernel's ready list (`armed`); `sock` is the kernel's view of the sockets.

Steps. Between two swap points the thread runs alone, so a step is one
queue operation of the loop, or the handler code from one call that touches a
socket or the scheduler to the next. What other threads and the kernel do
(`ResumeAsync`, `Stop`, `ClientConnects`, `DataArrives`, `PeerCloses`,
`PeerReads`) may fall between any two steps.

| Actions | Code |
|---|---|
| `Start`, `StartWait`, `CloseAllConnections`, `Stop` | `CoDispatcher::start`, `stop`, `CoConnectionPool::close_all_connection`, `CoServer::shut_down` |
| `EpollWait`, `StaleEvent`, `ReadEvent`, `WriteEvent`, `EventsDone` | `CoEpoll::process_events` |
| `TakeDelay`, `DelayDone`, `TakeResume`, `LoopAgain`, `LoopEnd`, `LookAtTimers`, `ProcessTimer`, `TimersDone` | `process_events_and_timers`, `CoTimer::process_timer` |
| `WaitThirdFunc`, `Enter`, `FreeIdleConnection` | `func_dispatcher` with `event_exception` |
| `RequestInit`, `Recv`, `RecvResumed`, `UserReturn`, `Send`, `SendResumed`, `RequestFinalize` | `CoCallbackRequest` through the recv and send hooks |
| `UserSleep`/`SleepResumed`, `UserThirdSocket`/`ThirdResumed`, `UserYield`/`YieldResumed` | `yield_timer`, `yield_thirdsocket`, `yield(pair)` before and after their `swap_out` |
| `ListenEnter`, `Limit`, `Accept` | the listen handler, `limit`, `accept`, `init_connection` |

Abstractions. Time: any timer of the map may be the due one, in any round in
which the loop measured a tick of its clock. Data: a socket has unread data or not; `decode`
answers complete, more, or malformed; the response goes out whole or in parts.
Kernel: `epoll_ctl` looks at the socket again, as Linux does, and `epoll_wait`
reports an edge whose condition still holds. `epoll_ctl`, `malloc` and
`getcontext` do not fail. The pool has its final size; its growth is not
modelled. The user's handler blocks up to `MaxOps` times in any of the three ways.

`FirstWorker` says whether this thread was the first of the process to run
the loop: `funcResumeProcess` is a `static` lambda that captured the
`needContinue` of that first call by reference. On other threads a dispatch out of a
queue leaves the thread's own flag alone (and writes a dead stack slot of the first
worker).

### CoUpstream

State. `family[p]` is the request of parent `p`: `m_upstreamRequests`, `m_count`, and whether anything was
ever added (`m_upstreamInfos`). `req[u]` is the request on upstream connection `u`, with the version its parent had
when it was added. `pool` has the free connections, the kept ones of each backend (`m_reuseConnections`, the
last one kept is taken first), `m_curConnectionSize`, and the backend of each connection. `delay` is
a sequence; `armed` and `batch` are epoll's ready list and event array; `net` is what the peer has done.

The code that several handlers share works on a record of the state it changes (`Now` is the state, `Becomes`
makes it the next one): `GetConnection`, `Close`, `Keep`, `FreeIdle` are `CoUpstream::get_connection` and the cases of
`free_connection`; `FinalizeRequest` and `Retried` are `upstream_finalize_request` and `retry_upstream`; `Dispatch` is
`func_dispatcher` with `event_exception`, whose `QuickFinish` tells all sub-requests of a dying parent.

| Actions | Code |
|---|---|
| `AddUpstream`, `AddUpstreamDetach`, `RunUpstreams` | `CoUpstreamPool::add_upstream`, `add_upstream_detach`, `run_upstreams` |
| `SubBlocks`, `SubDone`, `SubFails` | the coroutine of a sub-request: `upstream_init` ... `upstream_finalize` |
| `UserSleep`, `UserYield`, `UserReturn` | a handler's other blocking calls, and its end |
| `TakeEvent`, `TakeDelay`, `TakeResume`, `ProcessTimer` with `Dispatch` | the loop; nothing of another thread is read between the dispatch and the entry, so they are one step |

Conventions for handlers, which the code needs and does not enforce: a handler stops adding after an error, runs what
it has added, and returns with no sub-request left (otherwise `upstream_finalize_request` follows `m_parent` into a deleted
request). With `BlocksAlone` it blocks in another way only while it has no sub-request; run `upstream_join` shows what happens otherwise.

### CoBackend

Times are ages in ticks, kept modulo `2 * Half`, the range of the code's `int32_t` casts; `Signed` is what the code compares.
`ChooseOne` and `ChooseOneWeight` are `choose_one` and `choose_one_weight` with the `avaliable()` of every server they
ask; `CommFailed` and `Succeed` end a request that was given a connection. `BackendWeight` is 0 because `CoBackendWRR::m_weight` is never
assigned, which makes `Weighted` true for every block with two or more servers and keeps `Lowered` from lowering anything.
`MaxQuiet` says that the upstream is asked at least once in a while; without it a server that was down may meet the sign change of the cast.
`Sum` is the fold over the servers of `choose_one_weight`'s loops, `Leads` the comparison of its last one.

### CoSingle

`ids` is `m_threadConnectionIds`, `blocks` is `m_blockMutexs`, `singles` the `m_waitSingles` of each thread, `owner` who holds each
mutex. `TryLock`, `AddBlockMutex`, `Unblocked` are `pthread_mutex_lock` and `add_block_mutex` before and after its `swap_out`; `Unlock`,
`FreeBlockMutex`, `ResumeSingleAsync` are `pthread_mutex_unlock`: a step is one critical section or one operation on a mutex, so
other threads may come between any two. `TakeSingle` and `TimerFires` are the loop's two ways back into a coroutine; `Dies` is a
client that leaves or times out meanwhile. `OutsideLocks` and `OutsideUnlocks` are a thread that is not hooked. Handlers lock mutexes
in ascending order and unlock them before they return: locking in any order deadlocks with every mutex.

### CoResume

`queue` counts the entries of `m_waitResumes` and `m_waitSingles`; `caller` says whether a thread is between its unlock and its
byte; `full` counts the worker's own handlers that found the socketpair full; `bytes` and `edge` are the socketpair and epoll's ready list; `at` is the position of `process_events_and_timers`.

| Actions | Code |
|---|---|
| `Push`, `WriteByte` | `resume_async`, `resume_single_async`: the critical section, then `tcp_write` of one byte if the queue was empty |
| `SendResumed` | the end of `read_write_mode` in a handler of the worker that was suspended at a full socketpair |
| `EpollWait`, `ReadEvent`, `OtherEvent` | `process_events`, and the handler of the read end, which reads up to 8 bytes once per edge |
| `Take`, `Leave` | one entry: `empty()` without the lock, `front` and `pop` with it |
| `LoopEnd` | the timers and the end of the inner loop |

The byte goes through the hook of `send`. If the calling thread is a worker and the connection of its running coroutine is dying, the
hook refuses to write; `silent` names the queues whose first entry came that way. They are excepted from the properties: such an entry waits for
the next event or for epoll's limit of a second.

What a full socketpair means depends on the caller. For an outside thread and for another worker its write end is a non-blocking descriptor, and the byte is
not written. For the worker itself it is a socket of its own pool, so the hook swaps the calling handler out, as it would for a client that does not read.
Nothing watches the write end for this handler: it goes on when something else enters it, such as its request's timer or its client, and then
tries once more or fails. No property promises that it is entered.

### CoBuffer, CoProtocol, CoExchange

A buffer is its valid data, the gap before them and the size of its block. A message is a sequence of symbols, one for what the code gives a meaning
(CR, LF, the length line, the size of a chunk, `Flag` of a TCP frame, the start of a response) and `Text` for all other bytes;
sizes and `MaxHeader` count symbols. A symbol with a number, such as a Content-Length line, is never cut: `LineLen` waits for a line's LF before its content counts, so
a cut inside it acts like a cut before it. The exception is the blank line, and its two bytes are two symbols.

`ParseStartLine`, `ParseHeaders`, `StartContent`, `ParseContent`, `ParseChunks` are the stages of `decode` of the two HTTP classes, which differ in what
`client` says: only a response is refused for its first line, only the client knows chunks. `DecodeTcp` is the third class. A decode returns what it
knows of the message, how much it erased, and OK, AGAIN or ERROR. The loop of `parse_content_chunked` is a function over the positions of a buffer
(`TakeChunks`): at each, the data of all whole chunks from there and why it stops. `Requests` and `Responses` are all that the sender of a connection's `kind` may write: `tcp` and
`http` have coserver at both ends; with `toOther` the server is another program, which sends chunks and long lines; with `fromOther` the client is.

| Actions | Code |
|---|---|
| `Ask` | `upstream_write` up to its loop: the buffer is reset, `encode` appends |
| `Reply` | `request_process` and `request_write` up to its loop |
| `Write` | a round of either write loop: `tcp_write` takes a part, `buffer_erase` |
| `ServerReads`, `ClientReads` | a round of `request_read`, `upstream_read`: `buffer_expand`, `tcp_read`, `buffer_size_expand`, `decode` |
| `Refuse`, `ClientTakes`, `Close` | a request that cannot be decoded: the handler is skipped, the default response (200, empty) is written, the connection closed |
| `KeepAlive` | both ends reset their connection for the next call |

The symbol `BlankCR` is the same byte as `CR` to the code; it marks the one place where a cut changes the message, so that
`SplitsBlankLine` FALSE can leave that cut out. Everything `protocol` shows holds except for that cut; `protocol_cut` shows what it does.

## 4. Runs

| Run | Question | Instance and bounds |
|---|---|---|
| `worker` | Are loop, pool, epoll and timers safe when two connections interleave and handlers block in every way? Does the worker implement `CoService`? | pool of 2 below `MaxConnections` 3, quotas of up to 2, 3 clients, 3 pieces of data, one blocking call per handler; symmetric |
| `shutdown` | Does a stop at any moment end the loop, and what does it leave behind? Until then, is every client served and every connection released? | 1 connection, `MaxConnections` 1, 2 clients, 2 pieces of data, under `FairSpec` |
| `shutdown_lost` | Does shut_down always end the worker, as its comment says? | violated |
| `third_timeout` | Is a third party timeout told from the death of the client? | violated |
| `upstream` | Is the join complete, are connections counted, does everything end? Does it implement `CoForkJoin`? | 1 parent with 2 requests and 2 calls, 2 upstream connections and servers, 1 retry |
| `upstream_join` | Does `run_upstreams` return after all sub-requests, also if the handler blocked before? | violated, `BlocksAlone` FALSE |
| `upstream_static` | Is all queued work done before epoll is waited for, on every worker? | violated, `FirstWorker` FALSE |
| `backend` | Does every server get its share, does a failing one rest and come back? | up to 2 servers, weights up to 3, `FailTime` 1, `FailNum` 2, `Half` 3, 2 requests in flight |
| `single` | Is the set of waiters exact, does no stale wake-up end a sleep, does every request return? | 2 threads with a connection each, 2 requests and 2 calls each, 2 mutexes, 1 lock from outside |
| `resume` | Does a worker ever wait in epoll on a queued resume that nothing will tell it of? | calls from a handler of the worker itself, another worker and a thread outside; `Room` 3, `ReadSize` 2, `MaxQueue` 2 |
| `protocol` | Do handlers get what was sent, is nothing left over, do buffers stay bounded, is only a too long line refused? Does it implement `CoRpc`? | 2 calls of every kind; empty bodies and 5 symbols (with line ends inside), first lines of 3, 5, 6; `MinSize` 4, `MaxHeader` 8, `ReadSize` 4, `NetSize` 4 |
| `protocol_cut` | The same where a piece may end inside the blank line | violated, `SplitsBlankLine` TRUE, 1 call |

Why the bounds are enough. `worker`: two connections are needed for one to be handled in
the middle of the event array of another, and nothing in the code relates three. Reuse
hazards need a connection to be in a second use while an entry of the first is still
queued: its clients and pieces of data give keepalive and close in every order. With the pool smaller than `MaxConnections`,
accept also finds it empty; `shutdown` has the listener switched off and on instead (its one connection is the limit).
`MaxAccept` 2 gives quotas cut by the limit (in `shutdown` always, in `worker` with two slots in use) and, in `worker`, quotas kept while accept is
suspended and connections end; that is where `Capacity` is checked. Its last part, that the listener is watched whenever there is room, is not at risk there, since
the pool is empty first; in `shutdown` `ImplementsLive` fails without it, and `CapacityKept` proves it. `upstream`: two sub-requests of one parent give every order of
ends, and a second request of the parent meets kept connections and stale entries of the first; parents do not share
state except the connections, which two requests of one parent compete for as well. `backend`: with `Half` 3 the sign of the cast changes
within the run, and two servers give every pattern of one resting while the other is chosen; the weights 1 to 3
include all ratios of unequal cycles up to length 5. `single`: a stale entry needs a wait that the timer ends and a
second wait, sleep or request (2 requests, 2 calls), a wake-up spent on another mutex needs two mutexes.
`MaxQueue` 2 bounds how often a wait is retried while the mutex stays locked (each retry registers the connection again).
`resume`: the socketpair fills up (`Room` is more than a read, so bytes also pile up over several edges), each queue is empty, has one or more entries,
each of the three kinds of thread can stop between unlock and byte, and up to `MaxQueue` handlers of the worker are suspended at once at a full socketpair. `protocol`: a first line of 5 is the longest that is
safe (`MaxHeader - ReadSize + 1`), 6 the first that a read may push over the limit; a body is longer than a read, so every message takes several; the second call starts
with a used buffer and finds every way of the first to end; blocks grow up to three times.
`CHECK_DEADLOCK FALSE` is used where `shut_down` may end the loop or the bounded environment runs dry.

Properties of `CoDispatcher`. `TypeOK`; `TimersMatch`; `FreeIsClean`; `Capacity`; `SlotsCounted`;
`NoLostWakeup` (edge triggered readiness is always still in flight for who needs it);
`RightWaker` (a coroutine is only entered by what it waits for, or to be told of an exception);
`NoForgottenCoroutine`; `SleepRunsOut` (README of the repository: a sleep is not cut short by errors);
`ThirdFailureIsLocal` (test/testcase.md 5.3); `Implements`, `ImplementsLive`, `AllReleased`,
`StopEnds`, `ExitLeavesOnlyYields`.
Of `CoUpstream`: `ParentOutlivesSubs`, `ConnectionsCounted`, `WaiterHasWaker`, `QueuesDrained`, `DyingNotRetried`, `Implements`, `AllEnded`.
Of `CoBackend`: `Proportional` (smooth weighted round robin, also while servers rest: the current weights add up to 0 and
none is further from it than `Lead`, the largest weight times the number of the other servers), `DownRests`, `TakenBack`. One might expect a server never
to be ahead or behind by more than one round, the sum of all weights. That holds with two servers, and with more while none rests, but not in general: with
weights 9, 1, 1, 1 the rests can be timed so that a current weight reaches 14, more than the 12 of a round. `Lead` is what the proof gives for any rests.
Of `CoSingle`: `IdsExact`, `SleepUndisturbed`, `AllReturn`.
Of `CoResume`: `NoSleepOnWork` (a wake-up is reported or being written), `Woken` (so the worker comes back without its time limit).
Of `CoExchange`: `NothingLeft`, `BufferBounded`, `Implements` (delivery, exactly one handling of each request, an end of each call, and which messages may be
refused), `Delivered` where it fails. `AllReleased` and `ImplementsLive` speak of a worker that is not stopped.
For each there is a mutant in `PROJECT.json`: a plausible bug of
the code, written as a variant operator next to the original, that makes TLC refute the property.

Fairness (`FairSpec`), and why the code justifies it:

* `WF(Loop \/ Handler)`: the worker thread runs; `process_events` returns after at most
  1000 ms even without events, and user handlers are assumed to return.
* `SF(Timers)` and `SF(LookAtTimers)`: time passes, so a timer of the map is due some day and the loop
  measures a tick. A third party socket without `SO_RCVTIMEO` gets a timer of `(uint32_t)-1` ms: it
  is due in theory only, but the request's own timer (`request_process`) ends such a wait.
* `SF(LoopEnd)`: not every round of the inner loop lasts a millisecond. The code has a `todo`
  there: it sets no limit, and under sustained load the inner loop could go on without
  looking at epoll.
* `WF(Resumer)`: who was given coroutine data resumes it. `yield(pair)` has no timer of its own.
* Nothing is assumed of clients and third parties, nor of `Stop`.
* `CoUpstream` has the same; a sub-request's connect, write and read each have a timer, so a server that never answers
  is covered by `SF(Timers)`.
* `CoBackend`: requests keep asking for a connection and time passes.
* `CoSingle`: every thread runs (`WF`), a retry or sleep timer comes due again and again while its thread is free now and then (`SF`), and a thread
  outside that has a mutex unlocks it.
* `CoResume`: the worker runs and a thread that has unlocked goes on to write its byte (`WF`). Other events and epoll's time limit are steps without fairness, so
  `Woken` rests on the byte alone.
* `CoExchange`: `WF(Work)`: both programs run, the network delivers what was written, handlers return. Asking is not fair.

## 5. Proofs

Every theorem holds for all values of the constants that satisfy the named assumption of its module. Each invariant below was first
checked by TLC on the instance of a run, then shown to hold initially and to be kept by every action; `theorems` in `PROJECT.json` lists the results.

### The dispatcher (`ConstantAssumption`: a finite non-empty pool, a positive `MaxConnections` and `MaxAccept`)

`CoDispatcherProofs`:

* `TypeCorrect`: `Spec => []TypeOK`, one step per action.
* `CapacityKept`: `Spec => []Capacity`. Neither half is inductive alone: that
  `curSize` stays within the limit while accepts are pending needs the quota part
  of `Capacity`, whose arithmetic needs the types; the induction is over
  `Safe == TypeOK /\ Capacity`. The interesting step is the accept that was suspended: other
  steps may only lower `curSize`, so its quota still fits.
* `TimersAlwaysMatch`: `Spec => []TimersMatch`. `CoEvent::reset` breaks the
  agreement of map and bits unless no timer of the connection is pending, so the invariant needs to know which
  timers a coroutine holds at each `pc`; `TimerInv` says that.

The second half of `CoDispatcherProofs` states once what a step does to one connection. An action of a handler is a *row*: who runs, from which `pc` to which,
with which timers, registrations, flags and queue entries. `HandlerRows` shows that each handler action is a row, the lemmas of the loop, the
listener and the outside world say the rest, and the later proofs split on rows and not on actions.

* `WatchFollowsStage`: `Spec => []WatchInv`. What epoll watches for a connection follows from its `pc`: the events, and for the client's socket the
  version of this use. Together with the three invariants above this is `Base`.

`CoDispatcherLifeProofs`:

* `PoolIsClean`: `Spec => []FreeIsClean`. A connection is accepted before its first step runs, so "clean" must hold from the pool until the entry
  queued by `init_connection` is taken (`Fresh`), and a clean connection stays so only because whatever still names it names an
  earlier version: `CleanInv` adds that no queue, batch or token holds a version later than the connection's.
* `WokenByItsWaker`: `Spec => []RightWaker`, over `SchedInv`: the queues belong to their phases and an item has one entry in a batch (`LoopInv`);
  an unprocessed event of this use is one its coroutine still waits for, and still true (`BatchOf`); coroutine data of this use
  belong to a coroutine in its yield, or to one whose connection is being given up (`TokenOf`); so the dispatched one is `Wanted`.
* `SleepsRunOut`: `Spec => SleepRunsOut`, an action property, from the same invariants.

`CoDispatcherServiceProofs`:

* `NobodyForgotten`: `Spec => []NoForgottenCoroutine`, over `WakeInv`. A coroutine of a connection that is about to be dispatched has no waker left,
  so the induction covers also the stages in between: the read and the write timer last as long as their stage, and are only gone
  together with a flag (`TimedOf`), which is what makes the hook refuse to suspend.
* `ExitCutsNothing`: `Spec => []ExitLeavesOnlyYields`. The loop ends only with an empty timer map, so by `WakeInv` every other coroutine would have a timer.
* `SlotsAlwaysCounted`: `Spec => []SlotsCounted`, by the cardinalities of the connections in use before and after each row.
* `ThirdFailuresAreLocal`: `Spec => ThirdFailureIsLocal`.
* `ImplementsService`: `Spec => Implements`, that is `CoService!Safe` under the refinement mapping of `CoDispatcherProperties`: `LifeInit` maps the initial
  states, `LifeStep` maps a step of every row to a step of the service or a stutter. It needs `SlotsCounted` (an admission is within `MaxConnections`) and `AnswerInv` (a request in its
  last stage with `CO_OK` has had its whole response sent).
* `NoEdgeIsLost`: `Spec => []NoLostWakeup`, over `EdgeInv`. Of a condition that was reported once, something must be left: epoll's ready list, an entry of the
  batch under this version, an entry queued by `init_connection`, the dispatch itself, or a flag. The delicate case is an event array
  that holds the read and the write edge of one socket when the first is handled (`WriteLeft`).

### Sub-requests (`UpstreamAssumption`: disjoint finite sets of parents and upstream connections; `CoUpstreamProofs`)

The operators of `CoUpstream` work on a state `s` of what they change, and so do the lemmas: `IsClose`, `IsKeep`, `IsGiven`, `IsFinalize` and the like say
what each does to the fields of `s`, and the actions are then put together from them (`AddIs`, `DoneIs`, `FailsIs`, `TimerIs`, ...: an added sub-request is
`Forks`, a retried one `Retries`, and so on). The safety invariants are corollaries of one, `Inv`:

* `Placed`: every coroutine stands where its kind of connection can, and only the one with the CPU is inside its handler.
* `Related`: `m_parent`, `m_upstreamRequests` and `m_count` agree; `m_count` is one more than the sub-requests left, so the decrement that makes it 1 is the last.
* `Pooled`: free, kept and used connections, with the counter of the upstream block.
* `Clean` and `Stamped`: nothing queued, in a batch or in the timer map names a free connection under its present version, and what
  names a connection never does so under a version to come. Without these `ConnectionsCounted` is not inductive: a late entry could enter the
  coroutine of a connection that has been given back. A kept connection may be named by an event, but then only by the end of its stream.
* `Blocking`: a sleep timer belongs to a sleeping handler, and m_blockConnection to a handler that has one.
* `Loops`: which queues may hold something in which phase.

An operation that passes a connection on goes through states in which that connection belongs to nobody (freed but its request not ended yet; taken out of
the pool but without a request). `Core(s, h, r, y, x)` is therefore `Inv` with two exceptions, a sub-request `y` that is between two connections and a
connection `x` that is between two users; both are `None` again after each action.

* `UpstreamTyped`: `Spec => []TypeOK`. `ParentsOutliveSubs`: `Spec => []ParentOutlivesSubs`. `ConnectionsAreCounted`: `Spec => []ConnectionsCounted`.
* `QueuesAreDrained`: `FirstWorker` implies `Spec => []QueuesDrained`: whatever is queued in the resume phase sets the flag of the loop. The hypothesis is that of
  the finding `upstream_static`: on other workers the property is false.
* `WaitersHaveWakers`: `Spec => []WaiterHasWaker`. For this the same steps are described by what they do to a connection they are not about (`Keeps`) and
  to the ones they are about (`Starts`, `Rebounds`, `Ends`, `Moves`); `Ends` says that the last sub-request to end leaves an entry for its parent.
* `DyingAreNotRetried` and `ImplementsForkJoin`: `BlocksAlone` implies `Spec => DyingNotRetried` and `Spec => Implements`. The hypothesis is
  that of the runs, a constant of the module: a handler blocks in a sleep or a yield only while it has no sub-requests. Without it the code does not
  implement a join (finding `upstream_join`). Both theorems are over `Inv` and a second invariant, `Apart`, which says of each parent: if it is dying its
  sub-requests are marked so (`Told`), and what is still queued, set, resumed or in a batch for it is what it waits for now (`Awaited`): one
  entry in m_delayConnections at most, only in a join without sub-requests; a token only in a yield (either may be left over when a dying parent
  was entered because of the error); and once it has left `idle`, no event except the end of its stream. So an entry of an earlier wait never ends a later join. `Serve` and `Same` say what a step is to the fork and the join of
  one parent; `StepApart` shows that every action serves at most one parent and leaves the others the same.

### The choice of a server (`BackendAssumption`, `CoBackendProofs`)

* `BackendTyped`, `BackendProportional`, `BackendDownRests`: `Spec => []TypeOK`, `Spec => []Proportional`, `Spec => DownRests`, for any number of servers,
  all over one invariant `IInv`. That the bound of `Proportional` holds while servers rest and return is not inductive for single servers. What is (`Balanced`): the current
  weights add up to 0, and every *set* of `k` of `n` servers is ahead by at most `Heaviest * k * (n - k)` (`Ahead`). A choice adds the weights of the
  servers that are up and takes their sum from the one that leads; a set without the leader cannot go over its bound, because neither that
  set with the leader nor that set without its servers that are up was over its own (`TooFarAhead`).
* `DownRests` rests on `Asked`: while a server is marked failed, its age is below `FailTime` plus the time since the upstream was last asked,
  because every choice takes back the servers whose rest is over. `FailTime + MaxQuiet <= Half` then keeps the age below the sign change of the cast.
* The sums over servers are recursive functions; their lemmas go by induction, stated for a set of naturals (`Induct`, from well-foundedness),
  as the library's theorem with an operator parameter cannot be used.

### The hooked mutex (`SingleAssumption`: every connection has a home thread, the owners None and Outside are no connections; `CoSingleProofs`)

* `SingleTypeCorrect`: `Spec => []TypeOK`, with: a coroutine runs exactly while it has the CPU of its thread, and has a sleep
  timer exactly while it is suspended. Three lemmas (`KeepsCpu`, `LeavesCpu`, `EntersCpu`) say this of the three kinds of step.
* `WaitersAreExact`: `Spec => []IdsExact`. The induction is over `SingleInv`, which adds `FoundKept`: the entry free_block_mutex took is
  still there when it is resumed. The interesting step is `TakeSingle`: `find_block_mutex` and exactness together say that the
  coroutine it enters is suspended in a wait for a mutex and nowhere else.
* `SleepKept`: `Spec => SleepUndisturbed`, from the same invariant.

### The resume channel (`ResumeAssumption`: any threads, room in the socketpair and size of a read; `CoResumeProofs`)

* `ResumeTypeCorrect`: `Spec => []TypeOK`; with it, that the bytes stay within the socketpair's room.
* `NeverSleepsOnWork`: `Spec => []NoSleepOnWork`. The property speaks of a worker in epoll only; the induction needs the same of every
  queue the loop has already left in this round (`Announced`), and that a full socketpair has its edge reported, except between an event and its
  handler (`FullIsReported`). The interesting step is `WriteByte` when there is no room: the byte is lost or its writer suspended, and it was not needed, because the read end is reported
  or the worker has just been woken and has both tests before it.

### Calls over a connection (`ExchangeAssumption`: a finite set of messages whose first lines are not shorter than `ShortLine`, any `ReadSize` and `NetSize` above 1, `MinSize <= ReadSize`; `CoExchangeProofs`)

All of it has the hypothesis `~SplitsBlankLine`: no read ends inside the blank line after a header. The finding `protocol_cut` shows that the
code needs it. Nothing else is assumed of the pieces, nor of the number of calls.

The proof is about bytes: what a decoder makes of a message cut into pieces nobody chose. `Piece(w, i, j)` is what lies between two places of a message
`w`, and the invariant `Calls` says of a call under way that there are places `at <= mid <= end` such that the reader's buffer holds `Piece(w, at, mid)`,
the network `Piece(w, mid, end)` and the sender's buffer the rest (`Parts`), and that what the reader knows is what it must know after `at` bytes of which it has seen
`mid` (`Progress`): nothing; the header lines before `at`; or the body up to `at`, `at` being inside a body with a length or at the end of a chunk.
`Calls` quantifies over all messages `w`, so that TLC cannot evaluate it: the run `protocol` checks what follows from it.
It is preserved because

* what each encoder writes has the shape the decoder looks for (`RequestsAre`, `ResponsesAre`, `ChunkedAre`, `FramesAre`): the line ends are where `IsText` says, the
  blank line is the first line that begins with CR, each chunk begins where the one before ends (`IsCut`);
* from any `Progress`, one more read of any length gives the message whole, or `Progress` again with what was not erased kept, or a refusal, and this only if the first line
  is longer than `MaxHeader - ReadSize + 1` (`ReadOnce`, from `HeadersAre`, `ContentParsed`, `ChunksParsed`, `FrameIs`). `TakesAre` goes by induction over the chunks from
  the last to the first (`Induct`, as for the sums of `CoBackend`);
* `buffer_expand` gives room, and gap and data stay in a block that doubles (`Buffer`, `ExpandIs`, `EraseIs`, `AppendIs`); `Grown` and `TakeChunks` are recursive functions,
  which are first shown to exist (`DoublesExists`, `TakeExists`).

Its consequences:

* `TypeCorrect`, `MessageConsumed`, `BlockBounded`, `BodyDelivered`: `Spec => []TypeOK`, `[]NothingLeft`, `[]BufferBounded`, `[]Delivered`.
* `KeepsPromise`: `Spec => Rpc!Safe`, the safety of `CoRpc` under the mapping of `CoExchangeProperties`: `Ask` and `Reply` are its steps, a read that completes a message is
  `Serve` or `Return`, one that refuses it is `Break` and shows that the line was too long, every other step a stutter.

### Only model-checked

* Liveness, which needs fairness and ENABLED and is outside what the prover handles: `AllReleased`, `StopEnds`, `ImplementsLive`, `TakenBack`, `AllReturn`, `Woken`, `AllEnded`
  and the liveness part of `Implements` of `CoExchangeProperties`: that a call once asked comes to an end.
* What happens where a hypothesis of a theorem does not hold (`BlocksAlone`, `FirstWorker`, `SplitsBlankLine`): that is what the runs of the findings show.

## 6. Findings

* **Lost stop** (`shutdown_lost`). The worker publishes its dispatcher before `start` sets `m_run = true`;
  a `shut_down` in between is overwritten and blocks in `join`.
* **Third party timeouts look like exceptions** (`third_timeout`). `event_exception` marks the block
  connection dying before `yield_thirdsocket` looks, so its CO_TIMEOUT and CO_ERROR branches are dead code
  and a hooked `recv` with a timeout does not set `EAGAIN`.
* **A join that ends early** (`upstream_join`). The end of a sub-request wakes its parent out of whatever it waits for, and a wake-up the parent
  then no longer waits for ends its next `run_upstreams` with CO_OK while a sub-request runs.
* **Queued work is left** (`upstream_static`). The static lambda of `process_events_and_timers` sets the flag of the first worker only; on others
  a sub-request queued in the resume phase waits for the next event or the time limit of epoll.
* **A cut blank line** (`protocol_cut`). If a piece ends between CR and LF of the line after an HTTP header, the CR ends the header although the line is not
  complete, and it stays in the buffer: the handler gets a body that begins with CR LF and lacks its end.
* Noted while modelling, without a run: `m_weight` of `CoBackendWRR` is never set, so errors do not lower a weight; the cast to
  `int32_t` of the distance to the time stamp 0 is negative during half of every 50 days, and until the window first restarts errors of a backend are counted together
  however far apart they are; a wake-up of `free_block_mutex` can be spent on a connection that waits for another mutex by now, and the true waiter
  then waits for its retry timer; a coroutine whose client is dying resumes others without a byte, so that they wait for the next event of
  their worker; the client socket leaked when the pool is empty; `close_all_connection` also queues the write end of the resume channel;
  a TCP message with an empty body is never complete; HTTP lines are printed into 512 bytes and lose their end and line break beyond; a request
  that cannot be decoded is answered with 200 and an empty body; what follows a request in the buffer (pipelining) is dropped by the reset of a kept
  connection. The bytes that pile up in the resume socketpair turned out to be harmless to the queues (`NeverSleepsOnWork`); but a handler of the worker that finds it
full while resuming another coroutine is itself suspended, and the room made by the next read does not wake it.

## 7. Plan

All modules planned at first are written. What would add most from here:

* For `CoBackend`: that the failure counters are those of the two branches of `comm_failed`.
* A module for the rest of the hooks, `CoHook`: `connect` and `select` of a handler, and the flag `O_NONBLOCK` each hooked call saves and
  restores, which two coroutines may do with one third party socket in turns.
* The expansion of the connection pool, with the limits that are derived from its size.

## 8. Not modelled, and why

Configuration, logging and DNS are text processing or wrappers without shared state. Stack copying in
`co_coroutine.cpp` is memory layout. Thread creation and the start-up of a worker before its loop are sequential. The
expansion of the pool only changes how many connections are free. `connect` and `select` as hooks of handlers are in the plan; the
variant CO_MUTEX_SLEEP of the mutex hook is not built by default. Of the protocols, URLs, parameters, status texts, headers without a meaning for the
framing and the cut of lines at 512 bytes are left out, and so are memory that cannot be had and blocks near the size of the address space.

Inside what is modelled, these branches are left out. Of `CoDispatcher`: EPOLLERR or EPOLLHUP without EPOLLIN and EPOLLOUT, which `process_events` turns into both
events; a request that cannot create its protocol (`CoRequest::init`), which
is answered with an error at once; an accepted descriptor that `init_client_socketfd` or `set_nonblock` refuses; and what `close_all_connection` does to the
listening connection and the two ends of the resume channel. Of `CoSingle`: the byte of `resume_single_async` never suspends its caller; `CoResume` has that step for either queue.
Of `CoProtocol`: a TCP head with a negative length (peers write what `encode` writes), and lines of the header other than the first that are long: in the
runs and in `KeepsPromise` only the first line can exceed `MaxHeader`.

The tests and tutorials are example handlers; the models offer the calls they make as choices.
