---------------------------- MODULE CoDispatcher ----------------------------
(***************************************************************************)
(* One worker thread of CoServer: the dispatch loop, the connection pool,  *)
(* edge triggered epoll, the timer map, and the life of client requests    *)
(* from accept to keepalive or close, with the three ways a request        *)
(* handler may block (hooked sleep, hooked third party socket, explicit    *)
(* yield resumed by another thread).                                       *)
(*                                                                         *)
(* The thread runs one coroutine at a time: cur names the connection being *)
(* dispatched, pc says where the coroutine of each connection stands.      *)
(* A step of the worker is one queue operation of the loop or one stretch  *)
(* of handler code between two calls that touch a socket, a timer or the   *)
(* scheduler.  Time is abstract: any timer of the map may be due.          *)
(***************************************************************************)
EXTENDS Integers, Sequences, FiniteSets

CONSTANTS Conn,            \* the pooled connections that can serve clients
          Listen,          \* the listening connection
          MayStop,         \* whether CoServer::shut_down may be called
          FirstWorker,     \* this thread is the one that ran the loop first
          MaxConnections,  \* max_connections of the server block
          MaxAccept,       \* MAX_ACCEPT_NUM, accepts between two limit() calls
          MaxClients,      \* bound: clients that ever connect
          MaxSends,        \* bound: pieces of data the clients send in all
          MaxOps           \* bound: blocking calls of one request handler, and
                           \* parts in which the socket takes one response

ASSUME ConstantAssumption ==
    /\ Conn # {}
    /\ IsFiniteSet(Conn)
    /\ Listen \notin Conn
    /\ MayStop \in BOOLEAN /\ FirstWorker \in BOOLEAN
    /\ MaxConnections \in Nat \ {0}
    /\ MaxAccept \in Nat \ {0}
    /\ MaxClients \in Nat
    /\ MaxSends \in Nat
    /\ MaxOps \in Nat

VARIABLES
    phase,       \* where process_events_and_timers stands
    needContinue,\* its local flag: go round the inner loop again
    running,     \* CoDispatcher::m_run
    stopped,     \* CoServer::shut_down has called stop() on this dispatcher
    cur,         \* connection being dispatched and the queue it came from
    batch,       \* events of the last epoll_wait not processed yet
    delay,       \* m_delayConnections: <<connection, version>>, any order
    resumes,     \* m_waitResumes: <<connection, version>>, any order
    tokens,      \* <<connection, version>> held by other threads
    free,        \* m_freeConnections
    version,     \* m_version
    pc,          \* where the coroutine of each connection stands
    flags,       \* the flag bits of connections and of their block connections
    timer,       \* m_timers, and the events whose m_flagTimerSet is 1
    ep,          \* registered events and versions, and epoll's ready list
    sock,        \* kernel state of the sockets
    retOk,       \* connections whose request ends with retCode CO_OK
    ops,         \* blocking calls of the handler, then parts of the response sent
    answered,    \* history: connections whose response was sent whole
    lpc,         \* where the accept loop of the listen connection stands
    quota,       \* accepts left before limit() is asked again
    curSize,     \* CoServerControl::m_curConnectionSize
    listening,   \* CoServerControl::m_listening
    backlog,     \* clients waiting in the kernel to be accepted
    clients,     \* clients that may still connect
    sends        \* pieces of data clients may still send

loop    == <<phase, needContinue, running, stopped>>
queues  == <<batch, delay, resumes, tokens>>
request == <<retOk, ops, answered>>
accept  == <<lpc, quota, backlog>>
control == <<curSize, listening>>
budget  == <<clients, sends>>
vars == <<phase, needContinue, running, stopped, cur, batch, delay, resumes, tokens,
          free, version, pc, flags, timer, ep, sock, retOk, ops, answered,
          lpc, quota, curSize, listening, backlog, clients, sends>>

-----------------------------------------------------------------------------
(* A connection and its block connection, their events, epoll event sets.  *)

Orig(c) == <<c, "origin">>
Blk(c)  == <<c, "block">>
Lsn     == <<Listen, "listen">>
Item    == Conn \X {"origin", "block"}
Owned(c) == {Orig(c), Blk(c)}

Ev    == {"in", "rdhup", "out"}
READ  == {"in", "rdhup"}      \* CO_EVENT_READ

Rd(c)    == <<Orig(c), "read">>
Wr(c)    == <<Orig(c), "write">>
Sleep(c) == <<Orig(c), "sleep">>
BRd(c)   == <<Blk(c), "read">>
Event == Item \X {"read", "write", "sleep"}
EventsOf(c) == {Rd(c), Wr(c), Sleep(c), BRd(c)}

(* The coroutine is READY (idle), suspended in a call, swapped in but      *)
(* still inside that call (woken), or running.                             *)
Waiting == {"recvWait", "sleepWait", "thirdWait", "yieldWait", "sendWait"}
Woken   == {"recvWoken", "sleepWoken", "thirdWoken", "yieldWoken", "sendWoken"}
Active  == Woken \cup {"init", "recv", "user", "send", "final"}
PC == {"idle"} \cup Waiting \cup Active

Wake(p) == CASE p = "recvWait"  -> "recvWoken"
             [] p = "sleepWait" -> "sleepWoken"
             [] p = "thirdWait" -> "thirdWoken"
             [] p = "yieldWait" -> "yieldWoken"
             [] p = "sendWait"  -> "sendWoken"
             [] p = "idle"      -> "init"

Nobody == [item |-> Lsn, by |-> "none"]
By == {"none", "event", "out", "delay", "resume", "read", "write", "sleep"}
WorkerFree == cur.by = "none"
Dispatched(i) == ~WorkerFree /\ cur.item = i
(* The coroutine of c has the CPU in program state p.                      *)
At(c, p) == ~WorkerFree /\ cur.item \in Owned(c) /\ pc[c] = p

(* The version of a block connection and of the listen connection never    *)
(* changes: neither is ever reset through CoConnection::reset.             *)
VersionOf(i) == IF i[2] = "origin" THEN version[i[1]] ELSE 0

-----------------------------------------------------------------------------
(* CoTimer.  map is m_timers, set the events with m_flagTimerSet = 1.      *)

AddTimer(tm, e) ==
    IF e \in tm.set THEN tm
    ELSE [map |-> tm.map \cup {e}, set |-> tm.set \cup {e}]

DelTimer(tm, e) ==
    IF e \notin tm.set THEN tm
    ELSE [map |-> tm.map \ {e}, set |-> tm.set \ {e}]

(* CoEvent::reset clears the flag and leaves the map alone.                *)
ResetEvents(tm, c) == [tm EXCEPT !.set = @ \ EventsOf(c)]

-----------------------------------------------------------------------------
(* CoEpoll over the kernel's edge triggered readiness.                     *)

Cond(i) == (IF i \in sock.data \cup sock.eof THEN {"in"} ELSE {})
           \cup (IF i \in sock.eof THEN {"rdhup"} ELSE {})
           \cup (IF i \in sock.room THEN {"out"} ELSE {})

(* epoll_ctl: the kernel looks at the socket again and queues an edge.     *)
Register(e, i, evs, v) ==
    [ev    |-> [e.ev EXCEPT ![i] = evs],
     ver   |-> [e.ver EXCEPT ![i] = v],
     armed |-> IF evs \cap Cond(i) # {} THEN e.armed \cup {i}
               ELSE e.armed \ {i}]

Modify(e, i, evs, v) ==
    IF evs = e.ev[i] /\ v = e.ver[i] THEN e ELSE Register(e, i, evs, v)

AddEvents(e, i, evs, v) == Modify(e, i, e.ev[i] \cup evs, v)
DelEvents(e, i, evs, v) == Modify(e, i, e.ev[i] \ evs, v)

(* Variant: the closed socket is left to the kernel, the bits stay.        *)
DelConnectionSkipped(e, i) == e

DelConnection(e, i) ==
    IF e.ev[i] = {} THEN e ELSE Register(e, i, {}, 0)

ReadActive(i)  == ep.ev[i] \cap READ # {}
WriteActive(i) == "out" \in ep.ev[i]

-----------------------------------------------------------------------------
(* The listening socket is registered exactly while listening holds: the   *)
(* two change together, with a new look of the kernel at the backlog.      *)
(* Variant: the listening socket is never watched again once it was full.  *)
ModifyListeningOnce(n, e, l) ==
    IF n >= MaxConnections
    THEN [listening |-> FALSE, ep |-> [e EXCEPT !.armed = @ \ {Lsn}]]
    ELSE [listening |-> l, ep |-> e]

ModifyListening(n, e, l) ==
    IF n >= MaxConnections
    THEN [listening |-> FALSE, ep |-> [e EXCEPT !.armed = @ \ {Lsn}]]
    ELSE IF l THEN [listening |-> TRUE, ep |-> e]
    ELSE [listening |-> TRUE,
          ep |-> IF backlog > 0 THEN [e EXCEPT !.armed = @ \cup {Lsn}] ELSE e]

TimerSet == [map : SUBSET Event, set : SUBSET Event]
EpSet == [ev : [Item -> SUBSET Ev], ver : [Item -> Nat],
          armed : SUBSET (Item \cup {Lsn})]
SockSet == [data : SUBSET Item, eof : SUBSET Item, room : SUBSET Item]

NoFlags == [timedOut |-> {}, pendingEof |-> {}, dying |-> {},
            third |-> {}, useBlock |-> {}]
FlagSet == [timedOut : SUBSET Item, pendingEof : SUBSET (Item \cup {Lsn}),
            dying : SUBSET Item, third : SUBSET Conn, useBlock : SUBSET Conn]

Flagged(i) == i \in flags.timedOut \cup flags.pendingEof \cup flags.dying

(* CoConnection::reset_block, and reset which calls it at its end.         *)
ResetBlock(f, c) ==
    [f EXCEPT !.timedOut = @ \ {Blk(c)}, !.pendingEof = @ \ {Blk(c)},
              !.dying = @ \ {Blk(c)}]
ResetFlags(f, c) ==
    [timedOut |-> f.timedOut \ Owned(c), pendingEof |-> f.pendingEof \ Owned(c),
     dying |-> f.dying \ Owned(c), third |-> f.third \ {c},
     useBlock |-> f.useBlock \ {c}]

Init ==
    /\ phase = "boot" /\ needContinue = FALSE
    /\ running = FALSE /\ stopped = FALSE
    /\ cur = Nobody
    /\ batch = {} /\ delay = {} /\ resumes = {} /\ tokens = {}
    /\ free = Conn
    /\ version = [c \in Conn |-> 0]
    /\ pc = [c \in Conn |-> "idle"]
    /\ flags = NoFlags
    /\ timer = [map |-> {}, set |-> {}]
    /\ ep = [ev |-> [i \in Item |-> {}], ver |-> [i \in Item |-> 0], armed |-> {}]
    /\ sock = [data |-> {}, eof |-> {}, room |-> {}]
    /\ retOk = {} /\ ops = [c \in Conn |-> 0] /\ answered = {}
    /\ lpc = "ready" /\ quota = 0
    /\ curSize = 0 /\ listening = TRUE
    /\ backlog = 0 /\ clients = MaxClients /\ sends = MaxSends

-----------------------------------------------------------------------------
(* The dispatch loop: start, process_events_and_timers and its queues.     *)

Dispatch(i, by) == cur' = [item |-> i, by |-> by]
LoopOnly == UNCHANGED <<stopped, free, version, pc, sock, request, accept,
                        control, budget>>

(* The dispatcher is published to shut_down before start() is called.      *)
Start ==
    /\ phase = "boot"
    /\ phase' = "top" /\ running' = TRUE
    /\ UNCHANGED <<needContinue, cur, queues, flags, timer, ep>>
    /\ LoopOnly

(* Variant: m_run is not read again after the first round.                 *)
StartWaitHoisted ==
    /\ phase = "top" /\ phase' = "wait"
    /\ UNCHANGED <<needContinue, running, cur, queues, flags, timer, ep>>
    /\ LoopOnly

StartWait ==
    /\ phase = "top" /\ running
    /\ phase' = "wait"
    /\ UNCHANGED <<needContinue, running, cur, queues, flags, timer, ep>>
    /\ LoopOnly

(* Stopping: every connection with an open socket is told that its peer is *)
(* gone, and the loop ends once the timer map is empty.                    *)
(* Variant: stop without a look at the timers.                             *)
TimersIgnored == TRUE

TimersEmpty == timer.map = {}
CloseAllConnections ==
    /\ phase = "top" /\ ~running
    /\ LET open == {Orig(c) : c \in Conn \ free} \cup {Lsn} IN
       /\ flags' = [flags EXCEPT !.pendingEof = @ \cup open]
       /\ delay' = delay \cup {<<i, VersionOf(i)>> : i \in open}
    /\ phase' = IF TimersEmpty THEN "exit" ELSE "wait"
    /\ UNCHANGED <<needContinue, running, cur, batch, resumes, tokens, timer, ep>>
    /\ LoopOnly

(* shut_down, on the thread of its caller.                                 *)
Stop ==
    /\ MayStop /\ ~stopped /\ phase # "exit"
    /\ stopped' = TRUE /\ running' = FALSE
    /\ UNCHANGED <<phase, needContinue, cur, queues, flags, timer, ep, free,
                   version, pc, sock, request, accept, control, budget>>

(* epoll_wait hands over every queued edge whose condition still holds.    *)
EpollWait ==
    /\ phase = "wait"
    /\ batch' = {[item |-> i, ver |-> ep.ver[i], ev |-> ep.ev[i] \cap Cond(i),
                  again |-> FALSE] :
                    i \in {j \in ep.armed \cap Item : ep.ev[j] \cap Cond(j) # {}}}
              \cup (IF Lsn \in ep.armed /\ backlog > 0
                    THEN {[item |-> Lsn, ver |-> 0, ev |-> {"in"}, again |-> FALSE]}
                    ELSE {})
    /\ ep' = [ep EXCEPT !.armed = {}]
    /\ phase' = "events" /\ needContinue' = FALSE
    /\ UNCHANGED <<running, cur, delay, resumes, tokens, flags, timer>>
    /\ LoopOnly

(* One entry of the batch: a stale version is skipped; a read edge         *)
(* dispatches the connection, after which the write edge of the same entry *)
(* is looked at without checking the version again.                        *)
StaleEvent(e) ==
    /\ phase = "events" /\ WorkerFree /\ e \in batch
    /\ ~e.again /\ e.ver # VersionOf(e.item)
    /\ batch' = batch \ {e}
    /\ UNCHANGED <<loop, cur, delay, resumes, tokens, flags, timer, ep>>
    /\ LoopOnly

IsReadable(e) == IF e.item = Lsn THEN listening ELSE ReadActive(e.item)
IsWritable(e) == e.item # Lsn /\ WriteActive(e.item)

ReadEvent(e) ==
    /\ phase = "events" /\ WorkerFree /\ e \in batch
    /\ ~e.again /\ e.ver = VersionOf(e.item)
    /\ e.ev \cap READ # {} /\ IsReadable(e)
    /\ flags' = IF "rdhup" \in e.ev
                THEN [flags EXCEPT !.pendingEof = @ \cup {e.item}] ELSE flags
    /\ batch' = (batch \ {e}) \cup
                IF "out" \in e.ev THEN {[e EXCEPT !.again = TRUE]} ELSE {}
    /\ Dispatch(e.item, "event")
    /\ UNCHANGED <<loop, delay, resumes, tokens, timer, ep>>
    /\ LoopOnly

WriteEvent(e) ==
    /\ phase = "events" /\ WorkerFree /\ e \in batch
    /\ \/ e.again
       \/ e.ver = VersionOf(e.item) /\ ~(e.ev \cap READ # {} /\ IsReadable(e))
    /\ batch' = batch \ {e}
    /\ IF "out" \in e.ev /\ IsWritable(e) THEN Dispatch(e.item, "out")
       ELSE UNCHANGED cur
    /\ UNCHANGED <<loop, delay, resumes, tokens, flags, timer, ep>>
    /\ LoopOnly

NextPhase(from, to) ==
    /\ phase = from /\ WorkerFree
    /\ phase' = to
    /\ UNCHANGED <<running, cur, queues, flags, timer, ep>>
    /\ LoopOnly

EventsDone == batch = {} /\ NextPhase("events", "delay") /\ UNCHANGED needContinue
DelayDone  == delay = {} /\ NextPhase("delay", "resume") /\ UNCHANGED needContinue
(* The inner loop runs again after a dispatch, otherwise start() goes on.  *)
LoopAgain ==
    /\ resumes = {} /\ needContinue /\ needContinue' = FALSE
    /\ NextPhase("resume", "delay")
LoopEnd == resumes = {} /\ ~needContinue /\ NextPhase("resume", "top")
           /\ UNCHANGED needContinue
(* The timers are looked at when a tick of the clock was measured; another *)
(* round follows, as it does when another thread's dispatch sets the flag. *)
LookAtTimers == resumes = {} /\ NextPhase("resume", "timer") /\ needContinue' = TRUE
TimersDone == NextPhase("timer", "delay") /\ needContinue' = FALSE

(* funcResumeProcess: an entry whose connection has moved on is dropped.   *)
(* The lambda is static: it captured the flag of the first call ever made, *)
(* so the dispatches of all other threads leave their own flag alone.      *)
(* Variant: no comparison of versions.                                     *)
ResumeAnyVersion(i, v, by) ==
    Dispatch(i, by) /\ needContinue' = (needContinue \/ FirstWorker)

ResumeProcess(i, v, by) ==
    IF v = VersionOf(i)
    THEN Dispatch(i, by) /\ needContinue' = (needContinue \/ FirstWorker)
    ELSE UNCHANGED <<cur, needContinue>>

TakeDelay(d) ==
    /\ phase = "delay" /\ WorkerFree /\ d \in delay
    /\ delay' = delay \ {d}
    /\ ResumeProcess(d[1], d[2], "delay")
    /\ UNCHANGED <<phase, running, batch, resumes, tokens, flags, timer, ep>>
    /\ LoopOnly

TakeResume(r) ==
    /\ phase = "resume" /\ WorkerFree /\ r \in resumes
    /\ resumes' = resumes \ {r}
    /\ ResumeProcess(Orig(r[1]), r[2], "resume")
    /\ UNCHANGED <<phase, running, batch, delay, tokens, flags, timer, ep>>
    /\ LoopOnly

(* process_timer: the pre-handler of a sleep event takes back the timeout  *)
(* and ends the blocking; any other timer marks its connection timed out.  *)
(* Variant: the pre-handler forgets m_flagThirdFuncBlocking.               *)
SleepPreHandlerKeepsBlocking(f, c) == [f EXCEPT !.timedOut = @ \ {Orig(c)}]

SleepPreHandler(f, c) ==
    [f EXCEPT !.timedOut = @ \ {Orig(c)}, !.third = @ \ {c}]

ProcessTimer(t) ==
    /\ phase = "timer" /\ WorkerFree /\ t \in timer.map
    /\ timer' = [map |-> timer.map \ {t}, set |-> timer.set \ {t}]
    /\ flags' = IF t[2] = "sleep"
                THEN SleepPreHandler(flags, t[1][1])
                ELSE [flags EXCEPT !.timedOut = @ \cup {t[1]}]
    /\ Dispatch(t[1], t[2])
    /\ UNCHANGED <<phase, needContinue, running, queues, ep>>
    /\ LoopOnly

-----------------------------------------------------------------------------
(* func_dispatcher: event_exception first, then the coroutine is entered.  *)

Done == cur' = Nobody
Goto(c, p) == pc' = [pc EXCEPT ![c] = p]
OnlyRun == UNCHANGED <<loop, queues, accept, budget>>

(* The item being dispatched belongs to c and its coroutine is not in yet. *)
Entering(i) == /\ Dispatched(i) /\ i # Lsn
               /\ pc[i[1]] \notin Active

(* The exception handler marks the item dying; a connection that waits on  *)
(* a third party socket passes the mark on to its block connection.        *)
(* Variant: the exception is charged to both connections.                  *)
DyingBoth(i) == flags.dying \cup Owned(i[1])

DyingAfter(i) == flags.dying \cup {i} \cup
                 IF i = Orig(i[1]) /\ i[1] \in flags.useBlock THEN {Blk(i[1])} ELSE {}

(* Blocked in a hooked sleep: only marked, the sleep is not cut short.     *)
(* Variant: the blocking flag is not looked at.                            *)
InSleepIgnored(i) == FALSE

InSleep(i) == i = Orig(i[1]) /\ i[1] \in flags.third
WaitThirdFunc(i) ==
    /\ Entering(i) /\ Flagged(i) /\ InSleep(i)
    /\ flags' = [flags EXCEPT !.dying = @ \cup {i}]
    /\ Done
    /\ OnlyRun /\ UNCHANGED <<free, version, pc, timer, ep, sock, request, control>>

Enter(i) ==
    /\ Entering(i)
    /\ \/ ~Flagged(i) /\ UNCHANGED flags
       \/ /\ Flagged(i) /\ ~InSleep(i) /\ pc[i[1]] # "idle"
          /\ flags' = [flags EXCEPT !.dying = DyingAfter(i)]
    /\ Goto(i[1], Wake(pc[i[1]]))
    /\ OnlyRun /\ UNCHANGED <<cur, free, version, timer, ep, sock, request, control>>

(* func_cleanup gives the accept slot back.                                *)
(* Variant: no decrement.                                                  *)
SlotKept == curSize
FuncCleanup == curSize - 1

(* free_request_connection with an error: the connection leaves epoll, its *)
(* cleanup is called, and it returns to the pool.                          *)
CloseConnection(c, tm, e) ==
    LET l == ModifyListening(FuncCleanup, e, listening)
    IN /\ timer' = ResetEvents(tm, c)
       /\ ep' = l.ep /\ listening' = l.listening /\ curSize' = FuncCleanup
       /\ flags' = ResetFlags(flags, c)
       /\ version' = [version EXCEPT ![c] = @ + 1]
       /\ pc' = [pc EXCEPT ![c] = "idle"]
       /\ free' = free \cup {c}
       /\ sock' = [data |-> sock.data \ Owned(c), eof |-> sock.eof \ Owned(c),
                   room |-> sock.room \ Owned(c)]

(* ... and without one: the same connection waits for its next request.    *)
(* Variant: watched again before the reset gives it its new version.       *)
KeepAliveOldVersion(c, tm, e) ==
    LET v == version[c] + 1 IN
       /\ version' = [version EXCEPT ![c] = v]
       /\ flags' = ResetFlags(flags, c)
       /\ timer' = AddTimer(ResetEvents(tm, c), Rd(c))
       /\ ep' = DelEvents(AddEvents(e, Orig(c), {"in"}, v - 1), Orig(c), {"out"}, v - 1)
       /\ pc' = [pc EXCEPT ![c] = "idle"]
       /\ UNCHANGED <<free, sock, control>>

(* Variant: the kept connection gets no keepalive timer.                   *)
KeepAliveUntimed(c, tm, e) ==
    LET v == version[c] + 1 IN
       /\ version' = [version EXCEPT ![c] = v]
       /\ flags' = ResetFlags(flags, c)
       /\ timer' = ResetEvents(tm, c)
       /\ ep' = DelEvents(AddEvents(e, Orig(c), {"in"}, v), Orig(c), {"out"}, v)
       /\ pc' = [pc EXCEPT ![c] = "idle"]
       /\ UNCHANGED <<free, sock, control>>

KeepAlive(c, tm, e) ==
    LET v == version[c] + 1 IN
       /\ version' = [version EXCEPT ![c] = v]
       /\ flags' = ResetFlags(flags, c)
       /\ timer' = AddTimer(ResetEvents(tm, c), Rd(c))
       /\ ep' = DelEvents(AddEvents(e, Orig(c), {"in"}, v), Orig(c), {"out"}, v)
       /\ pc' = [pc EXCEPT ![c] = "idle"]
       /\ UNCHANGED <<free, sock, control>>

(* Variant: only the write timer is taken back before the reset.           *)
FreeRequestConnectionTimed(c, ok) ==
    LET tm == DelTimer(timer, Wr(c)) IN
    IF ok THEN KeepAlive(c, tm, ep)
    ELSE CloseConnection(c, tm, DelConnection(ep, Orig(c)))

FreeRequestConnection(c, ok) ==
    LET tm == DelTimer(DelTimer(timer, Wr(c)), Rd(c)) IN
    IF ok THEN KeepAlive(c, tm, ep)
    ELSE CloseConnection(c, tm, DelConnection(ep, Orig(c)))

(* No request on the connection, an idle keepalive connection: close it.   *)
FreeIdleConnection(i) ==
    /\ Entering(i) /\ Flagged(i) /\ ~InSleep(i) /\ i = Orig(i[1])
    /\ pc[i[1]] = "idle" /\ i[1] \notin flags.useBlock
    /\ FreeRequestConnection(i[1], FALSE)
    /\ Done
    /\ OnlyRun /\ UNCHANGED request

-----------------------------------------------------------------------------
(* CoCallbackRequest: the stages of a request.                             *)

Dying(c) == Orig(c) \in flags.dying
InRun(c) == OnlyRun /\ UNCHANGED <<free, version, control>>

(* request_init, and request_read up to its loop: a reused connection      *)
(* drops its keepalive timer, the socket is watched for reading.           *)
RequestInit(c) ==
    /\ At(c, "init")
    /\ timer' = AddTimer(DelTimer(timer, Rd(c)), Rd(c))
    /\ ep' = AddEvents(ep, Orig(c), READ, version[c])
    /\ ops' = [ops EXCEPT ![c] = 0] /\ retOk' = retOk \ {c}
    /\ Goto(c, "recv")
    /\ InRun(c) /\ UNCHANGED <<cur, flags, sock, answered>>

(* The end of request_read with the read event and timer taken back, then  *)
(* request_process up to the user's handler.                               *)
StopReading(c) == DelTimer(timer, Rd(c))
IgnoreInput(c) == DelEvents(ep, Orig(c), {"in"}, version[c])

RequestProcess(c) ==
    /\ timer' = AddTimer(StopReading(c), Rd(c))
    /\ ep' = IgnoreInput(c)
    /\ Goto(c, "user")
    /\ UNCHANGED retOk

(* request_write up to its loop, after a stage left timers tm and epoll e. *)
RequestWrite(c, tm, e, ok) ==
    /\ timer' = AddTimer(tm, Wr(c))
    /\ ep' = AddEvents(e, Orig(c), {"out"}, version[c])
    /\ retOk' = IF ok THEN retOk \cup {c} ELSE retOk \ {c}
    /\ Goto(c, "send")
FailRead(c) == RequestWrite(c, StopReading(c), IgnoreInput(c), FALSE)

(* recv returned data: decode is content with it, wants more or rejects.   *)
Decode(c) ==
    /\ Orig(c) \in sock.data
    /\ sock' = [sock EXCEPT !.data = @ \ {Orig(c)}]
    /\ \/ RequestProcess(c)
       \/ Goto(c, "recv") /\ UNCHANGED <<timer, ep, retOk>>
       \/ FailRead(c)

RecvFails(c) == FailRead(c) /\ UNCHANGED sock
NothingToRecv(c) == Orig(c) \notin sock.data \cup sock.eof

(* tcp_read through the hook: a dying connection does no network call, an  *)
(* empty socket suspends the coroutine.                                    *)
Recv(c) ==
    /\ At(c, "recv")
    /\ \/ ~Dying(c) /\ Decode(c) /\ UNCHANGED cur
       \/ /\ Dying(c) \/ Orig(c) \in sock.eof \ sock.data
          /\ RecvFails(c) /\ UNCHANGED cur
       \/ /\ ~Dying(c) /\ NothingToRecv(c)
          /\ Goto(c, "recvWait") /\ Done
          /\ UNCHANGED <<timer, ep, retOk, sock>>
    /\ InRun(c) /\ UNCHANGED <<flags, ops, answered>>

(* Back in the hook the call is made once more, and never waits again.     *)
RecvResumed(c) ==
    /\ At(c, "recvWoken")
    /\ \/ ~Dying(c) /\ Decode(c)
       \/ Dying(c) /\ RecvFails(c)
       \/ ~Dying(c) /\ Orig(c) \notin sock.data /\ RecvFails(c)
    /\ InRun(c) /\ UNCHANGED <<cur, flags, ops, answered>>

-----------------------------------------------------------------------------
(* The user's handler runs inside request_process and may block MaxOps     *)
(* times before it returns.                                                *)

Blocks(c) == /\ At(c, "user") /\ ops[c] < MaxOps
             /\ ops' = [ops EXCEPT ![c] = @ + 1]
             /\ Done
             /\ UNCHANGED <<loop, batch, delay, resumes, accept, budget, free,
                            version, control, retOk, answered, sock>>

(* sleep, usleep, select without sockets: yield_timer up to its swap_out.  *)
UserSleep(c) ==
    /\ Blocks(c)
    /\ flags' = [flags EXCEPT !.third = @ \cup {c}]
    /\ timer' = AddTimer(timer, Sleep(c))
    /\ Goto(c, "sleepWait")
    /\ UNCHANGED <<tokens, ep>>

SleepResumed(c) ==
    /\ At(c, "sleepWoken")
    /\ flags' = [flags EXCEPT !.third = @ \ {c}]
    /\ timer' = DelTimer(timer, Sleep(c))
    /\ Goto(c, "user")
    /\ InRun(c) /\ UNCHANGED <<cur, ep, sock, request>>

(* A blocking read of a third party socket that has nothing yet:           *)
(* yield_thirdsocket up to its swap_out.  The hook refuses when dying.     *)
UserThirdSocket(c) ==
    /\ Blocks(c) /\ ~Dying(c)
    /\ flags' = [flags EXCEPT !.useBlock = @ \cup {c}]
    /\ timer' = AddTimer(timer, BRd(c))
    /\ ep' = AddEvents(ep, Blk(c), READ, 0)
    /\ Goto(c, "thirdWait")
    /\ UNCHANGED tokens

(* What yield_thirdsocket returns, its tests in their order.               *)
ThirdResult(c) == IF Blk(c) \in flags.dying THEN "CO_EXCEPTION"
                  ELSE IF Blk(c) \in flags.timedOut THEN "CO_TIMEOUT"
                  ELSE IF Blk(c) \in flags.pendingEof THEN "CO_ERROR"
                  ELSE "CO_OK"

ThirdResumed(c) ==
    /\ At(c, "thirdWoken")
    /\ ep' = DelEvents(ep, Blk(c), READ, 0)
    /\ timer' = DelTimer(timer, BRd(c))
    /\ flags' = ResetBlock([flags EXCEPT !.useBlock = @ \ {c}], c)
    /\ sock' = [sock EXCEPT !.data = @ \ {Blk(c)}, !.eof = @ \ {Blk(c)}]
    /\ Goto(c, "user")
    /\ InRun(c) /\ UNCHANGED <<cur, request>>

(* CoDispatcher::yield after the handler gave its coroutine data to some   *)
(* other thread.  There is no test of the dying flag before the swap_out.  *)
UserYield(c) ==
    /\ Blocks(c)
    /\ tokens' = tokens \cup {<<c, version[c]>>}
    /\ Goto(c, "yieldWait")
    /\ UNCHANGED <<flags, timer, ep>>

YieldResumed(c) ==
    /\ At(c, "yieldWoken") /\ Goto(c, "user")
    /\ InRun(c) /\ UNCHANGED <<cur, flags, timer, ep, sock, request>>

(* The handler returns, request_process ends and request_write begins.     *)
UserReturn(c) ==
    /\ At(c, "user")
    /\ \E ok \in BOOLEAN : RequestWrite(c, DelTimer(timer, Rd(c)), ep, ok)
    /\ ops' = [ops EXCEPT ![c] = 0]
    /\ InRun(c) /\ UNCHANGED <<cur, flags, sock, answered>>

-----------------------------------------------------------------------------
(* request_write's loop and request_finalize.                              *)

(* Leaving request_write: write timer and write event are taken back.      *)
(* Variant: a failed write does not change the request's retCode.          *)
EndWriteKeepsCode(c, ok) ==
    /\ timer' = DelTimer(timer, Wr(c))
    /\ ep' = DelEvents(ep, Orig(c), {"out"}, version[c])
    /\ retOk' = retOk
    /\ Goto(c, "final")

EndWrite(c, ok) ==
    /\ timer' = DelTimer(timer, Wr(c))
    /\ ep' = DelEvents(ep, Orig(c), {"out"}, version[c])
    /\ retOk' = IF ok THEN retOk ELSE retOk \ {c}
    /\ Goto(c, "final")

(* The socket takes the rest of the response, or a part that fills it.     *)
Written(c) ==
    /\ ~Dying(c) /\ Orig(c) \in sock.room
    /\ \/ EndWrite(c, TRUE) /\ answered' = answered \cup {c}
          /\ UNCHANGED <<sock, ops>>
       \/ /\ ops[c] < MaxOps /\ ops' = [ops EXCEPT ![c] = @ + 1]
          /\ sock' = [sock EXCEPT !.room = @ \ {Orig(c)}]
          /\ Goto(c, "send") /\ UNCHANGED <<timer, ep, retOk, answered>>

(* The hook refuses a dying connection; a closed peer may reset the write. *)
WriteFails(c) == /\ Orig(c) \in flags.dying \cup sock.eof
                 /\ EndWrite(c, FALSE) /\ UNCHANGED <<sock, ops, answered>>

Send(c) ==
    /\ At(c, "send")
    /\ \/ Written(c) /\ UNCHANGED cur
       \/ WriteFails(c) /\ UNCHANGED cur
       \/ /\ ~Dying(c) /\ Orig(c) \notin sock.room
          /\ Goto(c, "sendWait") /\ Done
          /\ UNCHANGED <<timer, ep, retOk, sock, ops, answered>>
    /\ InRun(c) /\ UNCHANGED flags

SendResumed(c) ==
    /\ At(c, "sendWoken")
    /\ \/ Written(c)
       \/ WriteFails(c)
       \/ /\ ~Dying(c) /\ Orig(c) \notin sock.room
          /\ EndWrite(c, FALSE) /\ UNCHANGED <<sock, ops, answered>>
    /\ InRun(c) /\ UNCHANGED <<cur, flags>>

(* The request is deleted and the connection closed or kept; the coroutine *)
(* ends and the worker is free again.                                      *)
RequestFinalize(c) ==
    /\ At(c, "final")
    /\ FreeRequestConnection(c, c \in retOk)
    /\ answered' = answered \ {c}
    /\ Done
    /\ OnlyRun /\ UNCHANGED <<retOk, ops>>

-----------------------------------------------------------------------------
(* CoServerControl: the listen connection's coroutine.                     *)

ListenAt(p) == Dispatched(Lsn) /\ lpc = p
InAccept == UNCHANGED <<loop, batch, resumes, tokens, pc, flags, timer, request>>
NoAccept == UNCHANGED <<delay, free, version, sock, backlog, curSize, budget>>

ListenEnter ==
    /\ Dispatched(Lsn) /\ lpc \in {"ready", "acceptWait"}
    /\ lpc' = IF lpc = "ready" THEN "limit" ELSE "acceptWoken"
    /\ InAccept /\ NoAccept /\ UNCHANGED <<cur, quota, ep, listening>>

(* Variant: the quota of a round is max_accept, whatever is in use.        *)
LimitQuotaWhole == MaxAccept

(* limit() decides how many clients to take, or the socket is unwatched.   *)
LimitQuota == IF MaxConnections - curSize < MaxAccept
              THEN MaxConnections - curSize ELSE MaxAccept

Limit ==
    /\ ListenAt("limit")
    /\ IF curSize < MaxConnections
       THEN /\ quota' = LimitQuota
            /\ lpc' = "accept" /\ UNCHANGED <<cur, ep, listening>>
       ELSE /\ LET l == ModifyListening(curSize, ep, listening)
               IN ep' = l.ep /\ listening' = l.listening
            /\ lpc' = "ready" /\ Done /\ UNCHANGED quota
    /\ InAccept /\ NoAccept

(* Variant: the loop variable advances twice per accept.                   *)
AcceptNextTwice(q) == quota' = q - 1 /\ lpc' = IF q = 0 THEN "limit" ELSE "accept"

AcceptNext(q) == quota' = q /\ lpc' = IF q = 0 THEN "limit" ELSE "accept"

(* init_connection for an accepted client, which may have sent something   *)
(* or left already.  Without a free connection the accept loop is left.    *)
InitConnection(c) ==
    /\ c \in free
    /\ free' = free \ {c}
    /\ curSize' = curSize + 1
    /\ delay' = delay \cup {<<Orig(c), version[c]>>}
    /\ \E d \in SUBSET {Orig(c)}, f \in SUBSET {Orig(c)} :
          /\ Cardinality(d) <= sends /\ sends' = sends - Cardinality(d)
          /\ sock' = [data |-> sock.data \cup d, eof |-> sock.eof \cup f,
                      room |-> sock.room \cup {Orig(c)}]
    /\ AcceptNext(quota - 1)

Accept ==
    /\ ListenAt("accept") \/ ListenAt("acceptWoken")
    /\ \/ /\ backlog > 0 /\ backlog' = backlog - 1
          /\ \/ \E c \in Conn : InitConnection(c)
             \/ /\ free = {} /\ lpc' = "limit"
                /\ UNCHANGED <<quota, free, curSize, delay, sends, sock>>
          /\ UNCHANGED cur
       \/ /\ backlog = 0 /\ lpc = "accept"
          /\ lpc' = "acceptWait" /\ Done
          /\ UNCHANGED <<quota, backlog, free, curSize, delay, sends, sock>>
       \/ /\ backlog = 0 /\ lpc = "acceptWoken"
          /\ AcceptNext(quota - 1)
          /\ UNCHANGED <<cur, backlog, free, curSize, delay, sends, sock>>
    /\ InAccept /\ UNCHANGED <<version, ep, listening, clients>>

-----------------------------------------------------------------------------
(* Clients, third party peers and other threads.                           *)

Outside == UNCHANGED <<loop, cur, batch, delay, free, version, pc, flags, timer,
                       request, lpc, quota, control>>
Edge(i, evs) == ep' = IF evs \cap ep.ev[i] # {}
                      THEN [ep EXCEPT !.armed = @ \cup {i}] ELSE ep

ClientConnects ==
    /\ clients > 0 /\ clients' = clients - 1
    /\ backlog' = backlog + 1
    /\ ep' = IF listening THEN [ep EXCEPT !.armed = @ \cup {Lsn}] ELSE ep
    /\ Outside /\ UNCHANGED <<resumes, tokens, sock, sends>>

Peer(i) == IF i[2] = "origin" THEN i[1] \notin free ELSE i[1] \in flags.useBlock

DataArrives(i) ==
    /\ Peer(i) /\ i \notin sock.eof /\ sends > 0 /\ sends' = sends - 1
    /\ sock' = [sock EXCEPT !.data = @ \cup {i}]
    /\ Edge(i, {"in"})
    /\ Outside /\ UNCHANGED <<resumes, tokens, backlog, clients>>

PeerCloses(i) ==
    /\ Peer(i) /\ i \notin sock.eof
    /\ sock' = [sock EXCEPT !.eof = @ \cup {i}]
    /\ Edge(i, READ)
    /\ Outside /\ UNCHANGED <<resumes, tokens, backlog, budget>>

PeerReads(c) ==
    /\ c \notin free /\ Orig(c) \notin sock.room
    /\ sock' = [sock EXCEPT !.room = @ \cup {Orig(c)}]
    /\ Edge(Orig(c), {"out"})
    /\ Outside /\ UNCHANGED <<resumes, tokens, backlog, budget>>

(* resume_async from the thread that holds the coroutine data.             *)
ResumeAsync(t) ==
    /\ t \in tokens
    /\ tokens' = tokens \ {t} /\ resumes' = resumes \cup {t}
    /\ Outside /\ UNCHANGED <<ep, sock, backlog, budget>>

-----------------------------------------------------------------------------
Loop ==
    \/ Start \/ StartWait \/ CloseAllConnections \/ EpollWait
    \/ \E e \in batch : StaleEvent(e) \/ ReadEvent(e) \/ WriteEvent(e)
    \/ EventsDone \/ DelayDone \/ LoopAgain \/ LoopEnd
    \/ LookAtTimers \/ TimersDone
    \/ \E d \in delay : TakeDelay(d)
    \/ \E r \in resumes : TakeResume(r)

Timers == \E t \in timer.map : ProcessTimer(t)

Handler ==
    \/ \E i \in Item : WaitThirdFunc(i) \/ Enter(i) \/ FreeIdleConnection(i)
    \/ \E c \in Conn : RequestInit(c) \/ Recv(c) \/ RecvResumed(c)
    \/ \E c \in Conn : UserSleep(c) \/ SleepResumed(c) \/ UserThirdSocket(c)
                       \/ ThirdResumed(c) \/ UserYield(c) \/ YieldResumed(c)
                       \/ UserReturn(c)
    \/ \E c \in Conn : Send(c) \/ SendResumed(c) \/ RequestFinalize(c)
    \/ ListenEnter \/ Limit \/ Accept

Resumer == \E t \in tokens : ResumeAsync(t)

World ==
    \/ ClientConnects \/ Stop
    \/ \E i \in Item : DataArrives(i) \/ PeerCloses(i)
    \/ \E c \in Conn : PeerReads(c)

Next == Loop \/ Timers \/ Handler \/ Resumer \/ World

Spec == Init /\ [][Next]_vars

(* The worker keeps running, a timer of the map is due some day, the clock *)
(* does not tick in every round of the inner loop, and who was given       *)
(* coroutine data resumes it.  Nothing is assumed of clients.              *)
FairSpec ==
    /\ Spec
    /\ WF_vars(Loop \/ Handler)
    /\ SF_vars(LookAtTimers) /\ SF_vars(Timers) /\ SF_vars(LoopEnd)
    /\ WF_vars(Resumer)
=============================================================================
