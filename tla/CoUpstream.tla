----------------------------- MODULE CoUpstream -----------------------------
(***************************************************************************)
(* Sub-requests of one worker thread: handlers that add upstream requests  *)
(* and run them, the connections the requests use and keep, retries, and   *)
(* the queues of the dispatch loop through which parents and sub-requests  *)
(* wake each other.                                                        *)
(*                                                                         *)
(* The loop is that of CoDispatcher; here m_delayConnections is the FIFO   *)
(* it is.  Reading and writing of client requests, and the third party     *)
(* sockets of handlers, are in CoDispatcher; the choice of a backend is in *)
(* CoBackend and any choice here.  A dispatch runs the loop's step, the    *)
(* exception handler and the entry into the coroutine as one step: nothing *)
(* of another thread is read in between.                                   *)
(***************************************************************************)
EXTENDS Integers, Sequences, FiniteSets, SequencesExt

CONSTANTS Parent,          \* client connections whose handlers fork
          Sub,             \* connections of the pool left for upstreams
          Backend,         \* the servers of the upstream block
          None,            \* no connection, no request or no backend
          FirstWorker,     \* this thread is the one that ran the loop first
          BlocksAlone,     \* handlers block only while they have no sub-request
          MaxConnections,  \* max_connections of the upstream block
          MaxRetry,        \* retry_maxnum of the upstream block
          MaxRequests,     \* bound: client requests in all
          MaxOps           \* bound: calls of the handlers of one connection

(* A sub-request: its parent (None if detached) with the version of the    *)
(* parent's request, and m_retryTimes.                                     *)
Request == [parent : Parent \cup {None}, pver : Nat, tries : Nat]

ASSUME UpstreamAssumption ==
    /\ IsFiniteSet(Parent) /\ IsFiniteSet(Sub) /\ Parent \cap Sub = {}
    /\ None \notin Parent \cup Sub \cup Backend \cup Request
    /\ FirstWorker \in BOOLEAN /\ BlocksAlone \in BOOLEAN
    /\ MaxConnections \in Nat /\ MaxRetry \in Nat
    /\ MaxRequests \in Nat /\ MaxOps \in Nat

VARIABLES
    phase,        \* where process_events_and_timers stands
    needContinue, \* its local flag: go round the inner loop again
    cur,          \* the connection whose coroutine has the CPU
    batch,        \* <<connection, version>> of the last epoll_wait
    delay,        \* m_delayConnections, a queue of <<connection, version>>
    resumes,      \* m_waitResumes
    tokens,       \* <<connection, version>> held by other threads
    version,      \* m_version
    pc,           \* where the coroutine of each connection stands
    flags,        \* dying, parentDying, third: sets of connections
    timers,       \* m_timers: <<connection, "main" or "sleep">>
    net,          \* what the peer of each connection has done unnoticed
    armed,        \* epoll's ready list
    family,       \* per parent: subs, count and infos
    req,          \* m_request of each upstream connection
    pool,         \* free, reuse (per backend), size, backend (per connection)
    ops,          \* calls the handlers of each parent have left
    requests      \* client requests that may still come

loop   == <<phase, needContinue>>
queues == <<batch, delay, resumes, tokens>>
conns  == <<version, pc, flags, timers, net, armed>>
vars == <<phase, needContinue, cur, batch, delay, resumes, tokens, version, pc,
          flags, timers, net, armed, family, req, pool, ops, requests>>

Conn == Parent \cup Sub

Entry(c) == <<c, version[c]>>
WorkerFree == cur = None
At(c, p) == cur = c /\ pc[c] = p
Own(c) == {<<c, "main">>, <<c, "sleep">>}

(* What CoRequest::init leaves for a parent's next request.                *)
NoFamily == [subs |-> {}, count |-> 1, infos |-> FALSE]
CleanFlags(f, c) == [dying |-> f.dying \ {c}, parentDying |-> f.parentDying \ {c},
                     third |-> f.third \ {c}]

Init ==
    /\ phase = "wait" /\ needContinue = FALSE /\ cur = None
    /\ batch = {} /\ delay = << >> /\ resumes = {} /\ tokens = {}
    /\ version = [c \in Conn |-> 0]
    /\ pc = [c \in Conn |-> "idle"]
    /\ flags = [dying |-> {}, parentDying |-> {}, third |-> {}]
    /\ timers = {}
    /\ net = [c \in Conn |-> "quiet"] /\ armed = {}
    /\ family = [p \in Parent |-> NoFamily]
    /\ req = [u \in Sub |-> None]
    /\ pool = [free |-> Sub, reuse |-> [b \in Backend |-> << >>], size |-> 0,
               backend |-> [u \in Sub |-> None]]
    /\ ops = [p \in Parent |-> MaxOps] /\ requests = MaxRequests

-----------------------------------------------------------------------------
(* Wake-ups of parents and the end of sub-requests, on the state s of what *)
(* they change: version, pc, flags, timers, net, armed, family, req, pool  *)
(* and delay.                                                              *)

Now == [version |-> version, pc |-> pc, flags |-> flags, timers |-> timers,
        net |-> net, armed |-> armed, family |-> family, req |-> req,
        pool |-> pool, delay |-> delay]

Becomes(s) ==
    /\ version' = s.version /\ pc' = s.pc /\ flags' = s.flags
    /\ timers' = s.timers /\ net' = s.net /\ armed' = s.armed
    /\ family' = s.family /\ req' = s.req /\ pool' = s.pool /\ delay' = s.delay

Push(s, c) == [s EXCEPT !.delay = Append(@, <<c, s.version[c]>>)]

(* get_connection: a kept connection to the backend, the last one first,   *)
(* or a new one while there are fewer than max_connections.                *)
Room(s) == s.pool.size < MaxConnections

GetConnection(s) ==
    UNION {IF s.pool.reuse[b] # << >>
           THEN {[u |-> Head(s.pool.reuse[b]),
                  s |-> [s EXCEPT !.pool.reuse[b] = Tail(@)]]}
           ELSE {[u |-> u, s |-> [s EXCEPT !.pool.free = @ \ {u},
                                           !.pool.size = @ + 1,
                                           !.pool.backend[u] = b]] :
                   u \in IF Room(s) THEN s.pool.free ELSE {}} : b \in Backend}

(* CoRequest::init or reset_connection, then the entry in the queue.       *)
Assign(s, u, r) ==
    Push([s EXCEPT !.req[u] = r, !.pc[u] = "ready"], u)

(* CoConnection::reset for an upstream connection.                         *)
Reset(s, u) ==
    [s EXCEPT !.version[u] = @ + 1, !.pc[u] = "idle", !.req[u] = None,
              !.flags = CleanFlags(@, u), !.timers = @ \ Own(u)]

(* free_connection with an error, or of a connection that is old or has    *)
(* served many requests.                                                   *)
Close(s, u) ==
    [Reset(s, u) EXCEPT !.net[u] = "quiet", !.armed = @ \ {u},
                        !.pool.free = @ \cup {u}, !.pool.backend[u] = None,
                        !.pool.size = @ - 1]

(* ... and of one that is kept: watched for the end of the stream, and     *)
(* with a timer for the time it may be idle.                               *)
(* Variant: without that timer.                                            *)
KeepUntimed(s, u) ==
    [Reset(s, u) EXCEPT !.armed = IF s.net[u] = "closed" THEN @ \cup {u} ELSE @,
                        !.pool.reuse[s.pool.backend[u]] = <<u>> \o @]

Keep(s, u) ==
    [Reset(s, u) EXCEPT !.timers = @ \cup {<<u, "main">>},
                        !.armed = IF s.net[u] = "closed" THEN @ \cup {u} ELSE @,
                        !.pool.reuse[s.pool.backend[u]] = <<u>> \o @]

(* free_connection(CO_EXCEPTION) of an idle connection: it is taken out of *)
(* the list of its backend.  Variant: it stays in the list.                *)
FreeIdleListed(s, u) == Close(s, u)

Without(kept, u) == RemoveAt(kept, CHOOSE i \in DOMAIN kept : kept[i] = u)
FreeIdle(s, u) ==
    Close([s EXCEPT !.pool.reuse[s.pool.backend[u]] = Without(@, u)], u)

(* upstream_finalize_request: the parent is woken when its last            *)
(* sub-request has ended.  m_count is 1 for the parent itself.             *)
(* Variant: the parent itself is not counted.                              *)
LastOneLate(n) == n = 0

LastOne(n) == n = 1

(* The sub-request r of connection u ends; a detached one has no parent.   *)
FinalizeRequest(s, u, r) ==
    LET p == r.parent
        n == s.family[p].count - 1
        left == [s EXCEPT !.family[p].subs = @ \ {u}, !.family[p].count = n]
    IN IF r.parent = None THEN s ELSE IF LastOne(n) THEN Push(left, p) ELSE left

(* upstream_finalize: a failed sub-request is tried again, unless its      *)
(* parent is dying or it was tried often enough.                           *)
(* Variant: the dying parent is not looked at.                             *)
NeedRetryAnyway(u) == req[u].tries < MaxRetry

NeedRetry(u) == u \notin flags.parentDying /\ req[u].tries < MaxRetry

(* retry_upstream, after the connection was freed: the request moves to    *)
(* another connection, or ends if there is none.                           *)
Moved(s, u, r, g) ==
    Assign(IF r.parent = None THEN g.s
           ELSE [g.s EXCEPT !.family[r.parent].subs = (@ \ {u}) \cup {g.u}],
           g.u, [r EXCEPT !.tries = @ + 1])
(* Variant: if there is none, the request is not told.                     *)
RetriedOrLost(s, u, r) == {Moved(s, u, r, g) : g \in GetConnection(s)} \cup {s}

Retried(s, u, r) ==
    {Moved(s, u, r, g) : g \in GetConnection(s)} \cup {FinalizeRequest(s, u, r)}

-----------------------------------------------------------------------------
(* func_dispatcher with event_exception, for a connection c in state s     *)
(* that is marked dying if an error or a timeout brought it here.          *)

Dying(s, c) == [s EXCEPT !.flags.dying = @ \cup {c}]

(* The sub-requests of a dying parent are marked and queued, in the order  *)
(* of an unordered map, and the parent waits for the last of them.         *)
QuickFinish(s, p) ==
    {[s EXCEPT !.flags.dying = @ \cup s.family[p].subs,
               !.flags.parentDying = @ \cup s.family[p].subs,
               !.delay = @ \o [i \in DOMAIN q |-> <<q[i], s.version[q[i]]>>]] :
        q \in SetToSeqs(s.family[p].subs)}

(* Variant: the parent is entered at once.                                 *)
WaitsForSubsNever(s, c) == FALSE
WaitsForSubs(s, c) == c \in Parent /\ s.family[c].subs # {}

(* The coroutine starts, or goes on behind its swap_out.  A request starts *)
(* the timer of its processing; who slept takes its timer back.            *)
(* Variant: an upstream connection runs the handler of client connections. *)
AwakeSameHandler == [idle |-> "user", sleep |-> "user", join |-> "user",
                     yield |-> "user", ready |-> "user", wait |-> "run"]

Awake == [idle |-> "user", sleep |-> "user", join |-> "user", yield |-> "user",
          ready |-> "start", wait |-> "run"]
Entered(s, c) ==
    [s EXCEPT !.pc[c] = Awake[@],
              !.flags.third = @ \ {c},
              !.timers = IF s.pc[c] = "idle" THEN @ \cup {<<c, "main">>}
                         ELSE @ \ {<<c, "sleep">>}]

(* A client connection without a request is closed, and given to the next  *)
(* client.                                                                 *)
Closed(s, p) == [s EXCEPT !.version[p] = @ + 1, !.flags = CleanFlags(@, p),
                          !.net[p] = "quiet", !.armed = @ \ {p}]

Dispatch(s, c) ==
    LET dying == c \in s.flags.dying
        third == c \in s.flags.third
    IN IF dying /\ third THEN Becomes(s) /\ UNCHANGED cur
       ELSE IF dying /\ WaitsForSubs(s, c)
            THEN (\E t \in QuickFinish(s, c) : Becomes(t)) /\ UNCHANGED cur
       ELSE IF dying /\ s.pc[c] = "idle"
            THEN Becomes(IF c \in Sub THEN FreeIdle(s, c) ELSE Closed(s, c))
                 /\ UNCHANGED cur
       ELSE Becomes(Entered(s, c)) /\ cur' = c

-----------------------------------------------------------------------------
(* The dispatch loop.                                                      *)

LoopOnly == UNCHANGED <<cur, queues, conns, family, req, pool, ops, requests>>

EpollWait ==
    /\ phase = "wait" /\ phase' = "events" /\ needContinue' = FALSE
    /\ batch' = {Entry(c) : c \in {d \in armed : net[d] # "quiet"}}
    /\ armed' = {}
    /\ UNCHANGED <<cur, delay, resumes, tokens, version, pc, flags, timers, net,
                   family, req, pool, ops, requests>>

(* An event of the batch.  The end of the stream is in it unless epoll has *)
(* it ready again.                                                         *)
TakeEvent(e) ==
    /\ phase = "events" /\ WorkerFree /\ e \in batch
    /\ batch' = batch \ {e}
    /\ IF e # Entry(e[1]) THEN Becomes(Now) /\ UNCHANGED cur
       ELSE Dispatch(IF net[e[1]] = "closed" /\ e[1] \notin armed
                     THEN Dying(Now, e[1]) ELSE Now, e[1])
    /\ UNCHANGED <<loop, resumes, tokens, ops, requests>>

(* funcResumeProcess, with the flag its static lambda has captured.        *)
ResumeProcess(s, e) ==
    IF e # Entry(e[1]) THEN Becomes(s) /\ UNCHANGED <<cur, needContinue>>
    ELSE Dispatch(s, e[1]) /\ needContinue' = (needContinue \/ FirstWorker)

TakeDelay ==
    /\ phase = "delay" /\ WorkerFree /\ delay # << >>
    /\ ResumeProcess([Now EXCEPT !.delay = Tail(@)], Head(delay))
    /\ UNCHANGED <<phase, batch, resumes, tokens, ops, requests>>

TakeResume(e) ==
    /\ phase = "resume" /\ WorkerFree /\ e \in resumes
    /\ resumes' = resumes \ {e}
    /\ ResumeProcess(Now, e)
    /\ UNCHANGED <<phase, batch, tokens, ops, requests>>

(* process_timer.  The pre-handler of a sleep ends the blocking and takes  *)
(* the timeout back; any other timer marks its connection timed out.       *)
ProcessTimer(t) ==
    /\ phase = "timer" /\ WorkerFree /\ t \in timers
    /\ LET s == [Now EXCEPT !.timers = @ \ {t}]
       IN IF t[2] = "sleep" THEN Dispatch([s EXCEPT !.flags.third = @ \ {t[1]}], t[1])
          ELSE Dispatch(Dying(s, t[1]), t[1])
    /\ UNCHANGED <<loop, batch, resumes, tokens, ops, requests>>

NextPhase(from, to) == phase = from /\ WorkerFree /\ phase' = to /\ LoopOnly

EventsDone == batch = {} /\ NextPhase("events", "delay") /\ UNCHANGED needContinue
DelayDone == delay = << >> /\ NextPhase("delay", "resume") /\ UNCHANGED needContinue
LookAtTimers == resumes = {} /\ NextPhase("resume", "timer") /\ needContinue' = TRUE
TimersDone == NextPhase("timer", "delay") /\ needContinue' = FALSE
(* Variant: the loop never goes round again.                               *)
GoesRoundNever == FALSE
GoesRound == needContinue
LoopAgain == /\ resumes = {} /\ GoesRound /\ needContinue' = FALSE
             /\ NextPhase("resume", "delay")
LoopEnd == /\ resumes = {} /\ ~GoesRound /\ NextPhase("resume", "wait")
           /\ UNCHANGED needContinue

-----------------------------------------------------------------------------
(* The calls of a request handler.  It stops after an error, runs what it  *)
(* has added, and returns with no sub-request left.                        *)

InHandler == UNCHANGED <<loop, batch, resumes, requests>>
Calls(p) == /\ At(p, "user") /\ ops[p] > 0
            /\ p \notin flags.dying
            /\ ops' = [ops EXCEPT ![p] = @ - 1]
Blocks(p) == Calls(p) /\ (BlocksAlone => family[p].subs = {}) /\ cur' = None

(* add_upstream: no connection to be had; no such protocol, which frees    *)
(* the connection with an error; or a sub-request.                         *)
AddUpstream(p) ==
    /\ Calls(p)
    /\ \/ Becomes(Now)
       \/ \E g \in GetConnection(Now) :
            \/ Becomes(Close(g.s, g.u))
            \/ Becomes(Assign([g.s EXCEPT !.family[p].subs = @ \cup {g.u},
                                          !.family[p].count = @ + 1,
                                          !.family[p].infos = TRUE],
                              g.u, [parent |-> p, pver |-> version[p], tries |-> 0]))
    /\ InHandler /\ UNCHANGED <<cur, tokens>>

(* add_upstream_detach: a request of its own.                              *)
AddUpstreamDetach(p) ==
    /\ Calls(p)
    /\ \E g \in GetConnection(Now) :
          \/ Becomes(Close(g.s, g.u))
          \/ Becomes(Assign(g.s, g.u, [parent |-> None, pver |-> 0, tries |-> 0]))
    /\ InHandler /\ UNCHANGED <<cur, tokens>>

Wait(p, w) == pc' = [pc EXCEPT ![p] = w]
Waits == UNCHANGED <<delay, version, net, armed, family, req, pool>>

(* run_upstreams swaps out; it refuses only if nothing was ever added.     *)
RunUpstreams(p) ==
    /\ At(p, "user") /\ family[p].subs # {}
    /\ IF family[p].infos THEN Wait(p, "join") /\ cur' = None
       ELSE UNCHANGED <<pc, cur>>
    /\ InHandler /\ Waits /\ UNCHANGED <<flags, timers, tokens, ops>>

UserSleep(p) ==
    /\ Blocks(p) /\ Wait(p, "sleep")
    /\ flags' = [flags EXCEPT !.third = @ \cup {p}]
    /\ timers' = timers \cup {<<p, "sleep">>}
    /\ InHandler /\ Waits /\ UNCHANGED tokens

UserYield(p) ==
    /\ Blocks(p) /\ Wait(p, "yield")
    /\ tokens' = tokens \cup {Entry(p)}
    /\ InHandler /\ Waits /\ UNCHANGED <<flags, timers>>

(* The handler returns; the request and its user data are deleted and the  *)
(* connection is the next client's.                                        *)
UserReturn(p) ==
    /\ At(p, "user") /\ family[p].subs = {}
    /\ cur' = None
    /\ Becomes([Closed(Now, p) EXCEPT !.pc[p] = "idle", !.timers = @ \ Own(p),
                                      !.family[p] = NoFamily])
    /\ InHandler /\ UNCHANGED <<tokens, ops>>

-----------------------------------------------------------------------------
(* CoCallbackUpstream: the coroutine of a sub-request.                     *)

InSub == UNCHANGED <<loop, batch, resumes, tokens, ops, requests>>
Running(u) == At(u, "start") \/ At(u, "run")

(* Connecting, writing or reading blocks in its hook, under a timer of its *)
(* own; the timer of an idle connection has been taken back.  A dying      *)
(* connection is refused.                                                  *)
Refused(u) == u \in flags.dying

SubBlocks(u) ==
    /\ Running(u) /\ ~Refused(u)
    /\ pc' = [pc EXCEPT ![u] = "wait"] /\ cur' = None
    /\ timers' = timers \cup {<<u, "main">>}
    /\ net' = [net EXCEPT ![u] = IF @ = "ready" THEN "quiet" ELSE @]
    /\ InSub /\ UNCHANGED <<delay, version, flags, armed, family, req, pool>>

(* The whole response was read and decoded: the request ends before its    *)
(* connection is freed.                                                    *)
SubDone(u) ==
    /\ Running(u) /\ ~Refused(u)
    /\ LET s == [FinalizeRequest(Now, u, req[u]) EXCEPT
                   !.net[u] = IF @ = "ready" THEN "quiet" ELSE @]
       IN Becomes(Keep(s, u)) \/ Becomes(Close(s, u))
    /\ cur' = None /\ InSub

(* Connecting, writing, reading or decoding failed.                        *)
SubFails(u) ==
    /\ Running(u)
    /\ IF NeedRetry(u) THEN \E s \in Retried(Close(Now, u), u, req[u]) : Becomes(s)
       ELSE Becomes(Close(FinalizeRequest(Now, u, req[u]), u))
    /\ cur' = None /\ InSub

-----------------------------------------------------------------------------
(* Clients, upstream servers and other threads.                            *)

Outside == UNCHANGED <<loop, cur, batch, delay, version, pc, flags, timers, family,
                       req, pool, ops>>

RequestArrives(p) ==
    /\ pc[p] = "idle" /\ net[p] = "quiet" /\ requests > 0
    /\ requests' = requests - 1
    /\ net' = [net EXCEPT ![p] = "ready"] /\ armed' = armed \cup {p}
    /\ Outside /\ UNCHANGED <<resumes, tokens>>

(* A server answers, or takes the connection or the data, while it is      *)
(* waited for; it may close any connection that has been opened.           *)
PeerAnswers(u) ==
    /\ pc[u] = "wait" /\ net[u] = "quiet"
    /\ net' = [net EXCEPT ![u] = "ready"] /\ armed' = armed \cup {u}
    /\ Outside /\ UNCHANGED <<resumes, tokens, requests>>

Open(c) == IF c \in Parent THEN pc[c] # "idle" \/ net[c] = "ready"
           ELSE pc[c] = "wait" \/ \E b \in Backend : c \in Range(pool.reuse[b])
PeerCloses(c) ==
    /\ Open(c) /\ net[c] # "closed"
    /\ net' = [net EXCEPT ![c] = "closed"] /\ armed' = armed \cup {c}
    /\ Outside /\ UNCHANGED <<resumes, tokens, requests>>

ResumeAsync(t) ==
    /\ t \in tokens
    /\ tokens' = tokens \ {t} /\ resumes' = resumes \cup {t}
    /\ Outside /\ UNCHANGED <<net, armed, requests>>

-----------------------------------------------------------------------------
Loop ==
    \/ EpollWait \/ \E e \in batch : TakeEvent(e)
    \/ EventsDone \/ TakeDelay \/ DelayDone \/ \E e \in resumes : TakeResume(e)
    \/ LoopAgain \/ LoopEnd \/ LookAtTimers \/ TimersDone

Timers == \E t \in timers : ProcessTimer(t)

Handler ==
    \/ \E p \in Parent : \/ AddUpstream(p) \/ AddUpstreamDetach(p) \/ RunUpstreams(p)
                         \/ UserSleep(p) \/ UserYield(p) \/ UserReturn(p)
    \/ \E u \in Sub : SubBlocks(u) \/ SubDone(u) \/ SubFails(u)

Resumer == \E t \in tokens : ResumeAsync(t)

World ==
    \/ \E p \in Parent : RequestArrives(p)
    \/ \E u \in Sub : PeerAnswers(u)
    \/ \E c \in Conn : PeerCloses(c)

Next == Loop \/ Timers \/ Handler \/ Resumer \/ World

Spec == Init /\ [][Next]_vars

(* As in CoDispatcher: the worker runs, timers come due, the inner loop    *)
(* comes to an end, and who holds coroutine data resumes it.               *)
FairSpec ==
    /\ Spec
    /\ WF_vars(Loop \/ Handler)
    /\ SF_vars(LookAtTimers) /\ SF_vars(Timers) /\ SF_vars(LoopEnd)
    /\ WF_vars(Resumer)
=============================================================================
