----------------------- MODULE CoDispatcherProperties -----------------------
(***************************************************************************)
(* What the worker thread of CoDispatcher promises.                        *)
(***************************************************************************)
EXTENDS CoDispatcher

LoopPhases == {"boot", "top", "wait", "events", "delay", "resume", "timer", "exit"}
Entry == [item : Item \cup {Lsn}, ver : Nat, ev : SUBSET Ev, again : BOOLEAN]

(* Types of the variables; a batch never holds more than socket events.    *)
TypeOK ==
    /\ phase \in LoopPhases /\ needContinue \in BOOLEAN /\ running \in BOOLEAN
    /\ stopped \in BOOLEAN
    /\ cur \in [item : Item \cup {Lsn}, by : By]
    /\ batch \subseteq Entry
    /\ delay \subseteq (Item \cup {Lsn}) \X Nat
    /\ resumes \subseteq Conn \X Nat /\ tokens \subseteq Conn \X Nat
    /\ free \subseteq Conn
    /\ version \in [Conn -> Nat]
    /\ pc \in [Conn -> PC]
    /\ flags \in FlagSet
    /\ timer \in TimerSet /\ ep \in EpSet /\ sock \in SockSet
    /\ retOk \subseteq Conn /\ answered \subseteq Conn /\ ops \in [Conn -> Nat]
    /\ lpc \in {"ready", "limit", "accept", "acceptWait", "acceptWoken"}
    /\ quota \in Nat /\ curSize \in Int /\ listening \in BOOLEAN
    /\ backlog \in Nat /\ clients \in Nat /\ sends \in Nat

-----------------------------------------------------------------------------
InUse == Conn \ free

(* The timer map and the m_flagTimerSet bits agree (CoEvent::reset clears  *)
(* the bit without touching the map): otherwise a timer of an earlier use  *)
(* of a connection would fire on the next one.                             *)
TimersMatch == timer.map = timer.set

(* A connection in the pool is clean: no timer, no epoll registration, no  *)
(* coroutine, no flag, no event or dispatch still aimed at this version.   *)
FreeIsClean ==
    \A c \in free :
        /\ timer.map \cap EventsOf(c) = {}
        /\ \A i \in Owned(c) : ep.ev[i] = {} /\ ~Flagged(i)
        /\ pc[c] = "idle" /\ c \notin flags.third \cup flags.useBlock
        /\ cur.item \notin Owned(c)
        /\ <<Orig(c), version[c]>> \notin delay
        /\ \A e \in batch : e.item = Orig(c) /\ ~e.again => e.ver # version[c]

(* The connections in use stay within max_connections, even while accept   *)
(* is suspended with a quota computed earlier, and the listening socket is *)
(* watched whenever there is room.                                         *)
Accepting == lpc \in {"accept", "acceptWait", "acceptWoken"}
Capacity ==
    /\ curSize <= MaxConnections
    /\ Accepting => 0 < quota /\ curSize + quota <= MaxConnections
    /\ curSize < MaxConnections => listening

(* m_curConnectionSize counts the connections in use: every accepted one   *)
(* is counted once and func_cleanup runs exactly once for it.              *)
SlotsCounted == curSize = Cardinality(InUse)

(* Edge triggered readiness is never lost: a coroutine waiting for its     *)
(* socket, or an idle connection, whose event is there has the edge still  *)
(* queued in epoll, in the batch under its version, or being dispatched.   *)
Noticed(c, evs) ==
    \/ Orig(c) \in ep.armed
    \/ \E e \in batch : /\ e.item = Orig(c) /\ e.ev \cap evs # {}
                        /\ e.again \/ e.ver = version[c]
    \/ cur.item = Orig(c)
    \/ <<Orig(c), version[c]>> \in delay
NoLostWakeup ==
    \A c \in InUse :
        /\ pc[c] \in {"idle", "recvWait"} /\ Orig(c) \in sock.data \cup sock.eof
              => Noticed(c, READ)
        /\ pc[c] = "sendWait" /\ Orig(c) \in sock.room => Noticed(c, {"out"})
        /\ pc[c] \in Waiting /\ Orig(c) \in sock.eof
              => Noticed(c, {"rdhup"}) \/ Flagged(Orig(c))

(* A client that went away is not dispatched again, and a queued entry of  *)
(* an earlier use of a connection never reaches the next one: when a       *)
(* coroutine is about to be entered without an exception, it is by what it *)
(* waits for, and the call it retries in the hook will not find the socket *)
(* empty (it would fail the request).                                      *)
RightWaker ==
    \A c \in Conn :
        ~WorkerFree /\ cur.item \in Owned(c) =>
        /\ c \notin free
        /\ pc[c] = "recvWait" => \/ Flagged(cur.item)
                                 \/ cur.by = "event" /\ ~NothingToRecv(c)
        /\ pc[c] = "sendWait" => \/ Flagged(cur.item)
                                 \/ cur.by = "out" /\ Orig(c) \in sock.room
        /\ pc[c] = "sleepWait" => cur.by = "sleep" \/ c \in flags.third
        /\ pc[c] = "yieldWait" => cur.by = "resume" \/ Flagged(cur.item)
        /\ pc[c] = "thirdWait" => \/ Flagged(cur.item)
                                  \/ cur.item = Blk(c) /\ cur.by = "event"
        /\ cur.item = Blk(c) => pc[c] \in {"thirdWait"} \cup Active

(* A suspended request always has something that will wake it: a timer of  *)
(* its own, or coroutine data another thread still holds or has resumed.   *)
NoForgottenCoroutine ==
    \A c \in InUse :
        cur.item \notin Owned(c) =>
        \/ timer.map \cap EventsOf(c) # {}
        \/ <<Orig(c), version[c]>> \in delay
        \/ pc[c] = "yieldWait" /\ <<c, version[c]>> \in tokens \cup resumes

-----------------------------------------------------------------------------
(* README, hook of mutex and sleep: until a sleep has run out, network     *)
(* errors and timeouts do not affect it.  The coroutine leaves a sleep     *)
(* only through the timer of that sleep.                                   *)
SleepRunsOut ==
    [][\A c \in Conn : pc[c] = "sleepWait" /\ pc'[c] # "sleepWait"
          => cur = [item |-> Orig(c), by |-> "sleep"]]_vars

(* test/testcase.md 5.3: an error or timeout of a third party socket is    *)
(* returned to the handler and never marks the client's connection.        *)
ThirdFailureIsLocal ==
    [][\A c \in Conn : Orig(c) \in flags'.dying \ flags.dying
          => cur.item = Orig(c)]_vars

(* The worker implements CoService: what its clients can tell of it.  In   *)
(* particular request_finalize keeps no connection whose response was cut. *)
Life == INSTANCE CoService WITH
    status   <- [c \in Conn |-> IF c \in free THEN "free"
                               ELSE IF pc[c] = "idle" THEN "idle" ELSE "busy"],
    answered <- answered,
    waiting  <- backlog
Implements == Life!Safe
(* Liveness of CoService, while the worker is not told to stop.            *)
ImplementsLive == []~stopped => Life!Live

(* Every client the kernel queued is accepted and every connection goes    *)
(* back to the pool in the end, whatever clients, third parties and the    *)
(* handler do: clients stop coming, so the pool is full and nobody waits.  *)
(* This holds of a worker that is not told to stop.                        *)
AllReleased == []~stopped => <>[](free = Conn /\ backlog = 0)

(* Once the loop runs, a stop brings it to its end: no connection, however *)
(* blocked, keeps a timer in the map for ever.                             *)
StopEnds == (phase # "boot" /\ ~running) ~> (phase = "exit")

(* The loop ends without cutting a request short: only a handler that      *)
(* waits for another thread (CoDispatcher::yield) may be left suspended.   *)
ExitLeavesOnlyYields ==
    phase = "exit" => \A c \in InUse : pc[c] = "yieldWait"

(* The comment in CoServer::shut_down: a shutdown during start-up waits    *)
(* for the dispatcher to be there, so that the stop reaches it.            *)
ShutdownEnds == stopped ~> (phase = "exit")

(* The comments in yield_thirdsocket: a dying block connection is an       *)
(* exception (the client timed out), a timeout of the third party socket   *)
(* alone is CO_TIMEOUT and an error of it alone CO_ERROR.                  *)
ThirdTimeoutReported ==
    [][\A c \in Conn : pc[c] = "thirdWoken" /\ pc'[c] = "user" /\ ~Dying(c)
          => ThirdResult(c) # "CO_EXCEPTION"]_vars
=============================================================================
