------------------------------- MODULE CoSingle -------------------------------
(***************************************************************************)
(* The hooked pthread mutex (CO_HOOK_MUTEX without CO_MUTEX_SLEEP): a      *)
(* coroutine that finds a mutex locked registers with CoSingle, which all  *)
(* worker threads share, and is swapped out with a retry timer; who        *)
(* unlocks the mutex resumes one that is registered.                       *)
(*                                                                         *)
(* A step is one critical section, or one operation on a mutex or a queue, *)
(* of one thread.  Handlers lock mutexes in ascending order, sleep whether *)
(* they hold one or not, and unlock all before they return.                *)
(***************************************************************************)
EXTENDS Integers, Sequences, FiniteSets

CONSTANTS Thread,       \* worker threads
          Conn,         \* client connections
          Home,         \* the thread of each connection
          Mutex,        \* numbers, in the order handlers lock them
          Common,       \* those that threads of the application lock too
          None, Outside,\* no owner; a thread that is not hooked
          MaxRequests,  \* bound: requests of one connection
          MaxOps,       \* bound: calls of the handlers of one connection
          MaxQueue,     \* bound: retries while so many wait for the mutex
          MaxOutside    \* bound: locks of the thread outside

ASSUME SingleAssumption ==
    /\ Home \in [Conn -> Thread] /\ Mutex \subseteq Nat
    /\ Common \subseteq Mutex
    /\ None \notin Conn /\ Outside \notin Conn \cup {None}
    /\ {MaxRequests, MaxOps, MaxQueue, MaxOutside} \subseteq Nat

VARIABLES
    cur,       \* per thread: the connection whose coroutine has the CPU
    pc,        \* where each coroutine stands
    want,      \* the mutex it locks or unlocks
    found,     \* entry that free_block_mutex is to resume
    owner,     \* of each mutex
    ids,       \* m_threadConnectionIds
    blocks,    \* m_blockMutexs: queues of <<connection, version>>
    singles,   \* m_waitSingles of each thread
    timers,    \* connections with a sleep timer
    dying,     \* connections found in error
    version,   \* m_version
    requests, ops, outside    \* what is left of the bounds

vars == <<cur, pc, want, found, owner, ids, blocks, singles, timers, dying,
          version, requests, ops, outside>>
bounds == <<requests, ops, outside>>
shared == <<owner, ids, blocks>>

Entry(c) == <<c, version[c]>>
Go(c, to) == pc' = [pc EXCEPT ![c] = to]
Holds(c) == {m \in Mutex : owner[m] = c}

(* The loop has the CPU.                                                   *)
WorkerFree(t) == cur[t] = None

Leaves(c) == cur' = [cur EXCEPT ![Home[c]] = None]
Enters(c) == WorkerFree(Home[c]) /\ cur' = [cur EXCEPT ![Home[c]] = c]

Init ==
    /\ cur = [t \in Thread |-> None]
    /\ pc = [c \in Conn |-> "idle"]
    /\ want \in [Conn -> {m \in Mutex : \A o \in Mutex : m <= o}]
    /\ found = [c \in Conn |-> None]
    /\ owner = [m \in Mutex |-> None]
    /\ ids = {} /\ blocks = [m \in Mutex |-> << >>]
    /\ singles = [t \in Thread |-> << >>]
    /\ timers = {} /\ dying = {}
    /\ version = [c \in Conn |-> 0]
    /\ requests = [c \in Conn |-> MaxRequests] /\ ops = [c \in Conn |-> MaxOps]
    /\ outside = MaxOutside

-----------------------------------------------------------------------------
(* Handlers.                                                               *)

Start(c) ==
    /\ pc[c] = "idle" /\ requests[c] > 0
    /\ requests' = [requests EXCEPT ![c] = @ - 1]
    /\ Go(c, "user") /\ Enters(c)
    /\ UNCHANGED <<want, found, shared, singles, timers, dying, version, ops, outside>>

Calls(c) == pc[c] = "user" /\ ops[c] > 0 /\ ops' = [ops EXCEPT ![c] = @ - 1]

Lock(c, m) ==
    /\ Calls(c) /\ \A h \in Holds(c) : h < m
    /\ want' = [want EXCEPT ![c] = m] /\ Go(c, "try")
    /\ UNCHANGED <<cur, found, shared, singles, timers, dying, version, requests, outside>>

(* The hooked sleep, for any call that swaps out under a timer: the        *)
(* handler may hold a mutex.                                               *)
Sleep(c) ==
    /\ Calls(c) /\ Go(c, "sleep") /\ Leaves(c)
    /\ timers' = timers \cup {c}
    /\ UNCHANGED <<want, found, shared, singles, dying, version, requests, outside>>

Return(c) ==
    /\ pc[c] = "user" /\ Holds(c) = {}
    /\ Go(c, "idle") /\ Leaves(c)
    /\ version' = [version EXCEPT ![c] = @ + 1] /\ dying' = dying \ {c}
    /\ UNCHANGED <<want, found, shared, singles, timers, bounds>>

-----------------------------------------------------------------------------
(* pthread_mutex_lock.                                                     *)

TryLock(c) ==
    /\ pc[c] = "try"
    /\ IF owner[want[c]] = None
       THEN owner' = [owner EXCEPT ![want[c]] = c] /\ Go(c, "user")
       ELSE Go(c, "busy") /\ UNCHANGED owner
    /\ UNCHANGED <<cur, want, found, ids, blocks, singles, timers, dying, version, bounds>>

(* add_block_mutex up to the swap_out of its yield_timer.                  *)
(* Variant: it waits for the unlock alone.                                 *)
RetryNever(c) == timers
Retry(c) == timers \cup {c}

AddBlockMutex(c) ==
    /\ pc[c] = "busy"
    /\ IF c \in ids THEN UNCHANGED <<ids, blocks>>
       ELSE /\ blocks' = [blocks EXCEPT ![want[c]] = Append(@, Entry(c))]
            /\ ids' = ids \cup {c}
    /\ timers' = Retry(c)
    /\ Go(c, "blocked") /\ Leaves(c)
    /\ UNCHANGED <<want, found, owner, singles, dying, version, bounds>>

(* ... and behind it: the loop of pthread_mutex_lock goes round, whatever  *)
(* yield_timer says of the connection.  Variant: the id stays.             *)
ForgetNot(c) == ids
Forget(c) == ids \ {c}

Unblocked(c) ==
    /\ pc[c] = "woken"
    /\ ids' = Forget(c) /\ Go(c, "try")
    /\ UNCHANGED <<cur, want, found, owner, blocks, singles, timers, dying, version, bounds>>

-----------------------------------------------------------------------------
(* pthread_mutex_unlock: the unlock, free_block_mutex, resume_single_async.*)

Unlock(c, m) ==
    /\ pc[c] = "user" /\ owner[m] = c
    /\ owner' = [owner EXCEPT ![m] = None]
    /\ want' = [want EXCEPT ![c] = m] /\ Go(c, "free")
    /\ UNCHANGED <<cur, found, ids, blocks, singles, timers, dying, version, bounds>>

(* Entries are taken up to the first whose connection is registered, for   *)
(* this mutex or another one.                                              *)
Waiting(q) == {i \in DOMAIN q : q[i][1] \in ids}
FreeBlockMutex(c) ==
    /\ pc[c] = "free"
    /\ LET q == blocks[want[c]] IN
       IF Waiting(q) = {}
       THEN /\ blocks' = [blocks EXCEPT ![want[c]] = << >>]
            /\ Go(c, "user") /\ UNCHANGED found
       ELSE \E i \in Waiting(q) :
            /\ \A j \in Waiting(q) : i <= j
            /\ blocks' = [blocks EXCEPT ![want[c]] = SubSeq(q, i + 1, Len(q))]
            /\ found' = [found EXCEPT ![c] = q[i]] /\ Go(c, "resume")
    /\ UNCHANGED <<cur, want, owner, ids, singles, timers, dying, version, bounds>>

ResumeSingleAsync(c) ==
    /\ pc[c] = "resume"
    /\ singles' = [singles EXCEPT ![Home[found[c][1]]] = Append(@, found[c])]
    /\ found' = [found EXCEPT ![c] = None] /\ Go(c, "user")
    /\ UNCHANGED <<cur, want, shared, timers, dying, version, bounds>>

-----------------------------------------------------------------------------
(* The dispatch loop.                                                      *)

(* find_block_mutex.  Variant: the loop does not ask.                      *)
FoundAnyway(c) == TRUE
FindBlockMutex(c) == c \in ids

(* What a coroutine does when it is entered.                               *)
Awake == [idle |-> "user", blocked |-> "woken", sleep |-> "user"]

(* yield_timer deletes a timer that did not fire.  Variant: it stays.      *)
TimerStays(c) == timers
TimerDeleted(c) == timers \ {c}

(* An entry of m_waitSingles.  A connection in error is not entered while  *)
(* it is in a third party call: its timer will do it.                      *)
TakeSingle(t) ==
    /\ WorkerFree(t) /\ singles[t] # << >>
    /\ singles' = [singles EXCEPT ![t] = Tail(@)]
    /\ LET e == Head(singles[t])
           c == e[1]
       IN IF FindBlockMutex(c) /\ e = Entry(c) /\ c \notin dying
          THEN Enters(c) /\ Go(c, Awake[pc[c]]) /\ timers' = TimerDeleted(c)
          ELSE UNCHANGED <<cur, pc, timers>>
    /\ UNCHANGED <<want, found, shared, dying, version, bounds>>

TimerFires(c) ==
    /\ c \in timers /\ Enters(c)
    /\ pc[c] = "blocked" => \/ Len(blocks[want[c]]) < MaxQueue
                            \/ owner[want[c]] = None
    /\ Go(c, Awake[pc[c]]) /\ timers' = timers \ {c}
    /\ UNCHANGED <<want, found, shared, singles, dying, version, bounds>>

(* A client leaves, or its request times out, while its handler waits.     *)
Dies(c) ==
    /\ pc[c] \in {"sleep", "blocked"} /\ c \notin dying
    /\ WorkerFree(Home[c]) /\ dying' = dying \cup {c}
    /\ UNCHANGED <<cur, pc, want, found, shared, singles, timers, version, bounds>>

-----------------------------------------------------------------------------
(* A thread of the application, whose unlock is not hooked.                *)

OutsideLocks(m) ==
    /\ m \in Common /\ owner[m] = None /\ outside > 0 /\ outside' = outside - 1
    /\ owner' = [owner EXCEPT ![m] = Outside]
    /\ UNCHANGED <<cur, pc, want, found, ids, blocks, singles, timers, dying,
                   version, requests, ops>>

OutsideUnlocks(m) ==
    /\ owner[m] = Outside
    /\ owner' = [owner EXCEPT ![m] = None]
    /\ UNCHANGED <<cur, pc, want, found, ids, blocks, singles, timers, dying,
                   version, bounds>>

Handler(c) ==
    \/ \E m \in Mutex : Lock(c, m) \/ Unlock(c, m)
    \/ Sleep(c) \/ Return(c) \/ TryLock(c) \/ AddBlockMutex(c) \/ Unblocked(c)
    \/ FreeBlockMutex(c) \/ ResumeSingleAsync(c)

Next ==
    \/ \E c \in Conn : Start(c) \/ Handler(c) \/ TimerFires(c) \/ Dies(c)
    \/ \E t \in Thread : TakeSingle(t)
    \/ \E m \in Mutex : OutsideLocks(m) \/ OutsideUnlocks(m)

Spec == Init /\ [][Next]_vars

(* Every thread runs, a timer comes due, and who has a mutex unlocks it.   *)
FairSpec ==
    /\ Spec
    /\ \A c \in Conn : WF_vars(Handler(c)) /\ SF_vars(TimerFires(c))
    /\ \A t \in Thread : WF_vars(TakeSingle(t))
    /\ \A m \in Mutex : WF_vars(OutsideUnlocks(m))
=============================================================================
