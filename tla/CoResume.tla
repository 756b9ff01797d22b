------------------------------- MODULE CoResume -------------------------------
(***************************************************************************)
(* How threads hand resumed coroutines to a worker: two queues under the   *)
(* lock m_mtxResume, tested for emptiness without it by the worker, and a  *)
(* socketpair whose bytes get the worker out of epoll.  A byte is written  *)
(* after the unlock, and only by a call that found its queue empty.        *)
(* Epoll reports the read end by edge: once per write, not per byte.       *)
(***************************************************************************)
EXTENDS Integers

CONSTANTS Thread,       \* threads that call resume_async, resume_single_async
          Worker,       \* the thread that owns the queues; its handlers call too
          Hooked,       \* those of Thread that are workers of the server
          FirstWorker,  \* Worker was the first of the process in its loop
          Room,         \* bytes the socketpair holds
          ReadSize,     \* bytes the handler of the read end takes
          MaxQueue      \* bound of each queue, and of the callers in full

ASSUMPTION ResumeAssumption ==
    /\ Worker \in Hooked /\ Hooked \subseteq Thread
    /\ FirstWorker \in BOOLEAN
    /\ Room \in Nat \ {0} /\ ReadSize \in Nat \ {0} /\ MaxQueue \in Nat

Queue == {"resumes", "singles"}    \* m_waitResumes, m_waitSingles

VARIABLES
    queue,         \* entries in each queue
    caller,        \* of each thread: idle, or about to write its byte
    full,          \* own callers suspended in send: the socketpair was full
    bytes,         \* unread in the socketpair
    edge,          \* the read end is in the ready list of epoll
    at,            \* where process_events_and_timers stands
    needContinue,  \* its local variable
    silent         \* queues whose first entry came without a byte

vars == <<queue, caller, full, bytes, edge, at, needContinue, silent>>

Init ==
    /\ queue = [k \in Queue |-> 0] /\ caller = [t \in Thread |-> "idle"]
    /\ full = 0 /\ bytes = 0 /\ edge = FALSE
    /\ at = "epoll" /\ needContinue = FALSE /\ silent = {}

-----------------------------------------------------------------------------
(* resume_async and resume_single_async.                                   *)

(* The worker's thread calls from handlers only, so not out of epoll.      *)
MayCall(t) == /\ caller[t] = "idle"
              /\ t = Worker => at # "epoll" /\ full < MaxQueue

(* A variant: the test for emptiness comes after the push.                 *)
PushThenTest(t, k) ==
    /\ MayCall(t) /\ queue[k] < MaxQueue
    /\ queue' = [queue EXCEPT ![k] = @ + 1]
    /\ caller' = [caller EXCEPT ![t] =
                      IF queue'[k] = 0 THEN "write" ELSE "idle"]
    /\ UNCHANGED <<full, bytes, edge, at, needContinue, silent>>

(* The critical section.  The hook of send refuses to write for a          *)
(* coroutine whose own connection is dying.                                *)
Push(t, k) ==
    /\ MayCall(t) /\ queue[k] < MaxQueue
    /\ queue' = [queue EXCEPT ![k] = @ + 1]
    /\ \/ queue[k] > 0 /\ UNCHANGED <<caller, silent>>
       \/ /\ queue[k] = 0
          /\ caller' = [caller EXCEPT ![t] = "write"] /\ silent' = silent \ {k}
       \/ /\ queue[k] = 0 /\ t \in Hooked
          /\ silent' = silent \cup {k} /\ UNCHANGED caller
    /\ UNCHANGED <<full, bytes, edge, at, needContinue>>

(* The byte goes out; epoll queues the edge.                               *)
ByteSent == bytes < Room /\ bytes' = bytes + 1 /\ edge' = TRUE

(* tcp_write of one byte.  When the socketpair is full, other threads give *)
(* up: the socket does not block.  To the worker itself it is a socket of  *)
(* its own pool, so the hook suspends the handler that made the call.      *)
WriteByte(t) ==
    /\ caller[t] = "write" /\ caller' = [caller EXCEPT ![t] = "idle"]
    /\ \/ ByteSent /\ UNCHANGED full
       \/ /\ bytes = Room /\ full' = IF t = Worker THEN full + 1 ELSE full
          /\ UNCHANGED <<bytes, edge>>
    /\ UNCHANGED <<queue, at, needContinue, silent>>

(* Something else enters that handler again, a timer or its client.  The   *)
(* hook tries once more, or reports an error, and the call returns.        *)
SendResumed ==
    /\ full > 0 /\ full' = full - 1
    /\ caller[Worker] = "idle" /\ at # "epoll"
    /\ ByteSent \/ UNCHANGED <<bytes, edge>>
    /\ UNCHANGED <<queue, caller, at, needContinue, silent>>

-----------------------------------------------------------------------------
(* The worker.                                                             *)

Step(from, to) == caller[Worker] = "idle" /\ at = from /\ at' = to

(* epoll_wait returns with the read end, whose handler reads once.         *)
EpollWait ==
    /\ Step("epoll", "event") /\ edge /\ bytes > 0
    /\ edge' = FALSE /\ needContinue' = FALSE
    /\ UNCHANGED <<queue, caller, full, bytes, silent>>

(* A variant: the handler takes ReadSize bytes, there or not.              *)
ReadEventWhole ==
    /\ Step("event", "resumes") /\ bytes' = bytes - ReadSize
    /\ UNCHANGED <<queue, caller, full, edge, needContinue, silent>>

(* A variant: the event is enough, nothing is read.                        *)
ReadEventNothing ==
    /\ Step("event", "resumes")
    /\ UNCHANGED <<queue, caller, full, bytes, edge, needContinue, silent>>

ReadEvent ==
    /\ Step("event", "resumes")
    /\ bytes' = IF bytes > ReadSize THEN bytes - ReadSize ELSE 0
    /\ UNCHANGED <<queue, caller, full, edge, needContinue, silent>>

(* It returns with other events, or after its time limit.                  *)
OtherEvent ==
    /\ Step("epoll", "resumes") /\ needContinue' = FALSE
    /\ UNCHANGED <<queue, caller, full, bytes, edge, silent>>

(* One entry: the test without the lock, then front and pop with it.  The  *)
(* entry may be stale (another version, not waiting for a mutex any more). *)
Take(k) ==
    /\ Step(k, k) /\ queue[k] > 0
    /\ queue' = [queue EXCEPT ![k] = @ - 1]
    /\ needContinue' \in {needContinue, needContinue \/ FirstWorker}
    /\ UNCHANGED <<caller, full, bytes, edge, silent>>

(* The unlocked test finds the queue empty.                                *)
Leave(k, to) ==
    /\ Step(k, to) /\ queue[k] = 0
    /\ UNCHANGED <<queue, caller, full, bytes, edge, needContinue, silent>>

(* Timers are looked at if a clock tick was measured; then another round.  *)
LoopEnd(ticked) ==
    /\ Step("timers", IF needContinue \/ ticked THEN "resumes" ELSE "epoll")
    /\ needContinue' = FALSE
    /\ UNCHANGED <<queue, caller, full, bytes, edge, silent>>

WorkerStep ==
    \/ EpollWait \/ ReadEvent
    \/ \E k \in Queue : Take(k)
    \/ Leave("resumes", "singles") \/ Leave("singles", "timers")
    \/ \E ticked \in BOOLEAN : LoopEnd(ticked)

Next == \/ \E t \in Thread : WriteByte(t) \/ \E k \in Queue : Push(t, k)
        \/ WorkerStep \/ OtherEvent \/ SendResumed

Spec == Init /\ [][Next]_vars

(* Threads run; nothing is assumed of other events and the time limit, so  *)
(* a suspended handler may never be entered again.                         *)
FairSpec == /\ Spec /\ WF_vars(WorkerStep)
            /\ \A t \in Thread : WF_vars(WriteByte(t))
=============================================================================
