-------------------------- MODULE CoResumeProperties --------------------------
(***************************************************************************)
(* What the resume channel promises: a worker does not sleep on work.      *)
(***************************************************************************)
EXTENDS CoResume

(* Types of the variables; the socketpair holds what it has room for.      *)
TypeOK ==
    /\ queue \in [Queue -> Nat] /\ caller \in [Thread -> {"idle", "write"}]
    /\ full \in Nat /\ bytes \in 0 .. Room /\ edge \in BOOLEAN
    /\ at \in {"epoll", "event", "timers"} \cup Queue
    /\ needContinue \in BOOLEAN /\ silent \subseteq Queue

(* Something gets the worker out of epoll, or will.                        *)
WakeUp == (edge /\ bytes > 0) \/ \E t \in Thread : caller[t] = "write"

(* co_dispatcher.cpp:162, the socketpair keeps the worker from being stuck *)
(* in epoll for long: it never waits there on a queue with entries unless  *)
(* a byte is reported or a caller about to write one.  Neither the test    *)
(* without lock, nor bytes that pile up because a read takes few of them,  *)
(* nor a full socketpair break this; only an entry queued first by a       *)
(* coroutine with a dying connection does, whose byte the hook refuses.    *)
NoSleepOnWork ==
    at = "epoll" => \A k \in Queue \ silent : queue[k] > 0 => WakeUp

(* So the worker comes back without the time limit of epoll.               *)
Woken == \A k \in Queue :
    (at = "epoll" /\ queue[k] > 0 /\ k \notin silent) ~> (at # "epoll")
=============================================================================
