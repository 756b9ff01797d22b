-------------------------- MODULE CoSingleProperties --------------------------
(***************************************************************************)
(* What the hooked mutex promises to handlers.                             *)
(***************************************************************************)
EXTENDS CoSingle

(* Types of the variables; and a coroutine runs exactly while it has the   *)
(* CPU of its thread, under its timer otherwise.                           *)
Running == {"user", "try", "busy", "woken", "free", "resume"}
Suspended == {"blocked", "sleep"}
Stage == Running \cup Suspended \cup {"idle"}

Types ==
    /\ cur \in [Thread -> Conn \cup {None}]
    /\ pc \in [Conn -> Stage]
    /\ want \in [Conn -> Mutex] /\ found \in [Conn -> (Conn \X Nat) \cup {None}]
    /\ owner \in [Mutex -> Conn \cup {None, Outside}]
    /\ ids \subseteq Conn /\ blocks \in [Mutex -> Seq(Conn \X Nat)]
    /\ singles \in [Thread -> Seq(Conn \X Nat)]
    /\ timers \subseteq Conn /\ dying \subseteq Conn
    /\ version \in [Conn -> Nat]
    /\ requests \in [Conn -> Nat] /\ ops \in [Conn -> Nat] /\ outside \in Nat

RunsOnCpu == \A c \in Conn : cur[Home[c]] = c <=> pc[c] \in Running
TimersExact == \A c \in Conn : c \in timers <=> pc[c] \in Suspended

TypeOK == Types /\ RunsOnCpu /\ TimersExact

(* The set of CoSingle holds those connections that wait for a mutex, and  *)
(* no other: one too many would keep a later wait out of the queue and let *)
(* a resume of this wait enter the coroutine in another one.               *)
IdsExact == ids = {c \in Conn : pc[c] \in {"blocked", "woken"}}

(* README, hook of mutex and sleep: a sleep ends by its timer; the resume  *)
(* of a wait for a mutex that the timer had ended before does not end it.  *)
SleepUndisturbed ==
    [][\A c \in Conn : pc[c] = "sleep" /\ pc'[c] # "sleep"
          => singles' = singles /\ c \in timers]_vars

(* No deadlock between coroutines: every request that locks mutexes, in a  *)
(* fixed order, ends, also if an unlock comes between a failed trylock and *)
(* the registration, or from a thread that is not hooked.                  *)
AllReturn == <>[](\A c \in Conn : pc[c] = "idle")
=============================================================================
