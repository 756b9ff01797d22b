---------------------------- MODULE CoSingleProofs ----------------------------
(***************************************************************************)
(* The hooked mutex, for any number of threads, connections and mutexes:   *)
(* the set of waiting connections is exact, and because it is, no stale    *)
(* wake-up ends a sleep.                                                   *)
(***************************************************************************)
EXTENDS CoSingleProperties, TLAPS

USE SingleAssumption DEF shared, bounds

(* The entry that free_block_mutex found is there until it is resumed.     *)
FoundKept == \A c \in Conn : pc[c] = "resume" => found[c] \in Conn \X Nat

SingleInv == TypeOK /\ FoundKept /\ IdsExact

-----------------------------------------------------------------------------
(* The operators the actions are built from.                               *)

(* What free_block_mutex leaves of a queue is a queue.                     *)
LEMMA RestOfQueue ==
    ASSUME NEW S, NEW q \in Seq(S), NEW i \in DOMAIN q
    PROVE  SubSeq(q, i + 1, Len(q)) \in Seq(S) /\ q[i] \in S
  OBVIOUS

(* A coroutine goes on with the CPU.                                       *)
LEMMA KeepsCpu ==
    ASSUME TypeOK, NEW c \in Conn, NEW to \in Running, pc[c] \in Running,
           Go(c, to), cur' = cur, timers' = timers
    PROVE  pc' \in [Conn -> Stage] /\ RunsOnCpu' /\ TimersExact'
  BY DEF TypeOK, Types, RunsOnCpu, TimersExact, Go, Stage, Running, Suspended

(* A coroutine is swapped out, with a timer if it is suspended in a call.  *)
LEMMA LeavesCpu ==
    ASSUME TypeOK, NEW c \in Conn, NEW to \in Stage \ Running, pc[c] \in Running,
           Go(c, to), Leaves(c),
           timers' = IF to \in Suspended THEN timers \cup {c} ELSE timers
    PROVE  /\ pc' \in [Conn -> Stage] /\ cur' \in [Thread -> Conn \cup {None}]
           /\ RunsOnCpu' /\ TimersExact'
<1>1. pc' \in [Conn -> Stage] /\ cur' \in [Thread -> Conn \cup {None}]
  BY DEF TypeOK, Types, Go, Leaves, Stage
<1>2. cur[Home[c]] = c /\ Home[c] \in Thread
  BY DEF TypeOK, RunsOnCpu
<1>3. ASSUME NEW d \in Conn PROVE cur'[Home[d]] = d <=> pc'[d] \in Running
  BY <1>2 DEF TypeOK, Types, RunsOnCpu, Go, Leaves, Stage
<1>4. TimersExact'
  BY DEF TypeOK, Types, TimersExact, Go, Stage, Running, Suspended
<1> QED BY <1>1, <1>3, <1>4 DEF RunsOnCpu

(* A coroutine is swapped in; the timer of its call is gone.               *)
LEMMA EntersCpu ==
    ASSUME TypeOK, NEW c \in Conn, NEW to \in Running,
           Go(c, to), Enters(c), timers' = timers \ {c}
    PROVE  /\ pc' \in [Conn -> Stage] /\ cur' \in [Thread -> Conn \cup {None}]
           /\ RunsOnCpu' /\ TimersExact'
<1>1. pc' \in [Conn -> Stage] /\ cur' \in [Thread -> Conn \cup {None}]
  BY DEF TypeOK, Types, Go, Enters, Stage
<1>2. cur[Home[c]] = None /\ Home[c] \in Thread
  BY DEF Enters, WorkerFree
<1>3. ASSUME NEW d \in Conn PROVE cur'[Home[d]] = d <=> pc'[d] \in Running
  BY <1>2 DEF TypeOK, Types, RunsOnCpu, Go, Enters, Stage
<1>4. TimersExact'
  BY DEF TypeOK, Types, TimersExact, Go, Stage, Running, Suspended
<1> QED BY <1>1, <1>3, <1>4 DEF RunsOnCpu

(* A coroutine that can be swapped in is idle or suspended, and wakes up   *)
(* to run.                                                                 *)
LEMMA Awakes ==
    ASSUME TypeOK, NEW c \in Conn, WorkerFree(Home[c])
    PROVE  /\ pc[c] \in {"idle", "blocked", "sleep"} /\ Awake[pc[c]] \in Running
           /\ pc[c] = "blocked" <=> Awake[pc[c]] = "woken"
           /\ Awake[pc[c]] # "resume"
<1>1. pc[c] \notin Running /\ pc[c] \in Stage
  BY DEF TypeOK, Types, RunsOnCpu, WorkerFree, Stage
<1> QED BY <1>1 DEF Awake, Stage, Running, Suspended

-----------------------------------------------------------------------------
(* The initial states satisfy the invariant.                               *)
LEMMA InitSafe == Init => SingleInv
  BY DEF Init, SingleInv, TypeOK, Types, RunsOnCpu, TimersExact, FoundKept,
         IdsExact, Stage, Running, Suspended

(* Handlers.                                                               *)
LEMMA StartSafe ==
    ASSUME SingleInv, NEW c \in Conn, Start(c)
    PROVE  SingleInv'
<1>1. TypeOK'
  <2>1. "user" \in Running /\ timers' = timers \ {c}
    BY DEF SingleInv, TypeOK, Types, TimersExact, Start, Running, Suspended
  <2>2. /\ pc' \in [Conn -> Stage] /\ cur' \in [Thread -> Conn \cup {None}]
        /\ RunsOnCpu' /\ TimersExact'
    BY <2>1, EntersCpu DEF SingleInv, Start
  <2>3. requests' \in [Conn -> Nat]
    BY DEF SingleInv, TypeOK, Types, Start
  <2>4. timers' \subseteq Conn
    BY <2>1 DEF SingleInv, TypeOK, Types
  <2>5. Types'
    BY <2>2, <2>3, <2>4 DEF SingleInv, TypeOK, Types, Start
  <2> QED BY <2>2, <2>5 DEF TypeOK
<1>2. FoundKept' /\ IdsExact'
  BY DEF SingleInv, TypeOK, Types, FoundKept, IdsExact, Start, Go
<1> QED BY <1>1, <1>2 DEF SingleInv

LEMMA LockSafe ==
    ASSUME SingleInv, NEW c \in Conn, NEW m \in Mutex, Lock(c, m)
    PROVE  SingleInv'
<1>1. pc' \in [Conn -> Stage] /\ RunsOnCpu' /\ TimersExact'
  BY KeepsCpu DEF SingleInv, Lock, Calls, Running
<1>2. TypeOK'
  <2>1. want' \in [Conn -> Mutex] /\ ops' \in [Conn -> Nat]
    BY DEF SingleInv, TypeOK, Types, Lock, Calls
  <2>2. Types'
    BY <1>1, <2>1 DEF SingleInv, TypeOK, Types, Lock
  <2> QED BY <1>1, <2>2 DEF TypeOK
<1>3. FoundKept' /\ IdsExact'
  BY DEF SingleInv, TypeOK, Types, FoundKept, IdsExact, Lock, Calls, Go
<1> QED BY <1>2, <1>3 DEF SingleInv

LEMMA SleepSafe ==
    ASSUME SingleInv, NEW c \in Conn, Sleep(c)
    PROVE  SingleInv'
<1>1. /\ pc' \in [Conn -> Stage] /\ cur' \in [Thread -> Conn \cup {None}]
      /\ RunsOnCpu' /\ TimersExact'
  BY LeavesCpu DEF SingleInv, Sleep, Calls, Stage, Running, Suspended
<1>2. TypeOK'
  <2>1. timers' \subseteq Conn /\ ops' \in [Conn -> Nat]
    BY DEF SingleInv, TypeOK, Types, Sleep, Calls
  <2>2. Types'
    BY <1>1, <2>1 DEF SingleInv, TypeOK, Types, Sleep
  <2> QED BY <1>1, <2>2 DEF TypeOK
<1>3. FoundKept' /\ IdsExact'
  BY DEF SingleInv, TypeOK, Types, FoundKept, IdsExact, Sleep, Calls, Go
<1> QED BY <1>2, <1>3 DEF SingleInv

LEMMA ReturnSafe ==
    ASSUME SingleInv, NEW c \in Conn, Return(c)
    PROVE  SingleInv'
<1>1. /\ pc' \in [Conn -> Stage] /\ cur' \in [Thread -> Conn \cup {None}]
      /\ RunsOnCpu' /\ TimersExact'
  BY LeavesCpu DEF SingleInv, Return, Stage, Running, Suspended
<1>2. TypeOK'
  <2>1. version' \in [Conn -> Nat] /\ dying' \subseteq Conn
    BY DEF SingleInv, TypeOK, Types, Return
  <2>2. Types'
    BY <1>1, <2>1 DEF SingleInv, TypeOK, Types, Return
  <2> QED BY <1>1, <2>2 DEF TypeOK
<1>3. FoundKept' /\ IdsExact'
  BY DEF SingleInv, TypeOK, Types, FoundKept, IdsExact, Return, Go
<1> QED BY <1>2, <1>3 DEF SingleInv

-----------------------------------------------------------------------------
(* pthread_mutex_lock.                                                     *)
LEMMA TryLockSafe ==
    ASSUME SingleInv, NEW c \in Conn, TryLock(c)
    PROVE  SingleInv'
<1>1. PICK to \in {"user", "busy"} : Go(c, to)
  BY DEF TryLock
<1>2. pc' \in [Conn -> Stage] /\ RunsOnCpu' /\ TimersExact'
  BY <1>1, KeepsCpu DEF SingleInv, TryLock, Running
<1>3. owner' \in [Mutex -> Conn \cup {None, Outside}]
  BY DEF SingleInv, TypeOK, Types, TryLock
<1>4. TypeOK'
  BY <1>2, <1>3 DEF SingleInv, TypeOK, Types, TryLock
<1>5. FoundKept' /\ IdsExact'
  BY <1>1 DEF SingleInv, TypeOK, Types, FoundKept, IdsExact, TryLock, Go
<1> QED BY <1>4, <1>5 DEF SingleInv

LEMMA AddBlockMutexSafe ==
    ASSUME SingleInv, NEW c \in Conn, AddBlockMutex(c)
    PROVE  SingleInv'
<1>1. /\ pc' \in [Conn -> Stage] /\ cur' \in [Thread -> Conn \cup {None}]
      /\ RunsOnCpu' /\ TimersExact'
  BY LeavesCpu DEF SingleInv, AddBlockMutex, Retry, Stage, Running, Suspended
<1>2. ids' = ids \cup {c} /\ timers' \subseteq Conn
  BY DEF SingleInv, TypeOK, Types, AddBlockMutex, Retry
<1>3. blocks' \in [Mutex -> Seq(Conn \X Nat)]
  <2>1. Entry(c) \in Conn \X Nat /\ want[c] \in Mutex
    BY DEF SingleInv, TypeOK, Types, Entry
  <2>2. CASE c \in ids
    BY <2>2 DEF SingleInv, TypeOK, Types, AddBlockMutex
  <2>3. CASE c \notin ids
    <3>1. blocks' = [blocks EXCEPT ![want[c]] = Append(blocks[want[c]], Entry(c))]
      BY <2>3 DEF AddBlockMutex
    <3>2. blocks[want[c]] \in Seq(Conn \X Nat)
      BY <2>1 DEF SingleInv, TypeOK, Types
    <3>3. Append(blocks[want[c]], Entry(c)) \in Seq(Conn \X Nat)
      BY <2>1, <3>2
    <3> QED BY <3>1, <3>3 DEF SingleInv, TypeOK, Types
  <2> QED BY <2>2, <2>3
<1>4. TypeOK'
  <2>1. Types'
    BY <1>1, <1>2, <1>3 DEF SingleInv, TypeOK, Types, AddBlockMutex
  <2> QED BY <1>1, <2>1 DEF TypeOK
<1>5. FoundKept' /\ IdsExact'
  BY <1>2 DEF SingleInv, TypeOK, Types, FoundKept, IdsExact, AddBlockMutex, Go
<1> QED BY <1>4, <1>5 DEF SingleInv

LEMMA UnblockedSafe ==
    ASSUME SingleInv, NEW c \in Conn, Unblocked(c)
    PROVE  SingleInv'
<1>1. pc' \in [Conn -> Stage] /\ RunsOnCpu' /\ TimersExact'
  BY KeepsCpu DEF SingleInv, Unblocked, Running
<1>2. TypeOK'
  BY <1>1 DEF SingleInv, TypeOK, Types, Unblocked, Forget
<1>3. FoundKept' /\ IdsExact'
  BY DEF SingleInv, TypeOK, Types, FoundKept, IdsExact, Unblocked, Forget, Go
<1> QED BY <1>2, <1>3 DEF SingleInv

-----------------------------------------------------------------------------
(* pthread_mutex_unlock.                                                   *)
LEMMA UnlockSafe ==
    ASSUME SingleInv, NEW c \in Conn, NEW m \in Mutex, Unlock(c, m)
    PROVE  SingleInv'
<1>1. pc' \in [Conn -> Stage] /\ RunsOnCpu' /\ TimersExact'
  BY KeepsCpu DEF SingleInv, Unlock, Running
<1>2. TypeOK'
  <2>1. want' \in [Conn -> Mutex] /\ owner' \in [Mutex -> Conn \cup {None, Outside}]
    BY DEF SingleInv, TypeOK, Types, Unlock
  <2>2. Types'
    BY <1>1, <2>1 DEF SingleInv, TypeOK, Types, Unlock
  <2> QED BY <1>1, <2>2 DEF TypeOK
<1>3. FoundKept' /\ IdsExact'
  BY DEF SingleInv, TypeOK, Types, FoundKept, IdsExact, Unlock, Go
<1> QED BY <1>2, <1>3 DEF SingleInv

LEMMA FreeBlockMutexSafe ==
    ASSUME SingleInv, NEW c \in Conn, FreeBlockMutex(c)
    PROVE  SingleInv'
<1> DEFINE q == blocks[want[c]]
<1>1. q \in Seq(Conn \X Nat) /\ want[c] \in Mutex
  BY DEF SingleInv, TypeOK, Types
<1>2. PICK rest \in Seq(Conn \X Nat) : blocks' = [blocks EXCEPT ![want[c]] = rest]
  <2>1. CASE Waiting(q) = {}
    <3>1. blocks' = [blocks EXCEPT ![want[c]] = << >>]
      BY <2>1 DEF FreeBlockMutex
    <3>2. << >> \in Seq(Conn \X Nat)
      OBVIOUS
    <3> QED BY <3>1, <3>2
  <2>2. CASE Waiting(q) # {}
    <3>1. PICK i \in Waiting(q) :
             blocks' = [blocks EXCEPT ![want[c]] = SubSeq(q, i + 1, Len(q))]
      BY <2>2 DEF FreeBlockMutex
    <3>2. i \in DOMAIN q
      BY DEF Waiting
    <3> QED BY <1>1, <3>1, <3>2, RestOfQueue
  <2> QED BY <2>1, <2>2
<1>3. \/ Go(c, "user") /\ found' = found
      \/ Go(c, "resume") /\ \E e \in Conn \X Nat : found' = [found EXCEPT ![c] = e]
  <2>1. CASE Waiting(q) = {}
    BY <2>1 DEF FreeBlockMutex
  <2>2. CASE Waiting(q) # {}
    <3>1. PICK i \in Waiting(q) : found' = [found EXCEPT ![c] = q[i]] /\ Go(c, "resume")
      BY <2>2 DEF FreeBlockMutex
    <3>2. i \in DOMAIN q
      BY DEF Waiting
    <3> QED BY <1>1, <3>1, <3>2, RestOfQueue
  <2> QED BY <2>1, <2>2
<1>4. pc[c] = "free" /\ UNCHANGED <<cur, want, owner, ids, singles, timers, dying,
                                    version, bounds>>
  BY DEF FreeBlockMutex
<1>5. pc' \in [Conn -> Stage] /\ RunsOnCpu' /\ TimersExact'
  BY <1>3, <1>4, KeepsCpu DEF SingleInv, Running
<1>6. TypeOK'
  <2>1. blocks' \in [Mutex -> Seq(Conn \X Nat)]
    BY <1>1, <1>2 DEF SingleInv, TypeOK, Types
  <2>2. found' \in [Conn -> (Conn \X Nat) \cup {None}]
    <3>1. found \in [Conn -> (Conn \X Nat) \cup {None}]
      BY DEF SingleInv, TypeOK, Types
    <3>2. CASE found' = found
      BY <3>1, <3>2
    <3>3. CASE \E e \in Conn \X Nat : found' = [found EXCEPT ![c] = e]
      <4>1. PICK e \in Conn \X Nat : found' = [found EXCEPT ![c] = e]
        BY <3>3
      <4> QED BY <3>1, <4>1
    <3> QED BY <1>3, <3>2, <3>3
  <2>3. Types'
    BY <1>4, <1>5, <2>1, <2>2 DEF SingleInv, TypeOK, Types
  <2> QED BY <1>5, <2>3 DEF TypeOK
<1>7. FoundKept'
  <2>1. /\ found \in [Conn -> (Conn \X Nat) \cup {None}] /\ pc \in [Conn -> Stage]
        /\ FoundKept
    BY DEF SingleInv, TypeOK, Types
  <2>2. CASE Go(c, "user") /\ found' = found
    BY <2>1, <2>2 DEF FoundKept, Go
  <2>3. CASE Go(c, "resume") /\ \E e \in Conn \X Nat : found' = [found EXCEPT ![c] = e]
    <3>1. PICK e \in Conn \X Nat : found' = [found EXCEPT ![c] = e]
      BY <2>3
    <3>2. /\ found'[c] \in Conn \X Nat
          /\ \A d \in Conn \ {c} : found'[d] = found[d] /\ pc'[d] = pc[d]
      BY <2>1, <2>3, <3>1 DEF Go
    <3> QED BY <2>1, <3>2 DEF FoundKept
  <2> QED BY <1>3, <2>2, <2>3
<1>8. IdsExact'
  <2>1. pc \in [Conn -> Stage] /\ ids = {d \in Conn : pc[d] \in {"blocked", "woken"}}
    BY DEF SingleInv, TypeOK, Types, IdsExact
  <2>2. Go(c, "user") \/ Go(c, "resume")
    BY <1>3
  <2>3. \A d \in Conn : pc'[d] \in {"blocked", "woken"} <=> pc[d] \in {"blocked", "woken"}
    BY <1>4, <2>1, <2>2 DEF Go
  <2> QED BY <1>4, <2>1, <2>3 DEF IdsExact
<1> QED BY <1>6, <1>7, <1>8 DEF SingleInv

LEMMA ResumeSingleAsyncSafe ==
    ASSUME SingleInv, NEW c \in Conn, ResumeSingleAsync(c)
    PROVE  SingleInv'
<1>1. pc' \in [Conn -> Stage] /\ RunsOnCpu' /\ TimersExact'
  BY KeepsCpu DEF SingleInv, ResumeSingleAsync, Running
<1>2. TypeOK'
  <2>1. found[c] \in Conn \X Nat
    BY DEF SingleInv, FoundKept, ResumeSingleAsync
  <2>2. Home[found[c][1]] \in Thread
    BY <2>1
  <2>3. singles' \in [Thread -> Seq(Conn \X Nat)]
    <3> DEFINE t == Home[found[c][1]]
    <3>1. Append(singles[t], found[c]) \in Seq(Conn \X Nat)
      BY <2>1, <2>2 DEF SingleInv, TypeOK, Types
    <3>2. singles' = [singles EXCEPT ![t] = Append(singles[t], found[c])]
      BY DEF ResumeSingleAsync
    <3> HIDE DEF t
    <3> QED BY <3>1, <3>2 DEF SingleInv, TypeOK, Types
  <2>4. found' \in [Conn -> (Conn \X Nat) \cup {None}]
    BY DEF SingleInv, TypeOK, Types, ResumeSingleAsync
  <2>5. Types'
    BY <1>1, <2>3, <2>4 DEF SingleInv, TypeOK, Types, ResumeSingleAsync
  <2> QED BY <1>1, <2>5 DEF TypeOK
<1>3. FoundKept' /\ IdsExact'
  BY DEF SingleInv, TypeOK, Types, FoundKept, IdsExact, ResumeSingleAsync, Go
<1> QED BY <1>2, <1>3 DEF SingleInv

-----------------------------------------------------------------------------
(* The dispatch loop.                                                      *)
LEMMA TakeSingleSafe ==
    ASSUME SingleInv, NEW t \in Thread, TakeSingle(t)
    PROVE  SingleInv'
<1> DEFINE e == Head(singles[t])
           c == e[1]
<1>1. singles[t] \in Seq(Conn \X Nat) /\ singles[t] # << >>
  BY DEF SingleInv, TypeOK, Types, TakeSingle
<1>2. e \in Conn \X Nat /\ Tail(singles[t]) \in Seq(Conn \X Nat)
  BY <1>1
<1>3. c \in Conn
  BY <1>2
<1>4. singles' = [singles EXCEPT ![t] = Tail(@)]
      /\ UNCHANGED <<want, found, owner, ids, blocks, dying, version, bounds>>
  BY DEF TakeSingle
<1>5. singles' \in [Thread -> Seq(Conn \X Nat)]
  BY <1>2, <1>4 DEF SingleInv, TypeOK, Types
<1>6. CASE UNCHANGED <<cur, pc, timers>>
  <2>1. TypeOK'
    BY <1>4, <1>5, <1>6 DEF SingleInv, TypeOK, Types, RunsOnCpu, TimersExact
  <2>2. FoundKept' /\ IdsExact'
    BY <1>4, <1>6 DEF SingleInv, FoundKept, IdsExact
  <2> QED BY <2>1, <2>2 DEF SingleInv
<1>7. CASE c \in ids /\ Enters(c) /\ Go(c, Awake[pc[c]]) /\ timers' = timers \ {c}
  <2> HIDE DEF e, c
  <2>1. /\ pc[c] = "blocked" /\ Awake[pc[c]] \in Running
        /\ Awake[pc[c]] = "woken"
    BY <1>3, <1>7, Awakes DEF SingleInv, IdsExact, Enters
  <2>2. /\ pc' \in [Conn -> Stage] /\ cur' \in [Thread -> Conn \cup {None}]
        /\ RunsOnCpu' /\ TimersExact'
    BY <1>3, <1>7, <2>1, EntersCpu DEF SingleInv
  <2>3. timers' \subseteq Conn
    BY <1>7 DEF SingleInv, TypeOK, Types
  <2>4. Types'
    BY <1>4, <1>5, <2>2, <2>3 DEF SingleInv, TypeOK, Types
  <2>5. FoundKept' /\ IdsExact'
    BY <1>3, <1>4, <1>7, <2>1 DEF SingleInv, TypeOK, Types, FoundKept, IdsExact, Go
  <2> QED BY <2>2, <2>4, <2>5 DEF SingleInv, TypeOK
<1> QED BY <1>6, <1>7 DEF TakeSingle, FindBlockMutex, TimerDeleted

LEMMA TimerFiresSafe ==
    ASSUME SingleInv, NEW c \in Conn, TimerFires(c)
    PROVE  SingleInv'
<1>1. /\ pc[c] \in {"blocked", "sleep"} /\ Awake[pc[c]] \in Running
      /\ pc[c] = "blocked" <=> Awake[pc[c]] = "woken"
      /\ Awake[pc[c]] # "resume"
  BY Awakes DEF SingleInv, TypeOK, TimersExact, TimerFires, Enters, Suspended
<1>2. /\ pc' \in [Conn -> Stage] /\ cur' \in [Thread -> Conn \cup {None}]
      /\ RunsOnCpu' /\ TimersExact'
  BY <1>1, EntersCpu DEF SingleInv, TimerFires
<1>3. TypeOK'
  <2>1. timers' \subseteq Conn
    BY DEF SingleInv, TypeOK, Types, TimerFires
  <2>2. Types'
    BY <1>2, <2>1 DEF SingleInv, TypeOK, Types, TimerFires
  <2> QED BY <1>2, <2>2 DEF TypeOK
<1>4. /\ \A d \in Conn : d # c => pc'[d] = pc[d]
      /\ pc'[c] = Awake[pc[c]] /\ ids' = ids /\ found' = found
  BY DEF SingleInv, TypeOK, Types, TimerFires, Go
<1>5. pc[c] = "sleep" => Awake[pc[c]] = "user"
  BY DEF Awake
<1>6. FoundKept' /\ IdsExact'
  BY <1>1, <1>4, <1>5 DEF SingleInv, FoundKept, IdsExact
<1> QED BY <1>3, <1>6 DEF SingleInv

LEMMA DiesSafe ==
    ASSUME SingleInv, NEW c \in Conn, Dies(c)
    PROVE  SingleInv'
  BY DEF SingleInv, TypeOK, Types, RunsOnCpu, TimersExact, FoundKept, IdsExact, Dies

(* The application's own thread.                                           *)
LEMMA OutsideSafe ==
    ASSUME SingleInv, NEW m \in Mutex, OutsideLocks(m) \/ OutsideUnlocks(m)
    PROVE  SingleInv'
<1>1. owner' \in [Mutex -> Conn \cup {None, Outside}]
  BY DEF SingleInv, TypeOK, Types, OutsideLocks, OutsideUnlocks
<1>2. outside' \in Nat
  BY DEF SingleInv, TypeOK, Types, OutsideLocks, OutsideUnlocks
<1>3. UNCHANGED <<cur, pc, want, found, ids, blocks, singles, timers, dying,
                  version, requests, ops>>
  BY DEF OutsideLocks, OutsideUnlocks
<1>4. Types'
  BY <1>1, <1>2, <1>3 DEF SingleInv, TypeOK, Types
<1> QED BY <1>3, <1>4 DEF SingleInv, TypeOK, RunsOnCpu, TimersExact, FoundKept, IdsExact

-----------------------------------------------------------------------------
(* Every step keeps the invariant.                                         *)
LEMMA NextSafe == SingleInv /\ [Next]_vars => SingleInv'
<1> SUFFICES ASSUME SingleInv, [Next]_vars PROVE SingleInv'
  OBVIOUS
<1>1. CASE UNCHANGED vars
  BY <1>1 DEF vars, SingleInv, TypeOK, Types, RunsOnCpu, TimersExact, FoundKept, IdsExact
<1>2. ASSUME NEW c \in Conn, Start(c) \/ TimerFires(c) \/ Dies(c) PROVE SingleInv'
  BY <1>2, StartSafe, TimerFiresSafe, DiesSafe
<1>3. ASSUME NEW c \in Conn, Handler(c) PROVE SingleInv'
  <2>1. CASE \E m \in Mutex : Lock(c, m) \/ Unlock(c, m)
    BY <2>1, LockSafe, UnlockSafe
  <2>2. CASE Sleep(c) \/ Return(c)
    BY <2>2, SleepSafe, ReturnSafe
  <2>3. CASE TryLock(c) \/ AddBlockMutex(c) \/ Unblocked(c)
    BY <2>3, TryLockSafe, AddBlockMutexSafe, UnblockedSafe
  <2>4. CASE FreeBlockMutex(c) \/ ResumeSingleAsync(c)
    BY <2>4, FreeBlockMutexSafe, ResumeSingleAsyncSafe
  <2> QED BY <1>3, <2>1, <2>2, <2>3, <2>4 DEF Handler
<1>4. ASSUME NEW t \in Thread, TakeSingle(t) PROVE SingleInv'
  BY <1>4, TakeSingleSafe
<1>5. ASSUME NEW m \in Mutex, OutsideLocks(m) \/ OutsideUnlocks(m) PROVE SingleInv'
  BY <1>5, OutsideSafe
<1> QED BY <1>1, <1>2, <1>3, <1>4, <1>5 DEF Next

LEMMA AlwaysSafe == Spec => []SingleInv
  BY InitSafe, NextSafe, PTL DEF Spec

(* The types of the variables; and every coroutine runs exactly while it   *)
(* has the CPU, and has a sleep timer exactly while it is suspended.       *)
THEOREM SingleTypeCorrect == Spec => []TypeOK
<1>1. SingleInv => TypeOK
  BY DEF SingleInv
<1> QED BY <1>1, AlwaysSafe, PTL

(* m_threadConnectionIds holds exactly the connections that wait for a     *)
(* mutex, whatever threads add, free, time out and resume.                 *)
THEOREM WaitersAreExact == Spec => []IdsExact
<1>1. SingleInv => IdsExact
  BY DEF SingleInv
<1> QED BY <1>1, AlwaysSafe, PTL

(* A step out of a sleep is that of its timer: find_block_mutex turns away *)
(* every resume left from an earlier wait, since a sleeping connection is  *)
(* not in the set.                                                         *)
LEMMA SleepStep ==
    ASSUME SingleInv, [Next]_vars, NEW c \in Conn, pc[c] = "sleep", pc'[c] # "sleep"
    PROVE  singles' = singles /\ c \in timers
<1>1. c \in timers /\ c \notin ids
  BY DEF SingleInv, TypeOK, TimersExact, IdsExact, Suspended
<1>2. ~UNCHANGED vars
  BY DEF vars
<1>3. ASSUME NEW t \in Thread, TakeSingle(t) PROVE FALSE
  <2> DEFINE d == Head(singles[t])[1]
  <2>1. d # c => pc'[c] = pc[c]
    BY <1>3 DEF SingleInv, TypeOK, Types, TakeSingle, Go
  <2>2. d = c => pc' = pc
    BY <1>1, <1>3 DEF TakeSingle, FindBlockMutex
  <2> QED BY <2>1, <2>2
<1>4. ASSUME NEW d \in Conn, Start(d) \/ Handler(d) PROVE singles' = singles
  <2>1. d # c => pc'[c] = pc[c]
    BY <1>4 DEF SingleInv, TypeOK, Types, Start, Handler, Lock, Unlock, Sleep, Return,
                TryLock, AddBlockMutex, Unblocked, FreeBlockMutex, ResumeSingleAsync,
                Calls, Go
  <2>2. pc[d] # "sleep"
    BY <1>4 DEF Start, Handler, Lock, Unlock, Sleep, Return, TryLock, AddBlockMutex,
                Unblocked, FreeBlockMutex, ResumeSingleAsync, Calls
  <2> QED BY <2>1, <2>2
<1>5. ASSUME NEW d \in Conn, TimerFires(d) \/ Dies(d) PROVE singles' = singles
  BY <1>5 DEF TimerFires, Dies
<1>6. ASSUME NEW m \in Mutex, OutsideLocks(m) \/ OutsideUnlocks(m)
      PROVE  singles' = singles
  BY <1>6 DEF OutsideLocks, OutsideUnlocks
<1> QED BY <1>1, <1>2, <1>3, <1>4, <1>5, <1>6 DEF Next

(* A sleep ends by its timer alone.                                        *)
THEOREM SleepKept == Spec => SleepUndisturbed
<1>1. SingleInv /\ [Next]_vars =>
        [\A c \in Conn : pc[c] = "sleep" /\ pc'[c] # "sleep"
            => singles' = singles /\ c \in timers]_vars
  BY SleepStep
<1> QED BY <1>1, AlwaysSafe, PTL DEF Spec, SleepUndisturbed
=============================================================================
