------------------------- MODULE CoDispatcherProofs -------------------------
(***************************************************************************)
(* Proofs about the worker thread of CoDispatcher, for any number of       *)
(* connections, any limits and any bounds of the environment.              *)
(***************************************************************************)
EXTENDS CoDispatcherProperties, FiniteSetTheorems, TLAPS

USE DEF loop, queues, request, accept, control, budget

-----------------------------------------------------------------------------
(* The operators the actions are built from.                               *)

(* The names of a connection's items and events are what their types say.  *)
LEMMA Names ==
    ASSUME NEW c \in Conn
    PROVE  /\ Orig(c) \in Item /\ Blk(c) \in Item /\ Owned(c) \subseteq Item
           /\ Rd(c) \in Event /\ Wr(c) \in Event
           /\ Sleep(c) \in Event /\ BRd(c) \in Event
           /\ Orig(c)[1] = c /\ Blk(c)[1] = c /\ Orig(c) # Blk(c)
BY DEF Orig, Blk, Owned, Rd, Wr, Sleep, BRd, Item, Event

(* CoTimer::add_timer, del_timer and CoEvent::reset keep the timers' type. *)
LEMMA TimerTypes ==
    ASSUME NEW tm \in TimerSet, NEW e \in Event, NEW c \in Conn
    PROVE  /\ AddTimer(tm, e) \in TimerSet /\ DelTimer(tm, e) \in TimerSet
           /\ ResetEvents(tm, c) \in TimerSet
BY DEF AddTimer, DelTimer, ResetEvents, TimerSet

(* CoEpoll::modify_connection and del_connection keep epoll's type.        *)
LEMMA EpollTypes ==
    ASSUME NEW e \in EpSet, NEW i \in Item, NEW evs \in SUBSET Ev, NEW v \in Nat
    PROVE  /\ AddEvents(e, i, evs, v) \in EpSet /\ DelEvents(e, i, evs, v) \in EpSet
           /\ DelConnection(e, i) \in EpSet
<1>1. ASSUME NEW s \in SUBSET Ev, NEW w \in Nat PROVE Register(e, i, s, w) \in EpSet
  BY <1>1 DEF Register, EpSet
<1>2. ASSUME NEW s \in SUBSET Ev PROVE Modify(e, i, s, v) \in EpSet
  BY <1>1, <1>2 DEF Modify
<1>3. e.ev[i] \in SUBSET Ev
  BY DEF EpSet
<1> QED BY <1>1, <1>2, <1>3 DEF AddEvents, DelEvents, DelConnection

(* CoServerControl::modify_listening: types, and it listens below the      *)
(* limit, whatever it was told before.                                     *)
LEMMA ListeningTypes ==
    ASSUME NEW n \in Int, NEW e \in EpSet, NEW l \in BOOLEAN
    PROVE  /\ ModifyListening(n, e, l).ep \in EpSet
           /\ ModifyListening(n, e, l).listening \in BOOLEAN
           /\ n < MaxConnections => ModifyListening(n, e, l).listening
<1>1. [e EXCEPT !.armed = @ \ {Lsn}] \in EpSet /\ [e EXCEPT !.armed = @ \cup {Lsn}] \in EpSet
  BY DEF EpSet
<1> QED BY <1>1, ConstantAssumption DEF ModifyListening

(* CoConnection::reset_block and reset keep the flags' type.               *)
LEMMA FlagTypes ==
    ASSUME NEW f \in FlagSet, NEW c \in Conn
    PROVE  ResetBlock(f, c) \in FlagSet /\ ResetFlags(f, c) \in FlagSet
BY DEF ResetBlock, ResetFlags, FlagSet

-----------------------------------------------------------------------------
(* Type correctness needs Capacity: a quota is counted down only while it  *)
(* is positive.                                                            *)
Safe == TypeOK /\ Capacity

LEMMA SafeInit == Init => Safe
<1> SUFFICES ASSUME Init PROVE Safe
  OBVIOUS
<1> USE DEF Init
<1>1. cur \in [item : Item \cup {Lsn}, by : By]
  BY DEF Nobody, By
<1>2. flags \in FlagSet
  BY DEF NoFlags, FlagSet
<1>3. timer \in TimerSet /\ sock \in SockSet
  BY DEF TimerSet, SockSet
<1>4. ep \in EpSet
  BY DEF EpSet
<1>5. MaxConnections \in Nat \ {0} /\ MaxClients \in Nat /\ MaxSends \in Nat
  BY ConstantAssumption
<1>6. Capacity
  BY <1>5 DEF Capacity, Accepting
<1>7. version \in [Conn -> Nat] /\ ops \in [Conn -> Nat] /\ pc \in [Conn -> PC]
  BY DEF PC
<1>8. /\ phase \in LoopPhases /\ backlog \in Nat /\ quota \in Nat /\ curSize \in Int
      /\ clients \in Nat /\ sends \in Nat
  BY <1>5 DEF LoopPhases
<1> QED BY <1>1, <1>2, <1>3, <1>4, <1>6, <1>7, <1>8 DEF Safe, TypeOK

LEMMA SafeLoop ==
    ASSUME Safe, Loop PROVE Safe'
<1> USE ConstantAssumption DEF Safe, TypeOK, Capacity, Accepting, LoopOnly, LoopPhases
<1>1. CASE Start BY <1>1 DEF Start
<1>2. CASE StartWait BY <1>2 DEF StartWait
<1>3. CASE CloseAllConnections
  BY <1>3, Names DEF CloseAllConnections, FlagSet, VersionOf, Lsn
<1>4. CASE EpollWait
  <2>1. \A i \in Item : ep.ver[i] \in Nat /\ ep.ev[i] \cap Cond(i) \in SUBSET Ev
    BY DEF EpSet
  <2>2. batch' \subseteq Entry
    <3>1. ASSUME NEW i \in Item
          PROVE  [item |-> i, ver |-> ep.ver[i], ev |-> ep.ev[i] \cap Cond(i),
                  again |-> FALSE] \in Entry
      BY <2>1 DEF Entry
    <3>2. [item |-> Lsn, ver |-> 0, ev |-> {"in"}, again |-> FALSE] \in Entry
      BY DEF Entry, Ev
    <3> QED BY <1>4, <3>1, <3>2 DEF EpollWait
  <2>3. ep' \in EpSet
    BY <1>4 DEF EpollWait, EpSet
  <2> QED BY <1>4, <2>2, <2>3 DEF EpollWait
<1>5. CASE \E e \in batch : StaleEvent(e)
  BY <1>5 DEF StaleEvent
<1>6. CASE \E e \in batch : ReadEvent(e)
  <2> PICK e \in batch : ReadEvent(e)
    BY <1>6
  <2>1. e \in Entry
    OBVIOUS
  <2>2. cur' \in [item : Item \cup {Lsn}, by : By]
    BY <2>1 DEF ReadEvent, Dispatch, Entry, By
  <2>3. [e EXCEPT !.again = TRUE] \in Entry
    BY <2>1 DEF Entry
  <2>4. batch' \subseteq Entry
    BY <2>3 DEF ReadEvent
  <2>5. flags' \in FlagSet
    BY <2>1 DEF ReadEvent, FlagSet, Entry
  <2> QED BY <2>2, <2>4, <2>5 DEF ReadEvent
<1>7. CASE \E e \in batch : WriteEvent(e)
  BY <1>7 DEF WriteEvent, Dispatch, Entry, By
<1>8. CASE EventsDone \/ DelayDone \/ LoopAgain \/ LoopEnd \/ LookAtTimers \/ TimersDone
  <2>1. CASE EventsDone
    BY <2>1 DEF EventsDone, NextPhase
  <2>2. CASE DelayDone
    BY <2>2 DEF DelayDone, NextPhase
  <2>3. CASE LoopAgain
    BY <2>3 DEF LoopAgain, NextPhase
  <2>4. CASE LoopEnd
    BY <2>4 DEF LoopEnd, NextPhase
  <2>5. CASE LookAtTimers
    BY <2>5 DEF LookAtTimers, NextPhase
  <2>6. CASE TimersDone
    BY <2>6 DEF TimersDone, NextPhase
  <2> QED BY <1>8, <2>1, <2>2, <2>3, <2>4, <2>5, <2>6
<1>9. CASE \E d \in delay : TakeDelay(d)
  BY <1>9 DEF TakeDelay, ResumeProcess, Dispatch, By
<1>10. CASE \E r \in resumes : TakeResume(r)
  BY <1>10, Names DEF TakeResume, ResumeProcess, Dispatch, By
<1> QED BY <1>1, <1>2, <1>3, <1>4, <1>5, <1>6, <1>7, <1>8, <1>9, <1>10 DEF Loop

LEMMA SafeTimers ==
    ASSUME Safe, Timers PROVE Safe'
<1> USE DEF Safe, TypeOK, Capacity, Accepting, LoopOnly, LoopPhases
<1> PICK t \in timer.map : ProcessTimer(t)
  BY DEF Timers
<1>1. t \in Item \X {"read", "write", "sleep"}
  BY DEF TimerSet, Event
<1>2. flags' \in FlagSet
  BY <1>1 DEF ProcessTimer, SleepPreHandler, FlagSet
<1>3. timer' \in TimerSet
  BY DEF ProcessTimer, TimerSet
<1>4. cur' \in [item : Item \cup {Lsn}, by : By]
  BY <1>1 DEF ProcessTimer, Dispatch, By
<1> QED BY <1>2, <1>3, <1>4, ConstantAssumption DEF ProcessTimer

(* func_dispatcher and the end of a use of a connection.                   *)
LEMMA NobodyType == Nobody \in [item : Item \cup {Lsn}, by : By]
BY DEF Nobody, By

LEMMA WakeType == \A p \in PC \ Active : Wake(p) \in PC
BY DEF PC, Active, Waiting, Woken, Wake

LEMMA KeepAliveTypes ==
    ASSUME Safe, NEW c \in Conn, NEW tm \in TimerSet, NEW e \in EpSet,
           KeepAlive(c, tm, e)
    PROVE  /\ version' \in [Conn -> Nat] /\ flags' \in FlagSet /\ timer' \in TimerSet
           /\ ep' \in EpSet /\ pc' \in [Conn -> PC]
           /\ UNCHANGED <<free, sock, control>>
<1> USE DEF Safe, TypeOK, KeepAlive
<1>1. version[c] + 1 \in Nat /\ {"in"} \in SUBSET Ev /\ {"out"} \in SUBSET Ev
  BY DEF Ev
<1>2. AddEvents(e, Orig(c), {"in"}, version[c] + 1) \in EpSet
  BY <1>1, Names, EpollTypes
<1>3. ep' \in EpSet
  BY <1>1, <1>2, Names, EpollTypes
<1>4. timer' \in TimerSet
  BY Names, TimerTypes
<1>5. flags' \in FlagSet
  BY FlagTypes
<1>6. pc' \in [Conn -> PC]
  BY DEF PC
<1> QED BY <1>1, <1>3, <1>4, <1>5, <1>6

LEMMA CloseConnectionTypes ==
    ASSUME Safe, NEW c \in Conn, NEW tm \in TimerSet, NEW e \in EpSet,
           CloseConnection(c, tm, e)
    PROVE  /\ version' \in [Conn -> Nat] /\ flags' \in FlagSet /\ timer' \in TimerSet
           /\ ep' \in EpSet /\ pc' \in [Conn -> PC] /\ free' \subseteq Conn
           /\ sock' \in SockSet /\ curSize' = curSize - 1
           /\ listening' = TRUE
<1> USE DEF Safe, TypeOK, CloseConnection, FuncCleanup
<1>1. curSize - 1 \in Int /\ curSize - 1 < MaxConnections
  BY ConstantAssumption DEF Capacity
<1>2. ep' \in EpSet /\ listening' \in BOOLEAN /\ listening'
  BY <1>1, ListeningTypes
<1>3. timer' \in TimerSet
  BY Names, TimerTypes
<1>4. flags' \in FlagSet
  BY FlagTypes
<1>5. pc' \in [Conn -> PC] /\ version' \in [Conn -> Nat]
  BY DEF PC
<1>6. sock' \in SockSet
  BY DEF SockSet
<1> QED BY <1>2, <1>3, <1>4, <1>5, <1>6

(* free_request_connection keeps types and limits, kept or closed.         *)
LEMMA FreeRequestConnectionSafe ==
    ASSUME Safe, NEW c \in Conn, NEW ok \in BOOLEAN, FreeRequestConnection(c, ok),
           OnlyRun, cur' = Nobody,
           retOk' = retOk, ops' = ops, answered' \subseteq Conn
    PROVE  Safe'
<1> DEFINE tm == DelTimer(DelTimer(timer, Wr(c)), Rd(c))
<1>1. tm \in TimerSet
  BY Names, TimerTypes DEF Safe, TypeOK
<1>2. DelConnection(ep, Orig(c)) \in EpSet
  BY Names, EpollTypes DEF Safe, TypeOK, Ev
<1> HIDE DEF tm
<1>3. CASE ok
  <2>1. KeepAlive(c, tm, ep)
    BY <1>3 DEF FreeRequestConnection, tm
  <2>2. ep \in EpSet
    BY DEF Safe, TypeOK
  <2> QED BY <1>1, <2>1, <2>2, KeepAliveTypes, NobodyType, ConstantAssumption
          DEF Safe, TypeOK, Capacity, Accepting, OnlyRun
<1>4. CASE ~ok
  <2>1. CloseConnection(c, tm, DelConnection(ep, Orig(c)))
    BY <1>4 DEF FreeRequestConnection, tm
  <2>2. /\ version' \in [Conn -> Nat] /\ flags' \in FlagSet /\ timer' \in TimerSet
        /\ ep' \in EpSet /\ pc' \in [Conn -> PC] /\ free' \subseteq Conn
        /\ sock' \in SockSet /\ curSize' = curSize - 1 /\ listening' = TRUE
    BY <1>1, <1>2, <2>1, CloseConnectionTypes
  <2>3. TypeOK'
    BY <2>2, NobodyType DEF Safe, TypeOK, OnlyRun
  <2>4. Capacity'
    BY <2>2, ConstantAssumption DEF Safe, TypeOK, Capacity, Accepting, OnlyRun
  <2> QED BY <2>3, <2>4 DEF Safe
<1> QED BY <1>3, <1>4

LEMMA SafeDispatch ==
    ASSUME Safe, NEW i \in Item, WaitThirdFunc(i) \/ Enter(i) \/ FreeIdleConnection(i)
    PROVE  Safe'
<1> USE DEF OnlyRun
<1>1. CASE WaitThirdFunc(i)
  <2>1. flags' \in FlagSet
    BY <1>1 DEF WaitThirdFunc, Safe, TypeOK, FlagSet
  <2> QED BY <1>1, <2>1, NobodyType, ConstantAssumption
          DEF WaitThirdFunc, Done, Safe, TypeOK, Capacity, Accepting
<1>2. CASE Enter(i)
  <2>1. i[1] \in Conn
    BY DEF Item
  <2>2. flags' \in FlagSet
    <3>1. Blk(i[1]) \in Item
      BY <2>1, Names
    <3>2. DyingAfter(i) \in SUBSET Item
      BY <3>1 DEF DyingAfter, Safe, TypeOK, FlagSet
    <3>3. flags \in FlagSet
      BY DEF Safe, TypeOK
    <3>4. [flags EXCEPT !.dying = DyingAfter(i)] \in FlagSet
      BY <3>2, <3>3 DEF FlagSet
    <3> QED BY <1>2, <3>3, <3>4 DEF Enter
  <2>3. pc' \in [Conn -> PC]
    BY <1>2, <2>1, WakeType DEF Enter, Entering, Goto, Safe, TypeOK
  <2> QED BY <1>2, <2>2, <2>3, ConstantAssumption DEF Enter, Safe, TypeOK, Capacity, Accepting
<1>3. CASE FreeIdleConnection(i)
  <2>1. i[1] \in Conn
    BY DEF Item
  <2> QED BY <1>3, <2>1, FreeRequestConnectionSafe
          DEF FreeIdleConnection, Done, Safe, TypeOK
<1> QED BY <1>1, <1>2, <1>3

-----------------------------------------------------------------------------
(* A stage of a request touches timers, epoll, the socket and its own      *)
(* state only.                                                             *)
LEMMA SafeStage ==
    ASSUME Safe,
           timer' \in TimerSet, ep' \in EpSet, sock' \in SockSet, flags' \in FlagSet,
           pc' \in [Conn -> PC], cur' \in [item : Item \cup {Lsn}, by : By],
           retOk' \subseteq Conn, answered' \subseteq Conn, ops' \in [Conn -> Nat],
           tokens' \subseteq Conn \X Nat,
           UNCHANGED <<loop, batch, delay, resumes, accept, budget, free, version,
                       control>>
    PROVE  Safe'
BY ConstantAssumption DEF Safe, TypeOK, Capacity, Accepting

LEMMA GotoType ==
    ASSUME TypeOK, NEW c \in Conn, NEW p \in PC, Goto(c, p)
    PROVE  pc' \in [Conn -> PC]
BY DEF Goto, TypeOK

LEMMA EventSets == /\ READ \in SUBSET Ev /\ {"in"} \in SUBSET Ev /\ {"out"} \in SUBSET Ev
BY DEF READ, Ev

(* The timer and epoll operations of the stages.                           *)
LEMMA StageOps ==
    ASSUME TypeOK, NEW c \in Conn
    PROVE  /\ version[c] \in Nat
           /\ StopReading(c) \in TimerSet /\ IgnoreInput(c) \in EpSet
           /\ \A tm \in TimerSet : \A e \in Event :
                 AddTimer(tm, e) \in TimerSet /\ DelTimer(tm, e) \in TimerSet
           /\ \A e \in EpSet, evs \in SUBSET Ev :
                 /\ AddEvents(e, Orig(c), evs, version[c]) \in EpSet
                 /\ DelEvents(e, Orig(c), evs, version[c]) \in EpSet
           /\ \A e \in EpSet, evs \in SUBSET Ev :
                 AddEvents(e, Blk(c), evs, 0) \in EpSet /\ DelEvents(e, Blk(c), evs, 0) \in EpSet
<1>1. version[c] \in Nat
  BY DEF TypeOK
<1>2. \A tm \in TimerSet : \A e \in Event :
         AddTimer(tm, e) \in TimerSet /\ DelTimer(tm, e) \in TimerSet
  BY TimerTypes
<1>3. \A i \in Item : \A e \in EpSet, evs \in SUBSET Ev, v \in Nat :
         AddEvents(e, i, evs, v) \in EpSet /\ DelEvents(e, i, evs, v) \in EpSet
  BY EpollTypes
<1>4. StopReading(c) \in TimerSet
  BY <1>2, Names DEF StopReading, TypeOK
<1>5. IgnoreInput(c) \in EpSet
  BY <1>1, <1>3, Names, EventSets DEF IgnoreInput, TypeOK
<1>6. 0 \in Nat
  OBVIOUS
<1> QED BY <1>1, <1>2, <1>3, <1>4, <1>5, <1>6, Names

LEMMA RequestWriteTypes ==
    ASSUME TypeOK, NEW c \in Conn, NEW tm \in TimerSet, NEW e \in EpSet,
           NEW ok \in BOOLEAN, RequestWrite(c, tm, e, ok)
    PROVE  /\ timer' \in TimerSet /\ ep' \in EpSet /\ retOk' \subseteq Conn
           /\ pc' \in [Conn -> PC]
<1>1. "send" \in PC
  BY DEF PC, Active
<1>2. timer' \in TimerSet
  BY StageOps, Names DEF RequestWrite
<1>3. ep' \in EpSet
  BY StageOps, EventSets DEF RequestWrite
<1>4. retOk' \subseteq Conn
  BY DEF RequestWrite, TypeOK
<1> QED BY <1>1, <1>2, <1>3, <1>4, GotoType DEF RequestWrite

LEMMA FailReadTypes ==
    ASSUME TypeOK, NEW c \in Conn, FailRead(c)
    PROVE  /\ timer' \in TimerSet /\ ep' \in EpSet /\ retOk' \subseteq Conn
           /\ pc' \in [Conn -> PC]
<1>1. StopReading(c) \in TimerSet /\ IgnoreInput(c) \in EpSet
  BY StageOps
<1>2. RequestWrite(c, StopReading(c), IgnoreInput(c), FALSE)
  BY DEF FailRead
<1> QED BY <1>1, <1>2, RequestWriteTypes

LEMMA DecodeTypes ==
    ASSUME TypeOK, NEW c \in Conn, Decode(c)
    PROVE  /\ timer' \in TimerSet /\ ep' \in EpSet /\ retOk' \subseteq Conn
           /\ pc' \in [Conn -> PC] /\ sock' \in SockSet
<1>1. sock' \in SockSet
  BY DEF Decode, TypeOK, SockSet
<1>2. CASE RequestProcess(c)
  <2>1. "user" \in PC
    BY DEF PC, Active
  <2>2. timer' \in TimerSet /\ ep' \in EpSet
    BY <1>2, StageOps, Names DEF RequestProcess
  <2> QED BY <1>1, <1>2, <2>1, <2>2, GotoType DEF RequestProcess, TypeOK
<1>3. CASE Goto(c, "recv") /\ UNCHANGED <<timer, ep, retOk>>
  <2>1. "recv" \in PC
    BY DEF PC, Active
  <2> QED BY <1>1, <1>3, <2>1, GotoType DEF TypeOK
<1>4. CASE FailRead(c)
  BY <1>1, <1>4, FailReadTypes
<1> QED BY <1>2, <1>3, <1>4 DEF Decode

LEMMA SafeRequest ==
    ASSUME Safe, NEW c \in Conn, RequestInit(c) \/ Recv(c) \/ RecvResumed(c)
    PROVE  Safe'
<1> USE DEF InRun, OnlyRun
<1>t. TypeOK
  BY DEF Safe
<1>p. "recv" \in PC /\ "recvWait" \in PC
  BY DEF PC, Active, Waiting
<1>1. CASE RequestInit(c)
  <2>1. timer' \in TimerSet
    BY <1>1, <1>t, StageOps, Names DEF RequestInit, TypeOK
  <2>2. ep' \in EpSet
    BY <1>1, <1>t, StageOps, EventSets DEF RequestInit, TypeOK
  <2>3. pc' \in [Conn -> PC]
    BY <1>1, <1>t, <1>p, GotoType DEF RequestInit
  <2> QED BY <1>1, <1>t, <2>1, <2>2, <2>3, SafeStage DEF RequestInit, TypeOK
<1>2. CASE Recv(c)
  <2>1. /\ timer' \in TimerSet /\ ep' \in EpSet /\ retOk' \subseteq Conn
        /\ pc' \in [Conn -> PC] /\ sock' \in SockSet
        /\ cur' \in [item : Item \cup {Lsn}, by : By]
    <3>1. CASE Decode(c) /\ UNCHANGED cur
      BY <3>1, <1>t, DecodeTypes DEF TypeOK
    <3>2. CASE RecvFails(c) /\ UNCHANGED cur
      BY <3>2, <1>t, FailReadTypes DEF RecvFails, TypeOK
    <3>3. CASE Goto(c, "recvWait") /\ Done /\ UNCHANGED <<timer, ep, retOk, sock>>
      BY <3>3, <1>t, <1>p, GotoType, NobodyType DEF Done, TypeOK
    <3> QED BY <1>2, <3>1, <3>2, <3>3 DEF Recv
  <2> QED BY <1>2, <1>t, <2>1, SafeStage DEF Recv, TypeOK
<1>3. CASE RecvResumed(c)
  <2>1. /\ timer' \in TimerSet /\ ep' \in EpSet /\ retOk' \subseteq Conn
        /\ pc' \in [Conn -> PC] /\ sock' \in SockSet
    <3>1. CASE Decode(c)
      BY <3>1, <1>t, DecodeTypes
    <3>2. CASE RecvFails(c)
      BY <3>2, <1>t, FailReadTypes DEF RecvFails, TypeOK
    <3> QED BY <1>3, <3>1, <3>2 DEF RecvResumed
  <2> QED BY <1>3, <1>t, <2>1, SafeStage DEF RecvResumed, TypeOK
<1> QED BY <1>1, <1>2, <1>3

LEMMA SafeUser ==
    ASSUME Safe, NEW c \in Conn,
           \/ UserSleep(c) \/ SleepResumed(c) \/ UserThirdSocket(c) \/ ThirdResumed(c)
           \/ UserYield(c) \/ YieldResumed(c) \/ UserReturn(c)
    PROVE  Safe'
<1> USE DEF InRun, OnlyRun
<1>t. TypeOK
  BY DEF Safe
<1>p. /\ "user" \in PC /\ "sleepWait" \in PC /\ "thirdWait" \in PC /\ "yieldWait" \in PC
  BY DEF PC, Active, Waiting
<1>o. ops' \in [Conn -> Nat] /\ cur' \in [item : Item \cup {Lsn}, by : By]
  BY <1>t, NobodyType
     DEF UserSleep, SleepResumed, UserThirdSocket, ThirdResumed, UserYield, YieldResumed,
         UserReturn, Blocks, Done, TypeOK
<1>1. CASE UserSleep(c)
  <2>1. flags' \in FlagSet
    BY <1>1, <1>t DEF UserSleep, TypeOK, FlagSet
  <2>2. timer' \in TimerSet
    BY <1>1, <1>t, StageOps, Names DEF UserSleep, TypeOK
  <2>3. pc' \in [Conn -> PC]
    BY <1>1, <1>t, <1>p, GotoType DEF UserSleep
  <2> QED BY <1>1, <1>t, <1>o, <2>1, <2>2, <2>3, SafeStage DEF UserSleep, Blocks, TypeOK
<1>2. CASE SleepResumed(c)
  <2>1. flags' \in FlagSet
    BY <1>2, <1>t DEF SleepResumed, TypeOK, FlagSet
  <2>2. timer' \in TimerSet
    BY <1>2, <1>t, StageOps, Names DEF SleepResumed, TypeOK
  <2>3. pc' \in [Conn -> PC]
    BY <1>2, <1>t, <1>p, GotoType DEF SleepResumed
  <2> QED BY <1>2, <1>t, <1>o, <2>1, <2>2, <2>3, SafeStage DEF SleepResumed, TypeOK
<1>3. CASE UserThirdSocket(c)
  <2>1. flags' \in FlagSet
    BY <1>3, <1>t DEF UserThirdSocket, TypeOK, FlagSet
  <2>2. timer' \in TimerSet
    BY <1>3, <1>t, StageOps, Names DEF UserThirdSocket, TypeOK
  <2>3. ep' \in EpSet
    BY <1>3, <1>t, StageOps, EventSets DEF UserThirdSocket, TypeOK
  <2>4. pc' \in [Conn -> PC]
    BY <1>3, <1>t, <1>p, GotoType DEF UserThirdSocket
  <2> QED BY <1>3, <1>t, <1>o, <2>1, <2>2, <2>3, <2>4, SafeStage
          DEF UserThirdSocket, Blocks, TypeOK
<1>4. CASE ThirdResumed(c)
  <2>1. flags' \in FlagSet
    <3>1. [flags EXCEPT !.useBlock = @ \ {c}] \in FlagSet
      BY <1>t DEF TypeOK, FlagSet
    <3> QED BY <1>4, <3>1, FlagTypes DEF ThirdResumed
  <2>2. timer' \in TimerSet
    BY <1>4, <1>t, StageOps, Names DEF ThirdResumed, TypeOK
  <2>3. ep' \in EpSet
    BY <1>4, <1>t, StageOps, EventSets DEF ThirdResumed, TypeOK
  <2>4. sock' \in SockSet
    BY <1>4, <1>t DEF ThirdResumed, TypeOK, SockSet
  <2>5. pc' \in [Conn -> PC]
    BY <1>4, <1>t, <1>p, GotoType DEF ThirdResumed
  <2> QED BY <1>4, <1>t, <1>o, <2>1, <2>2, <2>3, <2>4, <2>5, SafeStage
          DEF ThirdResumed, TypeOK
<1>5. CASE UserYield(c)
  <2>1. tokens' \subseteq Conn \X Nat
    BY <1>5, <1>t DEF UserYield, TypeOK
  <2>2. pc' \in [Conn -> PC]
    BY <1>5, <1>t, <1>p, GotoType DEF UserYield
  <2> QED BY <1>5, <1>t, <1>o, <2>1, <2>2, SafeStage DEF UserYield, Blocks, TypeOK
<1>6. CASE YieldResumed(c)
  <2>1. pc' \in [Conn -> PC]
    BY <1>6, <1>t, <1>p, GotoType DEF YieldResumed
  <2> QED BY <1>6, <1>t, <1>o, <2>1, SafeStage DEF YieldResumed, TypeOK
<1>7. CASE UserReturn(c)
  <2>1. DelTimer(timer, Rd(c)) \in TimerSet /\ ep \in EpSet
    BY <1>t, StageOps, Names DEF TypeOK
  <2>2. /\ timer' \in TimerSet /\ ep' \in EpSet /\ retOk' \subseteq Conn
        /\ pc' \in [Conn -> PC]
    BY <1>7, <1>t, <2>1, RequestWriteTypes DEF UserReturn
  <2> QED BY <1>7, <1>t, <1>o, <2>2, SafeStage DEF UserReturn, TypeOK
<1> QED BY <1>1, <1>2, <1>3, <1>4, <1>5, <1>6, <1>7

LEMMA EndWriteTypes ==
    ASSUME TypeOK, NEW c \in Conn, NEW ok \in BOOLEAN, EndWrite(c, ok)
    PROVE  /\ timer' \in TimerSet /\ ep' \in EpSet /\ retOk' \subseteq Conn
           /\ pc' \in [Conn -> PC]
<1>1. "final" \in PC
  BY DEF PC, Active
<1>2. timer' \in TimerSet
  BY StageOps, Names DEF EndWrite, TypeOK
<1>3. ep' \in EpSet
  BY StageOps, EventSets DEF EndWrite, TypeOK
<1> QED BY <1>1, <1>2, <1>3, GotoType DEF EndWrite, TypeOK

LEMMA WriteTypes ==
    ASSUME TypeOK, NEW c \in Conn,
           \/ Written(c) \/ WriteFails(c)
           \/ EndWrite(c, FALSE) /\ UNCHANGED <<sock, ops, answered>>
    PROVE  /\ timer' \in TimerSet /\ ep' \in EpSet /\ retOk' \subseteq Conn
           /\ pc' \in [Conn -> PC] /\ sock' \in SockSet
           /\ ops' \in [Conn -> Nat] /\ answered' \subseteq Conn
<1>1. CASE EndWrite(c, FALSE) /\ UNCHANGED <<sock, ops, answered>>
  BY <1>1, EndWriteTypes DEF TypeOK
<1>3. CASE WriteFails(c)
  BY <1>3, EndWriteTypes DEF WriteFails, TypeOK
<1>2. CASE Written(c)
  <2>1. CASE /\ EndWrite(c, TRUE) /\ answered' = answered \cup {c}
             /\ UNCHANGED <<sock, ops>>
    BY <2>1, EndWriteTypes DEF TypeOK
  <2>2. CASE /\ ops' = [ops EXCEPT ![c] = @ + 1]
             /\ sock' = [sock EXCEPT !.room = @ \ {Orig(c)}]
             /\ Goto(c, "send") /\ UNCHANGED <<timer, ep, retOk, answered>>
    <3>1. "send" \in PC
      BY DEF PC, Active
    <3>2. sock' \in SockSet
      BY <2>2 DEF TypeOK, SockSet
    <3> QED BY <2>2, <3>1, <3>2, GotoType DEF TypeOK
  <2> QED BY <1>2, <2>1, <2>2 DEF Written
<1> QED BY <1>1, <1>2, <1>3

LEMMA SafeWrite ==
    ASSUME Safe, NEW c \in Conn, Send(c) \/ SendResumed(c) \/ RequestFinalize(c)
    PROVE  Safe'
<1> USE DEF InRun, OnlyRun
<1>t. TypeOK
  BY DEF Safe
<1>1. CASE Send(c)
  <2>1. CASE (Written(c) \/ WriteFails(c)) /\ UNCHANGED cur
    <3>1. /\ timer' \in TimerSet /\ ep' \in EpSet /\ retOk' \subseteq Conn
          /\ pc' \in [Conn -> PC] /\ sock' \in SockSet
          /\ ops' \in [Conn -> Nat] /\ answered' \subseteq Conn
      BY <1>t, <2>1, WriteTypes
    <3> QED BY <1>1, <1>t, <2>1, <3>1, SafeStage DEF Send, TypeOK
  <2>2. CASE /\ Goto(c, "sendWait") /\ Done
             /\ UNCHANGED <<timer, ep, retOk, sock, ops, answered>>
    <3>1. "sendWait" \in PC
      BY DEF PC, Waiting
    <3>2. pc' \in [Conn -> PC]
      BY <1>t, <2>2, <3>1, GotoType
    <3>3. cur' \in [item : Item \cup {Lsn}, by : By]
      BY <2>2, NobodyType DEF Done
    <3> QED BY <1>1, <1>t, <2>2, <3>2, <3>3, SafeStage DEF Send, TypeOK
  <2> QED BY <1>1, <2>1, <2>2 DEF Send
<1>2. CASE SendResumed(c)
  <2>1. /\ timer' \in TimerSet /\ ep' \in EpSet /\ retOk' \subseteq Conn
        /\ pc' \in [Conn -> PC] /\ sock' \in SockSet
        /\ ops' \in [Conn -> Nat] /\ answered' \subseteq Conn
    BY <1>2, <1>t, WriteTypes DEF SendResumed
  <2> QED BY <1>2, <1>t, <2>1, SafeStage DEF SendResumed, TypeOK
<1>3. CASE RequestFinalize(c)
  <2>1. answered' \subseteq Conn /\ (c \in retOk) \in BOOLEAN
    BY <1>3, <1>t DEF RequestFinalize, TypeOK
  <2>2. FreeRequestConnection(c, c \in retOk)
    BY <1>3 DEF RequestFinalize
  <2> QED BY <1>3, <2>1, <2>2, FreeRequestConnectionSafe DEF RequestFinalize, Done
<1> QED BY <1>1, <1>2, <1>3

-----------------------------------------------------------------------------
(* The accept loop and the outside world.                                  *)

LEMMA SafeListen ==
    ASSUME Safe, ListenEnter \/ Limit \/ Accept PROVE Safe'
<1> USE DEF InAccept, NoAccept
<1>n. cur' \in [item : Item \cup {Lsn}, by : By]
  BY NobodyType DEF ListenEnter, Limit, Accept, Done, Safe, TypeOK
<1>c. MaxConnections \in Nat \ {0} /\ MaxAccept \in Nat \ {0}
  BY ConstantAssumption
<1>1. CASE ListenEnter
  BY <1>1, <1>n, <1>c DEF ListenEnter, Safe, TypeOK, Capacity, Accepting
<1>2. CASE Limit
  <2>1. CASE curSize < MaxConnections
    <3>1. /\ LimitQuota \in Nat /\ LimitQuota > 0
          /\ curSize + LimitQuota <= MaxConnections
      BY <2>1, <1>c DEF LimitQuota, Safe, TypeOK
    <3> QED BY <1>2, <2>1, <3>1, <1>n, <1>c DEF Limit, Safe, TypeOK, Capacity, Accepting
  <2>2. CASE ~(curSize < MaxConnections)
    <3>1. ep' \in EpSet /\ listening' \in BOOLEAN
      <4>1. /\ ep' = ModifyListening(curSize, ep, listening).ep
            /\ listening' = ModifyListening(curSize, ep, listening).listening
        BY <1>2, <2>2 DEF Limit
      <4>2. curSize \in Int /\ ep \in EpSet /\ listening \in BOOLEAN
        BY DEF Safe, TypeOK
      <4> QED BY <4>1, <4>2, ListeningTypes
    <3> QED BY <1>2, <2>2, <3>1, <1>n, <1>c DEF Limit, Safe, TypeOK, Capacity, Accepting
  <2> QED BY <2>1, <2>2
<1>3. CASE Accept
  <2>a. Accepting
    BY <1>3 DEF Accept, ListenAt, Accepting
  <2>1. CASE \E c \in Conn : backlog > 0 /\ backlog' = backlog - 1 /\ InitConnection(c)
    <3> PICK c \in Conn : backlog > 0 /\ backlog' = backlog - 1 /\ InitConnection(c)
      BY <2>1
    <3>1. sock' \in SockSet
      BY Names DEF InitConnection, Safe, TypeOK, SockSet
    <3>2. sends' \in Nat
      <4> PICK d \in SUBSET {Orig(c)} : /\ Cardinality(d) <= sends
                                         /\ sends' = sends - Cardinality(d)
        BY DEF InitConnection
      <4>1. IsFiniteSet(d)
        BY FS_Singleton, FS_Subset
      <4> QED BY <4>1, FS_CardinalityType DEF Safe, TypeOK
    <3>3. delay' \subseteq (Item \cup {Lsn}) \X Nat
      BY Names DEF InitConnection, Safe, TypeOK
    <3>4. TypeOK'
      BY <1>3, <1>n, <2>a, <3>1, <3>2, <3>3
         DEF Accept, InitConnection, AcceptNext, Safe, TypeOK, Capacity
    <3>5. Capacity'
      BY <1>3, <1>c, <2>a DEF Accept, InitConnection, AcceptNext, Safe, TypeOK, Capacity, Accepting
    <3> QED BY <3>4, <3>5 DEF Safe
  <2>2. CASE /\ backlog > 0 /\ backlog' = backlog - 1 /\ lpc' = "limit"
             /\ UNCHANGED <<quota, free, curSize, delay, sends, sock>>
    BY <1>3, <1>n, <1>c, <2>2 DEF Accept, Safe, TypeOK, Capacity, Accepting
  <2>3. CASE /\ lpc' = "acceptWait"
             /\ UNCHANGED <<quota, backlog, free, curSize, delay, sends, sock>>
    BY <1>3, <1>n, <1>c, <2>a, <2>3 DEF Accept, Safe, TypeOK, Capacity, Accepting
  <2>4. CASE /\ AcceptNext(quota - 1)
             /\ UNCHANGED <<cur, backlog, free, curSize, delay, sends, sock>>
    BY <1>3, <1>n, <1>c, <2>a, <2>4 DEF Accept, AcceptNext, Safe, TypeOK, Capacity, Accepting
  <2> QED BY <1>3, <2>1, <2>2, <2>3, <2>4 DEF Accept
<1> QED BY <1>1, <1>2, <1>3

LEMMA SafeOutside ==
    ASSUME Safe, Resumer \/ World PROVE Safe'
<1> USE DEF Outside
<1>e. ASSUME NEW i \in Item, NEW evs, Edge(i, evs) PROVE ep' \in EpSet
  BY <1>e DEF Edge, Safe, TypeOK, EpSet
<1>1. CASE Resumer
  BY <1>1, ConstantAssumption DEF Resumer, ResumeAsync, Safe, TypeOK, Capacity, Accepting
<1>2. CASE ClientConnects
  <2>1. ep' \in EpSet
    BY <1>2 DEF ClientConnects, Safe, TypeOK, EpSet
  <2> QED BY <1>2, <2>1, ConstantAssumption
          DEF ClientConnects, Safe, TypeOK, Capacity, Accepting
<1>3. CASE Stop
  BY <1>3, ConstantAssumption DEF Stop, Safe, TypeOK, Capacity, Accepting
<1>4. CASE \E i \in Item : DataArrives(i)
  <2> PICK i \in Item : DataArrives(i)
    BY <1>4
  <2>1. ep' \in EpSet
    BY <1>e DEF DataArrives
  <2>2. sock' \in SockSet
    BY DEF DataArrives, Safe, TypeOK, SockSet
  <2> QED BY <2>1, <2>2, ConstantAssumption DEF DataArrives, Safe, TypeOK, Capacity, Accepting
<1>5. CASE \E i \in Item : PeerCloses(i)
  <2> PICK i \in Item : PeerCloses(i)
    BY <1>5
  <2>1. ep' \in EpSet
    BY <1>e DEF PeerCloses
  <2>2. sock' \in SockSet
    BY DEF PeerCloses, Safe, TypeOK, SockSet
  <2> QED BY <2>1, <2>2, ConstantAssumption DEF PeerCloses, Safe, TypeOK, Capacity, Accepting
<1>6. CASE \E c \in Conn : PeerReads(c)
  <2> PICK c \in Conn : PeerReads(c)
    BY <1>6
  <2>1. ep' \in EpSet
    BY <1>e, Names DEF PeerReads
  <2>2. sock' \in SockSet
    BY Names DEF PeerReads, Safe, TypeOK, SockSet
  <2> QED BY <2>1, <2>2, ConstantAssumption DEF PeerReads, Safe, TypeOK, Capacity, Accepting
<1> QED BY <1>1, <1>2, <1>3, <1>4, <1>5, <1>6 DEF World

LEMMA SafeStutter ==
    ASSUME Safe, UNCHANGED vars PROVE Safe'
BY ConstantAssumption DEF vars, Safe, TypeOK, Capacity, Accepting

LEMMA SafeStep ==
    ASSUME Safe, [Next]_vars PROVE Safe'
<1>1. CASE Loop BY <1>1, SafeLoop
<1>2. CASE Timers BY <1>2, SafeTimers
<1>3. CASE Handler
  BY <1>3, SafeDispatch, SafeRequest, SafeUser, SafeWrite, SafeListen DEF Handler
<1>4. CASE Resumer \/ World BY <1>4, SafeOutside
<1>5. CASE UNCHANGED vars BY <1>5, SafeStutter
<1> QED BY <1>1, <1>2, <1>3, <1>4, <1>5 DEF Next

(* The types of the whole worker, in every reachable state.                *)
THEOREM TypeCorrect == Spec => []TypeOK
<1>1. Safe => TypeOK
  BY DEF Safe
<1> QED BY <1>1, SafeInit, SafeStep, PTL DEF Spec

(* CoServerControl keeps the worker within max_connections and listens     *)
(* whenever there is room, however accepts and closes interleave.          *)
THEOREM CapacityKept == Spec => []Capacity
<1>1. Safe => Capacity
  BY DEF Safe
<1> QED BY <1>1, SafeInit, SafeStep, PTL DEF Spec

-----------------------------------------------------------------------------
(* TimersMatch.  CoEvent::reset clears m_flagTimerSet and leaves the map   *)
(* alone, so the bits and the map agree only if a connection has none of   *)
(* its timers in the map when it is reset.  free_request_connection takes  *)
(* the read and the write timer back itself; the other two are gone since  *)
(* the coroutine left the call that set them.                              *)

SleepPC == {"sleepWait", "sleepWoken"}
ThirdPC == {"thirdWait", "thirdWoken"}

TimerInv ==
    /\ timer.map = timer.set
    /\ \A c \in Conn : /\ Sleep(c) \in timer.map => pc[c] \in SleepPC
                       /\ BRd(c) \in timer.map => pc[c] \in ThirdPC

LEMMA EventsDiffer ==
    \A c, d \in Conn :
        /\ Sleep(c) # Rd(d) /\ Sleep(c) # Wr(d) /\ Sleep(c) # BRd(d)
        /\ BRd(c) # Rd(d) /\ BRd(c) # Wr(d)
        /\ c # d => Sleep(c) \notin EventsOf(d) /\ BRd(c) \notin EventsOf(d)
BY DEF Sleep, BRd, Rd, Wr, EventsOf, Orig, Blk

(* add_timer and del_timer on a map that agrees with the bits.             *)
LEMMA TimerOps ==
    ASSUME NEW tm \in TimerSet, tm.map = tm.set, NEW e \in Event
    PROVE  /\ AddTimer(tm, e).map = tm.map \cup {e}
           /\ AddTimer(tm, e).set = tm.map \cup {e}
           /\ DelTimer(tm, e).map = tm.map \ {e}
           /\ DelTimer(tm, e).set = tm.map \ {e}
BY DEF AddTimer, DelTimer, TimerSet

(* The coroutine of c moves to p with its own timers only changed.         *)
LEMMA TimerFrame ==
    ASSUME TypeOK, TimerInv, NEW c \in Conn, NEW p, Goto(c, p),
           timer'.map = timer'.set, timer'.map \subseteq timer.map \cup EventsOf(c),
           Sleep(c) \in timer'.map => p \in SleepPC,
           BRd(c) \in timer'.map => p \in ThirdPC
    PROVE  TimerInv'
<1>1. \A d \in Conn \ {c} : pc'[d] = pc[d]
  BY DEF Goto, TypeOK
<1>2. pc'[c] = p
  BY DEF Goto, TypeOK
<1>3. \A d \in Conn \ {c} : /\ Sleep(d) \in timer'.map => Sleep(d) \in timer.map
                            /\ BRd(d) \in timer'.map => BRd(d) \in timer.map
  BY EventsDiffer
<1>4. ASSUME NEW d \in Conn
      PROVE  /\ Sleep(d) \in timer'.map => pc'[d] \in SleepPC
             /\ BRd(d) \in timer'.map => pc'[d] \in ThirdPC
  <2>1. CASE d = c BY <2>1, <1>2
  <2>2. CASE d # c BY <2>2, <1>1, <1>3 DEF TimerInv, TypeOK
  <2> QED BY <2>1, <2>2
<1>5. \A d \in Conn : Sleep(d)' = Sleep(d) /\ BRd(d)' = BRd(d)
  BY DEF Sleep, BRd, Orig, Blk
<1> QED BY <1>4, <1>5 DEF TimerInv

(* The same for a coroutine that is in neither call before and after.      *)
LEMMA TimerFrameOther ==
    ASSUME TypeOK, TimerInv, NEW c \in Conn, NEW p, Goto(c, p),
           pc[c] \notin SleepPC \cup ThirdPC,
           timer'.map = timer'.set,
           timer'.map \subseteq timer.map \cup {Rd(c), Wr(c)}
    PROVE  TimerInv'
<1>0. Sleep(c) \notin timer.map /\ BRd(c) \notin timer.map
  BY DEF TimerInv, TypeOK
<1>1. Sleep(c) \notin timer'.map /\ BRd(c) \notin timer'.map
  BY <1>0, EventsDiffer
<1>2. timer'.map \subseteq timer.map \cup EventsOf(c)
  BY DEF EventsOf
<1> QED BY <1>1, <1>2, TimerFrame

(* Steps that change neither a timer nor where a coroutine stands.         *)
LEMMA TimerSame ==
    ASSUME TimerInv, UNCHANGED <<timer, pc>> PROVE TimerInv'
<1>1. \A d \in Conn : Sleep(d)' = Sleep(d) /\ BRd(d)' = BRd(d)
  BY DEF Sleep, BRd, Orig, Blk
<1> QED BY <1>1 DEF TimerInv

LEMMA TimerLoop ==
    ASSUME TypeOK, TimerInv, Loop \/ Timers PROVE TimerInv'
<1>1. CASE Loop
  <2>1. UNCHANGED <<timer, pc>>
    BY <1>1 DEF Loop, LoopOnly, Start, StartWait, CloseAllConnections, EpollWait, StaleEvent,
         ReadEvent, WriteEvent, EventsDone, DelayDone, LoopAgain, LoopEnd, LookAtTimers,
         TimersDone, NextPhase, TakeDelay, TakeResume
  <2> QED BY <2>1, TimerSame
<1>2. CASE Timers
  <2> PICK t \in timer.map : ProcessTimer(t)
    BY <1>2 DEF Timers
  <2>1. timer'.map = timer.map \ {t} /\ timer'.set = timer.set \ {t} /\ pc' = pc
    BY DEF ProcessTimer, LoopOnly
  <2>2. \A d \in Conn : Sleep(d)' = Sleep(d) /\ BRd(d)' = BRd(d)
    BY DEF Sleep, BRd, Orig, Blk
  <2> QED BY <2>1, <2>2 DEF TimerInv, TypeOK
<1> QED BY <1>1, <1>2

(* free_request_connection resets a connection without timers.             *)
LEMMA TimerFree ==
    ASSUME TypeOK, TimerInv, NEW c \in Conn, NEW ok \in BOOLEAN,
           FreeRequestConnection(c, ok), pc[c] \notin SleepPC \cup ThirdPC
    PROVE  TimerInv'
<1> DEFINE tm == DelTimer(DelTimer(timer, Wr(c)), Rd(c))
<1>1. /\ tm \in TimerSet
      /\ tm.map = timer.map \ {Rd(c), Wr(c)} /\ tm.set = timer.map \ {Rd(c), Wr(c)}
  <2>1. DelTimer(timer, Wr(c)) \in TimerSet
    BY Names, TimerTypes DEF TypeOK
  <2>2. /\ DelTimer(timer, Wr(c)).map = timer.map \ {Wr(c)}
        /\ DelTimer(timer, Wr(c)).set = timer.map \ {Wr(c)}
    BY Names, TimerOps DEF TypeOK, TimerInv
  <2>3. \A u \in TimerSet : u.map = u.set =>
           /\ DelTimer(u, Rd(c)) \in TimerSet
           /\ DelTimer(u, Rd(c)).map = u.map \ {Rd(c)}
           /\ DelTimer(u, Rd(c)).set = u.map \ {Rd(c)}
    BY Names, TimerOps, TimerTypes
  <2> QED BY <2>1, <2>2, <2>3
<1>2. tm.map \cap EventsOf(c) = {}
  BY <1>1 DEF TimerInv, EventsOf, TypeOK
<1> HIDE DEF tm
<1>3. /\ ResetEvents(tm, c) \in TimerSet
      /\ ResetEvents(tm, c).map = tm.map /\ ResetEvents(tm, c).set = tm.map
  BY <1>1, <1>2, TimerTypes, Names DEF ResetEvents, TimerSet
<1>4. CASE ok
  <2>1. timer' = AddTimer(ResetEvents(tm, c), Rd(c)) /\ Goto(c, "idle")
    BY <1>4 DEF FreeRequestConnection, KeepAlive, tm, Goto
  <2>2. timer'.map = tm.map \cup {Rd(c)} /\ timer'.set = tm.map \cup {Rd(c)}
    BY <1>3, <2>1, TimerOps, Names
  <2> QED BY <1>1, <2>1, <2>2, TimerFrameOther
<1>5. CASE ~ok
  <2>1. timer' = ResetEvents(tm, c) /\ Goto(c, "idle")
    BY <1>5 DEF FreeRequestConnection, CloseConnection, tm, Goto
  <2> QED BY <1>1, <1>3, <2>1, TimerFrameOther
<1> QED BY <1>4, <1>5

LEMMA TimerDispatch ==
    ASSUME TypeOK, TimerInv, NEW i \in Item,
           WaitThirdFunc(i) \/ Enter(i) \/ FreeIdleConnection(i)
    PROVE  TimerInv'
<1>c. i[1] \in Conn
  BY DEF Item
<1>1. CASE WaitThirdFunc(i)
  BY <1>1, TimerSame DEF WaitThirdFunc
<1>2. CASE Enter(i)
  <2>1. Goto(i[1], Wake(pc[i[1]])) /\ UNCHANGED timer /\ pc[i[1]] \notin Active
    BY <1>2 DEF Enter, Entering
  <2>2. pc[i[1]] \in PC
    BY <1>c DEF TypeOK
  <2>3. /\ pc[i[1]] \in SleepPC => Wake(pc[i[1]]) \in SleepPC
        /\ pc[i[1]] \in ThirdPC => Wake(pc[i[1]]) \in ThirdPC
    BY <2>1, <2>2 DEF PC, Active, Woken, Waiting, SleepPC, ThirdPC, Wake
  <2>4. /\ Sleep(i[1]) \in timer.map => Wake(pc[i[1]]) \in SleepPC
        /\ BRd(i[1]) \in timer.map => Wake(pc[i[1]]) \in ThirdPC
    BY <1>c, <2>3 DEF TimerInv
  <2>5. timer'.map = timer'.set
    BY <2>1 DEF TimerInv
  <2> QED BY <1>c, <2>1, <2>4, <2>5, TimerFrame
<1>3. CASE FreeIdleConnection(i)
  <2>1. FreeRequestConnection(i[1], FALSE) /\ pc[i[1]] = "idle"
    BY <1>3 DEF FreeIdleConnection
  <2>2. pc[i[1]] \notin SleepPC \cup ThirdPC
    BY <2>1 DEF SleepPC, ThirdPC
  <2> QED BY <1>c, <2>1, <2>2, TimerFree
<1> QED BY <1>1, <1>2, <1>3

(* What the stages do to the timers of their connection.                   *)
LEMMA TimerStageOps ==
    ASSUME TypeOK, TimerInv, NEW c \in Conn
    PROVE  /\ StopReading(c).map = timer.map \ {Rd(c)}
           /\ StopReading(c).set = timer.map \ {Rd(c)}
           /\ \A e \in EventsOf(c) :
                 /\ AddTimer(timer, e).map = timer.map \cup {e}
                 /\ AddTimer(timer, e).set = timer.map \cup {e}
                 /\ DelTimer(timer, e).map = timer.map \ {e}
                 /\ DelTimer(timer, e).set = timer.map \ {e}
           /\ StopReading(c) \in TimerSet /\ timer \in TimerSet
<1>1. timer \in TimerSet /\ timer.map = timer.set
  BY DEF TypeOK, TimerInv
<1>2. Rd(c) \in Event /\ Wr(c) \in Event /\ EventsOf(c) \subseteq Event
  BY Names DEF EventsOf
<1>3. StopReading(c) \in TimerSet
  BY StageOps
<1>4. \A e \in EventsOf(c) :
         /\ AddTimer(timer, e).map = timer.map \cup {e}
         /\ AddTimer(timer, e).set = timer.map \cup {e}
         /\ DelTimer(timer, e).map = timer.map \ {e}
         /\ DelTimer(timer, e).set = timer.map \ {e}
  BY <1>1, <1>2, TimerOps
<1>5. /\ StopReading(c).map = timer.map \ {Rd(c)}
      /\ StopReading(c).set = timer.map \ {Rd(c)}
  BY <1>1, <1>2, TimerOps DEF StopReading
<1> QED BY <1>1, <1>3, <1>4, <1>5

(* The read timer is replaced by another of the same connection.           *)
LEMMA TimerSwap ==
    ASSUME TypeOK, TimerInv, NEW c \in Conn, NEW e \in {Rd(c), Wr(c)},
           timer' = AddTimer(StopReading(c), e)
    PROVE  timer'.map = timer'.set /\ timer'.map \subseteq timer.map \cup {Rd(c), Wr(c)}
<1> DEFINE tm == StopReading(c)
<1>1. tm \in TimerSet /\ tm.map = timer.map \ {Rd(c)} /\ tm.set = timer.map \ {Rd(c)}
  BY TimerStageOps
<1>2. e \in Event
  BY Names
<1> HIDE DEF tm
<1>3. AddTimer(tm, e).map = tm.map \cup {e} /\ AddTimer(tm, e).set = tm.map \cup {e}
  BY <1>1, <1>2, TimerOps
<1> QED BY <1>1, <1>3 DEF tm

LEMMA TimerRequestWrite ==
    ASSUME TypeOK, TimerInv, NEW c \in Conn, pc[c] \notin SleepPC \cup ThirdPC,
           NEW e, NEW ok, RequestWrite(c, StopReading(c), e, ok)
    PROVE  TimerInv'
<1>1. timer' = AddTimer(StopReading(c), Wr(c)) /\ Goto(c, "send")
  BY DEF RequestWrite
<1>2. timer'.map = timer'.set /\ timer'.map \subseteq timer.map \cup {Rd(c), Wr(c)}
  BY <1>1, TimerSwap
<1> QED BY <1>1, <1>2, TimerFrameOther

LEMMA TimerDecode ==
    ASSUME TypeOK, TimerInv, NEW c \in Conn, pc[c] \notin SleepPC \cup ThirdPC,
           Decode(c) \/ FailRead(c)
    PROVE  TimerInv'
<1>1. CASE RequestProcess(c)
  <2>1. timer' = AddTimer(StopReading(c), Rd(c)) /\ Goto(c, "user")
    BY <1>1 DEF RequestProcess
  <2>2. timer'.map = timer'.set /\ timer'.map \subseteq timer.map \cup {Rd(c), Wr(c)}
    BY <2>1, TimerSwap
  <2> QED BY <2>1, <2>2, TimerFrameOther
<1>2. CASE Goto(c, "recv") /\ UNCHANGED <<timer, ep, retOk>>
  <2>1. timer'.map = timer'.set /\ timer'.map \subseteq timer.map \cup {Rd(c), Wr(c)}
    BY <1>2 DEF TimerInv
  <2> QED BY <1>2, <2>1, TimerFrameOther
<1>3. CASE FailRead(c)
  BY <1>3, TimerRequestWrite DEF FailRead
<1> QED BY <1>1, <1>2, <1>3 DEF Decode

LEMMA TimerRequest ==
    ASSUME TypeOK, TimerInv, NEW c \in Conn, RequestInit(c) \/ Recv(c) \/ RecvResumed(c)
    PROVE  TimerInv'
<1>0. pc[c] \notin SleepPC \cup ThirdPC
  BY DEF RequestInit, Recv, RecvResumed, At, SleepPC, ThirdPC
<1>1. CASE RequestInit(c)
  <2>1. timer' = AddTimer(StopReading(c), Rd(c)) /\ Goto(c, "recv")
    BY <1>1 DEF RequestInit, StopReading
  <2>2. timer'.map = timer'.set /\ timer'.map \subseteq timer.map \cup {Rd(c), Wr(c)}
    BY <2>1, TimerSwap
  <2> QED BY <1>0, <2>1, <2>2, TimerFrameOther
<1>2. CASE Recv(c)
  <2>1. CASE Decode(c) \/ RecvFails(c)
    BY <1>0, <2>1, TimerDecode DEF RecvFails
  <2>2. CASE Goto(c, "recvWait") /\ UNCHANGED <<timer, ep, retOk, sock>>
    <3>1. timer'.map = timer'.set /\ timer'.map \subseteq timer.map \cup {Rd(c), Wr(c)}
      BY <2>2 DEF TimerInv
    <3> QED BY <1>0, <2>2, <3>1, TimerFrameOther
  <2> QED BY <1>2, <2>1, <2>2 DEF Recv
<1>3. CASE RecvResumed(c)
  BY <1>0, <1>3, TimerDecode DEF RecvResumed, RecvFails
<1> QED BY <1>1, <1>2, <1>3

LEMMA TimerUser ==
    ASSUME TypeOK, TimerInv, NEW c \in Conn,
           \/ UserSleep(c) \/ SleepResumed(c) \/ UserThirdSocket(c) \/ ThirdResumed(c)
           \/ UserYield(c) \/ YieldResumed(c) \/ UserReturn(c)
    PROVE  TimerInv'
<1>0. Sleep(c) # BRd(c) /\ {Sleep(c), BRd(c)} \subseteq EventsOf(c)
  BY EventsDiffer DEF EventsOf
<1>1. CASE UserSleep(c)
  <2>1. timer' = AddTimer(timer, Sleep(c)) /\ Goto(c, "sleepWait") /\ pc[c] = "user"
    BY <1>1 DEF UserSleep, Blocks, At
  <2>2. timer'.map = timer.map \cup {Sleep(c)} /\ timer'.set = timer.map \cup {Sleep(c)}
    BY <1>0, <2>1, TimerStageOps
  <2>3. BRd(c) \notin timer'.map
    BY <1>0, <2>1, <2>2 DEF TimerInv, ThirdPC
  <2> QED BY <1>0, <2>1, <2>2, <2>3, TimerFrame DEF SleepPC
<1>2. CASE SleepResumed(c)
  <2>1. timer' = DelTimer(timer, Sleep(c)) /\ Goto(c, "user") /\ pc[c] = "sleepWoken"
    BY <1>2 DEF SleepResumed, At
  <2>2. timer'.map = timer.map \ {Sleep(c)} /\ timer'.set = timer.map \ {Sleep(c)}
    BY <1>0, <2>1, TimerStageOps
  <2>3. BRd(c) \notin timer'.map
    BY <2>1, <2>2 DEF TimerInv, ThirdPC
  <2> QED BY <2>1, <2>2, <2>3, TimerFrame
<1>3. CASE UserThirdSocket(c)
  <2>1. timer' = AddTimer(timer, BRd(c)) /\ Goto(c, "thirdWait") /\ pc[c] = "user"
    BY <1>3 DEF UserThirdSocket, Blocks, At
  <2>2. timer'.map = timer.map \cup {BRd(c)} /\ timer'.set = timer.map \cup {BRd(c)}
    BY <1>0, <2>1, TimerStageOps
  <2>3. Sleep(c) \notin timer'.map
    BY <1>0, <2>1, <2>2 DEF TimerInv, SleepPC
  <2> QED BY <1>0, <2>1, <2>2, <2>3, TimerFrame DEF ThirdPC
<1>4. CASE ThirdResumed(c)
  <2>1. timer' = DelTimer(timer, BRd(c)) /\ Goto(c, "user") /\ pc[c] = "thirdWoken"
    BY <1>4 DEF ThirdResumed, At
  <2>2. timer'.map = timer.map \ {BRd(c)} /\ timer'.set = timer.map \ {BRd(c)}
    BY <1>0, <2>1, TimerStageOps
  <2>3. Sleep(c) \notin timer'.map
    BY <2>1, <2>2 DEF TimerInv, SleepPC
  <2> QED BY <2>1, <2>2, <2>3, TimerFrame
<1>5. CASE UserYield(c) \/ YieldResumed(c)
  <2>1. /\ timer' = timer /\ (Goto(c, "yieldWait") \/ Goto(c, "user"))
        /\ pc[c] \in {"user", "yieldWoken"}
    BY <1>5 DEF UserYield, YieldResumed, Blocks, At
  <2>2. timer'.map = timer'.set /\ timer'.map \subseteq timer.map \cup {Rd(c), Wr(c)}
    BY <2>1 DEF TimerInv
  <2>3. pc[c] \notin SleepPC \cup ThirdPC
    BY <2>1 DEF SleepPC, ThirdPC
  <2> QED BY <2>1, <2>2, <2>3, TimerFrameOther
<1>6. CASE UserReturn(c)
  <2>1. pc[c] \notin SleepPC \cup ThirdPC
    BY <1>6 DEF UserReturn, At, SleepPC, ThirdPC
  <2>2. \E ok \in BOOLEAN : RequestWrite(c, StopReading(c), ep, ok)
    BY <1>6 DEF UserReturn, StopReading
  <2> QED BY <2>1, <2>2, TimerRequestWrite
<1> QED BY <1>1, <1>2, <1>3, <1>4, <1>5, <1>6

LEMMA TimerWrite ==
    ASSUME TypeOK, TimerInv, NEW c \in Conn, Send(c) \/ SendResumed(c) \/ RequestFinalize(c)
    PROVE  TimerInv'
<1>0. pc[c] \notin SleepPC \cup ThirdPC
  BY DEF Send, SendResumed, RequestFinalize, At, SleepPC, ThirdPC
<1>e. ASSUME NEW ok, EndWrite(c, ok) PROVE TimerInv'
  <2>1. timer' = DelTimer(timer, Wr(c)) /\ Goto(c, "final") /\ Wr(c) \in EventsOf(c)
    BY <1>e DEF EndWrite, EventsOf
  <2>2. timer'.map = timer'.set /\ timer'.map \subseteq timer.map \cup {Rd(c), Wr(c)}
    BY <2>1, TimerStageOps
  <2> QED BY <1>0, <2>1, <2>2, TimerFrameOther
<1>m. ASSUME NEW p, Goto(c, p), UNCHANGED timer PROVE TimerInv'
  <2>1. timer'.map = timer'.set /\ timer'.map \subseteq timer.map \cup {Rd(c), Wr(c)}
    BY <1>m DEF TimerInv
  <2> QED BY <1>0, <1>m, <2>1, TimerFrameOther
<1>w. ASSUME Written(c) \/ WriteFails(c) PROVE TimerInv'
  BY <1>e, <1>m, <1>w DEF Written, WriteFails
<1>1. CASE Send(c) BY <1>1, <1>w, <1>m DEF Send
<1>2. CASE SendResumed(c) BY <1>2, <1>w, <1>e DEF SendResumed
<1>3. CASE RequestFinalize(c)
  <2>1. FreeRequestConnection(c, c \in retOk) /\ (c \in retOk) \in BOOLEAN
    BY <1>3 DEF RequestFinalize
  <2> QED BY <1>0, <2>1, TimerFree
<1> QED BY <1>1, <1>2, <1>3

LEMMA TimerStep ==
    ASSUME TypeOK, TimerInv, [Next]_vars PROVE TimerInv'
<1>1. CASE Loop \/ Timers BY <1>1, TimerLoop
<1>2. CASE Handler
  <2>1. CASE ListenEnter \/ Limit \/ Accept
    BY <2>1, TimerSame DEF ListenEnter, Limit, Accept, InAccept
  <2> QED BY <1>2, <2>1, TimerDispatch, TimerRequest, TimerUser, TimerWrite DEF Handler
<1>3. CASE Resumer \/ World
  <2>1. UNCHANGED <<timer, pc>>
    BY <1>3 DEF Resumer, World, ResumeAsync, ClientConnects, Stop, DataArrives, PeerCloses,
                PeerReads, Outside
  <2> QED BY <2>1, TimerSame
<1>4. CASE UNCHANGED vars
  <2>1. UNCHANGED <<timer, pc>>
    BY <1>4 DEF vars
  <2> QED BY <2>1, TimerSame
<1> QED BY <1>1, <1>2, <1>3, <1>4 DEF Next

(* The timer map and the m_flagTimerSet bits always agree, so no timer of  *)
(* an earlier use of a connection is left to fire on a later one.          *)
THEOREM TimersAlwaysMatch == Spec => []TimersMatch
<1>1. Init => TimerInv
  BY DEF Init, TimerInv
<1>2. TypeOK /\ TimerInv /\ [Next]_vars => TimerInv'
  BY TimerStep
<1>3. TimerInv => TimersMatch
  BY DEF TimerInv, TimersMatch
<1> QED BY <1>1, <1>2, <1>3, TypeCorrect, PTL DEF Spec

-----------------------------------------------------------------------------
(* What each step does to one connection, stated once for the invariants   *)
(* that follow and those of the modules that extend this one.              *)
-----------------------------------------------------------------------------
(* Names.                                                                  *)

(* The items and the events of two connections have nothing in common.     *)
LEMMA Apart ==
    ASSUME NEW c \in Conn
    PROVE  /\ Orig(c) # Blk(c) /\ Owned(c) = {Orig(c), Blk(c)}
           /\ EventsOf(c) = {Rd(c), Wr(c), Sleep(c), BRd(c)}
           /\ Rd(c) # Wr(c) /\ Rd(c) # Sleep(c) /\ Rd(c) # BRd(c)
           /\ Wr(c) # Sleep(c) /\ Wr(c) # BRd(c) /\ Sleep(c) # BRd(c)
           /\ \A d \in Conn \ {c} :
                 /\ Orig(d) # Orig(c) /\ Orig(d) # Blk(c)
                 /\ Blk(d) # Orig(c) /\ Blk(d) # Blk(c)
                 /\ Rd(d) \notin EventsOf(c) /\ Wr(d) \notin EventsOf(c)
                 /\ Sleep(d) \notin EventsOf(c) /\ BRd(d) \notin EventsOf(c)
<1>1. Orig(c) # Blk(c) /\ Owned(c) = {Orig(c), Blk(c)}
  BY DEF Orig, Blk, Owned
<1>2. /\ EventsOf(c) = {Rd(c), Wr(c), Sleep(c), BRd(c)}
      /\ Rd(c) # Wr(c) /\ Rd(c) # Sleep(c) /\ Rd(c) # BRd(c)
      /\ Wr(c) # Sleep(c) /\ Wr(c) # BRd(c) /\ Sleep(c) # BRd(c)
  BY DEF Orig, Blk, Rd, Wr, Sleep, BRd, EventsOf
<1>3. ASSUME NEW d \in Conn \ {c}
      PROVE  /\ Orig(d) # Orig(c) /\ Orig(d) # Blk(c)
             /\ Blk(d) # Orig(c) /\ Blk(d) # Blk(c)
             /\ Rd(d) \notin EventsOf(c) /\ Wr(d) \notin EventsOf(c)
             /\ Sleep(d) \notin EventsOf(c) /\ BRd(d) \notin EventsOf(c)
  BY DEF Orig, Blk, Rd, Wr, Sleep, BRd, EventsOf
<1> QED BY <1>1, <1>2, <1>3

(* The listening socket is no item of a connection.                        *)
LEMMA ListenApart == /\ Lsn \notin Item /\ Nobody.item = Lsn /\ Nobody.by = "none"
                     /\ \A c \in Conn : Lsn \notin Owned(c)
BY ConstantAssumption DEF Lsn, Item, Nobody, Owned, Orig, Blk

(* Every item is the socket or the block connection of one connection.     *)
LEMMA Items ==
    ASSUME NEW i \in Item
    PROVE  i[1] \in Conn /\ (i = Orig(i[1]) \/ i = Blk(i[1])) /\ i \in Owned(i[1])
BY DEF Item, Orig, Blk, Owned

LEMMA Rigid ==
    ASSUME NEW c \in Conn
    PROVE  /\ Orig(c)' = Orig(c) /\ Blk(c)' = Blk(c) /\ Owned(c)' = Owned(c)
           /\ Rd(c)' = Rd(c) /\ Wr(c)' = Wr(c) /\ Sleep(c)' = Sleep(c)
           /\ BRd(c)' = BRd(c) /\ EventsOf(c)' = EventsOf(c)
BY DEF Orig, Blk, Owned, Rd, Wr, Sleep, BRd, EventsOf

-----------------------------------------------------------------------------
(* CoEpoll::modify_connection on the entry of i, whether or not it needed  *)
(* an epoll_ctl: f differs from e at i only, where it holds evs and v.     *)
EpollFrame(e, f, i) ==
    \A j \in Item \ {i} : /\ f.ev[j] = e.ev[j] /\ f.ver[j] = e.ver[j]
                          /\ j \in f.armed <=> j \in e.armed
Changed(e, f, i, evs, v) == f.ev[i] = evs /\ f.ver[i] = v /\ EpollFrame(e, f, i)

LEMMA EpollOps ==
    ASSUME NEW e \in EpSet, NEW i \in Item, NEW evs \in SUBSET Ev, NEW v \in Nat
    PROVE  /\ Changed(e, AddEvents(e, i, evs, v), i, e.ev[i] \cup evs, v)
           /\ Changed(e, DelEvents(e, i, evs, v), i, e.ev[i] \ evs, v)
           /\ DelConnection(e, i).ev[i] = {} /\ EpollFrame(e, DelConnection(e, i), i)
<1>1. ASSUME NEW s \in SUBSET Ev, NEW w \in Nat
      PROVE  Changed(e, Register(e, i, s, w), i, s, w)
  BY DEF Register, EpSet, Changed, EpollFrame
<1>2. ASSUME NEW s \in SUBSET Ev
      PROVE  Changed(e, Modify(e, i, s, v), i, s, v)
  BY <1>1 DEF Modify, Changed, EpollFrame
<1>3. e.ev[i] \cup evs \in SUBSET Ev /\ e.ev[i] \ evs \in SUBSET Ev /\ {} \in SUBSET Ev
      /\ 0 \in Nat
  BY DEF EpSet
<1>4. DelConnection(e, i).ev[i] = {} /\ EpollFrame(e, DelConnection(e, i), i)
  BY <1>1, <1>3 DEF DelConnection, Changed, EpollFrame
<1> QED BY <1>2, <1>3, <1>4 DEF AddEvents, DelEvents

-----------------------------------------------------------------------------
(* A step leaves connection d alone: its request, what epoll and the timer *)
(* map hold of it, its flags and its sockets.                              *)
SameCall(d)  == /\ pc'[d] = pc[d] /\ version'[d] = version[d]
                /\ d \in free' <=> d \in free
                /\ d \in retOk' <=> d \in retOk
                /\ d \in answered' <=> d \in answered
SameWatch(i)  == ep'.ev[i] = ep.ev[i] /\ ep'.ver[i] = ep.ver[i]
SameEpoll(i)  == SameWatch(i) /\ (i \in ep'.armed <=> i \in ep.armed)
SameMarks(i)  == /\ i \in flags'.timedOut <=> i \in flags.timedOut
                 /\ i \in flags'.pendingEof <=> i \in flags.pendingEof
                 /\ i \in flags'.dying <=> i \in flags.dying
SameSocket(i) == /\ i \in sock'.data <=> i \in sock.data
                 /\ i \in sock'.eof <=> i \in sock.eof
                 /\ i \in sock'.room <=> i \in sock.room
SameItem(i)   == SameEpoll(i) /\ SameMarks(i) /\ SameSocket(i)
SameBlocking(d) == /\ d \in flags'.third <=> d \in flags.third
                   /\ d \in flags'.useBlock <=> d \in flags.useBlock
SameTimers(d) == /\ Rd(d) \in timer'.map <=> Rd(d) \in timer.map
                 /\ Wr(d) \in timer'.map <=> Wr(d) \in timer.map
                 /\ Sleep(d) \in timer'.map <=> Sleep(d) \in timer.map
                 /\ BRd(d) \in timer'.map <=> BRd(d) \in timer.map
SameOf(d) == /\ SameCall(d) /\ SameItem(Orig(d)) /\ SameItem(Blk(d))
             /\ SameBlocking(d) /\ SameTimers(d)

(* A step that touches the items and events of c only.                     *)
LEMMA OthersSame ==
    ASSUME NEW c \in Conn,
           \A d \in Conn \ {c} : SameCall(d) /\ SameBlocking(d),
           \A i \in Item \ Owned(c) : SameItem(i),
           \A t \in Event \ EventsOf(c) : t \in timer'.map <=> t \in timer.map
    PROVE  \A d \in Conn \ {c} : SameOf(d)
<1> TAKE d \in Conn \ {c}
<1>1. /\ Orig(d) \in Item \ Owned(c) /\ Blk(d) \in Item \ Owned(c)
      /\ {Rd(d), Wr(d), Sleep(d), BRd(d)} \subseteq Event \ EventsOf(c)
  BY Apart, Names
<1> QED BY <1>1 DEF SameOf, SameTimers

-----------------------------------------------------------------------------
(* A stretch of handler code of c, from program state p in ps to q: the    *)
(* loop, its queues, the pool and every other connection stay as they are. *)
Stage(c, ps, q) ==
    /\ pc[c] \in ps /\ pc'[c] = q
    /\ ~WorkerFree /\ cur.item \in Owned(c)
    /\ UNCHANGED <<phase, batch, delay, resumes, free, version, backlog, control>>
    /\ \A d \in Conn \ {c} : SameOf(d)
Timed(off, on) == timer'.map = (timer.map \ off) \cup on
Watched(c, evs) == /\ ep'.ev[Orig(c)] = evs /\ ep'.ver[Orig(c)] = version[c]
                   /\ SameEpoll(Blk(c))
FlagsAre(timedOut, pendingEof, dying, third, useBlock) ==
    /\ flags'.timedOut = timedOut /\ flags'.pendingEof = pendingEof
    /\ flags'.dying = dying /\ flags'.third = third /\ flags'.useBlock = useBlock
BlockingIs(third, useBlock) ==
    FlagsAre(flags.timedOut, flags.pendingEof, flags.dying, third, useBlock)
DyingIs(dying) ==
    FlagsAre(flags.timedOut, flags.pendingEof, dying, flags.third, flags.useBlock)
Drained(c) == sock' = [sock EXCEPT !.data = @ \ {Orig(c)}]

(* What a stage of a request does, one row for each outcome.               *)
Begins(c) ==
    /\ Stage(c, {"init"}, "recv") /\ Timed({}, {Rd(c)})
    /\ Watched(c, ep.ev[Orig(c)] \cup READ)
    /\ retOk' = retOk \ {c} /\ UNCHANGED <<cur, tokens, flags, sock, answered>>
Reads(c) ==
    /\ Stage(c, {"recv", "recvWoken"}, "user") /\ Timed({}, {Rd(c)})
    /\ Watched(c, ep.ev[Orig(c)] \ {"in"}) /\ Drained(c)
    /\ UNCHANGED <<cur, tokens, flags, retOk, answered>>
ReadsMore(c) ==
    /\ Stage(c, {"recv", "recvWoken"}, "recv") /\ ~Dying(c) /\ Drained(c)
    /\ UNCHANGED <<cur, tokens, timer, ep, flags, retOk, answered>>
ReadFails(c) ==
    /\ Stage(c, {"recv", "recvWoken"}, "send") /\ Timed({Rd(c)}, {Wr(c)})
    /\ Watched(c, (ep.ev[Orig(c)] \ {"in"}) \cup {"out"})
    /\ UNCHANGED sock \/ Drained(c)
    /\ retOk' = retOk \ {c} /\ UNCHANGED <<cur, tokens, flags, answered>>
ReadWaits(c) ==
    /\ Stage(c, {"recv"}, "recvWait") /\ ~Dying(c) /\ NothingToRecv(c)
    /\ cur' = Nobody
    /\ UNCHANGED <<tokens, timer, ep, flags, sock, retOk, answered>>

(* The calls of the user's handler and their ends.                         *)
Handles(c) == UNCHANGED <<sock, retOk, answered>>
Sleeps(c) ==
    /\ Stage(c, {"user"}, "sleepWait") /\ Timed({}, {Sleep(c)}) /\ Handles(c)
    /\ BlockingIs(flags.third \cup {c}, flags.useBlock)
    /\ cur' = Nobody /\ UNCHANGED <<tokens, ep>>
SleepEnds(c) ==
    /\ Stage(c, {"sleepWoken"}, "user") /\ Timed({Sleep(c)}, {}) /\ Handles(c)
    /\ BlockingIs(flags.third \ {c}, flags.useBlock)
    /\ UNCHANGED <<cur, tokens, ep>>
ThirdWaits(c) ==
    /\ Stage(c, {"user"}, "thirdWait") /\ Timed({}, {BRd(c)}) /\ Handles(c)
    /\ BlockingIs(flags.third, flags.useBlock \cup {c})
    /\ ep'.ev[Blk(c)] = ep.ev[Blk(c)] \cup READ /\ ep'.ver[Blk(c)] = 0
    /\ SameEpoll(Orig(c))
    /\ cur' = Nobody /\ UNCHANGED tokens
ThirdEnds(c) ==
    /\ Stage(c, {"thirdWoken"}, "user") /\ Timed({BRd(c)}, {})
    /\ FlagsAre(flags.timedOut \ {Blk(c)}, flags.pendingEof \ {Blk(c)},
                flags.dying \ {Blk(c)}, flags.third, flags.useBlock \ {c})
    /\ ep'.ev[Blk(c)] = ep.ev[Blk(c)] \ READ /\ ep'.ver[Blk(c)] = 0
    /\ SameEpoll(Orig(c))
    /\ sock' = [sock EXCEPT !.data = @ \ {Blk(c)}, !.eof = @ \ {Blk(c)}]
    /\ UNCHANGED <<cur, tokens, retOk, answered>>
Yields(c) ==
    /\ Stage(c, {"user"}, "yieldWait") /\ Handles(c)
    /\ tokens' = tokens \cup {<<c, version[c]>>}
    /\ cur' = Nobody /\ UNCHANGED <<timer, ep, flags>>
YieldEnds(c) ==
    /\ Stage(c, {"yieldWoken"}, "user") /\ Handles(c)
    /\ UNCHANGED <<cur, tokens, timer, ep, flags>>
Returns(c) ==
    /\ Stage(c, {"user"}, "send") /\ Timed({Rd(c)}, {Wr(c)})
    /\ Watched(c, ep.ev[Orig(c)] \cup {"out"})
    /\ retOk' \in {retOk \cup {c}, retOk \ {c}}
    /\ UNCHANGED <<cur, tokens, flags, sock, answered>>

(* The loop of request_write.                                              *)
WriteEnds(c) ==
    /\ Stage(c, {"send", "sendWoken"}, "final") /\ Timed({Wr(c)}, {})
    /\ Watched(c, ep.ev[Orig(c)] \ {"out"})
    /\ \/ retOk' = retOk /\ answered' = answered \cup {c}
       \/ retOk' = retOk \ {c} /\ answered' = answered
    /\ UNCHANGED <<cur, tokens, flags, sock>>
WritesPart(c) ==
    /\ Stage(c, {"send", "sendWoken"}, "send") /\ ~Dying(c)
    /\ sock' = [sock EXCEPT !.room = @ \ {Orig(c)}]
    /\ UNCHANGED <<cur, tokens, timer, ep, flags, retOk, answered>>
WriteWaits(c) ==
    /\ Stage(c, {"send"}, "sendWait") /\ ~Dying(c) /\ Orig(c) \notin sock.room
    /\ cur' = Nobody
    /\ UNCHANGED <<tokens, timer, ep, flags, sock, retOk, answered>>

-----------------------------------------------------------------------------
(* Every stage of the code is one of the rows.                             *)
LEMMA StageFrame ==
    ASSUME TypeOK, NEW c \in Conn, NEW q, Goto(c, q),
           UNCHANGED <<free, version>>,
           \A d \in Conn \ {c} : SameBlocking(d),
           \A d \in Conn \ {c} : (d \in retOk' <=> d \in retOk)
                                 /\ (d \in answered' <=> d \in answered),
           \A i \in Item \ Owned(c) : SameItem(i),
           \A t \in Event \ EventsOf(c) : t \in timer'.map <=> t \in timer.map
    PROVE  pc'[c] = q /\ \A d \in Conn \ {c} : SameOf(d)
<1>1. pc'[c] = q /\ \A d \in Conn \ {c} : pc'[d] = pc[d]
  BY DEF Goto, TypeOK
<1>2. \A d \in Conn \ {c} : SameCall(d) /\ SameBlocking(d)
  BY <1>1 DEF SameCall
<1> QED BY <1>1, <1>2, OthersSame

(* The timers of a stage.                                                  *)
LEMMA StageTimers ==
    ASSUME TypeOK, TimerInv, NEW c \in Conn
    PROVE  /\ timer' = AddTimer(StopReading(c), Rd(c)) => Timed({}, {Rd(c)})
           /\ timer' = AddTimer(StopReading(c), Wr(c)) => Timed({Rd(c)}, {Wr(c)})
           /\ \A e \in EventsOf(c) : timer' = AddTimer(timer, e) => Timed({}, {e})
           /\ \A e \in EventsOf(c) : timer' = DelTimer(timer, e) => Timed({e}, {})
<1> DEFINE tm == StopReading(c)
<1>1. tm \in TimerSet /\ tm.map = timer.map \ {Rd(c)} /\ tm.set = timer.map \ {Rd(c)}
  BY TimerStageOps
<1> HIDE DEF tm
<1>2. Rd(c) \in Event /\ Wr(c) \in Event
  BY Names
<1>3. /\ AddTimer(tm, Rd(c)).map = tm.map \cup {Rd(c)}
      /\ AddTimer(tm, Wr(c)).map = tm.map \cup {Wr(c)}
  BY <1>1, <1>2, TimerOps
<1>6. /\ timer' = AddTimer(tm, Rd(c)) => Timed({}, {Rd(c)})
      /\ timer' = AddTimer(tm, Wr(c)) => Timed({Rd(c)}, {Wr(c)})
  BY <1>1, <1>3 DEF Timed
<1>4. \A e \in EventsOf(c) : timer' = AddTimer(timer, e) => Timed({}, {e})
  BY TimerStageOps DEF Timed
<1>5. \A e \in EventsOf(c) : timer' = DelTimer(timer, e) => Timed({e}, {})
  BY TimerStageOps DEF Timed
<1> QED BY <1>4, <1>5, <1>6 DEF tm

(* What a stage does to epoll's entries.                                   *)
LEMMA StageEpoll ==
    ASSUME TypeOK, NEW c \in Conn, NEW evs \in SUBSET Ev
    PROVE  /\ ep' = AddEvents(ep, Orig(c), evs, version[c])
                => Watched(c, ep.ev[Orig(c)] \cup evs)
                   /\ \A i \in Item \ Owned(c) : SameEpoll(i)
           /\ ep' = DelEvents(ep, Orig(c), evs, version[c])
                => Watched(c, ep.ev[Orig(c)] \ evs)
                   /\ \A i \in Item \ Owned(c) : SameEpoll(i)
           /\ ep' = AddEvents(ep, Blk(c), evs, 0)
                => /\ ep'.ev[Blk(c)] = ep.ev[Blk(c)] \cup evs /\ ep'.ver[Blk(c)] = 0
                   /\ SameEpoll(Orig(c)) /\ \A i \in Item \ Owned(c) : SameEpoll(i)
           /\ ep' = DelEvents(ep, Blk(c), evs, 0)
                => /\ ep'.ev[Blk(c)] = ep.ev[Blk(c)] \ evs /\ ep'.ver[Blk(c)] = 0
                   /\ SameEpoll(Orig(c)) /\ \A i \in Item \ Owned(c) : SameEpoll(i)
<1>1. /\ ep \in EpSet /\ version[c] \in Nat /\ 0 \in Nat
      /\ Orig(c) \in Item /\ Blk(c) \in Item
  BY Names DEF TypeOK
<1>2. /\ Orig(c) # Blk(c) /\ \A i \in Item : i \notin Owned(c) => i # Orig(c) /\ i # Blk(c)
  BY Apart
<1>3. /\ Changed(ep, AddEvents(ep, Orig(c), evs, version[c]), Orig(c),
                 ep.ev[Orig(c)] \cup evs, version[c])
      /\ Changed(ep, DelEvents(ep, Orig(c), evs, version[c]), Orig(c),
                 ep.ev[Orig(c)] \ evs, version[c])
      /\ Changed(ep, AddEvents(ep, Blk(c), evs, 0), Blk(c), ep.ev[Blk(c)] \cup evs, 0)
      /\ Changed(ep, DelEvents(ep, Blk(c), evs, 0), Blk(c), ep.ev[Blk(c)] \ evs, 0)
  BY <1>1, EpollOps
<1>4. ASSUME NEW s, Changed(ep, ep', Orig(c), s, version[c])
      PROVE  Watched(c, s) /\ \A i \in Item \ Owned(c) : SameEpoll(i)
  BY <1>1, <1>2, <1>4 DEF Changed, EpollFrame, Watched, SameEpoll, SameWatch
<1>5. ASSUME NEW s, Changed(ep, ep', Blk(c), s, 0)
      PROVE  /\ ep'.ev[Blk(c)] = s /\ ep'.ver[Blk(c)] = 0
             /\ SameEpoll(Orig(c)) /\ \A i \in Item \ Owned(c) : SameEpoll(i)
  BY <1>1, <1>2, <1>5 DEF Changed, EpollFrame, SameEpoll, SameWatch
<1> QED BY <1>3, <1>4, <1>5

(* request_write's event set after a stage that stopped reading.           *)
LEMMA FailEpoll ==
    ASSUME TypeOK, NEW c \in Conn,
           ep' = AddEvents(IgnoreInput(c), Orig(c), {"out"}, version[c])
    PROVE  /\ Watched(c, (ep.ev[Orig(c)] \ {"in"}) \cup {"out"})
           /\ \A i \in Item \ Owned(c) : SameEpoll(i)
<1> DEFINE e == IgnoreInput(c)
<1>1. /\ ep \in EpSet /\ version[c] \in Nat /\ e \in EpSet
      /\ Orig(c) \in Item /\ Blk(c) \in Item
  BY Names, StageOps DEF TypeOK
<1>2. /\ Orig(c) # Blk(c) /\ \A i \in Item : i \notin Owned(c) => i # Orig(c) /\ i # Blk(c)
  BY Apart
<1>3. Changed(ep, e, Orig(c), ep.ev[Orig(c)] \ {"in"}, version[c])
  BY <1>1, EpollOps, EventSets DEF IgnoreInput
<1>4. ep' = AddEvents(e, Orig(c), {"out"}, version[c])
  OBVIOUS
<1> HIDE DEF e
<1>5. Changed(e, AddEvents(e, Orig(c), {"out"}, version[c]), Orig(c),
              e.ev[Orig(c)] \cup {"out"}, version[c])
  BY <1>1, EpollOps, EventSets
<1> QED BY <1>1, <1>2, <1>3, <1>4, <1>5
        DEF Changed, EpollFrame, Watched, SameEpoll, SameWatch

(* A stage of c: what it leaves alone, from what it changes of its own.    *)
LEMMA StageIs ==
    ASSUME TypeOK, NEW c \in Conn, NEW p, NEW q, At(c, p), Goto(c, q),
           UNCHANGED <<phase, batch, delay, resumes, free, version, backlog, control>>,
           \A d \in Conn \ {c} : /\ SameBlocking(d)
                                 /\ d \in retOk' <=> d \in retOk
                                 /\ d \in answered' <=> d \in answered,
           \A i \in Item \ Owned(c) : SameEpoll(i) /\ SameMarks(i) /\ SameSocket(i),
           \A t \in Event \ EventsOf(c) : t \in timer'.map <=> t \in timer.map
    PROVE  Stage(c, {p}, q)
<1>1. pc'[c] = q /\ \A d \in Conn \ {c} : SameOf(d)
  BY StageFrame DEF SameItem
<1> QED BY <1>1 DEF Stage, At

(* Nothing but the named parts of a connection's state changes.            *)
LEMMA SameParts ==
    ASSUME TypeOK
    PROVE  /\ UNCHANGED flags => /\ \A i \in Item : SameMarks(i)
                                 /\ \A d \in Conn : SameBlocking(d)
           /\ UNCHANGED sock => \A i \in Item : SameSocket(i)
           /\ UNCHANGED ep => \A i \in Item : SameEpoll(i)
           /\ \A c \in Conn : Drained(c) => \A i \in Item \ Owned(c) : SameSocket(i)
<1>1. UNCHANGED flags => \A i \in Item : SameMarks(i)
  BY DEF SameMarks
<1>2. UNCHANGED flags => \A d \in Conn : SameBlocking(d)
  BY DEF SameBlocking
<1>3. UNCHANGED sock => \A i \in Item : SameSocket(i)
  BY DEF SameSocket
<1>4. UNCHANGED ep => \A i \in Item : SameEpoll(i)
  BY DEF SameEpoll, SameWatch
<1>5. \A c \in Conn : Drained(c) => \A i \in Item \ Owned(c) : SameSocket(i)
  BY DEF Drained, SameSocket, Owned, TypeOK, SockSet
<1> QED BY <1>1, <1>2, <1>3, <1>4, <1>5

LEMMA RequestInitRow ==
    ASSUME TypeOK, TimerInv, NEW c \in Conn, RequestInit(c) PROVE Begins(c)
<1> USE DEF RequestInit, InRun, OnlyRun
<1>1. Timed({}, {Rd(c)})
  BY StageTimers DEF StopReading
<1>2. Watched(c, ep.ev[Orig(c)] \cup READ) /\ \A i \in Item \ Owned(c) : SameEpoll(i)
  BY StageEpoll, EventSets
<1>3. \A t \in Event \ EventsOf(c) : t \in timer'.map <=> t \in timer.map
  BY <1>1, Apart DEF Timed
<1>4. Stage(c, {"init"}, "recv")
  BY <1>2, <1>3, SameParts, StageIs
<1> QED BY <1>1, <1>2, <1>4 DEF Begins

(* decode, and the three ways out of request_read.                         *)
LEMMA FailReadRow ==
    ASSUME TypeOK, TimerInv, NEW c \in Conn, NEW p \in {"recv", "recvWoken"}, At(c, p),
           FailRead(c), UNCHANGED sock \/ Drained(c), InRun(c),
           UNCHANGED <<cur, flags, answered>>
    PROVE  ReadFails(c)
<1> USE DEF FailRead, RequestWrite, InRun, OnlyRun
<1>1. Timed({Rd(c)}, {Wr(c)})
  BY StageTimers
<1>2. /\ Watched(c, (ep.ev[Orig(c)] \ {"in"}) \cup {"out"})
      /\ \A i \in Item \ Owned(c) : SameEpoll(i)
  BY FailEpoll
<1>3. \A t \in Event \ EventsOf(c) : t \in timer'.map <=> t \in timer.map
  BY <1>1, Apart DEF Timed
<1>4. Stage(c, {p}, "send")
  BY <1>2, <1>3, SameParts, StageIs
<1> QED BY <1>1, <1>2, <1>4 DEF ReadFails, Stage

LEMMA DecodeRow ==
    ASSUME TypeOK, TimerInv, NEW c \in Conn, NEW p \in {"recv", "recvWoken"}, At(c, p),
           ~Dying(c), Decode(c), InRun(c), UNCHANGED <<cur, flags, answered>>
    PROVE  Reads(c) \/ ReadsMore(c) \/ ReadFails(c)
<1> USE DEF InRun, OnlyRun
<1>0. Drained(c)
  BY DEF Decode, Drained
<1>1. CASE RequestProcess(c)
  <2>1. Timed({}, {Rd(c)})
    BY <1>1, StageTimers DEF RequestProcess
  <2>2. /\ Watched(c, ep.ev[Orig(c)] \ {"in"})
        /\ \A i \in Item \ Owned(c) : SameEpoll(i)
    BY <1>1, StageEpoll, EventSets DEF RequestProcess, IgnoreInput
  <2>3. \A t \in Event \ EventsOf(c) : t \in timer'.map <=> t \in timer.map
    BY <2>1, Apart DEF Timed
  <2>4. Stage(c, {p}, "user")
    BY <1>0, <1>1, <2>2, <2>3, SameParts, StageIs DEF RequestProcess
  <2> QED BY <1>0, <1>1, <2>1, <2>2, <2>4 DEF Reads, Stage, RequestProcess
<1>2. CASE Goto(c, "recv") /\ UNCHANGED <<timer, ep, retOk>>
  <2>1. Stage(c, {p}, "recv")
    BY <1>0, <1>2, SameParts, StageIs
  <2> QED BY <1>0, <1>2, <2>1 DEF ReadsMore, Stage
<1>3. CASE FailRead(c)
  BY <1>0, <1>3, FailReadRow
<1> QED BY <1>1, <1>2, <1>3 DEF Decode

LEMMA RecvRow ==
    ASSUME TypeOK, TimerInv, NEW c \in Conn, Recv(c) \/ RecvResumed(c)
    PROVE  Reads(c) \/ ReadsMore(c) \/ ReadFails(c) \/ ReadWaits(c)
<1>1. CASE Recv(c)
  <2>1. CASE ~Dying(c) /\ Decode(c) /\ UNCHANGED cur
    BY <1>1, <2>1, DecodeRow DEF Recv, InRun
  <2>2. CASE RecvFails(c) /\ UNCHANGED cur
    BY <1>1, <2>2, FailReadRow DEF Recv, RecvFails
  <2>3. CASE /\ ~Dying(c) /\ NothingToRecv(c)
             /\ Goto(c, "recvWait") /\ Done
             /\ UNCHANGED <<timer, ep, retOk, sock>>
    <3>1. Stage(c, {"recv"}, "recvWait")
      BY <1>1, <2>3, SameParts, StageIs DEF Recv, InRun, OnlyRun
    <3> QED BY <1>1, <2>3, <3>1 DEF Recv, ReadWaits, Done, InRun, OnlyRun
  <2> QED BY <1>1, <2>1, <2>2, <2>3 DEF Recv
<1>2. CASE RecvResumed(c)
  <2>1. CASE ~Dying(c) /\ Decode(c)
    BY <1>2, <2>1, DecodeRow DEF RecvResumed, InRun
  <2>2. CASE RecvFails(c)
    BY <1>2, <2>2, FailReadRow DEF RecvResumed, RecvFails
  <2> QED BY <1>2, <2>1, <2>2 DEF RecvResumed
<1> QED BY <1>1, <1>2

(* The user's handler.                                                     *)
LEMMA UserSleepRow ==
    ASSUME TypeOK, TimerInv, NEW c \in Conn, UserSleep(c) PROVE Sleeps(c)
<1> USE DEF UserSleep, Blocks
<1>1. Timed({}, {Sleep(c)})
  BY StageTimers, Apart
<1>5. BlockingIs(flags.third \cup {c}, flags.useBlock)
  BY DEF BlockingIs, FlagsAre, TypeOK, FlagSet
<1>2. \A t \in Event \ EventsOf(c) : t \in timer'.map <=> t \in timer.map
  BY <1>1, Apart DEF Timed
<1>3. /\ \A d \in Conn \ {c} : SameBlocking(d)
      /\ \A i \in Item : SameMarks(i)
  BY DEF SameBlocking, SameMarks, TypeOK, FlagSet
<1>4. Stage(c, {"user"}, "sleepWait")
  BY <1>2, <1>3, SameParts, StageIs
<1> QED BY <1>1, <1>4, <1>5 DEF Sleeps, Handles, Done

LEMMA SleepResumedRow ==
    ASSUME TypeOK, TimerInv, NEW c \in Conn, SleepResumed(c) PROVE SleepEnds(c)
<1> USE DEF SleepResumed, InRun, OnlyRun
<1>1. Timed({Sleep(c)}, {})
  BY StageTimers, Apart
<1>5. BlockingIs(flags.third \ {c}, flags.useBlock)
  BY DEF BlockingIs, FlagsAre, TypeOK, FlagSet
<1>2. \A t \in Event \ EventsOf(c) : t \in timer'.map <=> t \in timer.map
  BY <1>1, Apart DEF Timed
<1>3. /\ \A d \in Conn \ {c} : SameBlocking(d)
      /\ \A i \in Item : SameMarks(i)
  BY DEF SameBlocking, SameMarks, TypeOK, FlagSet
<1>4. Stage(c, {"sleepWoken"}, "user")
  BY <1>2, <1>3, SameParts, StageIs
<1> QED BY <1>1, <1>4, <1>5 DEF SleepEnds, Handles

LEMMA UserThirdSocketRow ==
    ASSUME TypeOK, TimerInv, NEW c \in Conn, UserThirdSocket(c) PROVE ThirdWaits(c)
<1> USE DEF UserThirdSocket, Blocks
<1>1. Timed({}, {BRd(c)})
  BY StageTimers, Apart
<1>6. BlockingIs(flags.third, flags.useBlock \cup {c})
  BY DEF BlockingIs, FlagsAre, TypeOK, FlagSet
<1>2. \A t \in Event \ EventsOf(c) : t \in timer'.map <=> t \in timer.map
  BY <1>1, Apart DEF Timed
<1>3. /\ \A d \in Conn \ {c} : SameBlocking(d)
      /\ \A i \in Item : SameMarks(i)
  BY DEF SameBlocking, SameMarks, TypeOK, FlagSet
<1>4. /\ ep'.ev[Blk(c)] = ep.ev[Blk(c)] \cup READ /\ ep'.ver[Blk(c)] = 0
      /\ SameEpoll(Orig(c)) /\ \A i \in Item \ Owned(c) : SameEpoll(i)
  BY StageEpoll, EventSets
<1>5. Stage(c, {"user"}, "thirdWait")
  BY <1>2, <1>3, <1>4, SameParts, StageIs
<1> QED BY <1>1, <1>4, <1>5, <1>6 DEF ThirdWaits, Handles, Done

LEMMA ThirdResumedRow ==
    ASSUME TypeOK, TimerInv, NEW c \in Conn, ThirdResumed(c) PROVE ThirdEnds(c)
<1> USE DEF ThirdResumed, InRun, OnlyRun
<1>1. Timed({BRd(c)}, {})
  BY StageTimers, Apart
<1>7. FlagsAre(flags.timedOut \ {Blk(c)}, flags.pendingEof \ {Blk(c)},
               flags.dying \ {Blk(c)}, flags.third, flags.useBlock \ {c})
  BY DEF FlagsAre, TypeOK, FlagSet, ResetBlock
<1>2. \A t \in Event \ EventsOf(c) : t \in timer'.map <=> t \in timer.map
  BY <1>1, Apart DEF Timed
<1>3. /\ \A d \in Conn \ {c} : SameBlocking(d)
      /\ \A i \in Item \ Owned(c) : SameMarks(i)
  BY DEF SameBlocking, SameMarks, TypeOK, FlagSet, ResetBlock, Owned
<1>4. /\ ep'.ev[Blk(c)] = ep.ev[Blk(c)] \ READ /\ ep'.ver[Blk(c)] = 0
      /\ SameEpoll(Orig(c)) /\ \A i \in Item \ Owned(c) : SameEpoll(i)
  BY StageEpoll, EventSets
<1>5. \A i \in Item \ Owned(c) : SameSocket(i)
  BY DEF SameSocket, Owned, TypeOK, SockSet
<1>6. Stage(c, {"thirdWoken"}, "user")
  BY <1>2, <1>3, <1>4, <1>5, StageIs
<1> QED BY <1>1, <1>4, <1>6, <1>7 DEF ThirdEnds

LEMMA YieldRow ==
    ASSUME TypeOK, TimerInv, NEW c \in Conn, UserYield(c) \/ YieldResumed(c)
    PROVE  Yields(c) \/ YieldEnds(c)
<1>1. CASE UserYield(c)
  <2>1. Stage(c, {"user"}, "yieldWait")
    BY <1>1, SameParts, StageIs DEF UserYield, Blocks
  <2> QED BY <1>1, <2>1 DEF UserYield, Blocks, Yields, Handles, Done
<1>2. CASE YieldResumed(c)
  <2>1. Stage(c, {"yieldWoken"}, "user")
    BY <1>2, SameParts, StageIs DEF YieldResumed, InRun, OnlyRun
  <2> QED BY <1>2, <2>1 DEF YieldResumed, YieldEnds, Handles, InRun, OnlyRun
<1> QED BY <1>1, <1>2

LEMMA UserReturnRow ==
    ASSUME TypeOK, TimerInv, NEW c \in Conn, UserReturn(c) PROVE Returns(c)
<1> USE DEF UserReturn, RequestWrite, InRun, OnlyRun
<1>1. Timed({Rd(c)}, {Wr(c)})
  BY StageTimers DEF StopReading
<1>2. \A t \in Event \ EventsOf(c) : t \in timer'.map <=> t \in timer.map
  BY <1>1, Apart DEF Timed
<1>3. Watched(c, ep.ev[Orig(c)] \cup {"out"}) /\ \A i \in Item \ Owned(c) : SameEpoll(i)
  BY StageEpoll, EventSets
<1>4. Stage(c, {"user"}, "send")
  BY <1>2, <1>3, SameParts, StageIs
<1> QED BY <1>1, <1>3, <1>4 DEF Returns

(* The response.                                                           *)
LEMMA EndWriteRow ==
    ASSUME TypeOK, TimerInv, NEW c \in Conn, NEW p \in {"send", "sendWoken"}, At(c, p),
           NEW ok \in BOOLEAN, EndWrite(c, ok), InRun(c), UNCHANGED <<cur, flags, sock>>,
           answered' = IF ok THEN answered \cup {c} ELSE answered
    PROVE  WriteEnds(c)
<1> USE DEF EndWrite, InRun, OnlyRun
<1>1. Timed({Wr(c)}, {})
  BY StageTimers, Apart
<1>2. \A t \in Event \ EventsOf(c) : t \in timer'.map <=> t \in timer.map
  BY <1>1, Apart DEF Timed
<1>3. Watched(c, ep.ev[Orig(c)] \ {"out"}) /\ \A i \in Item \ Owned(c) : SameEpoll(i)
  BY StageEpoll, EventSets
<1>4. Stage(c, {p}, "final")
  BY <1>2, <1>3, SameParts, StageIs
<1> QED BY <1>1, <1>3, <1>4 DEF WriteEnds, Stage

LEMMA WrittenRow ==
    ASSUME TypeOK, TimerInv, NEW c \in Conn, NEW p \in {"send", "sendWoken"}, At(c, p),
           InRun(c), UNCHANGED <<cur, flags>>,
           \/ Written(c) \/ WriteFails(c)
           \/ EndWrite(c, FALSE) /\ UNCHANGED <<sock, ops, answered>>
    PROVE  WriteEnds(c) \/ WritesPart(c)
<1>1. CASE EndWrite(c, FALSE) /\ UNCHANGED <<sock, ops, answered>>
  BY <1>1, EndWriteRow
<1>2. CASE WriteFails(c)
  BY <1>2, EndWriteRow DEF WriteFails
<1>3. CASE Written(c)
  <2>1. CASE EndWrite(c, TRUE) /\ answered' = answered \cup {c} /\ UNCHANGED <<sock, ops>>
    BY <2>1, EndWriteRow
  <2>2. CASE /\ sock' = [sock EXCEPT !.room = @ \ {Orig(c)}]
             /\ Goto(c, "send") /\ UNCHANGED <<timer, ep, retOk, answered>>
    <3>1. \A i \in Item \ Owned(c) : SameSocket(i)
      BY <2>2 DEF SameSocket, Owned, TypeOK, SockSet
    <3>2. Stage(c, {p}, "send")
      BY <2>2, <3>1, SameParts, StageIs DEF InRun, OnlyRun
    <3> QED BY <1>3, <2>2, <3>2 DEF WritesPart, Stage, Written, InRun, OnlyRun
  <2> QED BY <1>3, <2>1, <2>2 DEF Written
<1> QED BY <1>1, <1>2, <1>3

LEMMA SendRow ==
    ASSUME TypeOK, TimerInv, NEW c \in Conn, Send(c) \/ SendResumed(c)
    PROVE  WriteEnds(c) \/ WritesPart(c) \/ WriteWaits(c)
<1>1. CASE Send(c)
  <2>1. CASE (Written(c) \/ WriteFails(c)) /\ UNCHANGED cur
    BY <1>1, <2>1, WrittenRow DEF Send
  <2>2. CASE /\ ~Dying(c) /\ Orig(c) \notin sock.room
             /\ Goto(c, "sendWait") /\ Done
             /\ UNCHANGED <<timer, ep, retOk, sock, ops, answered>>
    <3>1. Stage(c, {"send"}, "sendWait")
      BY <1>1, <2>2, SameParts, StageIs DEF Send, InRun, OnlyRun
    <3> QED BY <1>1, <2>2, <3>1 DEF Send, WriteWaits, Done, InRun, OnlyRun
  <2> QED BY <1>1, <2>1, <2>2 DEF Send
<1>2. CASE SendResumed(c)
  BY <1>2, WrittenRow DEF SendResumed
<1> QED BY <1>1, <1>2

-----------------------------------------------------------------------------
(* func_dispatcher: the coroutine is entered, or a sleep is left alone.    *)
Enters(c) ==
    /\ Stage(c, PC \ Active, Wake(pc[c]))
    /\ \/ ~Flagged(cur.item) /\ UNCHANGED flags
       \/ /\ Flagged(cur.item) /\ ~InSleep(cur.item) /\ pc[c] # "idle"
          /\ DyingIs(DyingAfter(cur.item))
    /\ UNCHANGED <<cur, tokens, timer, ep, sock, retOk, answered>>
SleepsOn(c) ==
    /\ Stage(c, PC \ Active, pc[c])
    /\ cur.item = Orig(c) /\ Flagged(Orig(c)) /\ c \in flags.third
    /\ DyingIs(flags.dying \cup {Orig(c)})
    /\ cur' = Nobody /\ UNCHANGED <<tokens, timer, ep, sock, retOk, answered>>

(* The end of a use: the connection is closed, or kept for a next request. *)
Reset(c) ==
    /\ pc'[c] = "idle" /\ ~WorkerFree /\ cur.item \in Owned(c) /\ cur' = Nobody
    /\ UNCHANGED <<phase, batch, delay, resumes, tokens, backlog, retOk>>
    /\ version'[c] = version[c] + 1
    /\ FlagsAre(flags.timedOut \ Owned(c), flags.pendingEof \ Owned(c),
                flags.dying \ Owned(c), flags.third \ {c}, flags.useBlock \ {c})
    /\ SameWatch(Blk(c)) /\ \A d \in Conn \ {c} : SameOf(d)
    /\ answered' = IF pc[c] = "final" THEN answered \ {c} ELSE answered
Closes(c) ==
    /\ Reset(c) /\ pc[c] \in {"idle", "final"}
    /\ pc[c] = "final" => c \notin retOk
    /\ pc[c] = "idle" => cur.item = Orig(c) /\ Flagged(Orig(c))
    /\ free' = free \cup {c} /\ curSize' = curSize - 1
    /\ Timed(EventsOf(c), {}) /\ ep'.ev[Orig(c)] = {}
Keeps(c) ==
    /\ Reset(c) /\ pc[c] = "final" /\ c \in retOk
    /\ Timed(EventsOf(c), {Rd(c)}) /\ ep'.ver[Orig(c)] = version[c] + 1
    /\ ep'.ev[Orig(c)] = (ep.ev[Orig(c)] \cup {"in"}) \ {"out"}
    /\ UNCHANGED <<free, sock, control>>

LEMMA WaitThirdFuncRow ==
    ASSUME TypeOK, NEW i \in Item, WaitThirdFunc(i) PROVE SleepsOn(i[1])
<1> DEFINE c == i[1]
<1>1. c \in Conn /\ i = Orig(c) /\ i \in Owned(c) /\ cur.item = i /\ ~WorkerFree
  BY Items DEF WaitThirdFunc, InSleep, Entering, Dispatched
<1>2. pc[c] \in PC \ Active /\ Flagged(Orig(c)) /\ c \in flags.third
  BY <1>1 DEF WaitThirdFunc, Entering, TypeOK, InSleep
<1>3. flags' = [flags EXCEPT !.dying = @ \cup {Orig(c)}] /\ cur' = Nobody
  BY <1>1 DEF WaitThirdFunc, Done
<1> HIDE DEF c
<1>4. /\ \A d \in Conn \ {c} : SameBlocking(d)
      /\ \A j \in Item \ Owned(c) : SameMarks(j)
  BY <1>1, <1>3 DEF SameBlocking, SameMarks, TypeOK, FlagSet
<1>5. UNCHANGED <<free, version, pc, timer, ep, sock, request, control, loop, queues, accept>>
  BY DEF WaitThirdFunc, OnlyRun
<1>6. \A d \in Conn \ {c} : SameOf(d)
  BY <1>1, <1>4, <1>5, SameParts, OthersSame DEF SameItem, SameCall
<1>8. DyingIs(flags.dying \cup {Orig(c)})
  BY <1>3 DEF DyingIs, FlagsAre, TypeOK, FlagSet
<1>7. SleepsOn(c)
  BY <1>1, <1>2, <1>3, <1>5, <1>6, <1>8 DEF SleepsOn, Stage
<1> QED BY <1>7 DEF c

LEMMA EnterRow ==
    ASSUME TypeOK, NEW i \in Item, Enter(i) PROVE Enters(i[1])
<1> DEFINE c == i[1]
<1>1. c \in Conn /\ i \in Owned(c) /\ cur.item = i /\ ~WorkerFree
  BY Items DEF Enter, Entering, Dispatched
<1>2. pc[c] \in PC \ Active /\ Goto(c, Wake(pc[c]))
  BY <1>1 DEF Enter, Entering, TypeOK
<1>3. \/ ~Flagged(i) /\ UNCHANGED flags
      \/ Flagged(i) /\ ~InSleep(i) /\ pc[c] # "idle"
         /\ flags' = [flags EXCEPT !.dying = DyingAfter(i)]
  BY DEF Enter
<1>4. DyingAfter(i) \ Owned(c) = flags.dying \ Owned(c)
  BY <1>1 DEF DyingAfter, Owned
<1>5. UNCHANGED <<free, version, timer, ep, sock, request, control, loop, queues, accept, cur>>
  BY DEF Enter, OnlyRun
<1>6. At(c, pc[c])
  BY <1>1 DEF At
<1> HIDE DEF c
<1>7. /\ \A d \in Conn \ {c} : SameBlocking(d)
      /\ \A j \in Item \ Owned(c) : SameMarks(j)
  <2>1. CASE UNCHANGED flags
    BY <2>1, SameParts
  <2>2. CASE flags' = [flags EXCEPT !.dying = DyingAfter(i)]
    BY <1>4, <2>2 DEF SameBlocking, SameMarks, TypeOK, FlagSet
  <2> QED BY <1>3, <2>1, <2>2
<1>8. Stage(c, {pc[c]}, Wake(pc[c]))
  BY <1>1, <1>2, <1>5, <1>6, <1>7, SameParts, StageIs
<1>9. \/ ~Flagged(i) /\ UNCHANGED flags
      \/ Flagged(i) /\ ~InSleep(i) /\ pc[c] # "idle" /\ DyingIs(DyingAfter(i))
  BY <1>3 DEF DyingIs, FlagsAre, TypeOK, FlagSet, c
<1>10. Enters(c)
  BY <1>1, <1>2, <1>5, <1>8, <1>9 DEF Enters, Stage
<1> QED BY <1>10 DEF c

-----------------------------------------------------------------------------
(* free_request_connection.                                                *)

(* Its timers: the read and the write timer are taken back, the others are *)
(* not in the map, and the reset leaves the map alone.                     *)
LEMMA FreeTimers ==
    ASSUME TypeOK, TimerInv, NEW c \in Conn, pc[c] \notin SleepPC \cup ThirdPC
    PROVE  LET tm == DelTimer(DelTimer(timer, Wr(c)), Rd(c)) IN
           /\ ResetEvents(tm, c).map = timer.map \ EventsOf(c)
           /\ AddTimer(ResetEvents(tm, c), Rd(c)).map
                = (timer.map \ EventsOf(c)) \cup {Rd(c)}
<1> DEFINE tw == DelTimer(timer, Wr(c))
           tm == DelTimer(tw, Rd(c))
<1>0. timer \in TimerSet /\ timer.map = timer.set /\ Wr(c) \in Event /\ Rd(c) \in Event
  BY Names DEF TypeOK, TimerInv
<1>1. tw \in TimerSet /\ tw.map = timer.map \ {Wr(c)} /\ tw.set = timer.map \ {Wr(c)}
  BY <1>0, TimerTypes, TimerOps
<1> HIDE DEF tw
<1>2. tm \in TimerSet /\ tm.map = tw.map \ {Rd(c)} /\ tm.set = tw.map \ {Rd(c)}
  <2>1. tw.map = tw.set
    BY <1>1
  <2> QED BY <1>0, <1>1, <2>1, TimerTypes, TimerOps
<1>3. Sleep(c) \notin timer.map /\ BRd(c) \notin timer.map
  BY DEF TimerInv
<1>4. tm.map = timer.map \ EventsOf(c)
  BY <1>1, <1>2, <1>3 DEF EventsOf
<1> HIDE DEF tm
<1>5. /\ ResetEvents(tm, c).map = tm.map /\ Rd(c) \notin ResetEvents(tm, c).set
      /\ ResetEvents(tm, c) \in TimerSet
  BY <1>2, TimerTypes DEF ResetEvents, TimerSet, EventsOf
<1>6. AddTimer(ResetEvents(tm, c), Rd(c)).map = tm.map \cup {Rd(c)}
  BY <1>5 DEF AddTimer
<1> QED BY <1>4, <1>5, <1>6 DEF tm, tw

LEMMA ResetFlagsFrame ==
    ASSUME TypeOK, NEW c \in Conn, flags' = ResetFlags(flags, c)
    PROVE  /\ \A d \in Conn \ {c} : SameBlocking(d)
           /\ \A i \in Item \ Owned(c) : SameMarks(i)
           /\ FlagsAre(flags.timedOut \ Owned(c), flags.pendingEof \ Owned(c),
                       flags.dying \ Owned(c), flags.third \ {c}, flags.useBlock \ {c})
BY DEF ResetFlags, SameBlocking, SameMarks, FlagsAre

LEMMA KeepRow ==
    ASSUME TypeOK, TimerInv, NEW c \in Conn, RequestFinalize(c), c \in retOk
    PROVE  Keeps(c)
<1> DEFINE tm == DelTimer(DelTimer(timer, Wr(c)), Rd(c))
           v  == version[c] + 1
           e  == AddEvents(ep, Orig(c), {"in"}, v)
<1>1. KeepAlive(c, tm, ep) /\ answered' = answered \ {c} /\ cur' = Nobody /\ At(c, "final")
  BY DEF RequestFinalize, FreeRequestConnection, Done
<1>2. pc[c] \notin SleepPC \cup ThirdPC
  BY <1>1 DEF At, SleepPC, ThirdPC
<1>3. Timed(EventsOf(c), {Rd(c)})
  BY <1>1, <1>2, FreeTimers DEF KeepAlive, Timed
<1>4. /\ ep \in EpSet /\ v \in Nat /\ Orig(c) \in Item /\ Blk(c) \in Item
      /\ \A i \in Item : i \notin Owned(c) => i # Orig(c)
      /\ Orig(c) # Blk(c)
  BY Names, Apart DEF TypeOK
<1>5. e \in EpSet /\ Changed(ep, e, Orig(c), ep.ev[Orig(c)] \cup {"in"}, v)
  BY <1>4, EpollTypes, EpollOps, EventSets
<1>6. ep' = DelEvents(e, Orig(c), {"out"}, v)
  BY <1>1 DEF KeepAlive
<1> HIDE DEF e
<1>7. Changed(e, ep', Orig(c), e.ev[Orig(c)] \ {"out"}, v)
  BY <1>4, <1>5, <1>6, EpollOps, EventSets
<1>8. /\ ep'.ev[Orig(c)] = (ep.ev[Orig(c)] \cup {"in"}) \ {"out"}
      /\ ep'.ver[Orig(c)] = version[c] + 1
      /\ SameWatch(Blk(c)) /\ \A i \in Item \ Owned(c) : SameEpoll(i)
  BY <1>4, <1>5, <1>7 DEF Changed, EpollFrame, SameEpoll, SameWatch
<1>9. /\ flags' = ResetFlags(flags, c) /\ version' = [version EXCEPT ![c] = version[c] + 1]
      /\ pc' = [pc EXCEPT ![c] = "idle"] /\ UNCHANGED <<free, sock, control>>
  BY <1>1 DEF KeepAlive
<1>10. UNCHANGED <<loop, queues, accept, budget, retOk, ops>>
  BY DEF RequestFinalize, OnlyRun
<1>11. /\ \A d \in Conn \ {c} : SameBlocking(d)
       /\ \A i \in Item \ Owned(c) : SameMarks(i)
  BY <1>9, ResetFlagsFrame
<1>12. \A t \in Event \ EventsOf(c) : t \in timer'.map <=> t \in timer.map
  BY <1>3, Apart DEF Timed
<1>13. \A d \in Conn \ {c} : SameCall(d)
  BY <1>1, <1>9, <1>10 DEF SameCall, TypeOK
<1>14. \A d \in Conn \ {c} : SameOf(d)
  BY <1>8, <1>9, <1>11, <1>12, <1>13, SameParts, OthersSame DEF SameItem
<1>15. pc'[c] = "idle" /\ version'[c] = version[c] + 1
  BY <1>9 DEF TypeOK
<1>16. Reset(c)
  BY <1>1, <1>8, <1>9, <1>10, <1>14, <1>15, ResetFlagsFrame DEF Reset, At
<1> QED BY <1>1, <1>3, <1>8, <1>9, <1>16 DEF Keeps, At

LEMMA CloseRow ==
    ASSUME TypeOK, TimerInv, NEW c \in Conn,
           \/ RequestFinalize(c) /\ c \notin retOk
           \/ FreeIdleConnection(Orig(c))
    PROVE  Closes(c)
<1> DEFINE tm == DelTimer(DelTimer(timer, Wr(c)), Rd(c))
           e  == DelConnection(ep, Orig(c))
           l  == ModifyListening(FuncCleanup, e, listening)
<1>1. /\ FreeRequestConnection(c, FALSE) /\ cur' = Nobody
      /\ ~WorkerFree /\ cur.item \in Owned(c) /\ pc[c] \in {"idle", "final"}
      /\ pc[c] = "final" => c \notin retOk /\ answered' = answered \ {c}
      /\ pc[c] = "idle" => /\ cur.item = Orig(c) /\ Flagged(Orig(c))
                           /\ answered' = answered
      /\ UNCHANGED <<loop, queues, accept, budget, retOk>>
  <2>1. CASE RequestFinalize(c) /\ c \notin retOk
    <3>1. (c \in retOk) = FALSE
      BY <2>1
    <3> QED BY <2>1, <3>1 DEF RequestFinalize, Done, At, OnlyRun
  <2>2. CASE FreeIdleConnection(Orig(c))
    BY <2>2, Names, Apart DEF FreeIdleConnection, Done, Entering, Dispatched, OnlyRun
  <2> QED BY <2>1, <2>2
<1>2. CloseConnection(c, tm, e)
  BY <1>1 DEF FreeRequestConnection
<1>3. Timed(EventsOf(c), {})
  <2>1. pc[c] \notin SleepPC \cup ThirdPC
    BY <1>1 DEF SleepPC, ThirdPC
  <2> QED BY <1>2, <2>1, FreeTimers DEF CloseConnection, Timed
<1>4. /\ ep \in EpSet /\ 0 \in Nat /\ {} \in SUBSET Ev /\ Orig(c) \in Item /\ Blk(c) \in Item
      /\ \A i \in Item : i \notin Owned(c) => i # Orig(c)
      /\ Orig(c) # Blk(c) /\ Lsn \notin Item
  BY Names, Apart, ListenApart DEF TypeOK
<1>5. e \in EpSet /\ e.ev[Orig(c)] = {} /\ EpollFrame(ep, e, Orig(c))
  BY <1>4, EpollTypes, EpollOps
<1>6. ep' = l.ep
  BY <1>2 DEF CloseConnection
<1> HIDE DEF e
<1>7. ep'.ev = e.ev /\ ep'.ver = e.ver /\ \A j \in Item : j \in ep'.armed <=> j \in e.armed
  BY <1>4, <1>5, <1>6 DEF ModifyListening, EpSet
<1>8. /\ ep'.ev[Orig(c)] = {} /\ SameWatch(Blk(c)) /\ \A i \in Item \ Owned(c) : SameEpoll(i)
  BY <1>4, <1>5, <1>7 DEF EpollFrame, SameEpoll, SameWatch
<1>9. /\ flags' = ResetFlags(flags, c) /\ version' = [version EXCEPT ![c] = @ + 1]
      /\ pc' = [pc EXCEPT ![c] = "idle"] /\ free' = free \cup {c}
      /\ curSize' = curSize - 1
      /\ sock' = [data |-> sock.data \ Owned(c), eof |-> sock.eof \ Owned(c),
                  room |-> sock.room \ Owned(c)]
  BY <1>2 DEF CloseConnection, FuncCleanup
<1>10. /\ \A d \in Conn \ {c} : SameBlocking(d)
       /\ \A i \in Item \ Owned(c) : SameMarks(i) /\ SameSocket(i)
  BY <1>9, ResetFlagsFrame DEF SameSocket
<1>11. \A t \in Event \ EventsOf(c) : t \in timer'.map <=> t \in timer.map
  BY <1>3 DEF Timed
<1>12. \A d \in Conn \ {c} : SameCall(d)
  BY <1>1, <1>9 DEF SameCall, TypeOK
<1>13. \A d \in Conn \ {c} : SameOf(d)
  BY <1>8, <1>10, <1>11, <1>12, OthersSame DEF SameItem
<1>14. pc'[c] = "idle" /\ version'[c] = version[c] + 1
  BY <1>9 DEF TypeOK
<1>15. Reset(c)
  BY <1>1, <1>8, <1>9, <1>13, <1>14, ResetFlagsFrame DEF Reset
<1> QED BY <1>1, <1>3, <1>8, <1>9, <1>15 DEF Closes

-----------------------------------------------------------------------------
(* All steps of the handlers, and what the other steps leave alone.        *)
ReadRow(c)  == Begins(c) \/ Reads(c) \/ ReadsMore(c) \/ ReadFails(c) \/ ReadWaits(c)
UserRow(c)  == \/ Sleeps(c) \/ SleepEnds(c) \/ ThirdWaits(c) \/ ThirdEnds(c)
               \/ Yields(c) \/ YieldEnds(c) \/ Returns(c)
WriteRow(c) == WriteEnds(c) \/ WritesPart(c) \/ WriteWaits(c)
EndRow(c)   == Closes(c) \/ Keeps(c)
Row(c) == \/ SleepsOn(c) \/ Enters(c) \/ ReadRow(c) \/ UserRow(c) \/ WriteRow(c)
          \/ EndRow(c)

(* Every row is of the connection that has the CPU, and leaves the others, *)
(* the loop and its queues alone.                                          *)
LEMMA RowFrame ==
    ASSUME NEW c \in Conn, Row(c)
    PROVE  /\ ~WorkerFree /\ cur.item \in Owned(c) /\ cur' \in {cur, Nobody}
           /\ UNCHANGED <<phase, batch, delay, resumes, backlog>>
           /\ tokens' = tokens \/ Yields(c)
           /\ \A d \in Conn \ {c} : SameOf(d)
BY DEF Row, SleepsOn, Enters, ReadRow, Begins, Reads, ReadsMore, ReadFails, ReadWaits,
       UserRow, Sleeps, SleepEnds, ThirdWaits, ThirdEnds, Yields, YieldEnds, Returns,
       WriteRow, WriteEnds, WritesPart, WriteWaits, EndRow, Closes, Keeps, Reset, Stage

LEMMA HandlerRows ==
    ASSUME TypeOK, TimerInv, Handler
    PROVE  (\E c \in Conn : Row(c)) \/ ListenEnter \/ Limit \/ Accept
<1>1. ASSUME NEW i \in Item, WaitThirdFunc(i) \/ Enter(i) \/ FreeIdleConnection(i)
      PROVE  \E c \in Conn : Row(c)
  <2>1. i[1] \in Conn
    BY Items
  <2>2. FreeIdleConnection(i) => FreeIdleConnection(Orig(i[1]))
    BY DEF FreeIdleConnection
  <2> QED BY <1>1, <2>1, <2>2, WaitThirdFuncRow, EnterRow, CloseRow DEF Row, EndRow
<1>2. ASSUME NEW c \in Conn, RequestInit(c) \/ Recv(c) \/ RecvResumed(c) PROVE Row(c)
  BY <1>2, RequestInitRow, RecvRow DEF Row, ReadRow
<1>3. ASSUME NEW c \in Conn,
             \/ UserSleep(c) \/ SleepResumed(c) \/ UserThirdSocket(c) \/ ThirdResumed(c)
             \/ UserYield(c) \/ YieldResumed(c) \/ UserReturn(c)
      PROVE  Row(c)
  BY <1>3, UserSleepRow, SleepResumedRow, UserThirdSocketRow, ThirdResumedRow, YieldRow,
     UserReturnRow DEF Row, UserRow
<1>4. ASSUME NEW c \in Conn, Send(c) \/ SendResumed(c) \/ RequestFinalize(c) PROVE Row(c)
  BY <1>4, SendRow, KeepRow, CloseRow DEF Row, WriteRow, EndRow
<1> QED BY <1>1, <1>2, <1>3, <1>4 DEF Handler

(* The loop and the outside world change no registration of epoll and no   *)
(* request; the loop hands over queued edges, the world adds some.         *)
LEMMA LoopFrame ==
    ASSUME TypeOK, Loop \/ Timers
    PROVE  /\ UNCHANGED <<stopped, free, version, pc, sock, request, accept, control, budget>>
           /\ ep'.ev = ep.ev /\ ep'.ver = ep.ver /\ UNCHANGED tokens
<1>1. UNCHANGED <<stopped, free, version, pc, sock, request, accept, control, budget>>
  BY DEF Loop, Timers, ProcessTimer, LoopOnly, Start, StartWait, CloseAllConnections,
         EpollWait, StaleEvent, ReadEvent, WriteEvent, EventsDone, DelayDone, LoopAgain,
         LoopEnd, LookAtTimers, TimersDone, NextPhase, TakeDelay, TakeResume
<1>2. ep' = ep \/ ep' = [ep EXCEPT !.armed = {}]
  BY DEF Loop, Timers, ProcessTimer, Start, StartWait, CloseAllConnections,
         EpollWait, StaleEvent, ReadEvent, WriteEvent, EventsDone, DelayDone, LoopAgain,
         LoopEnd, LookAtTimers, TimersDone, NextPhase, TakeDelay, TakeResume
<1>3. UNCHANGED tokens
  BY DEF Loop, Timers, ProcessTimer, LoopOnly, Start, StartWait, CloseAllConnections,
         EpollWait, StaleEvent, ReadEvent, WriteEvent, EventsDone, DelayDone, LoopAgain,
         LoopEnd, LookAtTimers, TimersDone, NextPhase, TakeDelay, TakeResume
<1> QED BY <1>1, <1>2, <1>3 DEF TypeOK, EpSet

LEMMA WorldFrame ==
    ASSUME TypeOK, Resumer \/ World
    PROVE  /\ UNCHANGED <<phase, cur, batch, delay, free, version, pc, flags, timer,
                          request, lpc, quota, control>>
           /\ ep'.ev = ep.ev /\ ep'.ver = ep.ver
           /\ ep.armed \subseteq ep'.armed
           /\ sock.data \subseteq sock'.data /\ sock.eof \subseteq sock'.eof
           /\ sock.room \subseteq sock'.room
           /\ UNCHANGED <<tokens, resumes>> \/ \E t \in tokens : ResumeAsync(t)
<1>1. /\ UNCHANGED <<phase, cur, batch, delay, free, version, pc, flags, timer,
                     request, lpc, quota, control>>
      /\ UNCHANGED <<tokens, resumes>> \/ \E t \in tokens : ResumeAsync(t)
  BY DEF Resumer, World, ResumeAsync, ClientConnects, Stop, DataArrives, PeerCloses,
         PeerReads, Outside
<1>2. ASSUME NEW i, NEW evs, Edge(i, evs)
      PROVE  ep'.ev = ep.ev /\ ep'.ver = ep.ver /\ ep.armed \subseteq ep'.armed
  BY <1>2 DEF Edge, TypeOK, EpSet
<1>3. ep'.ev = ep.ev /\ ep'.ver = ep.ver /\ ep.armed \subseteq ep'.armed
  <2>1. CASE ClientConnects BY <2>1 DEF ClientConnects, TypeOK, EpSet
  <2>2. CASE Resumer \/ Stop BY <2>2 DEF Resumer, ResumeAsync, Stop
  <2>3. CASE \E i \in Item : DataArrives(i) \/ PeerCloses(i)
    BY <2>3, <1>2 DEF DataArrives, PeerCloses
  <2>4. CASE \E c \in Conn : PeerReads(c)
    BY <2>4, <1>2 DEF PeerReads
  <2> QED BY <2>1, <2>2, <2>3, <2>4 DEF World
<1>4. /\ sock.data \subseteq sock'.data /\ sock.eof \subseteq sock'.eof
      /\ sock.room \subseteq sock'.room
  BY DEF Resumer, World, ResumeAsync, ClientConnects, Stop, DataArrives, PeerCloses,
         PeerReads, TypeOK, SockSet
<1> QED BY <1>1, <1>3, <1>4

(* The accept loop takes connections from the pool and leaves the others,  *)
(* and what they are registered for, alone.                                *)
LEMMA ListenFrame ==
    ASSUME TypeOK, ListenEnter \/ Limit \/ Accept
    PROVE  /\ UNCHANGED <<phase, batch, resumes, tokens, pc, flags, timer, request, version>>
           /\ cur.item = Lsn /\ ~WorkerFree /\ cur' \in {cur, Nobody}
           /\ ep'.ev = ep.ev /\ ep'.ver = ep.ver
           /\ \A i \in Item : i \in ep'.armed <=> i \in ep.armed
           /\ \/ UNCHANGED <<delay, free, sock, curSize>>
              \/ /\ UNCHANGED <<cur, ep, listening>> /\ backlog > 0 /\ backlog' = backlog - 1
                 /\ \E c \in Conn : InitConnection(c)
<1>1. /\ UNCHANGED <<phase, batch, resumes, tokens, pc, flags, timer, request, version>>
      /\ cur.item = Lsn /\ ~WorkerFree /\ cur' \in {cur, Nobody}
      /\ \/ UNCHANGED <<delay, free, sock, curSize>>
         \/ /\ UNCHANGED <<cur, ep, listening>> /\ backlog > 0 /\ backlog' = backlog - 1
            /\ \E c \in Conn : InitConnection(c)
  BY DEF ListenEnter, Limit, Accept, InAccept, NoAccept, ListenAt, Dispatched, Done
<1>2. /\ ep'.ev = ep.ev /\ ep'.ver = ep.ver
      /\ \A i \in Item : i \in ep'.armed <=> i \in ep.armed
  <2>1. CASE UNCHANGED ep
    BY <2>1
  <2>2. CASE ep' = ModifyListening(curSize, ep, listening).ep
    BY <2>2, ListenApart DEF ModifyListening, TypeOK, EpSet
  <2> QED BY <2>1, <2>2 DEF ListenEnter, Limit, Accept
<1> QED BY <1>1, <1>2

-----------------------------------------------------------------------------
(* What epoll watches for a connection follows from where its coroutine    *)
(* stands, and an event it watches carries the version of this use: the    *)
(* stages take back what they asked for on every way out.                  *)
RecvPC == {"recv", "recvWait", "recvWoken"}
SendPC == {"send", "sendWait", "sendWoken"}
UserPC == {"user", "sleepWait", "sleepWoken", "thirdWait", "thirdWoken",
           "yieldWait", "yieldWoken", "final"}

WatchOf(c) ==
    /\ pc[c] \in {"idle", "init"} => ep.ev[Orig(c)] \subseteq READ
    /\ pc[c] \in RecvPC => ep.ev[Orig(c)] = READ
    /\ pc[c] \in UserPC => ep.ev[Orig(c)] = {"rdhup"}
    /\ pc[c] \in SendPC => ep.ev[Orig(c)] = {"rdhup", "out"}
    /\ ep.ev[Orig(c)] # {} => ep.ver[Orig(c)] = version[c]
    /\ ep.ev[Blk(c)] = IF pc[c] \in ThirdPC THEN READ ELSE {}
WatchInv == \A c \in Conn : WatchOf(c)

LEMMA WatchSame ==
    ASSUME NEW c \in Conn, WatchOf(c), pc'[c] = pc[c], version'[c] = version[c],
           ep'.ev[Orig(c)] = ep.ev[Orig(c)], ep'.ver[Orig(c)] = ep.ver[Orig(c)],
           ep'.ev[Blk(c)] = ep.ev[Blk(c)]
    PROVE  WatchOf(c)'
BY Rigid DEF WatchOf

LEMMA WatchRows ==
    ASSUME TypeOK, NEW c \in Conn, WatchOf(c), Row(c) PROVE WatchOf(c)'
<1> USE DEF Stage, Watched, SameEpoll, SameWatch, WatchOf, RecvPC, SendPC, UserPC, ThirdPC, READ
<1>1. CASE SleepsOn(c) BY <1>1, Rigid DEF SleepsOn
<1>2. CASE Enters(c)
  <2>1. pc[c] \in PC \ Active /\ pc'[c] = Wake(pc[c]) /\ UNCHANGED <<ep, version>>
    BY <1>2 DEF Enters
  <2> QED BY <2>1, Rigid DEF Wake, PC, Waiting, Active
<1>3. CASE ReadRow(c)
  BY <1>3, Rigid DEF ReadRow, Begins, Reads, ReadsMore, ReadFails, ReadWaits
<1>4. CASE UserRow(c)
  BY <1>4, Rigid DEF UserRow, Sleeps, SleepEnds, ThirdWaits, ThirdEnds, Yields, YieldEnds, Returns
<1>5. CASE WriteRow(c)
  BY <1>5, Rigid DEF WriteRow, WriteEnds, WritesPart, WriteWaits
<1>6. CASE EndRow(c)
  BY <1>6, Rigid DEF EndRow, Closes, Keeps, Reset, TypeOK
<1> QED BY <1>1, <1>2, <1>3, <1>4, <1>5, <1>6 DEF Row

LEMMA WatchStep ==
    ASSUME TypeOK, TimerInv, WatchInv, [Next]_vars PROVE WatchInv'
<1>1. ASSUME UNCHANGED <<pc, version>>, ep'.ev = ep.ev, ep'.ver = ep.ver PROVE WatchInv'
  BY <1>1, WatchSame DEF WatchInv
<1>2. CASE Loop \/ Timers BY <1>1, <1>2, LoopFrame
<1>3. CASE Resumer \/ World BY <1>1, <1>3, WorldFrame
<1>4. CASE ListenEnter \/ Limit \/ Accept BY <1>1, <1>4, ListenFrame
<1>5. CASE \E c \in Conn : Row(c)
  <2> PICK c \in Conn : Row(c)
    BY <1>5
  <2>1. \A d \in Conn \ {c} : SameOf(d)
    BY RowFrame
  <2>2. \A d \in Conn \ {c} : WatchOf(d)'
    BY <2>1, WatchSame DEF WatchInv, SameOf, SameCall, SameItem, SameEpoll, SameWatch
  <2> QED BY <2>2, WatchRows DEF WatchInv
<1>6. CASE UNCHANGED vars BY <1>1, <1>6 DEF vars
<1> QED BY <1>2, <1>3, <1>4, <1>5, <1>6, HandlerRows DEF Next

LEMMA WatchInit == Init => WatchInv
<1> SUFFICES ASSUME Init, NEW c \in Conn PROVE WatchOf(c)
  BY DEF WatchInv
<1> QED BY Names DEF Init, WatchOf, RecvPC, SendPC, UserPC, ThirdPC

(* Types, limits, timers and registrations together, for what builds on    *)
(* them.                                                                   *)
Base == Safe /\ TimerInv /\ WatchInv

LEMMA BaseInit == Init => Base
<1>1. Init => TimerInv
  BY DEF Init, TimerInv
<1> QED BY <1>1, SafeInit, WatchInit DEF Base

LEMMA BaseStep == ASSUME Base, [Next]_vars PROVE Base'
BY SafeStep, TimerStep, WatchStep DEF Base, Safe

(* In every reachable state epoll watches exactly what the stage a request *)
(* is in asked for, under the version of this use of its connection.       *)
THEOREM WatchFollowsStage == Spec => []WatchInv
<1>1. Base => WatchInv
  BY DEF Base
<1> QED BY <1>1, BaseInit, BaseStep, PTL DEF Spec
=============================================================================
