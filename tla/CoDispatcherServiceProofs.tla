--------------------- MODULE CoDispatcherServiceProofs ----------------------
(***************************************************************************)
(* Proofs about what clients can rely on: no request is forgotten, a stop  *)
(* leaves none of them half way, the slots of the server are counted, and  *)
(* the worker implements CoService.                                        *)
(***************************************************************************)
EXTENDS CoDispatcherLifeProofs

USE DEF loop, queues, request, accept, control, budget

-----------------------------------------------------------------------------
(* A suspended coroutine has what will wake it.                            *)
Awaits(c) ==
    /\ pc[c] = "idle"      => Rd(c) \in timer.map \/ Entry0(c) \in delay
    /\ pc[c] = "recvWait"  => Rd(c) \in timer.map
    /\ pc[c] = "thirdWait" => BRd(c) \in timer.map
    /\ pc[c] = "sendWait"  => Wr(c) \in timer.map
    /\ pc[c] = "yieldWait" => Now(c) \in tokens \cup resumes

(* The read and the write timer are kept through the stage that set them,  *)
(* and are gone only together with a mark: a dying connection is the one   *)
(* the hook refuses to suspend.                                            *)
TimedOf(c) ==
    /\ c \in flags.third => Sleep(c) \in timer.map
    /\ pc[c] \in {"recv", "recvWoken"} => Rd(c) \in timer.map \/ Dying(c)
    /\ pc[c] \in {"send", "sendWoken"} => Wr(c) \in timer.map \/ Dying(c)
    /\ pc[c] = "recvWait" => Rd(c) \in timer.map \/ Flagged(Orig(c))
    /\ pc[c] = "sendWait" => Wr(c) \in timer.map \/ Flagged(Orig(c))
WakerOf(c) == c \notin free => TimedOf(c) /\ (cur.item \notin Owned(c) => Awaits(c))

ExitInv == phase = "exit" => \A c \in InUse : pc[c] = "yieldWait"
WakeInv == ExitInv /\ \A c \in Conn : WakerOf(c)

(* A step that takes nothing from c of what c waits for.                   *)
Spares(c) ==
    /\ Passes(c) /\ SameTimers(c) /\ (c \in free' <=> c \in free)
    /\ Entry0(c) \in delay => Entry0(c) \in delay'
    /\ Now(c) \in tokens \cup resumes => Now(c) \in tokens' \cup resumes'

LEMMA Spared ==
    ASSUME NEW c \in Conn, WakerOf(c), Spares(c) PROVE WakerOf(c)'
<1> USE Rigid DEF Spares, Passes
<1>n. Now(c)' = Now(c) /\ Entry0(c)' = Entry0(c)
  BY DEF Now, Entry0
<1>f. /\ Flagged(Orig(c)) => Flagged(Orig(c))'
      /\ Dying(c) <=> Dying(c)'
  BY DEF Flagged, Dying
<1>1. TimedOf(c) => TimedOf(c)'
  BY <1>f DEF TimedOf, SameTimers, SameBlocking
<1>2. Awaits(c) => Awaits(c)'
  BY <1>n DEF Awaits, SameTimers
<1> QED BY <1>1, <1>2 DEF WakerOf

(* The loop takes a timer or a queued entry of c only to dispatch c.       *)
LEMMA LoopSpares ==
    ASSUME TypeOK, TimersNamed, LoopInv, Loop \/ Timers, NEW c \in Conn, QueuedOf(c)
    PROVE  Spares(c) \/ Hit(c)
<1> SUFFICES ASSUME ~Hit(c) PROVE Spares(c)
  OBVIOUS
<1>1. Passes(c) /\ (c \in free' <=> c \in free) /\ tokens' = tokens
  BY LoopSplit, LoopFrame DEF Calm
<1>2. SameTimers(c)
  <2>1. CASE Timers
    <3> PICK t \in timer.map : ProcessTimer(t)
      BY <2>1 DEF Timers
    <3>1. t \notin EventsOf(c)
      BY DEF Hit
    <3> QED BY <3>1, Apart DEF ProcessTimer, SameTimers
  <2>2. CASE Loop
    <3>1. UNCHANGED timer
      BY <2>2 DEF Loop, Start, StartWait, CloseAllConnections, EpollWait, StaleEvent,
         ReadEvent, WriteEvent, EventsDone, DelayDone, LoopAgain, LoopEnd, LookAtTimers,
         TimersDone, NextPhase, TakeDelay, TakeResume
    <3> QED BY <3>1 DEF SameTimers
  <2> QED BY <2>1, <2>2
<1>3. Entry0(c) \in delay => Entry0(c) \in delay'
  <2>1. CASE \E d \in delay : TakeDelay(d)
    <3> PICK d \in delay : TakeDelay(d)
      BY <2>1
    <3>1. d # Entry0(c)
      <4>1. Entry0(c)[1] = Orig(c) /\ Entry0(c)[2] = VersionOf(Orig(c))
        BY DEF Entry0, VersionOf, Orig
      <4> QED BY <4>1 DEF Hit, TakeDelay, ResumeProcess
    <3> QED BY <3>1 DEF TakeDelay
  <2>2. CASE ~\E d \in delay : TakeDelay(d)
    BY <2>2 DEF Loop, Timers, ProcessTimer, Start, StartWait, CloseAllConnections, EpollWait,
         StaleEvent, ReadEvent, WriteEvent, EventsDone, DelayDone, LoopAgain, LoopEnd,
         LookAtTimers, TimersDone, NextPhase, TakeResume
  <2> QED BY <2>1, <2>2
<1>4. Now(c) \in resumes => Now(c) \in resumes'
  <2>1. CASE \E r \in resumes : TakeResume(r)
    <3> PICK r \in resumes : TakeResume(r)
      BY <2>1
    <3>1. r # Now(c)
      <4>1. Now(c)[1] = c /\ Now(c)[2] = VersionOf(Orig(c))
        BY DEF Now, VersionOf, Orig
      <4> QED BY <4>1 DEF Hit, TakeResume, ResumeProcess
    <3> QED BY <3>1 DEF TakeResume
  <2>2. CASE ~\E r \in resumes : TakeResume(r)
    BY <2>2 DEF Loop, Timers, ProcessTimer, Start, StartWait, CloseAllConnections, EpollWait,
         StaleEvent, ReadEvent, WriteEvent, EventsDone, DelayDone, LoopAgain, LoopEnd,
         LookAtTimers, TimersDone, NextPhase, TakeDelay
  <2> QED BY <2>1, <2>2
<1> QED BY <1>1, <1>2, <1>3, <1>4 DEF Spares

(* A dispatched connection is looked after by its dispatch: what took its  *)
(* timer marked it.                                                        *)
LEMMA WakerHit ==
    ASSUME Ruled, Loop \/ Timers, NEW c \in Conn, WakerOf(c), Hit(c)
    PROVE  WakerOf(c)'
<1>t. TypeOK /\ TimerInv /\ LoopInv /\ CallOf(c)
  BY DEF Ruled, Base, Safe, SchedInv, SchedOf
<1>f. UNCHANGED <<pc, free>>
  BY <1>t, LoopFrame
<1>p. pc[c] \notin Active
  BY <1>t, LoopTakes DEF CallOf
<1>n. /\ Orig(c) \in Owned(c) /\ Blk(c) \in Owned(c) /\ Orig(c) # Blk(c)
      /\ Orig(c)[1] = c
  BY Apart, Names
<1>1. cur'.item \in Owned(c)
  BY <1>n, EventsNamed DEF Hit, ReadEvent, WriteEvent, ProcessTimer, Dispatch
<1>2. ASSUME UNCHANGED timer, flags'.third = flags.third, Flagged(Orig(c)) => Flagged(Orig(c))'
      PROVE  TimedOf(c) => TimedOf(c)'
  BY <1>2, <1>f, <1>p, Rigid DEF TimedOf, Active, Woken
<1>3. TimedOf(c) => TimedOf(c)'
  <2>1. CASE \E e \in batch : ReadEvent(e)
    <3>1. /\ UNCHANGED timer /\ flags'.third = flags.third
          /\ flags.pendingEof \subseteq flags'.pendingEof
          /\ flags'.timedOut = flags.timedOut /\ flags'.dying = flags.dying
      BY <1>t, <2>1 DEF ReadEvent, TypeOK, FlagSet
    <3> QED BY <1>2, <3>1, Rigid DEF Flagged
  <2>2. CASE (\E e \in batch : WriteEvent(e)) \/ TakeDelay(Entry0(c)) \/ TakeResume(Now(c))
    <3>1. UNCHANGED <<timer, flags>>
      BY <2>2 DEF WriteEvent, TakeDelay, TakeResume
    <3> QED BY <1>2, <3>1, Rigid DEF Flagged
  <2>3. CASE \E t \in timer.map \cap EventsOf(c) : ProcessTimer(t)
    <3> PICK t \in timer.map \cap EventsOf(c) : ProcessTimer(t)
      BY <2>3
    <3>1. t \in {Rd(c), Wr(c), Sleep(c), BRd(c)} /\ timer'.map = timer.map \ {t}
      BY Apart DEF ProcessTimer
    <3>2. CASE t = Sleep(c)
      <4>1. t[1] = Orig(c) /\ t[2] = "sleep" /\ pc[c] \in SleepPC
        BY <1>t, <3>2 DEF Sleep, TimerInv
      <4>2. c \notin flags'.third
        BY <1>t, <1>n, <4>1 DEF ProcessTimer, SleepPreHandler, TypeOK, FlagSet
      <4> QED BY <1>f, <4>1, <4>2, Rigid DEF TimedOf, SleepPC
    <3>3. CASE t \in {Rd(c), Wr(c)}
      <4>1. t[1] = Orig(c) /\ t[2] # "sleep" /\ t # Sleep(c)
        BY <3>3, Apart DEF Rd, Wr
      <4>2. Flagged(Orig(c))' /\ flags'.third = flags.third
        BY <1>t, <4>1, Rigid DEF ProcessTimer, TypeOK, FlagSet, Flagged
      <4> QED BY <1>f, <1>p, <3>1, <4>1, <4>2, Rigid DEF TimedOf, Active, Woken
    <3>4. CASE t = BRd(c)
      <4>1. t[2] # "sleep" /\ t \notin {Rd(c), Wr(c), Sleep(c)}
        BY <3>4, Apart DEF BRd
      <4>2. flags'.third = flags.third /\ (Flagged(Orig(c)) => Flagged(Orig(c))')
        BY <1>t, <4>1, Rigid DEF ProcessTimer, TypeOK, FlagSet, Flagged
      <4> QED BY <1>f, <3>1, <1>p, <4>1, <4>2, Rigid DEF TimedOf, Active, Woken
    <3> QED BY <3>1, <3>2, <3>3, <3>4
  <2> QED BY <2>1, <2>2, <2>3 DEF Hit
<1> QED BY <1>f, <1>1, <1>3, Rigid DEF WakerOf


(* A coroutine that gives the CPU back has armed what will wake it.        *)
LEMMA WakerRow ==
    ASSUME TypeOK, NEW c \in Conn, Row(c), SchedOf(c), WakerOf(c), c \notin free
    PROVE  WakerOf(c)'
<1> USE Rigid DEF Stage, Timed, BlockingIs, FlagsAre
<1>n. /\ Rd(c) # Wr(c) /\ Rd(c) # Sleep(c) /\ Rd(c) # BRd(c)
      /\ Wr(c) # Sleep(c) /\ Wr(c) # BRd(c) /\ Sleep(c) # BRd(c)
      /\ Orig(c) # Blk(c) /\ Orig(c) \in Owned(c)
  BY Apart
<1>r. /\ cur.item \in Owned(c) /\ ~WorkerFree
      /\ (cur' = cur /\ pc'[c] \in Active) \/ (cur' = Nobody /\ pc'[c] \notin Active)
  BY RowFrame, RowRuns
<1>o. TimedOf(c) /\ CallOf(c)
  BY DEF WakerOf, SchedOf
<1>s. c \in flags.third => pc[c] \in SleepPC
  BY <1>o DEF CallOf
<1>0. ASSUME TimedOf(c)', pc'[c] \in Active \/ Awaits(c)' PROVE WakerOf(c)'
  BY <1>0, <1>r DEF WakerOf, Active, Woken
<1>1. CASE Enters(c)
  <2>1. /\ pc[c] \in PC \ Active /\ pc'[c] = Wake(pc[c]) /\ UNCHANGED timer
        /\ pc'[c] \in Active
    BY <1>1, <1>r DEF Enters, Wake, PC, Waiting, Active, Woken
  <2>2. /\ pc'[c] = "recvWoken" => pc[c] = "recvWait"
        /\ pc'[c] = "sendWoken" => pc[c] = "sendWait"
        /\ pc'[c] \notin {"recv", "send", "recvWait", "sendWait"}
    BY <2>1 DEF Wake, PC, Waiting, Active, Woken
  <2>3. pc[c] \in {"recvWait", "sendWait"} => cur.item = Orig(c)
    BY <1>r, <2>1, Apart DEF SchedOf, ReasonOf
  <2>4. TimedOf(c)'
    BY <1>1, <1>o, <2>1, <2>2, <2>3, EnterMarks DEF TimedOf, SchedOf, Dying
  <2> QED BY <1>0, <2>1, <2>4
<1>2. CASE SleepsOn(c)
  <2>1. pc[c] = "sleepWait" /\ pc'[c] = "sleepWait" /\ UNCHANGED timer /\ flags'.third = flags.third
    BY <1>2, <1>s DEF SleepsOn, SleepPC, Active, Woken, DyingIs
  <2> QED BY <1>0, <1>o, <2>1 DEF TimedOf, Awaits
<1>3. CASE ReadRow(c)
  <2>1. c \notin flags'.third
    BY <1>3, <1>s DEF ReadRow, Begins, Reads, ReadsMore, ReadFails, ReadWaits, SleepPC
  <2>2. TimedOf(c)' /\ (pc'[c] \in Active \/ Awaits(c)')
    <3>1. CASE Begins(c) \/ Reads(c) \/ ReadFails(c)
      BY <2>1, <3>1, <1>n DEF Begins, Reads, ReadFails, TimedOf, Active
    <3>2. CASE ReadsMore(c)
      BY <1>o, <2>1, <3>2 DEF ReadsMore, TimedOf, Active, Dying
    <3>3. CASE ReadWaits(c)
      BY <1>o, <2>1, <3>3 DEF ReadWaits, TimedOf, Awaits, Dying
    <3> QED BY <1>3, <3>1, <3>2, <3>3 DEF ReadRow
  <2> QED BY <1>0, <2>2
<1>4. CASE UserRow(c)
  <2>1. CASE Sleeps(c)
    BY <1>0, <2>1 DEF Sleeps, TimedOf, Awaits
  <2>2. CASE SleepEnds(c)
    BY <1>0, <2>2 DEF SleepEnds, TimedOf, Active
  <2>3. CASE ThirdWaits(c)
    BY <1>0, <1>s, <2>3 DEF ThirdWaits, TimedOf, Awaits, SleepPC
  <2>4. CASE ThirdEnds(c)
    BY <1>0, <1>s, <2>4 DEF ThirdEnds, TimedOf, Active, SleepPC
  <2>5. CASE Yields(c)
    <3>1. Now(c)' = Now(c) /\ Now(c) \in tokens'
      BY <2>5 DEF Yields, Now
    <3> QED BY <1>0, <1>s, <2>5, <3>1 DEF Yields, TimedOf, Awaits, SleepPC
  <2>6. CASE YieldEnds(c)
    BY <1>0, <1>s, <2>6 DEF YieldEnds, TimedOf, Active, SleepPC
  <2>7. CASE Returns(c)
    BY <1>0, <1>s, <2>7 DEF Returns, TimedOf, Active, SleepPC
  <2> QED BY <1>4, <2>1, <2>2, <2>3, <2>4, <2>5, <2>6, <2>7 DEF UserRow
<1>5. CASE WriteRow(c)
  <2>1. c \notin flags'.third
    BY <1>5, <1>s DEF WriteRow, WriteEnds, WritesPart, WriteWaits, SleepPC
  <2>2. TimedOf(c)' /\ (pc'[c] \in Active \/ Awaits(c)')
    <3>1. CASE WriteEnds(c) BY <2>1, <3>1 DEF WriteEnds, TimedOf, Active
    <3>2. CASE WritesPart(c)
      BY <1>o, <2>1, <3>2 DEF WritesPart, TimedOf, Active, Dying
    <3>3. CASE WriteWaits(c)
      BY <1>o, <2>1, <3>3 DEF WriteWaits, TimedOf, Awaits, Dying
    <3> QED BY <1>5, <3>1, <3>2, <3>3 DEF WriteRow
  <2> QED BY <1>0, <2>2
<1>6. CASE Closes(c) BY <1>6 DEF Closes, WakerOf
<1>7. CASE Keeps(c)
  <2>1. pc'[c] = "idle" /\ c \notin flags'.third /\ Rd(c) \in timer'.map
    BY <1>7 DEF Keeps, Reset
  <2> QED BY <1>0, <2>1 DEF TimedOf, Awaits
<1> QED BY <1>1, <1>2, <1>3, <1>4, <1>5, <1>6, <1>7 DEF Row, EndRow

LEMMA WakerStep ==
    ASSUME Ruled, [Next]_vars, NEW c \in Conn, WakerOf(c) PROVE WakerOf(c)'
<1>t. /\ TypeOK /\ TimerInv /\ LoopInv /\ TimersNamed /\ QueuedOf(c) /\ CleanOf(c)
      /\ SchedOf(c)
  BY DEF Ruled, Base, Safe, SchedInv, CleanInv
<1>1. CASE Loop \/ Timers
  BY <1>t, <1>1, LoopSpares, WakerHit, Spared
<1>2. CASE Resumer \/ World
  <2>1. /\ UNCHANGED <<cur, batch, delay, free, version, pc, flags, timer>>
        /\ sock.data \subseteq sock'.data /\ sock.eof \subseteq sock'.eof
        /\ sock.room \subseteq sock'.room
        /\ UNCHANGED <<tokens, resumes>> \/ \E t \in tokens : ResumeAsync(t)
    BY <1>t, <1>2, WorldFrame
  <2>2. /\ Now(c) \in tokens' \cup resumes' <=> Now(c) \in tokens \cup resumes
        /\ Now(c) \in tokens' \cap resumes' => Now(c) \in tokens \cap resumes
    BY <2>1 DEF ResumeAsync
  <2>3. Spares(c)
    BY <2>1, <2>2 DEF Spares, Passes, SameBlocking, SameMarks, SameTimers
  <2> QED BY <2>3, Spared
<1>3. CASE ListenEnter \/ Limit \/ Accept
  <2>1. /\ UNCHANGED <<batch, resumes, tokens, pc, flags, timer, version>>
        /\ cur.item \notin Owned(c) /\ cur'.item \notin Owned(c)
        /\ UNCHANGED <<delay, free, sock>> \/ \E d \in Conn : InitConnection(d)
    BY <1>t, <1>3, ListenFrame, ListenApart
  <2>2. CASE c \in free /\ c \notin free'
    <3>1. InitConnection(c)
      BY <2>1, <2>2 DEF InitConnection
    <3>2. Entry0(c)' \in delay' /\ pc'[c] = "idle" /\ c \notin flags'.third
      BY <1>t, <2>1, <2>2, <3>1, Rigid DEF InitConnection, Entry0, CleanOf, Fresh, Unused
    <3> QED BY <3>2, Rigid DEF WakerOf, TimedOf, Awaits
  <2>3. CASE c \in free' BY <2>3 DEF WakerOf
  <2>4. CASE c \notin free
    <3>1. /\ c \notin free' /\ delay \subseteq delay'
          /\ Orig(c) \in sock.data \cup sock.eof => Orig(c) \in sock'.data \cup sock'.eof
          /\ Orig(c) \in sock.room => Orig(c) \in sock'.room
      BY <2>1, <2>4 DEF InitConnection
    <3>2. Spares(c)
      BY <2>1, <2>4, <3>1 DEF Spares, Passes, SameBlocking, SameMarks, SameTimers
    <3> QED BY <3>2, Spared
  <2> QED BY <2>2, <2>3, <2>4
<1>4. CASE \E d \in Conn : Row(d)
  <2> PICK d \in Conn : Row(d)
    BY <1>4
  <2>1. CASE d = c
    <3>1. c \notin free
      BY <1>t, <2>1, RowFrame DEF CleanOf, Fresh, Unused
    <3> QED BY <1>t, <2>1, <3>1, WakerRow
  <2>2. CASE d # c
    <3>1. /\ cur.item \in Owned(d) /\ cur' \in {cur, Nobody} /\ SameOf(c)
          /\ UNCHANGED <<batch, delay, resumes>> /\ (tokens' = tokens \/ Yields(d))
      BY <2>2, RowFrame
    <3>2. cur.item \notin Owned(c)
      BY <2>2, <3>1, Apart
    <3>3. (\A r \in tokens' : r \in tokens \/ r[1] # c) /\ tokens \subseteq tokens'
      BY <2>2, <3>1 DEF Yields
    <3>4. Passes(c)
      BY <3>1, <3>2, <3>3, SameSched
    <3> QED BY <3>1, <3>3, <3>4, Spared DEF Spares, SameOf, SameCall
  <2> QED BY <2>1, <2>2
<1>5. CASE UNCHANGED vars
  BY <1>5, Spared DEF vars, Spares, Passes, SameBlocking, SameMarks, SameTimers
<1> QED BY <1>t, <1>1, <1>2, <1>3, <1>4, <1>5, HandlerRows DEF Next

-----------------------------------------------------------------------------
(* Whoever is in use and does not run waits for something it will get.     *)
LEMMA WakerImplies ==
    ASSUME Ruled, NEW c \in InUse, WakerOf(c), cur.item \notin Owned(c)
    PROVE  \/ timer.map \cap EventsOf(c) # {}
           \/ Entry0(c) \in delay
           \/ pc[c] = "yieldWait" /\ Now(c) \in tokens \cup resumes
<1>1. c \in Conn /\ c \notin free /\ pc[c] \in PC /\ CallOf(c) /\ TimedOf(c) /\ Awaits(c)
  BY DEF InUse, Ruled, Base, Safe, TypeOK, SchedInv, SchedOf, WakerOf
<1>2. pc[c] \notin Active
  BY <1>1 DEF CallOf
<1>3. pc[c] = "sleepWait" => c \in flags.third
  BY <1>1, Apart DEF CallOf
<1>4. pc[c] \in {"idle", "recvWait", "sleepWait", "thirdWait", "yieldWait", "sendWait"}
  BY <1>1, <1>2 DEF PC, Waiting
<1> QED BY <1>1, <1>3, <1>4, Apart DEF Awaits, TimedOf

LEMMA WakeInit == Init => WakeInv
<1> SUFFICES ASSUME Init PROVE WakeInv
  OBVIOUS
<1>1. \A c \in Conn : WakerOf(c)
  BY DEF Init, WakerOf
<1>2. ExitInv
  BY DEF Init, ExitInv
<1> QED BY <1>1, <1>2 DEF WakeInv

LEMMA ExitStep ==
    ASSUME Ruled, WakeInv, [Next]_vars PROVE ExitInv'
<1>t. TypeOK /\ TimerInv /\ LoopInv /\ ExitInv
  BY DEF Ruled, Base, Safe, SchedInv, WakeInv
<1> SUFFICES ASSUME phase' = "exit" PROVE \A c \in InUse' : pc'[c] = "yieldWait"
  BY DEF ExitInv
<1>1. CASE phase = "exit"
  <2>1. WorkerFree /\ cur = Nobody
    BY <1>t, <1>1 DEF LoopInv
  <2>2. ~(Loop \/ Timers)
    BY <1>1 DEF Loop, Timers, ProcessTimer, Start, StartWait, CloseAllConnections, EpollWait,
       StaleEvent, ReadEvent, WriteEvent, EventsDone, DelayDone, LoopAgain, LoopEnd,
       LookAtTimers, TimersDone, NextPhase, TakeDelay, TakeResume
  <2>3. ~Handler
    BY <1>t, <2>1, HandlerRows, RowFrame, ListenFrame
  <2>4. UNCHANGED <<free, pc>>
    BY <1>t, <2>2, <2>3, WorldFrame DEF Next, vars
  <2> QED BY <1>1, <1>t, <2>4 DEF ExitInv, InUse
<1>2. CASE phase # "exit"
  <2>1. Loop
    BY <1>t, <1>2, WorldFrame, ListenFrame, RowFrame, HandlerRows
       DEF Next, vars, Timers, ProcessTimer
  <2>2. phase = "top" /\ timer.map = {} /\ UNCHANGED <<free, pc>>
    BY <1>2, <2>1 DEF Loop, LoopOnly, Start, StartWait, CloseAllConnections, EpollWait,
       StaleEvent, ReadEvent, WriteEvent, EventsDone, DelayDone, LoopAgain, LoopEnd,
       LookAtTimers, TimersDone, NextPhase, TakeDelay, TakeResume, TimersEmpty
  <2>3. delay = {} /\ cur = Nobody
    BY <1>t, <2>2 DEF LoopInv
  <2>4. ASSUME NEW c \in InUse PROVE pc[c] = "yieldWait"
    BY <2>2, <2>3, WakerImplies, ListenApart DEF WakeInv, InUse
  <2> QED BY <2>2, <2>4 DEF InUse
<1> QED BY <1>1, <1>2

LEMMA WakeStep == ASSUME Ruled, WakeInv, [Next]_vars PROVE WakeInv'
BY WakerStep, ExitStep DEF WakeInv

(* Every request that does not run has a timer of its own in the map, a    *)
(* queued entry of its own, or coroutine data another thread still holds:  *)
(* no order of timeouts, closes and resumes leaves a coroutine behind.     *)
THEOREM NobodyForgotten == Spec => []NoForgottenCoroutine
<1>1. Ruled /\ WakeInv => NoForgottenCoroutine
  BY WakerImplies DEF WakeInv, NoForgottenCoroutine, InUse, Entry0, Now
<1>2. Init => Ruled /\ WakeInv
  BY RuledInit, WakeInit
<1>3. Ruled /\ WakeInv /\ [Next]_vars => Ruled' /\ WakeInv'
  BY RuledStep, WakeStep
<1> QED BY <1>1, <1>2, <1>3, PTL DEF Spec

(* The loop of a stopped dispatcher ends when the timer map is empty, and  *)
(* then no request but one in CoDispatcher::yield is left half way.        *)
THEOREM ExitCutsNothing == Spec => []ExitLeavesOnlyYields
<1>1. WakeInv => ExitLeavesOnlyYields
  BY DEF WakeInv, ExitInv, ExitLeavesOnlyYields
<1>2. Init => Ruled /\ WakeInv
  BY RuledInit, WakeInit
<1>3. Ruled /\ WakeInv /\ [Next]_vars => Ruled' /\ WakeInv'
  BY RuledStep, WakeStep
<1> QED BY <1>1, <1>2, <1>3, PTL DEF Spec


-----------------------------------------------------------------------------
(* m_curConnectionSize and the pool.                                       *)

(* Which steps take a connection from the pool or give one back.           *)
LEMMA PoolMoves ==
    ASSUME Ruled, [Next]_vars
    PROVE  \/ UNCHANGED <<free, curSize>>
           \/ \E c \in free : free' = free \ {c} /\ curSize' = curSize + 1
           \/ \E c \in InUse : free' = free \cup {c} /\ curSize' = curSize - 1
<1>t. TypeOK /\ TimerInv
  BY DEF Ruled, Base, Safe
<1>1. CASE Loop \/ Timers BY <1>t, <1>1, LoopFrame
<1>2. CASE Resumer \/ World BY <1>t, <1>2, WorldFrame
<1>3. CASE ListenEnter \/ Limit \/ Accept
  BY <1>t, <1>3, ListenFrame DEF InitConnection
<1>4. CASE \E c \in Conn : Row(c)
  <2> PICK c \in Conn : Row(c)
    BY <1>4
  <2>1. CASE Closes(c)
    <3>1. c \notin free
      BY <2>1, RowFrame DEF Ruled, CleanInv, CleanOf, Fresh, Unused
    <3> QED BY <2>1, <3>1 DEF Closes, InUse
  <2>2. CASE ~Closes(c)
    BY <2>2 DEF Row, SleepsOn, Enters, ReadRow, Begins, Reads, ReadsMore, ReadFails, ReadWaits,
       UserRow, Sleeps, SleepEnds, ThirdWaits, ThirdEnds, Yields, YieldEnds, Returns,
       WriteRow, WriteEnds, WritesPart, WriteWaits, EndRow, Keeps, Stage
  <2> QED BY <2>1, <2>2
<1>5. CASE UNCHANGED vars BY <1>5 DEF vars
<1> QED BY <1>t, <1>1, <1>2, <1>3, <1>4, <1>5, HandlerRows DEF Next

LEMMA SlotsStep ==
    ASSUME Ruled, SlotsCounted, [Next]_vars PROVE SlotsCounted'
<1>t. free \subseteq Conn /\ IsFiniteSet(InUse) /\ curSize = Cardinality(InUse)
      /\ Cardinality(InUse) \in Nat
  BY ConstantAssumption, FS_Subset, FS_CardinalityType
  DEF Ruled, Base, Safe, TypeOK, InUse, SlotsCounted
<1>1. CASE UNCHANGED <<free, curSize>>
  BY <1>1, <1>t DEF SlotsCounted, InUse
<1>2. ASSUME NEW c \in free, free' = free \ {c}, curSize' = curSize + 1 PROVE SlotsCounted'
  <2>1. InUse' = InUse \cup {c} /\ c \notin InUse
    BY <1>2, <1>t DEF InUse
  <2> QED BY <1>2, <1>t, <2>1, FS_AddElement DEF SlotsCounted
<1>3. ASSUME NEW c \in InUse, free' = free \cup {c}, curSize' = curSize - 1 PROVE SlotsCounted'
  <2>1. InUse' = InUse \ {c}
    BY <1>3 DEF InUse
  <2> QED BY <1>3, <1>t, <2>1, FS_RemoveElement DEF SlotsCounted
<1> QED BY <1>1, <1>2, <1>3, PoolMoves

LEMMA SlotsInit == Init => SlotsCounted
<1> SUFFICES ASSUME Init PROVE SlotsCounted
  OBVIOUS
<1>1. InUse = {} /\ curSize = 0
  BY DEF Init, InUse
<1> QED BY <1>1, FS_EmptySet DEF SlotsCounted

(* Every accepted connection is counted once and cleaned up once.          *)
THEOREM SlotsAlwaysCounted == Spec => []SlotsCounted
<1>1. Init => Ruled /\ SlotsCounted
  BY RuledInit, SlotsInit
<1>2. Ruled /\ SlotsCounted /\ [Next]_vars => Ruled' /\ SlotsCounted'
  BY RuledStep, SlotsStep
<1> QED BY <1>1, <1>2, PTL DEF Spec

-----------------------------------------------------------------------------
(* A failed third party socket marks its block connection only.            *)
LEMMA DyingStep ==
    ASSUME Ruled, [Next]_vars, NEW c \in Conn, Orig(c) \in flags'.dying \ flags.dying
    PROVE  cur.item = Orig(c)
<1>t. TypeOK /\ TimerInv
  BY DEF Ruled, Base, Safe
<1>1. CASE Loop \/ Timers
  <2>1. flags'.dying = flags.dying
    BY <1>t, <1>1 DEF TypeOK, FlagSet, SleepPreHandler, Loop, Timers, ProcessTimer, Start,
       StartWait, CloseAllConnections, EpollWait, StaleEvent, ReadEvent, WriteEvent, EventsDone,
       DelayDone, LoopAgain, LoopEnd, LookAtTimers, TimersDone, NextPhase, TakeDelay, TakeResume
  <2> QED BY <2>1
<1>2. CASE \E d \in Conn : Row(d)
  <2> PICK d \in Conn : Row(d)
    BY <1>2
  <2>1. d = c
    BY RowFrame DEF SameOf, SameItem, SameMarks
  <2>2. CASE Enters(c)
    BY <2>2, EnterMarks, <1>t DEF Ruled, SchedInv, SchedOf
  <2>3. CASE SleepsOn(c) BY <2>3 DEF SleepsOn
  <2>4. CASE ~Enters(c) /\ ~SleepsOn(c)
    BY <2>1, <2>4 DEF Row, ReadRow, Begins, Reads, ReadsMore, ReadFails, ReadWaits,
       UserRow, Sleeps, SleepEnds, ThirdWaits, ThirdEnds, Yields, YieldEnds, Returns,
       WriteRow, WriteEnds, WritesPart, WriteWaits, EndRow, Closes, Keeps, Reset,
       BlockingIs, FlagsAre
  <2> QED BY <2>2, <2>3, <2>4
<1> QED BY <1>t, <1>1, <1>2, WorldFrame, ListenFrame, HandlerRows DEF Next, vars

(* Only a dispatch of the client's own connection marks it dying: an error *)
(* or timeout of a third party socket stays with its block connection.     *)
THEOREM ThirdFailuresAreLocal == Spec => ThirdFailureIsLocal
<1>1. Ruled /\ [Next]_vars =>
        [\A c \in Conn : Orig(c) \in flags'.dying \ flags.dying => cur.item = Orig(c)]_vars
  BY DyingStep
<1> QED BY <1>1, RuledInit, RuledStep, PTL DEF Spec, ThirdFailureIsLocal

-----------------------------------------------------------------------------
(* The worker implements CoService.                                        *)

(* A request is kept only if the whole response was sent.                  *)
AnswerOf(c) ==
    /\ c \in answered => pc[c] = "final"
    /\ pc[c] = "final" /\ c \in retOk => c \in answered
AnswerInv == \A c \in Conn : AnswerOf(c)

LEMMA AnswerStep ==
    ASSUME TypeOK, TimerInv, AnswerInv, [Next]_vars PROVE AnswerInv'
<1>0. ASSUME UNCHANGED <<pc, retOk, answered>> PROVE AnswerInv'
  BY <1>0 DEF AnswerInv, AnswerOf
<1>1. CASE \E c \in Conn : Row(c)
  <2> PICK c \in Conn : Row(c)
    BY <1>1
  <2>1. \A d \in Conn \ {c} : AnswerOf(d)'
    BY RowFrame DEF AnswerInv, AnswerOf, SameOf, SameCall
  <2>2. AnswerOf(c)'
    <3> USE DEF AnswerInv, AnswerOf, Stage
    <3>1. CASE Enters(c) \/ SleepsOn(c)
      <4>1. pc[c] \in PC \ Active /\ UNCHANGED <<retOk, answered>>
            /\ (pc'[c] = pc[c] \/ pc'[c] = Wake(pc[c]))
        BY <3>1 DEF Enters, SleepsOn
      <4> QED BY <4>1 DEF PC, Waiting, Active, Woken, Wake
    <3>2. CASE ReadRow(c)
      BY <3>2 DEF ReadRow, Begins, Reads, ReadsMore, ReadFails, ReadWaits
    <3>3. CASE UserRow(c)
      BY <3>3 DEF UserRow, Sleeps, SleepEnds, ThirdWaits, ThirdEnds, Yields, YieldEnds, Returns,
         Handles
    <3>4. CASE WriteRow(c)
      BY <3>4 DEF WriteRow, WriteEnds, WritesPart, WriteWaits
    <3>5. CASE EndRow(c)
      BY <3>5 DEF EndRow, Closes, Keeps, Reset
    <3> QED BY <3>1, <3>2, <3>3, <3>4, <3>5 DEF Row
  <2> QED BY <2>1, <2>2 DEF AnswerInv
<1> QED BY <1>0, <1>1, LoopFrame, WorldFrame, ListenFrame, HandlerRows DEF Next, vars


(* The status of a connection, as clients can tell it.                     *)
Status(c) == IF c \in free THEN "free" ELSE IF pc[c] = "idle" THEN "idle" ELSE "busy"
Statuses  == [c \in Conn |-> Status(c)]

LEMMA LifeInit == Init => Life!Init
BY DEF Init, Life!Init

(* A step that moves at most one connection.                               *)
LEMMA StatusOf ==
    ASSUME NEW c \in Conn, \A d \in Conn \ {c} : SameCall(d)
    PROVE  Statuses' = [Statuses EXCEPT ![c] = Status(c)']
BY DEF Statuses, Status, SameCall

LEMMA StatusSame ==
    ASSUME \A c \in Conn : Status(c)' = Status(c) PROVE Statuses' = Statuses
BY DEF Statuses

LEMMA LifeUsed == ASSUME TypeOK PROVE Life!Used = InUse
BY DEF Life!Used, InUse

(* The steps of CoService in terms of Statuses.                            *)
LEMMA LifeNames ==
    ASSUME NEW c \in Conn
    PROVE  /\ Life!Begin(c) <=> /\ Statuses[c] = "idle"
                                /\ Statuses' = [Statuses EXCEPT ![c] = "busy"]
                                /\ UNCHANGED <<answered, backlog>>
           /\ Life!Answer(c) <=> /\ Statuses[c] = "busy" /\ c \notin answered
                                 /\ answered' = answered \cup {c}
                                 /\ UNCHANGED <<Statuses, backlog>>
           /\ Life!Keep(c) <=> /\ Statuses[c] = "busy" /\ c \in answered
                               /\ answered' = answered \ {c}
                               /\ Statuses' = [Statuses EXCEPT ![c] = "idle"]
                               /\ UNCHANGED backlog
           /\ Life!Close(c) <=> /\ Statuses[c] # "free" /\ answered' = answered \ {c}
                                /\ Statuses' = [Statuses EXCEPT ![c] = "free"]
                                /\ UNCHANGED backlog
           /\ Life!Admit(c) <=> /\ backlog > 0 /\ backlog' = backlog - 1
                                /\ Statuses[c] = "free"
                                /\ Cardinality(Life!Used) < MaxConnections
                                /\ Statuses' = [Statuses EXCEPT ![c] = "idle"]
                                /\ UNCHANGED answered
<1>1. Life!Begin(c) <=> /\ Statuses[c] = "idle"
                        /\ Statuses' = [Statuses EXCEPT ![c] = "busy"]
                        /\ UNCHANGED <<answered, backlog>>
  BY DEF Life!Begin, Life!Becomes, Statuses, Status
<1>2. Life!Answer(c) <=> /\ Statuses[c] = "busy" /\ c \notin answered
                         /\ answered' = answered \cup {c}
                         /\ UNCHANGED <<Statuses, backlog>>
  BY DEF Life!Answer, Statuses, Status
<1>3. Life!Keep(c) <=> /\ Statuses[c] = "busy" /\ c \in answered
                       /\ answered' = answered \ {c}
                       /\ Statuses' = [Statuses EXCEPT ![c] = "idle"]
                       /\ UNCHANGED backlog
  BY DEF Life!Keep, Life!Becomes, Statuses, Status
<1>4. Life!Close(c) <=> /\ Statuses[c] # "free" /\ answered' = answered \ {c}
                        /\ Statuses' = [Statuses EXCEPT ![c] = "free"]
                        /\ UNCHANGED backlog
  BY DEF Life!Close, Life!Becomes, Statuses, Status
<1>5. Life!Admit(c) <=> /\ backlog > 0 /\ backlog' = backlog - 1
                        /\ Statuses[c] = "free"
                        /\ Cardinality(Life!Used) < MaxConnections
                        /\ Statuses' = [Statuses EXCEPT ![c] = "idle"]
                        /\ UNCHANGED answered
  BY DEF Life!Admit, Life!Becomes, Life!Cardinality, Cardinality, Statuses, Status
<1> QED BY <1>1, <1>2, <1>3, <1>4, <1>5

LEMMA LifeStutters ==
    ASSUME UNCHANGED <<answered, backlog>>, \A c \in Conn : Status(c)' = Status(c)
    PROVE  UNCHANGED Life!svars
<1>1. Statuses' = Statuses
  BY StatusSame
<1> QED BY <1>1 DEF Life!svars, Statuses, Status

(* A step of one connection, from its status before and after.             *)
LEMMA LifeSteps ==
    ASSUME NEW c \in Conn, UNCHANGED backlog, \A d \in Conn \ {c} : SameCall(d)
    PROVE  /\ Status(c) = "idle" /\ Status(c)' = "busy" /\ answered' = answered => Life!Begin(c)
           /\ Status(c)' = Status(c) /\ Status(c) = "busy" /\ c \notin answered
                /\ answered' = answered \cup {c} => Life!Answer(c)
           /\ Status(c) = "busy" /\ c \in answered /\ Status(c)' = "idle"
                /\ answered' = answered \ {c} => Life!Keep(c)
           /\ Status(c) # "free" /\ Status(c)' = "free" /\ answered' = answered \ {c}
                => Life!Close(c)
<1>1. Statuses' = [Statuses EXCEPT ![c] = Status(c)']
  BY StatusOf
<1>2. Statuses[c] = Status(c)
  BY DEF Statuses
<1>3. Status(c)' = Status(c) => Statuses' = Statuses
  BY StatusSame DEF Status, SameCall
<1> QED BY <1>1, <1>2, <1>3, LifeNames


(* The accept loop: a client gets a connection, or is lost when the pool   *)
(* is smaller than max_connections and used up.                            *)
LEMMA LifeListen ==
    ASSUME Ruled, SlotsCounted, ListenEnter \/ Limit \/ Accept
    PROVE  [Life!Next]_(Life!svars)
<1>t. TypeOK /\ Capacity /\ \A c \in Conn : CleanOf(c)
  BY DEF Ruled, Base, Safe, CleanInv
<1>f. UNCHANGED <<pc, answered>>
  BY <1>t, ListenFrame
<1>1. CASE UNCHANGED <<free, backlog>>
  BY <1>1, <1>f, LifeStutters DEF Status
<1>2. ASSUME backlog > 0, backlog' = backlog - 1, NEW c \in Conn, ListenAt("accept") \/ ListenAt("acceptWoken"),
             InitConnection(c)
      PROVE  Life!Admit(c)
  <2>1. c \in free /\ free' = free \ {c}
    BY <1>2 DEF InitConnection
  <2>2. Status(c) = "free" /\ Status(c)' = "idle"
    BY <1>t, <1>f, <2>1 DEF Status, CleanOf, Fresh, Unused
  <2>3. \A d \in Conn \ {c} : Status(d)' = Status(d)
    BY <1>f, <2>1 DEF Status
  <2>4. Statuses[c] = "free" /\ Statuses' = [Statuses EXCEPT ![c] = "idle"]
    BY <2>2, <2>3 DEF Statuses
  <2>5. Cardinality(Life!Used) < MaxConnections
    <3>1. curSize < MaxConnections
      BY <1>2, <1>t, ConstantAssumption DEF Capacity, Accepting, ListenAt, TypeOK
    <3> QED BY <3>1, <1>t, LifeUsed DEF SlotsCounted
  <2> QED BY <1>2, <1>f, <2>4, <2>5, LifeNames
<1>3. ASSUME backlog > 0, backlog' = backlog - 1, free = {}, free' = free PROVE Life!Lose
  <2>1. Statuses' = Statuses
    BY <1>3, <1>f, StatusSame DEF Status
  <2>2. Life!Used = Conn
    BY <1>3, <1>t, LifeUsed DEF InUse
  <2> QED BY <1>3, <1>f, <2>1, <2>2 DEF Life!Lose, Statuses, Status
<1>4. \/ UNCHANGED <<free, backlog>>
      \/ /\ backlog > 0 /\ backlog' = backlog - 1
         /\ \/ free = {} /\ free' = free
            \/ /\ ListenAt("accept") \/ ListenAt("acceptWoken")
               /\ \E c \in Conn : InitConnection(c)
  BY DEF ListenEnter, Limit, Accept, NoAccept
<1> QED BY <1>1, <1>2, <1>3, <1>4 DEF Life!Next

(* A handler step is a step of its client's request, or is not seen.       *)
LEMMA LifeRow ==
    ASSUME Ruled, AnswerInv, NEW c \in Conn, Row(c)
    PROVE  [Life!Next]_(Life!svars)
<1>t. TypeOK /\ c \notin free /\ AnswerOf(c)
  BY RowFrame DEF Ruled, Base, Safe, CleanInv, CleanOf, Fresh, Unused, AnswerInv
<1>f. backlog' = backlog /\ \A d \in Conn \ {c} : SameCall(d)
  BY RowFrame DEF SameOf
<1>g. \A d \in Conn \ {c} : Status(d)' = Status(d)
  BY <1>f DEF Status, SameCall
<1>n. Life!Begin(c) \/ Life!Answer(c) \/ Life!Keep(c) \/ Life!Close(c) => Life!Next
  BY DEF Life!Next
<1>1. CASE Keeps(c)
  <2>1. /\ Status(c) = "busy" /\ Status(c)' = "idle"
        /\ c \in answered /\ answered' = answered \ {c}
    BY <1>1, <1>t DEF Keeps, Reset, Status, AnswerOf
  <2> QED BY <2>1, <1>f, <1>n, LifeSteps
<1>2. CASE Closes(c)
  <2>1. Status(c) # "free" /\ Status(c)' = "free" /\ answered' = answered \ {c}
    BY <1>2, <1>t DEF Closes, Reset, Status, AnswerOf
  <2> QED BY <2>1, <1>f, <1>n, LifeSteps
<1>3. CASE WriteRow(c)
  <2>1. Status(c) = "busy" /\ Status(c)' = Status(c) /\ c \notin answered
    BY <1>3, <1>t DEF WriteRow, WriteEnds, WritesPart, WriteWaits, Stage, Status, AnswerOf
  <2>2. answered' = answered \/ answered' = answered \cup {c}
    BY <1>3 DEF WriteRow, WriteEnds, WritesPart, WriteWaits
  <2>3. answered' = answered => UNCHANGED Life!svars
    BY <2>1, <1>f, <1>g, LifeStutters
  <2> QED BY <2>1, <2>2, <2>3, <1>f, <1>n, LifeSteps
<1>4. CASE Enters(c)
  <2>1. /\ pc[c] \in PC \ Active /\ pc'[c] = Wake(pc[c])
        /\ UNCHANGED <<answered, free>>
    BY <1>4 DEF Enters, Stage
  <2>2. CASE pc[c] = "idle"
    <3>1. Status(c) = "idle" /\ Status(c)' = "busy"
      BY <2>1, <2>2, <1>t DEF Status, Wake
    <3> QED BY <2>1, <3>1, <1>f, <1>n, LifeSteps
  <2>3. CASE pc[c] # "idle"
    <3>1. Status(c)' = Status(c)
      BY <2>1, <2>3, <1>t DEF Status, Wake, PC, Waiting, Active
    <3> QED BY <2>1, <3>1, <1>f, <1>g, LifeStutters
  <2> QED BY <2>2, <2>3
<1>5. CASE SleepsOn(c) \/ ReadRow(c) \/ UserRow(c)
  <2>1. Status(c)' = Status(c) /\ answered' = answered
    BY <1>5, <1>t DEF SleepsOn, ReadRow, Begins, Reads, ReadsMore, ReadFails, ReadWaits,
       UserRow, Sleeps, SleepEnds, ThirdWaits, ThirdEnds, Yields, YieldEnds, Returns, Handles,
       Stage, Status
  <2> QED BY <2>1, <1>f, <1>g, LifeStutters
<1> QED BY <1>1, <1>2, <1>3, <1>4, <1>5 DEF Row, EndRow

LEMMA LifeStep ==
    ASSUME Ruled, SlotsCounted, AnswerInv, [Next]_vars
    PROVE  [Life!Next]_(Life!svars)
<1>t. TypeOK /\ TimerInv
  BY DEF Ruled, Base, Safe
<1>0. ASSUME UNCHANGED <<pc, free, answered, backlog>> PROVE UNCHANGED Life!svars
  BY <1>0, LifeStutters DEF Status
<1>1. CASE Loop \/ Timers
  BY <1>0, <1>1, <1>t, LoopFrame
<1>2. CASE Resumer \/ World
  <2>1. UNCHANGED <<pc, free, answered>>
    BY <1>2, <1>t, WorldFrame
  <2>2. CASE ClientConnects
    <3>1. Statuses' = Statuses
      BY <2>1, StatusSame DEF Status
    <3> QED BY <2>1, <2>2, <3>1 DEF ClientConnects, Life!Next, Life!Arrive, Statuses, Status
  <2>3. CASE ~ClientConnects
    BY <1>0, <1>2, <2>1, <2>3 DEF Resumer, World, ResumeAsync, Stop, DataArrives, PeerCloses,
       PeerReads
  <2> QED BY <2>2, <2>3
<1>3. CASE UNCHANGED vars BY <1>0, <1>3 DEF vars
<1> QED BY <1>t, <1>1, <1>2, <1>3, LifeListen, LifeRow, HandlerRows DEF Next

(* Every behaviour of the worker is one of CoService: a client is admitted *)
(* within max_connections, its request begins, is answered once, and only  *)
(* a connection whose whole response was sent is kept for another request. *)
THEOREM ImplementsService == Spec => Implements
<1> DEFINE I == Ruled /\ SlotsCounted /\ AnswerInv
<1>1. Init => I /\ Life!Init
  <2>1. Init => AnswerInv
    BY DEF Init, AnswerInv, AnswerOf
  <2> QED BY <2>1, RuledInit, SlotsInit, LifeInit
<1>2. I /\ [Next]_vars => I'
  BY RuledStep, SlotsStep, AnswerStep DEF Ruled, Base, Safe
<1>3. I /\ [Next]_vars => [Life!Next]_(Life!svars)
  BY LifeStep
<1> QED BY <1>1, <1>2, <1>3, PTL DEF Spec, Implements, Life!Safe


-----------------------------------------------------------------------------
(* Edge triggered readiness.  An edge epoll reported once is not reported  *)
(* again, so each condition of a socket must still be queued, be in the    *)
(* batch under the version of this use, or have been passed on.            *)
Pending(c, evs) ==
    \/ Orig(c) \in ep.armed
    \/ \E e \in batch : Current(e, c) /\ e.ev \cap evs # {}
Called(c) == cur.item = Orig(c) \/ Entry0(c) \in delay
WriteLeft(c) == \E e \in batch : e.item = Orig(c) /\ e.again /\ "out" \in e.ev

(* The end of the stream: queued in epoll, or in the batch, or marked.     *)
EofOf(c) ==
    Orig(c) \in sock.eof /\ "rdhup" \in ep.ev[Orig(c)] => Pending(c, {"rdhup"}) \/ Gone(c)
IdleOf(c) == pc[c] = "idle" => Called(c) \/ ep.ev[Orig(c)] = READ
ReadOf(c) ==
    pc[c] \in {"idle", "recvWait"} /\ Orig(c) \in sock.data \cup sock.eof
        => Called(c) \/ Pending(c, READ)
SendOf(c) ==
    pc[c] = "sendWait" /\ Orig(c) \in sock.room
        => Called(c) \/ Pending(c, {"out"}) \/ WriteLeft(c)
EdgeOf(c) == EofOf(c) /\ IdleOf(c) /\ ReadOf(c) /\ SendOf(c)
EdgeInv == \A c \in InUse : EdgeOf(c)

LEMMA EdgeSame ==
    ASSUME NEW c \in Conn, EdgeOf(c), pc'[c] = pc[c], version'[c] = version[c],
           SameWatch(Orig(c)), SameSocket(Orig(c)),
           Orig(c) \in ep.armed => Orig(c) \in ep'.armed,
           UNCHANGED batch, Called(c) => Called(c)', Gone(c) => Gone(c)'
    PROVE  EdgeOf(c)'
<1> USE Rigid
<1>1. (\A evs : Pending(c, evs) => Pending(c, evs)') /\ (WriteLeft(c) => WriteLeft(c)')
  BY DEF Pending, WriteLeft, Current
<1>2. EofOf(c)' /\ IdleOf(c)' /\ ReadOf(c)' /\ SendOf(c)'
  BY <1>1 DEF EdgeOf, EofOf, IdleOf, ReadOf, SendOf, SameWatch, SameSocket
<1> QED BY <1>2 DEF EdgeOf

(* epoll_wait moves a queued edge of a condition that holds to the batch.  *)
LEMMA EdgeHanded ==
    ASSUME TypeOK, LoopInv, EpollWait, NEW c \in Conn, WatchOf(c), EdgeOf(c)
    PROVE  EdgeOf(c)'
<1> USE Rigid
<1> DEFINE h == Handed(Orig(c))
<1>f. UNCHANGED <<pc, version, sock, delay, cur, flags>> /\ ep'.ev = ep.ev /\ batch = {}
  BY DEF EpollWait, LoopOnly, LoopInv, TypeOK, EpSet
<1>n. Orig(c) \in Item /\ Entry0(c)' = Entry0(c)
  BY <1>f, Names DEF Entry0
<1>1. Orig(c) \in ep.armed /\ ep.ev[Orig(c)] \cap Cond(Orig(c)) # {} => h \in batch'
  BY <1>n DEF EpollWait, Handed
<1>2. /\ h.item = Orig(c) /\ ~h.again /\ h.ev = ep.ev[Orig(c)] \cap Cond(Orig(c))
      /\ ep.ev[Orig(c)] # {} => h.ver = version[c]
  BY DEF Handed, WatchOf
<1> HIDE DEF h
<1>3. ASSUME NEW x, x \in ep.ev[Orig(c)] \cap Cond(Orig(c)), NEW evs, x \in evs, Pending(c, evs)
      PROVE  Pending(c, evs)'
  <2>1. PICK e \in batch' : e = h
    BY <1>1, <1>3, <1>f DEF Pending
  <2>2. Current(e, c)' /\ x \in e.ev
    BY <2>1, <1>2, <1>3, <1>f DEF Current
  <2> QED BY <1>3, <2>2 DEF Pending
<1>4. ~WriteLeft(c) /\ (Called(c) => Called(c)') /\ (Gone(c) => Gone(c)')
  BY <1>f, <1>n DEF WriteLeft, Called, Gone
<1>5. /\ Orig(c) \in sock.data \cup sock.eof => "in" \in Cond(Orig(c))
      /\ Orig(c) \in sock.eof => "rdhup" \in Cond(Orig(c))
      /\ Orig(c) \in sock.room => "out" \in Cond(Orig(c))
  BY DEF Cond
<1>6. EofOf(c)'
  BY <1>3, <1>4, <1>5, <1>f DEF EdgeOf, EofOf
<1>7. IdleOf(c)'
  BY <1>4, <1>f DEF EdgeOf, IdleOf
<1>8. ReadOf(c)'
  <2>1. pc[c] \in {"idle", "recvWait"} => Called(c) \/ "in" \in ep.ev[Orig(c)]
    BY DEF EdgeOf, IdleOf, WatchOf, RecvPC, READ
  <2>2. "in" \in READ
    BY DEF READ
  <2> QED BY <2>1, <2>2, <1>3, <1>4, <1>5, <1>f DEF EdgeOf, ReadOf
<1>9. SendOf(c)'
  <2>1. pc[c] = "sendWait" => "out" \in ep.ev[Orig(c)]
    BY DEF WatchOf, SendPC
  <2> QED BY <2>1, <1>3, <1>4, <1>5, <1>f DEF EdgeOf, SendOf
<1> QED BY <1>6, <1>7, <1>8, <1>9 DEF EdgeOf


(* The other steps of the loop drop an entry of a connection only when it  *)
(* is of an earlier use, or dispatch the connection with it.               *)
LEMMA EdgeDropped ==
    ASSUME TypeOK, LoopInv, Loop \/ Timers, ~EpollWait, NEW c \in Conn, WatchOf(c),
           NEW e \in batch, e.item = Orig(c), e \notin batch'
    PROVE  \/ cur'.item = Orig(c) /\ ("rdhup" \in e.ev => Gone(c)' \/ ~ReadActive(Orig(c)) \/ e.again)
           \/ ~Current(e, c) /\ ~e.again
           \/ /\ e.again \/ ~(e.ev \cap READ # {} /\ ReadActive(Orig(c)))
              /\ ~("out" \in e.ev /\ WriteActive(Orig(c)))
<1>v. VersionOf(Orig(c)) = version[c] /\ Orig(c) # Lsn
  BY Names, ListenApart DEF VersionOf, Orig
<1>1. StaleEvent(e) \/ ReadEvent(e) \/ WriteEvent(e)
  BY DEF Loop, Timers, ProcessTimer, Start, StartWait, CloseAllConnections, StaleEvent,
     ReadEvent, WriteEvent, EventsDone, DelayDone, LoopAgain, LoopEnd, LookAtTimers,
     TimersDone, NextPhase, TakeDelay, TakeResume
<1>2. CASE StaleEvent(e)
  BY <1>2, <1>v DEF StaleEvent, Current
<1>3. CASE ReadEvent(e)
  <2>1. cur'.item = Orig(c)
    BY <1>3 DEF ReadEvent, Dispatch
  <2>2. "rdhup" \in e.ev => Orig(c) \in flags'.pendingEof
    BY <1>3 DEF ReadEvent, TypeOK, FlagSet
  <2> QED BY <2>1, <2>2, Rigid DEF Gone
<1>4. CASE WriteEvent(e)
  <2>1. e.again \/ ~(e.ev \cap READ # {} /\ ReadActive(Orig(c)))
    BY <1>4, <1>v DEF WriteEvent, IsReadable
  <2>2. "rdhup" \in e.ev => e.ev \cap READ # {}
    BY DEF READ
  <2>3. "out" \in e.ev /\ WriteActive(Orig(c)) => cur'.item = Orig(c)
    BY <1>4, <1>v DEF WriteEvent, IsWritable, Dispatch
  <2> QED BY <2>1, <2>2, <2>3
<1> QED BY <1>1, <1>2, <1>3, <1>4

LEMMA EdgeLoop ==
    ASSUME TypeOK, LoopInv, Loop \/ Timers, ~EpollWait, NEW c \in Conn, WatchOf(c), EdgeOf(c)
    PROVE  EdgeOf(c)'
<1> USE Rigid
<1>f. UNCHANGED <<pc, version, sock>> /\ ep'.ev = ep.ev
  BY LoopFrame
<1>a. Orig(c) \in ep.armed => Orig(c) \in ep'.armed
  BY DEF Loop, Timers, ProcessTimer, Start, StartWait, CloseAllConnections, StaleEvent,
     ReadEvent, WriteEvent, EventsDone, DelayDone, LoopAgain, LoopEnd, LookAtTimers,
     TimersDone, NextPhase, TakeDelay, TakeResume
<1>g. Gone(c) => Gone(c)'
  <2>1. Loop => flags'.dying = flags.dying /\ flags.pendingEof \subseteq flags'.pendingEof
    BY DEF Loop, Start, StartWait, CloseAllConnections, StaleEvent, ReadEvent, WriteEvent,
       EventsDone, DelayDone, LoopAgain, LoopEnd, LookAtTimers, TimersDone, NextPhase,
       TakeDelay, TakeResume, TypeOK, FlagSet
  <2>2. Timers => flags'.dying = flags.dying /\ flags'.pendingEof = flags.pendingEof
    BY DEF Timers, ProcessTimer, SleepPreHandler, TypeOK, FlagSet
  <2> QED BY <2>1, <2>2 DEF Gone
<1>n. Entry0(c)' = Entry0(c) /\ Entry0(c)[1] = Orig(c) /\ Entry0(c)[2] = VersionOf(Orig(c))
  BY <1>f DEF Entry0, VersionOf, Orig
<1>c. Called(c) => Called(c)'
  <2>1. cur.item # Orig(c)
    BY LoopTakes, ListenApart, Names
  <2>2. Entry0(c) \in delay => Entry0(c) \in delay' \/ cur'.item = Orig(c)
    <3>1. CASE \E d \in delay : TakeDelay(d)
      BY <3>1, <1>n DEF TakeDelay, ResumeProcess, Dispatch
    <3>2. CASE ~\E d \in delay : TakeDelay(d)
      BY <3>2 DEF Loop, Timers, ProcessTimer, Start, StartWait, CloseAllConnections, StaleEvent,
         ReadEvent, WriteEvent, EventsDone, DelayDone, LoopAgain, LoopEnd, LookAtTimers,
         TimersDone, NextPhase, TakeResume
    <3> QED BY <3>1, <3>2
  <2> QED BY <2>1, <2>2, <1>n DEF Called
<1>e. \A e \in batch' : e \in batch => (Current(e, c)' <=> Current(e, c))
  BY <1>f DEF Current
<1>d. \A e \in batch : e.item = Orig(c) =>
        \/ e \in batch'
        \/ cur'.item = Orig(c) /\ ("rdhup" \in e.ev => Gone(c)' \/ ~ReadActive(Orig(c)) \/ e.again)
        \/ ~Current(e, c) /\ ~e.again
        \/ /\ e.again \/ ~(e.ev \cap READ # {} /\ ReadActive(Orig(c)))
           /\ ~("out" \in e.ev /\ WriteActive(Orig(c)))
  BY EdgeDropped
<1>1. EofOf(c)'
  <2> SUFFICES ASSUME Orig(c) \in sock.eof, "rdhup" \in ep.ev[Orig(c)]
               PROVE  Pending(c, {"rdhup"})' \/ Gone(c)'
    BY <1>f DEF EofOf
  <2>1. ReadActive(Orig(c))
    BY DEF ReadActive, READ
  <2>2. ASSUME NEW e \in batch, Current(e, c), e.ev \cap {"rdhup"} # {}
        PROVE  Pending(c, {"rdhup"})' \/ Gone(c)'
    BY <2>1, <2>2, <1>d, <1>e DEF Current, Pending, READ
  <2> QED BY <2>2, <1>a, <1>g DEF EdgeOf, EofOf, Pending
<1>2. IdleOf(c)'
  BY <1>c, <1>f DEF EdgeOf, IdleOf
<1>3. ReadOf(c)'
  <2> SUFFICES ASSUME pc[c] \in {"idle", "recvWait"}, Orig(c) \in sock.data \cup sock.eof,
                      ~Called(c)
               PROVE  Called(c)' \/ Pending(c, READ)'
    BY <1>c, <1>f DEF ReadOf
  <2>1. ReadActive(Orig(c))
    BY DEF EdgeOf, IdleOf, WatchOf, RecvPC, ReadActive, READ
  <2>2. ASSUME NEW e \in batch, Current(e, c), e.ev \cap READ # {}
        PROVE  Called(c)' \/ Pending(c, READ)'
    BY <2>1, <2>2, <1>d, <1>e DEF Current, Pending, Called
  <2> QED BY <2>2, <1>a DEF EdgeOf, ReadOf, Pending
<1>4. SendOf(c)'
  <2> SUFFICES ASSUME pc[c] = "sendWait", Orig(c) \in sock.room, ~Called(c)
               PROVE  Called(c)' \/ Pending(c, {"out"})' \/ WriteLeft(c)'
    BY <1>c, <1>f DEF SendOf
  <2>1. WriteActive(Orig(c))
    BY DEF WatchOf, SendPC, WriteActive
  <2>2. ASSUME NEW e \in batch, Current(e, c), e.ev \cap {"out"} # {}
        PROVE  Called(c)' \/ Pending(c, {"out"})'
    BY <2>1, <2>2, <1>d, <1>e DEF Current, Pending, Called
  <2>3. ASSUME NEW e \in batch, e.item = Orig(c), e.again, "out" \in e.ev
        PROVE  Called(c)' \/ WriteLeft(c)'
    BY <2>1, <2>3, <1>d DEF WriteLeft, Called
  <2> QED BY <2>2, <2>3, <1>a DEF EdgeOf, SendOf, Pending, WriteLeft
<1> QED BY <1>1, <1>2, <1>3, <1>4 DEF EdgeOf


(* What a peer does to its socket queues an edge if epoll watches for it.  *)
LEMMA EdgeQueued ==
    ASSUME TypeOK, Resumer \/ World, NEW i \in Item
    PROVE  /\ i \in sock'.data \ sock.data => i \in ep'.armed \/ "in" \notin ep.ev[i]
           /\ i \in sock'.eof \ sock.eof => i \in ep'.armed \/ ep.ev[i] \cap READ = {}
           /\ i \in sock'.room \ sock.room => i \in ep'.armed \/ "out" \notin ep.ev[i]
<1>e. ASSUME NEW j \in Item, NEW evs, Edge(j, evs)
      PROVE  j \in ep'.armed \/ evs \cap ep.ev[j] = {}
  BY <1>e DEF Edge, TypeOK, EpSet
<1>1. CASE UNCHANGED sock
  BY <1>1
<1>2. ASSUME NEW j \in Item, DataArrives(j)
      PROVE  /\ sock'.data \subseteq sock.data \cup {j} /\ sock'.eof = sock.eof
             /\ sock'.room = sock.room /\ (j \in ep'.armed \/ "in" \notin ep.ev[j])
  BY <1>2, <1>e DEF DataArrives, TypeOK, SockSet
<1>3. ASSUME NEW j \in Item, PeerCloses(j)
      PROVE  /\ sock'.eof \subseteq sock.eof \cup {j} /\ sock'.data = sock.data
             /\ sock'.room = sock.room /\ (j \in ep'.armed \/ ep.ev[j] \cap READ = {})
  BY <1>3, <1>e DEF PeerCloses, TypeOK, SockSet
<1>4. ASSUME NEW c \in Conn, PeerReads(c)
      PROVE  /\ sock'.room \subseteq sock.room \cup {Orig(c)} /\ sock'.data = sock.data
             /\ sock'.eof = sock.eof /\ (Orig(c) \in ep'.armed \/ "out" \notin ep.ev[Orig(c)])
  <2>1. Orig(c) \in Item
    BY Names
  <2> QED BY <2>1, <1>4, <1>e DEF PeerReads, TypeOK, SockSet
<1> QED BY <1>1, <1>2, <1>3, <1>4 DEF Resumer, World, ResumeAsync, ClientConnects, Stop

LEMMA EdgeWorld ==
    ASSUME TypeOK, Resumer \/ World, NEW c \in Conn, WatchOf(c), EdgeOf(c)
    PROVE  EdgeOf(c)'
<1> USE Rigid
<1>f. /\ UNCHANGED <<cur, batch, delay, version, pc, flags>>
      /\ ep'.ev = ep.ev /\ ep.armed \subseteq ep'.armed
  BY WorldFrame
<1>1. (\A evs : Pending(c, evs) => Pending(c, evs)') /\ (WriteLeft(c) => WriteLeft(c)')
  BY <1>f DEF Pending, WriteLeft, Current
<1>2. (Called(c) => Called(c)') /\ (Gone(c) => Gone(c)')
  BY <1>f DEF Called, Gone, Entry0
<1>q. /\ Orig(c) \in sock'.data \ sock.data => Pending(c, READ)' \/ "in" \notin ep.ev[Orig(c)]
      /\ Orig(c) \in sock'.eof \ sock.eof
           => (Pending(c, READ)' /\ Pending(c, {"rdhup"})') \/ ep.ev[Orig(c)] \cap READ = {}
      /\ Orig(c) \in sock'.room \ sock.room => Pending(c, {"out"})' \/ "out" \notin ep.ev[Orig(c)]
  <2>1. Orig(c) \in Item
    BY Names
  <2> QED BY <2>1, EdgeQueued DEF Pending
<1>3. EofOf(c)'
  BY <1>1, <1>2, <1>f, <1>q DEF EdgeOf, EofOf, READ
<1>4. IdleOf(c)'
  BY <1>2, <1>f DEF EdgeOf, IdleOf
<1>5. ReadOf(c)'
  <2>1. pc[c] \in {"idle", "recvWait"} => Called(c) \/ ep.ev[Orig(c)] = READ
    BY DEF EdgeOf, IdleOf, WatchOf, RecvPC
  <2>2. "in" \in READ /\ READ \cap READ # {}
    BY DEF READ
  <2> QED BY <2>1, <2>2, <1>1, <1>2, <1>f, <1>q DEF EdgeOf, ReadOf
<1>6. SendOf(c)'
  <2>1. pc[c] = "sendWait" => "out" \in ep.ev[Orig(c)]
    BY DEF WatchOf, SendPC
  <2> QED BY <2>1, <1>1, <1>2, <1>f, <1>q DEF EdgeOf, SendOf
<1> QED BY <1>3, <1>4, <1>5, <1>6 DEF EdgeOf

(* The accept loop: init_connection dispatches the new connection, which   *)
(* may have data already, before epoll watches it.                         *)
LEMMA EdgeListen ==
    ASSUME TypeOK, ListenEnter \/ Limit \/ Accept, NEW c \in Conn, c \notin free',
           c \in free => Unused(c), c \notin free => EdgeOf(c)
    PROVE  EdgeOf(c)'
<1> USE Rigid
<1>f. /\ UNCHANGED <<batch, pc, flags, version>> /\ cur.item # Orig(c)
      /\ SameWatch(Orig(c)) /\ (Orig(c) \in ep.armed => Orig(c) \in ep'.armed)
      /\ \/ UNCHANGED <<delay, free, sock>>
         \/ cur' = cur /\ \E d \in Conn : InitConnection(d)
  BY ListenFrame, ListenApart, Names DEF SameWatch
<1>1. CASE UNCHANGED <<delay, free, sock>>
  <2>1. Called(c) => Called(c)'
    BY <1>1, <1>f DEF Called, Entry0
  <2>2. Gone(c) => Gone(c)'
    BY <1>f DEF Gone
  <2> QED BY <1>1, <1>f, <2>1, <2>2, EdgeSame DEF SameSocket
<1>2. ASSUME NEW d \in Conn, InitConnection(d), cur' = cur PROVE EdgeOf(c)'
  <2>1. CASE d = c
    <3>1. Called(c)' /\ pc'[c] = "idle" /\ ep'.ev[Orig(c)] = {}
      BY <1>2, <2>1, <1>f DEF InitConnection, Called, Entry0, Unused, SameWatch
    <3> QED BY <3>1 DEF EdgeOf, EofOf, IdleOf, ReadOf, SendOf
  <2>2. CASE d # c
    <3>1. c \notin free /\ SameSocket(Orig(c)) /\ delay \subseteq delay'
      BY <1>2, <2>2, Apart DEF InitConnection, SameSocket
    <3>2. (Called(c) => Called(c)') /\ (Gone(c) => Gone(c)')
      BY <1>2, <1>f, <3>1 DEF Called, Entry0, Gone
    <3> QED BY <1>f, <3>1, <3>2, EdgeSame
  <2> QED BY <2>1, <2>2
<1> QED BY <1>1, <1>2, <1>f


(* A change of the registration of j from e to f makes the kernel look at  *)
(* the socket again: an end of the stream it watches is queued once more.  *)
Looks(e, f, j) ==
    j \in sock.eof /\ "rdhup" \in f.ev[j] =>
        j \in f.armed \/ ("rdhup" \in e.ev[j] /\ (j \in e.armed => j \in f.armed))

LEMMA LooksOps ==
    ASSUME NEW e \in EpSet, NEW i \in Item, NEW j \in Item, NEW evs \in SUBSET Ev, NEW v \in Nat
    PROVE  Looks(e, AddEvents(e, i, evs, v), j) /\ Looks(e, DelEvents(e, i, evs, v), j)
<1>1. ASSUME NEW s \in SUBSET Ev PROVE Looks(e, Modify(e, i, s, v), j)
  <2>1. CASE Modify(e, i, s, v) = e
    BY <2>1 DEF Looks
  <2>2. CASE Modify(e, i, s, v) = Register(e, i, s, v) /\ i = j
    <3> DEFINE r == Register(e, i, s, v)
    <3>1. r.ev[j] = s /\ (s \cap Cond(j) # {} => j \in r.armed)
      BY <2>2 DEF Register, EpSet
    <3>2. j \in sock.eof /\ "rdhup" \in s => s \cap Cond(j) # {}
      BY DEF Cond
    <3> QED BY <2>2, <3>1, <3>2 DEF Looks
  <2>3. CASE Modify(e, i, s, v) = Register(e, i, s, v) /\ i # j
    <3> DEFINE r == Register(e, i, s, v)
    <3>1. r.ev[j] = e.ev[j] /\ (j \in r.armed <=> j \in e.armed)
      BY <2>3 DEF Register, EpSet
    <3> QED BY <2>3, <3>1 DEF Looks
  <2> QED BY <2>1, <2>2, <2>3 DEF Modify
<1>2. e.ev[i] \cup evs \in SUBSET Ev /\ e.ev[i] \ evs \in SUBSET Ev
  BY DEF EpSet
<1> QED BY <1>1, <1>2 DEF AddEvents, DelEvents

LEMMA LooksTwice ==
    ASSUME NEW e, NEW f, NEW g, NEW j, Looks(e, f, j), Looks(f, g, j) PROVE Looks(e, g, j)
BY DEF Looks

LEMMA HandlerLooks ==
    ASSUME TypeOK, TimerInv, Handler, NEW j \in Item
    PROVE  \/ \E c \in Conn : Closes(c)
           \/ ListenEnter \/ Limit \/ Accept
           \/ Looks(ep, ep', j)
<1>0. UNCHANGED ep => Looks(ep, ep', j)
  BY DEF Looks
<1>t. ep \in EpSet /\ 0 \in Nat
  BY DEF TypeOK
<1>c. ASSUME NEW c \in Conn
      PROVE  /\ version[c] \in Nat /\ version[c] + 1 \in Nat /\ Orig(c) \in Item /\ Blk(c) \in Item
             /\ IgnoreInput(c) \in EpSet
             /\ Looks(ep, IgnoreInput(c), j)
             /\ Looks(ep, AddEvents(IgnoreInput(c), Orig(c), {"out"}, version[c]), j)
             /\ \A evs \in SUBSET Ev :
                   /\ Looks(ep, AddEvents(ep, Orig(c), evs, version[c]), j)
                   /\ Looks(ep, DelEvents(ep, Orig(c), evs, version[c]), j)
                   /\ Looks(ep, AddEvents(ep, Blk(c), evs, 0), j)
                   /\ Looks(ep, DelEvents(ep, Blk(c), evs, 0), j)
  <2>1. /\ version[c] \in Nat /\ version[c] + 1 \in Nat /\ Orig(c) \in Item /\ Blk(c) \in Item
        /\ IgnoreInput(c) \in EpSet
    <3>1. version[c] \in Nat /\ Orig(c) \in Item /\ Blk(c) \in Item
      BY Names DEF TypeOK
    <3>2. IgnoreInput(c) \in EpSet
      BY StageOps
    <3> QED BY <3>1, <3>2
  <2>2. \A e \in EpSet, evs \in SUBSET Ev :
           /\ Looks(e, AddEvents(e, Orig(c), evs, version[c]), j)
           /\ Looks(e, DelEvents(e, Orig(c), evs, version[c]), j)
           /\ Looks(e, AddEvents(e, Blk(c), evs, 0), j)
           /\ Looks(e, DelEvents(e, Blk(c), evs, 0), j)
    BY <2>1, <1>t, LooksOps
  <2>3. Looks(ep, IgnoreInput(c), j)
    BY <2>2, <1>t, EventSets DEF IgnoreInput
  <2>4. Looks(IgnoreInput(c), AddEvents(IgnoreInput(c), Orig(c), {"out"}, version[c]), j)
    BY <2>1, <2>2, EventSets
  <2> QED BY <2>1, <2>2, <2>3, <2>4, <1>t, LooksTwice
<1>1. ASSUME NEW i \in Item, WaitThirdFunc(i) \/ Enter(i) PROVE Looks(ep, ep', j)
  BY <1>1, <1>0 DEF WaitThirdFunc, Enter
<1>2. ASSUME NEW i \in Item, FreeIdleConnection(i) PROVE \E c \in Conn : Closes(c)
  <2>1. i[1] \in Conn /\ i = Orig(i[1])
    BY <1>2, Items DEF FreeIdleConnection
  <2> QED BY <1>2, <2>1, CloseRow
<1>3. ASSUME NEW c \in Conn, RequestInit(c) \/ Recv(c) \/ RecvResumed(c) PROVE Looks(ep, ep', j)
  <2>1. \/ UNCHANGED ep \/ ep' = AddEvents(ep, Orig(c), READ, version[c])
        \/ ep' = IgnoreInput(c)
        \/ ep' = AddEvents(IgnoreInput(c), Orig(c), {"out"}, version[c])
    BY <1>3 DEF RequestInit, Recv, RecvResumed, Decode, RecvFails, RequestProcess, FailRead,
       RequestWrite
  <2> QED BY <2>1, <1>0, <1>c, EventSets
<1>4. ASSUME NEW c \in Conn,
             \/ UserSleep(c) \/ SleepResumed(c) \/ UserThirdSocket(c) \/ ThirdResumed(c)
             \/ UserYield(c) \/ YieldResumed(c) \/ UserReturn(c)
      PROVE  Looks(ep, ep', j)
  <2>1. \/ UNCHANGED ep
        \/ ep' = AddEvents(ep, Blk(c), READ, 0) \/ ep' = DelEvents(ep, Blk(c), READ, 0)
        \/ ep' = AddEvents(ep, Orig(c), {"out"}, version[c])
    BY <1>4 DEF UserSleep, SleepResumed, UserThirdSocket, ThirdResumed, UserYield, YieldResumed,
       UserReturn, RequestWrite
  <2> QED BY <2>1, <1>0, <1>c, EventSets
<1>5. ASSUME NEW c \in Conn, Send(c) \/ SendResumed(c) PROVE Looks(ep, ep', j)
  <2>1. UNCHANGED ep \/ ep' = DelEvents(ep, Orig(c), {"out"}, version[c])
    BY <1>5 DEF Send, SendResumed, Written, WriteFails, EndWrite
  <2> QED BY <2>1, <1>0, <1>c, EventSets
<1>6. ASSUME NEW c \in Conn, RequestFinalize(c) PROVE Closes(c) \/ Looks(ep, ep', j)
  <2>1. CASE c \notin retOk BY <2>1, <1>6, CloseRow
  <2>2. CASE c \in retOk
    <3> DEFINE v == version[c] + 1
               e == AddEvents(ep, Orig(c), {"in"}, v)
    <3>1. ep' = DelEvents(e, Orig(c), {"out"}, v)
      BY <1>6, <2>2 DEF RequestFinalize, FreeRequestConnection, KeepAlive
    <3>2. e \in EpSet /\ Looks(ep, e, j) /\ v \in Nat /\ Orig(c) \in Item
      BY <1>c, <1>t, EpollTypes, LooksOps, EventSets
    <3> HIDE DEF e, v
    <3>3. Looks(e, DelEvents(e, Orig(c), {"out"}, v), j)
      BY <3>2, LooksOps, EventSets
    <3> QED BY <3>1, <3>2, <3>3, LooksTwice
  <2> QED BY <2>1, <2>2
<1> QED BY <1>1, <1>2, <1>3, <1>4, <1>5, <1>6 DEF Handler

(* A kept connection is watched under its new version: whatever its client *)
(* sent meanwhile is seen.                                                 *)
LEMMA KeepLooks ==
    ASSUME TypeOK, NEW c \in Conn, WatchOf(c), RequestFinalize(c), c \in retOk,
           Orig(c) \in sock.data \cup sock.eof
    PROVE  Orig(c) \in ep'.armed
<1> DEFINE v == version[c] + 1
           s == ep.ev[Orig(c)] \cup {"in"}
           e == AddEvents(ep, Orig(c), {"in"}, v)
<1>1. ep' = DelEvents(e, Orig(c), {"out"}, v)
  BY DEF RequestFinalize, FreeRequestConnection, KeepAlive
<1>2. pc[c] = "final" /\ ep.ev[Orig(c)] = {"rdhup"} /\ ep.ver[Orig(c)] = version[c]
      /\ version[c] \in Nat /\ Orig(c) \in Item
  BY Names DEF RequestFinalize, At, WatchOf, UserPC, TypeOK
<1>3. "in" \in Cond(Orig(c))
  BY DEF Cond
<1>4. e = Register(ep, Orig(c), s, v)
  BY <1>2 DEF AddEvents, Modify
<1>5. e.ev[Orig(c)] = s /\ e.ver[Orig(c)] = v /\ Orig(c) \in e.armed
  BY <1>2, <1>3, <1>4 DEF Register, TypeOK, EpSet
<1>6. s \ {"out"} = s
  BY <1>2
<1> HIDE DEF e, s, v
<1>7. DelEvents(e, Orig(c), {"out"}, v) = e
  BY <1>5, <1>6 DEF DelEvents, Modify
<1> QED BY <1>1, <1>5, <1>7


(* Only request_finalize keeps a connection.                               *)
LEMMA KeepFinal ==
    ASSUME TypeOK, Handler, ~ListenEnter, ~Limit, ~Accept, NEW c \in Conn, Keeps(c)
    PROVE  RequestFinalize(c)
<1>1. pc[c] = "final" /\ cur.item \in Owned(c)
  BY DEF Keeps, Reset
<1>2. ASSUME NEW d \in Conn, cur.item \in Owned(d) PROVE d = c
  BY <1>1, <1>2, Apart
<1>3. ASSUME NEW i \in Item, WaitThirdFunc(i) \/ Enter(i) \/ FreeIdleConnection(i) PROVE FALSE
  <2>1. cur.item = i /\ pc[i[1]] \notin Active
    BY <1>3 DEF WaitThirdFunc, Enter, FreeIdleConnection, Entering, Dispatched
  <2>2. i[1] = c
    BY <2>1, <1>2, Items
  <2> QED BY <1>1, <2>1, <2>2 DEF Active
<1>4. ASSUME NEW d \in Conn, NEW p, At(d, p) PROVE d = c /\ p = "final"
  BY <1>1, <1>2, <1>4 DEF At
<1>5. ASSUME NEW d \in Conn,
             \/ RequestInit(d) \/ Recv(d) \/ RecvResumed(d)
             \/ UserSleep(d) \/ SleepResumed(d) \/ UserThirdSocket(d) \/ ThirdResumed(d)
             \/ UserYield(d) \/ YieldResumed(d) \/ UserReturn(d) \/ Send(d) \/ SendResumed(d)
      PROVE  FALSE
  <2>1. \E p \in PC \ {"final"} : At(d, p)
    BY <1>5 DEF RequestInit, Recv, RecvResumed, UserSleep, SleepResumed, UserThirdSocket,
       ThirdResumed, UserYield, YieldResumed, UserReturn, Send, SendResumed, Blocks,
       PC, Waiting, Woken, Active
  <2> QED BY <2>1, <1>4
<1>6. ASSUME NEW d \in Conn, RequestFinalize(d) PROVE d = c
  BY <1>4, <1>6 DEF RequestFinalize
<1> QED BY <1>3, <1>5, <1>6 DEF Handler

(* What a stage of its own request does to the edges of a connection: it   *)
(* waits only for a socket it found empty, and changes what epoll watches  *)
(* only through epoll_ctl, which looks at the socket again.                *)
LEMMA EdgeRow ==
    ASSUME TypeOK, TimerInv, Handler, NEW c \in Conn, Row(c), ~Closes(c),
           WatchOf(c), CallOf(c), EdgeOf(c), \A d \in Conn : Closes(d) => d = c,
           ~ListenEnter, ~Limit, ~Accept
    PROVE  EdgeOf(c)'
<1> USE Rigid
<1>f. UNCHANGED <<batch, delay>> /\ cur' \in {cur, Nobody}
  BY RowFrame
<1>n. Orig(c) \in Item
  BY Names
<1>l. Looks(ep, ep', Orig(c))
  BY <1>n, HandlerLooks
<1>1. CASE Keeps(c)
  <2>1. /\ pc[c] = "final" /\ c \in retOk /\ pc'[c] = "idle" /\ sock' = sock
        /\ ep'.ev[Orig(c)] = (ep.ev[Orig(c)] \cup {"in"}) \ {"out"}
    BY <1>1 DEF Keeps, Reset
  <2>2. RequestFinalize(c)
    BY <1>1, KeepFinal
  <2>3. Orig(c) \in sock'.data \cup sock'.eof => Orig(c) \in ep'.armed
    BY <2>1, <2>2, KeepLooks
  <2>4. ep'.ev[Orig(c)] = READ
    BY <2>1 DEF WatchOf, UserPC, READ
  <2> QED BY <2>1, <2>3, <2>4 DEF EdgeOf, EofOf, IdleOf, ReadOf, SendOf, Pending
<1>2. CASE ~Keeps(c)
  <2>r. Row(c) /\ ~EndRow(c)
    BY <1>2 DEF EndRow
  <2>v. version'[c] = version[c]
    BY <2>r DEF Row, SleepsOn, Enters, ReadRow, Begins, Reads, ReadsMore, ReadFails,
       ReadWaits, UserRow, Sleeps, SleepEnds, ThirdWaits, ThirdEnds, Yields, YieldEnds, Returns,
       WriteRow, WriteEnds, WritesPart, WriteWaits, Stage
  <2>s. Orig(c) \in sock'.eof => Orig(c) \in sock.eof
    BY <2>r DEF Row, SleepsOn, Enters, ReadRow, Begins, Reads, ReadsMore, ReadFails,
       ReadWaits, UserRow, Sleeps, SleepEnds, ThirdWaits, ThirdEnds, Yields, YieldEnds, Returns,
       Handles, WriteRow, WriteEnds, WritesPart, WriteWaits, Drained, TypeOK, SockSet
  <2>g. /\ Orig(c) \in flags.pendingEof => Orig(c) \in flags'.pendingEof
        /\ Orig(c) \in flags.dying => Orig(c) \in flags'.dying
    <3>1. CASE SleepsOn(c) \/ Enters(c)
      BY <3>1 DEF SleepsOn, Enters, DyingIs, FlagsAre, DyingAfter
    <3>2. CASE ReadRow(c) \/ UserRow(c) \/ WriteRow(c)
      BY <3>2, Apart DEF ReadRow, Begins, Reads, ReadsMore, ReadFails, ReadWaits, UserRow,
         Sleeps, SleepEnds, ThirdWaits, ThirdEnds, Yields, YieldEnds, Returns, WriteRow,
         WriteEnds, WritesPart, WriteWaits, BlockingIs, FlagsAre
    <3> QED BY <3>1, <3>2, <2>r DEF Row
  <2>1. /\ version'[c] = version[c]
        /\ Orig(c) \in sock'.eof => Orig(c) \in sock.eof
        /\ Orig(c) \in flags.pendingEof => Orig(c) \in flags'.pendingEof
        /\ Orig(c) \in flags.dying => Orig(c) \in flags'.dying
    BY <2>v, <2>s, <2>g
  <2>2. EofOf(c)'
    <3> SUFFICES ASSUME Orig(c) \in sock'.eof, "rdhup" \in ep'.ev[Orig(c)]
                 PROVE  Pending(c, {"rdhup"})' \/ Gone(c)'
      BY DEF EofOf
    <3>1. CASE Orig(c) \in ep'.armed BY <3>1 DEF Pending
    <3>2. CASE Orig(c) \notin ep'.armed
      <4>1. "rdhup" \in ep.ev[Orig(c)] /\ Orig(c) \notin ep.armed
        BY <3>2, <2>1, <1>l DEF Looks
      <4>2. Pending(c, {"rdhup"}) \/ Gone(c)
        BY <4>1, <2>1 DEF EdgeOf, EofOf
      <4> QED BY <4>1, <4>2, <2>1, <1>f DEF Pending, Current, Gone
    <3> QED BY <3>1, <3>2
  <2>3. pc'[c] # "idle" /\ (pc'[c] = "recvWait" => ReadWaits(c))
        /\ (pc'[c] = "sendWait" => WriteWaits(c))
    <3>1. CASE SleepsOn(c)
      BY <3>1 DEF SleepsOn, Stage, CallOf, SleepPC
    <3>2. CASE Enters(c)
      BY <3>2 DEF Enters, Stage, Wake, PC, Waiting, Active
    <3>3. CASE ReadRow(c) \/ UserRow(c) \/ WriteRow(c)
      BY <3>3 DEF ReadRow, Begins, Reads, ReadsMore, ReadFails,
       ReadWaits, UserRow, Sleeps, SleepEnds, ThirdWaits, ThirdEnds, Yields, YieldEnds, Returns,
       WriteRow, WriteEnds, WritesPart, WriteWaits, Stage
    <3> QED BY <3>1, <3>2, <3>3, <2>r DEF Row
  <2>4. ReadOf(c)'
    BY <2>3 DEF ReadOf, ReadWaits, NothingToRecv
  <2>5. SendOf(c)'
    BY <2>3 DEF SendOf, WriteWaits
  <2> QED BY <2>2, <2>3, <2>4, <2>5 DEF EdgeOf, IdleOf
<1> QED BY <1>1, <1>2

LEMMA EdgeStep ==
    ASSUME Ruled, EdgeInv, [Next]_vars PROVE EdgeInv'
<1>t. TypeOK /\ TimerInv /\ LoopInv
      /\ \A c \in Conn : WatchOf(c) /\ CallOf(c) /\ CleanOf(c)
  BY DEF Ruled, Base, Safe, WatchInv, SchedInv, SchedOf, CleanInv
<1>e. \A c \in Conn : c \notin free => EdgeOf(c)
  BY DEF EdgeInv, InUse
<1> SUFFICES ASSUME NEW c \in Conn, c \notin free' PROVE EdgeOf(c)'
  BY DEF EdgeInv, InUse
<1>1. CASE Loop \/ Timers
  <2>1. c \notin free
    BY <1>t, <1>1, LoopFrame
  <2> QED BY <1>t, <1>e, <1>1, <2>1, EdgeLoop, EdgeHanded
<1>2. CASE Resumer \/ World
  <2>1. c \notin free
    BY <1>t, <1>2, WorldFrame
  <2> QED BY <1>t, <1>e, <1>2, <2>1, EdgeWorld
<1>3. CASE ListenEnter \/ Limit \/ Accept
  <2>1. c \in free => Unused(c)
    BY <1>t DEF CleanOf, Fresh
  <2> QED BY <1>t, <1>e, <1>3, <2>1, EdgeListen
<1>4. CASE Handler /\ ~(ListenEnter \/ Limit \/ Accept)
  <2>1. PICK d \in Conn : Row(d)
    BY <1>t, <1>4, HandlerRows
  <2>2. CASE d = c
    <3>1. c \notin free /\ ~Closes(c)
      <4>1. c \notin free
        BY <2>1, <2>2, <1>t, RowFrame DEF CleanOf, Fresh, Unused
      <4> QED BY <4>1 DEF Closes
    <3>2. \A b \in Conn : Closes(b) => b = c
      <4>1. cur.item \in Owned(c)
        BY <2>1, <2>2, RowFrame
      <4> QED BY <4>1, Apart DEF Closes, Reset
    <3> QED BY <1>t, <1>e, <1>4, <2>1, <2>2, <3>1, <3>2, EdgeRow
  <2>3. CASE d # c
    <3>1. SameOf(c) /\ UNCHANGED <<batch, delay>> /\ cur' \in {cur, Nobody}
          /\ cur.item # Orig(c)
      BY <2>1, <2>3, RowFrame, Apart
    <3>2. c \notin free /\ pc'[c] = pc[c] /\ version'[c] = version[c]
          /\ SameEpoll(Orig(c)) /\ SameSocket(Orig(c)) /\ SameMarks(Orig(c))
      BY <3>1 DEF SameOf, SameCall, SameItem
    <3>3. (Called(c) => Called(c)') /\ (Gone(c) => Gone(c)')
      BY <3>1, <3>2, Rigid DEF Called, Entry0, Gone, SameMarks
    <3> QED BY <1>e, <3>1, <3>2, <3>3, EdgeSame DEF SameEpoll
  <2> QED BY <2>2, <2>3
<1>5. CASE UNCHANGED vars
  <2>1. (Called(c) => Called(c)') /\ (Gone(c) => Gone(c)')
    BY <1>5 DEF Called, Entry0, Gone, vars, Orig
  <2> QED BY <1>5, <1>e, <2>1, EdgeSame DEF vars, SameWatch, SameSocket
<1> QED BY <1>1, <1>2, <1>3, <1>4, <1>5 DEF Next

(* No edge of a socket is lost: a coroutine that waits for its socket, an  *)
(* idle connection, and a suspended coroutine whose client is gone, have   *)
(* the event queued in epoll, in the batch, being dispatched, or marked.   *)
THEOREM NoEdgeIsLost == Spec => []NoLostWakeup
<1>1. Init => Ruled /\ EdgeInv
  <2>1. Init => EdgeInv
    BY DEF Init, EdgeInv, InUse
  <2> QED BY <2>1, RuledInit
<1>2. Ruled /\ EdgeInv /\ [Next]_vars => Ruled' /\ EdgeInv'
  BY RuledStep, EdgeStep
<1>3. Ruled /\ EdgeInv => NoLostWakeup
  <2> SUFFICES ASSUME Ruled, EdgeInv, NEW c \in InUse
               PROVE  /\ pc[c] \in {"idle", "recvWait"} /\ Orig(c) \in sock.data \cup sock.eof
                            => Noticed(c, READ)
                      /\ pc[c] = "sendWait" /\ Orig(c) \in sock.room => Noticed(c, {"out"})
                      /\ pc[c] \in Waiting /\ Orig(c) \in sock.eof
                            => Noticed(c, {"rdhup"}) \/ Flagged(Orig(c))
    BY DEF NoLostWakeup
  <2>1. EdgeOf(c) /\ WatchOf(c)
    BY DEF EdgeInv, InUse, Ruled, Base, WatchInv
  <2>2. \A evs : (Called(c) \/ Pending(c, evs) => Noticed(c, evs))
    BY DEF Called, Pending, Current, Noticed, Entry0
  <2>3. WriteLeft(c) => Noticed(c, {"out"})
    BY DEF WriteLeft, Noticed
  <2>4. pc[c] \in Waiting => "rdhup" \in ep.ev[Orig(c)]
    BY <2>1 DEF WatchOf, Waiting, RecvPC, SendPC, UserPC, READ
  <2>5. Gone(c) => Flagged(Orig(c))
    BY DEF Gone, Flagged
  <2> QED BY <2>1, <2>2, <2>3, <2>4, <2>5 DEF EdgeOf, EofOf, ReadOf, SendOf
<1> QED BY <1>1, <1>2, <1>3, PTL DEF Spec
=============================================================================
